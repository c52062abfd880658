------------------------- MODULE MCMemoryGovernance -------------------------
(***************************************************************************)
(* Two cores on one root with one item.                                    *)
(***************************************************************************)
EXTENDS MemoryGovernance, TLC

Symmetry == Permutations(Core) \cup Permutations(Operation) \cup Permutations(Item)
            \cup Permutations(Copies)

\* The states that TLC tells apart: nothing that comes later, and no property,
\* depends on which of the codes left a caller without an answer.
Answers == [op \in Operation |->
              IF outcome[op] \in {"unknown", "failed"} THEN "open" ELSE outcome[op]]
AnswersView == <<durable, host, memory, preview, Answers>>

=============================================================================
