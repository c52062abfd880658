----------------------------- MODULE AppendLog ------------------------------
(***************************************************************************)
(* What a store promises to its writers (the ledger file, the operations   *)
(* table of the memory database): a log to which each request is appended  *)
(* at most once, and of which a secured prefix is never lost.              *)
(***************************************************************************)
EXTENDS Naturals, Sequences

CONSTANT Request

VARIABLES
    log,      \* the requests appended so far
    secured   \* length of the prefix that survives a power failure

vars == <<log, secured>>

Contains(r) == \E i \in 1 .. Len(log) : log[i] = r

Init == log = << >> /\ secured = 0

AppendRequest(r) ==
    /\ ~ Contains(r)
    /\ log' = Append(log, r)
    /\ UNCHANGED secured

Secure(n) ==
    /\ n \in secured .. Len(log)
    /\ secured' = n
    /\ UNCHANGED log

\* A power failure takes back a suffix that was not secured; what is left is
\* on disk.
Lose(n) ==
    /\ n \in secured .. Len(log)
    /\ log' = SubSeq(log, 1, n)
    /\ secured' = n

Next ==
    \/ \E r \in Request : AppendRequest(r)
    \/ \E n \in 0 .. Len(log) : Secure(n) \/ Lose(n)

Spec == Init /\ [][Next]_vars

=============================================================================
