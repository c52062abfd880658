---------------------------- MODULE LoopHistory -----------------------------
(***************************************************************************)
(* What the event history of a ledger says: it replays to the materialized *)
(* view (loop_yaml.replay_ledger and semantic_audit), and it alone shows   *)
(* that claims were not reassigned early and that results were recorded    *)
(* under a live fence.                                                     *)
(***************************************************************************)
EXTENDS LoopLedger

Positions == 1 .. Len(log)

-----------------------------------------------------------------------------
(* Replay.                                                                 *)

FaultyReplayHead == ledger.head

\* replay_ledger starts from the source that the first rebound left, or from
\* the current one if there was none.
ReplayHead ==
    LET rebounds == {i \in Positions : log[i].type = "source_rebound"} IN
    IF rebounds = {} THEN ledger.head
    ELSE log[CHOOSE i \in rebounds : \A j \in rebounds : i =< j].from

\* The states of a replay: Replayed[n] is the one after the first n events.
Replayed[n \in 0 .. Len(log)] ==
    IF n = 0 THEN ManifestState(ReplayHead)
             ELSE Effect(Replayed[n - 1], log[n])

\* Every history that live writes produced is accepted by a replay, which
\* has neither clock nor authority, and ends in the materialized view; the
\* audit that precedes every write would otherwise reject the ledger for
\* good.
HistoryReplays ==
    /\ \A i \in Positions : Accepts(Replayed[i - 1], log[i])
    /\ Replayed[Len(log)] = ledger

-----------------------------------------------------------------------------
(* Claims in the history.                                                  *)

Acquires(i, t) == log[i].type = "claim_acquired" /\ log[i].task = t

\* Event i ends the claim of task t.
Ends(i, t) ==
    \/ log[i].type \in DOMAIN ClosedAs /\ log[i].task = t
    \/ log[i].type = "source_rebound" /\ t \in log[i].lapsed

\* Between two acquisitions of one task the first holder released the claim,
\* an authorised principal revoked it, or its lease had ended; the second
\* holder has a higher token.
UnexpiredClaimNotReassigned ==
    \A t \in Task : \A i, j \in Positions :
       i < j /\ Acquires(i, t) /\ Acquires(j, t) =>
          /\ log[i].token < log[j].token
          /\ \E k \in i + 1 .. j - 1 :
                /\ Ends(k, t)
                /\ \/ log[k].type = "claim_released" /\ log[k].actor = log[i].actor
                   \/ log[k].type = "claim_revoked" /\ log[k].by = log[k].actor
                   \/ log[i].lease =< log[k].at

\* Event i moves task t under the claim acquired by event j.
HeldSince(j, i, t) ==
    /\ Acquires(j, t)
    /\ \A k \in j + 1 .. i : ~ Ends(k, t) /\ ~ Acquires(k, t)

\* Every recorded result (reviewing, done) comes from the owner of the claim
\* that is current at that point of the history, with its token, dated
\* inside the lease: a worker that lost the claim cannot deliver late.
ResultsCarryLiveFence ==
    \A i \in Positions :
       log[i].type = "task_transition" /\ log[i].target \in {"reviewing", "done"} =>
          \E j \in 1 .. i - 1 :
             /\ HeldSince(j, i, log[i].task)
             /\ log[j].actor = log[i].actor
             /\ log[j].token = log[i].token
             /\ log[i].at < log[j].lease

\* A task with a required gate became done only while the last update of
\* that gate was "satisfied", signed by a user or the platform as its own
\* actor: no assertion in the payload and no older approval counts.
DoneBehindGate ==
    \A i \in Positions :
       /\ log[i].type = "task_transition"
       /\ log[i].target = "done"
       /\ GateOf[log[i].task] # NoGate
       => \E j \in 1 .. i - 1 :
            /\ log[j].type = "gate_updated"
            /\ log[j].gate = GateOf[log[i].task]
            /\ log[j].to = "satisfied"
            /\ log[j].by = log[j].actor
            /\ Role[log[j].by] \in {"user", "platform"}
            /\ \A k \in j + 1 .. i - 1 :
                  log[k].type = "gate_updated" => log[k].gate # log[j].gate

=============================================================================
