---------------------------- MODULE FencedBoard -----------------------------
(***************************************************************************)
(* What the claims of a loop ledger promise: a board of tasks on which at  *)
(* most one agent holds a task, every grant carries a higher fence than    *)
(* any grant of that task before, and a task is worked on only while it is *)
(* held.                                                                   *)
(***************************************************************************)
EXTENDS Naturals

CONSTANTS Task, Agent, Nobody

VARIABLES
    holder,   \* task -> its holder or Nobody
    fence,    \* task -> the fence of its last grant
    busy      \* the tasks being worked on

vars == <<holder, fence, busy>>

Init ==
    /\ holder = [t \in Task |-> Nobody]
    /\ fence = [t \in Task |-> 0]
    /\ busy = {}

Grant(t, a) ==
    /\ holder[t] = Nobody
    /\ holder' = [holder EXCEPT ![t] = a]
    /\ fence'[t] > fence[t]
    /\ fence' = [fence EXCEPT ![t] = fence'[t]]
    /\ UNCHANGED busy

\* The holder starts or ends work on the task.
Work(t) ==
    /\ holder[t] # Nobody
    /\ busy' \in {busy \cup {t}, busy \ {t}}
    /\ UNCHANGED <<holder, fence>>

\* Some holds end, and with them the work they protected.
Drop(S) ==
    /\ \A t \in S : holder[t] # Nobody
    /\ holder' = [t \in Task |-> IF t \in S THEN Nobody ELSE holder[t]]
    /\ busy' = busy \ S
    /\ UNCHANGED fence

Next ==
    \/ \E t \in Task, a \in Agent : Grant(t, a)
    \/ \E t \in Task : Work(t)
    \/ \E S \in SUBSET Task : Drop(S)

Spec == Init /\ [][Next]_vars

=============================================================================
