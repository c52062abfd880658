---------------------------- MODULE MCLoopLedger ----------------------------
(***************************************************************************)
(* Instances of LoopLedger.  "Gated": one task that needs a review and a   *)
(* human gate, carried through to the end of the objective.  "Pair": two   *)
(* tasks whose claims, leases and rebounds interleave.  "History": one     *)
(* task without a gate that is claimed, loses its claim in every way and   *)
(* is claimed again, in all its histories.                                 *)
(***************************************************************************)
EXTENDS LoopHistory

CONSTANTS t1, t2, worker, maintainer, release

MCAgent == {worker, maintainer}
MCRole == [a \in MCAgent |-> IF a = worker THEN "worker" ELSE "user"]

GatedTask == {t1}
GatedDeps == [t \in GatedTask |-> {}]
GatedGate == {release}
GatedGateOf == [t \in GatedTask |-> release]
FreeGateOf == [t \in GatedTask |-> NoGate]
GatedStart == [t \in GatedTask |-> "ready"]
GatedOffers ==
    { {}, {"blocker"}, {"blocker_resolved"}, {"artifact", "verified"},
      {"verified", "reviewed", "gate_clear"}, {"reopen"},
      {"verified", "reviewed", "acceptance"} }

PairTask == {t1, t2}
PairDeps == [t \in PairTask |-> {}]
PairGateOf == [t \in PairTask |-> NoGate]
PairStart == [t \in PairTask |-> "ready"]
PairOffers ==
    { {}, {"blocker"}, {"blocker_resolved"}, {"artifact", "verified"},
      {"verified", "review_waived", "gate_clear"} }

NoTask == {}
AllGateOffers == GateStatus \ {"absent"}
SomeGateOffers == {"pending", "satisfied"}
HistoryOffers ==
    { {"blocker_resolved"}, {"artifact", "verified", "reviewed", "gate_clear"} }

\* Reviews may also be waived in the evidence of an acceptance.
WaiverOffers ==
    GatedOffers \cup { {"verified", "review_waived", "acceptance"} }

\* The history does not influence any step.
View == <<ledger, now, repo>>

\* Where histories are asked about gates: DoneBehindGate holds after one more
\* event if it did before, and that event is no done or goes by the last update
\* of the (only) gate, so that no more of the history need be told apart.
GateUpdates == {i \in Positions : log[i].type = "gate_updated"}
LastUpdate ==
    {[to |-> log[i].to, actor |-> log[i].actor, by |-> log[i].by] :
       i \in {k \in GateUpdates : \A j \in GateUpdates : j =< k}}
GatedView == <<View, LastUpdate, DoneBehindGate>>

=============================================================================
