----------------------------- MODULE LoopLedger -----------------------------
(***************************************************************************)
(* The life of one loop ledger: writers submit events of every type, the   *)
(* trusted clock advances, and the repository that holds the ledger gets   *)
(* new commits (loopctl.command_apply_event without its file protocol,     *)
(* which is LedgerWrite).  An event is committed if the reducer accepts it *)
(* (LoopCore), the live checks pass and the resulting view passes the      *)
(* audit; a rejected event leaves everything as it was and is not a step.  *)
(***************************************************************************)
EXTENDS LoopCore, Sequences

CONSTANTS
    Offers,       \* the evidence writers submit: a set of sets of facts
    GateOffers,   \* the gate statuses they submit
    Skew,         \* how far after trusted time their events may be dated
    MaxTime,      \* bounds: time stamps,
    MaxGen,       \*         fencing generations,
    MaxHead,      \*         commits of the repository,
    MaxRevision   \*         events

ASSUME BoundAssumption ==
    /\ Offers \subseteq SUBSET Fact
    /\ GateOffers \subseteq GateStatus \ {"absent"}
    /\ {Skew, MaxTime, MaxGen, MaxHead, MaxRevision} \subseteq Nat

VARIABLES
    ledger,   \* the materialized view in the ledger file
    log,      \* its event history
    now,      \* trusted current time
    repo      \* the Git repository around the file

vars == <<ledger, log, now, repo>>

\* HEAD, the commit that last changed the ledger blob, and whether the
\* working copy of the ledger differs from HEAD.
Repository == [head : Nat, ledgerAt : Nat, dirty : BOOLEAN]

TypeOK ==
    /\ ledger \in LedgerState
    /\ log \in Seq(Event)
    /\ now \in Nat
    /\ repo \in Repository

Init ==
    /\ ledger = ManifestState(0)
    /\ log = << >>
    /\ now = 0
    /\ repo = [head |-> 0, ledgerAt |-> 0, dirty |-> TRUE]

-----------------------------------------------------------------------------
(* Steps of writers.                                                       *)

NextSeq == ledger.revision + 1
Times == ledger.updatedAt .. now + Skew

\* A bound authorization is submitted where some rule asks for one.
Signers(needed) == IF needed THEN Agent \cup {Nobody} ELSE {Nobody}

\* An active ledger accepts events only at the exact HEAD it names; a
\* rebound only moves a committed, unmodified ledger, checkpointed by HEAD
\* itself, from an older commit to HEAD.
SourceVerified(e) ==
    IF e.type = "source_rebound"
      THEN /\ ledger.head < repo.head
           /\ e.target = repo.head
           /\ repo.ledgerAt = repo.head
           /\ ~ repo.dirty
      ELSE ledger.head = repo.head

Write(e) ==
    /\ SourceVerified(e)
    /\ \E granted \in BOOLEAN : Commits(ledger, e, granted, now)
    /\ ledger' = Effect(ledger, e)
    /\ log' = Append(log, e)
    /\ repo' = [repo EXCEPT !.dirty = TRUE]
    /\ UNCHANGED now

Room == ledger.revision < MaxRevision

Transition ==
    /\ Room
    /\ \E t \in Task, a \in Agent, f \in Offers, at \in Times :
       \E n \in 0 .. ledger.claims[t].gen :
       \E target \in LegalTransitions[ledger.status[t]] :
       \E p \in Signers(target \in {"done", "accepted"}) :
           Write([type |-> "task_transition", seq |-> NextSeq, at |-> at,
                  actor |-> a, by |-> p, task |-> t, token |-> n,
                  target |-> target, facts |-> f])

AcquireClaim ==
    /\ Room
    /\ \E t \in Task, a \in Agent, at \in Times, n \in 1 .. MaxGen,
          l \in 1 .. MaxTime :
         Write([type |-> "claim_acquired", seq |-> NextSeq, at |-> at,
                actor |-> a, by |-> Nobody, task |-> t, token |-> n,
                claimedAt |-> at, lease |-> l])

CloseClaim ==
    /\ Room
    /\ \E type \in DOMAIN ClosedAs, t \in Active(ledger), a \in Agent,
          at \in Times, n \in 1 .. MaxGen :
       \E p \in Signers(type = "claim_revoked") :
         Write([type |-> type, seq |-> NextSeq, at |-> at, actor |-> a,
                by |-> p, task |-> t, token |-> n])

UpdateGate ==
    /\ Room
    /\ \E g \in Gate, v \in GateOffers, a \in Agent, at \in Times :
       \E p \in Signers(v \in {"not_required", "satisfied"}) :
         Write([type |-> "gate_updated", seq |-> NextSeq, at |-> at,
                actor |-> a, by |-> p, gate |-> g, to |-> v])

RebindSource ==
    /\ Room
    /\ \E a \in Agent, p \in Signers(TRUE), at \in Times,
          r \in SUBSET Active(ledger), x \in SUBSET Active(ledger) :
         Write([type |-> "source_rebound", seq |-> NextSeq, at |-> at,
                actor |-> a, by |-> p, from |-> ledger.head,
                target |-> repo.head, rebind |-> r, lapsed |-> x])

CompleteObjective ==
    /\ Room
    /\ \E a \in Agent, p \in Signers(TRUE), at \in Times :
         Write([type |-> "objective_completed", seq |-> NextSeq, at |-> at,
                actor |-> a, by |-> p])

-----------------------------------------------------------------------------
(* The world around the writers.                                           *)

Tick ==
    /\ now < MaxTime
    /\ now' = now + 1
    /\ UNCHANGED <<ledger, log, repo>>

\* A commit of the repository; it takes the ledger along if the ledger is
\* modified and staged.
CommitTree(withLedger) ==
    /\ repo.head < MaxHead
    /\ withLedger => repo.dirty
    /\ repo' = [head |-> repo.head + 1,
                ledgerAt |-> IF withLedger THEN repo.head + 1 ELSE repo.ledgerAt,
                dirty |-> repo.dirty /\ ~ withLedger]
    /\ UNCHANGED <<ledger, log, now>>

Next ==
    \/ Transition
    \/ AcquireClaim
    \/ CloseClaim
    \/ UpdateGate
    \/ RebindSource
    \/ CompleteObjective
    \/ Tick
    \/ \E withLedger \in BOOLEAN : CommitTree(withLedger)

Spec == Init /\ [][Next]_vars

-----------------------------------------------------------------------------
(* Safety.                                                                 *)

\* Work in flight is always fenced: no event (a release, an expiry, a
\* revocation, a rebound that sweeps several claims) leaves a task
\* in_progress or reviewing without an active claim.  The audit looks at
\* in_progress only.
WorkIsFenced ==
    \A t \in Task :
       ledger.status[t] \in {"in_progress", "reviewing"} => t \in Active(ledger)

\* No claim is recorded as expired before trusted time has reached the end
\* of its lease, whichever event recorded it (claim_expired, source_rebound).
ExpiredAfterDeadline ==
    \A t \in Task :
       ledger.claims[t].status = "expired" => ledger.claims[t].lease =< now

\* A complete objective stays settled: every task is terminal and nobody
\* holds a claim, whatever is submitted later (claims on a done task stay
\* active until they are released).
CompleteIsSettled ==
    ledger.objective = "complete" =>
       /\ \A t \in Task : ledger.status[t] \in {"done", "accepted", "cancelled"}
       /\ Active(ledger) = {}

\* An accepted or cancelled task never changes status again: no claim that
\* outlives the work may expire or be revoked and turn it into blocked.
FinalIsFinal ==
    [][\A t \in Task : ledger.status[t] \in {"accepted", "cancelled"} =>
          ledger'.status[t] = ledger.status[t]]_vars

\* A claim becomes active only with a generation above every earlier one of
\* its task, so no token that was ever released, expired or revoked can
\* become valid again.
FencesGrow ==
    [][\A t \in Task :
          /\ ledger'.claims[t].gen >= ledger.claims[t].gen
          /\ t \in Active(ledger') \ Active(ledger) =>
                ledger'.claims[t].gen > ledger.claims[t].gen]_vars

\* A result (reviewing, then done) is only ever recorded while its claim is
\* active and trusted time is before the end of the lease, even if the
\* event is dated back into the lease.
ResultsInTime ==
    [][\A t \in Task :
          ledger'.status[t] \in {"reviewing", "done"} \ {ledger.status[t]} =>
             t \in Active(ledger) /\ now < ledger.claims[t].lease]_vars

Revocation(t, a) ==
    [type |-> "claim_revoked", seq |-> NextSeq, at |-> ledger.updatedAt,
     actor |-> a, by |-> a, task |-> t, token |-> ledger.claims[t].gen]

\* Every active claim can be revoked at any time by a user or coordinator,
\* however late the clock is and however the other leases ended (claim_expired
\* does not have this property: of two claims with equal leases neither can
\* expire, because the audit rejects the other one as overdue).
RevocationAlwaysPossible ==
    \A t \in Active(ledger), a \in Agent :
       Role[a] \in {"user", "coordinator"} =>
          Commits(ledger, Revocation(t, a), TRUE, now)

RebindNow(a) ==
    [type |-> "source_rebound", seq |-> NextSeq, at |-> now, actor |-> a,
     by |-> a, from |-> ledger.head, target |-> repo.head,
     rebind |-> Active(ledger) \ LapsedAt(ledger, now),
     lapsed |-> LapsedAt(ledger, now)]

\* The bridge after a checkpoint is never blocked by the claims it finds: if
\* HEAD has moved, and no event is dated in the future, a rebound
\* dated now is acceptable, lapsed claims or not.
RebindAlwaysPossible ==
    \A a \in Agent :
       /\ ledger.objective = "active"
       /\ ledger.head < repo.head
       /\ ledger.updatedAt =< now
       /\ Role[a] \in {"user", "platform"}
       => Commits(ledger, RebindNow(a), TRUE, now)

-----------------------------------------------------------------------------
(* The ledger implements the board of fenced tasks.                        *)

holderOf == [t \in Task |-> IF t \in Active(ledger) THEN ledger.claims[t].owner
                                                   ELSE Nobody]
fenceOf == [t \in Task |-> ledger.claims[t].gen]
busyTasks == {t \in Task : ledger.status[t] \in {"in_progress", "reviewing"}}

Board == INSTANCE FencedBoard
            WITH holder <- holderOf, fence <- fenceOf, busy <- busyTasks

\* Whatever events are committed, the claims behave like grants of a fenced
\* board: one rebound may end several holds at once, and with each the work
\* it protected.
ImplementsBoard == Board!Spec

-----------------------------------------------------------------------------
(* What the documentation says and the code does not enforce.              *)

\* docs/loop-state-ledger.md: an objective is complete when every human gate
\* is satisfied by current evidence.  The code reads a gate once, when the
\* task that requires it becomes done, and objective_completed does not look
\* at gates; gate_updated may have set it back to pending in between.
GatesSettledAtCompletion ==
    ledger.objective = "complete" =>
       \A t \in Task : /\ GateOf[t] # NoGate
                       /\ ledger.status[t] \in {"done", "accepted"}
                       => ledger.gates[GateOf[t]] = "satisfied"

\* The same rule for reviews: the current evidence of a finished task whose
\* manifest requires a review shows one.  An acceptance replaces the
\* evidence, and only the audit looks at it, which is content with
\* "not_required".
ReviewsSettledAtCompletion ==
    ledger.objective = "complete" =>
       \A t \in NeedsReview :
          ledger.status[t] \in {"done", "accepted"} => "reviewed" \in ledger.evidence[t]

=============================================================================
