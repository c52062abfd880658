-------------------------- MODULE LoopLedgerProofs --------------------------
(***************************************************************************)
(* Proofs about LoopLedger, for any manifest, any set of agents and any    *)
(* bounds.                                                                 *)
(***************************************************************************)
EXTENDS LoopLedger, TLAPS

USE DEF LedgerState, Claim

-----------------------------------------------------------------------------
(* Types.                                                                  *)

LEMMA TransitionType ==
    ASSUME NEW s \in LedgerState, NEW e \in TransitionEvent
    PROVE  Transitioned(s, e) \in LedgerState
BY ZenonT(60) DEF Transitioned, TransitionEvent, Fact, AuditedFact

LEMMA AcquireType ==
    ASSUME NEW s \in LedgerState, NEW e \in AcquireEvent
    PROVE  Acquired(s, e) \in LedgerState
BY DEF Acquired, AcquireEvent, ClaimStatus

LEMMA CloseType ==
    ASSUME NEW s \in LedgerState, NEW e \in CloseEvent
    PROVE  Closed(s, e) \in LedgerState
<1>1. e.task \in Task /\ e.type \in {"claim_released", "claim_expired", "claim_revoked"}
  BY DEF CloseEvent
<1>2. ClosedAs[e.type] \in ClaimStatus
  BY <1>1 DEF ClosedAs, ClaimStatus
<1>3. [s.claims[e.task] EXCEPT !.status = ClosedAs[e.type]] \in Claim
  BY SMTT(40), <1>1, <1>2
<1> QED BY <1>1, <1>3 DEF Closed, Status

LEMMA ReboundType ==
    ASSUME NEW s \in LedgerState, NEW e \in ReboundEvent
    PROVE  Rebound(s, e) \in LedgerState
<1> DEFINE finished == {t \in Task : s.status[t] \in {"done", "accepted", "cancelled"}}
           claimOf(t) == LET c == s.claims[t] IN
                         IF c.status = "none" THEN c
                         ELSE [c EXCEPT !.head = e.target,
                                        !.status = IF t \notin e.lapsed THEN @
                                                   ELSE IF t \in finished THEN "released"
                                                   ELSE "expired"]
           statusOf(t) == IF t \in e.lapsed \ finished THEN "blocked" ELSE s.status[t]
<1>1. e.target \in Nat
  BY DEF ReboundEvent
<1>2. ASSUME NEW t \in Task PROVE claimOf(t) \in Claim
  <2> DEFINE c == s.claims[t]
             left == IF t \notin e.lapsed THEN c.status
                     ELSE IF t \in finished THEN "released" ELSE "expired"
  <2>1. c \in Claim
    OBVIOUS
  <2>2. left \in ClaimStatus
    <3> HIDE DEF finished
    <3> QED BY <2>1 DEF ClaimStatus
  <2>3. claimOf(t) = IF c.status = "none" THEN c
                     ELSE [c EXCEPT !.head = e.target, !.status = left]
    OBVIOUS
  <2> HIDE DEF c, left, finished, claimOf
  <2> QED BY ZenonT(60), <1>1, <2>1, <2>2, <2>3
<1>3. ASSUME NEW t \in Task PROVE statusOf(t) \in Status
  BY DEF Status
<1>4. Rebound(s, e) = [s EXCEPT !.head = e.target,
                                !.claims = [t \in Task |-> claimOf(t)],
                                !.status = [t \in Task |-> statusOf(t)]]
  BY DEF Rebound
<1>5. [t \in Task |-> claimOf(t)] \in [Task -> Claim]
  <2> HIDE DEF claimOf
  <2> QED BY <1>2
<1>6. [t \in Task |-> statusOf(t)] \in [Task -> Status]
  <2> HIDE DEF statusOf
  <2> QED BY <1>3
<1> HIDE DEF claimOf, statusOf
<1> QED BY ZenonT(60), <1>1, <1>4, <1>5, <1>6

LEMMA GateType ==
    ASSUME NEW s \in LedgerState, NEW e \in GateEvent
    PROVE  [s EXCEPT !.gates[e.gate] = e.to] \in LedgerState
BY DEF GateEvent

LEMMA CompleteType ==
    ASSUME NEW s \in LedgerState
    PROVE  [s EXCEPT !.objective = "complete"] \in LedgerState
OBVIOUS

\* What the state is after an event of each type.
LEMMA EffectCases ==
    ASSUME NEW s \in LedgerState, NEW e \in Event
    PROVE  \E r \in LedgerState :
             /\ Effect(s, e) = [r EXCEPT !.revision = s.revision + 1, !.updatedAt = e.at]
             /\ \/ e \in TransitionEvent /\ r = Transitioned(s, e)
                \/ e \in AcquireEvent /\ r = Acquired(s, e)
                \/ e \in CloseEvent /\ r = Closed(s, e)
                \/ e \in GateEvent /\ r = [s EXCEPT !.gates[e.gate] = e.to]
                \/ e \in ReboundEvent /\ r = Rebound(s, e)
                \/ e \in CompleteEvent /\ r = [s EXCEPT !.objective = "complete"]
<1>1. CASE e \in TransitionEvent
  <2>1. e.type = "task_transition"
    BY <1>1 DEF TransitionEvent
  <2>2. Effect(s, e) = [Transitioned(s, e) EXCEPT !.revision = s.revision + 1,
                                                  !.updatedAt = e.at]
    BY <2>1 DEF Effect, ClosedAs
  <2> QED BY <1>1, <2>2, TransitionType
<1>2. CASE e \in AcquireEvent
  <2>1. e.type = "claim_acquired"
    BY <1>2 DEF AcquireEvent
  <2> QED BY <1>2, <2>1, AcquireType DEF Effect, ClosedAs
<1>3. CASE e \in CloseEvent
  <2>1. e.type \in DOMAIN ClosedAs
    BY <1>3 DEF CloseEvent, ClosedAs
  <2>2. e.type # "task_transition" /\ e.type # "claim_acquired"
        /\ e.type # "gate_updated" /\ e.type # "source_rebound"
        /\ e.type # "objective_completed"
    BY <1>3 DEF CloseEvent
  <2> QED BY <1>3, <2>1, <2>2, CloseType DEF Effect
<1>4. CASE e \in GateEvent
  <2>1. e.type = "gate_updated"
    BY <1>4 DEF GateEvent
  <2> QED BY <1>4, <2>1, GateType DEF Effect, ClosedAs, GateUpdated
<1>5. CASE e \in ReboundEvent
  <2>1. e.type = "source_rebound"
    BY <1>5 DEF ReboundEvent
  <2> QED BY <1>5, <2>1, ReboundType DEF Effect, ClosedAs
<1>6. CASE e \in CompleteEvent
  <2>1. e.type = "objective_completed"
    BY <1>6 DEF CompleteEvent
  <2> QED BY <1>6, <2>1, CompleteType DEF Effect, ClosedAs
<1> QED BY <1>1, <1>2, <1>3, <1>4, <1>5, <1>6 DEF Event

LEMMA EffectType ==
    ASSUME NEW s \in LedgerState, NEW e \in Event
    PROVE  Effect(s, e) \in LedgerState
<1>1. e.at \in Nat
  BY DEF Event, TransitionEvent, AcquireEvent, CloseEvent, GateEvent,
         ReboundEvent, CompleteEvent
<1>2. PICK r \in LedgerState :
         Effect(s, e) = [r EXCEPT !.revision = s.revision + 1, !.updatedAt = e.at]
  BY ZenonT(60), EffectCases
<1>3. s.revision + 1 \in Nat
  OBVIOUS
<1>4. ASSUME NEW n \in Nat, NEW m \in Nat
      PROVE  [r EXCEPT !.revision = n, !.updatedAt = m] \in LedgerState
  OBVIOUS
<1> QED BY ZenonT(60), <1>1, <1>2, <1>3, <1>4

-----------------------------------------------------------------------------
(* Every step writes one event or leaves the ledger alone.                 *)

USE ManifestAssumption, BoundAssumption

LEMMA SkewType == Skew \in Nat
BY DEF BoundAssumption

LEMMA TimesType ==
    ASSUME TypeOK, NEW at \in Times
    PROVE  at \in Nat
BY SMTT(40), SkewType DEF TypeOK, Times

LEMMA SignersType ==
    ASSUME NEW needed, NEW p \in Signers(needed)
    PROVE  p \in Agent \cup {Nobody}
BY DEF Signers

LEMMA TargetType ==
    ASSUME NEW st \in Status, NEW target \in LegalTransitions[st]
    PROVE  target \in Status
BY DEF LegalTransitions, Status

LEMMA StepCases ==
    ASSUME TypeOK, [Next]_vars
    PROVE  \/ \E e \in Event : Write(e)
           \/ /\ UNCHANGED <<ledger, log>>
              /\ now' \in {now, now + 1}
              /\ repo' \in Repository
<1> USE DEF TypeOK
<1>0. NextSeq \in Nat
  BY SMTT(40) DEF NextSeq
<1>1. CASE Transition
  <2>1. PICK t \in Task, a \in Agent, f \in Offers, at \in Times :
          \E n \in 0 .. ledger.claims[t].gen :
          \E target \in LegalTransitions[ledger.status[t]] :
          \E p \in Signers(target \in {"done", "accepted"}) :
            Write([type |-> "task_transition", seq |-> NextSeq, at |-> at,
                   actor |-> a, by |-> p, task |-> t, token |-> n,
                   target |-> target, facts |-> f])
    BY <1>1 DEF Transition
  <2>2. PICK n \in 0 .. ledger.claims[t].gen,
             target \in LegalTransitions[ledger.status[t]] :
          \E p \in Signers(target \in {"done", "accepted"}) :
            Write([type |-> "task_transition", seq |-> NextSeq, at |-> at,
                   actor |-> a, by |-> p, task |-> t, token |-> n,
                   target |-> target, facts |-> f])
    BY <2>1
  <2>3. PICK p \in Signers(target \in {"done", "accepted"}) :
          Write([type |-> "task_transition", seq |-> NextSeq, at |-> at,
                 actor |-> a, by |-> p, task |-> t, token |-> n,
                 target |-> target, facts |-> f])
    BY <2>2
  <2>4. ledger.status[t] \in Status /\ ledger.claims[t].gen \in Nat
    OBVIOUS
  <2>5. target \in Status
    BY <2>4, TargetType
  <2>6. n \in Nat /\ at \in Nat
    BY SMTT(40), <2>4, TimesType
  <2>7. p \in Agent \cup {Nobody}
    BY SignersType
  <2>8. f \in SUBSET Fact
    BY DEF BoundAssumption
  <2> QED BY SMTT(30), <1>0, <2>3, <2>5, <2>6, <2>7, <2>8 DEF Event, TransitionEvent
<1>2. CASE AcquireClaim
  <2>1. PICK t \in Task, a \in Agent, at \in Times, n \in 1 .. MaxGen,
             l \in 1 .. MaxTime :
          Write([type |-> "claim_acquired", seq |-> NextSeq, at |-> at,
                 actor |-> a, by |-> Nobody, task |-> t, token |-> n,
                 claimedAt |-> at, lease |-> l])
    BY <1>2 DEF AcquireClaim
  <2>2. at \in Nat /\ n \in Nat /\ l \in Nat
    BY SMTT(40), TimesType
  <2> QED BY SMTT(30), <1>0, <2>1, <2>2 DEF Event, AcquireEvent
<1>3. CASE CloseClaim
  <2>1. PICK type \in DOMAIN ClosedAs, t \in Active(ledger), a \in Agent,
             at \in Times, n \in 1 .. MaxGen :
          \E p \in Signers(type = "claim_revoked") :
            Write([type |-> type, seq |-> NextSeq, at |-> at, actor |-> a,
                   by |-> p, task |-> t, token |-> n])
    BY <1>3 DEF CloseClaim
  <2>2. PICK p \in Signers(type = "claim_revoked") :
          Write([type |-> type, seq |-> NextSeq, at |-> at, actor |-> a,
                 by |-> p, task |-> t, token |-> n])
    BY <2>1
  <2>3. at \in Nat /\ n \in Nat /\ p \in Agent \cup {Nobody} /\ t \in Task
    BY SMTT(40), TimesType, SignersType DEF Active
  <2>4. type \in {"claim_released", "claim_expired", "claim_revoked"}
    BY DEF ClosedAs
  <2> QED BY SMTT(30), <1>0, <2>2, <2>3, <2>4 DEF Event, CloseEvent
<1>4. CASE UpdateGate
  <2>1. PICK g \in Gate, v \in GateOffers, a \in Agent, at \in Times :
          \E p \in Signers(v \in {"not_required", "satisfied"}) :
            Write([type |-> "gate_updated", seq |-> NextSeq, at |-> at,
                   actor |-> a, by |-> p, gate |-> g, to |-> v])
    BY <1>4 DEF UpdateGate
  <2>2. PICK p \in Signers(v \in {"not_required", "satisfied"}) :
          Write([type |-> "gate_updated", seq |-> NextSeq, at |-> at,
                 actor |-> a, by |-> p, gate |-> g, to |-> v])
    BY <2>1
  <2>3. at \in Nat /\ p \in Agent \cup {Nobody} /\ v \in GateStatus \ {"absent"}
    BY TimesType, SignersType DEF BoundAssumption
  <2> QED BY SMTT(30), <1>0, <2>2, <2>3 DEF Event, GateEvent
<1>5. CASE RebindSource
  <2>1. PICK a \in Agent, p \in Signers(TRUE), at \in Times,
             r \in SUBSET Active(ledger), x \in SUBSET Active(ledger) :
          Write([type |-> "source_rebound", seq |-> NextSeq, at |-> at,
                 actor |-> a, by |-> p, from |-> ledger.head,
                 target |-> repo.head, rebind |-> r, lapsed |-> x])
    BY <1>5 DEF RebindSource
  <2>2. at \in Nat /\ p \in Agent \cup {Nobody} /\ ledger.head \in Nat
        /\ repo.head \in Nat /\ r \in SUBSET Task /\ x \in SUBSET Task
    BY TimesType, SignersType DEF Active, Repository
  <2> QED BY SMTT(30), <1>0, <2>1, <2>2 DEF Event, ReboundEvent
<1>6. CASE CompleteObjective
  <2>1. PICK a \in Agent, p \in Signers(TRUE), at \in Times :
          Write([type |-> "objective_completed", seq |-> NextSeq, at |-> at,
                 actor |-> a, by |-> p])
    BY <1>6 DEF CompleteObjective
  <2>2. at \in Nat /\ p \in Agent \cup {Nobody}
    BY TimesType, SignersType
  <2> QED BY SMTT(30), <1>0, <2>1, <2>2 DEF Event, CompleteEvent
<1>7. CASE Tick
  BY <1>7 DEF Tick
<1>8. CASE \E withLedger \in BOOLEAN : CommitTree(withLedger)
  BY SMTT(40), <1>8 DEF CommitTree, Repository
<1>9. CASE UNCHANGED vars
  BY <1>9 DEF vars
<1> QED BY <1>1, <1>2, <1>3, <1>4, <1>5, <1>6, <1>7, <1>8, <1>9 DEF Next

\* The write of e takes the ledger to r, up to its revision and time.
WrittenAs(e, r) ==
    /\ ledger' = [r EXCEPT !.revision = ledger.revision + 1, !.updatedAt = e.at]
    /\ \/ e \in TransitionEvent /\ r = Transitioned(ledger, e)
       \/ e \in AcquireEvent /\ r = Acquired(ledger, e)
       \/ e \in CloseEvent /\ r = Closed(ledger, e)
       \/ e \in GateEvent /\ r = [ledger EXCEPT !.gates[e.gate] = e.to]
       \/ e \in ReboundEvent /\ r = Rebound(ledger, e)
       \/ e \in CompleteEvent /\ r = [ledger EXCEPT !.objective = "complete"]

LEMMA WriteCases ==
    ASSUME TypeOK, NEW e \in Event, Write(e)
    PROVE  \E r \in LedgerState : WrittenAs(e, r)
<1>1. ledger \in LedgerState /\ ledger' = Effect(ledger, e)
  BY DEF Write, TypeOK
<1> HIDE DEF LedgerState, Claim
<1> QED BY ZenonT(60), <1>1, EffectCases DEF WrittenAs

LEMMA InitType == Init => TypeOK
<1> SUFFICES ASSUME Init PROVE TypeOK
  OBVIOUS
<1>1. NoClaim \in Claim
  BY DEF NoClaim, ClaimStatus
<1>2. Start \in [Task -> Status]
  BY DEF ManifestAssumption, Status
<1>3. ManifestState(0) \in LedgerState
  BY <1>1, <1>2 DEF ManifestState, GateStatus
<1> QED BY SMTT(40), <1>3 DEF Init, TypeOK, Repository

LEMMA StepType == TypeOK /\ [Next]_vars => TypeOK'
<1> SUFFICES ASSUME TypeOK, [Next]_vars PROVE TypeOK'
  OBVIOUS
<1>1. ASSUME NEW e \in Event, Write(e) PROVE TypeOK'
  <2>1. ledger' \in LedgerState
    BY <1>1, EffectType DEF Write, TypeOK
  <2>2. log' \in Seq(Event)
    <3> HIDE DEF Event
    <3>1. log \in Seq(Event) /\ log' = Append(log, e)
      BY <1>1 DEF Write, TypeOK
    <3> QED BY <3>1
  <2>3. now' \in Nat
    BY <1>1 DEF Write, TypeOK
  <2>4. repo' \in Repository
    BY <1>1 DEF Write, TypeOK, Repository
  <2> QED BY <2>1, <2>2, <2>3, <2>4 DEF TypeOK
<1>2. CASE UNCHANGED <<ledger, log>> /\ now' \in {now, now + 1} /\ repo' \in Repository
  BY SMTT(40), <1>2 DEF TypeOK
<1> QED BY <1>1, <1>2, StepCases

\* The ledger, its history, the clock and the repository have their types in
\* every reachable state: no event, however built, produces a status, claim
\* or gate that the contract does not know.
THEOREM TypeCorrect == Spec => []TypeOK
BY InitType, StepType, PTL DEF Spec

-----------------------------------------------------------------------------
(* Work in flight is fenced.                                               *)

LEMMA ReviewFollowsWork ==
    ASSUME NEW st \in Status, "reviewing" \in LegalTransitions[st]
    PROVE  st = "in_progress"
BY DEF LegalTransitions, Status

\* A rebound keeps the status of every claim that has not lapsed.
LEMMA ReboundKeepsClaims ==
    ASSUME NEW s \in LedgerState, NEW e \in ReboundEvent, NEW t \in Task,
           t \notin e.lapsed
    PROVE  Rebound(s, e).claims[t].status = s.claims[t].status
<1> DEFINE c == s.claims[t]
           d == [c EXCEPT !.head = e.target, !.status = @]
<1>1. Rebound(s, e).claims[t] = IF c.status = "none" THEN c ELSE d
  BY DEF Rebound
<1>2. d.status = c.status
  OBVIOUS
<1> QED BY <1>1, <1>2

\* A rebound changes no lease.
LEMMA ReboundKeepsLeases ==
    ASSUME NEW s \in LedgerState, NEW e \in ReboundEvent, NEW t \in Task
    PROVE  Rebound(s, e).claims[t].lease = s.claims[t].lease
<1> DEFINE finished == {u \in Task : s.status[u] \in {"done", "accepted", "cancelled"}}
           c == s.claims[t]
           d == [c EXCEPT !.head = e.target,
                          !.status = IF t \notin e.lapsed THEN @
                                     ELSE IF t \in finished THEN "released"
                                     ELSE "expired"]
<1>1. Rebound(s, e).claims[t] = IF c.status = "none" THEN c ELSE d
  BY DEF Rebound
<1>2. d.lease = c.lease
  OBVIOUS
<1> QED BY <1>1, <1>2

\* WorkIsFenced is inductive by itself.
LEMMA WorkFencedStep ==
    ASSUME TypeOK, WorkIsFenced, NEW e \in Event, Write(e)
    PROVE  WorkIsFenced'
<1> DEFINE busy(s, t) == s.status[t] \in {"in_progress", "reviewing"}
           held(s, t) == s.claims[t].status = "active"
<1>0. ledger \in LedgerState
  BY DEF TypeOK
<1>1. PICK r \in LedgerState : WrittenAs(e, r)
  BY WriteCases
<1>2. ledger'.status = r.status /\ ledger'.claims = r.claims
  BY <1>1 DEF WrittenAs
<1>3. Accepts(ledger, e)
  BY DEF Write, Commits
<1>4. \A t \in Task : busy(ledger, t) => held(ledger, t)
  BY DEF WorkIsFenced, Active
<1>5. ASSUME NEW t \in Task, busy(r, t) PROVE held(r, t)
  <2>1. CASE e \in TransitionEvent /\ r = Transitioned(ledger, e)
    <3>1. e.type = "task_transition" /\ e.task \in Task /\ e.target \in Status
      BY <2>1 DEF TransitionEvent
    <3>2. TransitionRules(ledger, e)
      BY <1>3, <3>1 DEF Accepts, ClosedAs
    <3>3. r.status = [ledger.status EXCEPT ![e.task] = e.target]
          /\ r.claims = ledger.claims
      BY <2>1, <1>0 DEF Transitioned
    <3>4. e.target = "in_progress" => held(ledger, e.task)
      BY <3>2 DEF TransitionRules, Evidenced, Active
    <3>5. e.target = "reviewing" => busy(ledger, e.task)
      BY <3>1, <3>2, <1>0, ReviewFollowsWork DEF TransitionRules
    <3> QED BY <1>0, <1>4, <1>5, <3>1, <3>3, <3>4, <3>5
  <2>2. CASE e \in AcquireEvent /\ r = Acquired(ledger, e)
    <3>1. e.task \in Task
      BY <2>2 DEF AcquireEvent
    <3> QED BY <1>0, <1>4, <1>5, <2>2, <3>1 DEF Acquired
  <2>3. CASE e \in CloseEvent /\ r = Closed(ledger, e)
    <3>1. /\ e.task \in Task
          /\ e.type \in {"claim_released", "claim_expired", "claim_revoked"}
      BY <2>3 DEF CloseEvent
    <3>2. CloseRules(ledger, e)
      BY SMTT(40), <1>3, <3>1 DEF Accepts, ClosedAs
    <3>3. t # e.task => r.status[t] = ledger.status[t] /\ r.claims[t] = ledger.claims[t]
      BY SMTT(40), <1>0, <2>3, <3>1 DEF Closed
    <3>4. ~ busy(r, e.task)
      BY <1>0, <2>3, <3>1, <3>2 DEF Closed, CloseRules
    <3> QED BY <1>4, <1>5, <3>3, <3>4
  <2>4. CASE e \in GateEvent /\ r = [ledger EXCEPT !.gates[e.gate] = e.to]
    BY <1>0, <1>4, <1>5, <2>4
  <2>5. CASE e \in ReboundEvent /\ r = Rebound(ledger, e)
    <3> DEFINE finished == {u \in Task : ledger.status[u] \in
                                            {"done", "accepted", "cancelled"}}
    <3>1. r.status[t] = IF t \in e.lapsed \ finished THEN "blocked"
                                                     ELSE ledger.status[t]
      BY <1>0, <2>5 DEF Rebound
    <3>2. t \notin e.lapsed /\ busy(ledger, t)
      BY <1>5, <3>1
    <3>3. t \notin e.lapsed => r.claims[t].status = ledger.claims[t].status
      BY SMTT(40), <1>0, <2>5, ReboundKeepsClaims
    <3> QED BY SMTT(40), <1>4, <3>2, <3>3
  <2>6. CASE e \in CompleteEvent /\ r = [ledger EXCEPT !.objective = "complete"]
    BY <1>0, <1>4, <1>5, <2>6
  <2> QED BY <1>1, <2>1, <2>2, <2>3, <2>4, <2>5, <2>6 DEF WrittenAs
<1> QED BY <1>2, <1>5 DEF WorkIsFenced, Active

LEMMA WorkFencedInit == Init => WorkIsFenced
BY DEF Init, ManifestState, WorkIsFenced, ManifestAssumption

\* In every reachable state, for any number of tasks and agents, work in
\* flight is protected by an active claim: neither a release, an expiry, a
\* revocation nor a rebound leaves it unprotected.
THEOREM WorkAlwaysFenced == Spec => []WorkIsFenced
<1>1. ASSUME TypeOK, WorkIsFenced, [Next]_vars PROVE WorkIsFenced'
  <2>1. CASE \E e \in Event : Write(e)
    BY <1>1, <2>1, WorkFencedStep
  <2>2. CASE UNCHANGED <<ledger, log>>
    BY <1>1, <2>2 DEF WorkIsFenced, Active
  <2> QED BY <1>1, <2>1, <2>2, StepCases
<1> QED BY <1>1, WorkFencedInit, TypeCorrect, PTL DEF Spec

-----------------------------------------------------------------------------
(* Completion.                                                             *)

LEMMA CompleteSettledStep ==
    ASSUME TypeOK, NEW e \in Event, Write(e)
    PROVE  CompleteIsSettled'
<1>0. ledger \in LedgerState
  BY DEF TypeOK
<1>1. PICK r \in LedgerState : WrittenAs(e, r)
  BY WriteCases
<1>2. /\ ledger'.status = r.status
      /\ ledger'.claims = r.claims
      /\ ledger'.objective = r.objective
  BY <1>1 DEF WrittenAs
<1>3. Accepts(ledger, e)
  BY DEF Write, Commits
<1>4. ledger.objective = "active"
  BY <1>0, <1>3 DEF Accepts, InSequence
<1>5. CASE e \in CompleteEvent /\ r = [ledger EXCEPT !.objective = "complete"]
  <2>1. CompleteRules(ledger, e)
    BY <1>3, <1>5 DEF Accepts, CompleteEvent, ClosedAs
  <2>2. r.status = ledger.status /\ r.claims = ledger.claims
    BY <1>0, <1>5
  <2> QED BY <1>2, <2>1, <2>2 DEF CompleteIsSettled, CompleteRules, Active
<1>6. CASE ~ (e \in CompleteEvent /\ r = [ledger EXCEPT !.objective = "complete"])
  <2>1. r.objective = ledger.objective
    BY <1>0, <1>1, <1>6
    DEF WrittenAs, Transitioned, Acquired, Closed, Rebound
  <2> QED BY <1>2, <1>4, <2>1 DEF CompleteIsSettled
<1> QED BY <1>5, <1>6

\* Once the objective is complete every task stays terminal and unclaimed:
\* completion demands it and no event is accepted afterwards.
THEOREM CompletionSettles == Spec => []CompleteIsSettled
<1>1. Init => CompleteIsSettled
  BY DEF Init, ManifestState, CompleteIsSettled
<1>2. ASSUME TypeOK, CompleteIsSettled, [Next]_vars PROVE CompleteIsSettled'
  <2>1. CASE \E e \in Event : Write(e)
    BY <1>2, <2>1, CompleteSettledStep
  <2>2. CASE UNCHANGED <<ledger, log>>
    BY <1>2, <2>2 DEF CompleteIsSettled, Active
  <2> QED BY <1>2, <2>1, <2>2, StepCases
<1> QED BY <1>1, <1>2, TypeCorrect, PTL DEF Spec

-----------------------------------------------------------------------------
(* Expiry and the clock.                                                   *)

LEMMA ExpiryStep ==
    ASSUME TypeOK, ExpiredAfterDeadline, NEW e \in Event, Write(e)
    PROVE  ExpiredAfterDeadline'
<1>0. ledger \in LedgerState /\ now \in Nat /\ now' = now
  BY DEF TypeOK, Write
<1>1. PICK r \in LedgerState : WrittenAs(e, r)
  BY WriteCases
<1>2. ledger'.claims = r.claims
  BY <1>1 DEF WrittenAs
<1>3. Accepts(ledger, e)
  BY DEF Write, Commits
<1>4. PICK granted \in BOOLEAN : LiveRules(ledger, e, granted, now)
  BY DEF Write, Commits
<1>5. ASSUME NEW t \in Task, r.claims[t].status = "expired"
      PROVE  r.claims[t].lease =< now
  <2> DEFINE c == ledger.claims[t]
  <2>0. c \in Claim /\ (c.status = "expired" => c.lease =< now)
    BY <1>0 DEF ExpiredAfterDeadline
  <2>1. CASE r.claims[t] = c
    BY <1>5, <2>0, <2>1
  <2>2. CASE e \in AcquireEvent /\ r = Acquired(ledger, e)
    <3>1. e.task \in Task
      BY <2>2 DEF AcquireEvent
    <3> QED BY <1>0, <1>5, <2>0, <2>2, <3>1 DEF Acquired
  <2>3. CASE e \in CloseEvent /\ r = Closed(ledger, e) /\ t = e.task
    <3>1. e.type \in {"claim_released", "claim_expired", "claim_revoked"} /\ e.at \in Nat
      BY SMTT(40), <2>3 DEF CloseEvent
    <3>2. r.claims[t] = [c EXCEPT !.status = ClosedAs[e.type]]
      BY <1>0, <2>3 DEF Closed
    <3>3. e.type = "claim_expired" /\ r.claims[t].lease = c.lease
      BY <1>5, <2>0, <3>1, <3>2 DEF ClosedAs
    <3>4. c.lease =< e.at
      BY <1>3, <2>0, <2>3, <3>1, <3>3 DEF Accepts, CloseRules, ClosedAs
    <3>5. e.at =< now
      BY <1>4, <3>3 DEF LiveRules
    <3> QED BY <1>0, <2>0, <3>1, <3>3, <3>4, <3>5
  <2>4. CASE e \in ReboundEvent /\ r = Rebound(ledger, e)
    <3>1. e.type = "source_rebound" /\ e.at \in Nat
      BY <2>4 DEF ReboundEvent
    <3>2. t \notin e.lapsed => r.claims[t].status = c.status
      BY SMTT(40), <1>0, <2>4, ReboundKeepsClaims
    <3>3. r.claims[t].lease = c.lease
      BY SMTT(40), <1>0, <2>4, ReboundKeepsLeases
    <3>4. ReboundRules(ledger, e)
      BY <1>3, <3>1 DEF Accepts, ClosedAs
    <3>5. t \in e.lapsed => c.lease =< e.at
      BY <3>4 DEF ReboundRules, LapsedAt
    <3>6. e.at =< now
      BY <1>4, <3>1 DEF LiveRules
    <3> QED BY <1>0, <1>5, <2>0, <3>1, <3>2, <3>3, <3>5, <3>6
  <2>5. CASE \/ e \in TransitionEvent /\ r = Transitioned(ledger, e)
             \/ e \in GateEvent /\ r = [ledger EXCEPT !.gates[e.gate] = e.to]
             \/ e \in CompleteEvent /\ r = [ledger EXCEPT !.objective = "complete"]
    BY <1>0, <2>1, <2>5 DEF Transitioned
  <2>6. CASE e \in CloseEvent /\ r = Closed(ledger, e) /\ t # e.task
    BY <1>0, <2>1, <2>6 DEF Closed
  <2> QED BY <1>1, <2>2, <2>3, <2>4, <2>5, <2>6 DEF WrittenAs
<1> QED BY <1>0, <1>2, <1>5 DEF ExpiredAfterDeadline

\* No claim is ever recorded as expired while its lease still runs at trusted
\* time: neither an expiry nor a rebound can be dated ahead to sweep a claim.
THEOREM NoEarlyExpiry == Spec => []ExpiredAfterDeadline
<1>1. Init => ExpiredAfterDeadline
  BY DEF Init, ManifestState, NoClaim, ExpiredAfterDeadline
<1>2. ASSUME TypeOK, ExpiredAfterDeadline, [Next]_vars PROVE ExpiredAfterDeadline'
  <2>1. CASE \E e \in Event : Write(e)
    BY <1>2, <2>1, ExpiryStep
  <2>2. CASE UNCHANGED <<ledger, log>> /\ now' \in {now, now + 1}
    BY SMTT(40), <1>2, <2>2 DEF ExpiredAfterDeadline, TypeOK
  <2> QED BY <1>2, <2>1, <2>2, StepCases
<1> QED BY <1>1, <1>2, TypeCorrect, PTL DEF Spec

-----------------------------------------------------------------------------
(* Refinement: the ledger implements the board of fenced tasks.            *)

\* An active claim has an owner.
OwnersKnown == \A t \in Active(ledger) : ledger.claims[t].owner \in Agent

\* A rebound changes neither the owner nor the token of a claim, and ends
\* exactly the claims it names as lapsed.
LEMMA ReboundClaims ==
    ASSUME NEW s \in LedgerState, NEW e \in ReboundEvent, NEW t \in Task,
           t \in e.lapsed => s.claims[t].status = "active"
    PROVE  /\ Rebound(s, e).claims[t].owner = s.claims[t].owner
           /\ Rebound(s, e).claims[t].gen = s.claims[t].gen
           /\ Rebound(s, e).claims[t].status = "active"
                <=> s.claims[t].status = "active" /\ t \notin e.lapsed
<1> DEFINE finished == {u \in Task : s.status[u] \in {"done", "accepted", "cancelled"}}
           c == s.claims[t]
           d == [c EXCEPT !.head = e.target,
                          !.status = IF t \notin e.lapsed THEN @
                                     ELSE IF t \in finished THEN "released"
                                     ELSE "expired"]
<1>1. Rebound(s, e).claims[t] = IF c.status = "none" THEN c ELSE d
  BY DEF Rebound
<1>2. c \in Claim
  OBVIOUS
<1>3. d.owner = c.owner /\ d.gen = c.gen
  BY <1>2
<1>4. d.status = IF t \notin e.lapsed THEN c.status
                 ELSE IF t \in finished THEN "released" ELSE "expired"
  BY <1>2
<1>5. t \in e.lapsed => c.status = "active"
  OBVIOUS
<1> HIDE DEF c, d, finished
<1> QED BY <1>1, <1>3, <1>4, <1>5 DEF c

LEMMA OwnersStep ==
    ASSUME TypeOK, OwnersKnown, NEW e \in Event, Write(e)
    PROVE  OwnersKnown'
<1>0. ledger \in LedgerState
  BY DEF TypeOK
<1>1. PICK r \in LedgerState : WrittenAs(e, r)
  BY WriteCases
<1>2. ledger'.claims = r.claims
  BY <1>1 DEF WrittenAs
<1>3. Accepts(ledger, e)
  BY DEF Write, Commits
<1>4. ASSUME NEW t \in Task, r.claims[t].status = "active"
      PROVE  r.claims[t].owner \in Agent
  <2> DEFINE c == ledger.claims[t]
  <2>0. c \in Claim /\ (c.status = "active" => c.owner \in Agent)
    BY <1>0 DEF OwnersKnown, Active
  <2>1. CASE r.claims[t] = c
    BY <1>4, <2>0, <2>1
  <2>2. CASE e \in AcquireEvent /\ r = Acquired(ledger, e)
    <3>1. e.task \in Task /\ e.actor \in Agent
      BY <2>2 DEF AcquireEvent
    <3> QED BY <1>0, <1>4, <2>0, <2>2, <3>1 DEF Acquired
  <2>3. CASE e \in CloseEvent /\ r = Closed(ledger, e) /\ t = e.task
    <3>1. e.type \in {"claim_released", "claim_expired", "claim_revoked"}
      BY SMTT(40), <2>3 DEF CloseEvent
    <3>2. r.claims[t] = [c EXCEPT !.status = ClosedAs[e.type]]
      BY <1>0, <2>3 DEF Closed
    <3> QED BY <1>4, <2>0, <3>1, <3>2 DEF ClosedAs
  <2>4. CASE e \in ReboundEvent /\ r = Rebound(ledger, e)
    <3>1. e.lapsed \subseteq Active(ledger)
      BY <1>3, <2>4 DEF ReboundEvent, Accepts, ClosedAs, ReboundRules, LapsedAt
    <3>0. t \in e.lapsed => ledger.claims[t].status = "active"
      BY <3>1 DEF Active
    <3>2. Rebound(ledger, e).claims[t].owner = ledger.claims[t].owner
      BY SMTT(40), <1>0, <2>4, <3>0, ReboundClaims
    <3>3. ledger.claims[t].status = "active"
      BY SMTT(40), <1>0, <1>4, <2>4, <3>0, ReboundClaims
    <3> QED BY <2>0, <2>4, <3>2, <3>3
  <2>5. CASE \/ e \in TransitionEvent /\ r = Transitioned(ledger, e)
             \/ e \in GateEvent /\ r = [ledger EXCEPT !.gates[e.gate] = e.to]
             \/ e \in CompleteEvent /\ r = [ledger EXCEPT !.objective = "complete"]
    BY <1>0, <2>1, <2>5 DEF Transitioned
  <2>6. CASE e \in CloseEvent /\ r = Closed(ledger, e) /\ t # e.task
    BY <1>0, <2>1, <2>6 DEF Closed
  <2> QED BY <1>1, <2>2, <2>3, <2>4, <2>5, <2>6 DEF WrittenAs
<1> QED BY <1>2, <1>4 DEF OwnersKnown, Active

LEMMA OwnersAlwaysKnown == Spec => []OwnersKnown
<1>1. Init => OwnersKnown
  BY DEF Init, ManifestState, NoClaim, OwnersKnown, Active
<1>2. ASSUME TypeOK, OwnersKnown, [Next]_vars PROVE OwnersKnown'
  <2>1. CASE \E e \in Event : Write(e)
    BY <1>2, <2>1, OwnersStep
  <2>2. CASE UNCHANGED <<ledger, log>>
    BY <1>2, <2>2 DEF OwnersKnown, Active
  <2> QED BY <1>2, <2>1, <2>2, StepCases
<1> QED BY <1>1, <1>2, TypeCorrect, PTL DEF Spec

LEMMA BoardInit == Init => Board!Init
<1> SUFFICES ASSUME Init PROVE Board!Init
  OBVIOUS
<1>1. \A t \in Task : ledger.claims[t] = NoClaim /\ ledger.status[t] = Start[t]
  BY DEF Init, ManifestState
<1>2. \A t \in Task : Start[t] \notin {"in_progress", "reviewing"}
  BY DEF ManifestAssumption
<1>3. holderOf = [t \in Task |-> Nobody]
  BY <1>1 DEF holderOf, Active, NoClaim
<1>4. fenceOf = [t \in Task |-> 0]
  BY <1>1 DEF fenceOf, NoClaim
<1>5. busyTasks = {}
  BY <1>1, <1>2 DEF busyTasks
<1> QED BY <1>3, <1>4, <1>5 DEF Board!Init

\* Steps that leave the claims and the set of busy tasks alone are stutters.
LEMMA BoardStutter ==
    ASSUME ledger'.claims = ledger.claims, busyTasks' = busyTasks
    PROVE  UNCHANGED Board!vars
BY DEF Board!vars, holderOf, fenceOf, Active

LEMMA BoardTransition ==
    ASSUME TypeOK, WorkIsFenced, OwnersKnown, NEW e \in TransitionEvent,
           Accepts(ledger, e),
           ledger'.claims = ledger.claims,
           ledger'.status = [ledger.status EXCEPT ![e.task] = e.target]
    PROVE  [Board!Next]_Board!vars
<1>0. ledger \in LedgerState
  BY DEF TypeOK
<1>1. e.type = "task_transition" /\ e.task \in Task /\ e.target \in Status
  BY DEF TransitionEvent
<1>2. TransitionRules(ledger, e)
  BY <1>1 DEF Accepts, ClosedAs
<1>3. \A t \in Task \ {e.task} : ledger'.status[t] = ledger.status[t]
  BY <1>0, <1>1
<1>4. ledger'.status[e.task] = e.target
  BY <1>0, <1>1
<1>5. CASE e.task \in Active(ledger)
  <2>1. holderOf[e.task] # Nobody
    BY <1>1, <1>5 DEF holderOf, OwnersKnown, ManifestAssumption
  <2>2. busyTasks' \in {busyTasks \cup {e.task}, busyTasks \ {e.task}}
    <3>1. CASE e.target \in {"in_progress", "reviewing"}
      BY <1>1, <1>3, <1>4, <3>1 DEF busyTasks
    <3>2. CASE e.target \notin {"in_progress", "reviewing"}
      BY <1>1, <1>3, <1>4, <3>2 DEF busyTasks
    <3> QED BY <3>1, <3>2
  <2>3. UNCHANGED <<holderOf, fenceOf>>
    BY DEF holderOf, fenceOf, Active
  <2>4. Board!Work(e.task)
    BY <2>1, <2>2, <2>3 DEF Board!Work
  <2> QED BY <1>1, <2>4 DEF Board!Next
<1>6. CASE e.task \notin Active(ledger)
  <2>1. ledger.status[e.task] \notin {"in_progress", "reviewing"}
    BY <1>1, <1>6 DEF WorkIsFenced
  <2>2. e.target # "in_progress"
    BY <1>2, <1>6 DEF TransitionRules, Evidenced
  <2>3. ledger.status[e.task] \in Status
    BY <1>0, <1>1
  <2>4. e.target # "reviewing"
    BY <1>2, <2>1, <2>3, ReviewFollowsWork DEF TransitionRules
  <2>5. busyTasks' = busyTasks
    BY <1>1, <1>3, <1>4, <2>1, <2>2, <2>4 DEF busyTasks
  <2> QED BY <2>5, BoardStutter
<1> QED BY <1>5, <1>6

LEMMA BoardAcquire ==
    ASSUME TypeOK, NEW e \in AcquireEvent, Accepts(ledger, e),
           NEW r, r = Acquired(ledger, e),
           ledger'.claims = r.claims, ledger'.status = r.status
    PROVE  [Board!Next]_Board!vars
<1>0. ledger \in LedgerState
  BY DEF TypeOK
<1>1. e.type = "claim_acquired" /\ e.task \in Task /\ e.actor \in Agent /\ e.token \in Nat
  BY DEF AcquireEvent
<1>2. AcquireRules(ledger, e)
  BY <1>1 DEF Accepts, ClosedAs
<1> DEFINE new == [status |-> "active", owner |-> e.actor, gen |-> e.token,
                   lease |-> e.lease, head |-> ledger.head]
<1>3. r.status = ledger.status /\ r.claims = [ledger.claims EXCEPT ![e.task] = new]
  BY <1>0 DEF Acquired
<1>4. \A t \in Task \ {e.task} : ledger'.claims[t] = ledger.claims[t]
  BY <1>0, <1>1, <1>3
<1>5. ledger'.claims[e.task] = new
  BY <1>0, <1>1, <1>3
<1>6. holderOf[e.task] = Nobody
  BY <1>1, <1>2 DEF AcquireRules, holderOf
<1>7. holderOf' = [holderOf EXCEPT ![e.task] = e.actor]
  <2>1. holderOf' = [t \in Task |-> IF ledger'.claims[t].status = "active"
                                      THEN ledger'.claims[t].owner ELSE Nobody]
    BY DEF holderOf, Active
  <2>2. holderOf = [t \in Task |-> IF ledger.claims[t].status = "active"
                                     THEN ledger.claims[t].owner ELSE Nobody]
    BY DEF holderOf, Active
  <2>3. \A t \in Task : holderOf'[t] = IF t = e.task THEN e.actor ELSE holderOf[t]
    BY <1>4, <1>5, <2>1, <2>2
  <2>4. holderOf' = [t \in Task |-> holderOf'[t]]
    BY <2>1
  <2>5. holderOf = [t \in Task |-> holderOf[t]]
    BY <2>2
  <2> HIDE DEF new
  <2> QED BY <1>1, <2>3, <2>4, <2>5
<1>8. fenceOf' = [fenceOf EXCEPT ![e.task] = e.token] /\ fenceOf[e.task] = ledger.claims[e.task].gen
  BY <1>1, <1>4, <1>5 DEF fenceOf
<1>9. fenceOf'[e.task] = e.token /\ e.token > fenceOf[e.task]
  BY <1>1, <1>2, <1>8 DEF AcquireRules, fenceOf
<1>10. UNCHANGED busyTasks
  BY <1>3 DEF busyTasks
<1>11. Board!Grant(e.task, e.actor)
  BY <1>6, <1>7, <1>8, <1>9, <1>10 DEF Board!Grant
<1> QED BY <1>1, <1>11 DEF Board!Next

\* What holderOf and fenceOf are at a task, before and after a step.
LEMMA BoardPointwise ==
    /\ holderOf = [t \in Task |-> IF ledger.claims[t].status = "active"
                                    THEN ledger.claims[t].owner ELSE Nobody]
    /\ holderOf' = [t \in Task |-> IF ledger'.claims[t].status = "active"
                                     THEN ledger'.claims[t].owner ELSE Nobody]
    /\ fenceOf = [t \in Task |-> ledger.claims[t].gen]
    /\ fenceOf' = [t \in Task |-> ledger'.claims[t].gen]
BY DEF holderOf, fenceOf, Active

\* A release, an expiry or a revocation drops the hold of its task.
LEMMA BoardClose ==
    ASSUME TypeOK, OwnersKnown, NEW e \in CloseEvent, Accepts(ledger, e),
           NEW r, r = Closed(ledger, e),
           ledger'.claims = r.claims, ledger'.status = r.status
    PROVE  [Board!Next]_Board!vars
<1>0. ledger \in LedgerState
  BY DEF TypeOK
<1>1. e.type \in {"claim_released", "claim_expired", "claim_revoked"} /\ e.task \in Task
  BY DEF CloseEvent
<1>2. CloseRules(ledger, e)
  BY <1>1 DEF Accepts, ClosedAs
<1>3. ledger.claims[e.task].status = "active"
  BY <1>2 DEF CloseRules
<1>4. holderOf[e.task] # Nobody
  BY <1>1, <1>3, BoardPointwise DEF OwnersKnown, Active, ManifestAssumption
<1>5. \A t \in Task \ {e.task} : /\ ledger'.claims[t] = ledger.claims[t]
                                /\ ledger'.status[t] = ledger.status[t]
  BY <1>0, <1>1 DEF Closed
<1> DEFINE c == ledger.claims[e.task]
<1>6. ledger'.claims[e.task] = [c EXCEPT !.status = ClosedAs[e.type]]
  BY <1>0, <1>1 DEF Closed
<1>7. c \in Claim
  BY <1>0, <1>1
<1>8. ledger'.claims[e.task].gen = c.gen /\ ledger'.claims[e.task].status # "active"
  BY <1>1, <1>6, <1>7 DEF ClosedAs
<1>9. ledger'.status[e.task] \notin {"in_progress", "reviewing"}
  <2>1. CASE e.type = "claim_released"
    BY <1>0, <1>1, <1>2, <2>1 DEF Closed, CloseRules
  <2>2. CASE e.type # "claim_released"
    BY <1>0, <1>1, <2>2 DEF Closed
  <2> QED BY <2>1, <2>2
<1>10. holderOf' = [t \in Task |-> IF t \in {e.task} THEN Nobody ELSE holderOf[t]]
  <2>1. \A t \in Task : holderOf'[t] = IF t \in {e.task} THEN Nobody ELSE holderOf[t]
    BY <1>5, <1>8, BoardPointwise
  <2> QED BY <2>1, BoardPointwise
<1>11. UNCHANGED fenceOf
  <2>1. \A t \in Task : ledger'.claims[t].gen = ledger.claims[t].gen
    BY <1>5, <1>8
  <2> QED BY <2>1, BoardPointwise
<1>12. busyTasks' = busyTasks \ {e.task}
  BY <1>5, <1>9 DEF busyTasks
<1>13. Board!Drop({e.task})
  BY <1>1, <1>4, <1>10, <1>11, <1>12 DEF Board!Drop
<1> QED BY <1>1, <1>13 DEF Board!Next

\* A rebound drops the holds of all the claims that have lapsed.
LEMMA BoardRebound ==
    ASSUME TypeOK, OwnersKnown, NEW e \in ReboundEvent, Accepts(ledger, e),
           NEW r, r = Rebound(ledger, e),
           ledger'.claims = r.claims, ledger'.status = r.status
    PROVE  [Board!Next]_Board!vars
<1>0. ledger \in LedgerState
  BY DEF TypeOK
<1>1. e.type = "source_rebound" /\ e.lapsed \subseteq Task
  BY DEF ReboundEvent
<1>2. ReboundRules(ledger, e)
  BY <1>1 DEF Accepts, ClosedAs
<1>3. \A t \in e.lapsed : t \in Task /\ ledger.claims[t].status = "active"
  BY <1>2 DEF ReboundRules, LapsedAt, Active
<1>4. \A t \in e.lapsed : holderOf[t] # Nobody
  BY <1>3, BoardPointwise DEF OwnersKnown, Active, ManifestAssumption
<1>5. \A t \in Task : ledger'.claims[t].owner = ledger.claims[t].owner
  BY <1>0, <1>3, ReboundClaims
<1>6. \A t \in Task : ledger'.claims[t].gen = ledger.claims[t].gen
  BY <1>0, <1>3, ReboundClaims
<1>7. \A t \in Task : ledger'.claims[t].status = "active"
                        <=> ledger.claims[t].status = "active" /\ t \notin e.lapsed
  BY <1>0, <1>3, ReboundClaims
<1>8. holderOf' = [t \in Task |-> IF t \in e.lapsed THEN Nobody ELSE holderOf[t]]
  <2>1. \A t \in Task : holderOf'[t] = IF t \in e.lapsed THEN Nobody ELSE holderOf[t]
    BY <1>5, <1>7, BoardPointwise
  <2> QED BY <2>1, BoardPointwise
<1>9. UNCHANGED fenceOf
  BY <1>6, BoardPointwise
<1>10. busyTasks' = busyTasks \ e.lapsed
  <2> DEFINE finished == {t \in Task : ledger.status[t] \in {"done", "accepted", "cancelled"}}
  <2>1. ledger'.status = [t \in Task |-> IF t \in e.lapsed \ finished THEN "blocked"
                                                                    ELSE ledger.status[t]]
    BY <1>0 DEF Rebound
  <2> QED BY <1>1, <2>1 DEF busyTasks
<1>11. Board!Drop(e.lapsed)
  BY <1>4, <1>8, <1>9, <1>10 DEF Board!Drop
<1> QED BY <1>1, <1>11 DEF Board!Next

\* Every committed event is a step of the board or a stutter.
LEMMA BoardWrite ==
    ASSUME TypeOK, WorkIsFenced, OwnersKnown, NEW e \in Event, Write(e)
    PROVE  [Board!Next]_Board!vars
<1>1. PICK r \in LedgerState : WrittenAs(e, r)
  BY WriteCases
<1>2. ledger'.claims = r.claims /\ ledger'.status = r.status
  BY <1>1 DEF WrittenAs
<1>3. Accepts(ledger, e)
  BY DEF Write, Commits
<1>4. ledger \in LedgerState
  BY DEF TypeOK
<1>5. CASE e \in TransitionEvent /\ r = Transitioned(ledger, e)
  <2>1. /\ ledger'.claims = ledger.claims
        /\ ledger'.status = [ledger.status EXCEPT ![e.task] = e.target]
    BY <1>2, <1>4, <1>5 DEF Transitioned
  <2> QED BY <1>3, <1>5, <2>1, BoardTransition
<1>6. CASE e \in AcquireEvent /\ r = Acquired(ledger, e)
  BY <1>2, <1>3, <1>6, BoardAcquire
<1>7. CASE e \in CloseEvent /\ r = Closed(ledger, e)
  BY <1>2, <1>3, <1>7, BoardClose
<1>8. CASE e \in ReboundEvent /\ r = Rebound(ledger, e)
  BY <1>2, <1>3, <1>8, BoardRebound
<1>9. CASE \/ e \in GateEvent /\ r = [ledger EXCEPT !.gates[e.gate] = e.to]
           \/ e \in CompleteEvent /\ r = [ledger EXCEPT !.objective = "complete"]
  <2>1. ledger'.claims = ledger.claims /\ ledger'.status = ledger.status
    BY <1>2, <1>4, <1>9
  <2>2. busyTasks' = busyTasks
    BY <2>1 DEF busyTasks
  <2> QED BY <2>1, <2>2, BoardStutter
<1> QED BY <1>1, <1>5, <1>6, <1>7, <1>8, <1>9 DEF WrittenAs

\* The ledger implements the board of fenced tasks: whatever is committed, a
\* task has one holder at a time, every grant raises its fence, and work
\* goes on only under a hold.
THEOREM LedgerImplementsBoard == Spec => ImplementsBoard
<1>1. ASSUME TypeOK, WorkIsFenced, OwnersKnown, [Next]_vars
      PROVE  [Board!Next]_Board!vars
  <2>1. CASE \E e \in Event : Write(e)
    BY <1>1, <2>1, BoardWrite
  <2>2. CASE UNCHANGED <<ledger, log>>
    <3>1. busyTasks' = busyTasks /\ ledger'.claims = ledger.claims
      BY <2>2 DEF busyTasks
    <3> QED BY <3>1, BoardStutter
  <2> QED BY <1>1, <2>1, <2>2, StepCases
<1> QED BY <1>1, BoardInit, TypeCorrect, WorkAlwaysFenced, OwnersAlwaysKnown, PTL
        DEF Spec, ImplementsBoard, Board!Spec

-----------------------------------------------------------------------------
(* What one write does to one task.                                        *)

\* Event e is not about task t and leaves its claim and status alone.
Spared(e, t) ==
    /\ \/ e.type \in {"gate_updated", "objective_completed"}
       \/ /\ e.type \in {"task_transition", "claim_acquired"} \cup DOMAIN ClosedAs
          /\ e.task # t
    /\ ledger'.claims[t] = ledger.claims[t]
    /\ ledger'.status[t] = ledger.status[t]
    /\ ledger'.head = ledger.head

Moved(e, t) ==
    /\ e.type = "task_transition" /\ e.task = t
    /\ TransitionRules(ledger, e)
    /\ ledger'.claims[t] = ledger.claims[t]
    /\ ledger'.status[t] = e.target
    /\ ledger'.head = ledger.head

Taken(e, t) ==
    /\ e.type = "claim_acquired" /\ e.task = t
    /\ AcquireRules(ledger, e)
    /\ ledger'.claims[t] = [status |-> "active", owner |-> e.actor, gen |-> e.token,
                            lease |-> e.lease, head |-> ledger.head]
    /\ ledger'.status[t] = ledger.status[t]
    /\ ledger'.head = ledger.head

Shut(e, t) ==
    /\ e.type \in DOMAIN ClosedAs /\ e.task = t
    /\ CloseRules(ledger, e)
    /\ ledger'.claims[t] = [ledger.claims[t] EXCEPT !.status = ClosedAs[e.type]]
    /\ ledger'.status[t] = IF e.type = "claim_released" THEN ledger.status[t]
                                                        ELSE "blocked"
    /\ ledger'.head = ledger.head

Rebased(e, t) ==
    /\ e.type = "source_rebound"
    /\ ReboundRules(ledger, e)
    /\ ledger'.claims[t].owner = ledger.claims[t].owner
    /\ ledger'.claims[t].gen = ledger.claims[t].gen
    /\ ledger'.claims[t].lease = ledger.claims[t].lease
    /\ ledger'.claims[t].status = "active"
         <=> ledger.claims[t].status = "active" /\ t \notin e.lapsed
    /\ ledger'.status[t] \in {ledger.status[t], "blocked"}
    /\ ledger.status[t] \in {"done", "accepted", "cancelled"} =>
         ledger'.status[t] = ledger.status[t]

\* Every event's fields have their types.
LEMMA EventFields ==
    ASSUME NEW e \in Event
    PROVE  /\ e.at \in Nat /\ e.actor \in Agent /\ e.by \in Agent \cup {Nobody}
           /\ e.type \in {"task_transition", "claim_acquired"} \cup DOMAIN ClosedAs =>
                e.task \in Task /\ e.token \in Nat
           /\ e.type = "claim_acquired" => e.lease \in Nat
           /\ e.type = "source_rebound" => e.target \in Nat /\ e.from \in Nat
<1>1. e.at \in Nat /\ e.actor \in Agent /\ e.by \in Agent \cup {Nobody}
  BY DEF Event, TransitionEvent, AcquireEvent, CloseEvent, GateEvent,
         ReboundEvent, CompleteEvent
<1>2. CASE e \in TransitionEvent
  BY <1>1, <1>2 DEF TransitionEvent
<1>3. CASE e \in AcquireEvent
  BY <1>1, <1>3 DEF AcquireEvent
<1>4. CASE e \in CloseEvent
  BY <1>1, <1>4 DEF CloseEvent
<1>5. CASE e \in GateEvent \cup CompleteEvent
  BY <1>1, <1>5 DEF GateEvent, CompleteEvent, ClosedAs
<1>6. CASE e \in ReboundEvent
  BY <1>1, <1>6 DEF ReboundEvent, ClosedAs
<1> QED BY <1>2, <1>3, <1>4, <1>5, <1>6 DEF Event

LEMMA TaskCases ==
    ASSUME TypeOK, NEW e \in Event, Write(e), NEW t \in Task
    PROVE  \/ Spared(e, t) \/ Moved(e, t) \/ Taken(e, t) \/ Shut(e, t)
           \/ Rebased(e, t)
<1>0. ledger \in LedgerState
  BY DEF TypeOK
<1>1. PICK r \in LedgerState : WrittenAs(e, r)
  BY WriteCases
<1>2. ledger'.claims = r.claims /\ ledger'.status = r.status /\ ledger'.head = r.head
  BY <1>1 DEF WrittenAs
<1>3. Accepts(ledger, e)
  BY DEF Write, Commits
<1>4. CASE e \in TransitionEvent /\ r = Transitioned(ledger, e)
  <2>1. e.type = "task_transition" /\ e.task \in Task
    BY <1>4 DEF TransitionEvent
  <2>2. TransitionRules(ledger, e)
    BY <1>3, <2>1 DEF Accepts, ClosedAs
  <2>3. /\ r.claims = ledger.claims /\ r.head = ledger.head
        /\ r.status = [ledger.status EXCEPT ![e.task] = e.target]
    BY <1>0, <1>4 DEF Transitioned
  <2>4. r.status[t] = IF t = e.task THEN e.target ELSE ledger.status[t]
    BY <1>0, <2>1, <2>3
  <2> QED BY <1>2, <2>1, <2>2, <2>3, <2>4 DEF Spared, Moved
<1>5. CASE e \in AcquireEvent /\ r = Acquired(ledger, e)
  <2>1. e.type = "claim_acquired" /\ e.task \in Task
    BY <1>5 DEF AcquireEvent
  <2>2. AcquireRules(ledger, e)
    BY <1>3, <2>1 DEF Accepts, ClosedAs
  <2>3. r.status = ledger.status /\ r.head = ledger.head
    BY <1>0, <1>5 DEF Acquired
  <2>4. t # e.task => r.claims[t] = ledger.claims[t]
    BY <1>0, <1>5, <2>1 DEF Acquired
  <2>5. t = e.task =>
          r.claims[t] = [status |-> "active", owner |-> e.actor, gen |-> e.token,
                         lease |-> e.lease, head |-> ledger.head]
    BY <1>0, <1>5, <2>1 DEF Acquired
  <2> QED BY <1>2, <2>1, <2>2, <2>3, <2>4, <2>5 DEF Spared, Taken
<1>6. CASE e \in CloseEvent /\ r = Closed(ledger, e)
  <2>1. e.type \in DOMAIN ClosedAs /\ e.task \in Task
    BY <1>6 DEF CloseEvent, ClosedAs
  <2>2. e.type \notin {"task_transition", "claim_acquired", "gate_updated",
                       "source_rebound", "objective_completed"}
    BY <1>6 DEF CloseEvent
  <2>3. CloseRules(ledger, e)
    BY SMTT(40), <1>3, <2>2 DEF Accepts
  <2>4. r.head = ledger.head
    BY SMTT(40), <1>0, <1>6 DEF Closed
  <2>5. t # e.task => r.claims[t] = ledger.claims[t] /\ r.status[t] = ledger.status[t]
    BY SMTT(40), <1>0, <1>6, <2>1 DEF Closed
  <2>6. t = e.task =>
          /\ r.claims[t] = [ledger.claims[t] EXCEPT !.status = ClosedAs[e.type]]
          /\ r.status[t] = IF e.type = "claim_released" THEN ledger.status[t]
                                                        ELSE "blocked"
    BY <1>0, <1>6, <2>1 DEF Closed
  <2> QED BY <1>2, <2>1, <2>3, <2>4, <2>5, <2>6 DEF Spared, Shut
<1>7. CASE e \in GateEvent /\ r = [ledger EXCEPT !.gates[e.gate] = e.to]
  <2>1. e.type = "gate_updated"
    BY <1>7 DEF GateEvent
  <2> QED BY <1>0, <1>2, <1>7, <2>1 DEF Spared
<1>8. CASE e \in ReboundEvent /\ r = Rebound(ledger, e)
  <2>1. e.type = "source_rebound" /\ e.lapsed \subseteq Task
    BY <1>8 DEF ReboundEvent
  <2>2. ReboundRules(ledger, e)
    BY <1>3, <2>1 DEF Accepts, ClosedAs
  <2>3. t \in e.lapsed => ledger.claims[t].status = "active"
    BY <2>2 DEF ReboundRules, LapsedAt, Active
  <2>4. /\ r.claims[t].owner = ledger.claims[t].owner
        /\ r.claims[t].gen = ledger.claims[t].gen
        /\ r.claims[t].status = "active"
             <=> ledger.claims[t].status = "active" /\ t \notin e.lapsed
    BY SMTT(40), <1>0, <1>8, <2>3, ReboundClaims
  <2>5. r.claims[t].lease = ledger.claims[t].lease
    BY SMTT(40), <1>0, <1>8, ReboundKeepsLeases
  <2> DEFINE finished == {u \in Task : ledger.status[u] \in
                                          {"done", "accepted", "cancelled"}}
  <2>6. r.status[t] = IF t \in e.lapsed \ finished THEN "blocked" ELSE ledger.status[t]
    BY <1>0, <1>8 DEF Rebound
  <2> QED BY <1>2, <2>1, <2>2, <2>4, <2>5, <2>6 DEF Rebased
<1>9. CASE e \in CompleteEvent /\ r = [ledger EXCEPT !.objective = "complete"]
  <2>1. e.type = "objective_completed"
    BY <1>9 DEF CompleteEvent
  <2> QED BY <1>0, <1>2, <1>9, <2>1 DEF Spared
<1> QED BY <1>1, <1>4, <1>5, <1>6, <1>7, <1>8, <1>9 DEF WrittenAs

-----------------------------------------------------------------------------
(* The view always passes its own audit.                                   *)

Audited == Audit(ledger)

\* In every reachable state the materialized view passes the audit: the
\* loader, which audits before every write, never finds a ledger that the
\* live path itself has made unusable.
THEOREM ViewAlwaysAudited == Spec => []Audited
<1>1. Init => Audited
  <2> SUFFICES ASSUME Init, NEW t \in Task
               PROVE  AuditTask(ledger, t) /\ AuditClaim(ledger, t)
    BY DEF Audited, Audit
  <2>1. ledger.claims[t] = NoClaim /\ ledger.status[t] = Start[t]
    BY DEF Init, ManifestState
  <2>2. Start[t] \in {"planned", "ready", "cancelled"}
    BY DEF ManifestAssumption
  <2> QED BY <2>1, <2>2 DEF NoClaim, AuditTask, AuditClaim, Active
<1>2. ASSUME TypeOK, Audited, [Next]_vars PROVE Audited'
  <2>1. CASE \E e \in Event : Write(e)
    BY <2>1 DEF Write, Commits, Audited
  <2>2. CASE UNCHANGED <<ledger, log>>
    BY <1>2, <2>2 DEF Audited
  <2> QED BY <1>2, <2>1, <2>2, StepCases
<1> QED BY <1>1, <1>2, TypeCorrect, PTL DEF Spec

-----------------------------------------------------------------------------
(* What a step may never do.                                               *)

\* An accepted or cancelled task keeps its status for ever: the audit keeps
\* claims off it, so no expiry or revocation can block it, and a rebound
\* releases the claims of finished tasks instead of blocking them.
THEOREM FinalStaysFinal == Spec => FinalIsFinal
<1> DEFINE Final == \A t \in Task : ledger.status[t] \in {"accepted", "cancelled"} =>
                       ledger'.status[t] = ledger.status[t]
<1>1. ASSUME TypeOK, Audited, NEW e \in Event, Write(e), NEW t \in Task,
             ledger.status[t] \in {"accepted", "cancelled"}
      PROVE  ledger'.status[t] = ledger.status[t]
  <2>1. t \notin Active(ledger)
    BY <1>1 DEF Audited, Audit, AuditTask
  <2>2. ~ Moved(e, t)
    <3>1. LegalTransitions["accepted"] = {} /\ LegalTransitions["cancelled"] = {}
      BY DEF LegalTransitions
    <3> QED BY <1>1, <3>1 DEF Moved, TransitionRules
  <2>3. ~ Shut(e, t)
    BY <1>1, <2>1 DEF Shut, CloseRules, Active
  <2> QED BY <1>1, <2>2, <2>3, TaskCases DEF Spared, Taken, Rebased
<1>2. ASSUME TypeOK, Audited, [Next]_vars PROVE [Final]_vars
  <2>1. CASE \E e \in Event : Write(e)
    BY <1>1, <1>2, <2>1
  <2>2. CASE UNCHANGED <<ledger, log>>
    BY <2>2
  <2> QED BY <1>2, <2>1, <2>2, StepCases
<1> QED BY <1>2, TypeCorrect, ViewAlwaysAudited, PTL DEF Spec, FinalIsFinal

LEMMA FenceStep ==
    ASSUME TypeOK, NEW e \in Event, Write(e), NEW t \in Task
    PROVE  /\ ledger'.claims[t].gen >= ledger.claims[t].gen
           /\ t \in Active(ledger') \ Active(ledger) =>
                 ledger'.claims[t].gen > ledger.claims[t].gen
<1>1. ledger.claims[t] \in Claim /\ ledger.claims[t].gen \in Nat
  BY DEF TypeOK
<1>2. CASE Spared(e, t) \/ Moved(e, t)
  BY <1>1, <1>2 DEF Spared, Moved, Active
<1>3. CASE Taken(e, t)
  <2>1. e.token \in Nat /\ e.token > ledger.claims[t].gen
    BY <1>3, EventFields DEF Taken, AcquireRules
  <2> QED BY <1>1, <1>3, <2>1 DEF Taken
<1>4. CASE Shut(e, t)
  BY <1>1, <1>4 DEF Shut, ClosedAs, Active, CloseRules
<1>5. CASE Rebased(e, t)
  BY <1>1, <1>5 DEF Rebased, Active
<1> QED BY <1>2, <1>3, <1>4, <1>5, TaskCases

\* The generation of a task's claim never falls and rises with every
\* acquisition, whatever became of the claims before: a token that was once
\* released, expired, revoked or swept by a rebound never opens the task again.
THEOREM FencesAlwaysGrow == Spec => FencesGrow
<1> DEFINE Grow == \A t \in Task :
                      /\ ledger'.claims[t].gen >= ledger.claims[t].gen
                      /\ t \in Active(ledger') \ Active(ledger) =>
                            ledger'.claims[t].gen > ledger.claims[t].gen
<1>1. ASSUME TypeOK, [Next]_vars PROVE [Grow]_vars
  <2>1. CASE \E e \in Event : Write(e)
    BY <1>1, <2>1, FenceStep
  <2>2. CASE UNCHANGED <<ledger, log>>
    BY SMTT(40), <1>1, <2>2 DEF TypeOK
  <2> QED BY <1>1, <2>1, <2>2, StepCases
<1> QED BY <1>1, TypeCorrect, PTL DEF Spec, FencesGrow

\* A result needs the claim: work in flight has one, and the fence lets only
\* the owner of an active claim move it.
LEMMA ResultIsFenced ==
    ASSUME TypeOK, NEW e \in Event, NEW t \in Task, Moved(e, t),
           e.target \in {"reviewing", "done"}
    PROVE  /\ t \in Active(ledger)
           /\ e.actor = ledger.claims[t].owner
           /\ e.token = ledger.claims[t].gen
           /\ e.at < ledger.claims[t].lease
<1>1. e.target \in LegalTransitions[ledger.status[t]] /\ Fenced(ledger, e) /\ e.task = t
  BY DEF Moved, TransitionRules
<1>2. ledger.status[t] \in Status
  BY DEF TypeOK
<1>3. ledger.status[t] \in {"in_progress", "reviewing"}
  BY <1>1, <1>2 DEF LegalTransitions, Status
<1> QED BY <1>1, <1>3 DEF Fenced, Active

\* No result is recorded without an active claim, or at or after the end of
\* its lease by trusted time, however the event is dated.
THEOREM ResultsAlwaysInTime == Spec => ResultsInTime
<1> DEFINE InTime == \A t \in Task :
              ledger'.status[t] \in {"reviewing", "done"} \ {ledger.status[t]} =>
                 t \in Active(ledger) /\ now < ledger.claims[t].lease
<1>1. ASSUME TypeOK, NEW e \in Event, Write(e), NEW t \in Task,
             ledger'.status[t] \in {"reviewing", "done"} \ {ledger.status[t]}
      PROVE  t \in Active(ledger) /\ now < ledger.claims[t].lease
  <2>1. Moved(e, t)
    BY <1>1, TaskCases DEF Spared, Taken, Shut, Rebased
  <2>2. t \in Active(ledger)
    BY <1>1, <2>1, ResultIsFenced DEF Moved
  <2>3. PICK granted \in BOOLEAN : LiveRules(ledger, e, granted, now)
    BY <1>1 DEF Write, Commits
  <2> QED BY <2>1, <2>2, <2>3 DEF Moved, LiveRules
<1>2. ASSUME TypeOK, [Next]_vars PROVE [InTime]_vars
  <2>1. CASE \E e \in Event : Write(e)
    BY <1>1, <1>2, <2>1
  <2>2. CASE UNCHANGED <<ledger, log>>
    BY <2>2
  <2> QED BY <1>2, <2>1, <2>2, StepCases
<1> QED BY <1>2, TypeCorrect, PTL DEF Spec, ResultsInTime

-----------------------------------------------------------------------------
(* The ways out: which claims can be ended, and a checkpoint always bound.  *)

\* An expiry or a revocation blocks the task, which no rule of the audit
\* forbids: the view after it passes exactly if no other active claim is
\* overdue at the time of the event.
LEMMA CloseAudited ==
    ASSUME NEW s \in LedgerState, Audit(s), NEW t \in Task,
           s.claims[t].status = "active", NEW e,
           e.type \in {"claim_expired", "claim_revoked"}, e.task = t
    PROVE  Audit(Effect(s, e)) <=> \A u \in Active(s) \ {t} : e.at < s.claims[u].lease
<1> DEFINE n == Effect(s, e)
           closed == ClosedAs[e.type]
<1>0. s.claims[t] \in Claim /\ s.claims[t].status # "none"
  OBVIOUS
<1>1. n = [Closed(s, e) EXCEPT !.revision = s.revision + 1, !.updatedAt = e.at]
  BY DEF Effect, ClosedAs
<1>2. Closed(s, e) = [s EXCEPT !.claims[t] = [s.claims[t] EXCEPT !.status = closed],
                               !.status[t] = "blocked"]
  BY DEF Closed
<1>3. closed \in {"expired", "revoked"}
  BY DEF ClosedAs
<1> HIDE DEF closed
<1>4. /\ n.claims = [s.claims EXCEPT ![t] = [s.claims[t] EXCEPT !.status = closed]]
      /\ n.status = [s.status EXCEPT ![t] = "blocked"]
      /\ n.evidence = s.evidence
      /\ n.head = s.head
      /\ n.updatedAt = e.at
  BY <1>1, <1>2
<1> HIDE DEF n
<1>5. /\ n.claims[t].status = closed
      /\ n.claims[t].gen = s.claims[t].gen
      /\ n.claims[t].head = s.claims[t].head
      /\ n.status[t] = "blocked"
  BY <1>0, <1>4
<1>6. AuditTask(n, t) /\ AuditClaim(n, t)
  <2>1. s.claims[t].gen >= 1 /\ s.claims[t].head = s.head
    BY <1>0 DEF Audit, AuditClaim
  <2> QED BY <1>3, <1>4, <1>5, <2>1 DEF AuditTask, AuditClaim
<1>7. ASSUME NEW u \in Task \ {t}
      PROVE  AuditTask(n, u) /\ AuditClaim(n, u)
               <=> (u \in Active(s) => e.at < s.claims[u].lease)
  <2>1. n.claims[u] = s.claims[u] /\ n.status[u] = s.status[u]
    BY <1>4
  <2>2. AuditTask(s, u) /\ AuditClaim(s, u)
    BY DEF Audit
  <2>3. AuditTask(n, u)
    BY <1>4, <2>1, <2>2 DEF AuditTask, Active
  <2>4. s.claims[u].status # "none" => n.claims[u].gen >= 1 /\ n.claims[u].head = n.head
    BY <1>4, <2>1, <2>2 DEF AuditClaim
  <2>5. AuditClaim(n, u) <=> (s.claims[u].status = "active" => s.claims[u].lease > e.at)
    BY <1>4, <2>1, <2>4 DEF AuditClaim
  <2> QED BY <2>3, <2>5 DEF Active
<1>8. (\A u \in Task : AuditTask(n, u) /\ AuditClaim(n, u))
        <=> \A u \in Active(s) \ {t} : e.at < s.claims[u].lease
  <2>1. \A u \in Active(s) : u \in Task
    BY DEF Active
  <2> QED BY <1>6, <1>7, <2>1
<1> QED BY <1>8 DEF Audit, n

\* Nothing blocks a revocation for ever: whatever the clock shows and however
\* many leases have ended at once, a user or coordinator can end any active
\* claim.  An expiry has no such theorem.
THEOREM RevocationNeverBlocked == Spec => []RevocationAlwaysPossible
<1>1. ASSUME TypeOK, Audited, CompleteIsSettled,
             NEW t \in Active(ledger), NEW a \in Agent,
             Role[a] \in {"user", "coordinator"}
      PROVE  Commits(ledger, Revocation(t, a), TRUE, now)
  <2> DEFINE e == Revocation(t, a)
  <2>1. /\ e.type = "claim_revoked" /\ e.task = t /\ e.at = ledger.updatedAt
        /\ e.seq = ledger.revision + 1 /\ e.token = ledger.claims[t].gen
        /\ e.by = a /\ e.actor = a
    BY DEF Revocation, NextSeq
  <2> HIDE DEF e
  <2>2. ledger \in LedgerState /\ t \in Task /\ ledger.claims[t].status = "active"
    BY <1>1 DEF TypeOK, Active
  <2>3. InSequence(ledger, e)
    BY <1>1, <2>1, <2>2 DEF InSequence, CompleteIsSettled
  <2>4. Authorised(e, {"user", "coordinator"}, TRUE)
    BY <1>1, <2>1 DEF Authorised, ManifestAssumption
  <2>5. CloseRules(ledger, e)
    BY <2>1, <2>2, <2>4 DEF CloseRules
  <2>6. Accepts(ledger, e)
    BY <2>1, <2>3, <2>5 DEF Accepts, ClosedAs
  <2>7. LiveRules(ledger, e, TRUE, now)
    BY <2>1 DEF LiveRules, LiveAuthority, Protected
  <2>8. \A u \in Active(ledger) \ {t} : e.at < ledger.claims[u].lease
    <3> SUFFICES ASSUME NEW u \in Active(ledger) PROVE e.at < ledger.claims[u].lease
      OBVIOUS
    <3>1. u \in Task /\ ledger.claims[u].status = "active"
      BY DEF Active
    <3>2. ledger.claims[u].lease > ledger.updatedAt
      BY <1>1, <3>1 DEF Audited, Audit, AuditClaim
    <3> QED BY <2>1, <2>2, <3>1, <3>2
  <2>9. Audit(Effect(ledger, e))
    BY SMTT(40), <1>1, <2>1, <2>2, <2>8, CloseAudited DEF Audited
  <2> QED BY <2>6, <2>7, <2>9 DEF Commits, e
<1>2. TypeOK /\ Audited /\ CompleteIsSettled => RevocationAlwaysPossible
  BY <1>1 DEF RevocationAlwaysPossible
<1> QED BY <1>2, TypeCorrect, ViewAlwaysAudited, CompletionSettles, PTL

Expiry(t, a, time) ==
    [type |-> "claim_expired", seq |-> NextSeq, at |-> time, actor |-> a,
     by |-> Nobody, task |-> t, token |-> ledger.claims[t].gen]

\* When a claim can expire: the event lies between the last one and now, at
\* or after the end of the lease, and before the end of every other one.
ExpiresInLeaseOrder ==
    \A t \in Active(ledger), a \in Agent, time \in Nat :
       Commits(ledger, Expiry(t, a, time), FALSE, now) <=>
          /\ ledger.updatedAt =< time /\ time =< now
          /\ ledger.claims[t].lease =< time
          /\ \A u \in Active(ledger) \ {t} : time < ledger.claims[u].lease

\* claim_expired works in the strict order of the leases only: the reducer
\* and the audit together accept it exactly for a claim whose lease ended
\* before every other active one.  Of two claims whose leases end at the same
\* time neither can ever expire; a revocation or a rebound has to end them.
THEOREM ExpiryExactly == Spec => []ExpiresInLeaseOrder
<1>1. ASSUME TypeOK, Audited, CompleteIsSettled,
             NEW t \in Active(ledger), NEW a \in Agent, NEW time \in Nat
      PROVE  Commits(ledger, Expiry(t, a, time), FALSE, now) <=>
                /\ ledger.updatedAt =< time /\ time =< now
                /\ ledger.claims[t].lease =< time
                /\ \A u \in Active(ledger) \ {t} : time < ledger.claims[u].lease
  <2> DEFINE e == Expiry(t, a, time)
  <2>1. /\ e.type = "claim_expired" /\ e.task = t /\ e.at = time
        /\ e.seq = ledger.revision + 1 /\ e.token = ledger.claims[t].gen
    BY DEF Expiry, NextSeq
  <2> HIDE DEF e
  <2>2. ledger \in LedgerState /\ t \in Task /\ ledger.claims[t].status = "active"
    BY <1>1 DEF TypeOK, Active
  <2>3. InSequence(ledger, e) <=> ledger.updatedAt =< time
    BY <1>1, <2>1, <2>2 DEF InSequence, CompleteIsSettled
  <2>4. CloseRules(ledger, e) <=> ledger.claims[t].lease =< time
    BY <2>1, <2>2 DEF CloseRules, Authorised
  <2>5. Accepts(ledger, e) <=> InSequence(ledger, e) /\ CloseRules(ledger, e)
    BY <2>1 DEF Accepts, ClosedAs
  <2>6. LiveRules(ledger, e, FALSE, now) <=> time =< now
    BY <2>1 DEF LiveRules, LiveAuthority, Protected
  <2>7. Audit(Effect(ledger, e)) <=>
          \A u \in Active(ledger) \ {t} : time < ledger.claims[u].lease
    BY <1>1, <2>1, <2>2, CloseAudited DEF Audited
  <2> QED BY <2>3, <2>4, <2>5, <2>6, <2>7 DEF Commits, e
<1>2. TypeOK /\ Audited /\ CompleteIsSettled => ExpiresInLeaseOrder
  BY <1>1 DEF ExpiresInLeaseOrder
<1> QED BY <1>2, TypeCorrect, ViewAlwaysAudited, CompletionSettles, PTL

\* The audit after a rebound that disposes of exactly the claims whose lease
\* has ended: the others outlast the new time of the ledger, and every
\* recorded claim, closed ones too, carries the new head.
LEMMA ReboundAudited ==
    ASSUME NEW s \in LedgerState, Audit(s), NEW e \in ReboundEvent,
           e.lapsed = LapsedAt(s, e.at)
    PROVE  Audit(Effect(s, e))
<1> DEFINE n == Effect(s, e)
           finished == {u \in Task : s.status[u] \in {"done", "accepted", "cancelled"}}
<1>0. e.type = "source_rebound" /\ e.at \in Nat
  BY DEF ReboundEvent
<1>1. n = [Rebound(s, e) EXCEPT !.revision = s.revision + 1, !.updatedAt = e.at]
  BY <1>0 DEF Effect, ClosedAs
<1>2. Rebound(s, e) \in LedgerState
  BY ReboundType
<1>3. /\ n.claims = Rebound(s, e).claims
      /\ n.status = Rebound(s, e).status
      /\ n.evidence = Rebound(s, e).evidence
      /\ n.head = Rebound(s, e).head
      /\ n.updatedAt = e.at
  BY <1>1, <1>2
<1>4. Rebound(s, e).head = e.target /\ Rebound(s, e).evidence = s.evidence
  BY DEF Rebound
<1> SUFFICES ASSUME NEW t \in Task PROVE AuditTask(n, t) /\ AuditClaim(n, t)
  BY DEF Audit
<1>5. AuditTask(s, t) /\ AuditClaim(s, t)
  BY DEF Audit
<1>6. t \in e.lapsed <=> s.claims[t].status = "active" /\ s.claims[t].lease =< e.at
  BY DEF LapsedAt, Active
<1>7. n.status[t] = IF t \in e.lapsed \ finished THEN "blocked" ELSE s.status[t]
  <2>1. Rebound(s, e).status[t] = IF t \in e.lapsed \ finished THEN "blocked"
                                                             ELSE s.status[t]
    BY DEF Rebound
  <2> HIDE DEF n, finished
  <2> QED BY <1>3, <2>1
<1>8. /\ Rebound(s, e).claims[t].gen = s.claims[t].gen
      /\ Rebound(s, e).claims[t].status = "active"
           <=> s.claims[t].status = "active" /\ t \notin e.lapsed
  BY <1>6, ReboundClaims
<1>9. Rebound(s, e).claims[t].lease = s.claims[t].lease
  BY ReboundKeepsLeases
<1>10. /\ s.claims[t].status = "none" => Rebound(s, e).claims[t] = s.claims[t]
       /\ s.claims[t].status # "none" => Rebound(s, e).claims[t].head = e.target
  <2> DEFINE c == s.claims[t]
             left == IF t \notin e.lapsed THEN c.status
                     ELSE IF t \in finished THEN "released" ELSE "expired"
  <2>1. Rebound(s, e).claims[t] = IF c.status = "none" THEN c
                                  ELSE [c EXCEPT !.head = e.target, !.status = left]
    BY DEF Rebound
  <2>2. c \in Claim
    OBVIOUS
  <2> HIDE DEF left
  <2> QED BY <2>1, <2>2
<1> HIDE DEF n
<1>11. AuditTask(n, t)
  <2>1. n.evidence[t] = s.evidence[t]
    BY <1>3, <1>4
  <2>2. t \in Active(n) <=> t \in Active(s) /\ t \notin e.lapsed
    BY <1>3, <1>8 DEF Active
  <2>3. CASE t \in e.lapsed \ finished
    BY <1>7, <2>3 DEF AuditTask
  <2>4. CASE t \notin e.lapsed \ finished
    <3>1. n.status[t] = s.status[t]
      BY <1>7, <2>4
    <3>2. s.status[t] = "in_progress" => t \notin e.lapsed
      BY <2>4
    <3> QED BY <1>5, <2>1, <2>2, <3>1, <3>2 DEF AuditTask
  <2> QED BY <2>3, <2>4
<1>12. AuditClaim(n, t)
  <2>1. n.claims[t].status # "none" => s.claims[t].status # "none"
    BY <1>3, <1>10
  <2>2. n.claims[t].status # "none" => n.claims[t].gen >= 1 /\ n.claims[t].head = n.head
    BY <1>3, <1>4, <1>5, <1>8, <1>10, <2>1 DEF AuditClaim
  <2>3. n.claims[t].status = "active" => n.claims[t].lease > n.updatedAt
    <3>1. s.claims[t].lease \in Nat
      OBVIOUS
    <3> QED BY <1>0, <1>3, <1>6, <1>8, <1>9, <3>1
  <2> QED BY <2>2, <2>3 DEF AuditClaim
<1> QED BY <1>11, <1>12

\* The bridge after a checkpoint is never blocked: if HEAD has moved on and
\* no event is dated in the future, a rebound dated now commits, whatever
\* claims it finds, lapsed or not.
THEOREM RebindNeverBlocked == Spec => []RebindAlwaysPossible
<1>1. ASSUME TypeOK, Audited, NEW a \in Agent,
             ledger.objective = "active", ledger.head < repo.head,
             ledger.updatedAt =< now, Role[a] \in {"user", "platform"}
      PROVE  Commits(ledger, RebindNow(a), TRUE, now)
  <2> DEFINE e == RebindNow(a)
  <2>1. /\ e.type = "source_rebound" /\ e.seq = ledger.revision + 1
        /\ e.at = now /\ e.actor = a /\ e.by = a
        /\ e.from = ledger.head /\ e.target = repo.head
        /\ e.rebind = Active(ledger) \ LapsedAt(ledger, now)
        /\ e.lapsed = LapsedAt(ledger, now)
    BY DEF RebindNow, NextSeq
  <2>2. /\ ledger \in LedgerState /\ now \in Nat /\ repo.head \in Nat
        /\ ledger.head \in Nat /\ ledger.revision \in Nat
    BY <1>1 DEF TypeOK, Repository
  <2>3. e \in ReboundEvent
    <3>1. LapsedAt(ledger, now) \in SUBSET Task /\ Active(ledger) \in SUBSET Task
      BY DEF LapsedAt, Active
    <3> QED BY <2>2, <3>1 DEF RebindNow, NextSeq, ReboundEvent
  <2> HIDE DEF e
  <2>4. InSequence(ledger, e)
    BY <1>1, <2>1 DEF InSequence
  <2>5. Authorised(e, {"user", "platform"}, FALSE)
    BY <1>1, <2>1 DEF Authorised, ManifestAssumption
  <2>6. ReboundRules(ledger, e)
    BY <1>1, <2>1, <2>2, <2>5 DEF ReboundRules, Authorised
  <2>7. Accepts(ledger, e)
    BY <2>1, <2>4, <2>6 DEF Accepts
  <2>8. LiveRules(ledger, e, TRUE, now)
    BY <2>1, <2>2 DEF LiveRules, LiveAuthority, Protected
  <2>9. Audit(Effect(ledger, e))
    BY <1>1, <2>1, <2>2, <2>3, ReboundAudited DEF Audited
  <2> QED BY <2>7, <2>8, <2>9 DEF Commits, e
<1>2. TypeOK /\ Audited => RebindAlwaysPossible
  BY <1>1 DEF RebindAlwaysPossible
<1> QED BY <1>2, TypeCorrect, ViewAlwaysAudited, PTL

=============================================================================
