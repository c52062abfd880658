--------------------------- MODULE LoopHistoryProofs ---------------------------
(***************************************************************************)
(* Proofs about LoopHistory: what the event history of a ledger shows, for *)
(* histories of any length.                                                *)
(***************************************************************************)
EXTENDS LoopHistory, LoopLedgerProofs

-----------------------------------------------------------------------------
(* A write appends one event and leaves the others where they are.         *)

LEMMA Grown ==
    ASSUME TypeOK, NEW e \in Event, Write(e)
    PROVE  /\ Len(log) \in Nat
           /\ Len(log') = Len(log) + 1
           /\ log'[Len(log) + 1] = e
           /\ \A i \in Positions : log'[i] = log[i] /\ log[i] \in Event
           /\ Positions' = Positions \cup {Len(log) + 1}
           /\ ledger' = Effect(ledger, e)
<1> HIDE DEF Event
<1>1. log \in Seq(Event) /\ log' = Append(log, e)
  BY DEF TypeOK, Write
<1>2. /\ Len(log) \in Nat
      /\ Len(log') = Len(log) + 1
      /\ log'[Len(log) + 1] = e
      /\ \A i \in Positions : log'[i] = log[i] /\ log[i] \in Event
  BY <1>1 DEF Positions
<1>3. Positions' = Positions \cup {Len(log) + 1}
  BY <1>2 DEF Positions
<1>4. ledger' = Effect(ledger, e)
  BY DEF Write
<1> QED BY <1>2, <1>3, <1>4

\* What the earlier events are does not change.
LEMMA PastStands ==
    ASSUME TypeOK, NEW e \in Event, Write(e), NEW i \in Positions, NEW t \in Task
    PROVE  (Acquires(i, t)' <=> Acquires(i, t)) /\ (Ends(i, t)' <=> Ends(i, t))
BY Grown DEF Acquires, Ends

LEMMA ClaimFields ==
    ASSUME NEW s \in LedgerState, NEW t \in Task
    PROVE  s.claims[t].gen \in Nat /\ s.claims[t].lease \in Nat
BY DEF LedgerState, Claim

\* A claim that a write closes is active no more.
LEMMA ShutIsOver ==
    ASSUME TypeOK, NEW e \in Event, NEW t \in Task, Shut(e, t)
    PROVE  t \notin Active(ledger')
<1>1. ledger.claims[t] \in Claim
  BY DEF TypeOK, LedgerState
<1>2. ledger'.claims[t].status = ClosedAs[e.type]
  BY <1>1 DEF Shut, Claim
<1>3. ClosedAs[e.type] # "active"
  BY DEF Shut, ClosedAs
<1> QED BY <1>2, <1>3 DEF Active

\* What the new event is, seen from one task.
LEMMA NewEvent ==
    ASSUME TypeOK, NEW e \in Event, Write(e), NEW t \in Task,
           NEW n, n = Len(log) + 1
    PROVE  /\ Acquires(n, t)' <=> Taken(e, t)
           /\ Ends(n, t)' <=>
                Shut(e, t) \/ (Rebased(e, t) /\ t \in Active(ledger) \ Active(ledger'))
<1>1. log'[n] = e /\ Len(log) \in Nat
  BY Grown
<1>2. /\ Acquires(n, t)' <=> e.type = "claim_acquired" /\ e.task = t
      /\ Ends(n, t)' <=>
           \/ e.type \in DOMAIN ClosedAs /\ e.task = t
           \/ e.type = "source_rebound" /\ t \in e.lapsed
  BY <1>1 DEF Acquires, Ends
<1>3. DOMAIN ClosedAs = {"claim_released", "claim_expired", "claim_revoked"}
  BY DEF ClosedAs
<1>4. CASE Spared(e, t) \/ Moved(e, t)
  BY <1>2, <1>3, <1>4 DEF Spared, Moved, Taken, Shut, Rebased
<1>5. CASE Taken(e, t) \/ Shut(e, t)
  BY <1>2, <1>3, <1>5 DEF Taken, Shut, Rebased
<1>6. CASE Rebased(e, t)
  <2>1. e.type = "source_rebound" /\ e.lapsed = LapsedAt(ledger, e.at)
    BY <1>6 DEF Rebased, ReboundRules
  <2>2. t \in e.lapsed => t \in Active(ledger)
    BY <2>1 DEF LapsedAt
  <2>3. t \in Active(ledger') <=> t \in Active(ledger) /\ t \notin e.lapsed
    BY <1>6 DEF Rebased, Active
  <2> QED BY <1>2, <1>3, <1>6, <2>1, <2>2, <2>3 DEF Taken, Shut
<1> QED BY <1>4, <1>5, <1>6, TaskCases

-----------------------------------------------------------------------------
(* The history is an append-only log.                                      *)

\* Each event carries its position as its sequence number.
Numbered ==
    /\ ledger.revision = Len(log)
    /\ \A i \in Positions : log[i].seq = i

History == INSTANCE AppendLog WITH Request <- Event, secured <- 0

LEMMA NumberedStep ==
    ASSUME TypeOK, Numbered, NEW e \in Event, Write(e)
    PROVE  Numbered' /\ History!AppendRequest(e)
<1>0. PICK n : n = Len(log) + 1
  OBVIOUS
<1>1. /\ Positions' = Positions \cup {n} /\ Positions = 1 .. n - 1
      /\ n \in Nat /\ Len(log) = n - 1 /\ Len(log') = n
      /\ log'[n] = e /\ \A i \in Positions : log'[i] = log[i]
  BY <1>0, Grown DEF Positions
<1>2. e.seq = n
  <2>1. e.seq = ledger.revision + 1
    BY DEF Write, Commits, Accepts, InSequence
  <2> QED BY <1>0, <2>1 DEF Numbered
<1>3. ledger'.revision = n
  <2>1. PICK r \in LedgerState : WrittenAs(e, r)
    BY WriteCases
  <2>2. ledger'.revision = ledger.revision + 1
    BY <2>1 DEF WrittenAs, LedgerState
  <2> QED BY <1>0, <2>2 DEF Numbered
<1>4. Numbered'
  BY <1>1, <1>2, <1>3 DEF Numbered
<1>5. ~ History!Contains(e)
  BY <1>1, <1>2 DEF Numbered, History!Contains, Positions
<1>6. log' = Append(log, e)
  BY DEF Write
<1> QED BY <1>4, <1>5, <1>6 DEF History!AppendRequest

\* The ledger asks of its file no more than the write protocol keeps
\* (LedgerWrite implements the same log): the history implements AppendLog,
\* every step of it an append of an event that it does not contain, at the
\* position that its sequence number names.
THEOREM HistoryIsAppendOnly == Spec => []Numbered /\ History!Spec
<1>1. Init => Numbered /\ History!Init
  BY DEF Init, ManifestState, Numbered, Positions, History!Init
<1>2. ASSUME TypeOK, Numbered, [Next]_vars
      PROVE  Numbered' /\ [History!Next]_(History!vars)
  <2>1. CASE \E e \in Event : Write(e)
    BY <1>2, <2>1, NumberedStep DEF History!Next
  <2>2. CASE UNCHANGED <<ledger, log>>
    BY <1>2, <2>2 DEF Numbered, Positions, History!vars
  <2> QED BY <1>2, <2>1, <2>2, StepCases
<1> QED BY <1>1, <1>2, TypeCorrect, PTL DEF Spec, History!Spec

-----------------------------------------------------------------------------
(* The claims of the view, read off the history.                           *)

\* The claim that event i acquired is the one the view holds for task t.
Backed(i, t) ==
    /\ t \in Active(ledger)
    /\ HeldSince(i, Len(log), t)
    /\ log[i].actor = ledger.claims[t].owner
    /\ log[i].token = ledger.claims[t].gen
    /\ log[i].lease = ledger.claims[t].lease

\* Event k ended the claim that event i acquired, and was entitled to.
Over(i, k, t) ==
    /\ Ends(k, t)
    /\ \/ log[k].type = "claim_released" /\ log[k].actor = log[i].actor
       \/ log[k].type = "claim_revoked" /\ log[k].by = log[k].actor
       \/ log[i].lease =< log[k].at

\* The view holds no claim that the history does not show, no earlier token
\* is above the current generation, and every acquisition is either the
\* current claim or was ended by an entitled event.
ClaimHistory ==
    \A t \in Task :
       /\ t \in Active(ledger) => \E i \in Positions : Backed(i, t)
       /\ \A i \in Positions : Acquires(i, t) =>
             /\ log[i].token =< ledger.claims[t].gen
             /\ Backed(i, t) \/ \E k \in i + 1 .. Len(log) : Over(i, k, t)

\* The approval that the view shows for a gate is the last update of that
\* gate in the history, and an authorised one.
Approved(j, g) ==
    /\ log[j].type = "gate_updated"
    /\ log[j].gate = g
    /\ log[j].to = "satisfied"
    /\ log[j].by = log[j].actor
    /\ Role[log[j].by] \in {"user", "platform"}

GateHistory ==
    \A g \in Gate : ledger.gates[g] = "satisfied" =>
       \E j \in Positions :
          /\ Approved(j, g)
          /\ \A k \in j + 1 .. Len(log) :
                log[k].type = "gate_updated" => log[k].gate # g

\* A replay starts from the head that the manifest state had.
HeadHistory ==
    \/ /\ \A i \in Positions : log[i].type # "source_rebound"
       /\ ledger.head = 0
    \/ \E i \in Positions :
          /\ log[i].type = "source_rebound" /\ log[i].from = 0
          /\ \A j \in Positions : log[j].type = "source_rebound" => i =< j

-----------------------------------------------------------------------------
(* Claims.                                                                 *)

\* A claim stays held through an event that neither ends nor acquires it.
LEMMA HeldOn ==
    ASSUME TypeOK, NEW e \in Event, Write(e), NEW t \in Task,
           NEW n, n = Len(log) + 1, NEW i \in Positions,
           HeldSince(i, Len(log), t), ~ Ends(n, t)', ~ Acquires(n, t)'
    PROVE  HeldSince(i, n, t)'
<1>1. Acquires(i, t)'
  BY PastStands DEF HeldSince
<1>2. ASSUME NEW k \in i + 1 .. n PROVE ~ Ends(k, t)' /\ ~ Acquires(k, t)'
  <2>1. CASE k = n
    BY <2>1
  <2>2. CASE k # n
    <3>1. k \in i + 1 .. Len(log) /\ k \in Positions
      BY <2>2, Grown DEF Positions
    <3>2. ~ Ends(k, t) /\ ~ Acquires(k, t)
      BY <3>1 DEF HeldSince
    <3> QED BY <3>1, <3>2, PastStands
  <2> QED BY <2>1, <2>2
<1> QED BY <1>1, <1>2 DEF HeldSince

LEMMA BackedOn ==
    ASSUME TypeOK, NEW e \in Event, Write(e), NEW t \in Task,
           NEW i \in Positions, Backed(i, t),
           Spared(e, t) \/ Moved(e, t) \/ (Rebased(e, t) /\ t \in Active(ledger'))
    PROVE  Backed(i, t)'
<1> DEFINE n == Len(log) + 1
<1>1. ~ Shut(e, t) /\ ~ Taken(e, t) /\ (Rebased(e, t) => t \in Active(ledger'))
  BY DEF Spared, Moved, Rebased, Shut, Taken, ClosedAs
<1>2. ASSUME NEW m, m = n PROVE HeldSince(i, m, t)'
  <2>1. ~ Ends(m, t)' /\ ~ Acquires(m, t)'
    BY <1>1, <1>2, NewEvent
  <2> QED BY <1>2, <2>1, HeldOn DEF Backed
<1>3. Len(log') = n
  BY Grown
<1>4. HeldSince(i, Len(log), t)'
  BY <1>2, <1>3
<1>5. /\ t \in Active(ledger')
      /\ ledger'.claims[t].owner = ledger.claims[t].owner
      /\ ledger'.claims[t].gen = ledger.claims[t].gen
      /\ ledger'.claims[t].lease = ledger.claims[t].lease
  BY DEF Spared, Moved, Rebased, Backed, Active
<1>6. log'[i] = log[i]
  BY Grown
<1> QED BY <1>4, <1>5, <1>6 DEF Backed

\* A new claim is backed by the event that acquired it.
LEMMA BackedNew ==
    ASSUME TypeOK, NEW e \in Event, Write(e), NEW t \in Task, Taken(e, t),
           NEW n, n = Len(log) + 1
    PROVE  Backed(n, t)' /\ log'[n].token = ledger'.claims[t].gen
<1>1. log'[n] = e /\ Len(log') = n /\ n \in Nat
  BY Grown
<1>2. HeldSince(n, n, t)'
  <2>1. Acquires(n, t)'
    BY NewEvent
  <2>2. n + 1 .. n = {}
    BY <1>1
  <2> QED BY <2>1, <2>2 DEF HeldSince
<1>3. /\ t \in Active(ledger')
      /\ ledger'.claims[t].owner = e.actor
      /\ ledger'.claims[t].gen = e.token
      /\ ledger'.claims[t].lease = e.lease
  BY DEF Taken, Active
<1> QED BY <1>1, <1>2, <1>3 DEF Backed

\* Whoever ends a claim is entitled to: its owner, an authorised principal,
\* or anybody after the end of the lease.
LEMMA OverNow ==
    ASSUME TypeOK, NEW e \in Event, Write(e), NEW t \in Task,
           NEW n, n = Len(log) + 1, NEW i \in Positions, Backed(i, t),
           Shut(e, t) \/ (Rebased(e, t) /\ t \notin Active(ledger'))
    PROVE  Over(i, n, t)'
<1>1. log'[n] = e /\ log'[i] = log[i]
  BY Grown
<1>2. Ends(n, t)'
  BY NewEvent DEF Backed
<1>3. /\ log[i].actor = ledger.claims[t].owner
      /\ log[i].lease = ledger.claims[t].lease
      /\ e.at \in Nat /\ ledger.claims[t].lease \in Nat
  BY EventFields, ClaimFields DEF Backed, TypeOK
<1>4. CASE Shut(e, t)
  <2>1. e.type \in {"claim_released", "claim_expired", "claim_revoked"}
    BY <1>4 DEF Shut, ClosedAs
  <2>2. e.type = "claim_released" => e.actor = log[i].actor
    BY <1>3, <1>4 DEF Shut, CloseRules
  <2>3. e.type = "claim_expired" => log[i].lease =< e.at
    BY <1>3, <1>4 DEF Shut, CloseRules
  <2>4. e.type = "claim_revoked" => e.by = e.actor
    BY <1>4 DEF Shut, CloseRules, Authorised
  <2> QED BY <1>1, <1>2, <2>1, <2>2, <2>3, <2>4 DEF Over
<1>5. CASE Rebased(e, t) /\ t \notin Active(ledger')
  <2>1. t \in e.lapsed
    BY <1>5 DEF Rebased, Backed, Active
  <2>2. ledger.claims[t].lease =< e.at
    BY <1>5, <2>1 DEF Rebased, ReboundRules, LapsedAt
  <2> QED BY <1>1, <1>2, <1>3, <2>2 DEF Over
<1> QED BY <1>4, <1>5

LEMMA OverStands ==
    ASSUME TypeOK, NEW e \in Event, Write(e), NEW t \in Task,
           NEW i \in Positions, NEW k \in Positions, Over(i, k, t)
    PROVE  Over(i, k, t)'
BY PastStands, Grown DEF Over

LEMMA ClaimHistoryStep ==
    ASSUME TypeOK, ClaimHistory, NEW e \in Event, Write(e)
    PROVE  ClaimHistory'
<1> SUFFICES ASSUME NEW t \in Task
             PROVE  /\ t \in Active(ledger') => \E i \in Positions' : Backed(i, t)'
                    /\ \A i \in Positions' : Acquires(i, t)' =>
                          /\ log'[i].token =< ledger'.claims[t].gen
                          /\ \/ Backed(i, t)'
                             \/ \E k \in i + 1 .. Len(log') : Over(i, k, t)'
  BY DEF ClaimHistory
<1>1. PICK n : n = Len(log) + 1
  OBVIOUS
<1>2. /\ n \in Positions' /\ Len(log') = n /\ n \in Nat
      /\ Positions' = Positions \cup {n}
      /\ \A i \in Positions : i \in Nat /\ n \in i + 1 .. n
  BY <1>1, Grown DEF Positions
<1>3. ASSUME t \in Active(ledger') PROVE \E i \in Positions' : Backed(i, t)'
  <2>1. CASE Taken(e, t)
    BY <1>1, <1>2, <2>1, BackedNew
  <2>2. CASE ~ Taken(e, t)
    <3>1. Spared(e, t) \/ Moved(e, t) \/ (Rebased(e, t) /\ t \in Active(ledger'))
      <4>1. ~ Shut(e, t)
        BY <1>3, ShutIsOver
      <4> QED BY <1>3, <2>2, <4>1, TaskCases
    <3>2. t \in Active(ledger)
      BY <1>3, <3>1 DEF Spared, Moved, Rebased, Active
    <3>3. PICK i \in Positions : Backed(i, t)
      BY <3>2 DEF ClaimHistory
    <3> QED BY <1>2, <3>1, <3>3, BackedOn
  <2> QED BY <2>1, <2>2
<1>4. ASSUME NEW i \in Positions', Acquires(i, t)'
      PROVE  /\ log'[i].token =< ledger'.claims[t].gen
             /\ Backed(i, t)' \/ \E k \in i + 1 .. Len(log') : Over(i, k, t)'
  <2>1. CASE i = n
    <3>1. Taken(e, t)
      BY <1>1, <1>4, <2>1, NewEvent
    <3>2. Backed(n, t)' /\ log'[n].token = ledger'.claims[t].gen
      BY <1>1, <3>1, BackedNew
    <3>3. ledger'.claims[t].gen \in Nat
      BY <3>1, EventFields DEF Taken
    <3> QED BY <2>1, <3>2, <3>3
  <2>2. CASE i \in Positions
    <3>1. Acquires(i, t) /\ log'[i] = log[i] /\ log[i] \in Event
      BY <1>4, <2>2, PastStands, Grown
    <3>2. log[i].token =< ledger.claims[t].gen
      BY <2>2, <3>1 DEF ClaimHistory
    <3>3. log'[i].token =< ledger'.claims[t].gen
      <4>1. log[i].token \in Nat
        BY <3>1, EventFields DEF Acquires
      <4>2. ledger.claims[t].gen \in Nat /\ ledger'.claims[t].gen \in Nat
        <5>1. ledger' \in LedgerState
          BY EffectType, Grown DEF TypeOK
        <5> QED BY <5>1, ClaimFields DEF TypeOK
      <4> QED BY <3>1, <3>2, <4>1, <4>2, FenceStep
    <3>4. CASE Backed(i, t)
      <4>1. ~ Taken(e, t)
        BY <3>4 DEF Taken, AcquireRules, Backed
      <4>2. CASE Shut(e, t) \/ (Rebased(e, t) /\ t \notin Active(ledger'))
        BY <1>1, <1>2, <2>2, <3>3, <3>4, <4>2, OverNow
      <4>3. CASE Spared(e, t) \/ Moved(e, t) \/ (Rebased(e, t) /\ t \in Active(ledger'))
        BY <2>2, <3>3, <3>4, <4>3, BackedOn
      <4> QED BY <4>1, <4>2, <4>3, TaskCases
    <3>5. CASE \E k \in i + 1 .. Len(log) : Over(i, k, t)
      <4>1. PICK k \in i + 1 .. Len(log) : Over(i, k, t)
        BY <3>5
      <4>2. k \in Positions /\ k \in i + 1 .. Len(log')
        BY <1>1, <1>2, <2>2, Grown DEF Positions
      <4> QED BY <2>2, <3>3, <4>1, <4>2, OverStands
    <3> QED BY <2>2, <3>1, <3>4, <3>5 DEF ClaimHistory
  <2> QED BY <1>2, <2>1, <2>2
<1> QED BY <1>3, <1>4

\* The claims of the view are what the history says, and every earlier
\* acquisition was ended by somebody entitled to: the inductive invariant
\* behind the two theorems on claims and results.
THEOREM ClaimsAlwaysExplained == Spec => []ClaimHistory
<1>1. Init => ClaimHistory
  BY DEF Init, ManifestState, NoClaim, ClaimHistory, Active, Positions
<1>2. ASSUME TypeOK, ClaimHistory, [Next]_vars PROVE ClaimHistory'
  <2>1. CASE \E e \in Event : Write(e)
    BY <1>2, <2>1, ClaimHistoryStep
  <2>2. CASE UNCHANGED <<ledger, log>>
    BY <1>2, <2>2 DEF ClaimHistory, Backed, Over, HeldSince, Acquires, Ends,
                      Positions, Active
  <2> QED BY <1>2, <2>1, <2>2, StepCases
<1> QED BY <1>1, <1>2, TypeCorrect, PTL DEF Spec

\* However long the history: a claim whose lease still runs is not given to
\* somebody else unless its owner released it or an authorised principal
\* revoked it, and every later holder has a higher token.
THEOREM UnexpiredClaimKept == Spec => []UnexpiredClaimNotReassigned
<1>1. Init => UnexpiredClaimNotReassigned
  BY DEF Init, UnexpiredClaimNotReassigned, Positions
<1>2. ASSUME TypeOK, ClaimHistory, UnexpiredClaimNotReassigned,
             NEW e \in Event, Write(e), NEW t \in Task,
             NEW i \in Positions', NEW j \in Positions',
             i < j, Acquires(i, t)', Acquires(j, t)'
      PROVE  /\ log'[i].token < log'[j].token
             /\ \E k \in i + 1 .. j - 1 : Over(i, k, t)'
  <2>1. PICK n : n = Len(log) + 1
    OBVIOUS
  <2>2. /\ Positions' = Positions \cup {n} /\ n \in Nat /\ log'[n] = e
        /\ \A m \in Positions : m \in Nat /\ m < n
    BY <1>2, <2>1, Grown DEF Positions
  <2>3. i \in Positions /\ Acquires(i, t) /\ log'[i] = log[i] /\ log[i] \in Event
    BY <1>2, <2>2, PastStands, Grown
  <2>4. CASE j \in Positions
    <3>1. Acquires(j, t) /\ log'[j] = log[j]
      BY <1>2, <2>4, PastStands, Grown
    <3>2. /\ log[i].token < log[j].token
          /\ \E k \in i + 1 .. j - 1 : Over(i, k, t)
      BY <1>2, <2>3, <2>4, <3>1 DEF UnexpiredClaimNotReassigned, Over
    <3>3. \A k \in i + 1 .. j - 1 : k \in Positions
      BY <2>3, <2>4, Grown, <1>2 DEF Positions
    <3> QED BY <1>2, <2>3, <3>1, <3>2, <3>3, OverStands
  <2>5. CASE j = n
    <3>1. Taken(e, t)
      BY <1>2, <2>1, <2>5, NewEvent
    <3>2. e.token > ledger.claims[t].gen /\ t \notin Active(ledger)
      BY <3>1 DEF Taken, AcquireRules
    <3>3. /\ log[i].token =< ledger.claims[t].gen
          /\ Backed(i, t) \/ \E k \in i + 1 .. Len(log) : Over(i, k, t)
      BY <1>2, <2>3 DEF ClaimHistory
    <3>4. log[i].token \in Nat /\ e.token \in Nat /\ ledger.claims[t].gen \in Nat
      BY <1>2, <2>3, <3>1, EventFields, ClaimFields DEF Acquires, Taken, TypeOK
    <3>5. log'[i].token < log'[j].token
      BY <2>2, <2>3, <2>5, <3>2, <3>3, <3>4
    <3>6. PICK k \in i + 1 .. Len(log) : Over(i, k, t)
      BY <3>2, <3>3 DEF Backed
    <3>7. k \in Positions /\ k \in i + 1 .. j - 1
      BY <1>2, <2>1, <2>3, <2>5, Grown DEF Positions
    <3> QED BY <1>2, <2>3, <3>5, <3>6, <3>7, OverStands
  <2> QED BY <1>2, <2>2, <2>4, <2>5
<1>3. ASSUME TypeOK, ClaimHistory, UnexpiredClaimNotReassigned, [Next]_vars
      PROVE  UnexpiredClaimNotReassigned'
  <2>1. CASE \E e \in Event : Write(e)
    BY <1>2, <1>3, <2>1 DEF UnexpiredClaimNotReassigned, Over
  <2>2. CASE UNCHANGED <<ledger, log>>
    BY <1>3, <2>2 DEF UnexpiredClaimNotReassigned, Acquires, Ends, Positions
  <2> QED BY <1>3, <2>1, <2>2, StepCases
<1> QED BY <1>1, <1>3, TypeCorrect, ClaimsAlwaysExplained, PTL DEF Spec

-----------------------------------------------------------------------------
(* Results.                                                                *)

LEMMA HeldStands ==
    ASSUME TypeOK, NEW e \in Event, Write(e), NEW t \in Task,
           NEW i \in Positions, NEW j \in 1 .. i - 1, HeldSince(j, i, t)
    PROVE  HeldSince(j, i, t)'
<1>1. j \in Positions /\ \A k \in j + 1 .. i : k \in Positions
  BY Grown DEF Positions
<1> QED BY <1>1, PastStands DEF HeldSince

\* The new event, if it records a result, is backed by the claim that the
\* history shows as the current one.
LEMMA ResultHeld ==
    ASSUME TypeOK, ClaimHistory, NEW e \in Event, Write(e), NEW t \in Task,
           NEW n, n = Len(log) + 1,
           e.type = "task_transition", e.task = t,
           e.target \in {"reviewing", "done"}
    PROVE  \E j \in 1 .. n - 1 : /\ HeldSince(j, n, t)'
                                 /\ log'[j].actor = e.actor
                                 /\ log'[j].token = e.token
                                 /\ e.at < log'[j].lease
<1>1. Moved(e, t)
  BY TaskCases DEF Spared, Taken, Shut, Rebased, ClosedAs
<1>2. /\ t \in Active(ledger)
      /\ e.actor = ledger.claims[t].owner
      /\ e.token = ledger.claims[t].gen
      /\ e.at < ledger.claims[t].lease
  BY <1>1, ResultIsFenced
<1>3. PICK j \in Positions : Backed(j, t)
  BY <1>2 DEF ClaimHistory
<1>4. ~ Ends(n, t)' /\ ~ Acquires(n, t)'
  BY <1>1, NewEvent DEF Moved, Taken, Shut, Rebased, ClosedAs
<1>5. HeldSince(j, n, t)'
  BY <1>3, <1>4, HeldOn DEF Backed
<1>6. log'[j] = log[j] /\ j \in 1 .. n - 1
  BY Grown DEF Positions
<1> QED BY <1>2, <1>3, <1>5, <1>6 DEF Backed

\* Every result in a history of any length was delivered by the owner of the
\* claim that the history itself shows as current at that point, with its
\* token and dated inside its lease.
THEOREM ResultsAlwaysFenced == Spec => []ResultsCarryLiveFence
<1>1. Init => ResultsCarryLiveFence
  BY DEF Init, ResultsCarryLiveFence, Positions
<1>2. ASSUME TypeOK, ClaimHistory, ResultsCarryLiveFence,
             NEW e \in Event, Write(e), NEW i \in Positions', NEW t, t = log'[i].task,
             log'[i].type = "task_transition", log'[i].target \in {"reviewing", "done"}
      PROVE  \E j \in 1 .. i - 1 : /\ HeldSince(j, i, t)'
                                   /\ log'[j].actor = log'[i].actor
                                   /\ log'[j].token = log'[i].token
                                   /\ log'[i].at < log'[j].lease
  <2>1. PICK n : n = Len(log) + 1
    OBVIOUS
  <2>2. Positions' = Positions \cup {n} /\ log'[n] = e
    BY <1>2, <2>1, Grown
  <2>3. CASE i = n
    <3>1. t \in Task
      BY <1>2, <2>2, <2>3, EventFields
    <3> QED BY <1>2, <2>1, <2>2, <2>3, <3>1, ResultHeld
  <2>4. CASE i \in Positions
    <3>1. log'[i] = log[i] /\ log[i] \in Event
      BY <1>2, <2>4, Grown
    <3>2. t \in Task
      BY <1>2, <3>1, EventFields
    <3>3. PICK j \in 1 .. i - 1 :
             /\ HeldSince(j, i, t)
             /\ log[j].actor = log[i].actor
             /\ log[j].token = log[i].token
             /\ log[i].at < log[j].lease
      BY <1>2, <2>4, <3>1 DEF ResultsCarryLiveFence
    <3>4. log'[j] = log[j]
      BY <1>2, <2>4, Grown DEF Positions
    <3> QED BY <1>2, <2>4, <3>1, <3>2, <3>3, <3>4, HeldStands
  <2> QED BY <1>2, <2>2, <2>3, <2>4
<1>3. ASSUME TypeOK, ClaimHistory, ResultsCarryLiveFence, [Next]_vars
      PROVE  ResultsCarryLiveFence'
  <2>1. CASE \E e \in Event : Write(e)
    BY <1>2, <1>3, <2>1 DEF ResultsCarryLiveFence, HeldSince, Acquires, Ends
  <2>2. CASE UNCHANGED <<ledger, log>>
    BY SMTT(40), <1>3, <2>2
    DEF ResultsCarryLiveFence, HeldSince, Acquires, Ends, Positions
  <2> QED BY <1>3, <2>1, <2>2, StepCases
<1> QED BY <1>1, <1>3, TypeCorrect, ClaimsAlwaysExplained, PTL DEF Spec

-----------------------------------------------------------------------------
(* Gates.                                                                  *)

\* What one write does to one gate.
LEMMA GateCases ==
    ASSUME TypeOK, NEW e \in Event, Write(e), NEW g \in Gate
    PROVE  \/ /\ e.type = "gate_updated" /\ e.gate = g
              /\ GateRules(ledger, e)
              /\ ledger'.gates[g] = e.to
           \/ /\ e.type = "gate_updated" => e.gate # g
              /\ ledger'.gates[g] = ledger.gates[g]
<1>0. ledger \in LedgerState /\ ledger.gates \in [Gate -> GateStatus]
  BY DEF TypeOK, LedgerState
<1>1. PICK r \in LedgerState : WrittenAs(e, r)
  BY WriteCases
<1>2. ledger'.gates = r.gates
  BY <1>1 DEF WrittenAs, LedgerState
<1>3. CASE e \in GateEvent /\ r = [ledger EXCEPT !.gates[e.gate] = e.to]
  <2>1. e.type = "gate_updated" /\ e.gate \in Gate
    BY <1>3 DEF GateEvent
  <2>2. GateRules(ledger, e)
    BY <2>1 DEF Write, Commits, Accepts, ClosedAs
  <2>3. r.gates = [ledger.gates EXCEPT ![e.gate] = e.to]
    BY <1>0, <1>3 DEF LedgerState
  <2> QED BY <1>0, <1>2, <2>1, <2>2, <2>3
<1>4. CASE ~ (e \in GateEvent /\ r = [ledger EXCEPT !.gates[e.gate] = e.to])
  <2>1. /\ \/ e \in TransitionEvent /\ r = Transitioned(ledger, e)
           \/ e \in AcquireEvent /\ r = Acquired(ledger, e)
           \/ e \in CloseEvent /\ r = Closed(ledger, e)
           \/ e \in ReboundEvent /\ r = Rebound(ledger, e)
           \/ e \in CompleteEvent /\ r = [ledger EXCEPT !.objective = "complete"]
    BY <1>1, <1>4 DEF WrittenAs
  <2>2. r.gates = ledger.gates
    BY <1>0, <2>1 DEF LedgerState, Transitioned, Acquired, Closed, Rebound
  <2>3. e.type # "gate_updated"
    BY <2>1 DEF TransitionEvent, AcquireEvent, CloseEvent, ReboundEvent, CompleteEvent
  <2> QED BY <1>2, <2>2, <2>3
<1> QED BY <1>3, <1>4

LEMMA GateHistoryStep ==
    ASSUME TypeOK, GateHistory, NEW e \in Event, Write(e), NEW g \in Gate,
           ledger'.gates[g] = "satisfied"
    PROVE  \E j \in Positions' :
              /\ Approved(j, g)'
              /\ \A k \in j + 1 .. Len(log') :
                    log'[k].type = "gate_updated" => log'[k].gate # g
<1>0. PICK n : n = Len(log) + 1
  OBVIOUS
<1>1. /\ Positions' = Positions \cup {n} /\ n \in Nat /\ Len(log') = n
      /\ log'[n] = e /\ \A i \in Positions : log'[i] = log[i]
  BY <1>0, Grown
<1>2. CASE /\ e.type = "gate_updated" /\ e.gate = g
           /\ GateRules(ledger, e) /\ e.to = "satisfied"
  <2>1. Authorised(e, {"user", "platform"}, TRUE)
    BY <1>2 DEF GateRules, Protected
  <2>2. Approved(n, g)'
    BY <1>1, <1>2, <2>1 DEF Approved, Authorised
  <2>3. n + 1 .. n = {}
    BY <1>1
  <2> QED BY <1>1, <2>2, <2>3
<1>3. CASE (e.type = "gate_updated" => e.gate # g) /\ ledger.gates[g] = "satisfied"
  <2>1. PICK j \in Positions :
           /\ Approved(j, g)
           /\ \A k \in j + 1 .. Len(log) :
                 log[k].type = "gate_updated" => log[k].gate # g
    BY <1>3 DEF GateHistory
  <2>2. Approved(j, g)'
    BY <1>1, <2>1 DEF Approved
  <2>3. ASSUME NEW k \in j + 1 .. n, log'[k].type = "gate_updated"
        PROVE  log'[k].gate # g
    <3>1. CASE k = n
      BY <1>1, <1>3, <2>3, <3>1
    <3>2. CASE k # n
      <4>1. k \in j + 1 .. Len(log) /\ k \in Positions
        BY <1>0, <3>2, Grown DEF Positions
      <4> QED BY <1>1, <2>1, <2>3, <4>1
    <3> QED BY <3>1, <3>2
  <2> QED BY <1>1, <2>2, <2>3
<1> QED BY <1>2, <1>3, GateCases

LEMMA GateHistoryAlways == Spec => []GateHistory
<1>1. Init => GateHistory
  BY DEF Init, ManifestState, GateHistory
<1>2. ASSUME TypeOK, GateHistory, [Next]_vars PROVE GateHistory'
  <2>1. CASE \E e \in Event : Write(e)
    BY <1>2, <2>1, GateHistoryStep DEF GateHistory
  <2>2. CASE UNCHANGED <<ledger, log>>
    BY <1>2, <2>2 DEF GateHistory, Approved, Positions
  <2> QED BY <1>2, <2>1, <2>2, StepCases
<1> QED BY <1>1, <1>2, TypeCorrect, PTL DEF Spec

\* A task with a required gate never became done on anything but the last
\* word on that gate, an authorised approval that no later update took back.
THEOREM DoneAlwaysBehindGate == Spec => []DoneBehindGate
<1> DEFINE Behind(i) ==
       \E j \in 1 .. i - 1 :
          /\ log[j].type = "gate_updated"
          /\ log[j].gate = GateOf[log[i].task]
          /\ log[j].to = "satisfied"
          /\ log[j].by = log[j].actor
          /\ Role[log[j].by] \in {"user", "platform"}
          /\ \A k \in j + 1 .. i - 1 :
                log[k].type = "gate_updated" => log[k].gate # log[j].gate
<1>1. Init => DoneBehindGate
  BY DEF Init, DoneBehindGate, Positions
<1>2. ASSUME TypeOK, GateHistory, DoneBehindGate, NEW e \in Event, Write(e),
             NEW i \in Positions',
             log'[i].type = "task_transition", log'[i].target = "done",
             GateOf[log'[i].task] # NoGate
      PROVE  Behind(i)'
  <2>0. PICK n : n = Len(log) + 1
    OBVIOUS
  <2>1. /\ Positions' = Positions \cup {n} /\ n \in Nat
        /\ log'[n] = e /\ \A m \in Positions : log'[m] = log[m]
        /\ Positions = 1 .. n - 1 /\ Len(log) = n - 1
    BY <1>2, <2>0, Grown DEF Positions
  <2>2. CASE i = n
    <3>1. PICK t \in Task : t = e.task
      BY <1>2, <2>1, <2>2, EventFields
    <3>2. Moved(e, t)
      BY <1>2, <2>1, <2>2, <3>1, TaskCases DEF Spared, Taken, Shut, Rebased, ClosedAs
    <3>3. PICK g \in Gate : g = GateOf[t]
      BY <1>2, <2>1, <2>2, <3>1, ManifestAssumption DEF ManifestAssumption
    <3>4. ledger.gates[g] = "satisfied"
      <4>1. Evidenced(ledger, t, "done", e.facts)
        BY <1>2, <2>1, <2>2, <3>1, <3>2 DEF Moved, TransitionRules
      <4>2. GateCleared(ledger, t, e.facts)
        BY <4>1 DEF Evidenced
      <4> QED BY <1>2, <2>1, <2>2, <3>1, <3>3, <4>2 DEF GateCleared
    <3>5. PICK j \in Positions :
             /\ Approved(j, g)
             /\ \A k \in j + 1 .. Len(log) :
                   log[k].type = "gate_updated" => log[k].gate # g
      BY <1>2, <3>4 DEF GateHistory
    <3>6. \A k \in j + 1 .. n - 1 : k \in Positions /\ k \in j + 1 .. Len(log)
      BY <2>1
    <3> QED BY SMTT(40), <2>1, <2>2, <3>1, <3>3, <3>5, <3>6 DEF Approved
  <2>3. CASE i \in Positions
    <3>1. log'[i] = log[i]
      BY <2>1, <2>3
    <3>2. PICK j \in 1 .. i - 1 :
            /\ log[j].type = "gate_updated"
            /\ log[j].gate = GateOf[log[i].task]
            /\ log[j].to = "satisfied"
            /\ log[j].by = log[j].actor
            /\ Role[log[j].by] \in {"user", "platform"}
            /\ \A k \in j + 1 .. i - 1 :
                  log[k].type = "gate_updated" => log[k].gate # log[j].gate
      BY <1>2, <2>3, <3>1 DEF DoneBehindGate
    <3>3. j \in Positions /\ \A k \in j + 1 .. i - 1 : k \in Positions
      BY <2>1, <2>3
    <3> QED BY SMTT(40), <2>1, <3>1, <3>2, <3>3
  <2> QED BY <2>1, <2>2, <2>3
<1>3. ASSUME TypeOK, GateHistory, DoneBehindGate, [Next]_vars
      PROVE  DoneBehindGate'
  <2>1. CASE \E e \in Event : Write(e)
    BY <1>2, <1>3, <2>1 DEF DoneBehindGate
  <2>2. CASE UNCHANGED <<ledger, log>>
    BY SMTT(40), <1>3, <2>2 DEF DoneBehindGate, Positions
  <2> QED BY <1>3, <2>1, <2>2, StepCases
<1> QED BY <1>1, <1>3, TypeCorrect, GateHistoryAlways, PTL DEF Spec

-----------------------------------------------------------------------------
(* Replay.                                                                 *)

\* The head of the ledger moves with rebounds only, and each rebound names
\* the head it moves away from.
LEMMA HeadCases ==
    ASSUME TypeOK, NEW e \in Event, Write(e)
    PROVE  IF e.type = "source_rebound" THEN e.from = ledger.head
                                        ELSE ledger'.head = ledger.head
<1>0. ledger \in LedgerState
  BY DEF TypeOK
<1>1. PICK r \in LedgerState : WrittenAs(e, r)
  BY WriteCases
<1>2. ledger'.head = r.head
  BY <1>1 DEF WrittenAs, LedgerState
<1>3. CASE e \in ReboundEvent /\ r = Rebound(ledger, e)
  <2>1. e.type = "source_rebound"
    BY <1>3 DEF ReboundEvent
  <2>2. ReboundRules(ledger, e)
    BY <2>1 DEF Write, Commits, Accepts, ClosedAs
  <2> QED BY <2>1, <2>2 DEF ReboundRules
<1>4. CASE ~ (e \in ReboundEvent /\ r = Rebound(ledger, e))
  <2>1. /\ \/ e \in TransitionEvent /\ r = Transitioned(ledger, e)
           \/ e \in AcquireEvent /\ r = Acquired(ledger, e)
           \/ e \in CloseEvent /\ r = Closed(ledger, e)
           \/ e \in GateEvent /\ r = [ledger EXCEPT !.gates[e.gate] = e.to]
           \/ e \in CompleteEvent /\ r = [ledger EXCEPT !.objective = "complete"]
    BY <1>1, <1>4 DEF WrittenAs
  <2>2. r.head = ledger.head
    BY <1>0, <2>1 DEF LedgerState, Transitioned, Acquired, Closed
  <2>3. e.type # "source_rebound"
    BY <2>1 DEF TransitionEvent, AcquireEvent, CloseEvent, GateEvent, CompleteEvent
  <2> QED BY <1>2, <2>2, <2>3
<1> QED BY <1>3, <1>4

LEMMA HeadHistoryStep ==
    ASSUME TypeOK, HeadHistory, NEW e \in Event, Write(e)
    PROVE  HeadHistory'
<1>0. PICK n : n = Len(log) + 1
  OBVIOUS
<1>1. /\ Positions' = Positions \cup {n} /\ n \in Positions'
      /\ log'[n] = e /\ n =< n
      /\ \A i \in Positions : log'[i] = log[i] /\ i =< n
  BY <1>0, Grown DEF Positions
<1>2. CASE /\ \A i \in Positions : log[i].type # "source_rebound"
           /\ ledger.head = 0
  <2>1. CASE e.type = "source_rebound"
    <3>1. e.from = 0
      BY <1>2, <2>1, HeadCases
    <3> QED BY <1>1, <1>2, <2>1, <3>1 DEF HeadHistory
  <2>2. CASE e.type # "source_rebound"
    <3>1. ledger'.head = 0
      BY <1>2, <2>2, HeadCases
    <3> QED BY <1>1, <1>2, <2>2, <3>1 DEF HeadHistory
  <2> QED BY <2>1, <2>2
<1>3. CASE \E i \in Positions :
             /\ log[i].type = "source_rebound" /\ log[i].from = 0
             /\ \A j \in Positions : log[j].type = "source_rebound" => i =< j
  BY <1>1, <1>3 DEF HeadHistory
<1> QED BY <1>2, <1>3 DEF HeadHistory

LEMMA HeadHistoryAlways == Spec => []HeadHistory
<1>1. Init => HeadHistory
  BY DEF Init, ManifestState, HeadHistory, Positions
<1>2. ASSUME TypeOK, HeadHistory, [Next]_vars PROVE HeadHistory'
  <2>1. CASE \E e \in Event : Write(e)
    BY <1>2, <2>1, HeadHistoryStep
  <2>2. CASE UNCHANGED <<ledger, log>>
    BY <1>2, <2>2 DEF HeadHistory, Positions
  <2> QED BY <1>2, <2>1, <2>2, StepCases
<1> QED BY <1>1, <1>2, TypeCorrect, PTL DEF Spec

\* Wherever the ledger was bound since, a replay starts from head 0, the one
\* the ledger was created at.
LEMMA ReplayFromStart ==
    ASSUME TypeOK, HeadHistory
    PROVE  ReplayHead = 0
<1> DEFINE rebounds == {i \in Positions : log[i].type = "source_rebound"}
<1>1. CASE /\ \A i \in Positions : log[i].type # "source_rebound"
           /\ ledger.head = 0
  BY <1>1 DEF ReplayHead
<1>2. CASE \E i \in Positions :
             /\ log[i].type = "source_rebound" /\ log[i].from = 0
             /\ \A j \in Positions : log[j].type = "source_rebound" => i =< j
  <2>1. PICK i \in rebounds : log[i].from = 0 /\ \A j \in rebounds : i =< j
    BY <1>2
  <2> DEFINE first == CHOOSE m \in rebounds : \A j \in rebounds : m =< j
  <2>2. first \in rebounds /\ \A j \in rebounds : first =< j
    BY <2>1
  <2>3. first = i
    <3>1. \A m \in rebounds : m \in Int
      BY DEF Positions
    <3> HIDE DEF rebounds, first
    <3> QED BY <2>1, <2>2, <3>1
  <2>4. ReplayHead = log[first].from
    BY <2>1 DEF ReplayHead
  <2> QED BY <2>1, <2>3, <2>4
<1> QED BY <1>1, <1>2 DEF HeadHistory

\* f is the sequence of states that a replay from head h goes through.
IsReplay(f, h) ==
    f = [n \in 0 .. Len(log) |->
           IF n = 0 THEN ManifestState(h) ELSE Effect(f[n - 1], log[n])]

\* There is one, and every one of them is accepted and ends in the view.
ReplayHistory ==
    /\ \E f : IsReplay(f, 0)
    /\ \A f : IsReplay(f, 0) =>
          /\ \A i \in Positions : Accepts(f[i - 1], log[i])
          /\ f[Len(log)] = ledger

LEMMA ReplayHistoryStep ==
    ASSUME TypeOK, ReplayHistory, NEW e \in Event, Write(e)
    PROVE  ReplayHistory'
<1>0. PICK n : n = Len(log) + 1
  OBVIOUS
<1>1. /\ Positions' = Positions \cup {n} /\ Positions = 1 .. n - 1
      /\ n \in Nat /\ n - 1 \in Nat /\ Len(log) = n - 1 /\ Len(log') = n
      /\ log'[n] = e /\ \A i \in Positions : log'[i] = log[i]
      /\ ledger' = Effect(ledger, e)
  BY <1>0, Grown DEF Positions
<1>2. Accepts(ledger, e)
  BY DEF Write, Commits
<1>3. \E f : IsReplay(f, 0)'
  <2>1. PICK f : IsReplay(f, 0)
    BY DEF ReplayHistory
  <2> DEFINE g == [m \in 0 .. n |-> IF m = n THEN ledger' ELSE f[m]]
  <2>2. f[n - 1] = ledger
    BY <1>1, <2>1 DEF ReplayHistory
  <2>3. ASSUME NEW m \in 0 .. n
        PROVE  g[m] = IF m = 0 THEN ManifestState(0) ELSE Effect(g[m - 1], log'[m])
    <3>1. CASE m = 0
      BY <1>1, <2>1, <3>1 DEF IsReplay
    <3>2. CASE m = n /\ m # 0
      <4>1. n - 1 \in 0 .. n /\ n - 1 # n
        BY <1>1, <3>2
      <4>2. g[n - 1] = ledger /\ g[n] = ledger'
        BY <1>1, <2>2, <4>1
      <4> HIDE DEF g
      <4> QED BY <1>1, <3>2, <4>2
    <3>3. CASE m # n /\ m # 0
      <4>1. m \in 0 .. n - 1 /\ m - 1 \in 0 .. n /\ m - 1 # n /\ m \in Positions
        BY <1>1, <3>3
      <4>2. g[m] = f[m] /\ g[m - 1] = f[m - 1]
        BY <3>3, <4>1
      <4>3. f[m] = Effect(f[m - 1], log[m])
        BY <1>1, <2>1, <3>3, <4>1 DEF IsReplay
      <4> HIDE DEF g
      <4> QED BY <1>1, <3>3, <4>1, <4>2, <4>3
    <3> QED BY <3>1, <3>2, <3>3
  <2>4. g = [m \in 0 .. n |-> IF m = 0 THEN ManifestState(0)
                                        ELSE Effect(g[m - 1], log'[m])]
    BY <2>3
  <2> HIDE DEF g
  <2> QED BY <1>1, <2>4 DEF IsReplay
<1>4. ASSUME NEW g, IsReplay(g, 0)'
      PROVE  /\ \A i \in Positions' : Accepts(g[i - 1], log'[i])
             /\ g[Len(log')] = ledger'
  <2>1. g = [m \in 0 .. n |-> IF m = 0 THEN ManifestState(0)
                                        ELSE Effect(g[m - 1], log'[m])]
    BY <1>1, <1>4 DEF IsReplay
  <2> DEFINE f == [m \in 0 .. n - 1 |-> g[m]]
  <2>2. ASSUME NEW m \in 0 .. n - 1
        PROVE  f[m] = IF m = 0 THEN ManifestState(0) ELSE Effect(f[m - 1], log[m])
    <3>1. m \in 0 .. n
      BY <1>1
    <3>2. g[m] = IF m = 0 THEN ManifestState(0) ELSE Effect(g[m - 1], log'[m])
      BY <2>1, <3>1
    <3>3. m # 0 => m \in Positions /\ m - 1 \in 0 .. n - 1
      BY <1>1
    <3>4. f[m] = g[m] /\ (m # 0 => f[m - 1] = g[m - 1] /\ log'[m] = log[m])
      BY <1>1, <3>3
    <3> HIDE DEF f
    <3> QED BY <3>2, <3>4
  <2>3. IsReplay(f, 0)
    <3>1. f = [m \in 0 .. n - 1 |-> IF m = 0 THEN ManifestState(0)
                                             ELSE Effect(f[m - 1], log[m])]
      BY <2>2
    <3> HIDE DEF f
    <3> QED BY <1>1, <3>1 DEF IsReplay
  <2>4. /\ \A i \in Positions : Accepts(f[i - 1], log[i])
        /\ f[n - 1] = ledger
    BY <1>1, <2>3 DEF ReplayHistory
  <2>5. g[n - 1] = ledger
    BY <1>1, <2>4
  <2>6. g[n] = Effect(g[n - 1], log'[n])
    <3>1. n \in 0 .. n /\ n # 0
      BY <1>1
    <3> QED BY <2>1, <3>1
  <2>7. ASSUME NEW i \in Positions' PROVE Accepts(g[i - 1], log'[i])
    <3>1. CASE i = n
      BY <1>1, <1>2, <2>5, <3>1
    <3>2. CASE i \in Positions
      <4>1. i - 1 \in 0 .. n - 1 /\ log'[i] = log[i]
        BY <1>1, <3>2
      <4>2. f[i - 1] = g[i - 1]
        BY <4>1
      <4> HIDE DEF f
      <4> QED BY <2>4, <3>2, <4>1, <4>2
    <3> QED BY <1>1, <3>1, <3>2
  <2> QED BY <1>1, <2>5, <2>6, <2>7
<1> QED BY <1>3, <1>4 DEF ReplayHistory

\* A ledger of any age replays: its history is accepted event by event from
\* the manifest state and the first head, without clock or control plane, and
\* ends in exactly the view that the live path kept.
THEOREM HistoryAlwaysReplays == Spec => []HistoryReplays
<1>1. Init => ReplayHistory
  <2> SUFFICES ASSUME Init PROVE ReplayHistory
    OBVIOUS
  <2>1. Len(log) = 0 /\ Positions = {} /\ ledger = ManifestState(0)
    BY DEF Init, Positions
  <2> DEFINE g == [n \in {0} |-> ManifestState(0)]
  <2>2. 0 .. 0 = {0}
    OBVIOUS
  <2>3. \A f : IsReplay(f, 0) <=> f = [n \in {0} |-> IF n = 0 THEN ManifestState(0)
                                            ELSE Effect(f[n - 1], log[n])]
    BY <2>1, <2>2 DEF IsReplay
  <2>4. IsReplay(g, 0)
    BY <2>3
  <2>5. \A f : IsReplay(f, 0) => f[0] = ManifestState(0)
    BY <2>3
  <2> QED BY <2>1, <2>4, <2>5 DEF ReplayHistory
<1>2. ASSUME TypeOK, ReplayHistory, [Next]_vars PROVE ReplayHistory'
  <2>1. CASE \E e \in Event : Write(e)
    BY <1>2, <2>1, ReplayHistoryStep
  <2>2. CASE UNCHANGED <<ledger, log>>
    BY <1>2, <2>2 DEF ReplayHistory, IsReplay, Positions
  <2> QED BY <1>2, <2>1, <2>2, StepCases
<1>3. ASSUME TypeOK, HeadHistory, ReplayHistory PROVE HistoryReplays
  <2>1. ReplayHead = 0
    BY <1>3, ReplayFromStart
  <2>2. Replayed = CHOOSE f : IsReplay(f, ReplayHead)
    BY DEF Replayed, IsReplay
  <2>3. IsReplay(Replayed, 0)
    BY <1>3, <2>1, <2>2 DEF ReplayHistory
  <2> QED BY <1>3, <2>3 DEF ReplayHistory, HistoryReplays
<1> QED BY <1>1, <1>2, <1>3, TypeCorrect, HeadHistoryAlways, PTL DEF Spec

=============================================================================
