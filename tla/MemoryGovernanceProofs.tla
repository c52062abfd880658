----------------------- MODULE MemoryGovernanceProofs ------------------------
(***************************************************************************)
(* Theorems about MemoryGovernance, for any number of cores, items,        *)
(* operations and faults, and all limits.                                  *)
(*                                                                         *)
(* The invariant is GovernanceInv.  LockedApart: who writes is alone with  *)
(* the root.  Once, NotYet, Settled: an operation is in one hand of one    *)
(* core, is not in the root while it is in hand, and is in no hand when    *)
(* its answer is final.  Timely: what is written is dated inside its       *)
(* confirmation.  RootFresh, ReadyToWrite, Backed, Bounded: what was       *)
(* checked before a write holds until the commit, and the versions that    *)
(* proofs refer to stay.                                                   *)
(***************************************************************************)
EXTENDS MemoryGovernance, FiniteSetTheorems, SequenceTheorems, TLAPS

\* The cases of a step, for proofs by cases.
LEMMA GovernanceSteps ==
    ASSUME [Next]_vars
    PROVE  \/ \E c \in Core : Initialize(c)
           \/ \E c \in Core, op \in Operation : ProposeChange(c, op)
           \/ \E c \in Core : Authorize(c)
           \/ \E c \in Core : Cancel(c)
           \/ \E c \in Core : Verify(c)
           \/ \E c \in Core : Refuse(c)
           \/ \E c \in Core : WriteItem(c)
           \/ \E c \in Core : Commit(c)
           \/ \E c \in Core : GiveUp(c)
           \/ \E c \in Core : ReadBackOwn(c)
           \/ \E c \in Core, op \in Operation, shown \in BOOLEAN :
                ReadBack(c, op, shown)
           \/ \E c \in Core : OpenAudit(c)
           \/ \E c \in Core : Page(c)
           \/ \E c \in Core : CloseAudit(c)
           \/ \E c \in Core : Crash(c)
           \/ RollBack \/ Tick \/ SetClockBack \/ CopiesDrift
           \/ UNCHANGED vars
BY DEF Next, Executing

-----------------------------------------------------------------------------
(* Changes of items.                                                       *)

\* What a request that fits an item makes of it.
LEMMA ChangedFacts ==
    ASSUME NEW item \in ItemState, NEW r \in Request, Changed(item, r) # Nothing
    PROVE  /\ r.kind = "add" =>
                item = Nothing /\ Changed(item, r) =
                   [status |-> "active", versions |-> <<r.content>>]
           /\ r.kind \in {"update", "restore"} =>
                item # Nothing /\ Changed(item, r) =
                   [item EXCEPT !.versions = Append(@, r.content)]
           /\ r.kind = "stop" =>
                item # Nothing /\ Changed(item, r) = [item EXCEPT !.status = "stopped"]
           /\ r.kind = "resume" =>
                item # Nothing /\ Changed(item, r) = [item EXCEPT !.status = "active"]
BY DEF Changed

\* A request as callers make them.
Formed(r) == r \in Request /\ (r.kind \in Storing => r.content \in Content)

LEMMA RequestsFormed ==
    ASSUME NEW s \in State, NEW r \in Requests(s)
    PROVE  Formed(r)
BY DEF Requests, Formed, Request, Kind, Storing, Present

LEMMA ChangedType ==
    ASSUME NEW item \in ItemState, NEW r, Formed(r)
    PROVE  Changed(item, r) \in ItemState
<1>1. CASE Changed(item, r) = Nothing
  BY <1>1 DEF ItemState
<1>2. CASE Changed(item, r) # Nothing
  <2>1. r \in Request
    BY DEF Formed
  <2>2. CASE r.kind = "add"
    <3>1. r.content \in Content
      BY <2>2 DEF Formed, Storing
    <3>2. <<r.content>> \in Seq(Content)
      BY <3>1
    <3>3. Changed(item, r) = [status |-> "active", versions |-> <<r.content>>]
      BY <1>2, <2>1, <2>2, ChangedFacts
    <3> QED BY <3>2, <3>3 DEF ItemState
  <2>3. CASE r.kind \in {"update", "restore"}
    <3>1. r.content \in Content
      BY <2>3 DEF Formed, Storing
    <3>2. item # Nothing /\ Changed(item, r) =
             [item EXCEPT !.versions = Append(@, r.content)]
      BY <1>2, <2>1, <2>3, ChangedFacts
    <3>3. Append(item.versions, r.content) \in Seq(Content)
      BY <3>1, <3>2, AppendProperties DEF ItemState
    <3> QED BY <3>2, <3>3 DEF ItemState
  <2>4. CASE r.kind \in {"stop", "resume"}
    BY <1>2, <2>1, <2>4, ChangedFacts DEF ItemState
  <2> QED BY <2>1, <2>2, <2>3, <2>4 DEF Request, Kind
<1> QED BY <1>1, <1>2

LEMMA TransitionType ==
    ASSUME NEW s \in State, NEW r, Formed(r)
    PROVE  Transition(s, r) \in State
<1>1. s[r.item] \in ItemState
  BY DEF State, Formed, Request
<1>2. Changed(s[r.item], r) \in ItemState
  BY <1>1, ChangedType
<1> QED BY <1>2 DEF Transition, State

-----------------------------------------------------------------------------
(* Types.                                                                  *)

\* What TypeOK says, group by group.
HostType == now \in Nat /\ copies \in Copies /\ faults \in Nat

RootType ==
    /\ root \in {"empty", "partial", "ready"} /\ born \in Nat
    /\ items \in State /\ proofs \in Seq(Proof) /\ hot \in BOOLEAN

CoreType ==
    /\ pending \in [Core -> Operation \cup {Nothing}]
    /\ handle \in [Core -> Operation \cup {Nothing}]
    /\ running \in [Core -> Operation \cup {Nothing}]
    /\ phase \in [Core -> {"idle", "verified", "written", "closed"}]

ClockType == recorded \in [Core -> Nat] /\ sample \in [Core -> Nat]

AuditType == audit \in [Core -> Snapshot \cup {Nothing}]

CallerType ==
    /\ preview \in [Operation -> Preview \cup {Nothing}]
    /\ outcome \in [Operation -> Outcome]

Busy == \A c \in Core : phase[c] # "idle" => running[c] \in Operation

Shown ==
    \A c \in Core :
       /\ pending[c] \in Operation => preview[pending[c]] # Nothing
       /\ handle[c] \in Operation => preview[handle[c]] # Nothing
       /\ running[c] \in Operation => preview[running[c]] # Nothing

LEMMA TypeParts ==
    TypeOK <=> /\ HostType /\ RootType /\ CoreType /\ ClockType /\ AuditType
               /\ CallerType /\ Busy /\ Shown
BY DEF TypeOK, HostType, RootType, CoreType, ClockType, AuditType, CallerType,
       Busy, Shown

\* A preview shows the items as they are and as they would be.
LEMMA ProposedPreview ==
    ASSUME HostType, RootType, NEW c \in Core, NEW op \in Operation,
           ProposeChange(c, op)
    PROVE  \E q \in Preview : /\ preview' = [preview EXCEPT ![op] = q]
                              /\ q.issued = now /\ q # Nothing
<1>1. PICK r \in Requests(items) :
         preview' = [preview EXCEPT ![op] =
            [request |-> r, before |-> items, after |-> Transition(items, r),
             issued |-> now, expires |-> now + Confirm, copies |-> copies]]
  BY DEF ProposeChange
<1>2. Formed(r) /\ Transition(items, r) \in State
  BY RequestsFormed, TransitionType DEF RootType
<1>3. now \in Nat /\ now + Confirm \in Nat
  BY GovernanceAssumption DEF HostType
<1>4. [request |-> r, before |-> items, after |-> Transition(items, r),
       issued |-> now, expires |-> now + Confirm, copies |-> copies] \in Preview
  BY <1>2, <1>3 DEF Preview, Formed, RootType, HostType
<1> QED BY <1>1, <1>4, NothingAssumption

\* The host.
LEMMA HostStep ==
    ASSUME HostType, [Next]_vars
    PROVE  HostType'
<1> USE DEF HostType, durable, host, memory
<1>1. CASE \E c \in Core : Crash(c)
  BY <1>1 DEF Crash, Fault
<1>2. CASE Tick
  BY <1>2 DEF Tick
<1>3. CASE SetClockBack
  BY <1>3 DEF SetClockBack, Fault
<1>4. CASE CopiesDrift
  BY <1>4 DEF CopiesDrift, Fault
<1>5. CASE UNCHANGED <<now, copies, faults>>
  BY <1>5
<1> QED BY GovernanceSteps, <1>1, <1>2, <1>3, <1>4, <1>5
        DEF vars, Initialize, PerhapsSampled, Sampled, ProposeChange,
            Authorize, Cancel, Verify, Refuse, WriteItem, Commit, GiveUp,
            ReadBackOwn, ReadBack, OpenAudit, Page, CloseAudit, RollBack

\* The root: a commit writes what the preview shows.
LEMMA RootStep ==
    ASSUME HostType, RootType, ClockType, CallerType, Busy, Shown, [Next]_vars
    PROVE  RootType'
<1> USE DEF RootType, HostType, durable, host, memory
<1>1. CASE \E c \in Core : Initialize(c)
  BY <1>1 DEF Initialize, PerhapsSampled, Sampled
<1>2. CASE \E c \in Core : Commit(c)
  <2>1. PICK c \in Core : Commit(c)
    BY <1>2
  <2> DEFINE op == running[c]
             it == preview[op].request.item
  <2>2. op \in Operation /\ preview[op] # Nothing
    BY <2>1 DEF Commit, Busy, Shown
  <2>3. preview[op] \in Preview
    BY <2>2 DEF CallerType
  <2> HIDE DEF op
  <2>4. it \in Item /\ preview[op].after \in State
    BY <2>3 DEF Preview, Request
  <2> HIDE DEF it
  <2>5. items' = [items EXCEPT ![it] = preview[op].after[it]]
    BY <2>1 DEF Commit, op, it
  <2>6. items' \in State
    BY <2>4, <2>5 DEF RootType, State
  <2>7. recorded[c] \in Nat /\ recorded[c] + ProofLife \in Nat
    BY GovernanceAssumption DEF ClockType
  <2>8. ProofOf(c) \in Proof
    BY <2>2, <2>3, <2>7 DEF ProofOf, Proof, Preview, op
  <2>9. proofs' \in Seq(Proof)
    BY <2>1, <2>8, AppendProperties DEF Commit, RootType
  <2> QED BY <2>1, <2>6, <2>9 DEF Commit
<1>3. CASE \E c \in Core : GiveUp(c)
  BY <1>3 DEF GiveUp, PerhapsSampled, Sampled
<1>4. CASE \E c \in Core : Crash(c)
  BY <1>4 DEF Crash, Fault
<1>5. CASE RollBack
  BY <1>5 DEF RollBack
<1>6. CASE UNCHANGED <<durable>>
  BY <1>6
<1> QED BY GovernanceSteps, <1>1, <1>2, <1>3, <1>4, <1>5, <1>6
        DEF vars, ProposeChange, Sampled, Authorize, Cancel, Verify, Refuse,
            PerhapsSampled, WriteItem, ReadBackOwn, ReadBack, OpenAudit, Page,
            CloseAudit, Tick, SetClockBack, Fault, CopiesDrift

\* The calls in progress.
LEMMA CoreStep ==
    ASSUME CoreType, [Next]_vars
    PROVE  CoreType'
<1> USE DEF CoreType, durable, host, memory
<1>1. CASE \E c \in Core, op \in Operation : ProposeChange(c, op)
  BY <1>1 DEF ProposeChange, Sampled
<1>2. CASE \E c \in Core : Authorize(c)
  BY <1>2 DEF Authorize, Sampled
<1>3. CASE \E c \in Core : Cancel(c)
  BY <1>3 DEF Cancel
<1>4. CASE \E c \in Core : Verify(c)
  BY <1>4 DEF Verify, Sampled
<1>5. CASE \E c \in Core : Refuse(c)
  BY <1>5 DEF Refuse, PerhapsSampled, Sampled
<1>6. CASE \E c \in Core : WriteItem(c)
  BY <1>6 DEF WriteItem, Sampled
<1>7. CASE \E c \in Core : Commit(c)
  BY <1>7 DEF Commit, Sampled
<1>8. CASE \E c \in Core : GiveUp(c)
  BY <1>8 DEF GiveUp, PerhapsSampled, Sampled
<1>9. CASE \E c \in Core : ReadBackOwn(c)
  BY <1>9 DEF ReadBackOwn, Sampled
<1>10. CASE \E c \in Core : Crash(c)
  BY <1>10 DEF Crash, Fault
<1>11. CASE UNCHANGED <<pending, handle, running, phase>>
  BY <1>11
<1> QED BY GovernanceSteps, <1>1, <1>2, <1>3, <1>4, <1>5, <1>6, <1>7, <1>8,
        <1>9, <1>10, <1>11
        DEF vars, Initialize, PerhapsSampled, Sampled, ReadBack, OpenAudit,
            Page, CloseAudit, RollBack, Tick, SetClockBack, Fault, CopiesDrift

\* The clock samples.
LEMMA ClockStep ==
    ASSUME HostType, ClockType, [Next]_vars
    PROVE  ClockType'
<1> USE DEF HostType, ClockType, durable, host, memory
<1>1. CASE \E c \in Core : Initialize(c)
  BY <1>1 DEF Initialize, PerhapsSampled, Sampled
<1>2. CASE \E c \in Core, op \in Operation : ProposeChange(c, op)
  BY <1>2 DEF ProposeChange, Sampled
<1>3. CASE \E c \in Core : Authorize(c)
  BY <1>3 DEF Authorize, Sampled
<1>4. CASE \E c \in Core : Verify(c)
  BY <1>4 DEF Verify, Sampled
<1>5. CASE \E c \in Core : Refuse(c)
  BY <1>5 DEF Refuse, PerhapsSampled, Sampled
<1>6. CASE \E c \in Core : WriteItem(c)
  BY <1>6 DEF WriteItem, Sampled
<1>7. CASE \E c \in Core : Commit(c)
  BY <1>7 DEF Commit, Sampled
<1>8. CASE \E c \in Core : GiveUp(c)
  BY <1>8 DEF GiveUp, PerhapsSampled, Sampled
<1>9. CASE \E c \in Core : ReadBackOwn(c)
  BY <1>9 DEF ReadBackOwn, Sampled
<1>10. CASE \E c \in Core, op \in Operation, shown \in BOOLEAN :
             ReadBack(c, op, shown)
  BY <1>10 DEF ReadBack, Sampled
<1>11. CASE \E c \in Core : OpenAudit(c)
  BY <1>11 DEF OpenAudit, Sampled
<1>12. CASE \E c \in Core : Page(c)
  BY <1>12 DEF Page, Sampled
<1>13. CASE \E c \in Core : CloseAudit(c)
  BY <1>13 DEF CloseAudit, PerhapsSampled, Sampled
<1>14. CASE \E c \in Core : Crash(c)
  BY <1>14 DEF Crash, Fault
<1>15. CASE UNCHANGED <<recorded, sample>>
  BY <1>15
<1> QED BY GovernanceSteps, <1>1, <1>2, <1>3, <1>4, <1>5, <1>6, <1>7, <1>8,
        <1>9, <1>10, <1>11, <1>12, <1>13, <1>14, <1>15
        DEF vars, Cancel, RollBack, Tick, SetClockBack, Fault, CopiesDrift

\* The audits.
LEMMA AuditTypeStep ==
    ASSUME RootType, AuditType, [Next]_vars
    PROVE  AuditType'
<1> USE DEF AuditType, durable, host, memory
<1>1. CASE \E c \in Core : OpenAudit(c)
  BY <1>1 DEF OpenAudit, Sampled, Snapshot, RootType
<1>2. CASE \E c \in Core : Page(c)
  <2>1. PICK c \in Core : Page(c)
    BY <1>2
  <2> DEFINE seen(i) == audit[c].seen \cup {i}
  <2>2. PICK i \in Present(items) : audit' = [audit EXCEPT ![c] =
           IF seen(i) = Present(items) THEN Nothing
           ELSE [audit[c] EXCEPT !.seen = seen(i)]]
    BY <2>1 DEF Page
  <2>3. audit[c] \in Snapshot /\ i \in Item
    BY <2>1, <2>2 DEF Page, Present
  <2>4. seen(i) \subseteq Item
    BY <2>3 DEF Snapshot
  <2> HIDE DEF seen
  <2>5. [audit[c] EXCEPT !.seen = seen(i)] \in Snapshot
    BY <2>3, <2>4 DEF Snapshot
  <2> QED BY <2>2, <2>5
<1>3. CASE \E c \in Core : CloseAudit(c)
  BY <1>3 DEF CloseAudit, PerhapsSampled, Sampled
<1>4. CASE \E c \in Core : Crash(c)
  BY <1>4 DEF Crash, Fault
<1>5. CASE UNCHANGED <<audit>>
  BY <1>5
<1> QED BY GovernanceSteps, <1>1, <1>2, <1>3, <1>4, <1>5
        DEF vars, Initialize, PerhapsSampled, Sampled, ProposeChange,
            Authorize, Cancel, Verify, Refuse, WriteItem, Commit, GiveUp,
            ReadBackOwn, ReadBack, RollBack, Tick, SetClockBack, Fault,
            CopiesDrift

\* What callers keep.
LEMMA CallerStep ==
    ASSUME HostType, RootType, CoreType, CallerType, Busy, [Next]_vars
    PROVE  CallerType'
<1> USE DEF CallerType, Outcome, durable, host, memory
<1>1. CASE \E c \in Core, op \in Operation : ProposeChange(c, op)
  <2>1. PICK c \in Core, op \in Operation : ProposeChange(c, op)
    BY <1>1
  <2>2. PICK q \in Preview : preview' = [preview EXCEPT ![op] = q]
    BY <2>1, ProposedPreview
  <2> QED BY <2>1, <2>2 DEF ProposeChange
<1>2. CASE \E c \in Core : Refuse(c)
  BY <1>2 DEF Refuse, PerhapsSampled, Sampled
<1>3. CASE \E c \in Core : ReadBackOwn(c)
  BY ZenonT(60), <1>3 DEF ReadBackOwn, Sampled, Verdicts
<1>4. CASE \E c \in Core, op \in Operation, shown \in BOOLEAN :
             ReadBack(c, op, shown)
  BY <1>4 DEF ReadBack, Sampled, Verdicts
<1>5. CASE \E c \in Core : Crash(c)
  BY <1>5 DEF Crash, Fault
<1>6. CASE UNCHANGED <<preview, outcome>>
  BY <1>6
<1> QED BY GovernanceSteps, <1>1, <1>2, <1>3, <1>4, <1>5, <1>6
        DEF vars, Initialize, PerhapsSampled, Sampled, Authorize, Cancel,
            Verify, WriteItem, Commit, GiveUp, OpenAudit, Page, CloseAudit,
            RollBack, Tick, SetClockBack, Fault, CopiesDrift

\* A core that executes knows of what.
LEMMA BusyStep ==
    ASSUME CoreType, Busy, [Next]_vars
    PROVE  Busy'
<1> USE DEF CoreType, Busy, durable, host, memory
<1>1. CASE \E c \in Core : Verify(c)
  BY <1>1 DEF Verify, Sampled
<1>2. CASE \E c \in Core : Refuse(c)
  BY <1>2 DEF Refuse, PerhapsSampled, Sampled
<1>3. CASE \E c \in Core : WriteItem(c)
  BY <1>3 DEF WriteItem, Sampled
<1>4. CASE \E c \in Core : Commit(c)
  BY <1>4 DEF Commit, Sampled
<1>5. CASE \E c \in Core : GiveUp(c)
  BY <1>5 DEF GiveUp, PerhapsSampled, Sampled
<1>6. CASE \E c \in Core : ReadBackOwn(c)
  BY <1>6 DEF ReadBackOwn, Sampled
<1>7. CASE \E c \in Core : Crash(c)
  BY <1>7 DEF Crash, Fault
<1>8. CASE UNCHANGED <<running, phase>>
  BY <1>8
<1> QED BY GovernanceSteps, <1>1, <1>2, <1>3, <1>4, <1>5, <1>6, <1>7, <1>8
        DEF vars, Initialize, PerhapsSampled, Sampled, ProposeChange,
            Authorize, Cancel, ReadBack, OpenAudit, Page, CloseAudit,
            RollBack, Tick, SetClockBack, Fault, CopiesDrift

\* A core has previewed what it has in hand.
LEMMA ShownStep ==
    ASSUME HostType, RootType, CoreType, CallerType, Shown, [Next]_vars
    PROVE  Shown'
<1> USE DEF CoreType, Shown, durable, host, memory
<1>1. CASE \E c \in Core, op \in Operation : ProposeChange(c, op)
  <2>1. PICK c \in Core, op \in Operation : ProposeChange(c, op)
    BY <1>1
  <2>2. PICK q \in Preview : preview' = [preview EXCEPT ![op] = q] /\ q # Nothing
    BY <2>1, ProposedPreview
  <2>3. pending' = [pending EXCEPT ![c] = op] /\ UNCHANGED <<handle, running>>
    BY <2>1 DEF ProposeChange
  <2> QED BY <2>2, <2>3 DEF CallerType
<1>2. CASE \E c \in Core : Authorize(c)
  BY <1>2, GovernanceAssumption DEF Authorize, Sampled
<1>3. CASE \E c \in Core : Cancel(c)
  BY <1>3, GovernanceAssumption DEF Cancel
<1>4. CASE \E c \in Core : Verify(c)
  BY <1>4, GovernanceAssumption DEF Verify, Sampled
<1>5. CASE \E c \in Core : Refuse(c)
  BY <1>5, GovernanceAssumption DEF Refuse, PerhapsSampled, Sampled
<1>6. CASE \E c \in Core : ReadBackOwn(c)
  BY <1>6, GovernanceAssumption DEF ReadBackOwn, Sampled
<1>7. CASE \E c \in Core : Crash(c)
  BY <1>7, GovernanceAssumption DEF Crash, Fault
<1>8. CASE UNCHANGED <<preview, pending, handle, running>>
  BY <1>8
<1> QED BY GovernanceSteps, <1>1, <1>2, <1>3, <1>4, <1>5, <1>6, <1>7, <1>8
        DEF vars, Initialize, PerhapsSampled, Sampled, WriteItem, Commit,
            GiveUp, ReadBack, OpenAudit, Page, CloseAudit, RollBack, Tick,
            SetClockBack, Fault, CopiesDrift

LEMMA TypeStep ==
    ASSUME TypeOK, [Next]_vars
    PROVE  TypeOK'
<1>1. /\ HostType /\ RootType /\ CoreType /\ ClockType /\ AuditType
      /\ CallerType /\ Busy /\ Shown
  BY TypeParts
<1>2. /\ HostType' /\ RootType' /\ CoreType' /\ ClockType' /\ AuditType'
      /\ CallerType' /\ Busy' /\ Shown'
  BY <1>1, HostStep, RootStep, CoreStep, ClockStep, AuditTypeStep, CallerStep,
     BusyStep, ShownStep
<1> QED BY <1>2 DEF TypeOK, HostType, RootType, CoreType, ClockType, AuditType,
                    CallerType, Busy, Shown

-----------------------------------------------------------------------------
(* Locks and audits.                                                       *)

LockedApart == \A c, d \in Core : Locked(c) => audit[d] = Nothing

\* Who writes is alone with the root.
LEMMA AuditStep ==
    ASSUME CoreType, AuditType, LockedApart, AuditsSeeOneState, [Next]_vars
    PROVE  LockedApart' /\ AuditsSeeOneState'
<1> USE DEF CoreType, AuditType, LockedApart, AuditsSeeOneState, Locked,
        durable, host, memory
<1>1. CASE \E c \in Core : Verify(c)
  BY <1>1 DEF Verify, Sampled, Verifiable, WriteLock, ReadLock
<1>2. CASE \E c \in Core : Refuse(c)
  BY <1>2 DEF Refuse, PerhapsSampled, Sampled
<1>3. CASE \E c \in Core : WriteItem(c)
  BY <1>3 DEF WriteItem, Sampled
<1>4. CASE \E c \in Core : Commit(c)
  BY <1>4 DEF Commit, Sampled
<1>5. CASE \E c \in Core : GiveUp(c)
  BY <1>5 DEF GiveUp, PerhapsSampled, Sampled
<1>6. CASE \E c \in Core : ReadBackOwn(c)
  BY <1>6 DEF ReadBackOwn, Sampled
<1>7. CASE \E c \in Core : OpenAudit(c)
  BY <1>7 DEF OpenAudit, Sampled, ReadLock
<1>8. CASE \E c \in Core : Page(c)
  BY <1>8 DEF Page, Sampled, Present
<1>9. CASE \E c \in Core : CloseAudit(c)
  BY <1>9 DEF CloseAudit, PerhapsSampled, Sampled
<1>10. CASE \E c \in Core : Crash(c)
  BY <1>10 DEF Crash, Fault
<1>11. CASE UNCHANGED <<audit, phase, items>>
  BY <1>11
<1> QED BY GovernanceSteps, <1>1, <1>2, <1>3, <1>4, <1>5, <1>6, <1>7, <1>8,
        <1>9, <1>10, <1>11
        DEF vars, Initialize, PerhapsSampled, Sampled, ProposeChange,
            Authorize, Cancel, ReadBack, RollBack, Tick, SetClockBack, Fault,
            CopiesDrift

-----------------------------------------------------------------------------
(* Operations.                                                             *)

Hands(c) == {pending[c], handle[c], running[c]}

\* An operation is in one hand of one core.
Once ==
    \A c \in Core, op \in Operation :
       /\ op \in Hands(c) => \A d \in Core : d # c => op \notin Hands(d)
       /\ pending[c] = op => handle[c] # op /\ running[c] # op
       /\ handle[c] = op => running[c] # op
       /\ running[c] = op => Locked(c)

\* What is in hand is not in the root, until the commit of the core that
\* executes it.
NotYet ==
    \A c \in Core :
       /\ ~ Proven(pending[c]) /\ ~ Proven(handle[c])
       /\ phase[c] \in {"verified", "written"} => ~ Proven(running[c])

\* An answer that says so is final.
Settled ==
    \A op \in Operation :
       /\ outcome[op] \in {"refused", "not-applied"} =>
             Spent(op) /\ preview[op] # Nothing /\ ~ Proven(op)
       /\ outcome[op] = "applied" => Proven(op)

\* An operation passes from hand to hand.
LEMMA OnceStep ==
    ASSUME CoreType, Shown, Busy, Once, [Next]_vars
    PROVE  Once'
<1> USE DEF CoreType, Once, Locked, durable, host, memory
<1>1. CASE \E c \in Core, op \in Operation : ProposeChange(c, op)
  <2>1. PICK c \in Core, op \in Operation : ProposeChange(c, op)
    BY <1>1
  <2>2. \A d \in Core : op \notin Hands(d)
    BY <2>1 DEF ProposeChange, Shown, Hands
  <2>3. pending' = [pending EXCEPT ![c] = op] /\ UNCHANGED <<handle, running, phase>>
    BY <2>1 DEF ProposeChange
  <2> QED BY <2>2, <2>3 DEF Hands
<1>2. CASE \E c \in Core : Authorize(c)
  BY <1>2, GovernanceAssumption DEF Authorize, Sampled, Hands
<1>3. CASE \E c \in Core : Cancel(c)
  BY <1>3, GovernanceAssumption DEF Cancel, Hands
<1>4. CASE \E c \in Core : Verify(c)
  BY <1>4, GovernanceAssumption DEF Verify, Sampled, Hands
<1>5. CASE \E c \in Core : Refuse(c)
  BY <1>5, GovernanceAssumption DEF Refuse, PerhapsSampled, Sampled, Hands
<1>6. CASE \E c \in Core : WriteItem(c)
  BY <1>6, GovernanceAssumption DEF WriteItem, Sampled, Hands
<1>7. CASE \E c \in Core : Commit(c)
  BY <1>7, GovernanceAssumption DEF Commit, Sampled, Hands
<1>8. CASE \E c \in Core : GiveUp(c)
  BY <1>8, GovernanceAssumption DEF GiveUp, PerhapsSampled, Sampled, Hands
<1>9. CASE \E c \in Core : ReadBackOwn(c)
  BY <1>9, GovernanceAssumption DEF ReadBackOwn, Sampled, Hands
<1>10. CASE \E c \in Core : Crash(c)
  BY <1>10, GovernanceAssumption DEF Crash, Fault, Hands
<1>11. CASE UNCHANGED <<pending, handle, running, phase>>
  BY <1>11 DEF Hands
<1> QED BY GovernanceSteps, <1>1, <1>2, <1>3, <1>4, <1>5, <1>6, <1>7, <1>8,
        <1>9, <1>10, <1>11
        DEF vars, Initialize, PerhapsSampled, Sampled, ReadBack, OpenAudit,
            Page, CloseAudit, RollBack, Tick, SetClockBack, Fault, CopiesDrift

\* A commit proves the operation of its core and no other.
LEMMA CommitProves ==
    ASSUME TypeOK, NEW c \in Core, Commit(c)
    PROVE  /\ Len(proofs') = Len(proofs) + 1 /\ Len(proofs) \in Nat
           /\ \A n \in 1 .. Len(proofs) : proofs'[n] = proofs[n]
           /\ proofs'[Len(proofs) + 1] = ProofOf(c)
           /\ \A op : Proven(op)' <=> Proven(op) \/ op = running[c]
<1>1. RootType /\ HostType /\ ClockType /\ CallerType /\ Busy /\ Shown
  BY TypeParts
<1>2. proofs' = Append(proofs, ProofOf(c))
  BY DEF Commit
<1>3. ProofOf(c) \in Proof
  <2>1. running[c] \in Operation /\ preview[running[c]] # Nothing
    BY <1>1 DEF Commit, Busy, Shown
  <2>2. preview[running[c]] \in Preview
    BY <1>1, <2>1 DEF CallerType
  <2>3. recorded[c] \in Nat /\ recorded[c] + ProofLife \in Nat
    BY <1>1, GovernanceAssumption DEF ClockType
  <2> QED BY <2>1, <2>2, <2>3 DEF ProofOf, Proof, Preview
<1>4. /\ Len(proofs') = Len(proofs) + 1 /\ Len(proofs) \in Nat
      /\ \A n \in 1 .. Len(proofs) : proofs'[n] = proofs[n]
      /\ proofs'[Len(proofs) + 1] = ProofOf(c)
  BY <1>1, <1>2, <1>3, AppendProperties, LenProperties DEF RootType
<1>5. ProofOf(c).op = running[c]
  BY DEF ProofOf
<1> QED BY <1>4, <1>5 DEF Proven

LEMMA NothingNotProven ==
    ASSUME TypeOK PROVE ~ Proven(Nothing)
<1>1. \A n \in 1 .. Len(proofs) : proofs[n] \in Proof
  BY TypeParts, ElementOfSeq DEF RootType
<1> QED BY <1>1, GovernanceAssumption DEF Proven, Proof

\* What is in hand is proven only by its own commit.
LEMMA NotYetStep ==
    ASSUME TypeOK, CommittedAsConfirmed, Busy, Once, NotYet, [Next]_vars
    PROVE  NotYet'
<1> USE DEF NotYet
<1>1. CASE \E c \in Core, op \in Operation : ProposeChange(c, op)
  <2>1. PICK c \in Core, op \in Operation : ProposeChange(c, op)
    BY <1>1
  <2>2. ~ Proven(op)
    BY <2>1 DEF ProposeChange, CommittedAsConfirmed, Proven
  <2>3. /\ pending' = [pending EXCEPT ![c] = op]
        /\ UNCHANGED <<handle, running, phase, proofs>>
    BY <2>1 DEF ProposeChange, durable
  <2>4. \A o : Proven(o)' <=> Proven(o)
    BY <2>3 DEF Proven
  <2>5. pending \in [Core -> Operation \cup {Nothing}]
    BY TypeParts DEF CoreType
  <2> QED BY <2>2, <2>3, <2>4, <2>5
<1>2. CASE \E c \in Core : Commit(c)
  <2>1. PICK c \in Core : Commit(c)
    BY <1>2
  <2>2. \A op : Proven(op)' <=> Proven(op) \/ op = running[c]
    BY <2>1, CommitProves
  <2>3. /\ UNCHANGED <<pending, handle, running>>
        /\ phase' = [phase EXCEPT ![c] = "closed"] /\ running[c] \in Operation
    BY <2>1 DEF Commit, Busy
  <2>4. \A d \in Core : d # c => running[c] \notin Hands(d)
    BY <2>3 DEF Once, Hands
  <2>5. pending[c] # running[c] /\ handle[c] # running[c]
    BY <2>3 DEF Once
  <2>6. phase \in [Core -> {"idle", "verified", "written", "closed"}]
    BY TypeParts DEF CoreType
  <2> QED BY <2>2, <2>3, <2>4, <2>5, <2>6 DEF Hands
<1>3. CASE \E c \in Core : Authorize(c)
  <2>1. \A o : Proven(o)' <=> Proven(o)
    BY <1>3 DEF Authorize, durable, Proven
  <2>2. CoreType /\ ~ Proven(Nothing)
    BY TypeParts, NothingNotProven
  <2> QED BY <1>3, <2>1, <2>2 DEF Authorize, CoreType
<1>4. CASE \E c \in Core : Cancel(c)
  <2>1. \A o : Proven(o)' <=> Proven(o)
    BY <1>4 DEF Cancel, durable, Proven
  <2>2. CoreType /\ ~ Proven(Nothing)
    BY TypeParts, NothingNotProven
  <2> QED BY <1>4, <2>1, <2>2 DEF Cancel, CoreType
<1>5. CASE \E c \in Core : Verify(c)
  <2>1. \A o : Proven(o)' <=> Proven(o)
    BY <1>5 DEF Verify, durable, Proven
  <2>2. CoreType /\ ~ Proven(Nothing)
    BY TypeParts, NothingNotProven
  <2> QED BY <1>5, <2>1, <2>2 DEF Verify, CoreType, Verifiable, Locked
<1>6. CASE \E c \in Core : Refuse(c)
  <2>1. \A o : Proven(o)' <=> Proven(o)
    BY <1>6 DEF Refuse, durable, Proven
  <2>2. CoreType /\ ~ Proven(Nothing)
    BY TypeParts, NothingNotProven
  <2> QED BY <1>6, <2>1, <2>2 DEF Refuse, CoreType
<1>7. CASE \E c \in Core : WriteItem(c)
  <2>1. \A o : Proven(o)' <=> Proven(o)
    BY <1>7 DEF WriteItem, durable, Proven
  <2>2. CoreType /\ ~ Proven(Nothing)
    BY TypeParts, NothingNotProven
  <2> QED BY <1>7, <2>1, <2>2 DEF WriteItem, CoreType
<1>8. CASE \E c \in Core : GiveUp(c)
  <2>1. \A o : Proven(o)' <=> Proven(o)
    BY <1>8 DEF GiveUp, durable, Proven
  <2>2. CoreType /\ ~ Proven(Nothing)
    BY TypeParts, NothingNotProven
  <2> QED BY <1>8, <2>1, <2>2 DEF GiveUp, CoreType
<1>9. CASE \E c \in Core : ReadBackOwn(c)
  <2>1. \A o : Proven(o)' <=> Proven(o)
    BY <1>9 DEF ReadBackOwn, durable, Proven
  <2>2. CoreType /\ ~ Proven(Nothing)
    BY TypeParts, NothingNotProven
  <2> QED BY <1>9, <2>1, <2>2 DEF ReadBackOwn, CoreType
<1>10. CASE \E c \in Core : Crash(c)
  <2>1. \A o : Proven(o)' <=> Proven(o)
    BY <1>10 DEF Crash, durable, Proven
  <2>2. CoreType /\ ~ Proven(Nothing)
    BY TypeParts, NothingNotProven
  <2> QED BY <1>10, <2>1, <2>2 DEF Crash, Fault, CoreType
<1>11. CASE UNCHANGED <<pending, handle, running, phase, proofs>>
  BY <1>11 DEF Proven
<1> QED BY GovernanceSteps, <1>1, <1>2, <1>3, <1>4, <1>5, <1>6, <1>7, <1>8,
        <1>9, <1>10, <1>11
        DEF vars, Initialize, PerhapsSampled, Sampled, ReadBack, OpenAudit,
            Page, CloseAudit, RollBack, Tick, SetClockBack, Fault,
            CopiesDrift, durable, host, memory

\* What a readback says is so at that moment.
LEMMA VerdictFacts ==
    ASSUME TypeOK, NEW c, NEW op, NEW shown \in BOOLEAN,
           NEW v \in Verdicts(c, op, shown)
    PROVE  /\ v \in {"unknown", "applied", "not-applied"}
           /\ v = "applied" => Proven(op)
           /\ v = "not-applied" => ~ Proven(op)
<1>1. proofs \in Seq(Proof)
  BY TypeParts DEF RootType
<1>2. proofs # << >> => Len(proofs) \in 1 .. Len(proofs)
  BY <1>1, LenProperties, EmptySeq
<1> QED BY <1>2 DEF Verdicts, Proven

\* A final answer is given only on an operation that no core holds.
LEMMA SettledStep ==
    ASSUME TypeOK, Once, NotYet, Settled, [Next]_vars
    PROVE  Settled'
<1> USE DEF Settled
<1>1. CASE \E c \in Core, op \in Operation : ProposeChange(c, op)
  <2>1. PICK c \in Core, op \in Operation : ProposeChange(c, op)
    BY <1>1
  <2>2. CoreType /\ CallerType /\ HostType /\ RootType
    BY TypeParts
  <2>3. PICK q \in Preview : preview' = [preview EXCEPT ![op] = q] /\ q # Nothing
    BY <2>1, <2>2, ProposedPreview
  <2>4. /\ pending' = [pending EXCEPT ![c] = op] /\ preview[op] = Nothing
        /\ UNCHANGED <<handle, running, outcome, proofs>>
    BY <2>1 DEF ProposeChange, durable
  <2>5. \A o : Proven(o)' <=> Proven(o)
    BY <2>4 DEF Proven
  <2>6. \A o \in Operation : Spent(o) /\ o # op => Spent(o)'
    BY <2>2, <2>4 DEF CoreType, Spent
  <2> QED BY <2>2, <2>3, <2>4, <2>5, <2>6 DEF CallerType
<1>2. CASE \E c \in Core : Authorize(c)
  <2>1. \A o : Proven(o)' <=> Proven(o)
    BY <1>2 DEF Authorize, durable, Proven
  <2>2. CoreType /\ CallerType
    BY TypeParts
  <2>3. preview' = preview /\ \A op \in Operation :
           outcome'[op] \in {"refused", "not-applied", "applied"} => outcome'[op] = outcome[op]
    BY <1>2, <2>2 DEF Authorize, CallerType
  <2>4. \A op \in Operation : Spent(op) => Spent(op)'
    BY <1>2, <2>2, GovernanceAssumption DEF Authorize, CoreType, Spent
  <2> QED BY <2>1, <2>3, <2>4
<1>3. CASE \E c \in Core : Cancel(c)
  <2>1. \A o : Proven(o)' <=> Proven(o)
    BY <1>3 DEF Cancel, durable, Proven
  <2>2. CoreType /\ CallerType
    BY TypeParts
  <2>3. preview' = preview /\ \A op \in Operation :
           outcome'[op] \in {"refused", "not-applied", "applied"} => outcome'[op] = outcome[op]
    BY <1>3, <2>2 DEF Cancel, CallerType
  <2>4. \A op \in Operation : Spent(op) => Spent(op)'
    BY <1>3, <2>2, GovernanceAssumption DEF Cancel, CoreType, Spent
  <2> QED BY <2>1, <2>3, <2>4
<1>4. CASE \E c \in Core : Verify(c)
  <2>1. \A o : Proven(o)' <=> Proven(o)
    BY <1>4 DEF Verify, durable, Proven
  <2>2. CoreType /\ CallerType
    BY TypeParts
  <2>3. preview' = preview /\ \A op \in Operation :
           outcome'[op] \in {"refused", "not-applied", "applied"} => outcome'[op] = outcome[op]
    BY <1>4, <2>2 DEF Verify, CallerType
  <2>4. \A op \in Operation : Spent(op) => Spent(op)'
    BY <1>4, <2>2, GovernanceAssumption DEF Verify, CoreType, Spent
  <2> QED BY <2>1, <2>3, <2>4
<1>5. CASE \E c \in Core : Refuse(c)
  <2>1. PICK c \in Core : Refuse(c)
    BY <1>5
  <2>2. CoreType /\ CallerType /\ Shown /\ Busy
    BY TypeParts
  <2>3. PICK op \in Operation : op = IF Locked(c) THEN running[c] ELSE handle[c]
    BY <2>1, <2>2 DEF Refuse, Locked, CoreType, Busy
  <2>4. preview[op] # Nothing /\ ~ Proven(op)
    BY <2>1, <2>2, <2>3 DEF Refuse, Locked, CoreType, Shown, NotYet
  <2>5. /\ \E code \in {"refused", "failed"} : outcome' = [outcome EXCEPT ![op] = code]
        /\ UNCHANGED <<pending, proofs, preview>>
        /\ handle' = [handle EXCEPT ![c] = Nothing]
        /\ running' = [running EXCEPT ![c] = Nothing]
    BY <2>1, <2>3 DEF Refuse, durable
  <2>6. \A o : Proven(o)' <=> Proven(o)
    BY <2>5 DEF Proven
  <2>7. \A o \in Operation : Spent(o) => Spent(o)'
    BY <2>2, <2>5, GovernanceAssumption DEF CoreType, Spent
  <2>8. op \in Hands(c) /\ op # pending[c]
    BY <2>3 DEF Hands, Once
  <2>9. \A d \in Core : op \notin {pending'[d], handle'[d], running'[d]}
    BY <2>2, <2>5, <2>8, GovernanceAssumption DEF CoreType, Once, Hands
  <2>10. Spent(op)'
    BY <2>9 DEF Spent
  <2> QED BY <2>2, <2>4, <2>5, <2>6, <2>7, <2>10 DEF CallerType
<1>6. CASE \E c \in Core : Commit(c)
  <2>1. PICK c \in Core : Commit(c)
    BY <1>6
  <2>2. \A o : Proven(o)' <=> Proven(o) \/ o = running[c]
    BY <2>1, CommitProves
  <2>3. UNCHANGED <<pending, handle, running, preview, outcome>>
    BY <2>1 DEF Commit
  <2>4. \A o \in Operation : Spent(o) => Spent(o)' /\ o # running[c]
    BY <2>3 DEF Spent
  <2> QED BY <2>2, <2>3, <2>4
<1>7. CASE \E c \in Core : ReadBackOwn(c)
  <2>1. PICK c \in Core : ReadBackOwn(c)
    BY <1>7
  <2>2. CoreType /\ CallerType /\ Shown /\ Busy
    BY TypeParts
  <2>3. running[c] \in Operation /\ preview[running[c]] # Nothing
    BY <2>1, <2>2 DEF ReadBackOwn, Shown, Busy
  <2>4. PICK v \in Verdicts(c, running[c], TRUE) \cup {"failed"} :
           outcome' = [outcome EXCEPT ![running[c]] = v]
    BY <2>1 DEF ReadBackOwn
  <2>5. /\ v \in {"unknown", "applied", "not-applied", "failed"}
        /\ v = "applied" => Proven(running[c])
        /\ v = "not-applied" => ~ Proven(running[c])
    BY VerdictFacts
  <2>6. /\ UNCHANGED <<pending, handle, proofs, preview>>
        /\ running' = [running EXCEPT ![c] = Nothing]
    BY <2>1 DEF ReadBackOwn, durable
  <2>7. \A o : Proven(o)' <=> Proven(o)
    BY <2>6 DEF Proven
  <2>8. \A o \in Operation : Spent(o) => Spent(o)'
    BY <2>2, <2>6, GovernanceAssumption DEF CoreType, Spent
  <2>9. \A d \in Core : running[c] \notin {pending'[d], handle'[d], running'[d]}
    BY <2>2, <2>3, <2>6, GovernanceAssumption DEF CoreType, Once, Hands
  <2>10. \A o \in Operation : o = running[c] => Spent(o)'
    BY <2>9 DEF Spent
  <2> QED BY <2>2, <2>3, <2>4, <2>5, <2>6, <2>7, <2>8, <2>10 DEF CallerType
<1>8. CASE \E c \in Core, op \in Operation, shown \in BOOLEAN :
             ReadBack(c, op, shown)
  <2>1. PICK c \in Core, op \in Operation, shown \in BOOLEAN :
           ReadBack(c, op, shown)
    BY <1>8
  <2>2. CoreType /\ CallerType
    BY TypeParts
  <2>3. PICK v \in Verdicts(c, op, shown) \cup {outcome[op]} :
           outcome' = [outcome EXCEPT ![op] = v]
    BY <2>1 DEF ReadBack
  <2>4. /\ v \in {"unknown", "applied", "not-applied", "open", "failed"}
        /\ v = "applied" => Proven(op)
        /\ v = "not-applied" => ~ Proven(op)
    BY <2>1, VerdictFacts DEF ReadBack
  <2>5. /\ UNCHANGED <<pending, handle, running, proofs, preview>>
        /\ Spent(op) /\ preview[op] # Nothing
    BY <2>1 DEF ReadBack, durable
  <2>6. \A o : (Proven(o)' <=> Proven(o)) /\ (Spent(o)' <=> Spent(o))
    BY <2>5 DEF Proven, Spent
  <2> QED BY <2>2, <2>3, <2>4, <2>5, <2>6 DEF CallerType
<1>9. CASE \E c \in Core : Crash(c)
  <2>1. \A o : Proven(o)' <=> Proven(o)
    BY <1>9 DEF Crash, durable, Proven
  <2>2. CoreType /\ CallerType
    BY TypeParts
  <2>3. preview' = preview /\ \A op \in Operation :
           outcome'[op] \in {"refused", "not-applied", "applied"} => outcome'[op] = outcome[op]
    BY <1>9, <2>2 DEF Crash, Fault, CallerType
  <2>4. \A op \in Operation : Spent(op) => Spent(op)'
    BY <1>9, <2>2, GovernanceAssumption DEF Crash, Fault, CoreType, Spent
  <2> QED BY <2>1, <2>3, <2>4
<1>10. CASE UNCHANGED <<pending, handle, running, preview, outcome, proofs>>
  BY <1>10 DEF Proven, Spent
<1> QED BY GovernanceSteps, <1>1, <1>2, <1>3, <1>4, <1>5, <1>6, <1>7, <1>8,
        <1>9, <1>10
        DEF vars, Initialize, PerhapsSampled, Sampled, WriteItem, GiveUp,
            OpenAudit, Page, CloseAudit, RollBack, Tick, SetClockBack, Fault,
            CopiesDrift, durable, host, memory

-----------------------------------------------------------------------------
(* The time of an operation.                                               *)

\* An operation that is executed was confirmed before, and is dated inside
\* the time it was confirmed for.
Timely ==
    \A c \in Core :
       /\ phase[c] \in {"verified", "written"} =>
             preview[running[c]].issued =< sample[c]
       /\ phase[c] = "written" =>
             /\ preview[running[c]].issued =< recorded[c]
             /\ recorded[c] < preview[running[c]].expires

\* The last sample of the clock does not lie before the confirmation.
LEMMA TimelyStep ==
    ASSUME TypeOK, Timely, [Next]_vars
    PROVE  Timely'
<1> USE DEF Timely, durable, host, memory
<1>0. HostType /\ CoreType /\ ClockType /\ CallerType /\ Busy /\ Shown
  BY TypeParts
<1>a. \A d \in Core : phase[d] # "idle" =>
         preview[running[d]].issued \in Nat /\ preview[running[d]].expires \in Nat
  BY <1>0 DEF Busy, Shown, CallerType, Preview
<1>1. CASE \E c \in Core, op \in Operation : ProposeChange(c, op)
  <2>1. PICK c \in Core, op \in Operation : ProposeChange(c, op)
    BY <1>1
  <2>2. HostType /\ RootType /\ CoreType /\ ClockType /\ CallerType /\ Busy /\ Shown
    BY TypeParts
  <2>3. \A d \in Core : phase[d] # "idle" => preview'[running[d]] = preview[running[d]]
    BY <2>1, <2>2 DEF ProposeChange, CallerType, Busy, Shown
  <2>4. \A d \in Core : phase[d] # "idle" => d # c
    BY <2>1 DEF ProposeChange, Locked
  <2>5. sample' = [sample EXCEPT ![c] = IF @ =< now THEN now ELSE @]
    BY <2>1 DEF ProposeChange, Sampled
  <2>6. UNCHANGED <<running, phase, recorded>>
    BY <2>1 DEF ProposeChange
  <2> QED BY <2>2, <2>3, <2>4, <2>5, <2>6 DEF ClockType
<1>2. CASE \E c \in Core : Initialize(c)
  BY <1>0, <1>a, <1>2 DEF Initialize, Sampled, PerhapsSampled, HostType, CoreType, ClockType
<1>3. CASE \E c \in Core : Authorize(c)
  BY <1>0, <1>a, <1>3 DEF Authorize, Sampled, HostType, CoreType, ClockType
<1>4. CASE \E c \in Core : Verify(c)
  <2>1. PICK c \in Core : Verify(c)
    BY <1>4
  <2>2. /\ handle[c] \in Operation /\ preview[handle[c]].issued \in Nat
        /\ preview[handle[c]].issued =< now /\ now >= sample[c]
    BY <1>0, <2>1 DEF Verify, Verifiable, Trusted, CoreType, Shown, CallerType, Preview
  <2> QED BY <1>0, <1>a, <2>1, <2>2 DEF Verify, Sampled, HostType, CoreType, ClockType
<1>5. CASE \E c \in Core : Refuse(c)
  BY <1>0, <1>a, <1>5 DEF Refuse, Sampled, PerhapsSampled, HostType, CoreType, ClockType
<1>6. CASE \E c \in Core : WriteItem(c)
  <2>1. PICK c \in Core : WriteItem(c)
    BY <1>6
  <2>2. now >= sample[c] /\ now < preview[running[c]].expires /\ phase[c] = "verified"
    BY <2>1 DEF WriteItem, Trusted, Live
  <2> QED BY <1>0, <1>a, <2>1, <2>2 DEF WriteItem, Sampled, HostType, CoreType, ClockType
<1>7. CASE \E c \in Core : Commit(c)
  BY <1>0, <1>a, <1>7 DEF Commit, Sampled, HostType, CoreType, ClockType
<1>8. CASE \E c \in Core : GiveUp(c)
  BY <1>0, <1>a, <1>8 DEF GiveUp, Sampled, PerhapsSampled, HostType, CoreType, ClockType
<1>9. CASE \E c \in Core : ReadBackOwn(c)
  BY <1>0, <1>a, <1>9 DEF ReadBackOwn, Sampled, HostType, CoreType, ClockType
<1>10. CASE \E c \in Core, op \in Operation, shown \in BOOLEAN :
             ReadBack(c, op, shown)
  BY <1>0, <1>a, <1>10 DEF ReadBack, Sampled, HostType, CoreType, ClockType
<1>11. CASE \E c \in Core : OpenAudit(c)
  BY <1>0, <1>a, <1>11 DEF OpenAudit, Sampled, HostType, CoreType, ClockType
<1>12. CASE \E c \in Core : Page(c)
  BY <1>0, <1>a, <1>12 DEF Page, Sampled, HostType, CoreType, ClockType
<1>13. CASE \E c \in Core : CloseAudit(c)
  BY <1>0, <1>a, <1>13 DEF CloseAudit, Sampled, PerhapsSampled, HostType, CoreType, ClockType
<1>14. CASE \E c \in Core : Crash(c)
  BY <1>0, <1>a, <1>14 DEF Crash, Fault, HostType, CoreType, ClockType
<1>15. CASE UNCHANGED <<preview, running, phase, recorded, sample>>
  BY <1>15
<1> QED BY GovernanceSteps, <1>1, <1>2, <1>3, <1>4, <1>5, <1>6, <1>7, <1>8,
        <1>9, <1>10, <1>11, <1>12, <1>13, <1>14, <1>15
        DEF vars, Cancel, RollBack, Tick, SetClockBack, Fault, CopiesDrift

\* So a proof says what its preview showed.
LEMMA ConfirmedStep ==
    ASSUME TypeOK, NotYet, Timely, CommittedAsConfirmed, [Next]_vars
    PROVE  CommittedAsConfirmed'
<1> USE DEF CommittedAsConfirmed
<1>1. CASE \E c \in Core, op \in Operation : ProposeChange(c, op)
  <2>1. PICK c \in Core, op \in Operation : ProposeChange(c, op)
    BY <1>1
  <2>2. HostType /\ RootType /\ CallerType
    BY TypeParts
  <2>3. PICK q \in Preview : preview' = [preview EXCEPT ![op] = q] /\ q # Nothing
    BY <2>1, <2>2, ProposedPreview
  <2>4. proofs' = proofs /\ preview[op] = Nothing
    BY <2>1 DEF ProposeChange, durable
  <2>5. \A n \in 1 .. Len(proofs) : proofs[n] \in Proof
    BY <2>2, ElementOfSeq DEF RootType
  <2>6. \A n \in 1 .. Len(proofs) : proofs[n].op \in Operation
    BY <2>5 DEF Proof
  <2>7. \A n \in 1 .. Len(proofs) : preview'[proofs[n].op] = preview[proofs[n].op]
    BY <2>2, <2>3, <2>4, <2>6 DEF CallerType
  <2> QED BY <2>4, <2>7
<1>2. CASE \E c \in Core : Commit(c)
  <2>1. PICK c \in Core : Commit(c)
    BY <1>2
  <2>2. CallerType /\ Busy /\ Shown
    BY TypeParts
  <2>3. /\ Len(proofs') = Len(proofs) + 1 /\ Len(proofs) \in Nat
        /\ \A n \in 1 .. Len(proofs) : proofs'[n] = proofs[n]
        /\ proofs'[Len(proofs) + 1] = ProofOf(c)
    BY <2>1, CommitProves
  <2>4. preview' = preview /\ phase[c] = "written"
    BY <2>1 DEF Commit
  <2>5. running[c] \in Operation /\ preview[running[c]] # Nothing
    BY <2>2, <2>4 DEF Busy, Shown
  <2> DEFINE p == ProofOf(c)  q == preview[running[c]]
  <2>6. /\ p.op = running[c] /\ p.request = q.request
        /\ p.before = q.before /\ p.after = q.after /\ p.at = recorded[c]
    BY DEF ProofOf
  <2>7. q.issued =< p.at /\ p.at < q.expires
    BY <2>4, <2>6 DEF Timely
  <2>8. \A n \in 1 .. Len(proofs) : proofs[n].op # running[c]
    BY <2>4 DEF NotYet, Proven
  <2> HIDE DEF p, q
  <2>9. ASSUME NEW n \in 1 .. Len(proofs')
        PROVE  LET pn == proofs'[n]  qn == preview'[pn.op] IN
               /\ \A m \in 1 .. Len(proofs') : proofs'[m].op = pn.op => m = n
               /\ qn # Nothing
               /\ pn.request = qn.request /\ pn.before = qn.before
               /\ pn.after = qn.after
               /\ qn.issued =< pn.at /\ pn.at < qn.expires
    <3>1. CASE n \in 1 .. Len(proofs)
      BY <2>3, <2>4, <2>6, <2>8, <2>9, <3>1 DEF p
    <3>2. CASE n = Len(proofs) + 1
      BY <2>3, <2>4, <2>5, <2>6, <2>7, <2>8, <2>9, <3>2 DEF p, q
    <3> QED BY <2>3, <2>9, <3>1, <3>2
  <2> QED BY <2>9
<1>3. CASE UNCHANGED <<preview, proofs>>
  BY <1>3
<1> QED BY GovernanceSteps, <1>1, <1>2, <1>3
        DEF vars, Initialize, PerhapsSampled, Sampled, Authorize, Cancel,
            Verify, Refuse, WriteItem, GiveUp, ReadBackOwn, ReadBack,
            OpenAudit, Page, CloseAudit, Crash, Fault, RollBack, Tick,
            SetClockBack, CopiesDrift, durable, host, memory

-----------------------------------------------------------------------------
(* The root replays.                                                       *)

\* A root that is not ready was never written to.
RootFresh == root # "ready" => proofs = << >> /\ \A c \in Core : phase[c] = "idle"

\* What is checked before the write still holds at the commit, since the core
\* is alone with the root.
ReadyToWrite ==
    \A c \in Core : phase[c] \in {"verified", "written"} =>
       LET p == preview[running[c]] IN
       /\ items = p.before /\ Transition(items, p.request) = p.after
       /\ Admitted(p.request) /\ Possible(items, p.request)
       /\ phase[c] = "written" => recorded[c] >= Floor

\* The sources of restorations stay.
Backed ==
    \A n \in 1 .. Len(proofs) : proofs[n].request.kind = "restore" =>
       proofs[n].request.source \in DOMAIN items[proofs[n].request.item].versions

Bounded == IsFiniteSet(Present(items))

Grown(item, item2) ==
    item # Nothing =>
       /\ item2 # Nothing
       /\ \A k \in DOMAIN item.versions :
             k \in DOMAIN item2.versions /\ item2.versions[k] = item.versions[k]

\* A change depends on the kind, and on the content if it stores one.
LEMMA SameChange ==
    ASSUME NEW item, NEW r, NEW q, r.kind = q.kind,
           r.kind \in Storing => r.content = q.content
    PROVE  Changed(item, r) = Changed(item, q)
<1>1. CASE r.kind \in Storing
  BY <1>1 DEF Changed, Storing
<1>2. CASE r.kind \notin Storing
  BY <1>2 DEF Changed, Storing
<1> QED BY <1>1, <1>2

\* A change only adds to the versions of an item.
LEMMA ChangeGrows ==
    ASSUME NEW item \in ItemState, NEW r \in Request, Changed(item, r) # Nothing
    PROVE  Grown(item, Changed(item, r))
<1>1. CASE r.kind = "add"
  BY <1>1, ChangedFacts DEF Grown
<1>2. CASE r.kind \in {"update", "restore"}
  <2>1. item # Nothing /\ Changed(item, r) =
           [item EXCEPT !.versions = Append(@, r.content)]
    BY <1>2, ChangedFacts
  <2>2. item.versions \in Seq(Content) /\ item \in [status : {"active", "stopped"}, versions : Seq(Content)]
    BY <2>1 DEF ItemState
  <2>3. Changed(item, r).versions = Append(item.versions, r.content)
    BY <2>1, <2>2
  <2>4. \A k \in DOMAIN item.versions :
           /\ k \in DOMAIN Append(item.versions, r.content)
           /\ Append(item.versions, r.content)[k] = item.versions[k]
    BY <2>2
  <2> QED BY <2>3, <2>4 DEF Grown
<1>3. CASE r.kind \in {"stop", "resume"}
  <2>1. item # Nothing /\ Changed(item, r).versions = item.versions
    BY <1>3, ChangedFacts DEF ItemState
  <2> QED BY <2>1 DEF Grown
<1> QED BY <1>1, <1>2, <1>3 DEF Request, Kind

\* A proof that replays on an item replays on every later state of it.
LEMMA ReplayGrows ==
    ASSUME NEW p, NEW s, NEW item, NEW item2, Grown(item, item2),
           ReplaysOn(p, s, item),
           p.request.kind = "restore" => p.request.source \in DOMAIN item.versions
    PROVE  ReplaysOn(p, s, item2)
<1> DEFINE r == p.request  rev == NextRevision(s[r.item])
<1>1. item # Nothing /\ item2 # Nothing
  BY DEF ReplaysOn, Grown
<1>2. r.kind \in Storing =>
         rev \in DOMAIN item2.versions /\ item2.versions[rev] = item.versions[rev]
  BY <1>1 DEF ReplaysOn, Grown
<1>3. AsStored(r, item2, rev) = AsStored(r, item, rev)
  BY <1>2 DEF AsStored
<1>4. r.kind = "restore" => item2.versions[r.source] = item.versions[r.source]
  BY <1>1 DEF Grown
<1> QED BY <1>1, <1>2, <1>3, <1>4 DEF ReplaysOn

\* The change that a core writes replays on the item that it leaves.
LEMMA ChangeReplays ==
    ASSUME NEW s \in State, NEW p, p.request \in Request,
           Possible(s, p.request), p.after = Transition(s, p.request)
    PROVE  /\ ReplaysOn(p, s, p.after[p.request.item])
           /\ p.request.kind = "restore" =>
                 p.request.source \in DOMAIN p.after[p.request.item].versions
<1> DEFINE r == p.request
           item == s[r.item]
           item2 == Changed(item, r)
           rev == NextRevision(item)
           row == AsStored(r, item2, rev)
<1>1. item \in ItemState /\ r.item \in Item
  BY DEF State, Request
<1>2. p.after[r.item] = item2
  BY <1>1 DEF Transition, State
<1>3. item2 # Nothing
  BY DEF Possible
<1>4. Grown(item, item2)
  BY <1>1, <1>3, ChangeGrows
<1>5. r.kind \in Storing => rev \in DOMAIN item2.versions /\ item2.versions[rev] = r.content
  <2>1. CASE r.kind = "add"
    <3>1. item = Nothing /\ item2 = [status |-> "active", versions |-> <<r.content>>]
      BY SMTT(40), <1>1, <1>3, <2>1, ChangedFacts
    <3> QED BY <3>1 DEF NextRevision
  <2>2. CASE r.kind \in {"update", "restore"}
    <3>1. item # Nothing /\ item2 = [item EXCEPT !.versions = Append(@, r.content)]
      BY <1>1, <1>3, <2>2, ChangedFacts
    <3>2. /\ item.versions \in Seq(Content)
          /\ item \in [status : {"active", "stopped"}, versions : Seq(Content)]
      BY <1>1, <3>1 DEF ItemState
    <3>3. item2.versions = Append(item.versions, r.content)
      BY <3>1, <3>2
    <3>4. rev = Len(item.versions) + 1
      BY <3>1 DEF NextRevision
    <3>5. /\ rev \in DOMAIN Append(item.versions, r.content)
          /\ Append(item.versions, r.content)[rev] = r.content
      BY <3>2, <3>4
    <3> QED BY <3>3, <3>5
  <2> QED BY <2>1, <2>2 DEF Storing
<1>6. r.kind = "restore" =>
         /\ r.source \in DOMAIN item2.versions
         /\ r.content = item2.versions[r.source]
  <2> SUFFICES ASSUME r.kind = "restore"
               PROVE  /\ r.source \in DOMAIN item2.versions
                      /\ r.content = item2.versions[r.source]
    OBVIOUS
  <2>1. item # Nothing
    BY <1>1, <1>3, ChangedFacts
  <2>2. r.source \in DOMAIN item.versions /\ r.content = item.versions[r.source]
    BY <2>1 DEF Possible, Fits
  <2> QED BY <1>4, <2>1, <2>2 DEF Grown
<1>7. /\ row.kind = r.kind /\ row.item = r.item
      /\ r.kind \in Storing => row.content = r.content
  BY <1>5 DEF AsStored, Request
<1>8. Changed(item, row) = item2
  <2> HIDE DEF row, item, r
  <2> QED BY <1>7, SameChange
<1>9. Transition(s, row) = Transition(s, r)
  BY <1>7, <1>8 DEF Transition
<1>10. r.kind = "restore" => row.content = item2.versions[r.source]
  BY <1>6, <1>7 DEF Storing
<1>11. ReplaysOn(p, s, item2)
  BY <1>3, <1>5, <1>8, <1>9, <1>10 DEF ReplaysOn
<1> QED BY <1>2, <1>6, <1>11

LEMMA FreshStep ==
    ASSUME CoreType, RootFresh, [Next]_vars
    PROVE  RootFresh'
<1> USE DEF CoreType, RootFresh, durable, host, memory
<1>1. CASE \E c \in Core : Initialize(c)
  BY <1>1 DEF Initialize, PerhapsSampled, Sampled
<1>2. CASE \E c \in Core : Verify(c)
  BY <1>2 DEF Verify, Sampled, Verifiable, WriteLock, ReadLock
<1>3. CASE \E c \in Core : Refuse(c)
  BY <1>3 DEF Refuse, PerhapsSampled, Sampled
<1>4. CASE \E c \in Core : WriteItem(c)
  BY <1>4 DEF WriteItem, Sampled
<1>5. CASE \E c \in Core : Commit(c)
  BY <1>5 DEF Commit, Sampled
<1>6. CASE \E c \in Core : GiveUp(c)
  BY <1>6 DEF GiveUp, PerhapsSampled, Sampled
<1>7. CASE \E c \in Core : ReadBackOwn(c)
  BY <1>7 DEF ReadBackOwn, Sampled
<1>8. CASE \E c \in Core : Crash(c)
  BY <1>8 DEF Crash, Fault
<1>9. CASE UNCHANGED <<root, proofs, phase>>
  BY <1>9
<1> QED BY GovernanceSteps, <1>1, <1>2, <1>3, <1>4, <1>5, <1>6, <1>7, <1>8, <1>9
        DEF vars, ProposeChange, Sampled, Authorize, Cancel, ReadBack,
            OpenAudit, Page, CloseAudit, RollBack, Tick, SetClockBack, Fault,
            CopiesDrift, PerhapsSampled

\* While a core writes, the root and what is written stay.
LEMMA ReadyStep ==
    ASSUME TypeOK, AuditsSeeOneState, RootFresh, ReadyToWrite, [Next]_vars
    PROVE  ReadyToWrite'
<1> USE DEF ReadyToWrite, durable, host, memory
<1>0. HostType /\ RootType /\ CoreType /\ ClockType /\ CallerType /\ Busy /\ Shown
  BY TypeParts
<1>1. CASE \E c \in Core : Initialize(c)
  <2>1. \A c \in Core : phase[c] = "idle"
    BY <1>1 DEF Initialize, RootFresh
  <2> QED BY <1>1, <2>1 DEF Initialize
<1>2. CASE \E c \in Core, op \in Operation : ProposeChange(c, op)
  <2>1. PICK c \in Core, op \in Operation : ProposeChange(c, op)
    BY <1>2
  <2>2. PICK q \in Preview : preview' = [preview EXCEPT ![op] = q]
    BY <1>0, <2>1, ProposedPreview
  <2>3. /\ UNCHANGED <<running, phase, recorded, items, proofs, born>>
        /\ preview[op] = Nothing
    BY <2>1 DEF ProposeChange
  <2>4. \A d \in Core : phase[d] # "idle" => preview'[running[d]] = preview[running[d]]
    BY SMTT(40), <1>0, <2>2, <2>3 DEF Busy, Shown, CallerType
  <2> QED BY <2>3, <2>4 DEF Admitted, Floor, Transition, Possible
<1>3. CASE \E c \in Core : Verify(c)
  <2>1. PICK c \in Core : Verify(c)
    BY <1>3
  <2>2. /\ phase' = [phase EXCEPT ![c] = "verified"]
        /\ running' = [running EXCEPT ![c] = handle[c]]
        /\ UNCHANGED <<preview, recorded, items, proofs, born>>
    BY <2>1 DEF Verify
  <2>3. \A d \in Core : d # c => phase[d] = "idle"
    BY <2>1 DEF Verify, Verifiable, WriteLock, ReadLock, Locked
  <2>4. LET p == preview[handle[c]] IN
        /\ items = p.before /\ Transition(items, p.request) = p.after
        /\ Admitted(p.request) /\ Possible(items, p.request)
    BY <2>1 DEF Verify, Verifiable
  <2> QED BY <1>0, <2>2, <2>3, <2>4 DEF CoreType, Admitted, Transition, Possible
<1>4. CASE \E c \in Core : Refuse(c)
  BY <1>0, <1>4 DEF Refuse, CoreType, Admitted, Floor, Transition, Possible
<1>5. CASE \E c \in Core : WriteItem(c)
  <2>1. PICK c \in Core : WriteItem(c)
    BY <1>5
  <2>2. now >= Floor /\ phase[c] = "verified"
    BY <2>1 DEF WriteItem, Trusted
  <2>3. /\ phase' = [phase EXCEPT ![c] = "written"]
        /\ recorded' = [recorded EXCEPT ![c] = now]
        /\ UNCHANGED <<preview, running, items, proofs, born>>
    BY <2>1 DEF WriteItem
  <2> QED BY <1>0, <2>2, <2>3
          DEF CoreType, ClockType, Admitted, Floor, Transition, Possible
<1>6. CASE \E c \in Core : Commit(c)
  <2>1. PICK c \in Core : Commit(c)
    BY <1>6
  <2>2. phase' = [phase EXCEPT ![c] = "closed"] /\ phase[c] = "written"
    BY <2>1 DEF Commit
  <2>3. \A d \in Core : d # c => phase[d] = "idle"
    BY <2>2 DEF AuditsSeeOneState, Locked
  <2>4. \A d \in Core : phase'[d] \notin {"verified", "written"}
    BY <1>0, <2>2, <2>3 DEF CoreType
  <2> QED BY <2>4
<1>7. CASE \E c \in Core : GiveUp(c)
  BY <1>0, <1>7 DEF GiveUp, CoreType, Admitted, Floor, Transition, Possible
<1>8. CASE \E c \in Core : ReadBackOwn(c)
  <2>1. UNCHANGED <<born, items, proofs, preview>>
    BY <1>8 DEF ReadBackOwn
  <2>2. \A d \in Core : phase'[d] \in {"verified", "written"} =>
           /\ phase'[d] = phase[d] /\ running'[d] = running[d]
           /\ recorded'[d] = recorded[d]
    BY <1>0, <1>8 DEF ReadBackOwn, CoreType, ClockType
  <2> QED BY <2>1, <2>2 DEF Admitted, Floor, Transition, Possible
<1>9. CASE \E c \in Core : Crash(c)
  <2>1. UNCHANGED <<born, items, proofs, preview>>
    BY <1>9 DEF Crash, Fault
  <2>2. \A d \in Core : phase'[d] \in {"verified", "written"} =>
           /\ phase'[d] = phase[d] /\ running'[d] = running[d]
           /\ recorded'[d] = recorded[d]
    BY <1>0, <1>9 DEF Crash, Fault, CoreType, ClockType
  <2> QED BY <2>1, <2>2 DEF Admitted, Floor, Transition, Possible
<1>10. CASE UNCHANGED <<born, items, proofs, running, phase, recorded, preview>>
  BY <1>10 DEF Admitted, Floor, Transition, Possible
<1> QED BY GovernanceSteps, <1>1, <1>2, <1>3, <1>4, <1>5, <1>6, <1>7, <1>8,
        <1>9, <1>10
        DEF vars, Sampled, PerhapsSampled, Authorize, Cancel, ReadBack,
            OpenAudit, Page, CloseAudit, RollBack, Tick, SetClockBack, Fault,
            CopiesDrift

\* A commit leaves a root that replays.
LEMMA CommitUsable ==
    ASSUME TypeOK, ReadyToWrite, Backed, Bounded, SnapshotValid,
           NEW c \in Core, Commit(c)
    PROVE  Backed' /\ Bounded' /\ SnapshotValid'
<1> DEFINE q == preview[running[c]]
           r == q.request
           it == r.item
           p == ProofOf(c)
           k == Len(proofs)
<1>1. /\ HostType /\ RootType /\ ClockType /\ CallerType /\ Busy /\ Shown
      /\ phase[c] = "written"
  BY TypeParts DEF Commit
<1>2. q \in Preview
  BY <1>1 DEF Busy, Shown, CallerType
<1>3. r \in Request /\ it \in Item
  BY <1>2 DEF Preview, Request
<1>4. /\ items = q.before /\ Transition(items, r) = q.after
      /\ Admitted(r) /\ Possible(items, r) /\ recorded[c] >= Floor
  BY <1>1 DEF ReadyToWrite
<1>5. /\ Len(proofs') = k + 1 /\ k \in Nat
      /\ \A n \in 1 .. k : proofs'[n] = proofs[n]
      /\ proofs'[k + 1] = p
  BY CommitProves
<1>6. UNCHANGED <<born>> /\ items' = [items EXCEPT ![it] = q.after[it]]
  BY DEF Commit
<1>7. /\ p.request = r /\ p.before = q.before /\ p.after = q.after
      /\ p.at = recorded[c]
  BY DEF ProofOf
<1> HIDE DEF p, q
<1>8. items \in State
  BY <1>1 DEF RootType
<1>9. items[it] \in ItemState /\ q.after[it] = Changed(items[it], r)
  BY <1>3, <1>4, <1>8 DEF Transition, State
<1>10. items' = q.after
  BY <1>3, <1>4, <1>6, <1>8, <1>9 DEF Transition, State
<1>11. Changed(items[it], r) # Nothing
  BY <1>4 DEF Possible
<1>12. /\ items'[it] = Changed(items[it], r)
       /\ \A i \in Item : i # it => items'[i] = items[i]
       /\ \A i \in Item : Grown(items[i], items'[i])
  <2>1. items'[it] = Changed(items[it], r) /\ \A i \in Item : i # it => items'[i] = items[i]
    BY <1>3, <1>6, <1>8, <1>9 DEF State
  <2>2. Grown(items[it], items'[it])
    BY <1>3, <1>9, <1>11, <2>1, ChangeGrows
  <2>3. \A i \in Item : i # it => Grown(items[i], items'[i])
    BY <2>1 DEF Grown
  <2> QED BY <2>1, <2>2, <2>3
<1>13. \A n \in 1 .. k : proofs[n] \in Proof /\ proofs[n].request.item \in Item
  <2>1. \A n \in 1 .. k : proofs[n] \in Proof
    BY <1>1, ElementOfSeq DEF RootType
  <2> QED BY <2>1 DEF Proof, Request
\* the old proofs
<1>14. \A n \in 1 .. k + 1 : StateBefore(n)' = StateBefore(n)
  <2> SUFFICES ASSUME NEW n \in 1 .. k + 1 PROVE StateBefore(n)' = StateBefore(n)
    OBVIOUS
  <2>1. n # 1 => n - 1 \in 1 .. k
    BY <1>5
  <2> QED BY <1>5, <2>1 DEF StateBefore, EmptyState
<1>15. ASSUME NEW n \in 1 .. k
       PROVE  /\ ReplaysOn(proofs[n], StateBefore(n), items'[proofs[n].request.item])
              /\ proofs[n].request.kind = "restore" =>
                   proofs[n].request.source \in
                      DOMAIN items'[proofs[n].request.item].versions
  <2> DEFINE i == proofs[n].request.item
  <2>1. Grown(items[i], items'[i])
    BY <1>12, <1>13
  <2>2. ReplaysOn(proofs[n], StateBefore(n), items[i])
    BY DEF SnapshotValid, Replays
  <2>3. proofs[n].request.kind = "restore" =>
           proofs[n].request.source \in DOMAIN items[i].versions
    BY DEF Backed
  <2>4. items[i] # Nothing
    BY <2>2 DEF ReplaysOn
  <2> HIDE DEF i
  <2>5. ReplaysOn(proofs[n], StateBefore(n), items'[i])
    BY <2>1, <2>2, <2>3, ReplayGrows
  <2>6. proofs[n].request.kind = "restore" =>
           proofs[n].request.source \in DOMAIN items'[i].versions
    BY <2>1, <2>3, <2>4 DEF Grown
  <2> QED BY <2>5, <2>6 DEF i
\* the new one
<1>16. items = StateBefore(k + 1)
  BY DEF SnapshotValid, LastState
<1>17. /\ ReplaysOn(p, StateBefore(k + 1), items'[p.request.item])
       /\ p.request.kind = "restore" =>
            p.request.source \in DOMAIN items'[p.request.item].versions
  <2>1. p.request \in Request /\ Possible(items, p.request)
        /\ p.after = Transition(items, p.request)
    BY <1>3, <1>4, <1>7
  <2> QED BY <1>7, <1>8, <1>10, <1>16, <2>1, ChangeReplays
<1>18. ASSUME NEW n \in 1 .. Len(proofs')
       PROVE  /\ proofs'[n].before = StateBefore(n)'
              /\ proofs'[n].at >= (IF n = 1 THEN born ELSE proofs'[n - 1].at)
              /\ Replays(n)'
              /\ proofs'[n].request.kind = "restore" =>
                    proofs'[n].request.source \in
                       DOMAIN items'[proofs'[n].request.item].versions
  <2>1. CASE n \in 1 .. k
    <3>1. n # 1 => n - 1 \in 1 .. k
      BY <1>5, <2>1
    <3>2. proofs'[n] = proofs[n] /\ StateBefore(n)' = StateBefore(n)
      BY <1>5, <1>14, <2>1
    <3>3. Replays(n)'
      BY <1>15, <2>1, <3>2 DEF Replays
    <3>4. /\ proofs[n].before = StateBefore(n)
          /\ proofs[n].at >= (IF n = 1 THEN born ELSE proofs[n - 1].at)
      BY <2>1 DEF SnapshotValid
    <3> QED BY <1>5, <1>15, <2>1, <3>1, <3>2, <3>3, <3>4
  <2>2. CASE n = k + 1
    <3>1. proofs'[n] = p /\ StateBefore(n)' = StateBefore(n)
      BY <1>5, <1>14, <2>2
    <3>2. Replays(n)'
      BY <1>17, <2>2, <3>1 DEF Replays
    <3>3. proofs'[n].before = StateBefore(n)'
      BY <1>4, <1>7, <1>16, <2>2, <3>1
    <3>4. Floor = IF n = 1 THEN born ELSE proofs'[n - 1].at
      <4>1. proofs = << >> <=> k = 0
        BY <1>1, EmptySeq DEF RootType
      <4> QED BY <1>5, <2>2, <4>1 DEF Floor
    <3> QED BY <1>4, <1>7, <1>17, <3>1, <3>2, <3>3, <3>4
  <2> QED BY <1>5, <1>18, <2>1, <2>2
\* the limits
<1>19. Bounded' /\ Cardinality(Present(items')) =< MaxItems
  <2>1. CASE r.kind = "add"
    <3>1. items[it] = Nothing
      BY <1>3, <1>9, <1>11, <2>1, ChangedFacts
    <3>2. Present(items') = Present(items) \cup {it} /\ it \notin Present(items)
      BY <1>3, <1>11, <1>12, <3>1 DEF Present
    <3>3. Cardinality(Present(items)) < MaxItems
      BY <1>4, <2>1 DEF Admitted
    <3>4. Cardinality(Present(items)) \in Nat /\ MaxItems \in Nat
      BY FS_CardinalityType, GovernanceAssumption DEF Bounded
    <3>5. /\ IsFiniteSet(Present(items) \cup {it})
          /\ Cardinality(Present(items) \cup {it}) = Cardinality(Present(items)) + 1
      BY <3>2, FS_AddElement DEF Bounded
    <3> QED BY <3>2, <3>3, <3>4, <3>5 DEF Bounded
  <2>2. CASE r.kind # "add"
    <3>1. items[it] # Nothing
      BY <1>3, <1>9, <1>11, <2>2, ChangedFacts DEF Request, Kind
    <3>2. Present(items') = Present(items)
      BY <1>3, <1>11, <1>12, <3>1 DEF Present
    <3> QED BY <3>2 DEF Bounded, SnapshotValid
  <2> QED BY <2>1, <2>2
<1>20. ASSUME NEW i \in Present(items')
       PROVE  Len(items'[i].versions) \in 1 .. MaxVersions
  <2>0. MaxVersions \in Nat /\ MaxVersions >= 1
    BY GovernanceAssumption
  <2>1. CASE i # it
    BY <1>12, <1>20, <2>1 DEF Present, SnapshotValid
  <2>2. CASE i = it /\ r.kind = "add"
    <3>1. items'[it] = [status |-> "active", versions |-> <<r.content>>]
      BY <1>3, <1>9, <1>11, <1>12, <2>2, ChangedFacts
    <3>2. Len(<<r.content>>) = 1
      OBVIOUS
    <3> QED BY <2>0, <2>2, <3>1, <3>2
  <2>3. CASE i = it /\ r.kind \in {"update", "restore"}
    <3>1. items[it] # Nothing
          /\ items'[it] = [items[it] EXCEPT !.versions = Append(@, r.content)]
      BY <1>3, <1>9, <1>11, <1>12, <2>3, ChangedFacts
    <3>2. /\ items[it].versions \in Seq(Content)
          /\ items[it] \in [status : {"active", "stopped"}, versions : Seq(Content)]
      BY <1>9, <3>1 DEF ItemState
    <3>3. items'[it].versions = Append(items[it].versions, r.content)
      BY <3>1, <3>2
    <3>4. Len(items[it].versions) < MaxVersions
      BY <1>4, <2>3, <3>1 DEF Possible, Fits
    <3>5. Len(items'[it].versions) = Len(items[it].versions) + 1
          /\ Len(items[it].versions) \in Nat
      BY <3>2, <3>3
    <3> QED BY <2>0, <2>3, <3>4, <3>5
  <2>4. CASE i = it /\ r.kind \in {"stop", "resume"}
    <3>1. items[it] # Nothing /\ items'[it].versions = items[it].versions
      BY <1>3, <1>9, <1>11, <1>12, <2>4, ChangedFacts DEF ItemState
    <3> QED BY <1>3, <2>4, <3>1 DEF SnapshotValid, Present
  <2> QED BY <1>3, <2>1, <2>2, <2>3, <2>4 DEF Request, Kind
<1>21. Len(proofs') =< MaxProofs + Reserve
  BY SMTT(40), <1>4, <1>5, GovernanceAssumption DEF Admitted
<1>22. items' = LastState'
  <2>1. LastState' = proofs'[Len(proofs') + 1 - 1].after
    BY <1>5 DEF LastState, StateBefore
  <2>2. Len(proofs') + 1 - 1 = k + 1
    BY <1>5
  <2> QED BY <1>5, <1>7, <1>10, <2>1, <2>2
<1>23. SnapshotValid'
  BY <1>6, <1>18, <1>19, <1>20, <1>21, <1>22 DEF SnapshotValid
<1> QED BY <1>18, <1>19, <1>23 DEF Backed

LEMMA UsableStep ==
    ASSUME TypeOK, RootFresh, ReadyToWrite, Backed, Bounded, SnapshotValid,
           [Next]_vars
    PROVE  Backed' /\ Bounded' /\ SnapshotValid'
<1>1. CASE \E c \in Core : Commit(c)
  BY <1>1, CommitUsable
<1>2. CASE \E c \in Core : Initialize(c)
  <2>1. proofs = << >> /\ UNCHANGED <<items, proofs>>
    BY <1>2 DEF Initialize, RootFresh
  <2>2. \A n \in 1 .. Len(proofs) : FALSE
    BY <2>1
  <2> QED BY <2>1, <2>2 DEF Backed, Bounded, SnapshotValid, LastState, StateBefore
<1>3. CASE UNCHANGED <<born, items, proofs>>
  BY <1>3 DEF Backed, Bounded, SnapshotValid, Replays, LastState, StateBefore
<1> QED BY GovernanceSteps, <1>1, <1>2, <1>3
        DEF vars, ProposeChange, Sampled, PerhapsSampled, Authorize, Cancel,
            Verify, Refuse, WriteItem, GiveUp, ReadBackOwn, ReadBack,
            OpenAudit, Page, CloseAudit, Crash, Fault, RollBack, Tick,
            SetClockBack, CopiesDrift, durable, host, memory

-----------------------------------------------------------------------------
(* The invariant.                                                          *)

GovernanceInv ==
    /\ TypeOK /\ LockedApart /\ AuditsSeeOneState
    /\ Once /\ NotYet /\ Settled
    /\ Timely /\ CommittedAsConfirmed
    /\ RootFresh /\ ReadyToWrite /\ Backed /\ Bounded /\ SnapshotValid

LEMMA GovernanceInit ==
    ASSUME Init PROVE GovernanceInv
<1> USE DEF Init
<1>1. Len(proofs) = 0 /\ proofs \in Seq(Proof)
  BY EmptySeq
<1>2. \A op : ~ Proven(op)
  BY <1>1 DEF Proven
<1>3. TypeOK
  BY <1>1, GovernanceAssumption DEF TypeOK, State, ItemState, EmptyState, Outcome
<1>4. LockedApart /\ AuditsSeeOneState
  BY DEF LockedApart, AuditsSeeOneState, Locked
<1>5. Once
  BY GovernanceAssumption DEF Once, Hands
<1>6. NotYet /\ Settled /\ Timely
  BY <1>2 DEF NotYet, Settled, Timely
<1>7. CommittedAsConfirmed /\ Backed
  BY <1>1 DEF CommittedAsConfirmed, Backed
<1>8. RootFresh /\ ReadyToWrite
  BY DEF RootFresh, ReadyToWrite
<1>9. Present(items) = {}
  BY DEF Present, EmptyState
<1>10. IsFiniteSet(Present(items)) /\ Cardinality(Present(items)) = 0
  BY <1>9, FS_EmptySet
<1>11. SnapshotValid
  BY <1>1, <1>9, <1>10, GovernanceAssumption
     DEF SnapshotValid, LastState, StateBefore
<1> QED BY <1>3, <1>4, <1>5, <1>6, <1>7, <1>8, <1>10, <1>11
        DEF GovernanceInv, Bounded

LEMMA GovernanceStep ==
    ASSUME GovernanceInv, [Next]_vars PROVE GovernanceInv'
<1>1. TypeOK'
  BY TypeStep DEF GovernanceInv
<1>2. /\ HostType /\ RootType /\ CoreType /\ ClockType /\ AuditType
      /\ CallerType /\ Busy /\ Shown
  BY TypeParts DEF GovernanceInv
<1>3. LockedApart' /\ AuditsSeeOneState'
  BY <1>2, AuditStep DEF GovernanceInv
<1>4. Once' /\ NotYet' /\ Settled'
  BY <1>2, OnceStep, NotYetStep, SettledStep DEF GovernanceInv
<1>5. Timely' /\ CommittedAsConfirmed'
  BY TimelyStep, ConfirmedStep DEF GovernanceInv
<1>6. RootFresh' /\ ReadyToWrite'
  BY <1>2, FreshStep, ReadyStep DEF GovernanceInv
<1>7. Backed' /\ Bounded' /\ SnapshotValid'
  BY UsableStep DEF GovernanceInv
<1> QED BY <1>1, <1>3, <1>4, <1>5, <1>6, <1>7 DEF GovernanceInv

LEMMA GovernanceInvariant == Spec => []GovernanceInv
BY GovernanceInit, GovernanceStep, PTL DEF Spec

\* Every state of the governance core is of its types: an operation that a
\* core has in hand has a preview, which its caller keeps.
THEOREM GovernanceTypeCorrect == Spec => []TypeOK
<1>1. GovernanceInv => TypeOK
  BY DEF GovernanceInv
<1> QED BY <1>1, GovernanceInvariant, PTL

\* An audit sees one state of the root from its first page to its last, and
\* at most one core writes, for any number of cores.
THEOREM AuditsAlwaysSeeOneState == Spec => []AuditsSeeOneState
<1>1. GovernanceInv => AuditsSeeOneState
  BY DEF GovernanceInv
<1> QED BY <1>1, GovernanceInvariant, PTL

\* Each operation is committed at most once, as its preview showed it and
\* while its confirmation was valid, whatever the clock does.
THEOREM CommittedAlwaysAsConfirmed == Spec => []CommittedAsConfirmed
<1>1. GovernanceInv => CommittedAsConfirmed
  BY DEF GovernanceInv
<1> QED BY <1>1, GovernanceInvariant, PTL

\* No answer is taken back: what was refused or found not applied is never
\* found in the root, what was found applied always is.
THEOREM RepliesAlwaysHonest == Spec => []RepliesAreHonest
<1>1. GovernanceInv => RepliesAreHonest
  BY DEF GovernanceInv, Settled, RepliesAreHonest
<1> QED BY <1>1, GovernanceInvariant, PTL

\* The proofs of a root always replay to its items, within the limits, so no
\* sequence of operations leaves a root that its own checks refuse.
THEOREM RootAlwaysUsable == Spec => []RootStaysUsable
<1>1. GovernanceInv => RootStaysUsable
  BY DEF GovernanceInv, RootStaysUsable
<1> QED BY <1>1, GovernanceInvariant, PTL
=============================================================================
