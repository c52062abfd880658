------------------------- MODULE LedgerWriteProofs --------------------------
(***************************************************************************)
(* Theorems about LedgerWrite, for any number of invocations and events.   *)
(* The inductive invariant WriteInv is the safety properties and           *)
(*   EventsBuilt    the ledger and the invocations have prepared events,   *)
(*   ReadIsOld      what was read is still the beginning of the ledger,    *)
(*   ReadyToWrite   the event about to be written fits it,                 *)
(*   Written        the event that was written is right behind it,         *)
(*   DurableBegins  what is durable is a prefix of the ledger.             *)
(***************************************************************************)
EXTENDS LedgerWrite, SequenceTheorems, TLAPS

-----------------------------------------------------------------------------
(* Prefixes.                                                               *)

\* A prefix is a sequence of the given length with the same elements.
LEMMA PrefixFacts ==
    ASSUME NEW S, NEW s \in Seq(S), NEW n \in 0 .. Len(s)
    PROVE  /\ Prefix(s, n) \in Seq(S)
           /\ Len(Prefix(s, n)) = n
           /\ \A i \in 1 .. n : Prefix(s, n)[i] = s[i]
<1>1. \A i \in 1 .. n : s[i] \in S
  BY ElementOfSeq, LenProperties
<1>2. 1 \in Int /\ n \in Int
  BY LenProperties
<1>3. /\ SubSeq(s, 1, n) \in Seq(S)
      /\ Len(SubSeq(s, 1, n)) = IF 1 =< n THEN n - 1 + 1 ELSE 0
      /\ \A i \in 1 .. n - 1 + 1 : SubSeq(s, 1, n)[i] = s[1 + i - 1]
  BY <1>1, <1>2, SubSeqProperties
<1>4. n \in Nat
  BY LenProperties
<1> QED BY <1>3, <1>4 DEF Prefix

\* A prefix of a prefix is a prefix.
LEMMA PrefixOfPrefix ==
    ASSUME NEW S, NEW s \in Seq(S), NEW n \in 0 .. Len(s), NEW m \in 0 .. n
    PROVE  Prefix(Prefix(s, n), m) = Prefix(s, m)
<1>0. Len(s) \in Nat /\ n \in Nat /\ m \in Nat /\ m \in 0 .. Len(s)
  BY LenProperties
<1>1. /\ Prefix(s, n) \in Seq(S) /\ Len(Prefix(s, n)) = n
      /\ \A i \in 1 .. n : Prefix(s, n)[i] = s[i]
  BY PrefixFacts
<1>2. /\ Prefix(s, m) \in Seq(S) /\ Len(Prefix(s, m)) = m
      /\ \A i \in 1 .. m : Prefix(s, m)[i] = s[i]
  BY <1>0, PrefixFacts
<1> DEFINE p == Prefix(s, n)
<1>3. p \in Seq(S) /\ m \in 0 .. Len(p)
  BY <1>1
<1> HIDE DEF p
<1>4. /\ Prefix(p, m) \in Seq(S) /\ Len(Prefix(p, m)) = m
      /\ \A i \in 1 .. m : Prefix(p, m)[i] = p[i]
  BY <1>3, PrefixFacts
<1>5. \A i \in 1 .. m : Prefix(p, m)[i] = Prefix(s, m)[i]
  BY <1>0, <1>1, <1>2, <1>4 DEF p
<1>6. Prefix(p, m) = Prefix(s, m)
  BY <1>2, <1>4, <1>5, SeqEqual
<1> QED BY <1>6 DEF p

\* Appending does not change the prefixes there were.
LEMMA PrefixOfAppend ==
    ASSUME NEW S, NEW s \in Seq(S), NEW x \in S, NEW n \in 0 .. Len(s)
    PROVE  Prefix(Append(s, x), n) = Prefix(s, n)
<1>1. /\ Append(s, x) \in Seq(S) /\ Len(Append(s, x)) = Len(s) + 1
      /\ \A i \in 1 .. Len(s) : Append(s, x)[i] = s[i]
      /\ Len(s) \in Nat
  BY AppendProperties, LenProperties
<1> DEFINE a == Append(s, x)
<1>2. a \in Seq(S) /\ n \in 0 .. Len(a) /\ n \in Nat
  BY <1>1
<1> HIDE DEF a
<1>3. /\ Prefix(a, n) \in Seq(S) /\ Len(Prefix(a, n)) = n
      /\ \A i \in 1 .. n : Prefix(a, n)[i] = a[i]
  BY <1>2, PrefixFacts
<1>4. /\ Prefix(s, n) \in Seq(S) /\ Len(Prefix(s, n)) = n
      /\ \A i \in 1 .. n : Prefix(s, n)[i] = s[i]
  BY PrefixFacts
<1>5. \A i \in 1 .. n : Prefix(a, n)[i] = Prefix(s, n)[i]
  BY <1>1, <1>2, <1>3, <1>4 DEF a
<1>6. Prefix(a, n) = Prefix(s, n)
  BY <1>3, <1>4, <1>5, SeqEqual
<1> QED BY <1>6 DEF a

\* The whole sequence is its longest prefix.
LEMMA PrefixFull ==
    ASSUME NEW S, NEW s \in Seq(S)
    PROVE  Prefix(s, Len(s)) = s
BY SubSeqFull DEF Prefix

-----------------------------------------------------------------------------
(* Types, and the lock.                                                    *)

\* The cases of a step, for proofs by cases.
LEMMA WriteSteps ==
    ASSUME [Next]_vars
    PROVE  \/ \E r \in Request : Prepare(r)
           \/ \E r \in Request : Edit(r)
           \/ \E p \in Process, r \in Request : Start(p, r)
           \/ \E p \in Process : Read(p)
           \/ \E p \in Process : Judge(p)
           \/ \E p \in Process : Compare(p)
           \/ \E p \in Process : Certify(p)
           \/ \E p \in Process : Replace(p)
           \/ \E p \in Process : Sync(p)
           \/ \E p \in Process : Unlock(p)
           \/ \E p \in Process : Crash(p)
           \/ ClearOrphan
           \/ PowerLoss
           \/ Tick
           \/ UNCHANGED vars
BY DEF Next, Step

\* The parts of the type that are not about sequences.
LEMMA TypeStep ==
    ASSUME TypeOK, [Next]_vars PROVE TypeOK'
<1> USE DEF TypeOK, Holding, Goto, Reply, Ledgers
<1>1. CASE \E r \in Request : Prepare(r)
  BY <1>1 DEF Prepare
<1>2. CASE \E r \in Request : Edit(r)
  <2>1. PICK r \in Request : Edit(r)
    BY <1>2
  <2>2. file' \in Ledgers
    BY <2>1, AppendProperties DEF Edit
  <2> QED BY <2>1, <2>2 DEF Edit
<1>3. CASE \E p \in Process, r \in Request : Start(p, r)
  <2>1. PICK p \in Process, r \in Request : Start(p, r)
    BY <1>3
  <2>2. req' \in [Process -> Request \cup {NoRequest}]
    BY <2>1 DEF Start
  <2>3. lock' \in Process \cup {Free, Orphan}
    BY <2>1 DEF Start
  <2>4. pc' \in [Process -> Holding \cup {"idle"}]
    BY ZenonT(60), <2>1 DEF Start
  <2>5. out' \in [Process -> {"none", "applied", "uncertain", "replayed", "rejected"}]
    BY <2>1 DEF Start
  <2>6. \A q \in Process : pc'[q] # "idle" => req'[q] \in Request
    BY <2>1 DEF Start
  <2>7. UNCHANGED <<file, durable, built, base, now, copy, applied>>
    BY <2>1 DEF Start
  <2> QED BY <2>2, <2>3, <2>4, <2>5, <2>6, <2>7
<1>4. CASE \E p \in Process : Read(p)
  BY <1>4 DEF Read
<1>5. CASE \E p \in Process : Judge(p)
  BY ZenonT(60), <1>5 DEF Judge
<1>6. CASE \E p \in Process : Compare(p)
  BY ZenonT(60), <1>6 DEF Compare
<1>7. CASE \E p \in Process : Certify(p)
  BY ZenonT(60), <1>7 DEF Certify
<1>8. CASE \E p \in Process : Replace(p)
  <2>1. PICK p \in Process : Replace(p)
    BY <1>8
  <2>2. req[p] \in Request /\ copy[p] \in Seq(Request)
    BY <2>1 DEF Replace
  <2>3. file' \in Ledgers
    BY <2>1, <2>2, AppendProperties DEF Replace
  <2> QED BY <2>1, <2>3 DEF Replace
<1>9. CASE \E p \in Process : Sync(p)
  <2>1. PICK p \in Process : Sync(p)
    BY <1>9
  <2>2. req[p] \in Request /\ copy[p] \in Seq(Request)
    BY <2>1 DEF Sync
  <2>3. Append(copy[p], req[p]) \in Ledgers
    BY <2>2, AppendProperties
  <2>4. durable' = Append(copy[p], req[p]) \/ durable' = durable
    BY <2>1 DEF Sync
  <2>5. durable' \in Ledgers
    BY <2>3, <2>4
  <2> QED BY <2>1, <2>2, <2>5 DEF Sync
<1>10. CASE \E p \in Process : Unlock(p)
  BY <1>10 DEF Unlock
<1>11. CASE \E p \in Process : Crash(p)
  BY <1>11 DEF Crash
<1>12. CASE ClearOrphan
  BY <1>12 DEF ClearOrphan
<1>13. CASE PowerLoss
  <2>1. PICK n \in Len(durable) .. Len(file) : file' = Prefix(file, n)
    BY <1>13 DEF PowerLoss
  <2>2. n \in 0 .. Len(file)
    BY <2>1, LenProperties
  <2>3. file' \in Ledgers /\ durable' \in Ledgers
    BY <1>13, <2>1, <2>2, PrefixFacts DEF PowerLoss
  <2> QED BY <1>13, <2>3 DEF PowerLoss
<1>14. CASE Tick
  BY <1>14 DEF Tick
<1>15. CASE UNCHANGED vars
  BY <1>15 DEF vars
<1> QED BY <1>1, <1>2, <1>3, <1>4, <1>5, <1>6, <1>7, <1>8, <1>9, <1>10,
           <1>11, <1>12, <1>13, <1>14, <1>15, WriteSteps

\* Every variable of the write protocol has its type: in particular a running
\* invocation has a request, and no step loses track of where it is.
THEOREM WriteTypeCorrect == Spec => []TypeOK
<1>1. Init => TypeOK
  BY WriteAssumption, EmptySeq DEF Init, TypeOK, Ledgers, Holding
<1> QED BY <1>1, TypeStep, PTL DEF Spec

\* A step of one invocation keeps the lock with its owner.
LEMMA OneWriterStep ==
    ASSUME TypeOK, OneWriter, [Next]_vars PROVE OneWriter'
<1> USE DEF TypeOK, OneWriter, Goto
<1>1. CASE UNCHANGED <<pc, lock>>
  BY <1>1
<1>2. CASE \E p \in Process, r \in Request : Start(p, r)
  <2>1. PICK p \in Process, r \in Request : Start(p, r)
    BY <1>2
  <2>2. CASE lock = Free
    <3>1. \A q \in Process : pc[q] = "idle"
      BY <2>2, WriteAssumption
    <3>2. lock' = p /\ pc' = [pc EXCEPT ![p] = "locked"]
      BY <2>1, <2>2 DEF Start
    <3> QED BY <3>1, <3>2 DEF Holding
  <2>3. CASE lock # Free
    BY <2>1, <2>3 DEF Start
  <2> QED BY <2>2, <2>3
<1>3. CASE \E p \in Process : Read(p) \/ Judge(p) \/ Compare(p) \/ Certify(p)
                                \/ Replace(p) \/ Sync(p)
  <2>1. PICK p \in Process : Read(p) \/ Judge(p) \/ Compare(p) \/ Certify(p)
                               \/ Replace(p) \/ Sync(p)
    BY <1>3
  <2>2. pc[p] \in Holding /\ lock' = lock
    BY <2>1 DEF Read, Judge, Compare, Certify, Replace, Sync, Holding
  <2>3. \A q \in Process \ {p} : pc'[q] = pc[q]
    BY <2>1 DEF Read, Judge, Compare, Certify, Replace, Sync
  <2> QED BY <2>2, <2>3 DEF Holding
<1>4. CASE \E p \in Process : Unlock(p)
  BY <1>4 DEF Unlock, Holding
<1>5. CASE \E p \in Process : Crash(p)
  BY <1>5, WriteAssumption DEF Crash, Holding
<1>6. CASE ClearOrphan
  BY <1>6, WriteAssumption DEF ClearOrphan
<1>7. CASE PowerLoss
  BY <1>7 DEF PowerLoss, Holding
<1> QED BY <1>1, <1>2, <1>3, <1>4, <1>5, <1>6, <1>7, WriteSteps
        DEF Prepare, Edit, Tick, vars

\* At most one invocation is past the creation of the lock file, and the lock
\* file is its own: the unconditional unlink removes nobody else's.
THEOREM OneWriterAlways == Spec => []OneWriter
<1>1. Init => OneWriter
  BY DEF Init, OneWriter, Holding
<1> QED BY <1>1, OneWriterStep, WriteTypeCorrect, PTL DEF Spec

-----------------------------------------------------------------------------
(* What an invocation knows at each of its steps.                          *)

\* s is a prefix of t.
Begins(s, t) ==
    /\ Len(s) =< Len(t)
    /\ \A i \in 1 .. Len(s) : t[i] = s[i]

\* Every event in the ledger, and of every running invocation, was prepared.
EventsBuilt ==
    /\ \A i \in 1 .. Len(file) : file[i] \in built
    /\ \A p \in Process : pc[p] # "idle" => req[p] \in built

\* The ledger that was read is still the beginning of the ledger, and does not
\* lack the event if the ledger has it, until the event is written.
ReadIsOld ==
    \A p \in Process :
       /\ pc[p] \in Holding \ {"locked"} => Begins(copy[p], file)
       /\ pc[p] \in {"read", "staged", "compared", "certified"} =>
             (Contains(file, req[p]) => Contains(copy[p], req[p]))

\* The event that is about to be written continues the ledger that was read,
\* which, once compared, is the ledger.
ReadyToWrite ==
    \A p \in Process :
       /\ pc[p] \in {"staged", "compared", "certified"} =>
             base[req[p]] = copy[p]
       /\ pc[p] \in {"compared", "certified"} => file = copy[p]

\* The event that was written sits right behind the ledger that was read, and
\* nothing behind it is durable.
Written ==
    \A p \in Process : pc[p] = "replaced" =>
       /\ Len(copy[p]) < Len(file)
       /\ file[Len(copy[p]) + 1] = req[p]
       /\ Len(durable) =< Len(copy[p]) + 1

\* What is durable is a prefix of the ledger.
DurableBegins == Begins(durable, file)

\* What Append returns.
LEMMA AppendFacts ==
    ASSUME NEW S, NEW s \in Seq(S), NEW x \in S
    PROVE  /\ Append(s, x) \in Seq(S)
           /\ Len(s) \in Nat
           /\ Len(Append(s, x)) = Len(s) + 1
           /\ \A i \in 1 .. Len(s) : Append(s, x)[i] = s[i]
           /\ Append(s, x)[Len(s) + 1] = x
BY AppendProperties, LenProperties

\* What a ledger contains after an append.
LEMMA ContainsAppend ==
    ASSUME NEW S, NEW s \in Seq(S), NEW x \in S, NEW y
    PROVE  Contains(Append(s, x), y) <=> Contains(s, y) \/ x = y
<1> DEFINE a == Append(s, x)
<1>1. /\ Len(s) \in Nat /\ Len(a) = Len(s) + 1
      /\ \A i \in 1 .. Len(s) : a[i] = s[i]
      /\ a[Len(s) + 1] = x
  BY AppendFacts
<1> HIDE DEF a
<1>2. Contains(a, y) <=> Contains(s, y) \/ x = y
  <2>1. Contains(s, y) => Contains(a, y)
    BY <1>1 DEF Contains
  <2>2. ASSUME x = y PROVE Contains(a, y)
    <3>1. Len(s) + 1 \in 1 .. Len(a) /\ a[Len(s) + 1] = y
      BY <1>1, <2>2
    <3> QED BY <3>1 DEF Contains
  <2>3. ASSUME Contains(a, y), x # y PROVE Contains(s, y)
    <3>1. PICK i \in 1 .. Len(a) : a[i] = y
      BY <2>3 DEF Contains
    <3>2. i \in 1 .. Len(s)
      BY <1>1, <2>3, <3>1
    <3> QED BY <1>1, <3>1, <3>2 DEF Contains
  <2> QED BY <2>1, <2>2, <2>3
<1> QED BY <1>2 DEF a

\* What begins a ledger begins it still after an append.
LEMMA BeginsAppend ==
    ASSUME NEW S, NEW s \in Seq(S), NEW t \in Seq(S), NEW x \in S, Begins(s, t)
    PROVE  Begins(s, Append(t, x))
<1> DEFINE a == Append(t, x)
<1>1. /\ Len(t) \in Nat /\ Len(s) \in Nat /\ Len(a) = Len(t) + 1
      /\ \A i \in 1 .. Len(t) : a[i] = t[i]
  BY AppendFacts, LenProperties
<1> HIDE DEF a
<1>2. Begins(s, a)
  BY <1>1 DEF Begins
<1> QED BY <1>2 DEF a

\* Where one invocation is after a step: it ended, it has just been started,
\* it took the step, or it stands still while an event is added at most.
LEMMA StepOf ==
    ASSUME TypeOK, OneWriter, [Next]_vars, NEW p \in Process
    PROVE  \/ pc'[p] = "idle"
           \/ pc'[p] = "locked" /\ req'[p] \in built /\ UNCHANGED <<file, durable>>
           \/ Step(p)
           \/ /\ pc[p] \in Holding
              /\ pc'[p] = pc[p] /\ req'[p] = req[p]
              /\ copy'[p] = copy[p] /\ out'[p] = out[p]
              /\ durable' = durable
              /\ \/ file' = file
                 \/ /\ pc[p] \notin {"compared", "certified"}
                    /\ \E r \in Request \ built : file' = Append(file, r)
<1> USE DEF TypeOK, Goto, Reply
<1> SUFFICES ASSUME pc'[p] # "idle", ~ Step(p)
             PROVE  \/ pc'[p] = "locked" /\ req'[p] \in built
                       /\ UNCHANGED <<file, durable>>
                    \/ /\ pc[p] \in Holding
                       /\ pc'[p] = pc[p] /\ req'[p] = req[p]
                       /\ copy'[p] = copy[p] /\ out'[p] = out[p]
                       /\ durable' = durable
                       /\ \/ file' = file
                          \/ /\ pc[p] \notin {"compared", "certified"}
                             /\ \E r \in Request \ built :
                                   file' = Append(file, r)
  OBVIOUS
<1>1. CASE \E r \in Request : Prepare(r)
  BY <1>1 DEF Prepare
<1>2. CASE \E r \in Request : Edit(r)
  BY <1>2 DEF Edit
<1>3. CASE \E q \in Process, r \in Request : Start(q, r)
  <2>1. PICK q \in Process, r \in Request : Start(q, r)
    BY <1>3
  <2>2. CASE q = p
    BY <2>1, <2>2 DEF Start
  <2>3. CASE q # p
    BY <2>1, <2>3 DEF Start
  <2> QED BY <2>2, <2>3
<1>4. CASE \E q \in Process : Step(q)
  <2>1. PICK q \in Process : Step(q)
    BY <1>4
  <2>2. q # p /\ pc[q] \in Holding
    BY <2>1 DEF Step, Read, Judge, Compare, Certify, Replace, Sync, Unlock,
                Holding
  <2>3. pc[p] = "idle"
    BY <2>2 DEF OneWriter
  <2>4. pc'[p] = pc[p]
    BY <2>1, <2>2 DEF Step, Read, Judge, Compare, Certify, Replace, Sync, Unlock
  <2> QED BY <2>3, <2>4
<1>5. CASE \E q \in Process : Crash(q)
  BY <1>5 DEF Crash
<1>6. CASE ClearOrphan
  BY <1>6 DEF ClearOrphan
<1>7. CASE PowerLoss
  BY <1>7 DEF PowerLoss
<1>8. CASE Tick
  BY <1>8 DEF Tick
<1>9. CASE UNCHANGED vars
  BY <1>9 DEF vars
<1> QED BY <1>1, <1>2, <1>3, <1>4, <1>5, <1>6, <1>7, <1>8, <1>9, WriteSteps
        DEF Step

-----------------------------------------------------------------------------
(* The strengthening holds, and with it the history is intact.             *)

\* How a step may change the ledger: it adds an event that was prepared on it,
\* or takes some of its end away in a power failure.
LEMMA FileSteps ==
    ASSUME TypeOK, EventsBuilt, ReadyToWrite, [Next]_vars
    PROVE  \/ file' = file
           \/ \E r \in Request : /\ file' = Append(file, r)
                                 /\ base'[r] = file
                                 /\ r \in built'
           \/ /\ PowerLoss
              /\ \E n \in 0 .. Len(file) : file' = Prefix(file, n)
<1> USE DEF TypeOK
<1>1. CASE \E r \in Request : Edit(r)
  BY <1>1 DEF Edit
<1>2. CASE \E p \in Process : Replace(p)
  <2>1. PICK p \in Process : Replace(p)
    BY <1>2
  <2>2. /\ req[p] \in Request /\ req[p] \in built
        /\ file = copy[p] /\ base[req[p]] = copy[p]
    BY <2>1 DEF Replace, EventsBuilt, ReadyToWrite
  <2>3. file' = Append(file, req[p]) /\ base' = base /\ built' = built
    BY <2>1, <2>2 DEF Replace
  <2> QED BY <2>2, <2>3
<1>3. CASE PowerLoss
  <2>1. PICK n \in Len(durable) .. Len(file) : file' = Prefix(file, n)
    BY <1>3 DEF PowerLoss
  <2>2. n \in 0 .. Len(file)
    BY <2>1, LenProperties
  <2> QED BY <1>3, <2>1, <2>2
<1> QED BY <1>1, <1>2, <1>3, WriteSteps
        DEF Prepare, Start, Read, Judge, Compare, Certify, Sync, Unlock,
            Crash, ClearOrphan, Tick, vars

\* An event that was prepared stays as it is.
LEMMA BuiltStays ==
    ASSUME TypeOK, [Next]_vars
    PROVE  /\ built \subseteq built'
           /\ \A r \in built : base'[r] = base[r]
BY WriteSteps
   DEF TypeOK, Prepare, Edit, Replace, Start, Read, Judge, Compare, Certify,
       Sync, Unlock, Crash, ClearOrphan, PowerLoss, Tick, vars

\* A step keeps the ledger to prepared events.
LEMMA EventsBuiltStep ==
    ASSUME TypeOK, OneWriter, EventsBuilt, ReadyToWrite, [Next]_vars
    PROVE  EventsBuilt'
<1>0. built \subseteq built'
  BY BuiltStays
<1>1. ASSUME NEW i \in 1 .. Len(file') PROVE file'[i] \in built'
  <2>1. CASE file' = file
    BY <1>0, <1>1, <2>1 DEF EventsBuilt
  <2>2. CASE \E r \in Request : /\ file' = Append(file, r)
                                /\ base'[r] = file
                                /\ r \in built'
    <3>1. PICK r \in Request : file' = Append(file, r) /\ r \in built'
      BY <2>2
    <3>2. /\ Len(file) \in Nat /\ Len(file') = Len(file) + 1
          /\ \A j \in 1 .. Len(file) : file'[j] = file[j]
          /\ file'[Len(file) + 1] = r
      BY <3>1, AppendFacts DEF TypeOK, Ledgers
    <3>3. CASE i \in 1 .. Len(file)
      BY <1>0, <3>2, <3>3 DEF EventsBuilt
    <3>4. CASE i = Len(file) + 1
      BY <3>1, <3>2, <3>4
    <3> QED BY <3>2, <3>3, <3>4
  <2>3. CASE PowerLoss /\ \E n \in 0 .. Len(file) : file' = Prefix(file, n)
    <3>1. PICK n \in 0 .. Len(file) : file' = Prefix(file, n)
      BY <2>3
    <3>2. /\ Len(file) \in Nat /\ Len(file') = n
          /\ \A j \in 1 .. n : file'[j] = file[j]
      BY ZenonT(60), <3>1, PrefixFacts, LenProperties DEF TypeOK, Ledgers
    <3>3. i \in 1 .. Len(file) /\ file'[i] = file[i]
      BY <3>2
    <3> QED BY <1>0, <3>3 DEF EventsBuilt
  <2> QED BY <2>1, <2>2, <2>3, FileSteps
<1>2. ASSUME NEW p \in Process, pc'[p] # "idle" PROVE req'[p] \in built'
  <2>1. CASE Step(p)
    BY <1>0, <2>1
       DEF EventsBuilt, Step, Read, Judge, Compare, Certify, Replace, Sync,
           Unlock
  <2>2. CASE pc[p] \in Holding /\ req'[p] = req[p]
    BY <1>0, <2>2 DEF EventsBuilt, Holding
  <2> QED BY <1>0, <1>2, <2>1, <2>2, StepOf
<1> QED BY <1>1, <1>2 DEF EventsBuilt

\* A step keeps the hash chain of the ledger intact.
LEMMA HistoryStep ==
    ASSUME TypeOK, EventsBuilt, ReadyToWrite, HistoryIntact, [Next]_vars
    PROVE  HistoryIntact'
<1>0. \A j \in 1 .. Len(file) : base'[file[j]] = Prefix(file, j - 1)
  BY BuiltStays DEF EventsBuilt, HistoryIntact
<1> SUFFICES ASSUME NEW i \in 1 .. Len(file')
             PROVE  base'[file'[i]] = Prefix(file', i - 1)
  BY DEF HistoryIntact
<1>1. CASE file' = file
  BY <1>0, <1>1
<1>2. CASE \E r \in Request : /\ file' = Append(file, r)
                              /\ base'[r] = file
                              /\ r \in built'
  <2>1. PICK r \in Request : file' = Append(file, r) /\ base'[r] = file
    BY <1>2
  <2>2. /\ Len(file) \in Nat /\ Len(file') = Len(file) + 1
        /\ \A j \in 1 .. Len(file) : file'[j] = file[j]
        /\ file'[Len(file) + 1] = r
    BY <2>1, AppendFacts DEF TypeOK, Ledgers
  <2>3. i - 1 \in 0 .. Len(file)
    BY <2>2
  <2>4. Prefix(file', i - 1) = Prefix(file, i - 1)
    BY <2>1, <2>3, PrefixOfAppend DEF TypeOK, Ledgers
  <2>5. CASE i \in 1 .. Len(file)
    BY <1>0, <2>2, <2>4, <2>5
  <2>6. CASE i = Len(file) + 1
    <3>1. i - 1 = Len(file)
      BY <2>2, <2>6
    <3>2. Prefix(file, i - 1) = file
      BY <3>1, PrefixFull DEF TypeOK, Ledgers
    <3> QED BY <2>1, <2>2, <2>4, <2>6, <3>2
  <2> QED BY <2>2, <2>5, <2>6
<1>3. CASE PowerLoss /\ \E n \in 0 .. Len(file) : file' = Prefix(file, n)
  <2>1. PICK n \in 0 .. Len(file) : file' = Prefix(file, n)
    BY <1>3
  <2>2. /\ Len(file) \in Nat /\ Len(file') = n
        /\ \A j \in 1 .. n : file'[j] = file[j]
    BY ZenonT(60), <2>1, PrefixFacts, LenProperties DEF TypeOK, Ledgers
  <2>3. i \in 1 .. Len(file) /\ file'[i] = file[i] /\ i - 1 \in 0 .. n
    BY <2>2
  <2>4. Prefix(file', i - 1) = Prefix(file, i - 1)
    BY <2>1, <2>3, PrefixOfPrefix DEF TypeOK, Ledgers
  <2> QED BY <1>0, <2>3, <2>4
<1> QED BY <1>1, <1>2, <1>3, FileSteps

\* A step of the invocation that holds the lock, and an event added meanwhile,
\* keep the ledger it has read a beginning of the ledger.
LEMMA ReadIsOldStep ==
    ASSUME TypeOK, OneWriter, EventsBuilt, ReadyToWrite, ReadIsOld, [Next]_vars
    PROVE  ReadIsOld'
<1> SUFFICES ASSUME NEW p \in Process
             PROVE  /\ pc'[p] \in Holding \ {"locked"} =>
                          Begins(copy'[p], file')
                    /\ pc'[p] \in {"read", "staged", "compared", "certified"} =>
                          (Contains(file', req'[p]) =>
                              Contains(copy'[p], req'[p]))
  BY DEF ReadIsOld
<1>0. /\ file \in Seq(Request) /\ copy[p] \in Seq(Request)
      /\ pc[p] \in Holding \ {"locked"} => Begins(copy[p], file)
      /\ pc[p] \in {"read", "staged", "compared", "certified"} =>
            (Contains(file, req[p]) => Contains(copy[p], req[p]))
      /\ pc[p] # "idle" => req[p] \in Request /\ req[p] \in built
  BY DEF TypeOK, Ledgers, ReadIsOld, EventsBuilt
<1>1. CASE pc'[p] \in {"idle", "locked"}
  BY <1>1 DEF Holding
<1>2. CASE /\ pc[p] \in Holding
           /\ pc'[p] = pc[p] /\ req'[p] = req[p]
           /\ copy'[p] = copy[p] /\ out'[p] = out[p]
           /\ durable' = durable
           /\ \/ file' = file
              \/ /\ pc[p] \notin {"compared", "certified"}
                 /\ \E r \in Request \ built : file' = Append(file, r)
  <2>1. CASE file' = file
    BY <1>0, <1>2, <2>1
  <2>2. CASE \E r \in Request \ built : file' = Append(file, r)
    <3>1. PICK r \in Request \ built : file' = Append(file, r)
      BY <2>2
    <3>2. pc[p] \in Holding \ {"locked"} => Begins(copy[p], file')
      BY <1>0, <3>1, BeginsAppend
    <3>3. Contains(file', req[p]) <=> Contains(file, req[p]) \/ r = req[p]
      BY <1>0, <3>1, ContainsAppend
    <3>4. r # req[p]
      BY <1>0, <1>2, <3>1 DEF Holding
    <3> QED BY <1>0, <1>2, <3>2, <3>3, <3>4
  <2> QED BY <1>2, <2>1, <2>2
<1>3. CASE Read(p)
  <2>1. copy'[p] = file /\ file' = file
    BY <1>3 DEF Read, TypeOK
  <2>2. Begins(file, file)
    BY <1>0, LenProperties DEF Begins
  <2> QED BY <2>1, <2>2
<1>4. CASE Judge(p) \/ Compare(p) \/ Certify(p)
  <2>1. /\ pc[p] \in {"read", "staged", "compared", "certified"}
        /\ file' = file /\ copy' = copy /\ req' = req
    BY <1>4 DEF Judge, Compare, Certify
  <2> QED BY <1>0, <2>1 DEF Holding
<1>5. CASE Replace(p)
  <2>1. /\ pc'[p] = "replaced" /\ copy'[p] = copy[p]
        /\ pc[p] = "certified" /\ file' = Append(copy[p], req[p])
    BY <1>5 DEF Replace, Goto, TypeOK
  <2>2. req[p] \in Request
    BY <1>0, <2>1
  <2>3. Begins(copy[p], copy[p])
    BY <1>0, LenProperties DEF Begins
  <2>4. Begins(copy[p], Append(copy[p], req[p]))
    BY <1>0, <2>2, <2>3, BeginsAppend
  <2> QED BY <2>1, <2>4
<1>6. CASE Sync(p) \/ Unlock(p)
  <2>1. /\ pc[p] \in {"replaced", "unlock"} /\ pc'[p] \in {"unlock", "idle"}
        /\ file' = file /\ copy' = copy
    BY <1>6 DEF Sync, Unlock, Goto, TypeOK
  <2> QED BY <1>0, <2>1 DEF Holding
<1> QED BY <1>1, <1>2, <1>3, <1>4, <1>5, <1>6, StepOf DEF Step

\* A step leaves an invocation that is about to write with an event that fits.
LEMMA ReadyToWriteStep ==
    ASSUME TypeOK, OneWriter, EventsBuilt, ReadyToWrite, [Next]_vars
    PROVE  ReadyToWrite'
<1> SUFFICES ASSUME NEW p \in Process
             PROVE  /\ pc'[p] \in {"staged", "compared", "certified"} =>
                          base'[req'[p]] = copy'[p]
                    /\ pc'[p] \in {"compared", "certified"} =>
                          file' = copy'[p]
  BY DEF ReadyToWrite
<1>0. /\ pc[p] \in {"staged", "compared", "certified"} =>
            base[req[p]] = copy[p]
      /\ pc[p] \in {"compared", "certified"} => file = copy[p]
      /\ pc[p] # "idle" => req[p] \in built
  BY DEF ReadyToWrite, EventsBuilt
<1>1. CASE pc'[p] \in {"idle", "locked"}
  BY <1>1
<1>2. CASE /\ pc[p] \in Holding
           /\ pc'[p] = pc[p] /\ req'[p] = req[p]
           /\ copy'[p] = copy[p] /\ out'[p] = out[p]
           /\ durable' = durable
           /\ \/ file' = file
              \/ /\ pc[p] \notin {"compared", "certified"}
                 /\ \E r \in Request \ built : file' = Append(file, r)
  <2>1. base'[req[p]] = base[req[p]]
    BY <1>0, <1>2, BuiltStays DEF Holding
  <2> QED BY <1>0, <1>2, <2>1
<1>3. CASE Step(p)
  BY <1>0, <1>3 DEF Step, Read, Judge, Compare, Certify, Replace, Sync,
                    Unlock, Goto, TypeOK
<1> QED BY <1>1, <1>2, <1>3, StepOf

\* A step leaves the event that was written where it was written.
LEMMA WrittenStep ==
    ASSUME TypeOK, OneWriter, ReadyToWrite, Written, DurableBegins, [Next]_vars
    PROVE  Written'
<1> SUFFICES ASSUME NEW p \in Process, pc'[p] = "replaced"
             PROVE  /\ Len(copy'[p]) < Len(file')
                    /\ file'[Len(copy'[p]) + 1] = req'[p]
                    /\ Len(durable') =< Len(copy'[p]) + 1
  BY DEF Written
<1>0. /\ file \in Seq(Request) /\ copy[p] \in Seq(Request)
      /\ Len(file) \in Nat /\ Len(copy[p]) \in Nat /\ Len(durable) \in Nat
  BY LenProperties DEF TypeOK, Ledgers
<1>1. CASE Step(p)
  <2>1. Replace(p)
    BY <1>1 DEF Step, Read, Judge, Compare, Certify, Replace, Sync, Unlock,
                Goto, TypeOK
  <2>2. /\ pc[p] = "certified" /\ file' = Append(copy[p], req[p])
        /\ copy' = copy /\ req' = req /\ durable' = durable
    BY <2>1 DEF Replace
  <2>3. req[p] \in Request /\ file = copy[p]
    BY <2>2 DEF TypeOK, ReadyToWrite
  <2>4. /\ Len(file') = Len(copy[p]) + 1
        /\ file'[Len(copy[p]) + 1] = req[p]
    BY <1>0, <2>2, <2>3, AppendFacts
  <2>5. Len(durable) =< Len(copy[p])
    BY <2>3 DEF DurableBegins, Begins
  <2> QED BY <1>0, <2>2, <2>4, <2>5
<1>2. CASE /\ pc[p] \in Holding
           /\ pc'[p] = pc[p] /\ req'[p] = req[p]
           /\ copy'[p] = copy[p] /\ out'[p] = out[p]
           /\ durable' = durable
           /\ \/ file' = file
              \/ /\ pc[p] \notin {"compared", "certified"}
                 /\ \E r \in Request \ built : file' = Append(file, r)
  <2>1. /\ Len(copy[p]) < Len(file) /\ file[Len(copy[p]) + 1] = req[p]
        /\ Len(durable) =< Len(copy[p]) + 1
    BY <1>2 DEF Written
  <2>2. CASE \E r \in Request : file' = Append(file, r)
    <3>1. /\ Len(file') = Len(file) + 1
          /\ \A i \in 1 .. Len(file) : file'[i] = file[i]
      BY <1>0, <2>2, AppendFacts
    <3> QED BY SMTT(40), <1>0, <1>2, <2>1, <3>1
  <2> QED BY <1>2, <2>1, <2>2
<1> QED BY <1>1, <1>2, StepOf

\* How a step may change what is durable.
LEMMA DurableSteps ==
    ASSUME TypeOK, [Next]_vars
    PROVE  \/ /\ durable' = durable
              /\ applied' = applied
              /\ ~ PowerLoss
           \/ \E p \in Process : /\ Sync(p)
                                 /\ durable' = Append(copy[p], req[p])
                                 /\ applied' = applied \cup {req[p]}
           \/ /\ PowerLoss
              /\ durable' = file'
              /\ applied' = applied
              /\ \E n \in Len(durable) .. Len(file) : file' = Prefix(file, n)
<1>1. CASE \E p \in Process : Sync(p)
  BY <1>1 DEF Sync, PowerLoss, Goto, TypeOK
<1>2. CASE PowerLoss
  BY <1>2 DEF PowerLoss
<1> QED BY <1>1, <1>2, WriteSteps
        DEF Prepare, Edit, Replace, Start, Read, Judge, Compare, Certify,
            Unlock, Crash, ClearOrphan, Tick, vars

\* Nothing durable is lost, and what is durable begins the ledger.
LEMMA DurableStep ==
    ASSUME TypeOK, EventsBuilt, ReadyToWrite, ReadIsOld, Written,
           DurableBegins, [Next]_vars
    PROVE  DurableBegins' /\ Begins(durable, durable')
<1>0. /\ file \in Seq(Request) /\ durable \in Seq(Request)
      /\ Len(file) \in Nat /\ Len(durable) \in Nat
      /\ Len(durable) =< Len(file)
      /\ \A i \in 1 .. Len(durable) : file[i] = durable[i]
  BY LenProperties DEF TypeOK, Ledgers, DurableBegins, Begins
<1>1. CASE durable' = durable /\ ~ PowerLoss
  <2>1. Begins(durable, durable)
    BY <1>0 DEF Begins
  <2>2. CASE file' = file
    BY <1>1, <2>1, <2>2 DEF DurableBegins
  <2>3. CASE \E r \in Request : file' = Append(file, r)
    <3>1. Begins(durable, file')
      BY <1>0, <2>3, BeginsAppend DEF DurableBegins
    <3> QED BY <1>1, <2>1, <3>1 DEF DurableBegins
  <2> QED BY <1>1, <2>2, <2>3, FileSteps
<1>2. CASE \E p \in Process : /\ Sync(p)
                              /\ durable' = Append(copy[p], req[p])
  <2>1. PICK p \in Process : Sync(p) /\ durable' = Append(copy[p], req[p])
    BY <1>2
  <2>2. /\ pc[p] = "replaced" /\ file' = file
        /\ req[p] \in Request /\ copy[p] \in Seq(Request)
        /\ Len(copy[p]) \in Nat
    BY <2>1, LenProperties DEF Sync, TypeOK, Ledgers
  <2>3. /\ Len(copy[p]) < Len(file) /\ file[Len(copy[p]) + 1] = req[p]
        /\ Len(durable) =< Len(copy[p]) + 1
    BY <2>2 DEF Written
  <2>4. \A i \in 1 .. Len(copy[p]) : file[i] = copy[p][i]
    BY <2>2 DEF ReadIsOld, Begins, Holding
  <2>5. /\ Len(durable') = Len(copy[p]) + 1
        /\ \A i \in 1 .. Len(copy[p]) : durable'[i] = copy[p][i]
        /\ durable'[Len(copy[p]) + 1] = req[p]
    BY <2>1, <2>2, AppendFacts
  <2>6. \A i \in 1 .. Len(durable') : file[i] = durable'[i]
    BY SMTT(40), <2>2, <2>3, <2>4, <2>5
  <2>7. Len(durable') =< Len(file')
    BY <1>0, <2>2, <2>3, <2>5
  <2>8. Len(durable) =< Len(durable')
    BY <2>3, <2>5
  <2>9. \A i \in 1 .. Len(durable) : durable'[i] = durable[i]
    BY <1>0, <2>2, <2>5, <2>6, <2>8
  <2> QED BY <2>2, <2>6, <2>7, <2>8, <2>9 DEF DurableBegins, Begins
<1>3. CASE /\ durable' = file'
           /\ \E n \in Len(durable) .. Len(file) : file' = Prefix(file, n)
  <2>1. PICK n \in Len(durable) .. Len(file) : file' = Prefix(file, n)
    BY <1>3
  <2>2. n \in 0 .. Len(file)
    BY <1>0, <2>1
  <2>3. Len(file') = n /\ \A i \in 1 .. n : file'[i] = file[i]
    BY <1>0, <2>1, <2>2, PrefixFacts
  <2>4. Len(durable') =< Len(file') /\ Len(durable) =< Len(durable')
    BY <1>0, <1>3, <2>1, <2>3
  <2>5. \A i \in 1 .. Len(durable) : durable'[i] = durable[i]
    BY <1>0, <1>3, <2>1, <2>3
  <2> QED BY <1>3, <2>4, <2>5 DEF DurableBegins, Begins
<1> QED BY <1>1, <1>2, <1>3, DurableSteps

\* What a ledger contains, every ledger that it begins contains.
LEMMA BeginsContains ==
    ASSUME NEW S, NEW s \in Seq(S), NEW t \in Seq(S), NEW x,
           Begins(s, t), Contains(s, x)
    PROVE  Contains(t, x)
<1>1. PICK i \in 1 .. Len(s) : s[i] = x
  BY DEF Contains
<1>2. i \in 1 .. Len(t) /\ t[i] = x
  BY <1>1, LenProperties DEF Begins
<1> QED BY <1>2 DEF Contains

\* A step takes no applied event back, and a new one is durable.
LEMMA AppliedStep ==
    ASSUME TypeOK, TypeOK', EventsBuilt, ReadyToWrite, ReadIsOld, Written,
           DurableBegins, AppliedIsDurable, [Next]_vars
    PROVE  AppliedIsDurable'
<1>0. /\ file' \in Seq(Request) /\ durable \in Seq(Request)
      /\ durable' \in Seq(Request)
  BY DEF TypeOK, Ledgers
<1>1. ASSUME NEW r \in applied' PROVE Contains(durable', r)
  <2>1. CASE r \in applied
    BY <1>0, <2>1, DurableStep, BeginsContains DEF AppliedIsDurable
  <2>2. CASE \E p \in Process : /\ Sync(p)
                                /\ durable' = Append(copy[p], req[p])
                                /\ r = req[p]
    <3>1. PICK p \in Process : /\ Sync(p)
                               /\ durable' = Append(copy[p], req[p])
                               /\ r = req[p]
      BY <2>2
    <3>2. req[p] \in Request /\ copy[p] \in Seq(Request)
      BY <3>1 DEF Sync, TypeOK, Ledgers
    <3> QED BY <3>1, <3>2, ContainsAppend
  <2> QED BY <1>1, <2>1, <2>2, DurableSteps
<1>2. ASSUME NEW r \in applied' PROVE Contains(file', r)
  BY <1>0, <1>1, <1>2, DurableStep, BeginsContains DEF DurableBegins
<1> QED BY <1>1, <1>2 DEF AppliedIsDurable

\* A step leaves every reply that was rendered true.
LEMMA RepliesStep ==
    ASSUME TypeOK, OneWriter, EventsBuilt, ReadIsOld, Written,
           RepliesAreTruthful, [Next]_vars
    PROVE  RepliesAreTruthful'
<1> SUFFICES ASSUME NEW p \in Process, pc'[p] = "unlock"
             PROVE  IF out'[p] = "rejected"
                      THEN Contains(file', req'[p]) => Contains(copy'[p], req'[p])
                      ELSE Contains(file', req'[p])
  BY DEF RepliesAreTruthful
<1>0. /\ file \in Seq(Request) /\ copy[p] \in Seq(Request)
      /\ Len(file) \in Nat /\ Len(copy[p]) \in Nat
      /\ pc[p] # "idle" => req[p] \in Request /\ req[p] \in built
  BY LenProperties DEF TypeOK, Ledgers, EventsBuilt
<1>1. CASE /\ pc[p] \in Holding
           /\ pc'[p] = pc[p] /\ req'[p] = req[p]
           /\ copy'[p] = copy[p] /\ out'[p] = out[p]
           /\ durable' = durable
           /\ \/ file' = file
              \/ /\ pc[p] \notin {"compared", "certified"}
                 /\ \E r \in Request \ built : file' = Append(file, r)
  <2>1. IF out[p] = "rejected"
          THEN Contains(file, req[p]) => Contains(copy[p], req[p])
          ELSE Contains(file, req[p])
    BY <1>1 DEF RepliesAreTruthful
  <2>2. Contains(file', req[p]) <=> Contains(file, req[p])
    <3>1. CASE file' = file
      BY <3>1
    <3>2. CASE \E r \in Request \ built : file' = Append(file, r)
      <4>1. PICK r \in Request \ built : file' = Append(file, r)
        BY <3>2
      <4>2. Contains(file', req[p]) <=> Contains(file, req[p]) \/ r = req[p]
        BY <1>0, <4>1, ContainsAppend
      <4> QED BY <1>0, <1>1, <4>2
    <3> QED BY <1>1, <3>1, <3>2
  <2> QED BY <1>1, <2>1, <2>2
<1>2. CASE Judge(p) \/ Compare(p) \/ Certify(p)
  <2>1. /\ pc[p] \in {"read", "staged", "compared", "certified"}
        /\ file' = file /\ copy' = copy /\ req' = req
        /\ out'[p] = "rejected" \/ Contains(copy[p], req[p])
    BY <1>2 DEF Judge, Compare, Certify, Goto, Reply, TypeOK
  <2>2. /\ Contains(file, req[p]) => Contains(copy[p], req[p])
        /\ Begins(copy[p], file)
    BY <2>1 DEF ReadIsOld, Holding
  <2>3. Contains(copy[p], req[p]) => Contains(file, req[p])
    BY <1>0, <2>2, BeginsContains
  <2> QED BY <2>1, <2>2, <2>3
<1>3. CASE Sync(p)
  <2>1. /\ pc[p] = "replaced" /\ file' = file /\ req' = req
        /\ out'[p] # "rejected"
    BY <1>3 DEF Sync, Reply, TypeOK
  <2>2. Len(copy[p]) < Len(file) /\ file[Len(copy[p]) + 1] = req[p]
    BY <2>1 DEF Written
  <2>3. Len(copy[p]) + 1 \in 1 .. Len(file)
    BY <1>0, <2>2
  <2>4. Contains(file, req[p])
    BY <2>2, <2>3 DEF Contains
  <2> QED BY <2>1, <2>4
<1>4. CASE Read(p) \/ Replace(p) \/ Unlock(p)
  BY <1>4 DEF Read, Replace, Unlock, Goto, TypeOK
<1> QED BY <1>1, <1>2, <1>3, <1>4, StepOf DEF Step

\* A step of an invocation only adds to the ledger.
LEMMA UpdateStep ==
    ASSUME TypeOK, EventsBuilt, ReadyToWrite, [Next]_vars,
           \E p \in Process : pc'[p] # "idle"
    PROVE  Len(file') >= Len(file) /\ Prefix(file', Len(file)) = file
<1>0. /\ file \in Seq(Request) /\ Len(file) \in Nat
      /\ Prefix(file, Len(file)) = file
  BY LenProperties, PrefixFull DEF TypeOK, Ledgers
<1>1. CASE file' = file
  BY <1>0, <1>1
<1>2. CASE \E r \in Request : file' = Append(file, r)
  <2>1. PICK r \in Request : file' = Append(file, r)
    BY <1>2
  <2>2. Len(file') = Len(file) + 1
    BY <1>0, <2>1, AppendFacts
  <2>3. Len(file) \in 0 .. Len(file)
    BY <1>0
  <2>4. Prefix(file', Len(file)) = Prefix(file, Len(file))
    BY <1>0, <2>1, <2>3, PrefixOfAppend
  <2> QED BY <1>0, <2>2, <2>4
<1>3. CASE PowerLoss
  BY <1>3 DEF PowerLoss
<1> QED BY <1>1, <1>2, <1>3, FileSteps

-----------------------------------------------------------------------------
(* The theorems.                                                           *)

\* The inductive invariant.
WriteInv ==
    /\ TypeOK
    /\ OneWriter
    /\ EventsBuilt
    /\ ReadIsOld
    /\ ReadyToWrite
    /\ Written
    /\ DurableBegins
    /\ HistoryIntact
    /\ AppliedIsDurable
    /\ RepliesAreTruthful

LEMMA WriteInvHolds == Spec => []WriteInv
<1>1. Init => WriteInv
  <2> SUFFICES ASSUME Init PROVE WriteInv
    OBVIOUS
  <2>1. TypeOK
    BY WriteAssumption, EmptySeq DEF Init, TypeOK, Ledgers, Holding
  <2>2. Len(file) = 0 /\ Len(durable) = 0
    BY EmptySeq DEF Init
  <2>3. OneWriter /\ ReadIsOld /\ ReadyToWrite /\ Written /\ RepliesAreTruthful
    BY DEF Init, OneWriter, ReadIsOld, ReadyToWrite, Written,
           RepliesAreTruthful, Holding
  <2>4. EventsBuilt /\ DurableBegins /\ HistoryIntact /\ AppliedIsDurable
    BY <2>2 DEF Init, EventsBuilt, DurableBegins, Begins, HistoryIntact,
                AppliedIsDurable
  <2> QED BY <2>1, <2>3, <2>4 DEF WriteInv
<1>2. WriteInv /\ [Next]_vars => WriteInv'
  <2> SUFFICES ASSUME WriteInv, [Next]_vars PROVE WriteInv'
    OBVIOUS
  <2>1. TypeOK' /\ OneWriter'
    BY TypeStep, OneWriterStep DEF WriteInv
  <2>2. EventsBuilt' /\ HistoryIntact'
    BY EventsBuiltStep, HistoryStep DEF WriteInv
  <2>3. ReadIsOld' /\ ReadyToWrite' /\ Written'
    BY ReadIsOldStep, ReadyToWriteStep, WrittenStep DEF WriteInv
  <2>4. DurableBegins'
    BY DurableStep DEF WriteInv
  <2>5. AppliedIsDurable' /\ RepliesAreTruthful'
    BY <2>1, AppliedStep, RepliesStep DEF WriteInv
  <2> QED BY <2>1, <2>2, <2>3, <2>4, <2>5 DEF WriteInv
<1> QED BY <1>1, <1>2, PTL DEF Spec

\* The hash chain of the ledger is intact whatever crashes, is retried, is
\* edited by hand or is taken back by a power failure.
THEOREM HistoryAlwaysIntact == Spec => []HistoryIntact
<1>1. WriteInv => HistoryIntact
  BY DEF WriteInv
<1> QED BY <1>1, WriteInvHolds, PTL

\* An event that an invocation reported as applied is never lost.
THEOREM AppliedAlwaysDurable == Spec => []AppliedIsDurable
<1>1. WriteInv => AppliedIsDurable
  BY DEF WriteInv
<1> QED BY <1>1, WriteInvHolds, PTL

\* A reply is true when it is rendered and stays so until the lock is removed.
THEOREM RepliesAlwaysTruthful == Spec => []RepliesAreTruthful
<1>1. WriteInv => RepliesAreTruthful
  BY DEF WriteInv
<1> QED BY <1>1, WriteInvHolds, PTL

\* No update of the ledger is overwritten by an invocation that had not seen
\* it.
THEOREM UpdatesNeverLost == Spec => NoLostUpdate
<1>1. WriteInv /\ [Next]_vars =>
        [(\E p \in Process : pc'[p] # "idle") =>
            Len(file') >= Len(file) /\ Prefix(file', Len(file)) = file]_vars
  BY UpdateStep DEF WriteInv
<1> QED BY <1>1, WriteInvHolds, PTL DEF Spec, NoLostUpdate

-----------------------------------------------------------------------------
(* The file protocol implements the append-only log.                       *)

\* How an event is added: a new one, on top of the ledger.
LEMMA AbstractAppend ==
    ASSUME WriteInv, [Next]_vars, NEW r \in Request, file' = Append(file, r),
           durable' = durable
    PROVE  Abstract!AppendRequest(r)
<1>0. file \in Seq(Request) /\ Len(file) \in Nat
  BY LenProperties DEF WriteInv, TypeOK, Ledgers
<1>1. ASSUME NEW i \in 1 .. Len(file), file[i] = r PROVE FALSE
  <2>1. /\ HistoryIntact /\ HistoryIntact'
        /\ Len(file') = Len(file) + 1
        /\ file'[i] = r /\ file'[Len(file) + 1] = r
    <3>1. /\ Len(file') = Len(file) + 1 /\ file'[Len(file) + 1] = r
          /\ file'[i] = file[i]
      BY <1>0, AppendFacts
    <3> QED BY <1>1, <3>1, HistoryStep DEF WriteInv
  <2>2. /\ i \in 1 .. Len(file') /\ Len(file) + 1 \in 1 .. Len(file')
        /\ (Len(file) + 1) - 1 = Len(file)
    BY <1>0, <2>1
  <2>3. base'[r] = Prefix(file', i - 1) /\ base'[r] = Prefix(file', Len(file))
    BY <2>1, <2>2 DEF HistoryIntact
  <2>4. i - 1 \in 0 .. Len(file) /\ Len(file) \in 0 .. Len(file)
    BY <1>0
  <2>5. /\ Prefix(file', i - 1) = Prefix(file, i - 1)
        /\ Prefix(file', Len(file)) = Prefix(file, Len(file))
    BY <1>0, <2>4, PrefixOfAppend
  <2>6. /\ Len(Prefix(file, i - 1)) = i - 1
        /\ Len(Prefix(file, Len(file))) = Len(file)
    BY <1>0, <2>4, PrefixFacts
  <2>7. i - 1 = Len(file)
    BY <2>3, <2>5, <2>6
  <2> QED BY <1>0, <2>7
<1>2. Len(durable') = Len(durable)
  OBVIOUS
<1> QED BY <1>1, <1>2 DEF Abstract!AppendRequest, Abstract!Contains

\* Every step of the protocol is a step of the log or none.
LEMMA LogStep ==
    ASSUME WriteInv, [Next]_vars PROVE [Abstract!Next]_(Abstract!vars)
<1> USE DEF WriteInv
<1>0. /\ file \in Seq(Request) /\ durable \in Seq(Request)
      /\ Len(file) \in Nat /\ Len(durable) \in Nat
      /\ Len(durable) =< Len(file)
  BY LenProperties DEF TypeOK, Ledgers, DurableBegins, Begins
<1>1. CASE durable' = durable /\ ~ PowerLoss
  <2>1. CASE file' = file
    BY <1>1, <2>1 DEF Abstract!vars
  <2>2. CASE \E r \in Request : file' = Append(file, r)
    <3>1. PICK r \in Request : file' = Append(file, r)
      BY <2>2
    <3>2. Abstract!AppendRequest(r)
      BY <1>1, <3>1, AbstractAppend
    <3> QED BY <3>2 DEF Abstract!Next
  <2> QED BY <1>1, <2>1, <2>2, FileSteps
<1>2. CASE \E p \in Process : Sync(p)
  <2>1. file' = file
    BY <1>2 DEF Sync
  <2>2. DurableBegins' /\ Begins(durable, durable')
    BY DurableStep
  <2>3. TypeOK'
    BY TypeStep
  <2>4. durable' \in Seq(Request)
    BY <2>3 DEF TypeOK, Ledgers
  <2>5. Len(durable') \in Nat
    BY <2>4, LenProperties
  <2>6. Len(durable') \in Len(durable) .. Len(file)
    BY <1>0, <2>1, <2>2, <2>5 DEF DurableBegins, Begins
  <2>7. Len(durable') \in 0 .. Len(file)
    BY <1>0, <2>6
  <2>8. Abstract!Secure(Len(durable'))
    BY <2>1, <2>6 DEF Abstract!Secure
  <2> QED BY <2>7, <2>8 DEF Abstract!Next
<1>3. CASE /\ durable' = file'
           /\ \E n \in Len(durable) .. Len(file) : file' = Prefix(file, n)
  <2>1. PICK n \in Len(durable) .. Len(file) : file' = Prefix(file, n)
    BY <1>3
  <2>2. n \in 0 .. Len(file)
    BY <1>0, <2>1
  <2>3. Len(durable') = n
    BY <1>0, <1>3, <2>1, <2>2, PrefixFacts
  <2>4. Abstract!Lose(n)
    BY <2>1, <2>3 DEF Abstract!Lose, Prefix
  <2> QED BY <2>2, <2>4 DEF Abstract!Next
<1> QED BY <1>1, <1>2, <1>3, DurableSteps

\* The ledger file is an append-only log: every event is added once, on the
\* log it was prepared for, and a durable prefix is never lost.
THEOREM WriteImplementsLog == Spec => ImplementsLog
<1>1. Init => Abstract!Init
  <2>1. Len(<< >>) = 0
    BY EmptySeq
  <2> QED BY <2>1 DEF Init, Abstract!Init
<1>2. WriteInv /\ [Next]_vars => [Abstract!Next]_(Abstract!vars)
  BY LogStep
<1> QED BY <1>1, <1>2, WriteInvHolds, PTL
        DEF Spec, ImplementsLog, Abstract!Spec

-----------------------------------------------------------------------------
(* Every invocation ends, and the lock is somebody's.                      *)

\* How many steps an invocation is from its end at most.
StepsLeft == [locked |-> 7, read |-> 6, staged |-> 5, compared |-> 4,
              certified |-> 3, replaced |-> 2, unlock |-> 1, idle |-> 0]

\* A running invocation comes closer to its end with each step of its own and
\* goes no step back by anybody else's.
Approaches ==
    \A p \in Process :
       pc[p] # "idle" =>
          \/ pc'[p] = pc[p] /\ ~ Step(p)
          \/ StepsLeft[pc'[p]] < StepsLeft[pc[p]]

\* A lock file is either an orphan, which an operator may remove, or that of
\* an invocation that is running and will come to its finally clause; none
\* outlives a regular end.
LockIsOwned == lock \in Process => pc[lock] \in Holding

LEMMA OwnStep ==
    ASSUME TypeOK, NEW p \in Process, Step(p)
    PROVE  /\ \A q \in Process \ {p} : pc'[q] = pc[q]
           /\ pc'[p] # pc[p] /\ StepsLeft[pc'[p]] < StepsLeft[pc[p]]
           /\ lock' # lock => pc[p] = "unlock" /\ lock' = Free
<1>1. \A q \in Process \ {p} : pc'[q] = pc[q]
  BY DEF TypeOK, Step, Read, Judge, Compare, Certify, Replace, Sync, Unlock,
         Goto
<1>2. \/ pc[p] = "locked" /\ pc'[p] = "read"
      \/ pc[p] = "read" /\ pc'[p] \in {"staged", "unlock"}
      \/ pc[p] = "staged" /\ pc'[p] \in {"compared", "unlock"}
      \/ pc[p] = "compared" /\ pc'[p] \in {"certified", "unlock"}
      \/ pc[p] = "certified" /\ pc'[p] = "replaced"
      \/ pc[p] = "replaced" /\ pc'[p] = "unlock"
      \/ pc[p] = "unlock" /\ pc'[p] = "idle"
  BY DEF TypeOK, Step, Read, Judge, Compare, Certify, Replace, Sync, Unlock,
         Goto
<1>3. lock' # lock => pc[p] = "unlock" /\ lock' = Free
  BY DEF Step, Read, Judge, Compare, Certify, Replace, Sync, Unlock
<1> QED BY <1>1, <1>2, <1>3 DEF StepsLeft

LEMMA LockIsOwnedStep ==
    ASSUME TypeOK, OneWriter, LockIsOwned, [Next]_vars
    PROVE  LockIsOwned'
<1> USE DEF TypeOK, LockIsOwned, Goto
<1>1. CASE \E p \in Process : Step(p)
  <2>1. PICK p \in Process : Step(p)
    BY <1>1
  <2>2. CASE pc[p] = "unlock"
    <3>1. lock' = Free
      BY <2>1, <2>2 DEF Step, Read, Judge, Compare, Certify, Replace, Sync,
                        Unlock
    <3> QED BY <3>1, WriteAssumption
  <2>3. CASE pc[p] # "unlock"
    <3>1. lock' = lock /\ pc'[p] \in Holding
      BY <2>1, <2>3 DEF Step, Read, Judge, Compare, Certify, Replace, Sync,
                        Unlock, Holding
    <3> QED BY <2>1, <3>1, OwnStep
  <2> QED BY <2>2, <2>3
<1>2. CASE \E p \in Process, r \in Request : Start(p, r)
  BY <1>2 DEF Start, Holding
<1>3. CASE \E p \in Process : Crash(p)
  BY <1>3, WriteAssumption DEF Crash
<1>4. CASE ClearOrphan \/ PowerLoss
  BY <1>4, WriteAssumption DEF ClearOrphan, PowerLoss
<1>5. CASE UNCHANGED <<pc, lock>>
  BY <1>5
<1> QED BY <1>1, <1>2, <1>3, <1>4, <1>5 DEF Next, Prepare, Edit, Tick, vars

LEMMA ApproachesStep ==
    ASSUME TypeOK, [Next]_vars PROVE [Approaches]_vars
<1> SUFFICES ASSUME NEW q \in Process, pc[q] # "idle"
             PROVE  \/ pc'[q] = pc[q] /\ ~ Step(q)
                    \/ StepsLeft[pc'[q]] < StepsLeft[pc[q]]
  BY DEF Approaches
<1>1. CASE Step(q)
  BY <1>1, OwnStep
<1>2. CASE pc'[q] = "idle"
  BY <1>2 DEF TypeOK, StepsLeft, Holding
<1>3. CASE ~ Step(q) /\ pc'[q] # "idle"
  <2>1. CASE \E p \in Process : Step(p)
    BY <1>3, <2>1, OwnStep
  <2>2. CASE \E p \in Process, r \in Request : Start(p, r)
    BY <2>2, <1>3 DEF TypeOK, Start, Goto
  <2>3. CASE \E p \in Process : Crash(p)
    BY <2>3, <1>3 DEF TypeOK, Crash, Goto
  <2>4. CASE PowerLoss
    BY <2>4, <1>3 DEF PowerLoss
  <2>5. CASE UNCHANGED pc
    BY <1>3, <2>5
  <2> QED BY <2>1, <2>2, <2>3, <2>4, <2>5
          DEF Next, Prepare, Edit, Tick, ClearOrphan, vars
<1> QED BY <1>1, <1>2, <1>3

\* What the liveness of the write path rests on: no path through
\* command_apply_event repeats itself or forgets the lock, whatever the other
\* invocations, crashes and edits do.  That a running invocation can always
\* take its next step is left to the run.
THEOREM InvocationsApproachTheEnd == Spec => []LockIsOwned /\ [][Approaches]_vars
<1>1. Init => LockIsOwned
  BY WriteAssumption DEF Init, LockIsOwned
<1>2. Spec => []LockIsOwned
  BY <1>1, LockIsOwnedStep, OneWriterAlways, WriteTypeCorrect, PTL DEF Spec
<1>3. Spec => [][Approaches]_vars
  BY ApproachesStep, WriteTypeCorrect, PTL DEF Spec
<1> QED BY <1>2, <1>3

=============================================================================
