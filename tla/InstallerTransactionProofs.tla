--------------------- MODULE InstallerTransactionProofs ---------------------
(***************************************************************************)
(* Theorems about InstallerTransaction, for any number of installers,      *)
(* artifacts, receipts, edits and failed renames.                          *)
(***************************************************************************)
EXTENDS InstallerTransaction, TLAPS

\* The numbering of the entries.
LEMMA Entries ==
    /\ NumArtifacts \in Nat /\ NumReceipts \in Nat /\ Last \in Nat
    /\ NumArtifacts < Last /\ NumArtifacts >= 1
    /\ Entry = 1 .. Last /\ Artifact \subseteq Entry /\ Receipt \subseteq Entry
    /\ \A i \in Entry : i \in Artifact <=> i <= NumArtifacts
    /\ \A i \in Entry : i \in Receipt <=> i > NumArtifacts
BY InstallerAssumption DEF Entry, Artifact, Receipt, Last

\* What an installer brings is a version or nothing, and never a person's.
LEMMA Targets ==
    ASSUME NEW p \in Process, NEW i \in Entry
    PROVE  /\ Target(p, i) \in Content /\ Target(p, i) # Mine
           /\ i \in Receipt => Target(p, i) # Absent
BY InstallerAssumption DEF Target, Content, Receipt

\* The cases of a step, for proofs by cases.
LEMMA InstallerSteps ==
    ASSUME [Next]_vars
    PROVE  \/ \E p \in Process : Step(p)
           \/ \E p \in Process : Interrupt(p) \/ InterruptIdle(p) \/ Kill(p)
           \/ ClearLock \/ Edit
           \/ UNCHANGED vars
BY DEF Next

-----------------------------------------------------------------------------
(* The type.                                                               *)

\* The control part of TypeOK.
ControlOK ==
    /\ lock \in Process \cup {Free}
    /\ pc \in [Process -> Steps \cup {"idle", "ended", "killed"}]
    /\ at \in [Process -> 0 .. Last]
    /\ critical \in [Process -> BOOLEAN]
    /\ result \in [Process -> Result]
    /\ \A p \in Process : pc[p] \in Looping => at[p] \in Entry

LEMMA RecoverType ==
    ASSUME TypeOK, NEW p \in Process, NEW k \in 0 .. Last,
           NEW how \in {"failed", "unconfirmed", "interrupted"},
           Recover(p, k, how), UNCHANGED lock,
           critical' \in [Process -> BOOLEAN]
    PROVE  ControlOK'
BY DEF TypeOK, ControlOK, Recover, Goto, Finish, Steps, Applying, Undoing,
       Looping, Result

LEMMA AdvanceType ==
    ASSUME TypeOK, NEW p \in Process, at[p] \in Entry, Advance(p),
           UNCHANGED <<lock, critical, result>>
    PROVE  ControlOK'
<1>1. /\ at[p] = Last => at'[p] = at[p]
      /\ at[p] # Last => at'[p] = at[p] + 1
      /\ at'[p] \in Entry /\ at'[p] \in 0 .. Last
  BY Entries DEF TypeOK, Advance
<1>2. at' \in [Process -> 0 .. Last] /\ \A q \in Process : q # p => at'[q] = at[q]
  BY <1>1 DEF TypeOK, Advance
<1>3. /\ pc' \in [Process -> Steps \cup {"idle", "ended", "killed"}]
      /\ \A q \in Process : q # p => pc'[q] = pc[q]
  BY DEF TypeOK, Advance, Goto, Steps, Applying
<1> QED BY <1>1, <1>2, <1>3 DEF TypeOK, ControlOK

LEMMA StepControl ==
    ASSUME TypeOK, NEW p \in Process, Step(p)
    PROVE  ControlOK'
<1> USE DEF TypeOK, ControlOK, Steps, Applying, Looping, Undoing, Result, Goto,
            Finish
<1>1. CASE Acquire(p)
  BY ZenonT(60), <1>1, Entries DEF Acquire
<1>2. CASE Plan(p)
  BY ZenonT(60), <1>2, Entries DEF Plan
<1>3. CASE Stage(p)
  BY <1>3, Entries DEF Stage
<1>4. CASE StageFails(p)
  BY <1>4, Entries DEF StageFails
<1>5. CASE Check(p)
  <2>1. at[p] \in Entry /\ at[p] - 1 \in 0 .. Last
    BY <1>5, Entries DEF Check
  <2>2. CASE Recover(p, at[p] - 1, "failed")
    BY <1>5, <2>1, <2>2, RecoverType DEF Check
  <2>3. CASE UNCHANGED result /\ Advance(p)
    BY <1>5, <2>1, <2>3, AdvanceType DEF Check
  <2>4. CASE UNCHANGED <<result, at>> /\ Goto(p, "backup")
    BY <1>5, <2>1, <2>4 DEF Check
  <2> QED BY <1>5, <2>2, <2>3, <2>4 DEF Check
<1>6. CASE BackUp(p)
  <2>1. at[p] \in Entry
    BY <1>6 DEF BackUp
  <2>2. CASE Advance(p)
    BY <1>6, <2>1, <2>2, AdvanceType DEF BackUp
  <2>3. CASE UNCHANGED at /\ Goto(p, "place")
    BY <1>6, <2>1, <2>3 DEF BackUp
  <2> QED BY <1>6, <2>2, <2>3 DEF BackUp
<1>7. CASE BackUpFails(p)
  <2>1. at[p] - 1 \in 0 .. Last
    BY <1>7, Entries DEF BackUpFails
  <2> QED BY <1>7, <2>1, RecoverType DEF BackUpFails
<1>8. CASE Place(p)
  <2>1. at[p] \in Entry
    BY <1>8 DEF Place
  <2> QED BY <1>8, <2>1, AdvanceType DEF Place
<1>9. CASE PlaceFails(p)
  <2>1. at[p] \in 0 .. Last
    BY <1>9, Entries DEF PlaceFails
  <2> QED BY <1>9, <2>1, RecoverType DEF PlaceFails
<1>10. CASE Reappeared(p)
  <2>1. at[p] - 1 \in 0 .. Last
    BY <1>10, Entries DEF Reappeared
  <2>2. critical' \in [Process -> BOOLEAN]
    BY <1>10 DEF Reappeared, Alarm
  <2> QED BY <1>10, <2>1, <2>2, RecoverType DEF Reappeared
<1>11. CASE Verify(p)
  <2>1. NumArtifacts \in 0 .. Last
    BY Entries
  <2>2. CASE Recover(p, NumArtifacts, "failed")
    BY <1>11, <2>1, <2>2, RecoverType DEF Verify
  <2>3. CASE UNCHANGED <<at, result>> /\ Goto(p, "check")
    BY <1>11, <2>3 DEF Verify
  <2> QED BY <1>11, <2>2, <2>3 DEF Verify
<1>12. CASE Confirm(p)
  <2>1. Last \in 0 .. Last
    BY Entries
  <2>2. CASE Recover(p, Last, "unconfirmed")
    BY <1>12, <2>1, <2>2, RecoverType DEF Confirm
  <2>3. CASE UNCHANGED <<at, result>> /\ Goto(p, "discard")
    BY <1>12, <2>3 DEF Confirm
  <2> QED BY <1>12, <2>2, <2>3 DEF Confirm
<1>13. CASE VerifyFails(p)
  <2>1. NumArtifacts \in 0 .. Last /\ Last \in 0 .. Last
    BY Entries
  <2> QED BY <1>13, <2>1, RecoverType DEF VerifyFails
<1>14. CASE Discard(p)
  BY ZenonT(60), <1>14, Entries DEF Discard, Alarm
<1>15. CASE Tidy(p)
  BY <1>15, Entries DEF Tidy
<1>16. CASE Release(p)
  BY <1>16, Entries DEF Release
<1>17. CASE Undo(p)
  <2>1. at[p] \in Entry /\ at[p] - 1 \in 0 .. Last
    BY <1>17, Entries DEF Undo
  <2>2. \/ UNCHANGED at /\ Goto(p, "restore")
        \/ UNCHANGED pc /\ Previous(p)
    BY <1>17 DEF Undo
  <2> QED BY ZenonT(60), <1>17, <2>1, <2>2 DEF Undo, Previous
<1>18. CASE UndoFails(p)
  BY SMTT(40), <1>18, Entries DEF UndoFails, GiveUp, Alarm, Previous
<1>19. CASE Restore(p)
  BY SMTT(40), <1>19, Entries DEF Restore, Previous
<1>20. CASE RestoreFails(p)
  BY <1>20, Entries DEF RestoreFails, GiveUp, Alarm, Previous
<1>21. CASE Undone(p)
  BY <1>21, Entries DEF Undone
<1>22. CASE Recovered(p)
  BY <1>22, Entries DEF Recovered
<1> QED BY <1>1, <1>2, <1>3, <1>4, <1>5, <1>6, <1>7, <1>8, <1>9, <1>10, <1>11,
           <1>12, <1>13, <1>14, <1>15, <1>16, <1>17, <1>18, <1>19, <1>20, <1>21, <1>22 DEF Step

\* The files part.
FilesOK ==
    /\ live \in [Entry -> Content]
    /\ copy \in [Process -> [Entry -> Content]]
    /\ backup \in [Process -> [Entry -> Content]]

LEMMA CleanUpType ==
    ASSUME TypeOK, NEW p \in Process, CleanUp(p)
    PROVE  /\ copy' \in [Process -> [Entry -> Content]]
           /\ backup' \in [Process -> [Entry -> Content]]
<1>1. \A i \in Entry :
         /\ copy[p][i] \in Content /\ backup[p][i] \in Content
         /\ Absent \in Content
  BY DEF TypeOK, Content
<1>2. [i \in Entry |-> IF Swept(p, i) /\ copy[p][i] = Target(p, i)
                        THEN Absent ELSE copy[p][i]] \in [Entry -> Content]
  BY <1>1
<1>3. [i \in Entry |-> IF i \in Receipt /\ Swept(p, i) /\ backup[p][i] = orig[p][i]
                        THEN Absent ELSE backup[p][i]] \in [Entry -> Content]
  BY <1>1
<1> QED BY <1>2, <1>3 DEF TypeOK, CleanUp

LEMMA PutBackType ==
    ASSUME TypeOK, NEW p \in Process, NEW i \in Entry, PutBack(p, i)
    PROVE  live' \in [Entry -> Content] /\ backup' \in [Process -> [Entry -> Content]]
<1>1. backup[p] \in [Entry -> Content] /\ Absent \in Content
  BY DEF TypeOK, Content
<1> QED BY <1>1 DEF TypeOK, PutBack

LEMMA MoveAsideType ==
    ASSUME TypeOK, NEW p \in Process, NEW i \in Entry, MoveAside(p, i)
    PROVE  live' \in [Entry -> Content] /\ copy' \in [Process -> [Entry -> Content]]
<1>1. copy[p] \in [Entry -> Content] /\ Absent \in Content /\ live[i] \in Content
  BY DEF TypeOK, Content
<1> QED BY <1>1 DEF TypeOK, MoveAside

LEMMA StepFiles ==
    ASSUME TypeOK, NEW p \in Process, Step(p)
    PROVE  FilesOK'
<1>0. Absent \in Content /\ \A i \in Entry : Target(p, i) \in Content
  BY Targets DEF Content
<1>a. /\ live \in [Entry -> Content]
      /\ copy \in [Process -> [Entry -> Content]]
      /\ backup \in [Process -> [Entry -> Content]]
  BY DEF TypeOK
<1>b. pc[p] \in {"check", "backup", "place", "verify", "restore"} => at[p] \in Entry
  BY DEF TypeOK, Looping
<1>1. CASE Acquire(p)
  BY <1>1, <1>a DEF Acquire, files, FilesOK
<1>2. CASE Plan(p)
  BY <1>2, <1>a DEF Plan, files, FilesOK
<1>3. CASE Stage(p)
  <2>1. [i \in Entry |-> IF Concerned(p, i) THEN Target(p, i) ELSE Absent]
            \in [Entry -> Content]
    BY <1>0
  <2> QED BY <1>3, <1>a, <2>1 DEF Stage, FilesOK
<1>4. CASE StageFails(p)
  BY <1>4, <1>a DEF StageFails, files, FilesOK
<1>5. CASE Check(p)
  BY <1>5, <1>a DEF Check, files, FilesOK
<1>6. CASE BackUp(p)
  <2>1. at[p] \in Entry /\ live[at[p]] \in Content
    BY <1>6, <1>a, <1>b DEF BackUp
  <2>2. CASE UNCHANGED <<live, backup>>
    BY <1>6, <1>a, <2>2 DEF BackUp, FilesOK
  <2>3. CASE /\ live' = [live EXCEPT ![at[p]] = Absent]
             /\ backup' = [backup EXCEPT ![p][at[p]] = live[at[p]]]
    BY <1>6, <1>0, <1>a, <2>1, <2>3 DEF BackUp, FilesOK
  <2> QED BY <1>6, <2>2, <2>3 DEF BackUp
<1>7. CASE BackUpFails(p)
  BY <1>7, <1>a DEF BackUpFails, files, FilesOK
<1>8. CASE Place(p)
  <2>1. at[p] \in Entry /\ copy[p][at[p]] \in Content
    BY <1>8, <1>a, <1>b DEF Place
  <2> QED BY <1>8, <1>0, <1>a, <2>1 DEF Place, FilesOK
<1>9. CASE PlaceFails(p)
  BY <1>9, <1>a DEF PlaceFails, files, FilesOK
<1>10. CASE Reappeared(p)
  BY <1>10, <1>a DEF Reappeared, files, FilesOK
<1>11. CASE Verify(p)
  BY <1>11, <1>a DEF Verify, files, FilesOK
<1>12. CASE Confirm(p)
  BY <1>12, <1>a DEF Confirm, files, FilesOK
<1>13. CASE VerifyFails(p)
  BY <1>13, <1>a DEF VerifyFails, files, FilesOK
<1>14. CASE Discard(p)
  <2>1. [i \in Entry |-> IF i \in Artifact THEN Absent ELSE backup[p][i]]
            \in [Entry -> Content]
    BY <1>0, <1>a
  <2> QED BY <1>14, <1>a, <2>1 DEF Discard, FilesOK
<1>15. CASE Tidy(p)
  BY <1>15, <1>a, CleanUpType DEF Tidy, FilesOK
<1>16. CASE Release(p)
  BY <1>16, <1>a DEF Release, files, FilesOK
<1>17. CASE Undo(p)
  <2>1. at[p] \in Entry
    BY <1>17, Entries DEF Undo, TypeOK
  <2>2. CASE MoveAside(p, at[p]) /\ UNCHANGED backup
    BY <1>a, <2>1, <2>2, MoveAsideType DEF FilesOK
  <2>3. CASE PutBack(p, at[p]) /\ UNCHANGED copy
    BY <1>a, <2>1, <2>3, PutBackType DEF FilesOK
  <2>4. CASE UNCHANGED files
    BY <1>a, <2>4 DEF files, FilesOK
  <2> QED BY <1>17, <2>2, <2>3, <2>4 DEF Undo
<1>18. CASE UndoFails(p)
  BY <1>18, <1>a DEF UndoFails, files, FilesOK
<1>19. CASE Restore(p)
  <2>1. at[p] \in Entry
    BY <1>19, <1>b DEF Restore
  <2> QED BY <1>19, <1>a, <2>1, PutBackType DEF Restore, FilesOK
<1>20. CASE RestoreFails(p)
  BY <1>20, <1>a DEF RestoreFails, files, FilesOK
<1>21. CASE Undone(p)
  <2>1. CASE CleanUp(p)
    BY <1>21, <1>a, <2>1, CleanUpType DEF Undone, FilesOK
  <2>2. CASE UNCHANGED <<copy, backup>>
    BY <1>21, <1>a, <2>2 DEF Undone, FilesOK
  <2> QED BY <1>21, <2>1, <2>2 DEF Undone
<1>22. CASE Recovered(p)
  BY <1>22, <1>a DEF Recovered, files, FilesOK
<1> QED BY <1>1, <1>2, <1>3, <1>4, <1>5, <1>6, <1>7, <1>8, <1>9, <1>10, <1>11,
           <1>12, <1>13, <1>14, <1>15, <1>16, <1>17, <1>18, <1>19, <1>20, <1>21, <1>22 DEF Step

\* What the plan and the transaction arrays hold, and the bounds.
TableOK ==
    /\ orig \in [Process -> [Entry -> Content]]
    /\ status \in [Process -> [Entry -> Status]]
    /\ edits \in 0 .. MaxEdits /\ faults \in 0 .. MaxFaults

LEMMA MarkType ==
    ASSUME TypeOK, NEW p \in Process, NEW i, NEW s \in Status, Mark(p, i, s)
    PROVE  status' \in [Process -> [Entry -> Status]]
<1>1. status[p] \in [Entry -> Status]
  BY DEF TypeOK
<1> QED BY <1>1 DEF TypeOK, Mark

LEMMA GiveUpType ==
    ASSUME TypeOK, NEW p \in Process, NEW i, GiveUp(p, i)
    PROVE  status' \in [Process -> [Entry -> Status]]
<1>1. "recovery-failed" \in Status /\ status \in [Process -> [Entry -> Status]]
  BY DEF Status, TypeOK
<1> QED BY <1>1, MarkType DEF GiveUp

LEMMA StepTable ==
    ASSUME TypeOK, NEW p \in Process, Step(p)
    PROVE  TableOK'
<1>a. /\ orig \in [Process -> [Entry -> Content]]
      /\ status \in [Process -> [Entry -> Status]]
      /\ edits \in 0 .. MaxEdits /\ faults \in 0 .. MaxFaults
      /\ live \in [Entry -> Content]
  BY DEF TypeOK
<1>b. /\ MaxFaults \in Nat
      /\ faults < MaxFaults /\ faults' = faults + 1 => faults' \in 0 .. MaxFaults
  BY <1>a, InstallerAssumption
<1>c. "pending" \in Status /\ "backed-up" \in Status /\ "replaced" \in Status
      /\ "created" \in Status /\ "rolled-back" \in Status
      /\ "recovery-failed" \in Status
  BY DEF Status
<1>d. [i \in Entry |-> "pending"] \in [Entry -> Status] /\ Nothing \in [Entry -> Content]
  BY <1>c DEF Nothing, Content
<1>1. CASE Acquire(p)
  BY <1>1, <1>a DEF Acquire, TableOK
<1>2. CASE Plan(p)
  BY <1>2, <1>a DEF Plan, TableOK
<1>3. CASE Stage(p)
  BY <1>3, <1>a DEF Stage, TableOK
<1>4. CASE StageFails(p)
  BY <1>4, <1>a, <1>b DEF StageFails, TableOK, Fault
<1>5. CASE Check(p)
  BY <1>5, <1>a DEF Check, TableOK
<1>6. CASE BackUp(p)
  BY <1>6, <1>a, <1>c, MarkType DEF BackUp, TableOK
<1>7. CASE BackUpFails(p)
  BY <1>7, <1>a, <1>b DEF BackUpFails, TableOK, Fault
<1>8. CASE Place(p)
  <2>1. (IF backup[p][at[p]] # Absent THEN "replaced" ELSE "created") \in Status
    BY <1>c
  <2> QED BY <1>8, <1>a, <2>1, MarkType DEF Place, TableOK
<1>9. CASE PlaceFails(p)
  BY <1>9, <1>a, <1>b DEF PlaceFails, TableOK, Fault
<1>10. CASE Reappeared(p)
  BY <1>10, <1>a, <1>c, MarkType DEF Reappeared, TableOK
<1>11. CASE Verify(p)
  BY <1>11, <1>a DEF Verify, TableOK
<1>12. CASE Confirm(p)
  BY <1>12, <1>a DEF Confirm, TableOK
<1>13. CASE VerifyFails(p)
  BY <1>13, <1>a, <1>b DEF VerifyFails, TableOK, Fault
<1>14. CASE Discard(p)
  BY <1>14, <1>a DEF Discard, TableOK
<1>15. CASE Tidy(p)
  BY <1>15, <1>a DEF Tidy, TableOK
<1>16. CASE Release(p)
  BY <1>16, <1>a, <1>d DEF Release, TableOK
<1>17. CASE Undo(p)
  BY <1>17, <1>a, <1>c, MarkType DEF Undo, PutBack, TableOK
<1>18. CASE UndoFails(p)
  BY <1>18, <1>a, <1>b, GiveUpType DEF UndoFails, Fault, TableOK
<1>19. CASE Restore(p)
  BY <1>19, <1>a, <1>c, MarkType DEF Restore, PutBack, TableOK
<1>20. CASE RestoreFails(p)
  BY <1>20, <1>a, <1>b, GiveUpType DEF RestoreFails, Fault, TableOK
<1>21. CASE Undone(p)
  BY <1>21, <1>a DEF Undone, TableOK
<1>22. CASE Recovered(p)
  BY <1>22, <1>a DEF Recovered, TableOK
<1> QED BY <1>1, <1>2, <1>3, <1>4, <1>5, <1>6, <1>7, <1>8, <1>9, <1>10, <1>11,
           <1>12, <1>13, <1>14, <1>15, <1>16, <1>17, <1>18, <1>19, <1>20, <1>21, <1>22 DEF Step

LEMMA TypeStep ==
    ASSUME TypeOK, [Next]_vars
    PROVE  TypeOK'
<1>0. ControlOK' /\ FilesOK' /\ TableOK' => TypeOK'
  BY DEF TypeOK, ControlOK, FilesOK, TableOK
<1>1. CASE \E p \in Process : Step(p)
  BY <1>0, <1>1, StepControl, StepFiles, StepTable
<1>2. CASE \E p \in Process : Interrupt(p)
  <2>1. PICK p \in Process : Interrupt(p)
    BY <1>2
  <2>2. Last \in 0 .. Last /\ critical' \in [Process -> BOOLEAN]
    BY <2>1, Entries DEF Interrupt, TypeOK
  <2>3. ControlOK'
    BY <2>1, <2>2, RecoverType DEF Interrupt
  <2> QED BY <1>0, <2>1, <2>3 DEF Interrupt, files, TypeOK, FilesOK, TableOK
<1>3. CASE \E p \in Process : InterruptIdle(p)
  <2>1. PICK p \in Process : InterruptIdle(p)
    BY <1>3
  <2>2. FilesOK'
    BY <2>1, CleanUpType DEF InterruptIdle, TypeOK, FilesOK
  <2>3. ControlOK'
    BY <2>1 DEF InterruptIdle, TypeOK, ControlOK, Goto, Finish, Steps, Result,
                Looping
  <2> QED BY <1>0, <2>1, <2>2, <2>3 DEF InterruptIdle, TypeOK, TableOK
<1>4. CASE \E p \in Process : Kill(p)
  <2>1. PICK p \in Process : Kill(p)
    BY <1>4
  <2>2. ControlOK'
    BY <2>1, Entries DEF Kill, TypeOK, ControlOK, Goto, Finish, Steps, Result,
                         Looping
  <2> QED BY <1>0, <2>1, <2>2 DEF Kill, files, TypeOK, FilesOK, TableOK
<1>5. CASE ClearLock
  BY <1>5 DEF ClearLock, files, TypeOK
<1>6. CASE Edit
  <2>1. edits' \in 0 .. MaxEdits
    BY <1>6, InstallerAssumption DEF Edit, TypeOK
  <2>2. live' \in [Entry -> Content]
    BY <1>6 DEF Edit, TypeOK, Content
  <2> QED BY <1>6, <2>1, <2>2 DEF Edit, TypeOK
<1>7. CASE UNCHANGED vars
  BY <1>7 DEF vars, files, TypeOK
<1> QED BY <1>1, <1>2, <1>3, <1>4, <1>5, <1>6, <1>7, InstallerSteps

LEMMA TypeInit ==
    ASSUME Init
    PROVE  TypeOK
<1>1. PICK v \in Version \cup {Absent} :
         live = [i \in Entry |-> IF i \in Artifact THEN Ships(v, i) ELSE v]
  BY DEF Init
<1>2. \A i \in Entry : (IF i \in Artifact THEN Ships(v, i) ELSE v) \in Content
  BY <1>1, InstallerAssumption DEF Ships, Content
<1>3. live \in [Entry -> Content] /\ Nothing \in [Entry -> Content]
  BY <1>1, <1>2 DEF Nothing, Content
<1>4. [i \in Entry |-> "pending"] \in [Entry -> Status]
  BY DEF Status
<1>5. ControlOK
  <2>1. 0 \in 0 .. Last /\ "idle" \notin Looping
    BY Entries DEF Looping
  <2> QED BY <2>1 DEF Init, ControlOK, Result
<1>6. FilesOK
  BY <1>3 DEF Init, FilesOK
<1>7. TableOK
  BY <1>3, <1>4, InstallerAssumption DEF Init, TableOK
<1> QED BY <1>5, <1>6, <1>7 DEF TypeOK, ControlOK, FilesOK, TableOK

\* Every variable keeps its type, and a loop that looks at an entry is at one
\* (indices of TX_DSTS and RX_PATHS).
THEOREM InstallerTypeCorrect == Spec => []TypeOK
<1>1. Init => TypeOK
  BY TypeInit
<1>2. TypeOK /\ [Next]_vars => TypeOK'
  BY TypeStep
<1> QED BY <1>1, <1>2, PTL DEF Spec

-----------------------------------------------------------------------------
(* What an installer knows while it works.  All of it is about one         *)
(* installer p, and the files, which only the lock's holder and people     *)
(* touch.                                                                  *)

InFlight == Applying \cup Undoing \cup {"discard"}

\* The lock is held from Acquire to Release, or to the ClearLock after a kill.
LockHeld(p) ==
    /\ pc[p] \in Steps => lock = p
    /\ lock = p => pc[p] \in Steps \cup {"killed"}

Calm(p) ==
    pc[p] \in Applying \cup {"idle", "locked", "stage", "discard", "tidy"} =>
        ~ critical[p]

Pristine(p) ==
    pc[p] \in {"idle", "locked", "stage"} =>
        /\ status[p] = [i \in Entry |-> "pending"]
        /\ backup[p] = Nothing

\* A copy is the installer's own file; it only gives up aloud.
CopyKnown(p) ==
    \A i \in Entry : /\ copy[p][i] \in {Absent, Target(p, i)}
                     /\ status[p][i] = "recovery-failed" => critical[p]

\* Nothing is aside of an entry that has not been moved or is back.
Aside(p) ==
    pc[p] \in InFlight =>
        \A i \in Entry : status[p][i] \in {"pending", "created", "rolled-back"} =>
            backup[p][i] = Absent

\* How the status of an entry tells where its original and its new file are.
Kept(p) ==
    pc[p] \in InFlight /\ ~ critical[p] =>
        \A i \in Entry : Concerned(p, i) =>
            /\ status[p][i] \in {"pending", "rolled-back"} =>
                 live[i] \in {orig[p][i], Mine}
            /\ status[p][i] \in {"backed-up", "replaced"} =>
                 backup[p][i] \in {orig[p][i], Mine} \ {Absent}
            /\ status[p][i] = "backed-up" => live[i] \in {Absent, Mine}
            /\ status[p][i] = "created" => orig[p][i] = Absent
            /\ status[p][i] \in {"replaced", "created"} =>
                 \/ live[i] \in {Target(p, i), Mine}
                 \/ pc[p] = "restore" /\ at[p] = i

Copied(p) ==
    pc[p] \in Applying =>
        \A i \in Entry :
            Concerned(p, i) /\ status[p][i] \in {"pending", "backed-up"} =>
                copy[p][i] = Target(p, i)

Done(p, i) ==
    \/ status[p][i] \in {"replaced", "created"}
    \/ /\ Target(p, i) = Absent
       /\ \/ status[p][i] = "backed-up"
          \/ status[p][i] = "pending" /\ orig[p][i] = Absent

\* The loop that applies has done the entries before the current one and not
\* touched those after it.
Front(p) ==
    pc[p] \in {"check", "backup", "place", "verify"} =>
        /\ \A i \in Entry : i < at[p] /\ Concerned(p, i) => Done(p, i)
        /\ \A i \in Entry : i > at[p] => status[p][i] = "pending"
        /\ \/ status[p][at[p]] = "pending"
           \/ pc[p] = "place" /\ status[p][at[p]] = "backed-up"
        /\ pc[p] \in {"backup", "place"} => Concerned(p, at[p])
        /\ pc[p] = "place" /\ status[p][at[p]] = "pending" =>
             orig[p][at[p]] = Absent
        /\ pc[p] = "verify" => at[p] = NumArtifacts + 1

Complete(p) ==
    /\ pc[p] \in {"confirm", "discard"} =>
         \A i \in Entry : Concerned(p, i) => Done(p, i)
    /\ pc[p] = "tidy" => IsNew(p)

\* The loop that undoes has undone the entries after the current one.
Backward(p) ==
    pc[p] \in Undoing =>
        /\ result[p] \in {"failed", "unconfirmed", "interrupted"}
        /\ \A i \in Entry : i > at[p] /\ (i \in Receipt \/ ~ critical[p]) =>
             status[p][i] \in {"pending", "rolled-back", "recovery-failed"}
        /\ pc[p] = "recovered" => at[p] = 0
        /\ pc[p] = "restore" =>
             live[at[p]] = Absent /\ status[p][at[p]] = "replaced"

Settled(p) ==
    pc[p] = "clean" /\ result[p] # "untouched" =>
        /\ critical[p] \/ IsOld(p) \/ IsNew(p)
        /\ result[p] = "done" => IsNew(p)

PayloadFirst(p) ==
    /\ lock = p /\ ~ critical[p]
    /\ \E r \in Receipt : /\ status[p][r] \in {"replaced", "created"}
                          /\ live[r] = Target(p, r)
    => \A i \in Artifact : Concerned(p, i) => live[i] \in {Target(p, i), Mine}

Knows(p) ==
    /\ LockHeld(p) /\ Calm(p) /\ Pristine(p) /\ CopyKnown(p) /\ Aside(p)
    /\ Kept(p) /\ Copied(p) /\ Front(p) /\ Complete(p) /\ Backward(p)
    /\ Settled(p) /\ PayloadFirst(p)

InstallerInv == TypeOK /\ \A p \in Process : Knows(p)

LEMMA Numbers ==
    ASSUME TypeOK, NEW p \in Process
    PROVE  /\ at[p] \in 0 .. Last /\ at[p] \in Nat
           /\ pc[p] \in Looping => at[p] \in Entry
BY Entries DEF TypeOK

\* What an installer plans on decides what takes part.
LEMMA PlanFixed ==
    ASSUME NEW p \in Process, orig'[p] = orig[p]
    PROVE  \A i : /\ Concerned(p, i)' <=> Concerned(p, i)
                  /\ Target(p, i)' = Target(p, i)
BY DEF Concerned, Ships, Target

LEMMA ReceiptsTakePart ==
    ASSUME NEW p \in Process, NEW i \in Receipt
    PROVE  Concerned(p, i) /\ i \in Entry /\ i \notin Artifact
BY DEF Concerned, Receipt

\* A step that leaves files and status alone.
LEMMA QuietKeeps ==
    ASSUME NEW p \in Process, Knows(p),
           UNCHANGED <<live, copy, backup, lock, orig, status, critical>>
    PROVE  /\ CopyKnown(p)' /\ PayloadFirst(p)'
           /\ IsOld(p)' <=> IsOld(p)
           /\ IsNew(p)' <=> IsNew(p)
           /\ \A i : Done(p, i)' <=> Done(p, i)
           /\ pc[p] \in InFlight \ {"restore"} => Aside(p)' /\ Kept(p)'
<1>1. \A i : /\ Concerned(p, i)' <=> Concerned(p, i)
             /\ Target(p, i)' = Target(p, i)
  BY PlanFixed
<1>2. CopyKnown(p)'
  BY <1>1 DEF Knows, CopyKnown
<1>3. PayloadFirst(p)'
  BY <1>1 DEF Knows, PayloadFirst
<1>4. (IsOld(p)' <=> IsOld(p)) /\ (IsNew(p)' <=> IsNew(p))
  BY <1>1 DEF IsOld, IsNew
<1>5. \A i : Done(p, i)' <=> Done(p, i)
  BY <1>1 DEF Done
<1>6. ASSUME pc[p] \in InFlight \ {"restore"}
      PROVE  Aside(p)' /\ Kept(p)'
  BY <1>1, <1>6 DEF Knows, Aside, Kept
<1> QED BY <1>2, <1>3, <1>4, <1>5, <1>6

\* What has been done is in place, or a person has written over it.
LEMMA DoneIsNew ==
    ASSUME NEW p \in Process, Kept(p), pc[p] \in InFlight \ {"restore"},
           ~ critical[p], NEW i \in Entry, Concerned(p, i), Done(p, i)
    PROVE  live[i] \in {Target(p, i), Mine}
BY DEF Kept, Done

LEMMA AllDone ==
    ASSUME NEW p \in Process, Knows(p), pc[p] \in {"discard", "tidy"}
    PROVE  IsNew(p)
<1>1. CASE pc[p] = "tidy"
  BY <1>1 DEF Knows, Complete
<1>2. CASE pc[p] = "discard"
  <2>1. ~ critical[p] /\ pc[p] \in InFlight \ {"restore"} /\ Kept(p)
    BY <1>2 DEF Knows, Calm, InFlight
  <2>2. \A i \in Entry : Concerned(p, i) => Done(p, i)
    BY <1>2 DEF Knows, Complete
  <2> QED BY <2>1, <2>2, DoneIsNew DEF IsNew
<1> QED BY <1>1, <1>2

\* A rollback begins at entry k, and all after it are as they were.
LEMMA RecoverKeeps ==
    ASSUME TypeOK, NEW p \in Process, Knows(p), NEW k \in 0 .. Last,
           NEW how \in {"failed", "unconfirmed", "interrupted"},
           Recover(p, k, how),
           UNCHANGED <<live, copy, backup, lock, orig, status, critical>>,
           pc[p] \in InFlight \ {"restore"},
           \A i \in Entry : i > k =>
             status[p][i] \in {"pending", "rolled-back", "recovery-failed"}
    PROVE  Knows(p)'
<1>1. pc'[p] = "rollback" /\ at'[p] = k /\ result'[p] = how
  BY DEF Recover, Goto, Finish, TypeOK
<1>2. CopyKnown(p)' /\ PayloadFirst(p)' /\ Aside(p)' /\ Kept(p)'
  BY QuietKeeps
<1>3. lock = p
  BY DEF Knows, LockHeld, InFlight, Steps, Applying, Undoing
<1>4. LockHeld(p)' /\ Calm(p)' /\ Pristine(p)'
  BY <1>1, <1>3 DEF LockHeld, Calm, Pristine, Steps, Applying, Undoing
<1>5. Copied(p)' /\ Front(p)' /\ Complete(p)' /\ Settled(p)'
  BY <1>1 DEF Copied, Front, Complete, Settled, Applying
<1>6. Backward(p)'
  BY <1>1 DEF Backward
<1> QED BY <1>2, <1>4, <1>5, <1>6 DEF Knows

\* The loop that applies goes on to the next entry.
LEMMA AdvanceKeeps ==
    ASSUME TypeOK, NEW p \in Process, at[p] \in Entry, Advance(p),
           lock = p, lock' = p, ~ critical'[p],
           \A i \in Entry : i <= at[p] => (Concerned(p, i)' => Done(p, i)'),
           \A i \in Entry : i > at[p] => status'[p][i] = "pending"
    PROVE  /\ LockHeld(p)' /\ Calm(p)' /\ Pristine(p)' /\ Front(p)'
           /\ Complete(p)' /\ Backward(p)' /\ Settled(p)'
           /\ pc'[p] \in {"check", "verify", "confirm"}
<1>1. /\ at[p] = Last => pc'[p] = "confirm"
      /\ at[p] # Last => /\ at'[p] = at[p] + 1 /\ at'[p] \in Entry
                         /\ pc'[p] \in {"check", "verify"}
                         /\ pc'[p] = "verify" => at[p] = NumArtifacts
  BY Entries DEF Advance, Goto, TypeOK
<1>2. LockHeld(p)' /\ Calm(p)' /\ Pristine(p)' /\ Backward(p)' /\ Settled(p)'
  BY <1>1 DEF LockHeld, Calm, Pristine, Backward, Settled, Steps, Applying, Undoing
<1>3. Front(p)'
  <2>1. CASE at[p] = Last
    BY <1>1, <2>1 DEF Front
  <2>2. CASE at[p] # Last
    <3>1. \A i \in Entry : i \in Nat
      BY Entries
    <3> QED BY SMTT(40), <1>1, <2>2, <3>1, Entries DEF Front
  <2> QED BY <2>1, <2>2
<1>4. Complete(p)'
  <2>1. CASE at[p] = Last
    <3>1. \A i \in Entry : i <= at[p]
      BY <2>1, Entries
    <3> QED BY <1>1, <2>1, <3>1 DEF Complete
  <2>2. CASE at[p] # Last
    BY <1>1, <2>2 DEF Complete
  <2> QED BY <2>1, <2>2
<1> QED BY <1>1, <1>2, <1>3, <1>4

-----------------------------------------------------------------------------
(* The steps of one installer, which keep what it knows.                   *)

LEMMA AcquireKnows ==
    ASSUME TypeOK, NEW p \in Process, Knows(p), Acquire(p)
    PROVE  Knows(p)'
<1>1. /\ pc[p] = "idle" /\ pc'[p] \in {"locked", "ended"}
      /\ pc'[p] = "locked" <=> lock' = p
  BY InstallerAssumption
     DEF Acquire, Goto, TypeOK, Knows, LockHeld, Steps, Applying, Undoing
<1>2. LockHeld(p)' /\ Calm(p)' /\ Pristine(p)'
  BY <1>1 DEF Acquire, files, Knows, LockHeld, Calm, Pristine, Steps, Applying,
              Undoing
<1>3. \A i \in Receipt : status'[p][i] = "pending"
  BY <1>1 DEF Acquire, Knows, Pristine, Receipt
<1>4. CopyKnown(p)' /\ PayloadFirst(p)'
  BY <1>3, PlanFixed DEF Acquire, files, Knows, CopyKnown, PayloadFirst
<1>5. /\ Aside(p)' /\ Kept(p)' /\ Copied(p)' /\ Front(p)' /\ Complete(p)'
      /\ Backward(p)' /\ Settled(p)'
  BY <1>1 DEF Aside, Kept, Copied, Front, Complete, Backward, Settled,
              InFlight, Applying, Undoing
<1> QED BY <1>2, <1>4, <1>5 DEF Knows

LEMMA PlanKnows ==
    ASSUME TypeOK, NEW p \in Process, Knows(p), Plan(p)
    PROVE  Knows(p)'
<1>1. /\ pc[p] = "locked" /\ pc'[p] \in {"stage", "clean"}
      /\ pc'[p] = "clean" => result'[p] = "untouched"
  BY DEF Plan, Goto, Finish, TypeOK
<1>2. LockHeld(p)' /\ Calm(p)' /\ Pristine(p)' /\ Settled(p)'
  BY <1>1 DEF Plan, files, Knows, LockHeld, Calm, Pristine, Settled, Steps,
              Applying, Undoing
<1>3. \A i \in Receipt : status'[p][i] = "pending"
  BY <1>1 DEF Plan, Knows, Pristine, Receipt
<1>4. PayloadFirst(p)'
  BY <1>3 DEF PayloadFirst
<1>5. CopyKnown(p)'
  BY DEF Plan, files, Knows, CopyKnown, Target
<1>6. /\ Aside(p)' /\ Kept(p)' /\ Copied(p)' /\ Front(p)' /\ Complete(p)'
      /\ Backward(p)'
  BY <1>1 DEF Aside, Kept, Copied, Front, Complete, Backward, InFlight,
              Applying, Undoing
<1> QED BY <1>2, <1>4, <1>5, <1>6 DEF Knows

LEMMA StageKnows ==
    ASSUME TypeOK, NEW p \in Process, Knows(p), Stage(p)
    PROVE  Knows(p)'
<1>1. /\ pc[p] = "stage" /\ pc'[p] = "check" /\ at'[p] = 1 /\ 1 \in Entry
      /\ UNCHANGED <<live, backup, lock, orig, status, critical>>
      /\ copy'[p] = [i \in Entry |-> IF Concerned(p, i) THEN Target(p, i) ELSE Absent]
  BY Entries DEF Stage, Goto, TypeOK
<1>2. \A i : /\ Concerned(p, i)' <=> Concerned(p, i)
             /\ Target(p, i)' = Target(p, i)
  BY <1>1, PlanFixed
<1>3. ~ critical[p] /\ status[p] = [i \in Entry |-> "pending"] /\ backup[p] = Nothing
  BY <1>1 DEF Knows, Calm, Pristine
<1>4. LockHeld(p)' /\ Calm(p)' /\ Pristine(p)' /\ Settled(p)' /\ Complete(p)'
        /\ Backward(p)'
  BY <1>1, <1>3 DEF Knows, LockHeld, Calm, Pristine, Settled, Complete,
                    Backward, Steps, Applying, Undoing
<1>5. \A i \in Entry : status[p][i] = "pending" /\ backup[p][i] = Absent
  BY <1>3 DEF Nothing
<1>6. PayloadFirst(p)' /\ CopyKnown(p)' /\ Copied(p)' /\ Aside(p)'
  BY <1>1, <1>2, <1>5 DEF PayloadFirst, CopyKnown, Copied, Aside, Receipt
<1>7. Kept(p)'
  BY <1>1, <1>2, <1>5 DEF Stage, Kept
<1>8. Front(p)'
  BY <1>1, <1>2, <1>5, Entries DEF Front
<1> QED BY <1>4, <1>6, <1>7, <1>8 DEF Knows

LEMMA StageFailsKnows ==
    ASSUME TypeOK, NEW p \in Process, Knows(p), StageFails(p)
    PROVE  Knows(p)'
<1>1. /\ pc[p] = "stage" /\ pc'[p] = "clean" /\ result'[p] = "untouched"
      /\ UNCHANGED <<live, copy, backup, lock, orig, status, critical>>
  BY DEF StageFails, Goto, Finish, TypeOK, files
<1>2. CopyKnown(p)' /\ PayloadFirst(p)'
  BY <1>1, QuietKeeps
<1>3. /\ LockHeld(p)' /\ Calm(p)' /\ Pristine(p)' /\ Aside(p)' /\ Kept(p)'
      /\ Copied(p)' /\ Front(p)' /\ Complete(p)' /\ Backward(p)' /\ Settled(p)'
  BY <1>1 DEF Knows, LockHeld, Calm, Pristine, Aside, Kept, Copied, Front,
              Complete, Backward, Settled, InFlight, Steps, Applying, Undoing
<1> QED BY <1>2, <1>3 DEF Knows

LEMMA CheckKnows ==
    ASSUME TypeOK, NEW p \in Process, Knows(p), Check(p)
    PROVE  Knows(p)'
<1>1. /\ pc[p] = "check" /\ at[p] \in Entry /\ at[p] - 1 \in 0 .. Last
      /\ pc[p] \in InFlight \ {"restore"} /\ lock = p /\ ~ critical[p]
      /\ UNCHANGED <<live, copy, backup, lock, orig, status, critical>>
  BY Entries, Numbers DEF Check, files, Knows, Calm, LockHeld, InFlight, Steps,
                          Applying, Looping
<1>2. /\ \A i \in Entry : i < at[p] /\ Concerned(p, i) => Done(p, i)
      /\ \A i \in Entry : i > at[p] => status[p][i] = "pending"
      /\ status[p][at[p]] = "pending"
  BY <1>1 DEF Knows, Front
<1>3. \A i \in Entry : i \in Nat
  BY Entries
<1>4. CASE Recover(p, at[p] - 1, "failed")
  <2>1. \A i \in Entry : i > at[p] - 1 => status[p][i] = "pending"
    BY <1>1, <1>2, <1>3
  <2> QED BY <1>1, <1>4, <2>1, RecoverKeeps
<1>5. CASE Concerned(p, at[p]) /\ Goto(p, "backup") /\ UNCHANGED <<at, result>>
  <2>1. pc'[p] = "backup" /\ at'[p] = at[p]
    BY <1>5 DEF Goto, TypeOK
  <2>2. /\ CopyKnown(p)' /\ PayloadFirst(p)' /\ Aside(p)' /\ Kept(p)'
        /\ \A i : Done(p, i)' <=> Done(p, i)
    BY <1>1, QuietKeeps
  <2>3. \A i : /\ Concerned(p, i)' <=> Concerned(p, i)
               /\ Target(p, i)' = Target(p, i)
    BY <1>1, PlanFixed
  <2>4. Copied(p)' /\ Front(p)'
    BY <1>1, <1>2, <1>5, <2>1, <2>2, <2>3 DEF Knows, Copied, Front, Applying
  <2>5. LockHeld(p)' /\ Calm(p)' /\ Pristine(p)' /\ Settled(p)' /\ Complete(p)'
          /\ Backward(p)'
    BY <1>1, <2>1 DEF Knows, LockHeld, Calm, Pristine, Settled, Complete,
                      Backward, Steps, Applying, Undoing
  <2> QED BY <2>2, <2>4, <2>5 DEF Knows
<1>6. CASE ~ Concerned(p, at[p]) /\ Advance(p)
  <2>1. /\ CopyKnown(p)' /\ PayloadFirst(p)' /\ Aside(p)' /\ Kept(p)'
        /\ \A i : Done(p, i)' <=> Done(p, i)
    BY <1>1, QuietKeeps
  <2>2. \A i : /\ Concerned(p, i)' <=> Concerned(p, i)
               /\ Target(p, i)' = Target(p, i)
    BY <1>1, PlanFixed
  <2>3. \A i \in Entry : i <= at[p] => (Concerned(p, i)' => Done(p, i)')
    BY <1>1, <1>2, <1>3, <1>6, <2>1, <2>2
  <2>4. /\ LockHeld(p)' /\ Calm(p)' /\ Pristine(p)' /\ Front(p)'
        /\ Complete(p)' /\ Backward(p)' /\ Settled(p)'
        /\ pc'[p] \in Applying
    BY <1>1, <1>2, <1>6, <2>3, AdvanceKeeps DEF Applying
  <2>5. Copied(p)'
    BY <1>1, <2>2, <2>4 DEF Knows, Copied, Applying
  <2> QED BY <2>1, <2>4, <2>5 DEF Knows
<1> QED BY <1>4, <1>5, <1>6 DEF Check


LEMMA BackUpKnows ==
    ASSUME TypeOK, NEW p \in Process, Knows(p), BackUp(p)
    PROVE  Knows(p)'
<1> DEFINE i == at[p]
<1>1. /\ pc[p] = "backup" /\ i \in Entry /\ lock = p /\ ~ critical[p]
      /\ UNCHANGED <<copy, lock, orig, critical, result>>
  BY Numbers DEF BackUp, Knows, Calm, LockHeld, Steps, Applying, Looping
<1>2. /\ \A j \in Entry : j < i /\ Concerned(p, j) => Done(p, j)
      /\ \A j \in Entry : j > i => status[p][j] = "pending"
      /\ status[p][i] = "pending" /\ Concerned(p, i)
  BY <1>1 DEF Knows, Front
<1>3. live[i] \in {orig[p][i], Mine} /\ backup[p][i] = Absent
  BY <1>1, <1>2 DEF Knows, Kept, Aside, InFlight, Applying
<1>4. /\ Aside(p) /\ Kept(p) /\ pc[p] \in InFlight \ {"restore"} /\ Copied(p)
      /\ CopyKnown(p) /\ PayloadFirst(p) /\ pc[p] \in Applying
  BY <1>1 DEF Knows, InFlight, Applying
<1>5. \A j : /\ Concerned(p, j)' <=> Concerned(p, j)
             /\ Target(p, j)' = Target(p, j)
  BY <1>1, PlanFixed
<1>6. \A j \in Entry : j # i =>
         /\ live'[j] = live[j] /\ backup'[p][j] = backup[p][j]
         /\ status'[p][j] = status[p][j]
  BY <1>1 DEF BackUp, Mark, TypeOK
<1>7. \/ /\ Replaces(p, i) /\ live'[i] = Absent /\ backup'[p][i] = live[i]
         /\ status'[p][i] = "backed-up"
      \/ /\ ~ Replaces(p, i) /\ live'[i] = live[i] /\ backup'[p][i] = backup[p][i]
         /\ status'[p][i] = "pending"
  BY <1>1, <1>2 DEF BackUp, Mark, TypeOK
<1>8. /\ Replaces(p, i) => live[i] # Absent
      /\ ~ Replaces(p, i) => orig[p][i] = Absent
  BY <1>3, InstallerAssumption DEF Replaces
<1>9. pc'[p] \in Applying /\ pc'[p] # "restore"
  BY <1>1 DEF BackUp, Advance, Goto, TypeOK, Applying
<1>10. Aside(p)' /\ CopyKnown(p)' /\ Copied(p)'
  BY <1>1, <1>2, <1>4, <1>5, <1>6, <1>7 DEF Aside, CopyKnown, Copied
<1>11. Kept(p)'
  BY <1>1, <1>2, <1>3, <1>4, <1>5, <1>6, <1>7, <1>8 DEF Kept
<1>12. PayloadFirst(p)'
  <2>1. CASE i \in Artifact
    <3>1. \A r \in Receipt : r \in Entry /\ r > i
      BY <1>1, <2>1, Entries
    <3>2. \A r \in Receipt : status'[p][r] = "pending"
      BY <1>2, <1>6, <3>1, Entries
    <3> QED BY <3>2 DEF PayloadFirst
  <2>2. CASE i \notin Artifact
    <3>1. \A j \in Artifact : j \in Entry /\ live'[j] = live[j]
      BY <1>6, <2>2, Entries
    <3>2. \A r \in Receipt : status'[p][r] \in {"replaced", "created"} =>
             live'[r] = live[r] /\ status'[p][r] = status[p][r]
      BY <1>6, <1>7, Entries
    <3> QED BY <1>1, <1>4, <1>5, <3>1, <3>2 DEF PayloadFirst
  <2> QED BY <2>1, <2>2
<1>13. \A j \in Entry : j > i => status'[p][j] = "pending"
  BY <1>1, <1>2, <1>6, Entries
<1>14. \A j \in Entry : j < i => (Concerned(p, j)' => Done(p, j)')
  BY <1>1, <1>2, <1>5, <1>6, Entries DEF Done
<1>15. CASE Target(p, i) = Absent /\ Advance(p)
  <2>1. \A j \in Entry : j = i => Done(p, j)'
    BY <1>1, <1>5, <1>7, <1>8, <1>15 DEF Done
  <2>2. \A j \in Entry : j <= i => (Concerned(p, j)' => Done(p, j)')
    BY <1>1, <1>14, <2>1, Entries
  <2>3. ~ critical'[p] /\ lock' = p
    BY <1>1
  <2>4. /\ LockHeld(p)' /\ Calm(p)' /\ Pristine(p)' /\ Front(p)'
        /\ Complete(p)' /\ Backward(p)' /\ Settled(p)'
    BY <1>1, <1>13, <1>15, <2>2, <2>3, AdvanceKeeps
  <2> QED BY <1>10, <1>11, <1>12, <2>4 DEF Knows
<1>16. CASE Goto(p, "place") /\ UNCHANGED at
  <2>1. pc'[p] = "place" /\ at'[p] = i
    BY <1>16 DEF Goto, TypeOK
  <2>2. Front(p)'
    BY <1>1, <1>2, <1>5, <1>7, <1>8, <1>13, <1>14, <2>1 DEF Front
  <2>3. LockHeld(p)' /\ Calm(p)' /\ Pristine(p)' /\ Settled(p)' /\ Complete(p)'
          /\ Backward(p)'
    BY <1>1, <2>1 DEF LockHeld, Calm, Pristine, Settled, Complete, Backward,
                      Steps, Applying, Undoing
  <2> QED BY <1>10, <1>11, <1>12, <2>2, <2>3 DEF Knows
<1> QED BY <1>15, <1>16 DEF BackUp

LEMMA BackUpFailsKnows ==
    ASSUME TypeOK, NEW p \in Process, Knows(p), BackUpFails(p)
    PROVE  Knows(p)'
<1>1. /\ pc[p] = "backup" /\ at[p] \in Entry /\ at[p] - 1 \in 0 .. Last
      /\ pc[p] \in InFlight \ {"restore"}
      /\ UNCHANGED <<live, copy, backup, lock, orig, status, critical>>
  BY Entries, Numbers DEF BackUpFails, files, InFlight, Applying, Looping
<1>2. \A i \in Entry : i > at[p] - 1 => status[p][i] = "pending"
  BY <1>1, Entries DEF Knows, Front
<1> QED BY <1>1, <1>2, RecoverKeeps DEF BackUpFails

LEMMA PlaceKnows ==
    ASSUME TypeOK, NEW p \in Process, Knows(p), Place(p)
    PROVE  Knows(p)'
<1> DEFINE i == at[p]
<1>1. /\ pc[p] = "place" /\ i \in Entry /\ lock = p /\ ~ critical[p]
      /\ live[i] = Absent
      /\ UNCHANGED <<backup, lock, orig, critical, result>>
  BY Numbers DEF Place, Knows, Calm, LockHeld, Steps, Applying, Looping
<1>2. /\ \A j \in Entry : j < i /\ Concerned(p, j) => Done(p, j)
      /\ \A j \in Entry : j > i => status[p][j] = "pending"
      /\ status[p][i] \in {"pending", "backed-up"} /\ Concerned(p, i)
      /\ status[p][i] = "pending" => orig[p][i] = Absent
  BY <1>1 DEF Knows, Front
<1>3. /\ Aside(p) /\ Kept(p) /\ pc[p] \in InFlight \ {"restore"} /\ Copied(p)
      /\ CopyKnown(p) /\ PayloadFirst(p) /\ pc[p] \in Applying
  BY <1>1 DEF Knows, InFlight, Applying
<1>4. /\ status[p][i] = "pending" => backup[p][i] = Absent
      /\ status[p][i] = "backed-up" =>
           backup[p][i] \in {orig[p][i], Mine} \ {Absent}
      /\ copy[p][i] = Target(p, i)
  BY <1>1, <1>2, <1>3 DEF Aside, Kept, Copied
<1>5. \A j : /\ Concerned(p, j)' <=> Concerned(p, j)
             /\ Target(p, j)' = Target(p, j)
  BY <1>1, PlanFixed
<1>6. \A j \in Entry : j # i =>
         /\ live'[j] = live[j] /\ copy'[p][j] = copy[p][j]
         /\ status'[p][j] = status[p][j]
  BY <1>1 DEF Place, Mark, TypeOK
<1>7. /\ live'[i] = Target(p, i) /\ copy'[p][i] = Absent
      /\ status'[p][i] = IF backup[p][i] # Absent THEN "replaced" ELSE "created"
  BY <1>1, <1>4 DEF Place, Mark, TypeOK
<1>8. Aside(p)' /\ CopyKnown(p)' /\ Copied(p)'
  BY <1>1, <1>3, <1>5, <1>6, <1>7 DEF Aside, CopyKnown, Copied
<1>9. Kept(p)'
  BY <1>1, <1>2, <1>3, <1>4, <1>5, <1>6, <1>7 DEF Kept
<1>10. \A j \in Entry : j > i => status'[p][j] = "pending"
  BY <1>1, <1>2, <1>6, Entries
<1>11. \A j \in Entry : j <= i => (Concerned(p, j)' => Done(p, j)')
  BY <1>1, <1>2, <1>5, <1>6, <1>7, Entries DEF Done
<1>12. PayloadFirst(p)'
  <2>1. CASE i \in Artifact
    <3>1. \A r \in Receipt : r \in Entry /\ r > i
      BY <1>1, <2>1, Entries
    <3>2. \A r \in Receipt : status'[p][r] = "pending"
      BY <1>10, <3>1, Entries
    <3> QED BY <3>2 DEF PayloadFirst
  <2>2. CASE i \notin Artifact
    <3>1. \A j \in Artifact : j \in Entry /\ j < i /\ live'[j] = live[j]
      BY <1>1, <1>6, <2>2, Entries
    <3>2. \A j \in Artifact : Concerned(p, j) => live[j] \in {Target(p, j), Mine}
      BY <1>1, <1>2, <1>3, <3>1, DoneIsNew
    <3> QED BY <1>5, <3>1, <3>2 DEF PayloadFirst
  <2> QED BY <2>1, <2>2
<1>13. ~ critical'[p] /\ lock' = p /\ Advance(p)
  BY <1>1 DEF Place
<1>14. /\ LockHeld(p)' /\ Calm(p)' /\ Pristine(p)' /\ Front(p)'
       /\ Complete(p)' /\ Backward(p)' /\ Settled(p)'
  BY <1>1, <1>10, <1>11, <1>13, AdvanceKeeps
<1> QED BY <1>8, <1>9, <1>12, <1>14 DEF Knows

LEMMA PlaceFailsKnows ==
    ASSUME TypeOK, NEW p \in Process, Knows(p), PlaceFails(p)
    PROVE  Knows(p)'
<1>1. /\ pc[p] = "place" /\ at[p] \in Entry /\ at[p] \in 0 .. Last
      /\ pc[p] \in InFlight \ {"restore"}
      /\ UNCHANGED <<live, copy, backup, lock, orig, status, critical>>
  BY Entries, Numbers DEF PlaceFails, files, InFlight, Applying, Looping
<1>2. \A i \in Entry : i > at[p] => status[p][i] = "pending"
  BY <1>1 DEF Knows, Front
<1> QED BY <1>1, <1>2, RecoverKeeps DEF PlaceFails

LEMMA ReappearedKnows ==
    ASSUME TypeOK, NEW p \in Process, Knows(p), Reappeared(p)
    PROVE  Knows(p)'
<1> DEFINE i == at[p]
<1>1. /\ pc[p] = "place" /\ i \in Entry /\ i - 1 \in 0 .. Last
      /\ pc[p] \in InFlight \ {"restore"} /\ lock = p /\ ~ critical[p]
      /\ UNCHANGED <<live, copy, backup, lock, orig>>
  BY Entries, Numbers DEF Reappeared, files, Knows, LockHeld, Calm, InFlight,
                          Steps, Applying, Looping
<1>2. /\ \A j \in Entry : j > i => status[p][j] = "pending"
      /\ status[p][i] \in {"pending", "backed-up"} /\ Concerned(p, i)
  BY <1>1 DEF Knows, Front
<1>3. status[p][i] = "backed-up" => backup[p][i] # Absent
  BY <1>1, <1>2 DEF Knows, Kept
<1>4. CASE UNCHANGED <<status, critical>> /\ i \notin Receipt /\ backup[p][i] = Absent
  <2>1. status[p][i] = "pending"
    BY <1>2, <1>3, <1>4
  <2>2. \A j \in Entry : j > i - 1 => status[p][j] = "pending"
    BY <1>1, <1>2, <2>1, Entries
  <2> QED BY <1>1, <1>4, <2>2, RecoverKeeps DEF Reappeared
<1>5. CASE Mark(p, i, "recovery-failed") /\ Alarm(p)
  <2>1. /\ critical'[p] /\ status'[p][i] = "recovery-failed"
        /\ \A j \in Entry : j # i => status'[p][j] = status[p][j]
        /\ pc'[p] = "rollback" /\ at'[p] = i - 1 /\ result'[p] = "failed"
    BY <1>1, <1>5 DEF Reappeared, Recover, Mark, Alarm, Goto, Finish, TypeOK
  <2>2. \A j : Target(p, j)' = Target(p, j)
    BY <1>1, PlanFixed
  <2>3. CopyKnown(p)' /\ Aside(p)' /\ Backward(p)'
    BY SMTT(40), <1>1, <1>2, <2>1, <2>2, Entries
       DEF Knows, CopyKnown, Aside, Backward
  <2>4. Kept(p)' /\ PayloadFirst(p)'
    BY <2>1 DEF Kept, PayloadFirst
  <2>5. /\ LockHeld(p)' /\ Calm(p)' /\ Pristine(p)' /\ Copied(p)' /\ Front(p)'
        /\ Complete(p)' /\ Settled(p)'
    BY <1>1, <2>1 DEF LockHeld, Calm, Pristine, Copied, Front, Complete,
                      Settled, Steps, Applying, Undoing
  <2> QED BY <2>3, <2>4, <2>5 DEF Knows
<1> QED BY <1>4, <1>5 DEF Reappeared

LEMMA VerifyKnows ==
    ASSUME TypeOK, NEW p \in Process, Knows(p), Verify(p)
    PROVE  Knows(p)'
<1>1. /\ pc[p] = "verify" /\ at[p] \in Entry /\ NumArtifacts \in 0 .. Last
      /\ pc[p] \in InFlight \ {"restore"} /\ lock = p /\ ~ critical[p]
      /\ UNCHANGED <<live, copy, backup, lock, orig, status, critical>>
  BY Entries, Numbers DEF Verify, files, Knows, LockHeld, Calm, InFlight, Steps,
                          Applying, Looping
<1>2. /\ \A i \in Entry : i > at[p] => status[p][i] = "pending"
      /\ status[p][at[p]] = "pending" /\ at[p] = NumArtifacts + 1
      /\ \A i \in Entry : i < at[p] /\ Concerned(p, i) => Done(p, i)
  BY <1>1 DEF Knows, Front
<1>3. CASE Recover(p, NumArtifacts, "failed")
  <2>1. \A i \in Entry : i > NumArtifacts => status[p][i] = "pending"
    BY <1>1, <1>2, Entries
  <2> QED BY <1>1, <1>3, <2>1, RecoverKeeps
<1>4. CASE Goto(p, "check") /\ UNCHANGED <<at, result>>
  <2>1. pc'[p] = "check" /\ at'[p] = at[p]
    BY <1>4 DEF Goto, TypeOK
  <2>2. /\ CopyKnown(p)' /\ PayloadFirst(p)' /\ Aside(p)' /\ Kept(p)'
        /\ \A i : Done(p, i)' <=> Done(p, i)
    BY <1>1, QuietKeeps
  <2>3. \A i : /\ Concerned(p, i)' <=> Concerned(p, i)
               /\ Target(p, i)' = Target(p, i)
    BY <1>1, PlanFixed
  <2>4. Copied(p)' /\ Front(p)'
    BY <1>1, <1>2, <2>1, <2>2, <2>3 DEF Knows, Copied, Front, Applying
  <2>5. LockHeld(p)' /\ Calm(p)' /\ Pristine(p)' /\ Settled(p)' /\ Complete(p)'
          /\ Backward(p)'
    BY <1>1, <2>1 DEF LockHeld, Calm, Pristine, Settled, Complete, Backward,
                      Steps, Applying, Undoing
  <2> QED BY <2>2, <2>4, <2>5 DEF Knows
<1> QED BY <1>3, <1>4 DEF Verify

LEMMA ConfirmKnows ==
    ASSUME TypeOK, NEW p \in Process, Knows(p), Confirm(p)
    PROVE  Knows(p)'
<1>1. /\ pc[p] = "confirm" /\ Last \in 0 .. Last
      /\ pc[p] \in InFlight \ {"restore"} /\ lock = p /\ ~ critical[p]
      /\ UNCHANGED <<live, copy, backup, lock, orig, status, critical>>
  BY Entries DEF Confirm, files, Knows, LockHeld, Calm, InFlight, Steps, Applying
<1>2. CASE Recover(p, Last, "unconfirmed")
  <2>1. \A i \in Entry : ~ i > Last
    BY Entries
  <2> QED BY <1>1, <1>2, <2>1, RecoverKeeps
<1>3. CASE Goto(p, "discard") /\ UNCHANGED <<at, result>>
  <2>1. pc'[p] = "discard"
    BY <1>3 DEF Goto, TypeOK
  <2>2. /\ CopyKnown(p)' /\ PayloadFirst(p)' /\ Aside(p)' /\ Kept(p)'
        /\ \A i : Done(p, i)' <=> Done(p, i)
    BY <1>1, QuietKeeps
  <2>3. \A i : Concerned(p, i)' <=> Concerned(p, i)
    BY <1>1, PlanFixed
  <2>4. Complete(p)'
    BY <1>1, <2>1, <2>2, <2>3 DEF Knows, Complete
  <2>5. LockHeld(p)' /\ Calm(p)' /\ Pristine(p)' /\ Settled(p)' /\ Copied(p)'
          /\ Front(p)' /\ Backward(p)'
    BY <1>1, <2>1 DEF LockHeld, Calm, Pristine, Settled, Copied, Front,
                      Backward, Steps, Applying, Undoing
  <2> QED BY <2>2, <2>4, <2>5 DEF Knows
<1> QED BY <1>2, <1>3 DEF Confirm

LEMMA VerifyFailsKnows ==
    ASSUME TypeOK, NEW p \in Process, Knows(p), VerifyFails(p)
    PROVE  Knows(p)'
<1>1. /\ pc[p] \in InFlight \ {"restore"}
      /\ NumArtifacts \in 0 .. Last /\ Last \in 0 .. Last
      /\ UNCHANGED <<live, copy, backup, lock, orig, status, critical>>
  BY Entries DEF VerifyFails, files, InFlight, Applying
<1>2. CASE pc[p] = "verify" /\ Recover(p, NumArtifacts, "failed")
  <2>1. at[p] = NumArtifacts + 1 /\ status[p][at[p]] = "pending"
          /\ \A i \in Entry : i > at[p] => status[p][i] = "pending"
    BY <1>2 DEF Knows, Front
  <2>2. \A i \in Entry : i > NumArtifacts => status[p][i] = "pending"
    BY <2>1, Entries
  <2> QED BY <1>1, <1>2, <2>2, RecoverKeeps
<1>3. CASE Recover(p, Last, "unconfirmed")
  <2>1. \A i \in Entry : ~ i > Last
    BY Entries
  <2> QED BY <1>1, <1>3, <2>1, RecoverKeeps
<1> QED BY <1>2, <1>3 DEF VerifyFails


\* Cleaning up leaves alone what has status and original in place.
LEMMA CleanUpKeeps ==
    ASSUME TypeOK, NEW p \in Process, Knows(p), CleanUp(p),
           UNCHANGED <<live, lock, orig, status, critical>>
    PROVE  /\ CopyKnown(p)' /\ PayloadFirst(p)'
           /\ IsOld(p)' <=> IsOld(p)
           /\ IsNew(p)' <=> IsNew(p)
           /\ \A i \in Entry : backup[p][i] = Absent => backup'[p][i] = Absent
<1>1. \A i : /\ Concerned(p, i)' <=> Concerned(p, i)
             /\ Target(p, i)' = Target(p, i)
  BY PlanFixed
<1>2. \A i \in Entry : /\ copy'[p][i] \in {copy[p][i], Absent}
                       /\ backup'[p][i] \in {backup[p][i], Absent}
  BY DEF CleanUp, TypeOK
<1>3. CopyKnown(p)' /\ PayloadFirst(p)'
  BY <1>1, <1>2 DEF Knows, CopyKnown, PayloadFirst
<1>4. (IsOld(p)' <=> IsOld(p)) /\ (IsNew(p)' <=> IsNew(p))
  BY <1>1 DEF IsOld, IsNew
<1> QED BY <1>2, <1>3, <1>4

\* The installer is about to unlock.
LEMMA EndKnows ==
    ASSUME NEW p \in Process, pc'[p] = "clean", lock' = p,
           CopyKnown(p)', PayloadFirst(p)', Settled(p)'
    PROVE  Knows(p)'
BY DEF Knows, LockHeld, Calm, Pristine, Aside, Kept, Copied, Front, Complete,
       Backward, InFlight, Steps, Applying, Undoing

LEMMA DiscardKnows ==
    ASSUME TypeOK, NEW p \in Process, Knows(p), Discard(p)
    PROVE  Knows(p)'
<1>1. /\ pc[p] = "discard" /\ lock = p /\ ~ critical[p] /\ IsNew(p)
      /\ UNCHANGED <<live, copy, lock, orig, status>>
  BY AllDone DEF Discard, Knows, LockHeld, Calm, Steps
<1>2. \A i : /\ Concerned(p, i)' <=> Concerned(p, i)
             /\ Target(p, i)' = Target(p, i)
  BY <1>1, PlanFixed
<1>3. IsNew(p)'
  BY <1>1, <1>2 DEF IsNew
<1>4. CASE Goto(p, "tidy") /\ UNCHANGED <<critical, result>>
  <2>1. pc'[p] = "tidy"
    BY <1>4 DEF Goto, TypeOK
  <2>2. CopyKnown(p)' /\ PayloadFirst(p)'
    BY <1>1, <1>2, <1>4 DEF Knows, CopyKnown, PayloadFirst
  <2>3. /\ LockHeld(p)' /\ Calm(p)' /\ Pristine(p)' /\ Aside(p)' /\ Kept(p)'
        /\ Copied(p)' /\ Front(p)' /\ Complete(p)' /\ Backward(p)' /\ Settled(p)'
    BY <1>1, <1>3, <1>4, <2>1 DEF LockHeld, Calm, Pristine, Aside, Kept,
       Copied, Front, Complete, Backward, Settled, InFlight, Steps, Applying,
       Undoing
  <2> QED BY <2>2, <2>3 DEF Knows
<1>5. CASE Alarm(p) /\ Finish(p, "failed") /\ Goto(p, "clean")
  <2>1. pc'[p] = "clean" /\ critical'[p] /\ result'[p] = "failed"
    BY <1>5 DEF Goto, Alarm, Finish, TypeOK
  <2>2. CopyKnown(p)' /\ PayloadFirst(p)' /\ Settled(p)'
    BY <1>1, <1>2, <2>1 DEF Knows, CopyKnown, PayloadFirst, Settled
  <2> QED BY <1>1, <2>1, <2>2, EndKnows
<1> QED BY <1>4, <1>5 DEF Discard

LEMMA TidyKnows ==
    ASSUME TypeOK, NEW p \in Process, Knows(p), Tidy(p)
    PROVE  Knows(p)'
<1>1. /\ pc[p] = "tidy" /\ pc'[p] = "clean" /\ lock' = p /\ IsNew(p)
      /\ UNCHANGED <<live, lock, orig, status, critical>>
  BY AllDone DEF Tidy, Goto, Knows, LockHeld, Steps, TypeOK
<1>2. CopyKnown(p)' /\ PayloadFirst(p)' /\ IsNew(p)'
  BY <1>1, CleanUpKeeps DEF Tidy
<1>3. Settled(p)'
  BY <1>2 DEF Settled
<1> QED BY <1>1, <1>2, <1>3, EndKnows

LEMMA InterruptIdleKnows ==
    ASSUME TypeOK, NEW p \in Process, Knows(p), InterruptIdle(p)
    PROVE  Knows(p)'
<1>1. /\ pc[p] \in {"locked", "stage", "discard", "tidy"}
      /\ pc'[p] = "clean" /\ lock' = p
      /\ pc[p] \in {"locked", "stage"} => result'[p] = "untouched"
      /\ UNCHANGED <<live, lock, orig, status, critical>>
  BY DEF InterruptIdle, Goto, Finish, Knows, LockHeld, Steps, TypeOK
<1>2. /\ CopyKnown(p)' /\ PayloadFirst(p)'
      /\ IsNew(p)' <=> IsNew(p)
  BY <1>1, CleanUpKeeps DEF InterruptIdle
<1>3. Settled(p)'
  BY <1>1, <1>2, AllDone DEF Settled
<1> QED BY <1>1, <1>2, <1>3, EndKnows

LEMMA ReleaseKnows ==
    ASSUME TypeOK, NEW p \in Process, Knows(p), Release(p)
    PROVE  Knows(p)'
<1>1. /\ pc'[p] = "ended" /\ lock' # p
      /\ copy' = copy /\ critical' = critical
      /\ \A i \in Entry : status'[p][i] = "pending"
  BY InstallerAssumption DEF Release, Goto, TypeOK, files
<1>2. CopyKnown(p)'
  BY <1>1 DEF Knows, CopyKnown, Target
<1> QED BY <1>1, <1>2 DEF Knows, LockHeld, Calm, Pristine, Aside, Kept, Copied,
           Front, Complete, Backward, Settled, PayloadFirst, InFlight, Steps,
           Applying, Undoing

LEMMA UndoKnows ==
    ASSUME TypeOK, NEW p \in Process, Knows(p), Undo(p)
    PROVE  Knows(p)'
<1> DEFINE i == at[p]
<1>1. /\ pc[p] = "rollback" /\ i \in Entry /\ i - 1 \in 0 .. Last /\ lock = p
      /\ UNCHANGED <<lock, orig, critical, result>>
  BY Entries, Numbers DEF Undo, Knows, LockHeld, Steps, Undoing
<1>2. /\ Aside(p) /\ Kept(p) /\ CopyKnown(p) /\ PayloadFirst(p) /\ Backward(p)
      /\ pc[p] \in InFlight \ {"restore"}
  BY <1>1 DEF Knows, InFlight, Undoing
<1>3. /\ result[p] \in {"failed", "unconfirmed", "interrupted"}
      /\ \A j \in Entry : j > i /\ (j \in Receipt \/ ~ critical[p]) =>
           status[p][j] \in {"pending", "rolled-back", "recovery-failed"}
  BY <1>1, <1>2 DEF Backward, Undoing
<1>4. \A j : /\ Concerned(p, j)' <=> Concerned(p, j)
             /\ Target(p, j)' = Target(p, j)
  BY <1>1, PlanFixed
<1>5. /\ pc'[p] \in {"rollback", "restore"}
      /\ pc'[p] = "restore" =>
           /\ at'[p] = i /\ status[p][i] = "replaced" /\ status' = status
           /\ live'[i] = Absent
      /\ pc'[p] = "rollback" => at'[p] = i - 1
  BY <1>1 DEF Undo, MoveAside, PutBack, Previous, Goto, TypeOK
<1>6. \A j \in Entry : j # i =>
         /\ live'[j] = live[j] /\ copy'[p][j] = copy[p][j]
         /\ backup'[p][j] = backup[p][j] /\ status'[p][j] = status[p][j]
  BY <1>1 DEF Undo, MoveAside, PutBack, Mark, files, TypeOK
<1>7. \/ /\ status[p][i] = "replaced" /\ pc'[p] = "restore"
         /\ copy'[p][i] = Target(p, i) /\ backup'[p][i] = backup[p][i]
         /\ status'[p][i] = status[p][i] /\ live'[i] = Absent
      \/ /\ status[p][i] = "backed-up" /\ pc'[p] = "rollback"
         /\ live'[i] = backup[p][i] /\ backup'[p][i] = Absent
         /\ status'[p][i] = "rolled-back" /\ copy'[p][i] = copy[p][i]
      \/ /\ status[p][i] = "created" /\ pc'[p] = "rollback"
         /\ copy'[p][i] = Target(p, i) /\ backup'[p][i] = backup[p][i]
         /\ status'[p][i] = "rolled-back" /\ live'[i] = Absent
      \/ /\ status[p][i] \in {"pending", "rolled-back", "recovery-failed"}
         /\ pc'[p] = "rollback"
         /\ status'[p][i] = status[p][i] /\ live'[i] = live[i]
         /\ backup'[p][i] = backup[p][i] /\ copy'[p][i] = copy[p][i]
  BY <1>1 DEF Undo, MoveAside, PutBack, Mark, Goto, files, TypeOK
<1>8. CopyKnown(p)'
  BY <1>1, <1>2, <1>4, <1>6, <1>7 DEF CopyKnown
<1>9. Aside(p)'
  BY <1>1, <1>2, <1>6, <1>7 DEF Aside
<1>10. Kept(p)'
  <2>1. SUFFICES ASSUME ~ critical[p] PROVE Kept(p)'
    BY <1>1 DEF Kept
  <2>2. \A j \in Entry : j # i /\ Concerned(p, j) =>
           /\ status[p][j] \in {"pending", "rolled-back"} =>
                live[j] \in {orig[p][j], Mine}
           /\ status[p][j] \in {"backed-up", "replaced"} =>
                backup[p][j] \in {orig[p][j], Mine} \ {Absent}
           /\ status[p][j] = "backed-up" => live[j] \in {Absent, Mine}
           /\ status[p][j] = "created" => orig[p][j] = Absent
           /\ status[p][j] \in {"replaced", "created"} =>
                live[j] \in {Target(p, j), Mine}
    BY <1>1, <1>2, <2>1 DEF Kept
  <2>3. Concerned(p, i) =>
           /\ status[p][i] \in {"pending", "rolled-back"} =>
                live[i] \in {orig[p][i], Mine}
           /\ status[p][i] \in {"backed-up", "replaced"} =>
                backup[p][i] \in {orig[p][i], Mine} \ {Absent}
           /\ status[p][i] = "created" => orig[p][i] = Absent
           /\ status[p][i] # "recovery-failed"
    BY <1>1, <1>2, <2>1 DEF Kept, CopyKnown
  <2>4. \A j \in Entry : j # i /\ Concerned(p, j) =>
           /\ status'[p][j] \in {"pending", "rolled-back"} =>
                live'[j] \in {orig[p][j], Mine}
           /\ status'[p][j] \in {"backed-up", "replaced"} =>
                backup'[p][j] \in {orig[p][j], Mine} \ {Absent}
           /\ status'[p][j] = "backed-up" => live'[j] \in {Absent, Mine}
           /\ status'[p][j] = "created" => orig[p][j] = Absent
           /\ status'[p][j] \in {"replaced", "created"} =>
                \/ live'[j] \in {Target(p, j), Mine}
                \/ pc'[p] = "restore" /\ at'[p] = j
    BY <1>6, <2>2
  <2>5. Concerned(p, i) =>
           /\ status'[p][i] \in {"pending", "rolled-back"} =>
                live'[i] \in {orig[p][i], Mine}
           /\ status'[p][i] \in {"backed-up", "replaced"} =>
                backup'[p][i] \in {orig[p][i], Mine} \ {Absent}
           /\ status'[p][i] = "backed-up" => live'[i] \in {Absent, Mine}
           /\ status'[p][i] = "created" => orig[p][i] = Absent
           /\ status'[p][i] \in {"replaced", "created"} =>
                \/ live'[i] \in {Target(p, i), Mine}
                \/ pc'[p] = "restore" /\ at'[p] = i
    BY <1>5, <1>7, <2>3
  <2> QED BY <1>1, <1>4, <2>4, <2>5 DEF Kept
<1>11. Backward(p)'
  BY <1>1, <1>3, <1>5, <1>6, <1>7, Entries DEF Backward
<1>12. PayloadFirst(p)'
  <2>1. SUFFICES ASSUME ~ critical[p] PROVE PayloadFirst(p)'
    BY <1>1 DEF PayloadFirst
  <2>2. CASE i \in Artifact
    <3>1. \A r \in Receipt : r \in Entry /\ r > i /\ r # i
      BY <1>1, <2>2, Entries
    <3>2. \A r \in Receipt : status'[p][r] \notin {"replaced", "created"}
      BY <1>3, <1>6, <2>1, <3>1
    <3> QED BY <3>2 DEF PayloadFirst
  <2>3. CASE i \notin Artifact
    <3>1. \A j \in Artifact : j \in Entry /\ live'[j] = live[j]
      BY <1>6, <2>3, Entries
    <3>2. \A r \in Receipt : status'[p][r] \in {"replaced", "created"} =>
             \/ live'[r] = live[r] /\ status'[p][r] = status[p][r]
             \/ live'[r] = Absent
      BY <1>6, <1>7, Entries
    <3>3. \A r \in Receipt : Target(p, r) # Absent
      BY Entries, Targets
    <3> QED BY <1>1, <1>2, <1>4, <3>1, <3>2, <3>3 DEF PayloadFirst
  <2> QED BY <2>2, <2>3
<1>13. /\ LockHeld(p)' /\ Calm(p)' /\ Pristine(p)' /\ Copied(p)' /\ Front(p)'
       /\ Complete(p)' /\ Settled(p)'
  BY <1>1, <1>5 DEF LockHeld, Calm, Pristine, Copied, Front, Complete, Settled,
                    Steps, Applying, Undoing
<1> QED BY <1>8, <1>9, <1>10, <1>11, <1>12, <1>13 DEF Knows


\* An entry that cannot be undone: everything after it has been, or given up.
LEMMA GiveUpKnows ==
    ASSUME TypeOK, NEW p \in Process, Knows(p), pc[p] \in {"rollback", "restore"},
           at[p] \in Entry, GiveUp(p, at[p]), Previous(p), pc'[p] = "rollback",
           UNCHANGED <<files, lock, orig, result>>
    PROVE  Knows(p)'
<1> DEFINE i == at[p]
<1>1. /\ critical'[p] /\ at'[p] = i - 1 /\ lock = p
      /\ status'[p][i] = "recovery-failed" \/ i \notin Receipt
      /\ status'[p][i] \in {status[p][i], "recovery-failed"}
      /\ \A j \in Entry : j # i => status'[p][j] = status[p][j]
      /\ UNCHANGED <<live, copy, backup>>
  BY DEF GiveUp, Mark, Alarm, Previous, TypeOK, files, Knows, LockHeld, Steps,
         Undoing
<1>2. CopyKnown(p) /\ Aside(p) /\ Backward(p) /\ pc[p] \in InFlight
  BY DEF Knows, InFlight, Undoing
<1>3. /\ result[p] \in {"failed", "unconfirmed", "interrupted"}
      /\ \A j \in Receipt : j \in Entry /\ j > i =>
           status[p][j] \in {"pending", "rolled-back", "recovery-failed"}
  BY <1>2 DEF Backward, Undoing
<1>4. CopyKnown(p)' /\ Aside(p)'
  BY <1>1, <1>2, PlanFixed DEF CopyKnown, Aside
<1>5. Backward(p)'
  BY <1>1, <1>3, Entries DEF Backward
<1>6. /\ LockHeld(p)' /\ Calm(p)' /\ Pristine(p)' /\ Kept(p)' /\ Copied(p)'
      /\ Front(p)' /\ Complete(p)' /\ Settled(p)' /\ PayloadFirst(p)'
  BY <1>1 DEF LockHeld, Calm, Pristine, Kept, Copied, Front, Complete, Settled,
              PayloadFirst, Steps, Applying, Undoing
<1> QED BY <1>4, <1>5, <1>6 DEF Knows

LEMMA UndoFailsKnows ==
    ASSUME TypeOK, NEW p \in Process, Knows(p), UndoFails(p)
    PROVE  Knows(p)'
<1>1. /\ pc[p] \in {"rollback", "restore"} /\ at[p] \in Entry
      /\ pc'[p] = "rollback"
  BY Entries, Numbers DEF UndoFails
<1> QED BY <1>1, GiveUpKnows DEF UndoFails

LEMMA RestoreFailsKnows ==
    ASSUME TypeOK, NEW p \in Process, Knows(p), RestoreFails(p)
    PROVE  Knows(p)'
<1>1. /\ pc[p] \in {"rollback", "restore"} /\ at[p] \in Entry
      /\ pc'[p] = "rollback"
  BY Numbers DEF RestoreFails, Goto, TypeOK, Looping
<1> QED BY <1>1, GiveUpKnows DEF RestoreFails

LEMMA RestoreKnows ==
    ASSUME TypeOK, NEW p \in Process, Knows(p), Restore(p)
    PROVE  Knows(p)'
<1> DEFINE i == at[p]
<1>1. /\ pc[p] = "restore" /\ i \in Entry /\ lock = p
      /\ pc'[p] = "rollback" /\ at'[p] = i - 1
      /\ UNCHANGED <<copy, lock, orig, critical, result>>
  BY Numbers DEF Restore, Previous, Goto, TypeOK, Looping, Knows, LockHeld, Steps, Undoing
<1>2. /\ Aside(p) /\ Kept(p) /\ CopyKnown(p) /\ PayloadFirst(p) /\ Backward(p)
      /\ pc[p] \in InFlight
  BY <1>1 DEF Knows, InFlight, Undoing
<1>3. /\ result[p] \in {"failed", "unconfirmed", "interrupted"}
      /\ \A j \in Entry : j > i /\ (j \in Receipt \/ ~ critical[p]) =>
           status[p][j] \in {"pending", "rolled-back", "recovery-failed"}
      /\ status[p][i] = "replaced"
  BY <1>1, <1>2 DEF Backward, Undoing
<1>4. \A j : /\ Concerned(p, j)' <=> Concerned(p, j)
             /\ Target(p, j)' = Target(p, j)
  BY <1>1, PlanFixed
<1>5. \A j \in Entry : j # i =>
         /\ live'[j] = live[j] /\ backup'[p][j] = backup[p][j]
         /\ status'[p][j] = status[p][j]
  BY <1>1 DEF Restore, PutBack, Mark, TypeOK
<1>6. /\ live'[i] = backup[p][i] /\ backup'[p][i] = Absent
      /\ status'[p][i] = "rolled-back"
  BY <1>1 DEF Restore, PutBack, Mark, TypeOK
<1>7. CopyKnown(p)' /\ Aside(p)'
  BY <1>1, <1>2, <1>4, <1>5, <1>6 DEF CopyKnown, Aside
<1>8. Kept(p)'
  <2>1. SUFFICES ASSUME ~ critical[p] PROVE Kept(p)'
    BY <1>1 DEF Kept
  <2>2. \A j \in Entry : j # i /\ Concerned(p, j) =>
           /\ status[p][j] \in {"pending", "rolled-back"} =>
                live[j] \in {orig[p][j], Mine}
           /\ status[p][j] \in {"backed-up", "replaced"} =>
                backup[p][j] \in {orig[p][j], Mine} \ {Absent}
           /\ status[p][j] = "backed-up" => live[j] \in {Absent, Mine}
           /\ status[p][j] = "created" => orig[p][j] = Absent
           /\ status[p][j] \in {"replaced", "created"} =>
                live[j] \in {Target(p, j), Mine}
    BY <1>1, <1>2, <2>1 DEF Kept
  <2>3. Concerned(p, i) => backup[p][i] \in {orig[p][i], Mine}
    BY <1>1, <1>2, <1>3, <2>1 DEF Kept
  <2> QED BY <1>1, <1>4, <1>5, <1>6, <2>2, <2>3 DEF Kept
<1>9. Backward(p)'
  BY <1>1, <1>3, <1>5, <1>6, Entries DEF Backward
<1>10. PayloadFirst(p)'
  <2>1. SUFFICES ASSUME ~ critical[p] PROVE PayloadFirst(p)'
    BY <1>1 DEF PayloadFirst
  <2>2. CASE i \in Artifact
    <3>1. \A r \in Receipt : r \in Entry /\ r > i
      BY <1>1, <2>2, Entries
    <3>2. \A r \in Receipt : status'[p][r] \notin {"replaced", "created"}
      BY <1>3, <1>5, <2>1, <3>1
    <3> QED BY <3>2 DEF PayloadFirst
  <2>3. CASE i \notin Artifact
    <3>1. \A j \in Artifact : j \in Entry /\ live'[j] = live[j]
      BY <1>5, <2>3, Entries
    <3>2. \A r \in Receipt : status'[p][r] \in {"replaced", "created"} =>
             live'[r] = live[r] /\ status'[p][r] = status[p][r]
      BY <1>5, <1>6, Entries
    <3> QED BY <1>1, <1>2, <1>4, <3>1, <3>2 DEF PayloadFirst
  <2> QED BY <2>2, <2>3
<1>11. /\ LockHeld(p)' /\ Calm(p)' /\ Pristine(p)' /\ Copied(p)' /\ Front(p)'
       /\ Complete(p)' /\ Settled(p)'
  BY <1>1 DEF LockHeld, Calm, Pristine, Copied, Front, Complete, Settled,
              Steps, Applying, Undoing
<1> QED BY <1>7, <1>8, <1>9, <1>10, <1>11 DEF Knows

\* At the end of a rollback that lost nothing all is as before.
LEMMA BackAtStart ==
    ASSUME NEW p \in Process, Knows(p), pc[p] \in {"rollback", "recovered"},
           at[p] = 0
    PROVE  /\ \A i \in Entry : i \in Receipt \/ ~ critical[p] =>
                status[p][i] \in {"pending", "rolled-back", "recovery-failed"}
           /\ critical[p] \/ IsOld(p)
           /\ result[p] \in {"failed", "unconfirmed", "interrupted"}
<1>1. /\ \A i \in Entry : i \in Receipt \/ ~ critical[p] =>
           status[p][i] \in {"pending", "rolled-back", "recovery-failed"}
      /\ result[p] \in {"failed", "unconfirmed", "interrupted"}
  BY Entries DEF Knows, Backward, Undoing
<1>2. ASSUME ~ critical[p]
      PROVE  IsOld(p)
  BY <1>1, <1>2 DEF Knows, CopyKnown, Kept, IsOld, InFlight, Undoing
<1> QED BY <1>1, <1>2

LEMMA UndoneKnows ==
    ASSUME TypeOK, NEW p \in Process, Knows(p), Undone(p)
    PROVE  Knows(p)'
<1>1. /\ pc[p] = "rollback" /\ at[p] = 0 /\ lock = p /\ at'[p] = 0
      /\ pc'[p] \in {"recovered", "clean"}
      /\ UNCHANGED <<live, lock, orig, status, critical, result>>
  BY DEF Undone, Goto, TypeOK, Knows, LockHeld, Steps, Undoing
<1>2. /\ CopyKnown(p)' /\ PayloadFirst(p)'
      /\ IsOld(p)' <=> IsOld(p)
      /\ \A i \in Entry : backup[p][i] = Absent => backup'[p][i] = Absent
  BY <1>1, QuietKeeps, CleanUpKeeps DEF Undone
<1>3. /\ \A i \in Entry : i \in Receipt \/ ~ critical[p] =>
           status[p][i] \in {"pending", "rolled-back", "recovery-failed"}
      /\ critical[p] \/ IsOld(p)
      /\ result[p] \in {"failed", "unconfirmed", "interrupted"}
  BY <1>1, BackAtStart
<1>4. Settled(p)'
  BY <1>1, <1>2, <1>3 DEF Settled
<1>5. CASE pc'[p] = "clean"
  BY <1>1, <1>2, <1>4, <1>5, EndKnows
<1>6. CASE pc'[p] = "recovered"
  <2>1. Aside(p)'
    BY <1>1, <1>2 DEF Knows, Aside, InFlight, Undoing
  <2>2. \A i : Concerned(p, i)' <=> Concerned(p, i)
    BY <1>1, PlanFixed
  <2>3. Kept(p)'
    BY <1>1, <1>3, <1>6, <2>2 DEF Knows, CopyKnown, Kept, InFlight, Undoing
  <2>4. Backward(p)'
    BY <1>1, <1>3, <1>6 DEF Backward
  <2>5. /\ LockHeld(p)' /\ Calm(p)' /\ Pristine(p)' /\ Copied(p)' /\ Front(p)'
        /\ Complete(p)'
    BY <1>1, <1>6 DEF LockHeld, Calm, Pristine, Copied, Front, Complete,
                      Steps, Applying, Undoing
  <2> QED BY <1>2, <1>4, <2>1, <2>3, <2>4, <2>5 DEF Knows
<1> QED BY <1>1, <1>5, <1>6

LEMMA RecoveredKnows ==
    ASSUME TypeOK, NEW p \in Process, Knows(p), Recovered(p)
    PROVE  Knows(p)'
<1>1. /\ pc[p] = "recovered" /\ pc'[p] = "clean" /\ lock' = p /\ at[p] = 0
      /\ UNCHANGED <<live, copy, backup, lock, orig, status, critical, result>>
  BY DEF Recovered, Goto, TypeOK, files, Knows, LockHeld, Backward, Steps, Undoing
<1>2. /\ CopyKnown(p)' /\ PayloadFirst(p)'
      /\ IsOld(p)' <=> IsOld(p)
  BY <1>1, QuietKeeps
<1>3. /\ critical[p] \/ IsOld(p)
      /\ result[p] \in {"failed", "unconfirmed", "interrupted"}
  BY <1>1, BackAtStart
<1>4. Settled(p)'
  BY <1>1, <1>2, <1>3 DEF Settled
<1> QED BY <1>1, <1>2, <1>4, EndKnows

LEMMA InterruptKnows ==
    ASSUME TypeOK, NEW p \in Process, Knows(p), Interrupt(p)
    PROVE  Knows(p)'
<1>1. /\ pc[p] \in InFlight \ {"restore"} /\ Last \in 0 .. Last
      /\ \A i \in Entry : ~ i > Last
      /\ UNCHANGED <<live, copy, backup, lock, orig, status, critical>>
  BY Entries DEF Interrupt, files, InFlight, Applying, Undoing
<1> QED BY <1>1, RecoverKeeps DEF Interrupt

LEMMA KillKnows ==
    ASSUME TypeOK, NEW p \in Process, Knows(p), Kill(p)
    PROVE  Knows(p)'
<1>1. /\ pc'[p] = "killed"
      /\ UNCHANGED <<live, copy, backup, lock, orig, status, critical>>
  BY DEF Kill, Goto, TypeOK, files
<1>2. CopyKnown(p)' /\ PayloadFirst(p)'
  BY <1>1, QuietKeeps
<1> QED BY <1>1, <1>2 DEF Knows, LockHeld, Calm, Pristine, Aside, Kept, Copied,
           Front, Complete, Backward, Settled, InFlight, Steps, Applying, Undoing


LEMMA StepKnows ==
    ASSUME TypeOK, NEW p \in Process, Knows(p),
           Step(p) \/ Interrupt(p) \/ InterruptIdle(p) \/ Kill(p)
    PROVE  Knows(p)'
BY AcquireKnows, PlanKnows, StageKnows, StageFailsKnows, CheckKnows,
   BackUpKnows, BackUpFailsKnows, PlaceKnows, PlaceFailsKnows,
   ReappearedKnows, VerifyKnows, ConfirmKnows, VerifyFailsKnows, DiscardKnows,
   TidyKnows, ReleaseKnows, UndoKnows, UndoFailsKnows, RestoreKnows,
   RestoreFailsKnows, UndoneKnows, RecoveredKnows, InterruptKnows,
   InterruptIdleKnows, KillKnows DEF Step

-----------------------------------------------------------------------------
(* The other installers, and people.                                       *)

\* A step of p changes the lock and p's own entries only.
OwnOnly(p) ==
    \A q \in Process \ {p} :
        /\ pc'[q] = pc[q] /\ at'[q] = at[q] /\ orig'[q] = orig[q]
        /\ copy'[q] = copy[q] /\ backup'[q] = backup[q]
        /\ status'[q] = status[q] /\ critical'[q] = critical[q]
        /\ result'[q] = result[q]

LEMMA RecoverOwn ==
    ASSUME TypeOK, NEW p \in Process, NEW k, NEW how, Recover(p, k, how)
    PROVE  \A q \in Process \ {p} :
             pc'[q] = pc[q] /\ at'[q] = at[q] /\ result'[q] = result[q]
BY DEF TypeOK, Recover, Goto, Finish

LEMMA StepOwn ==
    ASSUME TypeOK, NEW p \in Process,
           Step(p) \/ Interrupt(p) \/ InterruptIdle(p) \/ Kill(p)
    PROVE  OwnOnly(p)
<1> USE DEF TypeOK, OwnOnly, Goto, Finish, Mark, Alarm, Previous, files
<1>1. CASE Acquire(p)
  BY <1>1 DEF Acquire
<1>2. CASE Plan(p)
  BY <1>2 DEF Plan
<1>3. CASE Stage(p) \/ StageFails(p)
  BY <1>3 DEF Stage, StageFails
<1>4. CASE Check(p)
  BY <1>4 DEF Check, Recover, Advance
<1>5. CASE BackUp(p) \/ BackUpFails(p)
  BY <1>5 DEF BackUp, BackUpFails, Recover, Advance
<1>6. CASE Place(p) \/ PlaceFails(p)
  BY <1>6 DEF Place, PlaceFails, Recover, Advance
<1>7. CASE Reappeared(p)
  BY <1>7 DEF Reappeared, Recover
<1>8. CASE Verify(p) \/ Confirm(p) \/ VerifyFails(p)
  BY <1>8 DEF Verify, Confirm, VerifyFails, Recover
<1>9. CASE Discard(p)
  BY <1>9 DEF Discard
<1>10. CASE Tidy(p)
  BY <1>10 DEF Tidy, CleanUp
<1>11. CASE Release(p)
  BY <1>11 DEF Release
<1>12. CASE Undo(p)
  BY <1>12 DEF Undo, MoveAside, PutBack
<1>13. CASE UndoFails(p) \/ RestoreFails(p)
  BY <1>13 DEF UndoFails, RestoreFails, GiveUp
<1>14. CASE Restore(p)
  BY <1>14 DEF Restore, PutBack
<1>15. CASE Undone(p)
  BY <1>15 DEF Undone, CleanUp
<1>16. CASE Recovered(p) \/ Interrupt(p) \/ Kill(p)
  BY <1>16 DEF Recovered, Interrupt, Kill, Recover
<1>17. CASE InterruptIdle(p)
  BY <1>17 DEF InterruptIdle, CleanUp
<1> QED BY <1>1, <1>2, <1>3, <1>4, <1>5, <1>6, <1>7, <1>8, <1>9, <1>10, <1>11,
           <1>12, <1>13, <1>14, <1>15, <1>16, <1>17 DEF Step

\* The files are touched under the lock, which nobody else has then.
LEMMA StepHolds ==
    ASSUME TypeOK, NEW p \in Process, LockHeld(p),
           Step(p) \/ Interrupt(p) \/ InterruptIdle(p) \/ Kill(p)
    PROVE  \/ lock = p /\ lock' \in {p, Free}
           \/ lock = Free /\ lock' = p
           \/ UNCHANGED <<live, lock>>
<1>1. CASE Acquire(p)
  BY <1>1 DEF Acquire, files
<1>2. CASE Release(p)
  BY <1>2 DEF Release, LockHeld, Steps
<1>3. CASE ~ Acquire(p) /\ ~ Release(p)
  <2>1. UNCHANGED lock
    BY <1>3 DEF Step, Plan, Stage, StageFails, Check, BackUp, BackUpFails,
       Place, PlaceFails, Reappeared, Verify, Confirm, VerifyFails, Discard,
       Tidy, Undo, UndoFails, Restore, RestoreFails, Undone, Recovered,
       Interrupt, InterruptIdle, Kill
  <2>2. pc[p] \in Steps
    BY <1>3 DEF Step, Plan, Stage, StageFails, Check, BackUp, BackUpFails,
       Place, PlaceFails, Reappeared, Verify, Confirm, VerifyFails, Discard,
       Tidy, Undo, UndoFails, Restore, RestoreFails, Undone, Recovered,
       Interrupt, InterruptIdle, Kill, Steps, Applying, Undoing
  <2> QED BY <2>1, <2>2 DEF LockHeld
<1> QED BY <1>1, <1>2, <1>3

LEMMA OthersKnow ==
    ASSUME NEW p \in Process, NEW q \in Process \ {p}, OwnOnly(p), Knows(q),
           \/ lock = p /\ lock' \in {p, Free}
           \/ lock = Free /\ lock' = p
           \/ UNCHANGED <<live, lock>>
    PROVE  Knows(q)'
<1>1. /\ pc'[q] = pc[q] /\ at'[q] = at[q] /\ orig'[q] = orig[q]
      /\ copy'[q] = copy[q] /\ backup'[q] = backup[q]
      /\ status'[q] = status[q] /\ critical'[q] = critical[q]
      /\ result'[q] = result[q]
  BY DEF OwnOnly
<1>2. \A i : /\ Concerned(q, i)' <=> Concerned(q, i)
             /\ Target(q, i)' = Target(q, i)
  BY <1>1, PlanFixed
<1>3. CopyKnown(q)' /\ Calm(q)' /\ Pristine(q)'
  BY <1>1, <1>2 DEF Knows, CopyKnown, Calm, Pristine
<1>4. CASE UNCHANGED <<live, lock>>
  <2>1. LockHeld(q)' /\ Aside(q)' /\ Kept(q)' /\ Copied(q)'
    BY <1>1, <1>2, <1>4 DEF Knows, LockHeld, Aside, Kept, Copied
  <2>2. \A i : Done(q, i)' <=> Done(q, i)
    BY <1>1, <1>2 DEF Done
  <2>3. Front(q)' /\ Backward(q)'
    BY <1>1, <1>2, <1>4, <2>2 DEF Knows, Front, Backward
  <2>4. (IsNew(q)' <=> IsNew(q)) /\ (IsOld(q)' <=> IsOld(q))
    BY <1>1, <1>2, <1>4 DEF IsNew, IsOld
  <2>5. Complete(q)' /\ Settled(q)' /\ PayloadFirst(q)'
    BY <1>1, <1>2, <1>4, <2>2, <2>4 DEF Knows, Complete, Settled, PayloadFirst
  <2> QED BY <1>3, <2>1, <2>3, <2>5 DEF Knows
<1>5. CASE ~ UNCHANGED <<live, lock>>
  <2>1. pc[q] \notin Steps /\ lock' # q
    BY <1>5, InstallerAssumption DEF Knows, LockHeld
  <2> QED BY <1>1, <1>3, <2>1 DEF Knows, LockHeld, Aside, Kept, Copied, Front,
             Complete, Backward, Settled, PayloadFirst, InFlight, Steps,
             Applying, Undoing
<1> QED BY <1>4, <1>5

LEMMA EditKnows ==
    ASSUME TypeOK, NEW p \in Process, Knows(p), Edit
    PROVE  Knows(p)'
<1>1. PICK i \in Entry : live' = [live EXCEPT ![i] = Mine]
  BY DEF Edit
<1>2. /\ UNCHANGED <<copy, backup, lock, pc, at, orig, status, critical, result>>
      /\ pc[p] # "restore"
      /\ \A j \in Entry : live'[j] \in {live[j], Mine}
  BY <1>1 DEF Edit, TypeOK
<1>3. \A j : /\ Concerned(p, j)' <=> Concerned(p, j)
             /\ Target(p, j)' = Target(p, j)
  BY <1>2, PlanFixed
<1>4. /\ LockHeld(p)' /\ Calm(p)' /\ Pristine(p)' /\ CopyKnown(p)' /\ Aside(p)'
      /\ Copied(p)'
  BY <1>2, <1>3 DEF Knows, LockHeld, Calm, Pristine, CopyKnown, Aside, Copied
<1>5. Kept(p)'
  BY <1>2, <1>3 DEF Knows, Kept
<1>6. \A j : Done(p, j)' <=> Done(p, j)
  BY <1>2, <1>3 DEF Done
<1>7. Front(p)' /\ Backward(p)'
  BY <1>2, <1>3, <1>6 DEF Knows, Front, Backward
<1>8. (IsNew(p) => IsNew(p)') /\ (IsOld(p) => IsOld(p)')
  BY <1>2, <1>3 DEF IsNew, IsOld
<1>9. Complete(p)' /\ Settled(p)'
  BY <1>2, <1>3, <1>6, <1>8 DEF Knows, Complete, Settled
<1>10. PayloadFirst(p)'
  <2>1. \A r \in Receipt : Target(p, r) # Mine /\ r \in Entry
    BY Entries, Targets
  <2>2. \A j \in Artifact : j \in Entry
    BY Entries
  <2> QED BY <1>2, <1>3, <2>1, <2>2 DEF Knows, PayloadFirst
<1> QED BY <1>4, <1>5, <1>7, <1>9, <1>10 DEF Knows

LEMMA ClearLockKnows ==
    ASSUME NEW p \in Process, Knows(p), ClearLock
    PROVE  Knows(p)'
<1>1. PICK q \in Process : lock = q /\ pc[q] = "killed"
  BY DEF ClearLock
<1>2. /\ UNCHANGED <<live, copy, backup, pc, at, orig, status, critical, result>>
      /\ lock' # p /\ pc[p] \notin Steps
  BY <1>1, InstallerAssumption
     DEF ClearLock, files, Knows, LockHeld, Steps, Applying, Undoing
<1>3. CopyKnown(p)' /\ Calm(p)' /\ Pristine(p)'
  BY <1>2, PlanFixed DEF Knows, CopyKnown, Calm, Pristine
<1> QED BY <1>2, <1>3 DEF Knows, LockHeld, Aside, Kept, Copied, Front,
           Complete, Backward, Settled, PayloadFirst, InFlight, Steps,
           Applying, Undoing

LEMMA IdleKnows ==
    ASSUME NEW p \in Process, Knows(p), UNCHANGED vars
    PROVE  Knows(p)'
<1>1. /\ UNCHANGED <<live, copy, backup, lock, orig, status, critical>>
      /\ UNCHANGED <<pc, at, result>>
  BY DEF vars, files
<1>2. /\ CopyKnown(p)' /\ PayloadFirst(p)'
      /\ IsOld(p)' <=> IsOld(p)
      /\ IsNew(p)' <=> IsNew(p)
      /\ \A i : Done(p, i)' <=> Done(p, i)
  BY <1>1, QuietKeeps
<1>3. \A i : /\ Concerned(p, i)' <=> Concerned(p, i)
             /\ Target(p, i)' = Target(p, i)
  BY <1>1, PlanFixed
<1>4. /\ LockHeld(p)' /\ Calm(p)' /\ Pristine(p)' /\ Aside(p)' /\ Kept(p)'
      /\ Copied(p)'
  BY <1>1, <1>3 DEF Knows, LockHeld, Calm, Pristine, Aside, Kept, Copied
<1>5. Front(p)' /\ Complete(p)' /\ Backward(p)' /\ Settled(p)'
  BY <1>1, <1>2, <1>3 DEF Knows, Front, Complete, Backward, Settled
<1> QED BY <1>2, <1>4, <1>5 DEF Knows

LEMMA InitKnows ==
    ASSUME Init, NEW p \in Process
    PROVE  Knows(p)
<1>1. /\ lock # p /\ pc[p] = "idle" /\ ~ critical[p] /\ copy[p] = Nothing
      /\ backup[p] = Nothing /\ status[p] = [i \in Entry |-> "pending"]
  BY InstallerAssumption DEF Init
<1>2. CopyKnown(p)
  BY <1>1 DEF CopyKnown, Nothing
<1> QED BY <1>1, <1>2 DEF Knows, LockHeld, Calm, Pristine, Aside, Kept, Copied,
           Front, Complete, Backward, Settled, PayloadFirst, InFlight, Steps,
           Applying, Undoing

LEMMA InvariantStep ==
    ASSUME InstallerInv, [Next]_vars
    PROVE  InstallerInv'
<1>1. TypeOK /\ TypeOK' /\ \A p \in Process : Knows(p)
  BY TypeStep DEF InstallerInv
<1>2. ASSUME NEW q \in Process
      PROVE  Knows(q)'
  <2>1. CASE \E p \in Process : Step(p) \/ Interrupt(p) \/ InterruptIdle(p) \/ Kill(p)
    <3>1. PICK p \in Process : Step(p) \/ Interrupt(p) \/ InterruptIdle(p) \/ Kill(p)
      BY <2>1
    <3>2. CASE p = q
      BY <1>1, <3>1, <3>2, StepKnows
    <3>3. CASE p # q
      <4>1. OwnOnly(p) /\ Knows(q) /\ LockHeld(p) /\ q \in Process \ {p}
        BY <1>1, <1>2, <3>1, <3>3, StepOwn DEF Knows
      <4>2. \/ lock = p /\ lock' \in {p, Free}
            \/ lock = Free /\ lock' = p
            \/ UNCHANGED <<live, lock>>
        BY <1>1, <3>1, <4>1, StepHolds
      <4> QED BY <4>1, <4>2, OthersKnow
    <3> QED BY <3>2, <3>3
  <2>2. CASE Edit
    BY <1>1, <2>2, EditKnows
  <2>3. CASE ClearLock
    BY <1>1, <2>3, ClearLockKnows
  <2>4. CASE UNCHANGED vars
    BY <1>1, <2>4, IdleKnows
  <2> QED BY <2>1, <2>2, <2>3, <2>4, InstallerSteps
<1> QED BY <1>1, <1>2 DEF InstallerInv

\* What an installer knows of the files it works on stays true, whatever
\* fails and whoever interferes.
THEOREM InstallersKnow == Spec => []InstallerInv
<1>1. Init => InstallerInv
  BY TypeInit, InitKnows DEF InstallerInv
<1>2. InstallerInv /\ [Next]_vars => InstallerInv'
  BY InvariantStep
<1> QED BY <1>1, <1>2, PTL DEF Spec

\* An installer about to unlock leaves the old version, the new one or a
\* CRITICAL (force_update_transaction, handle_transaction_signal).
THEOREM AlwaysAllOrNothing == Spec => []AllOrNothing
<1>1. InstallerInv => AllOrNothing
  BY DEF InstallerInv, Knows, Settled, AllOrNothing
<1> QED BY <1>1, InstallersKnow, PTL

\* No receipt tells of a payload that is not there, even after a kill
\* (apply_force_update_receipts, rollback_force_update_receipts).
THEOREM ReceiptsNeverAhead == Spec => []ReceiptNeverAhead
<1>1. InstallerInv => ReceiptNeverAhead
  BY DEF InstallerInv, Knows, PayloadFirst, ReceiptNeverAhead
<1> QED BY <1>1, InstallersKnow, PTL


-----------------------------------------------------------------------------
(* Nothing is destroyed.                                                   *)

\* What p's step takes from a place it puts in another, or may dispose of.
Safe(p) ==
    \A i \in Entry : \A c \in {live[i], copy[p][i], backup[p][i]} \ {Absent} :
        \/ c \in {live'[i], copy'[p][i], backup'[p][i]}
        \/ lock = p /\ c \in Disposable(p, i)

\* A new file is nobody's loss.
LEMMA CopyDisposable ==
    ASSUME NEW p \in Process, Knows(p), NEW i \in Entry
    PROVE  copy[p][i] \in Disposable(p, i) \cup {Absent}
BY DEF Knows, CopyKnown, Disposable

LEMMA StageSafe ==
    ASSUME TypeOK, NEW p \in Process, Knows(p), Stage(p)
    PROVE  Safe(p)
<1>1. lock = p /\ UNCHANGED <<live, backup>>
  BY DEF Stage, Knows, LockHeld, Steps
<1> QED BY <1>1, CopyDisposable DEF Safe

LEMMA BackUpSafe ==
    ASSUME TypeOK, NEW p \in Process, Knows(p), BackUp(p)
    PROVE  Safe(p)
<1>1. /\ at[p] \in Entry /\ pc[p] = "backup"
      /\ copy' = copy
  BY Numbers DEF BackUp, Looping
<1>2. backup[p][at[p]] = Absent
  BY <1>1 DEF Knows, Front, Aside, InFlight, Applying
<1>3. \A i \in Entry : i # at[p] =>
         live'[i] = live[i] /\ backup'[p][i] = backup[p][i]
  BY <1>1 DEF BackUp, TypeOK
<1>4. \/ backup'[p][at[p]] = live[at[p]]
      \/ live'[at[p]] = live[at[p]]
  BY <1>1 DEF BackUp, TypeOK
<1> QED BY <1>1, <1>2, <1>3, <1>4 DEF Safe

LEMMA PlaceSafe ==
    ASSUME TypeOK, NEW p \in Process, Knows(p), Place(p)
    PROVE  Safe(p)
<1>1. /\ at[p] \in Entry /\ live[at[p]] = Absent
      /\ backup' = backup
  BY Numbers DEF Place, Looping
<1>2. \A i \in Entry : i # at[p] =>
         live'[i] = live[i] /\ copy'[p][i] = copy[p][i]
  BY <1>1 DEF Place, TypeOK
<1>3. live'[at[p]] = copy[p][at[p]]
  BY <1>1 DEF Place, TypeOK
<1> QED BY <1>1, <1>2, <1>3 DEF Safe

LEMMA DiscardSafe ==
    ASSUME TypeOK, NEW p \in Process, Knows(p), Discard(p)
    PROVE  Safe(p)
<1>1. lock = p /\ IsNew(p) /\ UNCHANGED <<live, copy>>
  BY AllDone DEF Discard, Knows, LockHeld, Steps
<1>2. \A i \in Entry : \/ backup'[p][i] = backup[p][i]
                       \/ backup[p][i] \in {orig[p][i], Absent}
  BY DEF Discard, TypeOK
<1> QED BY <1>1, <1>2 DEF Safe, Disposable

LEMMA CleanUpSafe ==
    ASSUME TypeOK, NEW p \in Process, Knows(p), CleanUp(p), UNCHANGED live,
           lock = p,
           \/ IsNew(p)
           \/ \A i \in Receipt : status[p][i] # "recovery-failed" =>
                backup[p][i] = Absent
    PROVE  Safe(p)
<1>1. \A i \in Entry :
         \/ backup'[p][i] = backup[p][i]
         \/ /\ i \in Receipt /\ status[p][i] # "recovery-failed"
            /\ backup[p][i] = orig[p][i]
  BY DEF CleanUp, Swept, TypeOK
<1>2. \A i \in Entry : backup[p][i] # backup'[p][i] /\ backup[p][i] # Absent =>
         backup[p][i] \in Disposable(p, i)
  BY <1>1 DEF Disposable
<1> QED BY <1>2, CopyDisposable DEF Safe

LEMMA TidySafe ==
    ASSUME TypeOK, NEW p \in Process, Knows(p), Tidy(p)
    PROVE  Safe(p)
<1>1. lock = p /\ IsNew(p) /\ UNCHANGED live
  BY AllDone DEF Tidy, Knows, LockHeld, Steps
<1> QED BY <1>1, CleanUpSafe DEF Tidy

LEMMA InterruptIdleSafe ==
    ASSUME TypeOK, NEW p \in Process, Knows(p), InterruptIdle(p)
    PROVE  Safe(p)
<1>1. lock = p /\ UNCHANGED live /\ CleanUp(p)
  BY DEF InterruptIdle, Knows, LockHeld, Steps
<1>2. CASE pc[p] \in {"discard", "tidy"}
  BY <1>1, <1>2, AllDone, CleanUpSafe
<1>3. CASE pc[p] \in {"locked", "stage"}
  <2>1. \A i \in Receipt : backup[p][i] = Absent
    BY <1>3, Entries DEF Knows, Pristine, Nothing
  <2> QED BY <1>1, <2>1, CleanUpSafe
<1> QED BY <1>2, <1>3 DEF InterruptIdle

LEMMA UndoneSafe ==
    ASSUME TypeOK, NEW p \in Process, Knows(p), Undone(p)
    PROVE  Safe(p)
<1>1. lock = p /\ UNCHANGED live /\ pc[p] = "rollback" /\ at[p] = 0
  BY DEF Undone, Knows, LockHeld, Steps, Undoing
<1>2. \A i \in Receipt : status[p][i] # "recovery-failed" => backup[p][i] = Absent
  BY <1>1, BackAtStart, Entries DEF Knows, Aside, InFlight, Undoing
<1>3. CASE CleanUp(p)
  BY <1>1, <1>2, <1>3, CleanUpSafe
<1>4. CASE UNCHANGED <<copy, backup>>
  BY <1>1, <1>4 DEF Safe
<1> QED BY <1>3, <1>4 DEF Undone

LEMMA UndoSafe ==
    ASSUME TypeOK, NEW p \in Process, Knows(p), Undo(p)
    PROVE  Safe(p)
<1>1. at[p] \in Entry /\ lock = p
  BY Entries, Numbers DEF Undo, Knows, LockHeld, Steps, Undoing
<1>2. \A i \in Entry : i # at[p] =>
         /\ live'[i] = live[i] /\ copy'[p][i] = copy[p][i]
         /\ backup'[p][i] = backup[p][i]
  BY <1>1 DEF Undo, MoveAside, PutBack, files, TypeOK
<1>3. \/ copy'[p][at[p]] = live[at[p]] /\ backup'[p][at[p]] = backup[p][at[p]]
      \/ /\ live[at[p]] = Absent /\ live'[at[p]] = backup[p][at[p]]
         /\ copy'[p][at[p]] = copy[p][at[p]]
      \/ UNCHANGED files
  BY <1>1 DEF Undo, MoveAside, PutBack, TypeOK
<1>4. copy[p][at[p]] \in Disposable(p, at[p]) \cup {Absent}
  BY <1>1, CopyDisposable
<1> QED BY <1>1, <1>2, <1>3, <1>4 DEF Safe, files

LEMMA RestoreSafe ==
    ASSUME TypeOK, NEW p \in Process, Knows(p), Restore(p)
    PROVE  Safe(p)
<1>1. at[p] \in Entry /\ live[at[p]] = Absent /\ copy' = copy
  BY Numbers DEF Restore, Knows, Backward, Looping, Undoing
<1>2. \A i \in Entry : i # at[p] =>
         live'[i] = live[i] /\ backup'[p][i] = backup[p][i]
  BY <1>1 DEF Restore, PutBack, TypeOK
<1>3. live'[at[p]] = backup[p][at[p]]
  BY <1>1 DEF Restore, PutBack, TypeOK
<1> QED BY <1>1, <1>2, <1>3 DEF Safe

LEMMA StepSafe ==
    ASSUME TypeOK, NEW p \in Process, Knows(p),
           Step(p) \/ Interrupt(p) \/ InterruptIdle(p) \/ Kill(p)
    PROVE  Safe(p)
<1>1. UNCHANGED files => Safe(p)
  BY DEF Safe, files
<1>2. CASE UNCHANGED files
  BY <1>1, <1>2
<1>3. CASE Stage(p) \/ BackUp(p) \/ Place(p) \/ Discard(p) \/ Tidy(p)
             \/ InterruptIdle(p) \/ Undone(p) \/ Undo(p) \/ Restore(p)
  BY <1>3, StageSafe, BackUpSafe, PlaceSafe, DiscardSafe, TidySafe,
     InterruptIdleSafe, UndoneSafe, UndoSafe, RestoreSafe
<1> QED BY <1>2, <1>3 DEF Step, Acquire, Plan, StageFails, Check, BackUpFails,
           PlaceFails, Reappeared, Verify, Confirm, VerifyFails, Release,
           UndoFails, RestoreFails, Recovered, Interrupt, Kill

\* The action of NothingDestroyed.
Spared ==
    \A i \in Entry : \A c \in Held(i) \ (Held(i)' \cup {Absent}) :
        \/ edits' # edits /\ c = live[i]
        \/ \E p \in Process : lock = p /\ c \in Disposable(p, i)

LEMMA StepSpares ==
    ASSUME TypeOK, NEW p \in Process, OwnOnly(p), Safe(p)
    PROVE  Spared
<1> SUFFICES ASSUME NEW i \in Entry, NEW c \in Held(i), c \notin Held(i)',
                    c # Absent
             PROVE  \E q \in Process : lock = q /\ c \in Disposable(q, i)
  BY DEF Spared
<1>1. /\ live'[i] \in Held(i)' /\ copy'[p][i] \in Held(i)'
      /\ backup'[p][i] \in Held(i)'
  BY DEF Held
<1>2. \A q \in Process \ {p} : copy[q][i] \in Held(i)' /\ backup[q][i] \in Held(i)'
  BY DEF Held, OwnOnly
<1>3. c \in {live[i], copy[p][i], backup[p][i]}
  BY <1>2 DEF Held
<1> QED BY <1>1, <1>3 DEF Safe

LEMMA EditSpares ==
    ASSUME TypeOK, Edit
    PROVE  Spared
<1>1. /\ edits' # edits /\ UNCHANGED <<copy, backup>>
  BY InstallerAssumption DEF Edit, TypeOK
<1> QED BY <1>1 DEF Spared, Held

\* No step removes the last copy of anything but its own new files and, once
\* all of the new version is in place, what it replaces
\* (rollback_force_update_*, cleanup_*, discard_verified_transaction_originals).
THEOREM NothingEverDestroyed == Spec => NothingDestroyed
<1>1. InstallerInv /\ [Next]_vars => [Spared]_vars
  <2> SUFFICES ASSUME InstallerInv, [Next]_vars
               PROVE  [Spared]_vars
    OBVIOUS
  <2>1. TypeOK /\ \A p \in Process : Knows(p)
    BY DEF InstallerInv
  <2>2. CASE \E p \in Process : Step(p) \/ Interrupt(p) \/ InterruptIdle(p) \/ Kill(p)
    <3>1. PICK p \in Process : Step(p) \/ Interrupt(p) \/ InterruptIdle(p) \/ Kill(p)
      BY <2>2
    <3>2. OwnOnly(p) /\ Safe(p)
      BY <2>1, <3>1, StepOwn, StepSafe
    <3> QED BY <2>1, <3>2, StepSpares
  <2>3. CASE Edit
    BY <2>1, <2>3, EditSpares
  <2>4. CASE ClearLock
    BY <2>4 DEF ClearLock, files, Spared, Held
  <2> QED BY <2>2, <2>3, <2>4, InstallerSteps
<1>2. Spec => [][Spared]_vars
  BY <1>1, InstallersKnow, PTL DEF Spec
<1> QED BY <1>2 DEF NothingDestroyed, Spared

-----------------------------------------------------------------------------
(* Every installer ends.                                                   *)

\* How far an installer is from its end.  A rollback after a failure may be
\* followed by one after a signal, but not the reverse; the pass of a loop
\* that has come to entry k has the entries behind it before it.
SignalledUndo(k) == 2 + 2 * k
FailedUndo(k) == SignalledUndo(Last) + 2 + 2 * k
UndoFrom(how, k) == IF how = "failed" THEN FailedUndo(k) ELSE SignalledUndo(k)
ApplyFrom(k) == FailedUndo(Last) + 1 + 4 * (Last - k)

Far(label, k, how) ==
    CASE label = "idle" -> ApplyFrom(0) + 3
      [] label = "locked" -> ApplyFrom(0) + 2
      [] label = "stage" -> ApplyFrom(0) + 1
      [] label = "verify" -> ApplyFrom(k) + 4
      [] label = "check" -> ApplyFrom(k) + 3
      [] label = "backup" -> ApplyFrom(k) + 2
      [] label = "place" -> ApplyFrom(k) + 1
      [] label = "confirm" -> ApplyFrom(Last)
      [] label = "rollback" -> UndoFrom(how, k)
      [] label = "restore" -> UndoFrom(how, k) - 1
      [] label = "recovered" -> FailedUndo(0) - 1
      [] label = "discard" -> 3
      [] label = "tidy" -> 2
      [] label = "clean" -> 1
      [] OTHER -> 0

Distance(p) == Far(pc[p], at[p], result[p])

\* Each step of an installer brings it closer to its end, and nobody else's
\* takes it away from it.
Approaches ==
    \A p \in Process :
       IF Step(p) \/ Interrupt(p) \/ InterruptIdle(p) \/ Kill(p)
         THEN Distance(p)' < Distance(p)
         ELSE UNCHANGED Distance(p)

\* The values of Far.
LEMMA FarValues ==
    ASSUME NEW k \in 0 .. Last, NEW how
    PROVE  /\ Last \in Nat /\ k \in Nat /\ k <= Last
           /\ Far("idle", k, how) = 8 * Last + 8
           /\ Far("locked", k, how) = 8 * Last + 7
           /\ Far("stage", k, how) = 8 * Last + 6
           /\ Far("verify", k, how) = 8 * Last + 9 - 4 * k
           /\ Far("check", k, how) = 8 * Last + 8 - 4 * k
           /\ Far("backup", k, how) = 8 * Last + 7 - 4 * k
           /\ Far("place", k, how) = 8 * Last + 6 - 4 * k
           /\ Far("confirm", k, how) = 4 * Last + 5
           /\ how = "failed" => Far("rollback", k, how) = 2 * Last + 4 + 2 * k
           /\ how # "failed" => Far("rollback", k, how) = 2 + 2 * k
           /\ how = "failed" => Far("restore", k, how) = 2 * Last + 3 + 2 * k
           /\ how # "failed" => Far("restore", k, how) = 1 + 2 * k
           /\ Far("recovered", k, how) = 2 * Last + 3
           /\ Far("discard", k, how) = 3
           /\ Far("tidy", k, how) = 2
           /\ Far("clean", k, how) = 1
           /\ Far("ended", k, how) = 0
           /\ Far("killed", k, how) = 0
<1>1. Last \in Nat /\ k \in Nat /\ k <= Last
  BY Entries
<1>2. /\ SignalledUndo(k) = 2 + 2 * k
      /\ FailedUndo(k) = 2 * Last + 4 + 2 * k
      /\ FailedUndo(0) = 2 * Last + 4
      /\ FailedUndo(Last) = 4 * Last + 4
  BY <1>1 DEF FailedUndo, SignalledUndo
<1>3. /\ ApplyFrom(k) = 8 * Last + 5 - 4 * k
      /\ ApplyFrom(0) = 8 * Last + 5
      /\ ApplyFrom(Last) = 4 * Last + 5
  BY <1>1, <1>2 DEF ApplyFrom
<1>4. /\ how = "failed" => UndoFrom(how, k) = 2 * Last + 4 + 2 * k
      /\ how # "failed" => UndoFrom(how, k) = 2 + 2 * k
  BY <1>2 DEF UndoFrom
<1>5. /\ Far("idle", k, how) = ApplyFrom(0) + 3
      /\ Far("locked", k, how) = ApplyFrom(0) + 2
      /\ Far("stage", k, how) = ApplyFrom(0) + 1
      /\ Far("verify", k, how) = ApplyFrom(k) + 4
      /\ Far("check", k, how) = ApplyFrom(k) + 3
      /\ Far("backup", k, how) = ApplyFrom(k) + 2
      /\ Far("place", k, how) = ApplyFrom(k) + 1
      /\ Far("confirm", k, how) = ApplyFrom(Last)
      /\ Far("rollback", k, how) = UndoFrom(how, k)
      /\ Far("restore", k, how) = UndoFrom(how, k) - 1
      /\ Far("recovered", k, how) = FailedUndo(0) - 1
  BY DEF Far
<1>6. /\ Far("discard", k, how) = 3
      /\ Far("tidy", k, how) = 2
      /\ Far("clean", k, how) = 1
      /\ Far("ended", k, how) = 0
      /\ Far("killed", k, how) = 0
  BY DEF Far
<1> QED BY <1>1, <1>2, <1>3, <1>4, <1>5, <1>6

\* A rollback begins closer to the end than anything it follows.
LEMMA RecoverApproaches ==
    ASSUME TypeOK, NEW p \in Process, NEW k \in 0 .. Last, NEW how,
           Recover(p, k, how), pc[p] \in Applying
    PROVE  Distance(p)' < Distance(p)
<1>1. at[p] \in 0 .. Last /\ (pc[p] \in Looping => at[p] <= Last)
  BY Numbers
<1>2. pc'[p] = "rollback" /\ at'[p] = k /\ result'[p] = how
  BY DEF TypeOK, Recover, Goto, Finish
<1>3. Distance(p) >= 4 * Last + 5
  BY <1>1, FarValues DEF Distance, Applying
<1>4. Distance(p)' <= 4 * Last + 4
  BY <1>2, FarValues DEF Distance
<1>5. Distance(p) \in Nat /\ Distance(p)' \in Nat
  BY <1>1, <1>2, FarValues DEF Distance, Applying
<1> QED BY <1>3, <1>4, <1>5, Entries

LEMMA AdvanceApproaches ==
    ASSUME TypeOK, NEW p \in Process, Advance(p),
           pc[p] \in {"check", "backup", "place"}
    PROVE  Distance(p)' < Distance(p)
<1>1. at[p] \in Entry /\ at[p] \in 0 .. Last
  BY Numbers DEF Looping
<1>2. CASE at[p] = Last
  <2>1. pc'[p] = "confirm" /\ at'[p] = Last
    BY <1>2 DEF TypeOK, Advance, Goto
  <2> QED BY <1>1, <1>2, <2>1, FarValues DEF Distance
<1>3. CASE at[p] # Last
  <2>1. pc'[p] \in {"verify", "check"} /\ at'[p] = at[p] + 1
    BY <1>3 DEF TypeOK, Advance, Goto
  <2>2. at[p] + 1 \in 0 .. Last
    BY <1>1, <1>3, Entries
  <2> QED BY <1>1, <2>1, <2>2, FarValues DEF Distance
<1> QED BY <1>2, <1>3

LEMMA PreviousApproaches ==
    ASSUME TypeOK, NEW p \in Process, at[p] > 0, Previous(p),
           pc[p] \in {"rollback", "restore"}, pc'[p] = "rollback",
           result'[p] = result[p]
    PROVE  Distance(p)' < Distance(p)
<1>1. at[p] \in 0 .. Last
  BY Numbers
<1>2. at'[p] = at[p] - 1 /\ at[p] - 1 \in 0 .. Last
  BY <1>1, Entries DEF TypeOK, Previous
<1> QED BY <1>1, <1>2, FarValues DEF Distance

LEMMA StepApproaches ==
    ASSUME TypeOK, NEW p \in Process,
           Step(p) \/ Interrupt(p) \/ InterruptIdle(p) \/ Kill(p)
    PROVE  Distance(p)' < Distance(p)
<1>0. /\ at[p] \in 0 .. Last /\ (pc[p] \in Looping => at[p] \in Entry)
      /\ pc \in [Process -> Steps \cup {"idle", "ended", "killed"}]
      /\ at \in [Process -> 0 .. Last] /\ result \in [Process -> Result]
  BY Numbers DEF TypeOK
<1>a. Last \in Nat /\ Last \in 0 .. Last /\ 1 \in 0 .. Last /\ 0 \in 0 .. Last
  BY Entries
<1> USE DEF Goto, Finish
<1>1. CASE Acquire(p)
  <2>1. pc[p] = "idle" /\ pc'[p] \in {"locked", "ended"} /\ at'[p] = at[p]
    BY <1>0, <1>1 DEF Acquire
  <2> QED BY <1>0, <1>a, <2>1, FarValues DEF Distance
<1>2. CASE Plan(p)
  <2>1. pc[p] = "locked" /\ pc'[p] \in {"stage", "clean"} /\ at'[p] = at[p]
    BY <1>0, <1>2 DEF Plan
  <2> QED BY <1>0, <1>a, <2>1, FarValues DEF Distance
<1>3. CASE Stage(p)
  <2>1. pc[p] = "stage" /\ pc'[p] = "check" /\ at'[p] = 1
    BY <1>0, <1>3 DEF Stage
  <2> QED BY <1>0, <1>a, <2>1, FarValues DEF Distance
<1>4. CASE StageFails(p)
  <2>1. pc[p] = "stage" /\ pc'[p] = "clean" /\ at'[p] = at[p]
    BY <1>0, <1>4 DEF StageFails
  <2> QED BY <1>0, <1>a, <2>1, FarValues DEF Distance
<1>5. CASE Check(p)
  <2>1. pc[p] = "check" /\ at[p] - 1 \in 0 .. Last
    BY <1>0, <1>5, Entries DEF Check, Looping
  <2>2. CASE Recover(p, at[p] - 1, "failed")
    BY <2>1, <2>2, RecoverApproaches DEF Applying
  <2>3. CASE Advance(p)
    BY <2>1, <2>3, AdvanceApproaches
  <2>4. CASE Goto(p, "backup") /\ UNCHANGED at
    <3>1. pc'[p] = "backup" /\ at'[p] = at[p]
      BY <1>0, <2>4
    <3> QED BY <1>0, <1>a, <2>1, <3>1, FarValues DEF Distance
  <2> QED BY <1>5, <2>2, <2>3, <2>4 DEF Check
<1>6. CASE BackUp(p)
  <2>1. pc[p] = "backup"
    BY <1>6 DEF BackUp
  <2>2. CASE Advance(p)
    BY <2>1, <2>2, AdvanceApproaches
  <2>3. CASE Goto(p, "place") /\ UNCHANGED at
    <3>1. pc'[p] = "place" /\ at'[p] = at[p]
      BY <1>0, <2>3
    <3> QED BY <1>0, <1>a, <2>1, <3>1, FarValues DEF Distance
  <2> QED BY <1>6, <2>2, <2>3 DEF BackUp
<1>7. CASE BackUpFails(p)
  <2>1. at[p] - 1 \in 0 .. Last
    BY <1>0, <1>7, Entries DEF BackUpFails, Looping
  <2> QED BY <1>7, <2>1, RecoverApproaches DEF BackUpFails, Applying
<1>8. CASE Place(p)
  BY <1>8, AdvanceApproaches DEF Place
<1>9. CASE PlaceFails(p)
  BY <1>0, <1>9, RecoverApproaches DEF PlaceFails, Applying
<1>10. CASE Reappeared(p)
  <2>1. at[p] - 1 \in 0 .. Last
    BY <1>0, <1>10, Entries DEF Reappeared, Looping
  <2> QED BY <1>10, <2>1, RecoverApproaches DEF Reappeared, Applying
<1>11. CASE Verify(p)
  <2>1. pc[p] = "verify" /\ NumArtifacts \in 0 .. Last
    BY <1>11, Entries DEF Verify
  <2>2. CASE Recover(p, NumArtifacts, "failed")
    BY <2>1, <2>2, RecoverApproaches DEF Applying
  <2>3. CASE Goto(p, "check") /\ UNCHANGED at
    <3>1. pc'[p] = "check" /\ at'[p] = at[p]
      BY <1>0, <2>3
    <3> QED BY <1>0, <1>a, <2>1, <3>1, FarValues DEF Distance
  <2> QED BY <1>11, <2>2, <2>3 DEF Verify
<1>12. CASE Confirm(p)
  <2>1. pc[p] = "confirm"
    BY <1>12 DEF Confirm
  <2>2. CASE Recover(p, Last, "unconfirmed")
    BY <1>a, <2>1, <2>2, RecoverApproaches DEF Applying
  <2>3. CASE Goto(p, "discard") /\ UNCHANGED at
    <3>1. pc'[p] = "discard" /\ at'[p] = at[p]
      BY <1>0, <2>3
    <3> QED BY <1>0, <1>a, <2>1, <3>1, FarValues DEF Distance
  <2> QED BY <1>12, <2>2, <2>3 DEF Confirm
<1>13. CASE VerifyFails(p)
  <2>1. NumArtifacts \in 0 .. Last
    BY Entries
  <2> QED BY <1>a, <1>13, <2>1, RecoverApproaches DEF VerifyFails, Applying
<1>14. CASE Discard(p)
  <2>1. pc[p] = "discard" /\ pc'[p] \in {"tidy", "clean"} /\ at'[p] = at[p]
    BY <1>0, <1>14 DEF Discard
  <2> QED BY <1>0, <1>a, <2>1, FarValues DEF Distance
<1>15. CASE Tidy(p)
  <2>1. pc[p] = "tidy" /\ pc'[p] = "clean" /\ at'[p] = at[p]
    BY <1>0, <1>15 DEF Tidy
  <2> QED BY <1>0, <1>a, <2>1, FarValues DEF Distance
<1>16. CASE Release(p)
  <2>1. pc[p] = "clean" /\ pc'[p] = "ended" /\ at'[p] = 0
    BY <1>0, <1>16 DEF Release
  <2> QED BY <1>0, <1>a, <2>1, FarValues DEF Distance
<1>17. CASE Undo(p)
  <2>1. pc[p] = "rollback" /\ at[p] > 0 /\ result'[p] = result[p]
    BY <1>17 DEF Undo
  <2>2. CASE UNCHANGED pc /\ Previous(p)
    BY <2>1, <2>2, PreviousApproaches
  <2>3. CASE Goto(p, "restore") /\ UNCHANGED at
    <3>1. pc'[p] = "restore" /\ at'[p] = at[p]
      BY <1>0, <2>3
    <3> QED BY <1>0, <1>a, <2>1, <3>1, FarValues DEF Distance
  <2> QED BY <1>17, <2>2, <2>3 DEF Undo
<1>18. CASE UndoFails(p)
  BY <1>18, PreviousApproaches DEF UndoFails
<1>19. CASE Restore(p) \/ RestoreFails(p)
  <2>1. /\ pc[p] = "restore" /\ pc'[p] = "rollback" /\ Previous(p)
        /\ result'[p] = result[p]
    BY <1>0, <1>19 DEF Restore, RestoreFails
  <2>2. at[p] > 0
    BY <1>0, <2>1, Entries DEF Looping
  <2> QED BY <2>1, <2>2, PreviousApproaches
<1>20. CASE Undone(p)
  <2>1. /\ pc[p] = "rollback" /\ at[p] = 0 /\ at'[p] = at[p]
        /\ result'[p] = result[p]
    BY <1>0, <1>20 DEF Undone
  <2>2. CASE result[p] = "failed"
    <3>1. pc'[p] = "recovered"
      BY <1>0, <1>20, <2>2 DEF Undone
    <3>2. Distance(p) = 2 * Last + 4 + 2 * at[p]
      BY <1>0, <2>1, <2>2, FarValues DEF Distance
    <3>3. Distance(p)' = 2 * Last + 3
      BY <1>0, <2>1, <3>1, FarValues DEF Distance
    <3> QED BY <1>a, <2>1, <3>2, <3>3
  <2>3. CASE result[p] # "failed"
    <3>1. pc'[p] = "clean"
      BY <1>0, <1>20, <2>3 DEF Undone
    <3>2. Distance(p) = 2 + 2 * at[p]
      BY <1>0, <2>1, <2>3, FarValues DEF Distance
    <3>3. Distance(p)' = 1
      BY <1>0, <2>1, <3>1, FarValues DEF Distance
    <3> QED BY <2>1, <3>2, <3>3
  <2> QED BY <2>2, <2>3
<1>21. CASE Recovered(p)
  <2>1. pc[p] = "recovered" /\ pc'[p] = "clean" /\ at'[p] = at[p]
    BY <1>0, <1>21 DEF Recovered
  <2> QED BY <1>0, <1>a, <2>1, FarValues DEF Distance
<1>22. CASE Interrupt(p)
  <2>1. CASE pc[p] \in Applying
    BY <1>a, <1>22, <2>1, RecoverApproaches DEF Interrupt
  <2>2. pc'[p] = "rollback" /\ at'[p] = Last /\ result'[p] = "interrupted"
    BY <1>0, <1>22 DEF Interrupt, Recover
  <2>3. CASE pc[p] = "recovered"
    BY <1>0, <1>a, <2>2, <2>3, FarValues DEF Distance
  <2>4. CASE pc[p] = "rollback" /\ result[p] = "failed"
    BY <1>0, <1>a, <2>2, <2>4, FarValues DEF Distance
  <2> QED BY <1>22, <2>1, <2>3, <2>4 DEF Interrupt
<1>23. CASE InterruptIdle(p)
  <2>1. /\ pc[p] \in {"locked", "stage", "discard", "tidy"}
        /\ pc'[p] = "clean" /\ at'[p] = at[p]
    BY <1>0, <1>23 DEF InterruptIdle
  <2> QED BY <1>0, <1>a, <2>1, FarValues DEF Distance
<1>24. CASE Kill(p)
  <2>1. pc[p] \in Steps /\ pc'[p] = "killed" /\ at'[p] = 0
    BY <1>0, <1>24 DEF Kill
  <2>2. Distance(p) > 0
    BY <1>0, <1>a, <2>1, FarValues
    DEF Distance, Steps, Applying, Undoing
  <2> QED BY <1>a, <2>1, <2>2, FarValues DEF Distance
<1> QED BY <1>1, <1>2, <1>3, <1>4, <1>5, <1>6, <1>7, <1>8, <1>9, <1>10, <1>11,
           <1>12, <1>13, <1>14, <1>15, <1>16, <1>17, <1>18, <1>19, <1>20,
           <1>21, <1>22, <1>23, <1>24 DEF Step

\* A step of one installer, an edit or the removal of a lock leaves the
\* others where they are.
LEMMA OthersStay ==
    ASSUME TypeOK, NEW q \in Process, [Next]_vars,
           ~ (Step(q) \/ Interrupt(q) \/ InterruptIdle(q) \/ Kill(q))
    PROVE  Distance(q)' = Distance(q)
<1>1. CASE \E r \in Process : Step(r) \/ Interrupt(r) \/ InterruptIdle(r) \/ Kill(r)
  BY <1>1, StepOwn DEF OwnOnly, Distance
<1>2. CASE ClearLock \/ Edit \/ UNCHANGED vars
  BY <1>2 DEF ClearLock, Edit, vars, Distance
<1> QED BY <1>1, <1>2, InstallerSteps

LEMMA DistanceRange ==
    ASSUME TypeOK, NEW p \in Process
    PROVE  Distance(p) \in 0 .. 8 * Last + 8
<1>1. /\ at[p] \in 0 .. Last /\ (pc[p] \in Looping => at[p] >= 1)
      /\ pc[p] \in Steps \cup {"idle", "ended", "killed"}
  BY Numbers, Entries DEF TypeOK
<1> QED BY <1>1, FarValues DEF Distance, Steps, Applying, Undoing, Looping

\* No loop of run_managed_transaction, of its rollback or of its signal
\* handler can go on for ever, whatever fails and however often it is
\* interrupted: an installer makes 8 * Last + 8 steps at most.
THEOREM InstallersApproachTheEnd ==
    Spec => /\ [](\A p \in Process : Distance(p) \in 0 .. 8 * Last + 8)
            /\ [][Approaches]_vars
<1>1. TypeOK => \A p \in Process : Distance(p) \in 0 .. 8 * Last + 8
  BY DistanceRange
<1>2. TypeOK /\ [Next]_vars => [Approaches]_vars
  BY StepApproaches, OthersStay DEF Approaches
<1> QED BY <1>1, <1>2, InstallerTypeCorrect, PTL DEF Spec

=============================================================================
