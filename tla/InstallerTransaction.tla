------------------------ MODULE InstallerTransaction ------------------------
(***************************************************************************)
(* run_managed_transaction of install.sh: installers, several at a time,   *)
(* each of which takes the transaction lock, plans on what is installed,   *)
(* stages the new files and renames them into place one by one, payload    *)
(* before receipts, with the originals kept aside until all of it has been *)
(* verified.  Renames may fail, signals roll the installer back, it may be *)
(* killed at any step, and people edit the installed files.                *)
(***************************************************************************)
EXTENDS Naturals

CONSTANTS
    Process,            \* the installers, each of which runs once
    Version,
    Want,               \* process -> the version it is to install
    NumArtifacts, NumReceipts,
    Payload,            \* version -> artifact -> content, Absent if none
    Absent,             \* no file at this path
    Mine,               \* what a person wrote
    MaxEdits, MaxFaults

\* Artifacts and receipts are numbered in the order of their renames: TX_DSTS
\* first, then RX_PATHS, of which the history is the first and the managed
\* inventory the second.
Artifact == 1 .. NumArtifacts
Entry == 1 .. NumArtifacts + NumReceipts
Receipt == Entry \ Artifact
Last == NumArtifacts + NumReceipts
History == NumArtifacts + 1
Managed == NumArtifacts + 2
Content == Version \cup {Absent, Mine}

Free == "free"

\* An artifact has for content the version that brought it in this form.
ASSUME InstallerAssumption ==
    /\ NumArtifacts \in Nat \ {0} /\ NumReceipts \in Nat \ {0, 1}
    /\ MaxEdits \in Nat /\ MaxFaults \in Nat
    /\ Absent \notin Version /\ Mine \notin Version /\ Absent # Mine
    /\ Want \in [Process -> Version]
    /\ Payload \in [Version -> [Artifact -> Version \cup {Absent}]]
    /\ Free \notin Process

VARIABLES
    live,       \* path -> what is there
    lock,       \* the installer that made .transaction.lock, or Free
    pc,         \* installer -> where it is
    at,         \* installer -> the entry its loop has come to
    orig,       \* installer -> what its plan found (TX_ and RX_IDENTITIES)
    copy,       \* installer -> its new file, staged or moved aside again
    backup,     \* installer -> the original it moved away
    status,     \* installer -> TX_STATUS and RX_STATUS
    critical,   \* installer -> whether it has reported CRITICAL
    result,     \* installer -> how it ends
    edits, faults

files == <<live, copy, backup>>
vars == <<files, lock, pc, at, orig, status, critical, result, edits, faults>>

Applying == {"check", "backup", "place", "verify", "confirm"}
\* The loops are at an entry, and verification is done for the next one.
Looping == {"check", "backup", "place", "verify", "restore"}
Undoing == {"rollback", "restore", "recovered"}
Steps == {"locked", "stage", "discard", "tidy", "clean"} \cup Applying \cup Undoing
Status == {"pending", "backed-up", "replaced", "created", "rolled-back",
           "recovery-failed"}
\* "untouched": ended before the first rename.
Result == {"none", "untouched", "done", "failed", "unconfirmed", "interrupted"}

Nothing == [i \in Entry |-> Absent]

\* Content of artifact i in version v, which may be no version at all.
Ships(v, i) == IF v = Absent THEN Absent ELSE Payload[v][i]

\* What is at i when the installation has succeeded.
Target(p, i) == IF i \in Artifact THEN Payload[Want[p]][i] ELSE Want[p]

\* The entries that take part: puts and retired items, and every receipt.
Concerned(p, i) ==
    i \in Artifact => Ships(orig[p][Managed], i) # Target(p, i)

TypeOK ==
    /\ live \in [Entry -> Content]
    /\ lock \in Process \cup {Free}
    /\ pc \in [Process -> Steps \cup {"idle", "ended", "killed"}]
    /\ at \in [Process -> 0 .. Last]
    /\ orig \in [Process -> [Entry -> Content]]
    /\ copy \in [Process -> [Entry -> Content]]
    /\ backup \in [Process -> [Entry -> Content]]
    /\ status \in [Process -> [Entry -> Status]]
    /\ critical \in [Process -> BOOLEAN]
    /\ result \in [Process -> Result]
    /\ edits \in 0 .. MaxEdits /\ faults \in 0 .. MaxFaults
    /\ \A p \in Process : pc[p] \in Looping => at[p] \in Entry

\* Nothing is installed, or one version with all it ships and its receipts.
Init ==
    /\ \E v \in Version \cup {Absent} :
         live = [i \in Entry |-> IF i \in Artifact THEN Ships(v, i) ELSE v]
    /\ lock = Free
    /\ pc = [p \in Process |-> "idle"]
    /\ at = [p \in Process |-> 0]
    /\ orig = [p \in Process |-> Nothing]
    /\ copy = [p \in Process |-> Nothing]
    /\ backup = [p \in Process |-> Nothing]
    /\ status = [p \in Process |-> [i \in Entry |-> "pending"]]
    /\ critical = [p \in Process |-> FALSE]
    /\ result = [p \in Process |-> "none"]
    /\ edits = 0 /\ faults = 0

Goto(p, label) == pc' = [pc EXCEPT ![p] = label]
Finish(p, how) == result' = [result EXCEPT ![p] = how]
Mark(p, i, s) == status' = [status EXCEPT ![p][i] = s]
Alarm(p) == critical' = [critical EXCEPT ![p] = TRUE]

\* A rename, a verification or a copy goes wrong.
Fault == faults < MaxFaults /\ faults' = faults + 1

\* The loops of apply_force_update_transaction and _receipts come to the next
\* entry; in between and at the end the payload is verified.
Advance(p) ==
    /\ at' = [at EXCEPT ![p] = IF @ = Last THEN @ ELSE @ + 1]
    /\ Goto(p, IF at[p] = Last THEN "confirm"
               ELSE IF at[p] = NumArtifacts THEN "verify" ELSE "check")

\* recover_artifact_failure, recover_receipt_failure: undo entries 1 .. k.
Recover(p, k, how) ==
    /\ Goto(p, "rollback")
    /\ at' = [at EXCEPT ![p] = k]
    /\ Finish(p, how)

-----------------------------------------------------------------------------
(* Lock, plan and staging.                                                 *)

\* acquire_transaction_lock.  A signal before its traps are set ends the
\* installer like a kill.
Acquire(p) ==
    /\ pc[p] = "idle"
    /\ IF lock = Free
       THEN lock' = p /\ Goto(p, "locked") /\ UNCHANGED result
       ELSE Goto(p, "ended") /\ Finish(p, "untouched") /\ UNCHANGED lock
    /\ UNCHANGED <<files, at, orig, status, critical, edits, faults>>

\* prepare_managed_plan under the lock: the receipts agree on the version v
\* that is installed, all of v is there, and no new path is taken.
Plannable(p) ==
    \E v \in Version \cup {Absent} :
        /\ \A r \in Receipt \ {History} : live[r] = v
        /\ \A i \in Artifact :
             /\ Ships(v, i) # Absent => live[i] = Ships(v, i)
             /\ Ships(v, i) = Absent /\ Target(p, i) # Absent => live[i] = Absent

Plan(p) ==
    /\ pc[p] = "locked"
    /\ orig' = [orig EXCEPT ![p] = live]
    /\ IF Plannable(p)
       THEN Goto(p, "stage") /\ UNCHANGED result
       ELSE Goto(p, "clean") /\ Finish(p, "untouched")
    /\ UNCHANGED <<files, lock, at, status, critical, edits, faults>>

\* build_, stage_force_update_transaction, verify-staged and
\* stage_force_update_receipts.
Stage(p) ==
    /\ pc[p] = "stage"
    /\ \A i \in Entry : Concerned(p, i) => live[i] = orig[p][i]
    /\ copy' = [copy EXCEPT ![p] =
         [i \in Entry |-> IF Concerned(p, i) THEN Target(p, i) ELSE Absent]]
    /\ at' = [at EXCEPT ![p] = 1]
    /\ Goto(p, "check")
    /\ UNCHANGED <<live, backup, lock, orig, status, critical, result, edits,
                   faults>>

\* A file changed since the plan, or could not be copied or checked.
StageFails(p) ==
    /\ pc[p] = "stage"
    /\ \/ \E i \in Entry : Concerned(p, i) /\ live[i] # orig[p][i]
          /\ UNCHANGED faults
       \/ Fault
    /\ Goto(p, "clean") /\ Finish(p, "untouched")
    /\ UNCHANGED <<files, lock, at, orig, status, critical, edits>>

-----------------------------------------------------------------------------
(* Applying: one entry after the other, artifacts before receipts.         *)

\* The identities recorded by the plan are compared with what is there now.
Check(p) ==
    LET i == at[p] IN
    /\ pc[p] = "check"
    /\ IF Concerned(p, i) /\ live[i] # orig[p][i]
       THEN Recover(p, i - 1, "failed")
       ELSE /\ UNCHANGED result
            /\ IF Concerned(p, i)
               THEN Goto(p, "backup") /\ UNCHANGED at
               ELSE Advance(p)
    /\ UNCHANGED <<files, lock, orig, status, critical, edits, faults>>

\* An artifact has an original to move away if the plan saw one, a receipt if
\* there is one now.
Replaces(p, i) ==
    IF i \in Artifact THEN orig[p][i] # Absent ELSE live[i] # Absent

\* The first tx_forward_rename or rx_forward_rename.  A retired artifact
\* takes no second one.
BackUp(p) ==
    LET i == at[p] IN
    /\ pc[p] = "backup"
    /\ IF Replaces(p, i)
       THEN /\ live' = [live EXCEPT ![i] = Absent]
            /\ backup' = [backup EXCEPT ![p][i] = live[i]]
            /\ Mark(p, i, "backed-up")
       ELSE UNCHANGED <<live, backup, status>>
    /\ IF Target(p, i) = Absent
       THEN Advance(p)
       ELSE Goto(p, "place") /\ UNCHANGED at
    /\ UNCHANGED <<copy, lock, orig, critical, result, edits, faults>>

BackUpFails(p) ==
    /\ pc[p] = "backup"
    /\ Replaces(p, at[p])
    /\ Fault
    /\ Recover(p, at[p] - 1, "failed")
    /\ UNCHANGED <<files, lock, orig, status, critical, edits>>

\* The second one, which moves the new file into place.
Place(p) ==
    LET i == at[p] IN
    /\ pc[p] = "place"
    /\ live[i] = Absent
    /\ live' = [live EXCEPT ![i] = copy[p][i]]
    /\ copy' = [copy EXCEPT ![p][i] = Absent]
    /\ Mark(p, i, IF backup[p][i] # Absent THEN "replaced" ELSE "created")
    /\ Advance(p)
    /\ UNCHANGED <<backup, lock, orig, critical, result, edits, faults>>

FaultyPlaceFails(p) ==
    /\ pc[p] = "place"
    /\ live[at[p]] = Absent
    /\ Fault
    /\ Recover(p, at[p] - 1, "failed")
    /\ UNCHANGED <<files, lock, orig, status, critical, edits>>

PlaceFails(p) ==
    /\ pc[p] = "place"
    /\ live[at[p]] = Absent
    /\ Fault
    /\ Recover(p, at[p], "failed")
    /\ UNCHANGED <<files, lock, orig, status, critical, edits>>

\* Somebody has written to the path: what was moved away stays where it is.
Reappeared(p) ==
    LET i == at[p] IN
    /\ pc[p] = "place"
    /\ live[i] # Absent
    /\ IF i \in Receipt \/ backup[p][i] # Absent
       THEN Mark(p, i, "recovery-failed") /\ Alarm(p)
       ELSE UNCHANGED <<status, critical>>
    /\ Recover(p, i - 1, "failed")
    /\ UNCHANGED <<files, lock, orig, edits, faults>>

-----------------------------------------------------------------------------
(* Verification and the end of a success.                                  *)

\* installer-inventory.py verify: all of the new version, nothing retired.
PayloadVerified(p) ==
    \A i \in Artifact :
        Concerned(p, i) \/ Target(p, i) # Absent => live[i] = Target(p, i)

ReceiptsVerified(p) == \A r \in Receipt : live[r] = Target(p, r)

\* verify_managed_payload and verify_installed_core before the receipts.
Verify(p) ==
    /\ pc[p] = "verify"
    /\ IF PayloadVerified(p)
       THEN Goto(p, "check") /\ UNCHANGED <<at, result>>
       ELSE Recover(p, NumArtifacts, "failed")
    /\ UNCHANGED <<files, lock, orig, status, critical, edits, faults>>

\* verify_managed_payload and verify_managed_receipts after them; from here
\* on TRANSACTION_APPLY_ACTIVE is 0.
Confirm(p) ==
    /\ pc[p] = "confirm"
    /\ IF PayloadVerified(p) /\ ReceiptsVerified(p)
       THEN Goto(p, "discard") /\ UNCHANGED <<at, result>>
       ELSE Recover(p, Last, "unconfirmed")
    /\ UNCHANGED <<files, lock, orig, status, critical, edits, faults>>

VerifyFails(p) ==
    /\ Fault
    /\ \/ pc[p] = "verify" /\ Recover(p, NumArtifacts, "failed")
       \/ pc[p] = "confirm" /\ Recover(p, Last, "unconfirmed")
    /\ UNCHANGED <<files, lock, orig, status, critical, edits>>

FaultyDiscard(p) ==
    /\ pc[p] = "discard"
    /\ backup' = [backup EXCEPT ![p] =
         [i \in Entry |-> IF i \in Artifact THEN Absent ELSE @[i]]]
    /\ Goto(p, "tidy")
    /\ UNCHANGED <<live, copy, lock, at, orig, status, critical, result,
                   edits, faults>>

\* discard_verified_transaction_originals: all of them or, if one has been
\* edited on its way, none.
Discard(p) ==
    /\ pc[p] = "discard"
    /\ IF \A i \in Artifact : backup[p][i] \in {orig[p][i], Absent}
       THEN /\ backup' = [backup EXCEPT ![p] =
                 [i \in Entry |-> IF i \in Artifact THEN Absent ELSE @[i]]]
            /\ Goto(p, "tidy")
            /\ UNCHANGED <<critical, result>>
       ELSE /\ Alarm(p) /\ Finish(p, "failed") /\ Goto(p, "clean")
            /\ UNCHANGED backup
    /\ UNCHANGED <<live, copy, lock, at, orig, status, edits, faults>>

\* The originals of this transaction that cleanup_receipt_staging may remove,
\* and the copies that it or cleanup_transaction_staging may: artifacts keep
\* everything as long as one of them has its original aside.
Swept(p, i) ==
    /\ status[p][i] # "recovery-failed"
    /\ i \in Artifact => \A j \in Artifact : backup[p][j] = Absent

CleanUp(p) ==
    /\ copy' = [copy EXCEPT ![p] =
         [i \in Entry |-> IF Swept(p, i) /\ @[i] = Target(p, i)
                          THEN Absent ELSE @[i]]]
    /\ backup' = [backup EXCEPT ![p] =
         [i \in Entry |-> IF i \in Receipt /\ Swept(p, i) /\ @[i] = orig[p][i]
                          THEN Absent ELSE @[i]]]

\* cleanup_transaction_staging and cleanup_receipt_staging.
Tidy(p) ==
    /\ pc[p] = "tidy"
    /\ CleanUp(p)
    /\ Finish(p, IF backup'[p] = Nothing THEN "done" ELSE "failed")
    /\ Goto(p, "clean")
    /\ UNCHANGED <<live, lock, at, orig, status, critical, edits, faults>>

FaultyRelease(p) ==
    /\ pc[p] = "clean"
    /\ lock' = IF result[p] = "done" THEN Free ELSE lock
    /\ Goto(p, "ended")
    /\ UNCHANGED <<files, at, orig, status, critical, result, edits, faults>>

\* cleanup_managed_workspace and release_transaction_lock; the process ends
\* and its variables with it.
Release(p) ==
    /\ pc[p] = "clean"
    /\ lock' = Free
    /\ Goto(p, "ended")
    /\ at' = [at EXCEPT ![p] = 0]
    /\ orig' = [orig EXCEPT ![p] = Nothing]
    /\ status' = [status EXCEPT ![p] = [i \in Entry |-> "pending"]]
    /\ UNCHANGED <<files, critical, result, edits, faults>>

-----------------------------------------------------------------------------
(* Rollback, last entry first, with signals ignored.                       *)

\* A receipt that cannot be put back is given up, an artifact only reported.
GiveUp(p, i) ==
    /\ Alarm(p)
    /\ IF i \in Receipt THEN Mark(p, i, "recovery-failed") ELSE UNCHANGED status

Previous(p) == at' = [at EXCEPT ![p] = @ - 1]

\* The new file still is as it was put there and is moved aside.
MoveAside(p, i) ==
    /\ live[i] = Target(p, i)
    /\ live' = [live EXCEPT ![i] = Absent]
    /\ copy' = [copy EXCEPT ![p][i] = live[i]]

\* mv of the original to its path.
PutBack(p, i) ==
    /\ live' = [live EXCEPT ![i] = backup[p][i]]
    /\ backup' = [backup EXCEPT ![p][i] = Absent]
    /\ Mark(p, i, "rolled-back")

\* One pass of the loop in rollback_force_update_receipts and _transaction.
Undo(p) ==
    LET i == at[p] IN
    /\ pc[p] = "rollback" /\ i > 0
    /\ \/ /\ status[p][i] = "replaced"
          /\ MoveAside(p, i)
          /\ Goto(p, "restore")
          /\ UNCHANGED <<backup, status, at>>
       \/ /\ status[p][i] = "backed-up" /\ live[i] = Absent
          /\ PutBack(p, i)
          /\ Previous(p)
          /\ UNCHANGED <<copy, pc>>
       \/ /\ status[p][i] = "created"
          /\ MoveAside(p, i)
          /\ Mark(p, i, "rolled-back")
          /\ Previous(p)
          /\ UNCHANGED <<backup, pc>>
       \/ /\ status[p][i] \in {"pending", "rolled-back", "recovery-failed"}
          /\ Previous(p)
          /\ UNCHANGED <<files, status, pc>>
    /\ UNCHANGED <<lock, orig, critical, result, edits, faults>>

\* The file has been edited, the path has been taken, or the rename fails.
UndoFails(p) ==
    LET i == at[p] IN
    /\ pc[p] = "rollback" /\ i > 0
    /\ status[p][i] \in {"replaced", "backed-up", "created"}
    /\ \/ /\ live[i] # IF status[p][i] = "backed-up" THEN Absent ELSE Target(p, i)
          /\ UNCHANGED faults
       \/ Fault
    /\ GiveUp(p, i)
    /\ Previous(p)
    /\ UNCHANGED <<files, lock, pc, orig, result, edits>>

\* The second rename of a replaced entry.
Restore(p) ==
    /\ pc[p] = "restore"
    /\ PutBack(p, at[p])
    /\ Previous(p)
    /\ Goto(p, "rollback")
    /\ UNCHANGED <<copy, lock, orig, critical, result, edits, faults>>

RestoreFails(p) ==
    /\ pc[p] = "restore"
    /\ Fault
    /\ GiveUp(p, at[p])
    /\ Previous(p)
    /\ Goto(p, "rollback")
    /\ UNCHANGED <<files, lock, orig, result, edits>>

\* Staging is removed, except when the receipts were not confirmed.  After a
\* failed artifact signals count again until TRANSACTION_APPLY_ACTIVE is 0;
\* here after any failure, which adds signals only.
Undone(p) ==
    /\ pc[p] = "rollback" /\ at[p] = 0
    /\ IF result[p] = "unconfirmed" THEN UNCHANGED <<copy, backup>> ELSE CleanUp(p)
    /\ Goto(p, IF result[p] = "failed" THEN "recovered" ELSE "clean")
    /\ UNCHANGED <<live, lock, at, orig, status, critical, result, edits,
                   faults>>

Recovered(p) ==
    /\ pc[p] = "recovered"
    /\ Goto(p, "clean")
    /\ UNCHANGED <<files, lock, at, orig, status, critical, result, edits,
                   faults>>

-----------------------------------------------------------------------------
(* Signals, kills, people.                                                 *)

FaultyInterrupt(p) ==
    /\ pc[p] \in Applying \cup {"recovered"}
    /\ Recover(p, NumArtifacts, "interrupted")
    /\ UNCHANGED <<files, lock, orig, status, critical, edits, faults>>

\* handle_transaction_signal while TRANSACTION_APPLY_ACTIVE is 1: undo all.
\* After a failed receipt its handlers are back for a moment when the receipts
\* are undone and the artifacts are not.
Interrupt(p) ==
    /\ \/ pc[p] \in Applying \cup {"recovered"}
       \/ pc[p] = "rollback" /\ at[p] = NumArtifacts /\ result[p] = "failed"
    /\ Recover(p, Last, "interrupted")
    /\ UNCHANGED <<files, lock, orig, status, critical, edits, faults>>

\* The same before and after that: only staging is removed.
InterruptIdle(p) ==
    /\ pc[p] \in {"locked", "stage", "discard", "tidy"}
    /\ CleanUp(p)
    /\ Goto(p, "clean")
    /\ Finish(p, IF pc[p] \in {"locked", "stage"} THEN "untouched"
                 ELSE "interrupted")
    /\ UNCHANGED <<live, lock, at, orig, status, critical, edits, faults>>

\* SIGKILL: the files stay as they were renamed, which a power failure does not
\* promise (nothing is synced).  Plan and status are kept, as history, for what
\* ReceiptNeverAhead says of the files it left.
Kill(p) ==
    /\ pc[p] \in Steps
    /\ Goto(p, "killed")
    /\ at' = [at EXCEPT ![p] = 0]
    /\ Finish(p, "none")
    /\ UNCHANGED <<files, lock, orig, status, critical, edits, faults>>

\* An operator removes the lock of an installer that is no longer active.
ClearLock ==
    /\ \E p \in Process : lock = p /\ pc[p] = "killed"
    /\ lock' = Free
    /\ UNCHANGED <<files, pc, at, orig, status, critical, result, edits,
                   faults>>

\* A person writes an installed file, or a file of their own to a free path,
\* at any time but between a check and the rename that follows it at once.
Edit ==
    /\ \A p \in Process : pc[p] # "restore"
    /\ edits < MaxEdits /\ edits' = edits + 1
    /\ \E i \in Entry : live[i] # Mine /\ live' = [live EXCEPT ![i] = Mine]
    /\ UNCHANGED <<copy, backup, lock, pc, at, orig, status, critical, result,
                   faults>>

Step(p) ==
    \/ Acquire(p) \/ Plan(p) \/ Stage(p) \/ StageFails(p)
    \/ Check(p) \/ BackUp(p) \/ BackUpFails(p)
    \/ Place(p) \/ PlaceFails(p) \/ Reappeared(p)
    \/ Verify(p) \/ Confirm(p) \/ VerifyFails(p)
    \/ Discard(p) \/ Tidy(p) \/ Release(p)
    \/ Undo(p) \/ UndoFails(p) \/ Restore(p) \/ RestoreFails(p)
    \/ Undone(p) \/ Recovered(p)

Next ==
    \/ \E p \in Process :
         Step(p) \/ Interrupt(p) \/ InterruptIdle(p) \/ Kill(p)
    \/ ClearLock \/ Edit

Spec == Init /\ [][Next]_vars

\* An installer that was started is a sequential program; a stale lock is
\* removed by somebody in the end.
FairSpec ==
    /\ Spec
    /\ \A p \in Process : WF_vars(pc[p] # "idle" /\ Step(p))
    /\ WF_vars(ClearLock)

-----------------------------------------------------------------------------
(* Properties.                                                             *)

IsOld(p) == \A i \in Entry : Concerned(p, i) => live[i] \in {orig[p][i], Mine}
IsNew(p) == \A i \in Entry : Concerned(p, i) => live[i] \in {Target(p, i), Mine}

\* force_update_transaction, handle_transaction_signal: an installer that is
\* about to unlock, on whatever way it got there, leaves the installation as
\* it was or as it should be, but for what people wrote, or it has reported
\* CRITICAL; and if it reports success it is as it should be.
AllOrNothing ==
    \A p \in Process : pc[p] = "clean" /\ result[p] # "untouched" =>
        /\ critical[p] \/ IsOld(p) \/ IsNew(p)
        /\ result[p] = "done" => IsNew(p)

\* rollback_force_update_*, cleanup_*, discard_verified_transaction_originals:
\* no step removes the last copy of anything, except that the lock's holder
\* removes new files it brought itself and, once all of the new version is in
\* place, the originals it planned on, and a person overwrites a file.
Held(i) == {live[i]} \cup {copy[p][i] : p \in Process}
                     \cup {backup[p][i] : p \in Process}
Disposable(p, i) ==
    {Target(p, i)} \cup (IF IsNew(p) THEN {orig[p][i]} ELSE {})
NothingDestroyed ==
    [][\A i \in Entry : \A c \in Held(i) \ (Held(i)' \cup {Absent}) :
         \/ edits' # edits /\ c = live[i]
         \/ \E p \in Process : lock = p /\ c \in Disposable(p, i)]_vars

\* apply_force_update_receipts runs after the payload is verified and is
\* undone before it: even while an installer works, and after it was killed,
\* no receipt tells of a new version whose payload is not all in place, unless
\* a CRITICAL says so.
ReceiptNeverAhead ==
    \A p \in Process :
        /\ lock = p /\ ~ critical[p]
        /\ \E r \in Receipt : /\ status[p][r] \in {"replaced", "created"}
                              /\ live[r] = Target(p, r)
        => \A i \in Artifact : Concerned(p, i) => live[i] \in {Target(p, i), Mine}

\* Whatever fails, every installer lets go of the lock, or it was killed and
\* an operator does.
LockFreed == \A p \in Process : lock = p ~> lock # p

=============================================================================
