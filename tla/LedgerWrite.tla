---------------------------- MODULE LedgerWrite -----------------------------
(***************************************************************************)
(* loopctl.command_apply_event with --write as a protocol on files: a lock *)
(* file created exclusively, a read, the acceptance of the event, a        *)
(* temporary file, the source and compare-and-swap check, a second         *)
(* acceptance at a newly sampled time, os.replace, the directory fsync,    *)
(* the reply, and the removal of the lock.  Invocations run concurrently,  *)
(* crash, and are retried with the same event; the machine loses power;    *)
(* somebody edits the ledger without the lock.                             *)
(*                                                                         *)
(* A ledger is the sequence of its events.  An event is bound to the       *)
(* history it was prepared on: previous_event_hash and                     *)
(* expected_state_revision together stand for that whole sequence.  What   *)
(* the reducer thinks of an event otherwise (LoopCore) is reduced to the   *)
(* deadline of the lease it depends on.                                    *)
(***************************************************************************)
EXTENDS Naturals, Sequences

CONSTANTS
    Process,    \* invocations of loopctl
    Request,    \* events, one idempotency key each
    NoRequest,
    Free,       \* there is no lock file
    Orphan,     \* there is a lock file whose creator is gone
    Deadline,   \* request -> end of the lease it needs
    MaxTime     \* bound of the clock

ASSUME WriteAssumption ==
    /\ Free \notin Process /\ Orphan \notin Process /\ Free # Orphan
    /\ NoRequest \notin Request
    /\ MaxTime \in Nat
    /\ Deadline \in [Request -> Nat]

VARIABLES
    file,      \* the ledger at its path
    durable,   \* the version of it that a power failure cannot take back
    lock,      \* the lock file: Free, Orphan or its creator
    built,     \* requests whose event has been prepared
    base,      \* request -> the history its event was prepared on
    now,       \* trusted time
    pc,        \* process -> where it is in command_apply_event
    req,       \* process -> the request it was invoked with
    copy,      \* process -> the ledger it read
    out,       \* process -> the status it rendered last
    applied    \* requests some invocation reported as "applied"

vars == <<file, durable, lock, built, base, now, pc, req, copy, out, applied>>

Ledgers == Seq(Request)
Holding == {"locked", "read", "staged", "compared", "certified", "replaced",
            "unlock"}

TypeOK ==
    /\ file \in Ledgers
    /\ durable \in Ledgers
    /\ lock \in Process \cup {Free, Orphan}
    /\ built \in SUBSET Request
    /\ base \in [Request -> Ledgers]
    /\ now \in Nat
    /\ pc \in [Process -> Holding \cup {"idle"}]
    /\ req \in [Process -> Request \cup {NoRequest}]
    /\ \A p \in Process : pc[p] # "idle" => req[p] \in Request
    /\ copy \in [Process -> Ledgers]
    /\ out \in [Process -> {"none", "applied", "uncertain", "replayed",
                            "rejected"}]
    /\ applied \in SUBSET Request

Contains(s, r) == \E i \in 1 .. Len(s) : s[i] = r
Prefix(s, n) == SubSeq(s, 1, n)

Init ==
    /\ file = << >>
    /\ durable = << >>
    /\ lock = Free
    /\ built = {}
    /\ base = [r \in Request |-> << >>]
    /\ now = 0
    /\ pc = [p \in Process |-> "idle"]
    /\ req = [p \in Process |-> NoRequest]
    /\ copy = [p \in Process |-> << >>]
    /\ out = [p \in Process |-> "none"]
    /\ applied = {}

-----------------------------------------------------------------------------
(* One invocation.                                                         *)

Goto(p, label) == pc' = [pc EXCEPT ![p] = label]
Reply(p, status) == out' = [out EXCEPT ![p] = status]

\* Somebody builds the event of r on the ledger as it is.
Prepare(r) ==
    /\ r \notin built
    /\ built' = built \cup {r}
    /\ base' = [base EXCEPT ![r] = file]
    /\ UNCHANGED <<file, durable, lock, now, pc, req, copy, out, applied>>

FaultyStart(p, r) ==
    /\ pc[p] = "idle"
    /\ r \in built
    /\ req' = [req EXCEPT ![p] = r]
    /\ lock' = p
    /\ Goto(p, "locked")
    /\ Reply(p, "none")
    /\ UNCHANGED <<file, durable, built, base, now, copy, applied>>

\* O_CREAT | O_EXCL: any existing lock file, a dead process's too, rejects.
Start(p, r) ==
    /\ pc[p] = "idle"
    /\ r \in built
    /\ req' = [req EXCEPT ![p] = r]
    /\ IF lock = Free
         THEN lock' = p /\ Goto(p, "locked") /\ Reply(p, "none")
         ELSE Reply(p, "rejected") /\ UNCHANGED <<lock, pc>>
    /\ UNCHANGED <<file, durable, built, base, now, copy, applied>>

Read(p) ==
    /\ pc[p] = "locked"
    /\ copy' = [copy EXCEPT ![p] = file]
    /\ Goto(p, "read")
    /\ UNCHANGED <<file, durable, lock, built, base, now, req, out, applied>>

\* The ledger, its source, the contract files or the audit may be at fault,
\* which rejects even an event that is already in the history; otherwise
\* such an event is a no-op.  An event that is new must continue the history
\* it was prepared on, in time; then the new ledger is written to a
\* temporary file.
FaultyJudge(p) ==
    /\ pc[p] = "read"
    /\ \/ Reply(p, "rejected") /\ Goto(p, "unlock")
       \/ Contains(copy[p], req[p]) /\ Reply(p, "replayed") /\ Goto(p, "unlock")
       \/ /\ ~ Contains(copy[p], req[p])
          /\ now < Deadline[req[p]]
          /\ Goto(p, "staged")
          /\ UNCHANGED out
    /\ UNCHANGED <<file, durable, lock, built, base, now, req, copy, applied>>

Judge(p) ==
    /\ pc[p] = "read"
    /\ \/ Reply(p, "rejected") /\ Goto(p, "unlock")
       \/ Contains(copy[p], req[p]) /\ Reply(p, "replayed") /\ Goto(p, "unlock")
       \/ /\ ~ Contains(copy[p], req[p])
          /\ base[req[p]] = copy[p]
          /\ now < Deadline[req[p]]
          /\ Goto(p, "staged")
          /\ UNCHANGED out
    /\ UNCHANGED <<file, durable, lock, built, base, now, req, copy, applied>>

FaultyCompare(p) ==
    /\ pc[p] = "staged"
    /\ \/ Goto(p, "compared") /\ UNCHANGED out
       \/ Reply(p, "rejected") /\ Goto(p, "unlock")
    /\ UNCHANGED <<file, durable, lock, built, base, now, req, copy, applied>>

\* The source check may fail for reasons of its own (HEAD, branch, contract
\* files); then the bytes and identity of the ledger are compared.
Compare(p) ==
    /\ pc[p] = "staged"
    /\ \/ file = copy[p] /\ Goto(p, "compared") /\ UNCHANGED out
       \/ Reply(p, "rejected") /\ Goto(p, "unlock")
    /\ UNCHANGED <<file, durable, lock, built, base, now, req, copy, applied>>

FaultyCertify(p) ==
    /\ pc[p] = "compared"
    /\ now < Deadline[req[p]]
    /\ Goto(p, "certified")
    /\ UNCHANGED <<file, durable, lock, built, base, now, req, copy, out, applied>>

\* The second acceptance, at a newly sampled trusted time.
Certify(p) ==
    /\ pc[p] = "compared"
    /\ IF now < Deadline[req[p]]
         THEN Goto(p, "certified") /\ UNCHANGED out
         ELSE Reply(p, "rejected") /\ Goto(p, "unlock")
    /\ UNCHANGED <<file, durable, lock, built, base, now, req, copy, applied>>

Replace(p) ==
    /\ pc[p] = "certified"
    /\ file' = Append(copy[p], req[p])
    /\ Goto(p, "replaced")
    /\ UNCHANGED <<durable, lock, built, base, now, req, copy, out, applied>>

FaultySync(p) ==
    /\ pc[p] = "replaced"
    /\ \/ durable' = Append(copy[p], req[p])
       \/ UNCHANGED durable
    /\ Reply(p, "applied")
    /\ applied' = applied \cup {req[p]}
    /\ Goto(p, "unlock")
    /\ UNCHANGED <<file, lock, built, base, now, req, copy>>

\* The fsync of the directory succeeds, or the reply says that it did not.
Sync(p) ==
    /\ pc[p] = "replaced"
    /\ \/ /\ durable' = Append(copy[p], req[p])
          /\ Reply(p, "applied")
          /\ applied' = applied \cup {req[p]}
       \/ /\ Reply(p, "uncertain")
          /\ UNCHANGED <<durable, applied>>
    /\ Goto(p, "unlock")
    /\ UNCHANGED <<file, lock, built, base, now, req, copy>>

FaultyUnlock(p) ==
    /\ pc[p] = "unlock"
    /\ lock' = IF out[p] = "rejected" THEN lock ELSE Free
    /\ Goto(p, "idle")
    /\ UNCHANGED <<file, durable, built, base, now, req, copy, out, applied>>

\* The lock path is unlinked, whoever's lock it is.
Unlock(p) ==
    /\ pc[p] = "unlock"
    /\ lock' = Free
    /\ Goto(p, "idle")
    /\ UNCHANGED <<file, durable, built, base, now, req, copy, out, applied>>

Step(p) ==
    \/ Read(p)
    \/ Judge(p)
    \/ Compare(p)
    \/ Certify(p)
    \/ Replace(p)
    \/ Sync(p)
    \/ Unlock(p)

-----------------------------------------------------------------------------
(* The environment.                                                        *)

\* A killed process runs no finally clause: its lock file stays.
Crash(p) ==
    /\ pc[p] # "idle"
    /\ Goto(p, "idle")
    /\ lock' = IF lock = p THEN Orphan ELSE lock
    /\ UNCHANGED <<file, durable, built, base, now, req, copy, out, applied>>

\* Nothing in the code removes a lock that was left behind; an operator
\* does, having made sure that its creator is gone.
ClearOrphan ==
    /\ lock = Orphan
    /\ lock' = Free
    /\ UNCHANGED <<file, durable, built, base, now, pc, req, copy, out,
                   applied>>

\* Every process dies, and renames that were not synced may be undone.  So
\* may the creation and the removal of the lock file.
PowerLoss ==
    /\ \E n \in Len(durable) .. Len(file) : file' = Prefix(file, n)
    /\ durable' = file'
    /\ lock' \in {Free, Orphan}
    /\ pc' = [p \in Process |-> "idle"]
    /\ UNCHANGED <<built, base, now, req, copy, out, applied>>

\* An edit without the lock that adds a well-formed event.  The code cannot
\* see one that falls between the comparison and os.replace; such an edit is
\* left out, every other one is not.
Edit(r) ==
    /\ r \notin built
    /\ \A p \in Process : pc[p] \notin {"compared", "certified"}
    /\ built' = built \cup {r}
    /\ base' = [base EXCEPT ![r] = file]
    /\ file' = Append(file, r)
    /\ UNCHANGED <<durable, lock, now, pc, req, copy, out, applied>>

Tick ==
    /\ now < MaxTime
    /\ now' = now + 1
    /\ UNCHANGED <<file, durable, lock, built, base, pc, req, copy, out,
                   applied>>

Next ==
    \/ \E r \in Request : Prepare(r) \/ Edit(r)
    \/ \E p \in Process, r \in Request : Start(p, r)
    \/ \E p \in Process : Step(p) \/ Crash(p)
    \/ ClearOrphan
    \/ PowerLoss
    \/ Tick

Spec == Init /\ [][Next]_vars

\* A running process takes its next step, and an operator gets to a lock
\* that was left behind.  Nobody has to start, to crash or to edit.
FairSpec ==
    /\ Spec
    /\ \A p \in Process : WF_vars(Step(p))
    /\ WF_vars(ClearOrphan)

-----------------------------------------------------------------------------
(* Safety.                                                                 *)

\* At most one invocation is between the creation of the lock file and its
\* removal, and the lock file is that invocation's: the unconditional unlink
\* never removes somebody else's lock.
OneWriter ==
    \A p \in Process :
       pc[p] \in Holding =>
          /\ lock = p
          /\ \A q \in Process \ {p} : pc[q] = "idle"

\* The hash chain of the ledger is intact at any time: every event sits on
\* exactly the history it was prepared on.  In particular no event is in the
\* ledger twice, however often it was retried and whatever was lost.
HistoryIntact ==
    \A i \in 1 .. Len(file) : base[file[i]] = Prefix(file, i - 1)

\* An event reported as applied stays: no later writer, crash or power
\* failure takes it back.
AppliedIsDurable ==
    \A r \in applied : Contains(durable, r) /\ Contains(file, r)

\* What an invocation has rendered by the time it removes its lock is true:
\* a success names an event that is in the ledger, and one that reports no
\* write has not put its event there.
RepliesAreTruthful ==
    \A p \in Process : pc[p] = "unlock" =>
       IF out[p] = "rejected"
         THEN Contains(file, req[p]) => Contains(copy[p], req[p])
         ELSE Contains(file, req[p])

\* Whoever writes while an invocation is running only adds to the ledger: no
\* update that was there when the ledger was read or compared is overwritten.
NoLostUpdate ==
    [][(\E p \in Process : pc'[p] # "idle") =>
          Len(file') >= Len(file) /\ Prefix(file', Len(file)) = file]_vars

-----------------------------------------------------------------------------
(* The file protocol implements the abstract log.                          *)

Abstract == INSTANCE AppendLog WITH log <- file, secured <- Len(durable)

ImplementsLog == Abstract!Spec

-----------------------------------------------------------------------------
(* Liveness, under FairSpec.                                               *)

\* An invocation never hangs: it renders a reply and ends, or it is killed.
InvocationsEnd ==
    \A p \in Process : pc[p] # "idle" ~> pc[p] = "idle"

\* Every lock file goes away, whether its creator got to the finally clause
\* or an operator had to clean up.
LockFreed == lock # Free ~> lock = Free

-----------------------------------------------------------------------------
(* What the documentation says and the code cannot keep.                   *)

\* loop-event.template.yaml: the live freshness check ensures an accepted
\* claim is still active when written.  The clock is sampled before
\* os.replace, and the lease may end between the two.
FreshWhenWritten ==
    [][\A p \in Process :
          pc[p] = "certified" /\ pc'[p] = "replaced" => now < Deadline[req[p]]]_vars

=============================================================================
