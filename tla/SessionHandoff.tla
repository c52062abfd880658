--------------------------- MODULE SessionHandoff ---------------------------
(***************************************************************************)
(* cli_session_handoff.execute_handoff: calls of the executor, several at  *)
(* a time, each of which validates the worktree, claims its rollover in    *)
(* the replay ledger of the Git directory, runs a Codex session in a       *)
(* private clone under a time limit, ends its process tree and applies the *)
(* patch it left to the worktree.  The executor may be killed at any step, *)
(* the power may fail, and people edit and commit in the worktree.         *)
(***************************************************************************)
EXTENDS Naturals, Sequences, FiniteSets

CONSTANTS
    Call,         \* invocations of the executor, each a process of its own
    Request,      \* the requests callers make
    NoRequest,
    Rollover, Checkpoint,
    MaxEntries    \* capacity of the replay ledger

\* A fresh continuation names a rollover and its checkpoint; a start, resume
\* or fork names none, and "fresh" tells them apart.
ASSUME HandoffAssumption ==
    /\ Request \subseteq [fresh : BOOLEAN, write : BOOLEAN,
                          rollover : Rollover, checkpoint : Checkpoint]
    /\ NoRequest \notin Request
    /\ MaxEntries \in Nat

VARIABLES
    ledger,    \* the claims in ledger.json, oldest first
    synced,    \* how many of them a power failure cannot take back
    dirty,     \* whether the worktree differs from HEAD
    sessions,  \* the sessions started so far, as a sequence of requests
    pc,        \* call -> where it is in execute_handoff
    req,       \* call -> its request
    stale,     \* the calls whose expected_head is no longer HEAD
    child,     \* call -> its Codex process
    kid,       \* call -> a descendant of it: alive or not, and if so, seen by
               \* the tracker or even on the list of those to terminate
    cause,     \* call -> what ended the run
    landed,    \* call -> what of the patch is in the worktree
    receipt    \* call -> the receipt it returned last

worktree == <<dirty, stale>>
claims == <<ledger, synced>>
tree == <<child, kid>>
vars == <<claims, worktree, sessions, pc, req, tree, cause,
          landed, receipt>>

Claim == [rollover : Rollover, checkpoint : Checkpoint]
Claiming == {"staged", "replaced"}
Running == {"running", "termed", "reaping", "retermed"}
Steps == {"validated", "claimed", "ended", "rechecked"} \cup Claiming \cup Running

NoReceipt == [status |-> "none", session |-> FALSE, claimed |-> FALSE,
              wrote |-> FALSE, unsafe |-> FALSE]
\* "unsafe" is the failure class termination_error, or isolation_error, which
\* a clone that cannot be removed puts in its place; "wrote" is
\* adapter_repository_write_performed.
Receipt == [status : {"none", "stopped", "failed", "completed"},
            session : BOOLEAN, claimed : BOOLEAN, wrote : BOOLEAN,
            unsafe : BOOLEAN]

TypeOK ==
    /\ ledger \in Seq(Claim) /\ synced \in 0 .. Len(ledger)
    /\ dirty \in BOOLEAN /\ stale \subseteq Call
    /\ sessions \in Seq(Request)
    /\ pc \in [Call -> Steps \cup {"new", "done"}]
    /\ req \in [Call -> Request \cup {NoRequest}]
    /\ child \in [Call -> {"none", "alive", "ok", "failed"}]
    /\ kid \in [Call -> {"none", "unseen", "seen", "doomed"}]
    /\ cause \in [Call -> {"exit", "stopped"}]
    /\ landed \in [Call -> {"no", "partly", "yes"}]
    /\ receipt \in [Call -> Receipt]
    /\ \A c \in Call : pc[c] \in Steps => req[c] \in Request

Init ==
    /\ ledger = << >> /\ synced = 0
    /\ dirty = FALSE /\ stale = {}
    /\ sessions = << >>
    /\ pc = [c \in Call |-> "new"]
    /\ req = [c \in Call |-> NoRequest]
    /\ child = [c \in Call |-> "none"]
    /\ kid = [c \in Call |-> "none"]
    /\ cause = [c \in Call |-> "exit"]
    /\ landed = [c \in Call |-> "no"]
    /\ receipt = [c \in Call |-> NoReceipt]

Goto(c, label) == pc' = [pc EXCEPT ![c] = label]

\* The call ends; what survives it and was not to end is of no further
\* interest.  The receipt states what the call has done so far: the claim once
\* _claim_rollover returned, the session once the process was started.
Return(c, status, wrote, unsafe) ==
    /\ receipt' = [receipt EXCEPT ![c] =
         [status |-> status, session |-> child[c] # "none",
          claimed |-> req[c].fresh /\
                      pc[c] \notin Claiming \cup {"validated"},
          wrote |-> wrote, unsafe |-> unsafe]]
    /\ stale' = stale \ {c}
    /\ kid' = [kid EXCEPT ![c] = IF @ = "doomed" THEN @ ELSE "none"]
    /\ Goto(c, "done")

\* _workspace_identity: expected HEAD, and clean.
AsExpected(c) == c \notin stale /\ ~ dirty

-----------------------------------------------------------------------------
(* The claim.                                                              *)

\* validate_request; a request that fails it does nothing.  Only a fresh
\* continuation claims its rollover next.
Validate(c, r) ==
    /\ pc[c] = "new"
    /\ ~ dirty
    /\ Goto(c, IF r.fresh THEN "validated" ELSE "claimed")
    /\ req' = [req EXCEPT ![c] = r]
    /\ UNCHANGED <<claims, worktree, sessions, tree, cause, landed, receipt>>

\* Neither the rollover nor the checkpoint may have been claimed before.
Unclaimed(r) ==
    \A i \in 1 .. Len(ledger) : /\ ledger[i].rollover # r.rollover
                                /\ ledger[i].checkpoint # r.checkpoint

\* flock without waiting, on a lock file that is never removed; the ledger is
\* read, checked and written to a temporary file with one more entry.
Stage(c) ==
    /\ pc[c] = "validated"
    /\ \A d \in Call : pc[d] \notin Claiming
    /\ Unclaimed(req[c]) /\ Len(ledger) < MaxEntries
    /\ Goto(c, "staged")
    /\ UNCHANGED <<claims, worktree, sessions, req, tree, cause,
                   landed, receipt>>

ReplaceLedger(c) ==
    /\ pc[c] = "staged"
    /\ ledger' = Append(ledger, [rollover |-> req[c].rollover,
                                 checkpoint |-> req[c].checkpoint])
    /\ Goto(c, "replaced")
    /\ UNCHANGED <<synced, worktree, sessions, req, tree, cause,
                   landed, receipt>>

FaultySyncLedger(c) ==
    /\ pc[c] = "replaced"
    /\ Goto(c, "claimed")
    /\ UNCHANGED <<claims, worktree, sessions, req, tree, cause, landed,
                   receipt>>

\* The directory is synced; leaving the block releases the lock.
SyncLedger(c) ==
    /\ pc[c] = "replaced"
    /\ synced' = Len(ledger)
    /\ Goto(c, "claimed")
    /\ UNCHANGED <<ledger, worktree, sessions, req, tree, cause,
                   landed, receipt>>

\* The lock is busy, the rollover is known, the ledger is full, or a file
\* operation fails: the call stops before any session.  The entry may be in
\* the ledger all the same.
StopClaim(c) ==
    /\ pc[c] \in Claiming \cup {"validated"}
    /\ Return(c, "stopped", FALSE, FALSE)
    /\ UNCHANGED <<claims, dirty, sessions, req, child, cause,
                   landed>>

-----------------------------------------------------------------------------
(* The run.                                                                *)

\* A private clone at the expected commit; the identity of the worktree is
\* checked again, then the process starts in the clone.
Launch(c) ==
    /\ pc[c] = "claimed"
    /\ AsExpected(c)
    /\ child' = [child EXCEPT ![c] = "alive"]
    /\ sessions' = Append(sessions, req[c])
    /\ Goto(c, "running")
    /\ UNCHANGED <<claims, worktree, req, kid, cause, landed, receipt>>

\* poll() tells that the process has ended.
SeeExit(c) ==
    /\ pc[c] = "running" /\ child[c] # "alive"
    /\ Goto(c, "reaping")
    /\ UNCHANGED <<claims, worktree, sessions, req, tree, cause, landed,
                   receipt>>

\* An inventory of processes finds a descendant through its live parent, or
\* because it was found before.
Seen(c) == \/ kid[c] \in {"seen", "doomed"}
           \/ kid[c] = "unseen" /\ child[c] = "alive"

\* The tracker polls every few milliseconds while the process runs.
Track(c) ==
    /\ pc[c] \in Running
    /\ kid[c] = "unseen" /\ Seen(c)
    /\ kid' = [kid EXCEPT ![c] = "seen"]
    /\ UNCHANGED <<claims, worktree, sessions, pc, req, child, cause,
                   landed, receipt>>

\* _terminate_process_group: an inventory; SIGTERM to what it found and to
\* the process group.  What is found later is not waited for.
Terminate(c, label) ==
    /\ kid' = IF Seen(c) THEN [kid EXCEPT ![c] = "doomed"] ELSE kid
    /\ Goto(c, label)

FaultyTreeGone(c) == child[c] # "alive"

TreeGone(c) == child[c] # "alive" /\ kid[c] # "doomed"

\* The time limit, too much output, or an interrupt.
Abort(c) ==
    /\ pc[c] = "running" /\ child[c] = "alive"
    /\ cause' = [cause EXCEPT ![c] = "stopped"]
    /\ Terminate(c, "termed")
    /\ UNCHANGED <<claims, worktree, sessions, req, child, landed, receipt>>

\* The last inventory finds a descendant that outlived the process.
ReapLate(c) ==
    /\ pc[c] = "reaping"
    /\ child[c] = "alive" \/ Seen(c)
    /\ Terminate(c, "retermed")
    /\ UNCHANGED <<claims, worktree, sessions, req, child, cause, landed,
                   receipt>>

\* SIGKILL after the grace period; what is stuck in the kernel survives it.
Kill(c) ==
    /\ pc[c] \in {"termed", "retermed"} /\ ~ TreeGone(c)
    /\ child' \in {child, [child EXCEPT ![c] =
                              IF @ = "alive" THEN "failed" ELSE @]}
    /\ kid' \in {kid, [kid EXCEPT ![c] =
                          IF @ = "doomed" THEN "none" ELSE @]}
    /\ UNCHANGED <<claims, worktree, sessions, pc, req, cause, landed, receipt>>

\* After a termination before the end of the run there is a last inventory.
SeeTreeGone(c) ==
    /\ pc[c] = "termed" /\ TreeGone(c)
    /\ Goto(c, "reaping")
    /\ UNCHANGED <<claims, worktree, sessions, req, tree, cause, landed,
                   receipt>>

\* The last inventory finds nothing, or what it found is gone.
Over(c) ==
    \/ pc[c] = "reaping" /\ child[c] # "alive" /\ ~ Seen(c)
    \/ pc[c] = "retermed" /\ TreeGone(c)

FaultyTerminationError(c) ==
    /\ pc[c] \in Running \ {"running"} /\ child[c] # "alive"
    /\ Return(c, "failed", FALSE, TRUE)
    /\ UNCHANGED <<claims, dirty, sessions, req, child, cause, landed>>

\* The tree did not end in time, or the inventory of processes failed.
TerminationError(c) ==
    /\ pc[c] \in Running \ {"running"}
    /\ Return(c, "failed", FALSE, TRUE)
    /\ UNCHANGED <<claims, dirty, sessions, req, child, cause, landed>>

FaultyReaped(c) ==
    /\ Over(c)
    /\ child[c] = "ok"
    /\ Goto(c, "ended")
    /\ UNCHANGED <<claims, worktree, sessions, req, tree, cause, landed,
                   receipt>>

Reaped(c) ==
    /\ Over(c)
    /\ cause[c] = "exit" /\ child[c] = "ok"
    /\ Goto(c, "ended")
    /\ UNCHANGED <<claims, worktree, sessions, req, tree, cause, landed,
                   receipt>>

\* The clone, the launch, the run or the capture of its patch fails: the
\* process ended by itself, badly, or was stopped, or its output or its HEAD
\* are not what they should be, or the clone cannot be removed.
Fail(c) ==
    /\ \/ pc[c] \in {"claimed", "ended"}
       \/ Over(c)
    /\ \E unsafe \in BOOLEAN : Return(c, "failed", FALSE, unsafe)
    /\ UNCHANGED <<claims, dirty, sessions, req, child, cause, landed>>

-----------------------------------------------------------------------------
(* The patch.                                                              *)

\* A session that may not write, or has changed nothing, is complete.
Complete(c) ==
    /\ pc[c] = "ended"
    /\ Return(c, "completed", FALSE, FALSE)
    /\ UNCHANGED <<claims, dirty, sessions, req, child, cause, landed>>

\* The patch is captured, the private clone removed, the worktree checked.
Recheck(c) ==
    /\ pc[c] = "ended" /\ req[c].write
    /\ AsExpected(c)
    /\ Goto(c, "rechecked")
    /\ UNCHANGED <<claims, worktree, sessions, req, tree, cause, landed,
                   receipt>>

\* git apply --check and git apply; both see the worktree as it is now.
Apply(c) ==
    /\ pc[c] = "rechecked"
    /\ dirty' = TRUE
    /\ landed' = [landed EXCEPT ![c] = "yes"]
    /\ Return(c, "completed", TRUE, FALSE)
    /\ UNCHANGED <<claims, sessions, req, child, cause>>

\* A check fails; or git apply fails or is killed after 30 seconds, with a
\* part of the patch written or all of it.
FailPatch(c) ==
    /\ pc[c] = "rechecked"
    /\ \/ UNCHANGED <<landed, dirty>>
       \/ /\ landed' \in {[landed EXCEPT ![c] = l] : l \in {"partly", "yes"}}
          /\ dirty' = TRUE
    /\ Return(c, "failed", FALSE, FALSE)
    /\ UNCHANGED <<claims, sessions, req, child, cause>>

-----------------------------------------------------------------------------
(* Processes and people.  What is left of a tree after its call returned   *)
(* is of no further interest.                                              *)

Exit(c) ==
    /\ pc[c] \in Running /\ child[c] = "alive"
    /\ child' \in {[child EXCEPT ![c] = s] : s \in {"ok", "failed"}}
    /\ UNCHANGED <<claims, worktree, sessions, pc, req, kid, cause, landed,
                   receipt>>

Spawn(c) ==
    /\ pc[c] \in Running /\ child[c] = "alive"
    /\ kid[c] = "none"
    /\ kid' = [kid EXCEPT ![c] = "unseen"]
    /\ UNCHANGED <<claims, worktree, sessions, pc, req, child, cause, landed,
                   receipt>>

\* A descendant starts one of its own and ends, which the tracker may notice
\* in time or not.
HandOver(c) ==
    /\ pc[c] \in Running /\ kid[c] \in {"seen", "doomed"}
    /\ kid' \in {[kid EXCEPT ![c] = k] : k \in {"unseen", "seen"}}
    /\ UNCHANGED <<claims, worktree, sessions, pc, req, child, cause, landed,
                   receipt>>

KidExit(c) ==
    /\ pc[c] \in Running /\ kid[c] # "none"
    /\ kid' = [kid EXCEPT ![c] = "none"]
    /\ UNCHANGED <<claims, worktree, sessions, pc, req, child, cause, landed,
                   receipt>>

\* The executor is killed; its child, if it has one, goes on alone.
Killed(cs) ==
    /\ pc' = [c \in Call |-> IF c \in cs THEN "done" ELSE pc[c]]
    /\ req' = [c \in Call |-> IF c \in cs THEN NoRequest ELSE req[c]]
    /\ cause' = [c \in Call |-> IF c \in cs THEN "exit" ELSE cause[c]]
    /\ child' = [c \in Call |-> IF c \in cs THEN "none" ELSE child[c]]
    /\ kid' = [c \in Call |-> IF c \in cs THEN "none" ELSE kid[c]]
    /\ stale' = stale \ cs
    /\ UNCHANGED <<sessions, landed, receipt>>

Crash(c) ==
    /\ pc[c] \in Steps
    /\ Killed({c})
    \* it may have been about to apply its patch
    /\ dirty' \in {dirty, dirty \/ pc[c] = "rechecked"}
    /\ UNCHANGED claims

\* What was not synced may be lost.
PowerLoss ==
    /\ \E n \in synced .. Len(ledger) :
         ledger' = SubSeq(ledger, 1, n) /\ synced' = n
    /\ Killed({c \in Call : pc[c] \in Steps})
    /\ UNCHANGED dirty

Edit ==
    /\ ~ dirty
    /\ dirty' = TRUE
    /\ UNCHANGED <<claims, stale, sessions, pc, req, tree, cause,
                   landed, receipt>>

CommitOrRestore ==
    /\ dirty
    /\ dirty' = FALSE
    /\ stale' \in {stale, {c \in Call : pc[c] \in Steps}}
    /\ UNCHANGED <<claims, sessions, pc, req, tree, cause, landed,
                   receipt>>

\* What the executor does on its own once it was called.
Execute(c) ==
    \/ Stage(c) \/ ReplaceLedger(c) \/ SyncLedger(c)
    \/ StopClaim(c) \/ Launch(c) \/ SeeExit(c) \/ Abort(c)
    \/ SeeTreeGone(c) \/ ReapLate(c) \/ TerminationError(c) \/ Reaped(c)
    \/ Fail(c) \/ Complete(c) \/ Recheck(c) \/ Apply(c) \/ FailPatch(c)

Next ==
    \/ \E c \in Call :
         \/ \E r \in Request : Validate(c, r)
         \/ Execute(c) \/ Kill(c) \/ Track(c)
         \/ Exit(c) \/ Spawn(c) \/ HandOver(c) \/ KidExit(c) \/ Crash(c)
    \/ PowerLoss \/ Edit \/ CommitOrRestore

Spec == Init /\ [][Next]_vars

\* A called executor takes its steps.  Nothing is assumed of the session: it
\* may run for ever, survive every signal, or leave descendants.
FairSpec == Spec /\ \A c \in Call : WF_vars(Execute(c))

-----------------------------------------------------------------------------
(* Properties.                                                             *)

\* A rollover runs at most once, and so does a checkpoint under whatever
\* rollover id, through concurrent retries, crashes and power
\* failures: the replay ledger is the only barrier.
OneSessionPerRollover ==
    \A i, j \in 1 .. Len(sessions) :
       i # j /\ sessions[i].fresh /\ sessions[j].fresh =>
          /\ sessions[i].rollover # sessions[j].rollover
          /\ sessions[i].checkpoint # sessions[j].checkpoint

\* A receipt does not say more or less than what happened: a stopped call
\* started no session; a call that does not report a session started none;
\* a reported claim is durable; only a session that may write and ended well
\* leaves anything in the worktree; and "completed" means that its patch is
\* there as a whole or that there is none.
ReceiptsTruthful ==
    \A c \in Call :
       LET r == receipt[c] IN
       r.status # "none" =>
          /\ (r.session <=> child[c] # "none")
          /\ r.status = "stopped" => ~ r.session /\ landed[c] = "no"
          /\ r.claimed => \E i \in 1 .. synced :
                ledger[i].rollover = req[c].rollover
          /\ landed[c] # "no" => /\ req[c].write
                                /\ child[c] = "ok" /\ cause[c] = "exit"
          /\ r.status = "completed" => /\ child[c] = "ok" /\ ~ r.unsafe
                                       /\ landed[c] # "partly"
                                       /\ (r.wrote <=> landed[c] = "yes")

\* When a call returns, the Codex process is gone, and so is every descendant
\* its termination set out to end, unless the receipt says that the end of
\* the session or the removal of its clone failed.
NoTrackedSurvivors ==
    \A c \in Call :
       receipt[c].status # "none" /\ ~ receipt[c].unsafe =>
          child[c] # "alive" /\ kid[c] # "doomed"

\* Every call returns, whatever the session does, unless it is killed.
HandoffsEnd ==
    \A c \in Call : pc[c] \in Steps ~> pc[c] = "done"

=============================================================================
