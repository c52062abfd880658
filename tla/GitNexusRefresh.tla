--------------------------- MODULE GitNexusRefresh ---------------------------
(***************************************************************************)
(* The refresh of the derived GitNexus index of a checkout:                *)
(* gitnexus_hook.evaluate_hook, which looks at the index on every event    *)
(* and refreshes it unless its circuit breaker has tripped, and            *)
(* gitnexus_adapter.RefreshController.refresh, which runs the analyzer     *)
(* under a lock, checks what it left and binds it to the checkout with a   *)
(* sidecar file.  An operator may refresh as well, past the breaker.       *)
(* Callers and analyzers may be killed, and people edit and commit.        *)
(***************************************************************************)
EXTENDS Naturals, FiniteSets

CONSTANTS
    Hook, Operator,   \* the calls of each kind, every one a process
    Nobody,
    MaxHead           \* bound: commits of the checkout

ASSUME RefreshAssumption ==
    Hook \cap Operator = {} /\ Nobody \notin Hook \cup Operator /\ MaxHead \in Nat

Caller == Hook \cup Operator

VARIABLES
    head,       \* HEAD of the checkout
    tree,       \* how the worktree differs from it
    meta,       \* the analyzer's metadata: state, commit, and the run it is of
    graph,      \* of what the index proper is, if of anything at all
    sidecar,    \* the index identity: the commit and the run it is bound to
    lock,       \* the caller that holds the root lock
    marker,     \* the failure marker; a new one may not survive power loss
    pc,         \* call -> where it is
    seen,       \* call -> HEAD when it looked
    bound,      \* call -> the run whose metadata it has verified
    touched,    \* calls of whose snapshot a file has been written since
    analyzer,   \* call -> its analyzer process
    source,     \* call -> what the analyzer has met of the checkout
    failed,     \* hooks that recorded a failure since the last clearance
    barred,     \* hooks that began after the breaker had tripped
    stray,      \* calls whose analyzer outlived them
    overlap     \* whether two analyzers ever ran at the same time

checkout == <<head, tree>>
index == <<meta, graph, sidecar>>
history == <<failed, barred, stray, overlap>>
locals == <<seen, bound, touched>>
processes == <<analyzer, source>>
vars == <<checkout, index, lock, marker, pc, locals, processes, history>>

NoCommit == MaxHead + 1
Commit == 0 .. MaxHead
Watching == {"ready", "analyzing", "analyzed", "verified", "written"}
Locked == {"locked"} \cup Watching
Difference == {"clean", "added", "edited"}
Content == [commit : Commit \cup {NoCommit}, with : Difference]
Nothing == [commit |-> NoCommit, with |-> "clean"]
Steps == {"begun", "eligible", "starting", "failing", "recording"} \cup Locked

TypeOK ==
    /\ head \in Commit /\ tree \in Difference
    /\ meta \in [state : {"missing", "partial", "full"},
                 commit : Commit \cup {NoCommit}, run : Caller \cup {Nobody}]
    /\ graph \in Content
    /\ sidecar \in [commit : Commit \cup {NoCommit}, run : Caller \cup {Nobody}]
    /\ lock \in Caller \cup {Nobody}
    /\ marker \in {"none", "created", "durable"}
    /\ pc \in [Caller -> Steps \cup {"new", "done"}]
    /\ seen \in [Caller -> Commit \cup {NoCommit}]
    /\ bound \in [Caller -> Caller \cup {Nobody}]
    /\ touched \subseteq Caller
    /\ analyzer \in [Caller -> {"none", "running", "ok", "failed"}]
    /\ source \in [Caller -> Content]
    /\ failed \subseteq Hook /\ barred \subseteq Hook
    /\ stray \subseteq Caller /\ overlap \in BOOLEAN
    \* a call knows HEAD from its beginning to its end or failure
    /\ \A c \in Caller :
          /\ pc[c] \in {"begun", "eligible", "starting"} \cup Locked
                => seen[c] # NoCommit
          /\ pc[c] = "recording" => c \in Hook

Init ==
    /\ head = 0 /\ tree = "clean"
    /\ meta = [state |-> "missing", commit |-> NoCommit, run |-> Nobody]
    /\ graph = Nothing
    /\ sidecar = [commit |-> NoCommit, run |-> Nobody]
    /\ lock = Nobody /\ marker = "none"
    /\ pc = [c \in Caller |-> "new"]
    /\ seen = [c \in Caller |-> NoCommit]
    /\ bound = [c \in Caller |-> Nobody]
    /\ touched = {}
    /\ analyzer = [c \in Caller |-> "none"]
    /\ source = [c \in Caller |-> Nothing]
    /\ failed = {} /\ barred = {} /\ stray = {} /\ overlap = FALSE

Goto(c, label) == pc' = [pc EXCEPT ![c] = label]

\* A call that has ended, or failed, needs its notes no more.
Leave(c, label) ==
    /\ Goto(c, label)
    /\ seen' = [seen EXCEPT ![c] = NoCommit]
    /\ bound' = [bound EXCEPT ![c] = Nobody]
    /\ touched' = touched \ {c}

\* assess_metadata before the sidecar counts, and with it: the sidecar is
\* bound to the commit and, by a digest, to the metadata of one run.
Current(h) == meta.state = "full" /\ meta.commit = h
Exact(h) == Current(h) /\ sidecar = [commit |-> h, run |-> meta.run]

-----------------------------------------------------------------------------
(* The hook.                                                               *)

\* The configuration is read and the checkout looked at; an operator names
\* the HEAD to expect.
Begin(c) ==
    /\ pc[c] = "new"
    /\ tree = "clean"
    /\ seen' = [seen EXCEPT ![c] = head]
    /\ barred' = IF c \in Hook /\ marker # "none" THEN barred \cup {c} ELSE barred
    /\ Goto(c, IF c \in Hook THEN "begun" ELSE "starting")
    /\ UNCHANGED <<checkout, index, lock, marker, bound, touched, processes,
                   failed, stray, overlap>>

\* The index is read later than the checkout.  A missing or outdated one may
\* be refreshed; a fresh one needs no word, of any other the hook only tells.
Eligible(c) ==
    \/ meta.state = "missing"
    \/ meta.state = "full" /\ meta.commit # seen[c]

Assess(c) ==
    /\ pc[c] = "begun"
    /\ \/ ~ Eligible(c) /\ Leave(c, "done")
       \/ Eligible(c) /\ Goto(c, "eligible") /\ UNCHANGED locals
    /\ UNCHANGED <<checkout, index, lock, marker, processes, history>>

FaultyCheckMarker(c) ==
    /\ pc[c] = "eligible"
    /\ \/ marker # "none" /\ Leave(c, "done")
       \/ /\ marker = "none" \/ meta.state = "missing"
          /\ Goto(c, "starting") /\ UNCHANGED locals
    /\ UNCHANGED <<checkout, index, lock, marker, processes, history>>

\* Then the home of the analyzer is created; if the time for that runs out,
\* it is a failure like those of the controller.
CheckMarker(c) ==
    /\ pc[c] = "eligible"
    /\ \/ marker # "none" /\ Leave(c, "done")
       \/ marker = "none" /\ Goto(c, "starting") /\ UNCHANGED locals
    /\ UNCHANGED <<checkout, index, lock, marker, processes, history>>

\* A failure before the controller is called does not touch the breaker.
Warn(c) ==
    /\ pc[c] \in {"begun", "eligible"}
    /\ Leave(c, "done")
    /\ UNCHANGED <<checkout, index, lock, marker, processes, history>>

-----------------------------------------------------------------------------
(* RefreshController.refresh.                                              *)

FaultyRootLock(c) ==
    /\ pc[c] = "starting"
    /\ lock' = c
    /\ Goto(c, "locked")
    /\ UNCHANGED <<checkout, index, marker, locals, processes, history>>

\* The thread lock and flock, neither of which waits.
RootLock(c) ==
    /\ pc[c] = "starting"
    /\ lock = Nobody
    /\ lock' = c
    /\ Goto(c, "locked")
    /\ UNCHANGED <<checkout, index, marker, locals, processes, history>>

\* The checkout is as the caller saw it, clean, and did not change during the
\* preflight, which takes a snapshot of it.
Preflight(c) ==
    /\ pc[c] = "locked"
    /\ head = seen[c] /\ tree = "clean"
    /\ Goto(c, "ready")
    /\ UNCHANGED <<checkout, index, lock, marker, locals, processes, history>>

\* The analyzer starts on whatever the checkout is by now, its dirt included,
\* and marks the metadata unless there is none yet.
Launch(c) ==
    /\ pc[c] = "ready"
    /\ analyzer' = [analyzer EXCEPT ![c] = "running"]
    /\ source' = [source EXCEPT ![c] = [commit |-> head, with |-> tree]]
    /\ meta' \in {[meta EXCEPT !.state = "partial"]} \cup
                 (IF meta.state = "missing" THEN {meta} ELSE {})
    /\ graph' = Nothing
    /\ overlap' = (overlap \/ \E d \in Caller : analyzer[d] = "running")
    /\ Goto(c, "analyzing")
    /\ UNCHANGED <<checkout, sidecar, lock, marker, locals, failed, barred,
                   stray>>

\* _bounded_process: the analyzer has ended well.
Collect(c) ==
    /\ pc[c] = "analyzing" /\ analyzer[c] = "ok"
    /\ analyzer' = [analyzer EXCEPT ![c] = "none"]
    /\ Goto(c, "analyzed")
    /\ UNCHANGED <<checkout, index, lock, marker, locals, source, history>>

\* The lock is left before a failure is recorded.
Release(c) ==
    /\ lock' = IF lock = c THEN Nobody ELSE lock
    /\ Leave(c, "failing")

\* The time limit: the process group is killed.  It may not be gone in time,
\* which is a failure too, but of a call whose analyzer goes on.
Abort(c) ==
    /\ pc[c] = "analyzing" /\ analyzer[c] = "running"
    /\ \/ /\ analyzer' = [analyzer EXCEPT ![c] = "none"]
          /\ source' = [source EXCEPT ![c] = Nothing]
          /\ UNCHANGED stray
       \/ /\ stray' = stray \cup {c}
          /\ UNCHANGED processes
    /\ Release(c)
    /\ UNCHANGED <<checkout, index, marker, failed, barred, overlap>>

FaultyVerify(c) ==
    /\ pc[c] = "analyzed"
    /\ head = seen[c] /\ tree = "clean"
    /\ Current(seen[c])
    /\ bound' = [bound EXCEPT ![c] = meta.run]
    /\ Goto(c, "verified")
    /\ UNCHANGED <<checkout, index, lock, marker, seen, touched, processes,
                   history>>

\* The checkout is again as in the snapshot, no file of it written in between
\* (inode and time of modification are in its digest), and the metadata is
\* whole and of HEAD.
Verify(c) ==
    /\ pc[c] = "analyzed"
    /\ head = seen[c] /\ tree = "clean" /\ c \notin touched
    /\ Current(seen[c])
    /\ bound' = [bound EXCEPT ![c] = meta.run]
    /\ Goto(c, "verified")
    /\ UNCHANGED <<checkout, index, lock, marker, seen, touched, processes,
                   history>>

\* Temporary file, replace, sync.
WriteIdentity(c) ==
    /\ pc[c] = "verified"
    /\ sidecar' = [commit |-> seen[c], run |-> bound[c]]
    /\ Goto(c, "written")
    /\ UNCHANGED <<checkout, meta, graph, lock, marker, locals, processes,
                   history>>

\* Everything is checked once more, the sidecar with it.
Adopt(c) ==
    /\ pc[c] = "written"
    /\ head = seen[c] /\ tree = "clean" /\ c \notin touched
    /\ Exact(seen[c])
    /\ lock' = Nobody
    /\ Leave(c, "done")
    /\ UNCHANGED <<checkout, index, marker, processes, history>>

\* The lock is busy, a check fails, the analyzer failed, the deadline is over.
Fail(c) ==
    /\ pc[c] \in {"starting"} \cup Locked
    /\ analyzer[c] # "running"
    /\ analyzer' = [analyzer EXCEPT ![c] = "none"]
    /\ Release(c)
    /\ UNCHANGED <<checkout, index, marker, source, history>>

-----------------------------------------------------------------------------
(* The circuit breaker: _record_failure_marker.                            *)

\* An operator is told; a hook that finds a marker, of whatever age, is done.
ReportFailure(c) ==
    /\ pc[c] = "failing"
    /\ c \in Operator \/ marker # "none"
    /\ Goto(c, "done")
    /\ UNCHANGED <<checkout, index, lock, marker, locals, processes, history>>

\* O_CREAT and O_EXCL: what the file holds does not matter to later hooks.
CreateMarker(c) ==
    /\ pc[c] = "failing" /\ c \in Hook
    /\ marker = "none"
    /\ marker' = "created"
    /\ Goto(c, "recording")
    /\ UNCHANGED <<checkout, index, lock, locals, processes, history>>

FaultySyncMarker(c) ==
    /\ pc[c] = "recording"
    /\ failed' = IF marker # "none" THEN failed \cup {c} ELSE failed
    /\ Goto(c, "done")
    /\ UNCHANGED <<checkout, index, lock, marker, locals, processes, barred,
                   stray, overlap>>

\* The file and its directory are synced.  If the marker was removed or
\* replaced meanwhile, that is not noticed.
SyncMarker(c) ==
    /\ pc[c] = "recording"
    /\ marker' = IF marker = "created" THEN "durable" ELSE marker
    /\ failed' = IF marker # "none" THEN failed \cup {c} ELSE failed
    /\ Goto(c, "done")
    /\ UNCHANGED <<checkout, index, lock, locals, processes, barred, stray,
                   overlap>>

\* The marker cannot be written or synced: the failure is told as a warning.
WarnOfMarker(c) ==
    /\ c \in Hook /\ pc[c] \in {"failing", "recording"}
    /\ Goto(c, "done")
    /\ UNCHANGED <<checkout, index, lock, marker, locals, processes, history>>

\* The operator clears the marker.
Clear ==
    /\ marker # "none"
    /\ marker' = "none"
    /\ failed' = {} /\ barred' = {}
    /\ UNCHANGED <<checkout, index, lock, pc, locals, processes, stray,
                   overlap>>

-----------------------------------------------------------------------------
(* Analyzers, people and faults.                                           *)

\* The analyzer ends; how is of interest to a caller that still waits.
Ends(c, how) ==
    /\ analyzer[c] = "running"
    /\ analyzer' = [analyzer EXCEPT ![c] =
                      IF pc[c] = "analyzing" THEN how ELSE "none"]
    /\ source' = [source EXCEPT ![c] = Nothing]

\* The metadata is written last; it names HEAD, of the start or of the end,
\* whatever was in the tree.
Finish(c) ==
    /\ Ends(c, "ok")
    /\ \E h \in {source[c].commit, head} :
          meta' = [state |-> "full", commit |-> h, run |-> c]
    /\ graph' = source[c]
    /\ UNCHANGED <<checkout, sidecar, lock, marker, pc, locals, history>>

\* Until then it writes the index as it pleases.
Scribble(c) ==
    /\ analyzer[c] = "running"
    /\ graph' = Nothing
    /\ UNCHANGED <<checkout, meta, sidecar, lock, marker, pc, locals,
                   processes, history>>

Die(c) ==
    /\ Ends(c, "failed")
    /\ UNCHANGED <<checkout, index, lock, marker, pc, locals, history>>

\* What a running analyzer may have read by now.
Mixes(kind) ==
    source' = [c \in Caller |->
                 IF analyzer[c] = "running" /\ source[c].with # "edited"
                 THEN [source[c] EXCEPT !.with = kind] ELSE source[c]]

\* A file comes, and may go again without a trace.
AddFile ==
    /\ tree = "clean"
    /\ tree' = "added"
    /\ Mixes("added")
    /\ UNCHANGED <<head, index, lock, marker, pc, locals, analyzer, history>>

\* A file of the checkout is written, which a snapshot shows ever after.
EditFile ==
    /\ tree # "edited"
    /\ tree' = "edited"
    /\ Mixes("edited")
    /\ touched' = touched \cup {c \in Caller : pc[c] \in Watching}
    /\ UNCHANGED <<head, index, lock, marker, pc, seen, bound, analyzer,
                   history>>

CommitOrRestore ==
    /\ tree # "clean"
    /\ tree' = "clean"
    /\ head' \in {h \in {head, head + 1} : h =< MaxHead}
    /\ UNCHANGED <<index, lock, marker, pc, locals, processes, history>>

\* A caller is killed; its lock goes with it, its analyzer, in a session of
\* its own, does not.
Crash(c) ==
    /\ pc[c] \in Steps
    /\ Leave(c, "done")
    /\ lock' = IF lock = c THEN Nobody ELSE lock
    /\ stray' = IF analyzer[c] = "running" THEN stray \cup {c} ELSE stray
    /\ analyzer' = [analyzer EXCEPT ![c] = IF @ = "running" THEN @ ELSE "none"]
    /\ UNCHANGED <<checkout, index, marker, source, failed, barred, overlap>>

PowerLoss ==
    /\ pc' = [c \in Caller |-> IF pc[c] \in Steps THEN "done" ELSE pc[c]]
    /\ seen' = [c \in Caller |-> NoCommit]
    /\ bound' = [c \in Caller |-> Nobody]
    /\ touched' = {}
    /\ analyzer' = [c \in Caller |-> "none"]
    /\ source' = [c \in Caller |-> Nothing]
    /\ lock' = Nobody
    /\ marker' \in {marker} \cup (IF marker = "created" THEN {"none"} ELSE {})
    /\ UNCHANGED <<checkout, index, history>>

Evaluate(c) ==
    \/ Assess(c) \/ CheckMarker(c) \/ Warn(c)
    \/ RootLock(c) \/ Preflight(c) \/ Launch(c) \/ Collect(c) \/ Abort(c)
    \/ Verify(c) \/ WriteIdentity(c) \/ Adopt(c) \/ Fail(c)
    \/ ReportFailure(c) \/ CreateMarker(c) \/ SyncMarker(c) \/ WarnOfMarker(c)

Next ==
    \/ \E c \in Caller :
         \/ Begin(c) \/ Evaluate(c) \/ Crash(c)
         \/ Finish(c) \/ Scribble(c) \/ Die(c)
    \/ Clear \/ AddFile \/ EditFile \/ CommitOrRestore \/ PowerLoss

Spec == Init /\ [][Next]_vars

-----------------------------------------------------------------------------
(* Properties.                                                             *)

\* An index that would pass for fresh at some HEAD was built from that very
\* commit, and no file of it was other than committed while it was built,
\* whatever was edited, undone, interrupted or outdated on the way; unless two
\* analyzers wrote it at once.  A file that came and went while the analyzer
\* ran is beyond the digests, and not excluded.
FreshIsExact ==
    ~ overlap => \A h \in Commit : Exact(h) =>
                    graph.commit = h /\ graph.with # "edited"

\* Two analyzers run at once only if one of them outlived its caller: the
\* lock ends with the process that holds it.
OneAnalyzer == overlap => stray # {}

\* After a hook has recorded and reported a failure, the breaker stays tripped through
\* power failures until an operator clears it.
BreakerHolds == failed # {} => marker = "durable"

\* A hook that began after the breaker had tripped never gets as far as the
\* controller.
NoRetryWhileTripped ==
    \A c \in barred : pc[c] \notin {"starting"} \cup Locked

=============================================================================
