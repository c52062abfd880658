----------------------- MODULE GitNexusRefreshProofs ------------------------
(***************************************************************************)
(* Theorems about GitNexusRefresh, for any number of hooks, operators and  *)
(* commits.  The inductive invariant RefreshInv is the type and            *)
(*   LockFollows    a call inside the root lock is its holder,             *)
(*   StraysKnown    an analyzer nobody waits for is that of a stray,       *)
(*   RunsKnown      an analyzer runs for a call that has launched it,      *)
(*   OneRuns        without an overlap one analyzer runs at a time, and    *)
(*                  no metadata says meanwhile that the index is whole,    *)
(*   Alone          nor does another run while a call has its result,      *)
(*   Watched        what a call whose snapshot still holds knows of the    *)
(*                  checkout and of what its analyzer has read,            *)
(*   Built          what the analyzer has left for its call to verify,     *)
(*   Verified       what a call knows that goes on to bind the index,      *)
(*   Rebound        the run a sidecar names is over,                       *)
(*   SidecarExact   metadata the sidecar is bound to is of the index,      *)
(*   BarredWait     a barred hook has begun, and while it goes on the      *)
(*                  marker is there.                                       *)
(* The argument for FreshIsExact goes along Watched, Built, Verified and   *)
(* SidecarExact: the snapshot carries the knowledge of the preflight over  *)
(* the run of the analyzer, and the sidecar that of the call beyond it.    *)
(***************************************************************************)
EXTENDS GitNexusRefresh, TLAPS

LockFollows == \A c \in Caller : pc[c] \in Locked => lock = c

StraysKnown ==
    \A c \in Caller : analyzer[c] = "running" => pc[c] = "analyzing" \/ c \in stray

OneRuns ==
    ~ overlap =>
       \A c \in Caller : analyzer[c] = "running" =>
          /\ \A d \in Caller : analyzer[d] = "running" => d = c
          /\ meta.state # "full"

RunsKnown ==
    \A c \in Caller :
       /\ analyzer[c] = "running" =>
             pc[c] \in {"analyzing", "failing", "recording", "done"}
       /\ analyzer[c] \in {"ok", "failed"} => pc[c] = "analyzing"

Alone ==
    ~ overlap =>
       \A c \in Caller : pc[c] \in Watching \ {"ready"} =>
          \A d \in Caller : analyzer[d] = "running" => d = c

Watched ==
    \A c \in Caller :
       /\ pc[c] \in {"begun", "eligible", "starting"} \cup Locked => seen[c] =< head
       /\ pc[c] \in Watching /\ c \notin touched => tree # "edited"
       /\ pc[c] = "analyzing" /\ analyzer[c] = "running" =>
             /\ seen[c] =< source[c].commit /\ source[c].commit =< head
             /\ c \notin touched => source[c].with # "edited"

HasResult(c) ==
    \/ pc[c] = "analyzing" /\ analyzer[c] = "ok"
    \/ pc[c] \in {"analyzed", "verified", "written"}

Built ==
    ~ overlap =>
       \A c \in Caller : HasResult(c) =>
          /\ meta.run = c
          /\ seen[c] =< graph.commit /\ graph.commit =< head
          /\ c \notin touched => graph.with # "edited"

Verified ==
    ~ overlap =>
       \A c \in Caller : pc[c] \in {"verified", "written"} =>
          /\ meta = [state |-> "full", commit |-> seen[c], run |-> c]
          /\ bound[c] = c
          /\ graph.commit = seen[c] /\ graph.with # "edited"

Rebound ==
    ~ overlap =>
       \A c \in Caller : sidecar.run = c =>
          /\ analyzer[c] = "none"
          /\ pc[c] \in {"written", "failing", "recording", "done"}

SidecarExact ==
    ~ overlap /\ meta.state = "full"
       /\ sidecar = [commit |-> meta.commit, run |-> meta.run] =>
           graph.commit = meta.commit /\ graph.with # "edited"

BarredWait ==
    \A c \in barred :
       /\ pc[c] # "new"
       /\ pc[c] \in Steps => marker # "none"
       /\ pc[c] \notin {"starting"} \cup Locked

RefreshInv ==
    /\ TypeOK /\ LockFollows /\ StraysKnown /\ OneAnalyzer
    /\ RunsKnown /\ OneRuns /\ Alone
    /\ Watched /\ Built /\ Verified /\ Rebound /\ SidecarExact
    /\ BreakerHolds /\ BarredWait

\* The cases of a step, for proofs by cases.
LEMMA RefreshSteps ==
    ASSUME [Next]_vars
    PROVE  \/ \E c \in Caller : Begin(c)
           \/ \E c \in Caller : Assess(c)
           \/ \E c \in Caller : CheckMarker(c)
           \/ \E c \in Caller : Warn(c)
           \/ \E c \in Caller : RootLock(c)
           \/ \E c \in Caller : Preflight(c)
           \/ \E c \in Caller : Launch(c)
           \/ \E c \in Caller : Collect(c)
           \/ \E c \in Caller : Abort(c)
           \/ \E c \in Caller : Verify(c)
           \/ \E c \in Caller : WriteIdentity(c)
           \/ \E c \in Caller : Adopt(c)
           \/ \E c \in Caller : Fail(c)
           \/ \E c \in Caller : ReportFailure(c)
           \/ \E c \in Caller : CreateMarker(c)
           \/ \E c \in Caller : SyncMarker(c)
           \/ \E c \in Caller : WarnOfMarker(c)
           \/ \E c \in Caller : Crash(c)
           \/ \E c \in Caller : Finish(c)
           \/ \E c \in Caller : Scribble(c)
           \/ \E c \in Caller : Die(c)
           \/ Clear \/ AddFile \/ EditFile \/ CommitOrRestore \/ PowerLoss
           \/ UNCHANGED vars
BY SMTT(40) DEF Next, Evaluate

\* Every step keeps the type.
LEMMA TypeStep ==
    ASSUME TypeOK, [Next]_vars PROVE TypeOK'
<1> USE DEF TypeOK, Caller, Steps, Locked, Watching, Difference, Content,
        Nothing,
        Commit, NoCommit, checkout, index, history, locals, processes, Goto
<1>1. CASE \E c \in Caller : Begin(c)
  BY <1>1, RefreshAssumption DEF Begin
<1>2. CASE \E c \in Caller : Assess(c)
  BY <1>2 DEF Assess, Leave
<1>3. CASE \E c \in Caller : CheckMarker(c)
  BY <1>3 DEF CheckMarker, Leave
<1>4. CASE \E c \in Caller : Warn(c)
  BY <1>4 DEF Warn, Leave
<1>5. CASE \E c \in Caller : RootLock(c)
  BY <1>5 DEF RootLock
<1>6. CASE \E c \in Caller : Preflight(c)
  BY <1>6 DEF Preflight
<1>7. CASE \E c \in Caller : Launch(c)
  BY <1>7 DEF Launch
<1>8. CASE \E c \in Caller : Collect(c)
  BY <1>8 DEF Collect
<1>9. CASE \E c \in Caller : Abort(c)
  BY <1>9 DEF Abort, Release, Leave
<1>10. CASE \E c \in Caller : Verify(c)
  BY <1>10 DEF Verify
<1>11. CASE \E c \in Caller : WriteIdentity(c)
  BY <1>11 DEF WriteIdentity
<1>12. CASE \E c \in Caller : Adopt(c)
  BY <1>12 DEF Adopt, Leave
<1>13. CASE \E c \in Caller : Fail(c)
  BY <1>13 DEF Fail, Release, Leave
<1>14. CASE \E c \in Caller : ReportFailure(c)
  BY <1>14 DEF ReportFailure
<1>15. CASE \E c \in Caller : CreateMarker(c)
  BY <1>15 DEF CreateMarker
<1>16. CASE \E c \in Caller : SyncMarker(c)
  BY <1>16 DEF SyncMarker
<1>17. CASE \E c \in Caller : WarnOfMarker(c)
  BY <1>17 DEF WarnOfMarker
<1>18. CASE \E c \in Caller : Crash(c)
  BY <1>18 DEF Crash, Leave
<1>19. CASE \E c \in Caller : Finish(c)
  BY <1>19 DEF Finish, Ends
<1>20. CASE \E c \in Caller : Scribble(c)
  BY <1>20 DEF Scribble
<1>21. CASE \E c \in Caller : Die(c)
  BY <1>21 DEF Die, Ends
<1>22. CASE Clear
  BY <1>22 DEF Clear
<1>23. CASE AddFile
  BY <1>23 DEF AddFile, Mixes
<1>27. CASE EditFile
  BY <1>27 DEF EditFile, Mixes
<1>24. CASE CommitOrRestore
  <2>1. head' \in Commit
    BY <1>24, RefreshAssumption DEF CommitOrRestore
  <2>2. /\ tree' = "clean"
        /\ UNCHANGED <<index, lock, marker, pc, locals, processes, history>>
    BY <1>24 DEF CommitOrRestore
  <2> HIDE DEF Commit, NoCommit, Caller, Steps, Locked, Content
  <2> QED BY ZenonT(60), <2>1, <2>2
<1>25. CASE PowerLoss
  BY <1>25 DEF PowerLoss
<1>26. CASE UNCHANGED vars
  BY <1>26 DEF vars
<1> QED BY RefreshSteps, <1>1, <1>2, <1>3, <1>4, <1>5, <1>6, <1>7, <1>8, <1>9,
       <1>10, <1>11, <1>12, <1>13, <1>14, <1>15, <1>16, <1>17, <1>18, <1>19,
       <1>20, <1>21, <1>22, <1>23, <1>24, <1>25, <1>26, <1>27


-----------------------------------------------------------------------------
(* The lock and the analyzers.                                             *)

\* Only the holder of the lock is inside it.
LEMMA LockStep ==
    ASSUME TypeOK, LockFollows, [Next]_vars
    PROVE  LockFollows'
<1> USE DEF TypeOK, LockFollows, Caller, Steps, Locked, Watching,
        checkout, index,
        history, locals, processes, Goto
<1>1. CASE \E c \in Caller : Begin(c)
  BY <1>1 DEF Begin
<1>2. CASE \E c \in Caller : Assess(c)
  BY <1>2 DEF Assess, Leave
<1>3. CASE \E c \in Caller : CheckMarker(c)
  BY <1>3 DEF CheckMarker, Leave
<1>4. CASE \E c \in Caller : Warn(c)
  BY <1>4 DEF Warn, Leave
<1>5. CASE \E c \in Caller : RootLock(c)
  BY <1>5, RefreshAssumption DEF RootLock
<1>6. CASE \E c \in Caller : Preflight(c)
  BY <1>6 DEF Preflight
<1>7. CASE \E c \in Caller : Launch(c)
  BY <1>7 DEF Launch
<1>8. CASE \E c \in Caller : Collect(c)
  BY <1>8 DEF Collect
<1>9. CASE \E c \in Caller : Abort(c)
  BY <1>9 DEF Abort, Release, Leave
<1>10. CASE \E c \in Caller : Verify(c)
  BY <1>10 DEF Verify
<1>11. CASE \E c \in Caller : WriteIdentity(c)
  BY <1>11 DEF WriteIdentity
<1>12. CASE \E c \in Caller : Adopt(c)
  BY <1>12 DEF Adopt, Leave
<1>13. CASE \E c \in Caller : Fail(c)
  BY <1>13 DEF Fail, Release, Leave
<1>14. CASE \E c \in Caller : ReportFailure(c)
  BY <1>14 DEF ReportFailure
<1>15. CASE \E c \in Caller : CreateMarker(c)
  BY <1>15 DEF CreateMarker
<1>16. CASE \E c \in Caller : SyncMarker(c)
  BY <1>16 DEF SyncMarker
<1>17. CASE \E c \in Caller : WarnOfMarker(c)
  BY <1>17 DEF WarnOfMarker
<1>18. CASE \E c \in Caller : Crash(c)
  BY <1>18 DEF Crash, Leave
<1>19. CASE PowerLoss
  BY <1>19 DEF PowerLoss
<1>20. CASE UNCHANGED <<pc, lock>>
  BY <1>20
<1> QED BY RefreshSteps, <1>1, <1>2, <1>3, <1>4, <1>5, <1>6, <1>7, <1>8, <1>9,
        <1>10, <1>11, <1>12, <1>13, <1>14, <1>15, <1>16, <1>17, <1>18, <1>19,
        <1>20
        DEF vars, Finish, Ends, Scribble, Die, Clear, AddFile, EditFile,
        Mixes, CommitOrRestore

\* An analyzer that outlives its call belongs to a stray.
LEMMA StrayStep ==
    ASSUME TypeOK, StraysKnown, [Next]_vars
    PROVE  StraysKnown'
<1> USE DEF TypeOK, StraysKnown, Caller, Steps, Locked, Watching,
        checkout, index,
        history, locals, processes, Goto
<1>1. CASE \E c \in Caller : Begin(c)
  BY <1>1 DEF Begin
<1>2. CASE \E c \in Caller : Assess(c)
  BY <1>2 DEF Assess, Leave
<1>3. CASE \E c \in Caller : CheckMarker(c)
  BY <1>3 DEF CheckMarker, Leave
<1>4. CASE \E c \in Caller : Warn(c)
  BY <1>4 DEF Warn, Leave
<1>5. CASE \E c \in Caller : RootLock(c)
  BY <1>5 DEF RootLock
<1>6. CASE \E c \in Caller : Preflight(c)
  BY <1>6 DEF Preflight
<1>7. CASE \E c \in Caller : Launch(c)
  BY <1>7 DEF Launch
<1>8. CASE \E c \in Caller : Collect(c)
  BY <1>8 DEF Collect
<1>9. CASE \E c \in Caller : Abort(c)
  BY <1>9 DEF Abort, Release, Leave
<1>10. CASE \E c \in Caller : Verify(c)
  BY <1>10 DEF Verify
<1>11. CASE \E c \in Caller : WriteIdentity(c)
  BY <1>11 DEF WriteIdentity
<1>12. CASE \E c \in Caller : Adopt(c)
  BY <1>12 DEF Adopt, Leave
<1>13. CASE \E c \in Caller : Fail(c)
  BY <1>13 DEF Fail, Release, Leave
<1>14. CASE \E c \in Caller : ReportFailure(c)
  BY <1>14 DEF ReportFailure
<1>15. CASE \E c \in Caller : CreateMarker(c)
  BY <1>15 DEF CreateMarker
<1>16. CASE \E c \in Caller : SyncMarker(c)
  BY <1>16 DEF SyncMarker
<1>17. CASE \E c \in Caller : WarnOfMarker(c)
  BY <1>17 DEF WarnOfMarker
<1>18. CASE \E c \in Caller : Crash(c)
  BY <1>18 DEF Crash, Leave
<1>19. CASE \E c \in Caller : Finish(c)
  BY <1>19 DEF Finish, Ends
<1>20. CASE \E c \in Caller : Scribble(c)
  BY <1>20 DEF Scribble
<1>21. CASE \E c \in Caller : Die(c)
  BY <1>21 DEF Die, Ends
<1>22. CASE PowerLoss
  BY <1>22 DEF PowerLoss
<1>23. CASE UNCHANGED <<pc, analyzer, stray>>
  BY <1>23
<1> QED BY RefreshSteps, <1>1, <1>2, <1>3, <1>4, <1>5, <1>6, <1>7, <1>8, <1>9,
        <1>10, <1>11, <1>12, <1>13, <1>14, <1>15, <1>16, <1>17, <1>18, <1>19,
        <1>20, <1>21, <1>22, <1>23
        DEF vars, Clear, AddFile, EditFile, Mixes, CommitOrRestore

\* A second analyzer starts beside a stray only: its own call holds the lock.
LEMMA OverlapStep ==
    ASSUME TypeOK, LockFollows, StraysKnown, OneAnalyzer, [Next]_vars
    PROVE  OneAnalyzer'
<1> USE DEF TypeOK, OneAnalyzer, Caller, Steps, Locked, Watching,
        checkout, index,
        history, locals, processes, Goto
<1>1. CASE \E c \in Caller : Launch(c)
  BY <1>1 DEF Launch, LockFollows, StraysKnown
<1>2. CASE \E c \in Caller : Abort(c)
  BY <1>2 DEF Abort, Release, Leave
<1>3. CASE \E c \in Caller : Crash(c)
  BY <1>3 DEF Crash, Leave
<1>4. CASE UNCHANGED <<overlap, stray>>
  BY <1>4
<1> QED BY RefreshSteps, <1>1, <1>2, <1>3, <1>4
        DEF vars, Begin, Assess, Leave, CheckMarker, Warn, RootLock,
            Preflight, Collect, Verify, WriteIdentity, Adopt, Fail, Release,
            ReportFailure, CreateMarker, SyncMarker, WarnOfMarker, Finish,
            Ends, Scribble, Die, Clear, AddFile, EditFile, Mixes,
            CommitOrRestore, PowerLoss

-----------------------------------------------------------------------------
(* The index.                                                              *)

\* Launching marks the metadata, and only the last analyzer unmarks it.
LEMMA RunStep ==
    ASSUME TypeOK, OneRuns, [Next]_vars
    PROVE  OneRuns'
<1> USE DEF TypeOK, OneRuns, Caller, checkout, index, history, locals,
        processes, Goto
<1>1. CASE \E c \in Caller : Launch(c)
  <2>1. PICK c \in Caller : Launch(c)
    BY <1>1
  <2>2. meta'.state # "full"
    BY <2>1 DEF Launch
  <2>3. ~ overlap' => \A d \in Caller : analyzer'[d] = "running" => d = c
    BY <2>1 DEF Launch
  <2> QED BY <2>2, <2>3
<1>2. CASE \E c \in Caller : Collect(c)
  BY <1>2 DEF Collect
<1>3. CASE \E c \in Caller : Abort(c)
  BY <1>3 DEF Abort, Release, Leave
<1>4. CASE \E c \in Caller : Fail(c)
  BY <1>4 DEF Fail, Release, Leave
<1>5. CASE \E c \in Caller : Crash(c)
  BY <1>5 DEF Crash, Leave
<1>6. CASE \E c \in Caller : Finish(c)
  BY <1>6 DEF Finish, Ends
<1>7. CASE \E c \in Caller : Die(c)
  BY <1>7 DEF Die, Ends
<1>8. CASE PowerLoss
  BY <1>8 DEF PowerLoss
<1>9. CASE UNCHANGED <<overlap, analyzer, meta>>
  BY <1>9
<1> QED BY RefreshSteps, <1>1, <1>2, <1>3, <1>4, <1>5, <1>6, <1>7, <1>8, <1>9
        DEF vars, Begin, Assess, Leave, CheckMarker, Warn, RootLock,
            Preflight, Verify, WriteIdentity, Adopt, ReportFailure,
            CreateMarker, SyncMarker, WarnOfMarker, Scribble, Clear, AddFile,
            EditFile, Mixes,
            CommitOrRestore

\* An analyzer is started by its call, and its call waits for it or is past it.
LEMMA RunsKnownStep ==
    ASSUME TypeOK, RunsKnown, [Next]_vars
    PROVE  RunsKnown'
<1> USE DEF TypeOK, RunsKnown, Caller, Steps, Locked, Watching, checkout,
        index, history,
        locals, processes, Goto
<1>1. CASE \E c \in Caller : Begin(c)
  BY <1>1 DEF Begin
<1>2. CASE \E c \in Caller : Assess(c)
  BY <1>2 DEF Assess, Leave
<1>3. CASE \E c \in Caller : CheckMarker(c)
  BY <1>3 DEF CheckMarker, Leave
<1>4. CASE \E c \in Caller : Warn(c)
  BY <1>4 DEF Warn, Leave
<1>5. CASE \E c \in Caller : RootLock(c)
  BY <1>5 DEF RootLock
<1>6. CASE \E c \in Caller : Preflight(c)
  BY <1>6 DEF Preflight
<1>7. CASE \E c \in Caller : Launch(c)
  BY <1>7 DEF Launch
<1>8. CASE \E c \in Caller : Collect(c)
  BY <1>8 DEF Collect
<1>9. CASE \E c \in Caller : Abort(c)
  BY <1>9 DEF Abort, Release, Leave
<1>10. CASE \E c \in Caller : Verify(c)
  BY <1>10 DEF Verify
<1>11. CASE \E c \in Caller : WriteIdentity(c)
  BY <1>11 DEF WriteIdentity
<1>12. CASE \E c \in Caller : Adopt(c)
  BY <1>12 DEF Adopt, Leave
<1>13. CASE \E c \in Caller : Fail(c)
  BY <1>13 DEF Fail, Release, Leave
<1>14. CASE \E c \in Caller : ReportFailure(c)
  BY <1>14 DEF ReportFailure
<1>15. CASE \E c \in Caller : CreateMarker(c)
  BY <1>15 DEF CreateMarker
<1>16. CASE \E c \in Caller : SyncMarker(c)
  BY <1>16 DEF SyncMarker
<1>17. CASE \E c \in Caller : WarnOfMarker(c)
  BY <1>17 DEF WarnOfMarker
<1>18. CASE \E c \in Caller : Crash(c)
  BY <1>18 DEF Crash, Leave
<1>19. CASE \E c \in Caller : Finish(c)
  BY <1>19 DEF Finish, Ends
<1>20. CASE \E c \in Caller : Scribble(c)
  BY <1>20 DEF Scribble
<1>21. CASE \E c \in Caller : Die(c)
  BY <1>21 DEF Die, Ends
<1>22. CASE Clear
  BY <1>22 DEF Clear
<1>23. CASE AddFile
  BY <1>23 DEF AddFile, Mixes
<1>24. CASE EditFile
  BY <1>24 DEF EditFile, Mixes
<1>25. CASE CommitOrRestore
  BY <1>25 DEF CommitOrRestore
<1>26. CASE PowerLoss
  BY <1>26 DEF PowerLoss
<1>27. CASE UNCHANGED vars
  BY <1>27 DEF vars
<1> QED BY RefreshSteps, <1>1, <1>2, <1>3, <1>4, <1>5, <1>6, <1>7, <1>8, <1>9,
       <1>10, <1>11, <1>12, <1>13, <1>14, <1>15, <1>16, <1>17, <1>18, <1>19,
       <1>20, <1>21, <1>22, <1>23, <1>24, <1>25, <1>26, <1>27

\* Beside the holder of the lock nobody launches.
LEMMA AloneStep ==
    ASSUME TypeOK, LockFollows, RunsKnown, Alone, [Next]_vars
    PROVE  Alone'
<1> USE DEF TypeOK, Alone, Caller, Steps, Locked, Watching, checkout, index,
        history,
        locals, processes, Goto
<1>1. CASE \E c \in Caller : Begin(c)
  BY <1>1 DEF Begin
<1>2. CASE \E c \in Caller : Assess(c)
  BY <1>2 DEF Assess, Leave
<1>3. CASE \E c \in Caller : CheckMarker(c)
  BY <1>3 DEF CheckMarker, Leave
<1>4. CASE \E c \in Caller : Warn(c)
  BY <1>4 DEF Warn, Leave
<1>5. CASE \E c \in Caller : RootLock(c)
  BY <1>5 DEF RootLock
<1>6. CASE \E c \in Caller : Preflight(c)
  BY <1>6 DEF Preflight
<1>7. CASE \E c \in Caller : Launch(c)
  BY <1>7, RefreshAssumption DEF Launch, LockFollows
<1>8. CASE \E c \in Caller : Collect(c)
  BY <1>8 DEF Collect
<1>9. CASE \E c \in Caller : Abort(c)
  BY <1>9 DEF Abort, Release, Leave
<1>10. CASE \E c \in Caller : Verify(c)
  BY <1>10 DEF Verify
<1>11. CASE \E c \in Caller : WriteIdentity(c)
  BY <1>11 DEF WriteIdentity
<1>12. CASE \E c \in Caller : Adopt(c)
  BY <1>12 DEF Adopt, Leave
<1>13. CASE \E c \in Caller : Fail(c)
  BY <1>13 DEF Fail, Release, Leave
<1>14. CASE \E c \in Caller : ReportFailure(c)
  BY <1>14 DEF ReportFailure
<1>15. CASE \E c \in Caller : CreateMarker(c)
  BY <1>15 DEF CreateMarker
<1>16. CASE \E c \in Caller : SyncMarker(c)
  BY <1>16 DEF SyncMarker
<1>17. CASE \E c \in Caller : WarnOfMarker(c)
  BY <1>17 DEF WarnOfMarker
<1>18. CASE \E c \in Caller : Crash(c)
  BY <1>18 DEF Crash, Leave
<1>19. CASE \E c \in Caller : Finish(c)
  BY <1>19 DEF Finish, Ends
<1>20. CASE \E c \in Caller : Scribble(c)
  BY <1>20 DEF Scribble
<1>21. CASE \E c \in Caller : Die(c)
  BY <1>21 DEF Die, Ends
<1>22. CASE Clear
  BY <1>22 DEF Clear
<1>23. CASE AddFile
  BY <1>23 DEF AddFile, Mixes
<1>24. CASE EditFile
  BY <1>24 DEF EditFile, Mixes
<1>25. CASE CommitOrRestore
  BY <1>25 DEF CommitOrRestore
<1>26. CASE PowerLoss
  BY <1>26 DEF PowerLoss
<1>27. CASE UNCHANGED vars
  BY <1>27 DEF vars
<1> QED BY RefreshSteps, <1>1, <1>2, <1>3, <1>4, <1>5, <1>6, <1>7, <1>8, <1>9,
       <1>10, <1>11, <1>12, <1>13, <1>14, <1>15, <1>16, <1>17, <1>18, <1>19,
       <1>20, <1>21, <1>22, <1>23, <1>24, <1>25, <1>26, <1>27

\* The snapshot of a call tells it of every write to a file since.
LEMMA WatchedStep ==
    ASSUME TypeOK, RunsKnown, Watched, [Next]_vars
    PROVE  Watched'
<1> USE DEF TypeOK, Watched, Caller, Steps, Locked, Watching, Commit,
        NoCommit, Content, Difference, Nothing, checkout, index, history,
        locals, processes, Goto
<1>1. CASE \E c \in Caller : Begin(c)
  BY <1>1, RefreshAssumption DEF Begin
<1>2. CASE \E c \in Caller : Assess(c)
  BY <1>2 DEF Assess, Leave
<1>3. CASE \E c \in Caller : CheckMarker(c)
  BY <1>3 DEF CheckMarker, Leave
<1>4. CASE \E c \in Caller : Warn(c)
  BY <1>4 DEF Warn, Leave
<1>5. CASE \E c \in Caller : RootLock(c)
  BY <1>5 DEF RootLock
<1>6. CASE \E c \in Caller : Preflight(c)
  BY <1>6 DEF Preflight
<1>7. CASE \E c \in Caller : Launch(c)
  BY <1>7, RefreshAssumption DEF Launch
<1>8. CASE \E c \in Caller : Collect(c)
  BY <1>8 DEF Collect
<1>9. CASE \E c \in Caller : Abort(c)
  BY <1>9 DEF Abort, Release, Leave
<1>10. CASE \E c \in Caller : Verify(c)
  BY <1>10 DEF Verify
<1>11. CASE \E c \in Caller : WriteIdentity(c)
  BY <1>11 DEF WriteIdentity
<1>12. CASE \E c \in Caller : Adopt(c)
  BY <1>12 DEF Adopt, Leave
<1>13. CASE \E c \in Caller : Fail(c)
  BY <1>13 DEF Fail, Release, Leave
<1>14. CASE \E c \in Caller : ReportFailure(c)
  BY <1>14 DEF ReportFailure
<1>15. CASE \E c \in Caller : CreateMarker(c)
  BY <1>15 DEF CreateMarker
<1>16. CASE \E c \in Caller : SyncMarker(c)
  BY <1>16 DEF SyncMarker
<1>17. CASE \E c \in Caller : WarnOfMarker(c)
  BY <1>17 DEF WarnOfMarker
<1>18. CASE \E c \in Caller : Crash(c)
  BY <1>18 DEF Crash, Leave
<1>19. CASE \E c \in Caller : Finish(c)
  BY <1>19 DEF Finish, Ends
<1>20. CASE \E c \in Caller : Scribble(c)
  BY <1>20 DEF Scribble
<1>21. CASE \E c \in Caller : Die(c)
  BY <1>21 DEF Die, Ends
<1>22. CASE Clear
  BY <1>22 DEF Clear
<1>23. CASE AddFile
  BY <1>23 DEF AddFile, Mixes
<1>24. CASE EditFile
  BY <1>24 DEF EditFile, Mixes
<1>25. CASE CommitOrRestore
  BY <1>25, RefreshAssumption DEF CommitOrRestore
<1>26. CASE PowerLoss
  BY <1>26 DEF PowerLoss
<1>27. CASE UNCHANGED vars
  BY <1>27 DEF vars
<1> QED BY RefreshSteps, <1>1, <1>2, <1>3, <1>4, <1>5, <1>6, <1>7, <1>8, <1>9,
       <1>10, <1>11, <1>12, <1>13, <1>14, <1>15, <1>16, <1>17, <1>18, <1>19,
       <1>20, <1>21, <1>22, <1>23, <1>24, <1>25, <1>26, <1>27

\* The result of an analyzer stays as it was left while its call has it.
LEMMA BuiltStep ==
    ASSUME TypeOK, LockFollows, RunsKnown, Alone, Watched, Built, [Next]_vars
    PROVE  Built'
<1> USE DEF TypeOK, Built, Caller, Steps, Locked, Watching, HasResult, Commit,
        Content, checkout, index, history,
        locals, processes, Goto
<1>1. CASE \E c \in Caller : Begin(c)
  BY <1>1 DEF Begin
<1>2. CASE \E c \in Caller : Assess(c)
  BY <1>2 DEF Assess, Leave
<1>3. CASE \E c \in Caller : CheckMarker(c)
  BY <1>3 DEF CheckMarker, Leave
<1>4. CASE \E c \in Caller : Warn(c)
  BY <1>4 DEF Warn, Leave
<1>5. CASE \E c \in Caller : RootLock(c)
  BY <1>5 DEF RootLock
<1>6. CASE \E c \in Caller : Preflight(c)
  BY <1>6 DEF Preflight
<1>7. CASE \E c \in Caller : Launch(c)
  BY <1>7 DEF Launch, LockFollows
<1>8. CASE \E c \in Caller : Collect(c)
  BY <1>8 DEF Collect
<1>9. CASE \E c \in Caller : Abort(c)
  BY <1>9 DEF Abort, Release, Leave
<1>10. CASE \E c \in Caller : Verify(c)
  BY <1>10 DEF Verify
<1>11. CASE \E c \in Caller : WriteIdentity(c)
  BY <1>11 DEF WriteIdentity
<1>12. CASE \E c \in Caller : Adopt(c)
  BY <1>12 DEF Adopt, Leave
<1>13. CASE \E c \in Caller : Fail(c)
  BY <1>13 DEF Fail, Release, Leave
<1>14. CASE \E c \in Caller : ReportFailure(c)
  BY <1>14 DEF ReportFailure
<1>15. CASE \E c \in Caller : CreateMarker(c)
  BY <1>15 DEF CreateMarker
<1>16. CASE \E c \in Caller : SyncMarker(c)
  BY <1>16 DEF SyncMarker
<1>17. CASE \E c \in Caller : WarnOfMarker(c)
  BY <1>17 DEF WarnOfMarker
<1>18. CASE \E c \in Caller : Crash(c)
  BY <1>18 DEF Crash, Leave
<1>19. CASE \E c \in Caller : Finish(c)
  BY <1>19 DEF Finish, Ends, Alone, Watched, RunsKnown
<1>20. CASE \E c \in Caller : Scribble(c)
  BY <1>20 DEF Scribble, Alone, RunsKnown
<1>21. CASE \E c \in Caller : Die(c)
  BY <1>21 DEF Die, Ends
<1>22. CASE Clear
  BY <1>22 DEF Clear
<1>23. CASE AddFile
  BY <1>23 DEF AddFile, Mixes
<1>24. CASE EditFile
  BY <1>24 DEF EditFile, Mixes
<1>25. CASE CommitOrRestore
  BY <1>25, RefreshAssumption DEF CommitOrRestore, Commit, NoCommit
<1>26. CASE PowerLoss
  BY <1>26 DEF PowerLoss
<1>27. CASE UNCHANGED vars
  BY <1>27 DEF vars
<1> QED BY RefreshSteps, <1>1, <1>2, <1>3, <1>4, <1>5, <1>6, <1>7, <1>8, <1>9,
       <1>10, <1>11, <1>12, <1>13, <1>14, <1>15, <1>16, <1>17, <1>18, <1>19,
       <1>20, <1>21, <1>22, <1>23, <1>24, <1>25, <1>26, <1>27

\* A call verifies its own run, and binds what it has verified.
LEMMA VerifiedStep ==
    ASSUME TypeOK, LockFollows, RunsKnown, Alone, Built, Verified, [Next]_vars
    PROVE  Verified'
<1> USE DEF TypeOK, Verified, Caller, Steps, Locked, Watching, checkout,
        index, history,
        locals, processes, Goto
<1>1. CASE \E c \in Caller : Begin(c)
  BY <1>1 DEF Begin
<1>2. CASE \E c \in Caller : Assess(c)
  BY <1>2 DEF Assess, Leave
<1>3. CASE \E c \in Caller : CheckMarker(c)
  BY <1>3 DEF CheckMarker, Leave
<1>4. CASE \E c \in Caller : Warn(c)
  BY <1>4 DEF Warn, Leave
<1>5. CASE \E c \in Caller : RootLock(c)
  BY <1>5 DEF RootLock
<1>6. CASE \E c \in Caller : Preflight(c)
  BY <1>6 DEF Preflight
<1>7. CASE \E c \in Caller : Launch(c)
  BY <1>7 DEF Launch, LockFollows
<1>8. CASE \E c \in Caller : Collect(c)
  BY <1>8 DEF Collect
<1>9. CASE \E c \in Caller : Abort(c)
  BY <1>9 DEF Abort, Release, Leave
<1>10. CASE \E c \in Caller : Verify(c)
  BY <1>10, RefreshAssumption DEF Verify, Built, HasResult, Current, Content,
        Commit, NoCommit
<1>11. CASE \E c \in Caller : WriteIdentity(c)
  BY <1>11 DEF WriteIdentity
<1>12. CASE \E c \in Caller : Adopt(c)
  BY <1>12 DEF Adopt, Leave
<1>13. CASE \E c \in Caller : Fail(c)
  BY <1>13 DEF Fail, Release, Leave
<1>14. CASE \E c \in Caller : ReportFailure(c)
  BY <1>14 DEF ReportFailure
<1>15. CASE \E c \in Caller : CreateMarker(c)
  BY <1>15 DEF CreateMarker
<1>16. CASE \E c \in Caller : SyncMarker(c)
  BY <1>16 DEF SyncMarker
<1>17. CASE \E c \in Caller : WarnOfMarker(c)
  BY <1>17 DEF WarnOfMarker
<1>18. CASE \E c \in Caller : Crash(c)
  BY <1>18 DEF Crash, Leave
<1>19. CASE \E c \in Caller : Finish(c)
  BY <1>19 DEF Finish, Ends, Alone, RunsKnown
<1>20. CASE \E c \in Caller : Scribble(c)
  BY <1>20 DEF Scribble, Alone, RunsKnown
<1>21. CASE \E c \in Caller : Die(c)
  BY <1>21 DEF Die, Ends
<1>22. CASE Clear
  BY <1>22 DEF Clear
<1>23. CASE AddFile
  BY <1>23 DEF AddFile, Mixes
<1>24. CASE EditFile
  BY <1>24 DEF EditFile, Mixes
<1>25. CASE CommitOrRestore
  BY <1>25 DEF CommitOrRestore
<1>26. CASE PowerLoss
  BY <1>26 DEF PowerLoss
<1>27. CASE UNCHANGED vars
  BY <1>27 DEF vars
<1> QED BY RefreshSteps, <1>1, <1>2, <1>3, <1>4, <1>5, <1>6, <1>7, <1>8, <1>9,
       <1>10, <1>11, <1>12, <1>13, <1>14, <1>15, <1>16, <1>17, <1>18, <1>19,
       <1>20, <1>21, <1>22, <1>23, <1>24, <1>25, <1>26, <1>27

\* The sidecar names a run that is over for good.
LEMMA ReboundStep ==
    ASSUME TypeOK, RunsKnown, Alone, Verified, Rebound, [Next]_vars
    PROVE  Rebound'
<1> USE DEF TypeOK, Rebound, Caller, Steps, Locked, Watching, checkout, index,
        history,
        locals, processes, Goto
<1>1. CASE \E c \in Caller : Begin(c)
  BY <1>1 DEF Begin
<1>2. CASE \E c \in Caller : Assess(c)
  BY <1>2 DEF Assess, Leave
<1>3. CASE \E c \in Caller : CheckMarker(c)
  BY <1>3 DEF CheckMarker, Leave
<1>4. CASE \E c \in Caller : Warn(c)
  BY <1>4 DEF Warn, Leave
<1>5. CASE \E c \in Caller : RootLock(c)
  BY <1>5 DEF RootLock
<1>6. CASE \E c \in Caller : Preflight(c)
  BY <1>6 DEF Preflight
<1>7. CASE \E c \in Caller : Launch(c)
  BY <1>7 DEF Launch
<1>8. CASE \E c \in Caller : Collect(c)
  BY <1>8 DEF Collect
<1>9. CASE \E c \in Caller : Abort(c)
  BY <1>9 DEF Abort, Release, Leave
<1>10. CASE \E c \in Caller : Verify(c)
  BY <1>10 DEF Verify
<1>11. CASE \E c \in Caller : WriteIdentity(c)
  BY <1>11 DEF WriteIdentity, Verified, Alone, RunsKnown
<1>12. CASE \E c \in Caller : Adopt(c)
  BY <1>12 DEF Adopt, Leave
<1>13. CASE \E c \in Caller : Fail(c)
  BY <1>13 DEF Fail, Release, Leave
<1>14. CASE \E c \in Caller : ReportFailure(c)
  BY <1>14 DEF ReportFailure
<1>15. CASE \E c \in Caller : CreateMarker(c)
  BY <1>15 DEF CreateMarker
<1>16. CASE \E c \in Caller : SyncMarker(c)
  BY <1>16 DEF SyncMarker
<1>17. CASE \E c \in Caller : WarnOfMarker(c)
  BY <1>17 DEF WarnOfMarker
<1>18. CASE \E c \in Caller : Crash(c)
  BY <1>18 DEF Crash, Leave
<1>19. CASE \E c \in Caller : Finish(c)
  BY <1>19 DEF Finish, Ends
<1>20. CASE \E c \in Caller : Scribble(c)
  BY <1>20 DEF Scribble
<1>21. CASE \E c \in Caller : Die(c)
  BY <1>21 DEF Die, Ends
<1>22. CASE Clear
  BY <1>22 DEF Clear
<1>23. CASE AddFile
  BY <1>23 DEF AddFile, Mixes
<1>24. CASE EditFile
  BY <1>24 DEF EditFile, Mixes
<1>25. CASE CommitOrRestore
  BY <1>25 DEF CommitOrRestore
<1>26. CASE PowerLoss
  BY <1>26 DEF PowerLoss
<1>27. CASE UNCHANGED vars
  BY <1>27 DEF vars
<1> QED BY RefreshSteps, <1>1, <1>2, <1>3, <1>4, <1>5, <1>6, <1>7, <1>8, <1>9,
       <1>10, <1>11, <1>12, <1>13, <1>14, <1>15, <1>16, <1>17, <1>18, <1>19,
       <1>20, <1>21, <1>22, <1>23, <1>24, <1>25, <1>26, <1>27

\* The sidecar is written for the metadata of a verified run, and any later run
\* has another name.
LEMMA SidecarStep ==
    ASSUME TypeOK, OneRuns, Verified, Rebound, SidecarExact, [Next]_vars
    PROVE  SidecarExact'
<1> USE DEF TypeOK, SidecarExact, Caller, checkout, index, history, locals,
        processes, Goto
<1>1. CASE \E c \in Caller : Launch(c)
  BY <1>1 DEF Launch
<1>2. CASE \E c \in Caller : WriteIdentity(c)
  BY <1>2 DEF WriteIdentity, Verified
<1>3. CASE \E c \in Caller : Finish(c)
  BY <1>3 DEF Finish, Ends, Rebound
<1>4. CASE \E c \in Caller : Scribble(c)
  BY <1>4 DEF Scribble, OneRuns
<1>5. CASE UNCHANGED <<overlap, meta, graph, sidecar>>
  BY <1>5
<1> QED BY RefreshSteps, <1>1, <1>2, <1>3, <1>4, <1>5
        DEF vars, Begin, Assess, Leave, CheckMarker, Warn, RootLock,
            Preflight, Collect, Abort, Release, Verify, Adopt, Fail,
            ReportFailure, CreateMarker, SyncMarker, WarnOfMarker, Crash, Die,
            Ends, Clear, AddFile, EditFile, Mixes, CommitOrRestore, PowerLoss

-----------------------------------------------------------------------------
(* The breaker.                                                            *)

\* A durable marker goes only when the operator clears it.
LEMMA BreakerStep ==
    ASSUME TypeOK, BreakerHolds, [Next]_vars
    PROVE  BreakerHolds'
<1> USE DEF TypeOK, BreakerHolds, Caller, checkout, index, history, locals,
        processes, Goto
<1>1. CASE \E c \in Caller : CreateMarker(c)
  BY <1>1 DEF CreateMarker
<1>2. CASE \E c \in Caller : SyncMarker(c)
  BY <1>2 DEF SyncMarker
<1>3. CASE Clear
  BY <1>3 DEF Clear
<1>4. CASE PowerLoss
  BY <1>4 DEF PowerLoss
<1>5. CASE UNCHANGED <<failed, marker>>
  BY <1>5
<1> QED BY RefreshSteps, <1>1, <1>2, <1>3, <1>4, <1>5
        DEF vars, Begin, Assess, Leave, CheckMarker, Warn, RootLock,
            Preflight, Launch, Collect, Abort, Release, Verify, WriteIdentity,
            Adopt, Fail, ReportFailure, WarnOfMarker, Crash, Finish, Ends,
            Scribble, Die, AddFile, EditFile, Mixes, CommitOrRestore

\* A hook that begins under a marker meets it, or a power failure ends it.
LEMMA BarredStep ==
    ASSUME TypeOK, BarredWait, [Next]_vars
    PROVE  BarredWait'
<1> USE DEF TypeOK, BarredWait, Caller, Steps, Locked, Watching,
        checkout, index,
        history, locals, processes, Goto
<1>1. CASE \E c \in Caller : Begin(c)
  BY <1>1 DEF Begin
<1>2. CASE \E c \in Caller : Assess(c)
  BY <1>2 DEF Assess, Leave
<1>3. CASE \E c \in Caller : CheckMarker(c)
  BY <1>3 DEF CheckMarker, Leave
<1>4. CASE \E c \in Caller : Warn(c)
  BY <1>4 DEF Warn, Leave
<1>5. CASE \E c \in Caller : RootLock(c)
  BY <1>5 DEF RootLock
<1>6. CASE \E c \in Caller : Preflight(c)
  BY <1>6 DEF Preflight
<1>7. CASE \E c \in Caller : Launch(c)
  BY <1>7 DEF Launch
<1>8. CASE \E c \in Caller : Collect(c)
  BY <1>8 DEF Collect
<1>9. CASE \E c \in Caller : Abort(c)
  BY <1>9 DEF Abort, Release, Leave
<1>10. CASE \E c \in Caller : Verify(c)
  BY <1>10 DEF Verify
<1>11. CASE \E c \in Caller : WriteIdentity(c)
  BY <1>11 DEF WriteIdentity
<1>12. CASE \E c \in Caller : Adopt(c)
  BY <1>12 DEF Adopt, Leave
<1>13. CASE \E c \in Caller : Fail(c)
  BY <1>13 DEF Fail, Release, Leave
<1>14. CASE \E c \in Caller : ReportFailure(c)
  BY <1>14 DEF ReportFailure
<1>15. CASE \E c \in Caller : CreateMarker(c)
  BY <1>15 DEF CreateMarker
<1>16. CASE \E c \in Caller : SyncMarker(c)
  BY <1>16 DEF SyncMarker
<1>17. CASE \E c \in Caller : WarnOfMarker(c)
  BY <1>17 DEF WarnOfMarker
<1>18. CASE \E c \in Caller : Crash(c)
  BY <1>18 DEF Crash, Leave
<1>19. CASE Clear
  BY <1>19 DEF Clear
<1>20. CASE PowerLoss
  BY <1>20 DEF PowerLoss
<1>21. CASE UNCHANGED <<pc, barred, marker>>
  BY <1>21
<1> QED BY RefreshSteps, <1>1, <1>2, <1>3, <1>4, <1>5, <1>6, <1>7, <1>8, <1>9,
        <1>10, <1>11, <1>12, <1>13, <1>14, <1>15, <1>16, <1>17, <1>18, <1>19,
        <1>20, <1>21
        DEF vars, Finish, Ends, Scribble, Die, AddFile, EditFile, Mixes,
        CommitOrRestore

-----------------------------------------------------------------------------
(* The theorems.                                                           *)

LEMMA InvInit == Init => RefreshInv
<1> SUFFICES ASSUME Init PROVE RefreshInv
  OBVIOUS
<1>1. TypeOK
  <2>1. 0 \in Commit
    BY RefreshAssumption DEF Commit
  <2> QED BY <2>1 DEF Init, TypeOK, Steps, Locked, Watching, Caller,
        Difference,
       Content, Nothing
<1>2. LockFollows /\ StraysKnown /\ OneAnalyzer /\ OneRuns
  BY DEF Init, LockFollows, StraysKnown, OneAnalyzer, OneRuns, Locked, Watching
<1>3. RunsKnown /\ Alone /\ Watched
  BY DEF Init, RunsKnown, Alone, Watched, Locked, Watching
<1>4. Built /\ Verified /\ Rebound /\ SidecarExact
  BY RefreshAssumption
     DEF Init, Built, HasResult, Verified, Rebound, SidecarExact, Watching,
        Caller
<1>5. BreakerHolds /\ BarredWait
  BY DEF Init, BreakerHolds, BarredWait
<1> QED BY <1>1, <1>2, <1>3, <1>4, <1>5 DEF RefreshInv

LEMMA InvStep == RefreshInv /\ [Next]_vars => RefreshInv'
<1> SUFFICES ASSUME RefreshInv, [Next]_vars PROVE RefreshInv'
  OBVIOUS
<1> USE DEF RefreshInv
<1>1. TypeOK' /\ LockFollows' /\ StraysKnown' /\ OneAnalyzer'
  BY TypeStep, LockStep, StrayStep, OverlapStep
<1>2. RunsKnown' /\ OneRuns' /\ Alone'
  BY RunsKnownStep, RunStep, AloneStep
<1>3. Watched' /\ Built' /\ Verified'
  BY WatchedStep, BuiltStep, VerifiedStep
<1>4. Rebound' /\ SidecarExact' /\ BreakerHolds' /\ BarredWait'
  BY ReboundStep, SidecarStep, BreakerStep, BarredStep
<1> QED BY <1>1, <1>2, <1>3, <1>4

LEMMA InvAlways == Spec => []RefreshInv
BY InvInit, InvStep, PTL DEF Spec

\* Types.
THEOREM RefreshTypeCorrect == Spec => []TypeOK
<1>1. RefreshInv => TypeOK
  BY DEF RefreshInv
<1> QED BY InvAlways, <1>1, PTL

\* The root lock keeps analyzers apart, except from those that have outlived
\* the call they were started by.
THEOREM AnalyzersApart == Spec => []OneAnalyzer
<1>1. RefreshInv => OneAnalyzer
  BY DEF RefreshInv
<1> QED BY InvAlways, <1>1, PTL

\* An index that passes for fresh was built from the commit it is taken for, no
\* file of which was edited meanwhile.
THEOREM FreshAlwaysExact == Spec => []FreshIsExact
<1>1. RefreshInv => FreshIsExact
  BY DEF RefreshInv, FreshIsExact, SidecarExact, Exact, Current
<1> QED BY InvAlways, <1>1, PTL

\* A failure that a hook has recorded keeps the breaker tripped.
THEOREM BreakerAlwaysHolds == Spec => []BreakerHolds
<1>1. RefreshInv => BreakerHolds
  BY DEF RefreshInv
<1> QED BY InvAlways, <1>1, PTL

\* No hook that began under a tripped breaker reaches the controller.
THEOREM NoRetryEver == Spec => []NoRetryWhileTripped
<1>1. RefreshInv => NoRetryWhileTripped
  BY DEF RefreshInv, NoRetryWhileTripped, BarredWait
<1> QED BY InvAlways, <1>1, PTL

=============================================================================
