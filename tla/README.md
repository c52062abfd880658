# Formal models of codex-dev-skills

This directory holds TLA+ models of the stateful parts of codex-dev-skills,
the configurations with which TLC checks them, and proofs that TLAPS checks.
`PROJECT.json` maps every definition to the source lines it models.

## 1. The system

codex-dev-skills is a collection of skills for coding agents. Most of the
repository is text (skills, policies, templates, loop records); the programs
are Python scripts under `skills/*/scripts` and `scripts/`, and `install.sh`.
`plugin/` is a generated copy. The scripts that keep state are these.

| Component | State | Operations | What is hard | What makes it correct |
|---|---|---|---|---|
| Loop ledger, reducer (`loop_core.py`) | per task: status, evidence, claim (owner, fencing token, lease); gates; objective; source revision; hash-chained history | nine event types: `migration_snapshot`, `source_rebound`, `task_transition`, `claim_acquired`, `claim_released`, `claim_expired`, `claim_revoked`, `gate_updated`, `objective_completed` | several agents, leases that run out, late results, events dated before or after now | work is fenced, tokens never return, results come from the current holder in time, final states are final |
| Audit and replay (`loop_yaml.py`) | the YAML view of that state | `validate_ledger`, `semantic_audit`, `replay_ledger`, `update_ledger_view` | live and replay rules differ (no clock, no authority in a replay) | every history that was written replays to the view |
| Write path (`loopctl.py apply-event --write`) | ledger file, lock file, temporary file | lock, read, accept, compare, accept again, replace, fsync, reply, unlock | concurrent invocations, crashes, power loss, retries, editors that ignore the lock | one writer, no lost update, truthful replies, acknowledged writes are durable |
| Source verification (`git_source.py`, `loopctl.py`) | HEAD, index and working copy | exact-HEAD check, rebound bridge | HEAD moves at any time | events only at the HEAD the ledger names, one bridge after a checkpoint |
| CLI hand-off (`cli_session_handoff.py`) | replay ledger in the Git directory, private clone, process tree, patch, receipt | validate, claim, run, time-out and termination, capture and apply, receipt | two claimants, crash between claim and run, processes that survive signals, edits of the worktree meanwhile | a rollover runs at most once, the receipt says what happened, every call returns |
| SQLite memory (`memory_sqlite.py`, `memory_operation.py`) | records, full-text index, operations with their receipts | initialize, execute an authorised operation (upsert, invalidate, tombstone, delete), look a receipt up, query | retries with an old or a new observation of time, stale preconditions, a failure between two writes, uncertain commits | the tables are what the stored operations made of them, one per key, each on the version it was authorised for; no receipt is wrong |
| Memory governance (`memory_governance_core.py`, `_storage.py`) | items, versions and proofs of a root; pending preview and handle of a process | initialize, propose a change, authorize, cancel, execute, read back, audit page by page | a process dies with the handle, clocks step back, two cores on one root, a transaction whose outcome is unknown | what is committed was confirmed, no answer is taken back, the root stays usable |
| GitNexus adapter and hook (`gitnexus_adapter.py`, `gitnexus_hook.py`) | index, index identity, root lock, failure marker | hook, refresh, failure marker | callers and analyzers die separately, HEAD moves, lock races | an index that passes for fresh is exact, a recorded failure stops the hooks |
| Installer (`install.sh`, `installer-inventory.py`) | installed files, originals and copies aside, receipts, lock directory | plan, stage, apply, verify, discard, roll back | a signal, a kill or a failed rename at any step, edits meanwhile, two installers | all or nothing, no receipt ahead of its payload, nothing destroyed |
| Routing, failover, context continuity, profiles, evidence and improvement validators, merge readiness, release scripts | none of their own | pure decisions over documents | many fields | equal to their tables |

The parts interact through files. An agent prepares an event on the ledger it
sees, hashes it and hands it to `loopctl apply-event --write`; that takes the
lock, verifies the source with `git_source`, audits the ledger with
`loop_yaml` (which replays the history through `loop_core`), applies the event
with `loop_core`, audits the result and replaces the file. Routing, hand-off
and the memory adapters read the ledger or stand beside it; none of them
writes it.

The hazards found while reading are listed in `PROJECT.json`, each at the
line where it bites.

## 2. Modules

| Module | Models | Role |
|---|---|---|
| `LoopCore` | `_apply_event`, `validate_transition`, the authorisation rules, the audit rules of `validate_ledger`, `manifest_definitions` | operators on a state record and an event record; no variables |
| `LoopLedger` | the ledger with its writers, the trusted clock and the repository | one action per kind of event, `Tick`, `CommitTree` |
| `FencedBoard` | abstract: holders, fences, busy tasks | what `LoopLedger` implements |
| `LoopHistory` | `replay_ledger`, `semantic_audit`; what the history says | properties of whole histories |
| `LoopLedgerProofs` | - | theorems about `LoopLedger` |
| `LoopHistoryProofs` | - | theorems about `LoopHistory` |
| `LedgerWrite` | `command_apply_event` with `--write`, as a protocol on files | one action per step of an invocation, crash, power loss, edit |
| `AppendLog` | abstract: a log with a secured prefix | what `LedgerWrite` and `MemorySqlite` implement |
| `LedgerWriteProofs` | - | theorems about `LedgerWrite` |
| `SessionHandoff` | `execute_handoff` with the claim of a rollover, the process tree and the patch | one action per step of a call; the session, its descendants, kills, power loss and people |
| `SessionHandoffProofs` | - | theorems about `SessionHandoff` |
| `MemorySqlite` | `memory_sqlite.py`: `initialize`, `execute_authorized_operation`, `lookup_receipt`, `query`; `build_authorized_request` | one action per step of a call up to its commit and reply; kills, power loss |
| `MemorySqliteProofs` | - | theorems about `MemorySqlite` |
| `MemoryGovernance` | `GovernanceCore` and its storage | one action per call, and per step of `execute` where a crash or the clock can come in between |
| `MemoryGovernanceProofs` | - | theorems about `MemoryGovernance` |
| `GitNexusRefresh` | `evaluate_hook`, `RefreshController.refresh`, `_record_failure_marker` | one action per step of a hook or an operator; analyzers, kills, power loss, people |
| `GitNexusRefreshProofs` | - | theorems about `GitNexusRefresh` |
| `InstallerTransaction` | `run_managed_transaction` with staging, apply, rollback and clean-up | one action per rename, check or pass of a loop; signals, kills, faults, people |
| `InstallerTransactionProofs` | - | theorems about `InstallerTransaction` |
| `MCLoopLedger`, `MCLedgerWrite`, `MCSessionHandoff`, `MCMemorySqlite`, `MCMemoryGovernance`, `MCGitNexusRefresh`, `MCInstallerTransaction` | - | instances for TLC |

### LoopCore and LoopLedger

`ledger` is the materialized view: `status` and `evidence` of the tasks,
`claims`, `gates`, `objective` (`current_loop.lifecycle`), `head`
(`source_revision.head_sha`), `revision` and `updatedAt`. `log` is the event
history, `now` the clock of `_trusted_current_time`, `repo` the Git facts the
code asks for (HEAD, the last commit of the ledger path, whether the working
copy differs from HEAD).

`Accepts(s, e)` has the rules that replay applies too, `LiveRules` what a live
write adds (authority from the control plane and trusted time), `Effect` the
new state and `Audit` the check of the resulting view. `Write(e)` is one
invocation of `apply-event --write` that succeeds: source verification,
`Commits`, the new view and the longer history. An event that is rejected
changes nothing and is no step. A guard of the actions only bounds or
enumerates: any task, any agent, any token, any time from the last event to
`Skew` after now, any evidence of `Offers`, signed or not, with or without
authority; what is impossible is impossible because `Commits` says so.

What is abstracted: evidence, blocker and gate objects are the set of facts
they establish (`Fact`); a fencing token is its generation (nonces are fresh,
and `FencesGrow` shows that a generation is acquired once); digests that bind
an authorization to its payload are the fields `by` and `actor`; the branch
and the digests of specification and manifest do not change in a ledger's
life (a rebound may not change them); protected history is re-attested
correctly. `migration_snapshot` is not modelled yet. Two rules of the
manifest are not needed: dependency cycles only make tasks that never become
ready, and `scope`, `dod` and `verification` are taken as present.

### LedgerWrite

A ledger is the sequence of its events. An event carries the hash of the
history it was prepared on, so `base` records that history. The steps of an
invocation follow the code: `Start` (`O_CREAT | O_EXCL`), `Read`, `Judge`
(audit, idempotency, hash chain, lease; then the temporary file), `Compare`
(source check again, bytes and identity of the file), `Certify` (second
acceptance), `Replace`, `Sync` (directory fsync, reply), `Unlock`. The status
`rejected` stands for every reply that reports no write, errors included. The
environment prepares events, retries them, kills invocations at any step,
fails the power (a rename that was not synced may be undone, and so may the
creation and the removal of the lock), edits the ledger without the lock, and
removes orphaned locks. A temporary file that a crash leaves behind has a name
of its own and is read by nobody, so the model has none.

An edit between the comparison and `os.replace` is left out: the code cannot
notice it, and the documentation promises safety to cooperating processes
only. Edits at any other time are in the model.

### SessionHandoff

A call validates its request (`Validate`) and, for a fresh continuation,
claims the rollover in the replay ledger: `Stage` (the `flock`, which does not
wait, the check that neither rollover nor checkpoint is known, the temporary
file), `ReplaceLedger`, `SyncLedger`. `Launch` clones, checks the worktree
again and starts Codex; `SeeExit`, `Abort`, `Kill`, `ReapLate`, `SeeTreeGone`
and `TerminationError` are `_run_codex` and `_terminate_process_group`;
`Recheck`, `Apply` and `FailPatch` are the patch. `Return` builds the receipt.
`child` is the Codex process and `kid` one descendant of it: the tracker
finds it through a live parent or because it was found before, and `doomed`
means that the termination has it on its list.

Tracking is best effort, as the code says: a descendant whose parent has ended
before an inventory saw it is not found, and `HandOver` lets a tracked one
pass its place to one nobody has seen. The model promises only what the
termination took on (`NoTrackedSurvivors`). A clone that cannot be removed
turns the failure class into `isolation_error`, which hides a
`termination_error`; both are `unsafe` in a receipt. A claim is spent by a
crash: no later call runs that rollover, and nothing in the code retries it.
`git apply --check` and `git apply` see the worktree as it is at that moment,
after the last check of its identity, and a patch that fails half-way is
reported as `failed` without `adapter_repository_write_performed`. The
contents of patches, prompts and results are not modelled.

### MemoryGovernance

`items` and `proofs` are the tables of the root. Digests are modelled by what
they digest, so a preview and a proof hold the whole states before and after.
`SnapshotValid` is `snapshot()`, which every call begins with: it replays the
proofs and compares the result with the items. `execute` is `Verify` (all
checks under the exclusive lock; the handle is spent before them), `WriteItem`
(`BEGIN IMMEDIATE`), `Commit` or `GiveUp`, and `ReadBackOwn`; `Refuse` is each
way out before a writer is open. `ReadBack` is a readback by any process, with
or without the preview. `preview` is what the caller keeps, `outcome` what it
was told.

`locked()` takes the inventory of the root once more when its block ends well
(`memory_governance_storage.py:112-113`), also after `execute` has read its own
operation back. If that raises, the verdict is lost and the caller gets the
code of the inventory (`storage-unavailable`, `unexpected-managed-file` and so
on), which is the one that `execute` raises when the same check fails before
anything was written. So an outcome has two kinds of error codes: `refused` for
those that only a call without a writer raises, and `failed` for those of the
inventory and of the system, which `Refuse` and `ReadBackOwn` may both give.
`RepliesAreHonest` says that nothing was committed after `refused`; after
`failed` it says nothing, because a caller can conclude nothing, and the
operation is as open to a later `ReadBack` as after a crash.

A crash takes pending preview, handle, audit and clock sample with
it, may leave a hot journal, and the caller of a running `execute` learns
nothing. `RollBack` stands for whoever opens the database with SQLite itself:
the core refuses a root with a journal and never removes one.

Abstracted: a source document's own validity times are taken as given; an
audit may stay open for any time (`CloseAudit` is always possible); the
verdict `integrity-failed` is `unknown`; `committed-but-not-adoptable` and
`committed-capacity-unproven` are `applied`; recall and `validate_disclosure`
only read. Two things the model makes visible: an open audit blocks every
`execute`, and a clock that ran ahead while something was committed makes all
cores refuse until it has caught up.

### MemorySqlite

`db` is the database as committed: the table `records` (`rows`: the version
and life-cycle state of each record), the content in `records_fts` (`index`)
and the table `operations` in the order of its entries (`ops`). `draft` is
what the open transaction sees. A call (`Call`) carries a request;
`Begin` is `_open_checked` and `BEGIN IMMEDIATE`; `Known` answers a key that
is stored, with a replay for the same request and a conflict for any other;
`WriteRow` checks the precondition and writes row and index, `WriteReceipt`
the operation, `Commit` and `Answer` end the call. `Fail` is every `raise` and
every handler: it rolls back. `LookUp` is `lookup_receipt`, `Found` what
`query` may return, `Create` and `CreateSchema` are `initialize`.

Digests are what they digest. A request is its authority and the observed
time, so a retry with a later observation is another request under the same
key, and conflicts; the same holds of a lookup. The precondition is the
version of the record. The version says nothing of the life-cycle state: an
upsert that was authorised before an invalidation, tombstone or deletion fits
afterwards too and makes the record active again (`Fits`, `WithRow`). The
records are those of one scope, since every statement names it.

`before` is what a power failure can bring back. The code leaves SQLite
(external) at its defaults, a rollback journal that is deleted and
`synchronous=FULL`: a commit is the removal of the journal, and its directory
is synced only when the journal of the next commit is made durable
(`SyncJournal`). A killed `initialize`
leaves a file without a schema; the code refuses to create it again, keeps it
as evidence and leaves it to people, and the model has it in that state for
good.

### GitNexusRefresh

A hook looks at the checkout (`Begin`), at the index (`Assess`), at the
failure marker (`CheckMarker`) and calls the controller; an operator comes in
at the controller. `RootLock`, `Preflight`, `Launch`, `Collect`, `Verify`,
`WriteIdentity` and `Adopt` are `refresh`; `Abort` and `Fail` leave it with
the lock released before `CreateMarker` and `SyncMarker` record the failure.
The analyzer is not in the repository: from what `assess_metadata` looks for,
it marks its metadata at the start (`incrementalInProgress`), unless there is
none yet, and writes the whole metadata last. `meta.run` is what the digest in
the index identity binds to.

The analyzer reads the worktree, not HEAD. `tree` says how that differs from
HEAD: not at all, by files that were added, or by files of the checkout that
were edited. `source[c]` is what a running analyzer has met so far, the commit
it began with and the worst difference at its start or since (`Mixes`); that is
what `graph` is then of, and the metadata names a HEAD all the same. The
controller has three defences, and the model has each of them. It compares
HEAD and cleanliness before (`Preflight`), after (`Verify`) and once more with
the sidecar in place (`Adopt`). It compares a snapshot of the worktree taken
before the analyzer with one taken after it (`gitnexus_adapter.py:4226-4241`);
the records of the files hold inode and `mtime_ns` (2003-2012), so an edit
shows even if it was undone, which `touched` records. And it binds the sidecar
to the metadata that it has verified. A planted bug that drops the comparison
of snapshots violates `FreshIsExact`. What no snapshot shows is a file that is
added and removed again while the analyzer runs: the records of directories
have no time of modification (2079-2089). Such a file may be in an index that
passes for fresh, and `FreshIsExact` does not deny it. `CommitOrRestore` makes
a new commit or puts the files back; HEAD does not return to an earlier commit,
and a commit changes a file that was added or edited before.

Two things the properties have to say. An analyzer runs in a session of its own
and survives its caller, whose lock goes with it, so two analyzers may write
one index in spite of the docstring of `_root_lock`
(`gitnexus_adapter.py:3959`): `OneAnalyzer` says that this takes such an
analyzer, `FreshIsExact` says what holds otherwise. And a hook that loses the
race for the lock records a failure and trips the breaker for all.

### InstallerTransaction

Artifacts and receipts are entries in the order of their renames. `Plan`
records what is there (`TX_IDENTITIES`, `RX_IDENTITIES`); for each entry that
takes part come `Check`, `BackUp` and `Place`; `Verify` lies between payload
and receipts, `Confirm` after both. `Recover` starts the rollback from the
entry a failure names; `Undo` and `Restore` are one pass of its loop,
`Undone` its end, `Discard`, `Tidy` and `CleanUp` what is removed and
`Release` the unlock. `Interrupt` and `InterruptIdle` are
`handle_transaction_signal` with `TRANSACTION_APPLY_ACTIVE` 1 and 0. The
content of a file is the version that brought it, or `Mine` for what a person
wrote; identities are equality of contents.

A kill is a SIGKILL: files stay as they were renamed. Power failures are not
modelled, since `install.sh` never syncs and what the file system keeps of its
renames after one is not the installer's doing.

Left out: the first plan, made before the lock, which can only refuse;
permissions, parents' identities, other file systems, failures of `rm` and of
the unlock; an edit between an `-e` or identity check and the rename right
after it, which the code cannot notice, and between the two renames of a
rollback; deletions by people; a signal while staging is removed. Staging is
one step, since nothing outside the staging directory changes in it. A signal
in the moment between `mkdir` of the lock and its traps ends the installer as
a kill does. An uninstall is a version with an empty payload; the instance has
none. `Interrupt` may come in the window after any failure, while the code
opens it after a failed artifact only, which adds behaviours.

Worth knowing: a signal after the last verification ends with status 130 with
the new version complete, and originals that were not yet removed stay where
they are without a word; a failure of that verification undoes everything and
leaves the staging directories behind.

### Planted bugs

Definitions named `Faulty...` are variants of a definition with a bug in it.
They are not part of the model; substituting one for its original makes a
named property fail (`mutants` in `PROJECT.json`), which shows that the
property looks at the code it is about.

## 3. Runs

| Run | States | Question |
|---|---|---|
| `LoopGated` | 105 000 | one task with review and gate through to completion, 7 events, 2 agents (a worker, a user), 2 generations, times 0..1 (+1 ahead), one commit |
| `LoopPair` | 164 000 | two tasks without gates, 4 events, 2 agents, times 0..2 (+1), one commit: leases, expiry, rebounds |
| `LoopHistory` | 1 711 000 | whole histories of 5 events of a task without a gate, times 0..2, two commits, two generations: claims that are released, expire, are revoked or swept by a rebound, a task that is resolved and claimed again |
| `WriteSafety` | 68 000 | 2 invocations at a time (restarted without limit), 2 events with a deadline each, under fairness |
| `SessionHandoff` | 275 000 | two executors; a rollover that may write, another rollover of the same checkpoint that may not, a plain start; replay ledger of 2 entries |
| `MemorySqlite` | 200 000 | two processes (calls without limit), one record of two versions, four authorities under three keys, times 0..1 |
| `MemoryGovernance` | 562 000 | two cores, one item, three operations, one content, two observations of copies, times 0..1, two versions, three proofs, one fault |
| `GitNexusRefresh` | 1 740 000 | two hooks and an operator, commits 0..1, files added and edited at any time |
| `InstallerTransaction` | 588 000 | two installers, two artifacts, two receipts, two versions; one edit and one failed rename, copy or verification |
| `LoopGateFlip`, `LoopReviewWaived`, `WriteFreshness` | - | statements of the documentation that the code does not keep |

Why the bounds are enough to mean something. The shortest life of a gated task
is gate, claim, in progress, reviewing, done, release, complete: seven events,
the bound of `LoopGated`; acceptance makes it eight, the bound of the two
violation runs. Two generations show a reassignment; a token is compared with
one predecessor only. Times 0..2 give a lease that has ended, one that ends now
and one that runs, and `Skew` an event dated ahead. Two tasks are what it takes
for one event (a rebound, or an expiry that the other lease spoils) to concern
several claims. Since no step looks at `log`, the runs that do not ask about
histories identify states that differ only in it (`VIEW`). `LoopGated` asks one
thing about them, `DoneBehindGate`, for which its view keeps the last update of
the only gate and the value of the property so far (`GatedView`): whether one
more event keeps it depends on nothing else of the history. Approval,
withdrawal and done fit in its seven events, so a stale approval is met there.
`LoopHistory` gives the worker its claim back: acquire, one of the four ends of
a claim, `blocker_resolved` and acquire are four events, the bound five. A
lease must be longer than one unit for a claim to end early as well as in time,
hence times 0..2; a planted bug that lets an expiry come early is found there.
For the file protocol two invocations are enough for a race on a lock, and two
events for a retry of a lost event on top of another one; with three events the
safety properties hold too (200 000 states up to symmetry).

Two calls of `SessionHandoff` with three requests, of which two name one
checkpoint, are a retry, a race for a claim and a second rollover of the same
work; each call runs once, which two of them make a retry after a crash. Three
operations on an item of at most two versions give an addition, a change and
one that finds the item full, or stopped, or a history that no longer is what
its preview showed; one fault is one crash, one drift of the copies or one step
of the clock backwards, and the proofs cover any number and any limits (a
positive `Reserve` and `MaxItems` beyond one item are exercised by the proofs
only). Its view (`AnswersView`) takes the outcomes that leave a caller without
an answer (`open`, `failed`, `unknown`) for one: every guard and property
treats them alike. In `MemorySqlite` the four authorities store a record,
replace it and end it in two ways; one of the ends shares the key of the first,
and the first is still in time for a retry that observes a later time, so
replays, conflicts, lookups of both kinds and preconditions gone stale all
occur; two processes are enough for a race for the write lock. `Process` is
symmetric. Two hooks are what a race for lock and marker takes, the operator
comes past the breaker, and with two commits HEAD can move before, while or
after an analyzer runs. In `InstallerTransaction` one installer goes from one
version to the other and the second one back, so that one of two artifacts is
replaced and the other retired or created; two receipts are the history, which
the plan does not read, and the inventory, which it does. One fault and one
edit are each enough for every way into the rollback and every way out of it;
with two of each the safety properties hold too (7 700 000 states, too long for
a regular run).

`CHECK_DEADLOCK FALSE` is set for `SessionHandoff`, `MemoryGovernance`,
`GitNexusRefresh` and `InstallerTransaction` because every call and installer
runs once, and faults, clock and operations are bounded; it is set for the
ledger runs because a ledger may really come to rest: a complete objective
accepts nothing, and the bounds end the clock and the history. `LedgerWrite`
and `MemorySqlite` never deadlock (a call can always be started or the power
fail).

### What the runs show

* Ledger: `WorkIsFenced`, `FencesGrow`, `ResultsInTime`,
  `ResultsCarryLiveFence`, `UnexpiredClaimNotReassigned`: a worker that lost
  its claim can neither deliver nor come back with its old token, and nobody
  loses a claim early except by revocation. `ImplementsBoard` sums this up.
* `FinalIsFinal` and `CompleteIsSettled`: expiry and revocation block a task
  whatever its status; the only thing that keeps them away from accepted and
  cancelled tasks is that the audit admits no active claim there.
* `ExpiredAfterDeadline`: neither an expiry nor a rebound can be dated ahead
  to take a running claim away.
* `RevocationAlwaysPossible`, `RebindAlwaysPossible`: the audit refuses views
  with overdue active claims. With two claims of one lease end, `claim_expired`
  is refused for both, but a revocation is dated at the last event and a
  rebound sweeps all of them, so a ledger is never wedged by its claims. A
  ledger whose last event is dated ahead of the clock has to wait.
* `HistoryReplays`: the audit before every write replays the history; no live
  event can make that replay fail.
* `DoneBehindGate`: neither an assertion in a payload nor an approval that was
  taken back stands in for a required gate.
* Hand-off: `OneSessionPerRollover` through retries, kills and power failures
  (the claim is durable before the session starts); `ReceiptsTruthful`, what a
  caller may conclude from each status; `NoTrackedSurvivors`; `HandoffsEnd`,
  against sessions that ignore every signal.
* SQLite memory: `StoreIsHistory`, that failures, kills and power failures
  leave records, index and operations consistent with each other and every
  operation applied once, on the version it names; `ReceiptsTruthful`, what an
  answer says of the database from then on; the refinement of `AppendLog`,
  that a power failure undoes the last commit at most.
* Governance: `CommittedAsConfirmed` and `RepliesAreHonest`, the exactly-once
  promise with its lost handles, clocks and verdicts; `RootStaysUsable`, that no
  sequence of calls and faults makes `snapshot()` refuse the root for good;
  `AuditsSeeOneState`.
* GitNexus: `FreshIsExact`, that an index which passes for fresh at a commit
  was built from that commit with no file edited while it was, although
  analyzers read whatever is in the worktree; `OneAnalyzer`; `BreakerHolds`
  and `NoRetryWhileTripped`, which say nothing of a hook that trips the breaker
  only because it lost the lock.
* Installer: `AllOrNothing`, `ReceiptNeverAhead` (also after a kill, which
  rolls nothing back), `NothingDestroyed`, `LockFreed`.
* Write path: `OneWriter`, `NoLostUpdate`, `HistoryIntact`,
  `AppliedIsDurable`, `RepliesAreTruthful`, the refinement of `AppendLog`,
  `InvocationsEnd` and `LockFreed`.

### Disagreements with the documentation

1. `docs/loop-state-ledger.md:302-303` calls an objective complete when every
   human gate is satisfied by current evidence. `objective_completed` does not
   read the gates; one that was satisfied when its task became done may be
   pending again (`LoopGateFlip`).
2. The same sentence names review items. The transition to `accepted` replaces
   the evidence and only the audit looks at it, which accepts a review that is
   `not_required` although the manifest requires one (`LoopReviewWaived`).
3. `templates/orchestration/loop-event.template.yaml:45-47` says that an
   accepted claim is still active when written. The clock is sampled before
      `os.replace` (`WriteFreshness`).
4. `memory_governance_core.py:357-358` maps every error of the readback to
   `state-unknown`, so that it is not misreported as not executed. An error of
   the inventory that follows it in `locked()` is not mapped and leaves
   `execute` with a code of the checks before the writer, committed or not. The
   model has this exit (`failed`); no run states it as a property, since
   nothing in the repository says what those codes promise.

## 4. Fairness

`WriteSafety`: an invocation is a sequential program whose steps do not wait
for anybody (the lock is tried once, Git has a time-out), so each running one
is weakly fair: `WF_vars(Step(p))`. It may be killed instead.
`WF_vars(ClearOrphan)` is an assumption on people, not on code: nothing in the
repository removes a lock file that a killed process left, and the error
message names its path for an operator to do so. Starting, preparing, editing
and the clock are not fair.

`SessionHandoff`: the steps of the executor itself (`Execute(c)`) are weakly
fair; its waits have limits (`poll` with a deadline, grace periods, Git with
time-outs), and the disjunct `TerminationError` is the limit of the last one.
Nothing is assumed of the session, its descendants, the effect of signals
(`Kill` is not fair), the tracker or people.

`InstallerTransaction`: `WF_vars(pc[p] # "idle" /\ Step(p))` for each installer
that was started, a sequential script that waits for nobody; nobody has to
start one, and a signal or kill may always come. `WF_vars(ClearLock)` is again
an assumption on people: the script names the lock directory of an installer
that died and leaves its removal to the operator.

`MemorySqlite`, `MemoryGovernance` and `GitNexusRefresh` state safety only: a
call that fails is not retried by the code, a caller may drop a preview, and a
hook that has been told to wait is not obliged to come back.
No liveness is claimed for the ledger itself:
agents are free never to submit anything, and progress is stated as
possibility instead (`RevocationAlwaysPossible`, `RebindAlwaysPossible`).

## 5. Proofs

`LoopLedgerProofs` proves for every manifest, every set of agents and all
bounds:

* `TypeCorrect`: `Spec => []TypeOK`;
* `WorkAlwaysFenced`: `Spec => []WorkIsFenced`;
* `CompletionSettles`: `Spec => []CompleteIsSettled`;
* `NoEarlyExpiry`: `Spec => []ExpiredAfterDeadline`;
* `ViewAlwaysAudited`: `Spec => []Audited`;
* `FinalStaysFinal`: `Spec => FinalIsFinal`;
* `FencesAlwaysGrow`: `Spec => FencesGrow`;
* `ResultsAlwaysInTime`: `Spec => ResultsInTime`;
* `RevocationNeverBlocked`: `Spec => []RevocationAlwaysPossible`;
* `RebindNeverBlocked`: `Spec => []RebindAlwaysPossible`;
* `ExpiryExactly`: `Spec => []ExpiresInLeaseOrder`;
* `LedgerImplementsBoard`: `Spec => ImplementsBoard`.

They rest on `ManifestAssumption` (what `manifest_definitions` checks) and
`BoundAssumption`. The argument: `StepCases` reduces a step to a committed
event or one that leaves view and history alone, and `WriteCases` describes
the view after an event of each kind. `TypeOK` is inductive by the type of
each effect. `WorkIsFenced` is inductive together with it: only `reviewing`
can follow work in flight without the audit looking, and `LegalTransitions`
lets nothing but `in_progress` precede it (`ReviewFollowsWork`); a release
needs a task that is not in flight, an expiry, a revocation and a rebound
block the task they take the claim from. `CompleteIsSettled` is inductive
because a complete objective is out of sequence for every event.
`ExpiredAfterDeadline` needs only that an expiry is dated between the end of
the lease and now. The refinement needs one strengthening beyond these,
`OwnersKnown` (an active claim has an owner), without which a held task could
look free to the board; then transitions are `Work`, an acquisition is
`Grant`, a close is `Drop` of one task and a rebound `Drop` of the lapsed
ones, everything else stutters.

`Audited` says that the view passes its own audit. It holds because every
write audits what it is about to store and because the manifest state passes
too, and it is what the rest builds on. `TaskCases` sorts what an event can do
to one task: nothing, move it, give it a claim, end its claim, or sweep it in a
rebound. A final task has no claim (`Audited`) and no legal transition, so no
case changes it. The possibility theorems show that the event in question
passes `Accepts`, `LiveRules` and the audit of the view it leads to: ending one
claim leaves the others as audited (`CloseAudited`), and a rebound dated now
sweeps exactly the claims that the audit would object to (`ReboundAudited`).
A revocation is dated at the last event, so no lease that was running in the
audited view is over in the new one. An expiry has to be dated at or after the
end of its own lease, and there the audit objects to every other lease that is
over. `ExpiryExactly` says what follows: the reducer and the audit together
accept an expiry for a claim whose lease ended strictly before every other
active one, and for no other; of two claims whose leases end at the same time
neither can expire, and it takes a revocation or a rebound to end them.

`LoopHistoryProofs` proves under the same assumptions, for histories of any
length:

* `HistoryIsAppendOnly`: `Spec => []Numbered /\ History!Spec`;
* `ClaimsAlwaysExplained`: `Spec => []ClaimHistory`;
* `UnexpiredClaimKept`: `Spec => []UnexpiredClaimNotReassigned`;
* `ResultsAlwaysFenced`: `Spec => []ResultsCarryLiveFence`;
* `DoneAlwaysBehindGate`: `Spec => []DoneBehindGate`;
* `HistoryAlwaysReplays`: `Spec => []HistoryReplays`.

A property of a whole history is not inductive: that the new event fits what
came before depends on the view, and the view has to be tied to the history.
Each invariant ties one part of it. `ClaimHistory`: an active claim is the last
acquisition of its task, not ended since, with its owner, token and lease
(`Backed`), and every other acquisition was ended by an event entitled to it
(`Over`). `GateHistory`: a satisfied gate is the last word on that gate, and an
authorised one. `HeadHistory`: the first rebound starts from the head of the
manifest state, which is where replay starts. `ReplayHistory`: there is a
function that replays the history, and any such function finds every event
accepted and ends in the view. This needs no induction over the history: a
step makes the history one event longer, and the replay of the longer one is
the replay of the shorter one and one more application of `Effect`, to the same
state that the live path applied it to. `HistoryIsAppendOnly` is the link to
the file: events are numbered by their position, none occurs twice, and each
step appends one or none, so the ledger asks for the steps of `AppendLog`,
which `LedgerWrite` is proved to implement.

`LedgerWriteProofs` proves for any number of invocations and events, from
`WriteAssumption` (the lock values differ, deadlines are times):

* `WriteTypeCorrect`: `Spec => []TypeOK`;
* `OneWriterAlways`: `Spec => []OneWriter`;
* `HistoryAlwaysIntact`: `Spec => []HistoryIntact`;
* `AppliedAlwaysDurable`: `Spec => []AppliedIsDurable`;
* `RepliesAlwaysTruthful`: `Spec => []RepliesAreTruthful`;
* `UpdatesNeverLost`: `Spec => NoLostUpdate`;
* `WriteImplementsLog`: `Spec => ImplementsLog`;
* `InvocationsApproachTheEnd`: `Spec => []LockIsOwned /\ [][Approaches]_vars`.

`OneWriter` is inductive with the type. It gives `StepOf`: while an invocation
holds the lock, only its own steps and foreign edits move the ledger. The rest
needs to know what the invocation knows at each label, which the safety
properties do not say: the events in play were prepared (`EventsBuilt`, so an
edit is never the invocation's own event), what was read still begins the
ledger and does not lack the event if the ledger has it (`ReadIsOld`), the
event fits what was read, and after the comparison that is the ledger
(`ReadyToWrite`), the new event is right behind it and nothing later is durable
(`Written`), and what is durable is a prefix (`DurableBegins`). `WriteInv` is
their conjunction. That no event is appended twice, which the refinement
needs, follows from the hash chain: an event sits on exactly the history it was
prepared on, and two positions are two different histories. The proofs share
the limit of the model: an edit between comparison and `os.replace` is left
out, and without that exclusion `ReadyToWrite` is not inductive.
`InvocationsApproachTheEnd` is what `InvocationsEnd` and `LockFreed` rest on:
each step of an invocation lowers the number of steps it has left, nobody
else's raises it, and a lock that names an invocation is that of a running one
(any other is an orphan).

`SessionHandoffProofs` proves `HandoffTypeCorrect`, `RolloversRunOnce`,
`ReceiptsAlwaysTruthful` and `NoSurvivors` for any calls, requests and
capacity, from `HandoffAssumption`. `ClaimInv` is about the replay ledger:
claims are pairwise different (`OneClaims`), what a call has staged is still
new because nobody else may write (`StagedIsNew`), what it has replaced is
there (`ReplacedIsWritten`), and a claimed call's entry and the entry of every
session are durable (`ClaimsRecorded`, `SessionsRecorded`), with the holders of
live claims different from each other and from all sessions (`HoldersApart`,
`HoldersNew`): a claim is used for one launch only. `RunInv` says what a call
knows of its process tree (`TreeKnown`), that its patch comes last
(`DoneLast`), and that the receipt fits both (`ReceiptFits`).
`HandoffsApproachTheEnd` is what `HandoffsEnd` rests on: every step of the
executor lowers `StepsLeft`, and neither the session nor its descendants, nor
how they take the signals, raise it.

`MemoryGovernanceProofs` proves `GovernanceTypeCorrect`, `RootAlwaysUsable`,
`AuditsAlwaysSeeOneState`, `CommittedAlwaysAsConfirmed` and
`RepliesAlwaysHonest` for any cores, items, limits and number of faults, from
`GovernanceAssumption` and `NothingAssumption`. `GovernanceInv` adds to these
that locks exclude each other (`LockedApart`), that an operation is proven
once and not before its commit (`Once`, `NotYet`), that a settled outcome is
of an operation that can no longer run (`Settled`), that previews in use are
in time (`Timely`), that an uninitialized root is fresh (`RootFresh`), that a
verified operation still sees the state of its preview (`ReadyToWrite`), that
what a preview would commit fits the limits and replays (`Backed`, `Bounded`)
and `SnapshotValid` itself. It is the last two that make a commit keep the
root usable: what the proof will replay is what the tables hold.

`MemorySqliteProofs` proves `SqliteTypes`, `SqliteHistory`, `SqliteReceipts`
and `SqliteImplementsLog` for any processes, records, versions, keys and
authorities, from `SqliteAssumption` and `NoneAssumption`. `DraftOK` says what
a transaction knows of its draft: it is the committed database with exactly
its own row and receipt, its key is still unknown and its precondition still
holds, since nobody else has the write lock. `StoreInv` is the inductive
invariant of the tables: the committed database and the one a power failure
may bring back are both what their operations made of them (`Sound`), and the
second is a prefix of the first (`PrefixOK`). `AfterSound` shows that an
operation on a sound database leaves a sound one. `ToldInv` strengthens
`ReceiptsTruthful` by what holds between commit and reply.

`GitNexusRefreshProofs` proves `RefreshTypeCorrect`, `AnalyzersApart`,
`FreshAlwaysExact`, `BreakerAlwaysHolds` and `NoRetryEver` for any hooks and
operators, from `RefreshAssumption`. `RefreshInv` adds who holds the lock at
which step (`LockFollows`), that an analyzer whose caller does not wait for it
is a stray (`StraysKnown`), that one runs at a time otherwise (`OneRuns`),
and where a hook that saw the tripped breaker may be (`BarredWait`). Exactness
is no fact about the index alone: whole metadata may well stand beside a graph
of other files. It goes through the refresh. While a call watches, HEAD is not
behind what it saw, and unless it is in `touched` its analyzer has met no
edited file (`Watched`); so the graph of an analyzer that ended well lies
between `seen` and HEAD and is clean of edits if `touched` says so (`Built`).
`Verify` finds HEAD at `seen` and the call not in `touched`, which pins both
(`Verified`), and it notes the run. The sidecar binds to that run alone, and a
run that a sidecar names has no analyzer any more and will have none
(`Rebound`, with `RunsKnown` and `Alone` for whose run the metadata is of): a
sidecar that fits whole metadata is of an exact graph (`SidecarExact`).

`InstallerTransactionProofs` proves `InstallerTypeCorrect`, `InstallersKnow`,
`AlwaysAllOrNothing`, `ReceiptsNeverAhead`, `NothingEverDestroyed` and
`InstallersApproachTheEnd` for any installers, versions, payloads, edits and
faults, from `InstallerAssumption`.
`InstallerInv` is `TypeOK` with `Knows(p)`, what an installer knows about its
entries at each label: entries it has not come to are as planned or edited
(`Pristine`), its copies and originals are where `status` says (`CopyKnown`,
`Aside`, `Kept`, `Copied`), entries before the one at hand are replaced
(`Front`, `Complete`) or, in a rollback, those behind it are settled
(`Backward`, `Settled`), and the payload is complete before any receipt is
(`PayloadFirst`). A step of the lock's holder is shown to keep its own
knowledge; a step of any other installer, an edit or the removal of a lock
touches none of what it speaks of. `NothingDestroyed` follows step by step:
each rename keeps what it moves, and what a step removes is disposable.

`InstallersApproachTheEnd` bounds the loops: `Distance(p)` is at most
`8 * Last + 8` and falls with every step, signal and kill of that installer and
with nothing else. A rollback that a failure began can be interrupted and
followed by the one of the signal handler, but not the reverse, so `Distance`
puts all of the first before all of the second.

`TypeOK` is proved for every module with variables but the abstract ones and
is not repeated in the runs. Every safety invariant and every action property
of a run that passes has a theorem.

Model-checked only: liveness, that is `InvocationsEnd`, `HandoffsEnd` and the
two `LockFreed`. The theorems on distance from the end say that there are
finitely many steps to take; that a process which has not ended can take its
next one (`ENABLED`) and, being fair, does, is out of the prover's reach and
shown by the runs. Nothing is proved about the clock beyond what an action asks
of it, and nothing about the three runs that expect a violation.

## 6. Plan

What is left, in order:

1. `LoopLedger`: `migration_snapshot` as a first event, and a run of its own
   for dependencies between tasks.
2. `ModelFailover` and `WorkflowRouting` as operators checked against a
   reference definition over bounded inputs.

The order is that of importance: the ledger is what the other skills rely on.

## 7. Not modelled

Text formats (YAML, JSON, digests, timestamps), safe execution of git and of
child processes (environment, symlinks, size limits), the read-only commands
of `loopctl`, and the pure validators of documents, whose unit tests say what
a model would. What each module leaves out of its own component is said in
section 2. The package under `plugin/` is a copy of `skills/` and is covered
by what is said of the originals; `sync-plugin-package.py` keeps it so.
`PROJECT.json` lists every component with its status.
