-------------------------- MODULE MemoryGovernance --------------------------
(***************************************************************************)
(* The memory governance core: several processes, each with one            *)
(* GovernanceCore, change the items of one memory root.  A change is       *)
(* previewed, confirmed by the host, executed under an exclusive file lock *)
(* in one SQLite transaction together with a proof, and read back.  The    *)
(* pending preview and the execution handle live in memory only: a process *)
(* that dies loses them, and what became of the operation has to be read   *)
(* from the root.                                                          *)
(*                                                                         *)
(* Digests are modelled by what they digest: the before and after digests  *)
(* of a preview or proof are whole states of the items.                    *)
(***************************************************************************)
EXTENDS Naturals, Sequences, FiniteSets

CONSTANTS
    Core,         \* processes with a governance core
    Item,
    Operation,    \* operation ids (fresh UUIDs)
    Content,      \* contents of item versions
    Copies,       \* observations of copies outside the root
    Nothing,      \* no operation, no item, no preview, no snapshot
    Confirm,      \* confirmation_seconds
    ProofLife,    \* proof_seconds
    MaxItems, MaxVersions, MaxProofs,
    Reserve,      \* maintenance_proof_reserve: proofs only a stop may use
    MaxTime,      \* bounds: the host's clock,
    MaxFaults     \*         crashes, drifts of copies, clocks set back

ASSUME GovernanceAssumption ==
    /\ {Confirm, ProofLife, MaxItems, MaxVersions, MaxProofs, Reserve,
        MaxTime, MaxFaults} \subseteq Nat
    /\ MaxVersions >= 1   \* profile() fixes the limits; this one is 10
    /\ Nothing \notin Operation

VARIABLES
    root,      \* "empty", "partial" (a failed initialization) or "ready"
    born,      \* reject_before: when the root was initialized
    items,     \* the tables items and versions
    proofs,    \* the table proofs, in the order of its sequence numbers
    hot,       \* whether a non-empty rollback journal lies in the root
    now,       \* the host's clock
    copies,    \* what the host observes of external copies
    faults,    \* how many faults have happened
    pending,   \* core -> operation of the pending preview
    handle,    \* core -> operation of the accepted, unused handle
    running,   \* core -> operation execute works on
    phase,     \* core -> where execute is
    recorded,  \* core -> recorded_at of the proof being written
    sample,    \* core -> last clock sample
    audit,     \* core -> its open audit snapshot
    preview,   \* operation -> the preview document, which its caller keeps
    outcome    \* operation -> what its caller knows of it

durable == <<root, born, items, proofs, hot>>
host == <<now, copies, faults>>
memory == <<pending, handle, running, phase, recorded, sample, audit>>
vars == <<durable, host, memory, preview, outcome>>

Kind == {"add", "update", "restore", "stop", "resume"}

ItemState ==
    [status : {"active", "stopped"}, versions : Seq(Content)] \cup {Nothing}
State == [Item -> ItemState]
EmptyState == [i \in Item |-> Nothing]

Request == [kind : Kind, item : Item, content : Content \cup {Nothing},
            source : Nat]
Preview == [request : Request, before : State, after : State, issued : Nat,
            expires : Nat, copies : Copies]
Proof == [op : Operation, request : Request, before : State, after : State,
          at : Nat, until : Nat, copies : Copies]
Snapshot == [state : State, seen : SUBSET Item]

\* What execute or readback has told of an operation: a result ("unknown" for
\* state-unknown), or an error code.  "refused" stands for the codes that are
\* raised before a writer is opened only; "failed" for those of inventory and
\* of the system, which are raised before it, and again on leaving the lock.
Outcome == {"open", "refused", "failed", "applied", "not-applied", "unknown"}

ASSUME NothingAssumption == Nothing \notin Preview

TypeOK ==
    /\ root \in {"empty", "partial", "ready"} /\ born \in Nat
    /\ items \in State /\ proofs \in Seq(Proof) /\ hot \in BOOLEAN
    /\ now \in Nat /\ copies \in Copies /\ faults \in Nat
    /\ pending \in [Core -> Operation \cup {Nothing}]
    /\ handle \in [Core -> Operation \cup {Nothing}]
    /\ running \in [Core -> Operation \cup {Nothing}]
    /\ phase \in [Core -> {"idle", "verified", "written", "closed"}]
    /\ recorded \in [Core -> Nat] /\ sample \in [Core -> Nat]
    /\ audit \in [Core -> Snapshot \cup {Nothing}]
    /\ preview \in [Operation -> Preview \cup {Nothing}]
    /\ outcome \in [Operation -> Outcome]
    \* in execute, a core has a previewed operation
    /\ \A c \in Core : phase[c] # "idle" => running[c] \in Operation
    /\ \A op \in Operation :
          (\E c \in Core : op \in {pending[c], handle[c], running[c]})
             => preview[op] # Nothing

Init ==
    /\ root = "empty" /\ born = 0 /\ items = EmptyState
    /\ proofs = << >> /\ hot = FALSE
    /\ now = 0 /\ copies \in Copies /\ faults = 0
    /\ pending = [c \in Core |-> Nothing]
    /\ handle = [c \in Core |-> Nothing]
    /\ running = [c \in Core |-> Nothing]
    /\ phase = [c \in Core |-> "idle"]
    /\ recorded = [c \in Core |-> 0]
    /\ sample = [c \in Core |-> 0]
    /\ audit = [c \in Core |-> Nothing]
    /\ preview = [op \in Operation |-> Nothing]
    /\ outcome = [op \in Operation |-> "open"]

-----------------------------------------------------------------------------
(* The root.                                                               *)

\* A version list after one more change of content, a status after a change
\* of status; Nothing if the change does not fit the item.
Changed(item, r) ==
    CASE r.kind = "add" /\ item = Nothing ->
           [status |-> "active", versions |-> <<r.content>>]
      [] r.kind \in {"update", "restore"} /\ item # Nothing ->
           [item EXCEPT !.versions = Append(@, r.content)]
      [] r.kind = "stop" /\ item # Nothing /\ item.status = "active" ->
           [item EXCEPT !.status = "stopped"]
      [] r.kind = "resume" /\ item # Nothing /\ item.status = "stopped" ->
           [item EXCEPT !.status = "active"]
      [] OTHER -> Nothing

\* The limits on versions and the source of a restoration.
Fits(item, r) ==
    /\ r.kind \in {"update", "restore"} /\ item # Nothing =>
          Len(item.versions) < MaxVersions
    /\ r.kind = "restore" /\ item # Nothing =>
          /\ r.source \in DOMAIN item.versions
          /\ r.content = item.versions[r.source]

Transition(s, r) == [s EXCEPT ![r.item] = Changed(@, r)]
Possible(s, r) == Fits(s[r.item], r) /\ Changed(s[r.item], r) # Nothing

Present(s) == {i \in Item : s[i] # Nothing}

Admitted(r) ==
    /\ r.kind = "add" => Cardinality(Present(items)) < MaxItems
    /\ Len(proofs) < MaxProofs + (IF r.kind = "stop" THEN Reserve ELSE 0)

StateBefore(n) == IF n = 1 THEN EmptyState ELSE proofs[n - 1].after
LastState == StateBefore(Len(proofs) + 1)
Floor == IF proofs = << >> THEN born ELSE proofs[Len(proofs)].at

\* The requests that store a version, and the revision the next one gets.
Storing == {"add", "update", "restore"}
NextRevision(item) == IF item = Nothing THEN 1 ELSE Len(item.versions) + 1

\* A request as the tables have it: with the content of the stored version.
AsStored(r, stored, rev) ==
    [r EXCEPT !.content = IF r.kind \in Storing THEN stored.versions[rev]
                          ELSE Nothing]

\* What a proof replays to: the state before it, changed by the version that
\* the table has for its item and revision.
ReplaysOn(p, s, stored) ==
    LET r == p.request
        rev == NextRevision(s[r.item])
        row == AsStored(r, stored, rev)
    IN  /\ stored # Nothing
        /\ r.kind \in Storing => rev \in DOMAIN stored.versions
        /\ Changed(s[r.item], row) # Nothing
        /\ r.kind = "restore" => row.content = stored.versions[r.source]
        /\ p.after = Transition(s, row)

Replays(n) == ReplaysOn(proofs[n], StateBefore(n), items[proofs[n].request.item])

\* snapshot(): every reader and every writer first checks the limits and
\* replays all proofs; if one does not fit, the root is unusable.
SnapshotValid ==
    /\ Cardinality(Present(items)) =< MaxItems
    /\ \A i \in Present(items) : Len(items[i].versions) \in 1 .. MaxVersions
    /\ Len(proofs) =< MaxProofs + Reserve
    /\ \A n \in 1 .. Len(proofs) :
          /\ proofs[n].before = StateBefore(n)
          /\ proofs[n].at >= (IF n = 1 THEN born ELSE proofs[n - 1].at)
          /\ Replays(n)
    /\ items = LastState

Proven(op) == \E n \in 1 .. Len(proofs) : proofs[n].op = op

Locked(c) == phase[c] # "idle"
FaultyWriteLock == root = "ready" /\ ~ hot /\ \A c \in Core : ~ Locked(c)

\* flock without waiting: shared for readers, exclusive for execute.  After
\* that the journal must be empty.
ReadLock == root = "ready" /\ ~ hot /\ \A c \in Core : ~ Locked(c)
WriteLock == ReadLock /\ \A c \in Core : audit[c] = Nothing

FaultyTrusted(c) == now >= sample[c]

\* A clock that runs back, behind the last sample of the process or behind
\* the last proof, is not trusted.
Trusted(c) == now >= sample[c] /\ now >= Floor
Sampled(c) == sample' = [sample EXCEPT ![c] = IF @ =< now THEN now ELSE @]
\* A call that fails may fail before it samples the clock.
PerhapsSampled(c) == Sampled(c) \/ UNCHANGED sample

-----------------------------------------------------------------------------
(* Calls of a core.                                                        *)

\* Initialization takes an empty directory; if it fails on the way, it
\* leaves what it has made.
Initialize(c) ==
    /\ root = "empty"
    /\ root' \in {"partial", "ready"}
    /\ born' = now
    /\ PerhapsSampled(c)
    /\ UNCHANGED <<items, proofs, hot, host, pending, handle, running, phase,
                   recorded, audit, preview, outcome>>

\* What callers ask for: contents for new versions, retained versions for
\* restorations.
Requests(s) ==
    [kind : {"add", "update"}, item : Item, content : Content, source : {0}]
    \cup [kind : {"stop", "resume"}, item : Item, content : {Nothing}, source : {0}]
    \cup [kind : {"restore"}, item : Present(s), content : Content,
          source : 1 .. MaxVersions]

ProposeChange(c, op) ==
    /\ ~ Locked(c)
    /\ preview[op] = Nothing
    /\ pending[c] # Nothing => now >= preview[pending[c]].expires
    /\ handle[c] = Nothing
    /\ ReadLock /\ Trusted(c) /\ SnapshotValid
    /\ \E r \in Requests(items) :
         /\ Admitted(r) /\ Possible(items, r)
         /\ preview' = [preview EXCEPT ![op] =
              [request |-> r, before |-> items, after |-> Transition(items, r),
               issued |-> now, expires |-> now + Confirm, copies |-> copies]]
    /\ pending' = [pending EXCEPT ![c] = op]
    /\ Sampled(c)
    /\ UNCHANGED <<durable, host, handle, running, phase, recorded, audit,
                   outcome>>

FaultyLive(op) == now =< preview[op].expires
Live(op) == now < preview[op].expires

\* authorize: the host accepts the pending preview.
Authorize(c) ==
    /\ ~ Locked(c)
    /\ pending[c] # Nothing /\ handle[c] = Nothing
    /\ now >= sample[c]
    /\ preview[pending[c]].issued =< now /\ Live(pending[c])
    /\ handle' = [handle EXCEPT ![c] = pending[c]]
    /\ pending' = [pending EXCEPT ![c] = Nothing]
    /\ Sampled(c)
    /\ UNCHANGED <<durable, host, running, phase, recorded, audit, preview,
                   outcome>>

Cancel(c) ==
    /\ ~ Locked(c)
    /\ pending[c] # Nothing \/ handle[c] # Nothing
    /\ pending' = [pending EXCEPT ![c] = Nothing]
    /\ handle' = [handle EXCEPT ![c] = Nothing]
    /\ UNCHANGED <<durable, host, running, phase, recorded, sample, audit,
                   preview, outcome>>

-----------------------------------------------------------------------------
(* execute: the handle is consumed before anything is checked; all checks  *)
(* happen under the exclusive lock and before a writer is opened.          *)

Verifiable(c, op) ==
    LET p == preview[op] IN
    /\ WriteLock /\ SnapshotValid /\ Trusted(c)
    /\ ~ Proven(op)
    /\ items = p.before
    /\ p.issued >= born
    /\ p.issued =< now /\ Live(op)
    /\ Admitted(p.request) /\ Possible(items, p.request)
    /\ Transition(items, p.request) = p.after
    /\ copies = p.copies

Verify(c) ==
    LET op == handle[c] IN
    /\ ~ Locked(c)
    /\ op # Nothing
    /\ Verifiable(c, op)
    /\ handle' = [handle EXCEPT ![c] = Nothing]
    /\ running' = [running EXCEPT ![c] = op]
    /\ phase' = [phase EXCEPT ![c] = "verified"]
    /\ Sampled(c)
    /\ UNCHANGED <<durable, host, pending, recorded, audit, preview, outcome>>

\* A check fails or the host refuses (authority, qualification, eligibility
\* of the source, capacity): the call ends before a writer was opened.  An
\* error inside the lock leaves it without the inventory that ends it.
Refuse(c) ==
    /\ \/ ~ Locked(c) /\ handle[c] # Nothing
       \/ phase[c] = "verified"
    /\ LET op == IF Locked(c) THEN running[c] ELSE handle[c] IN
       \E code \in {"refused", "failed"} :
          outcome' = [outcome EXCEPT ![op] = code]
    /\ handle' = [handle EXCEPT ![c] = Nothing]
    /\ running' = [running EXCEPT ![c] = Nothing]
    /\ phase' = [phase EXCEPT ![c] = "idle"]
    /\ PerhapsSampled(c)
    /\ UNCHANGED <<durable, host, pending, recorded, audit, preview>>

\* BEGIN IMMEDIATE, a second snapshot, the item and its proof are written.
WriteItem(c) ==
    /\ phase[c] = "verified"
    /\ items = preview[running[c]].before
    /\ SnapshotValid
    /\ Trusted(c) /\ Live(running[c])
    /\ recorded' = [recorded EXCEPT ![c] = now]
    /\ phase' = [phase EXCEPT ![c] = "written"]
    /\ Sampled(c)
    /\ UNCHANGED <<durable, host, pending, handle, running, audit, preview,
                   outcome>>

ProofOf(c) ==
    LET p == preview[running[c]] IN
    [op |-> running[c], request |-> p.request, before |-> p.before,
     after |-> p.after, at |-> recorded[c], until |-> recorded[c] + ProofLife,
     copies |-> p.copies]

\* The clock is sampled once more, then the transaction is committed; an
\* error after that point is swallowed like one before it.
Commit(c) ==
    /\ phase[c] = "written"
    /\ Trusted(c) /\ Live(running[c])
    /\ items' = [items EXCEPT ![preview[running[c]].request.item] =
                   preview[running[c]].after[preview[running[c]].request.item]]
    /\ proofs' = Append(proofs, ProofOf(c))
    /\ phase' = [phase EXCEPT ![c] = "closed"]
    /\ Sampled(c)
    /\ UNCHANGED <<root, born, hot, host, pending, handle, running, recorded,
                   audit, preview, outcome>>

\* Any error in the transaction: the writer is closed, which rolls back; if
\* that fails too, the journal stays.
GiveUp(c) ==
    /\ phase[c] \in {"verified", "written"}
    /\ hot' \in {FALSE, phase[c] = "written"}
    /\ phase' = [phase EXCEPT ![c] = "closed"]
    /\ PerhapsSampled(c)
    /\ UNCHANGED <<root, born, items, proofs, host, pending, handle, running,
                   recorded, audit, preview, outcome>>

\* _readback_locked: what can be said of an operation whose preview the
\* caller shows or not.  The host may fail to answer at any point.  "applied"
\* stands for committed-but-not-adoptable and committed-capacity-unproven too,
\* which differ in what the host says of the source and of the space.
Verdicts(c, op, shown) ==
    LET last == proofs[Len(proofs)]
        newest == /\ proofs # << >> /\ last.op = op /\ items = last.after
                  /\ copies = last.copies /\ now < last.until
        readable == ~ hot /\ Trusted(c) /\ SnapshotValid
    IN  {"unknown"}
        \cup {v \in {"applied"} : readable /\ newest}
        \cup {v \in {"not-applied"} :
                 readable /\ ~ Proven(op) /\ shown /\ items = preview[op].before}

FaultyReadBackOwn(c) ==
    /\ phase[c] = "closed"
    /\ \E v \in Verdicts(c, running[c], TRUE) \cup {"refused"} :
          outcome' = [outcome EXCEPT ![running[c]] = v]
    /\ running' = [running EXCEPT ![c] = Nothing]
    /\ phase' = [phase EXCEPT ![c] = "idle"]
    /\ recorded' = [recorded EXCEPT ![c] = 0]
    /\ Sampled(c)
    /\ UNCHANGED <<durable, host, pending, handle, audit, preview>>

\* The end of execute: the readback in the same lock, then the inventory with
\* which locked() leaves it.  If that fails, its code takes the place of the
\* result, and nothing else is told of an operation that may be committed.
ReadBackOwn(c) ==
    /\ phase[c] = "closed"
    /\ \E v \in Verdicts(c, running[c], TRUE) \cup {"failed"} :
          outcome' = [outcome EXCEPT ![running[c]] = v]
    /\ running' = [running EXCEPT ![c] = Nothing]
    /\ phase' = [phase EXCEPT ![c] = "idle"]
    /\ recorded' = [recorded EXCEPT ![c] = 0]
    /\ Sampled(c)
    /\ UNCHANGED <<durable, host, pending, handle, audit, preview>>

\* readback by any core.  While the operation can still be executed the
\* answer may change; once it cannot, the caller acts on it.  The call may
\* fail, on leaving the lock too: then nothing has been learnt.
Spent(op) == \A c \in Core : op \notin {pending[c], handle[c], running[c]}

ReadBack(c, op, shown) ==
    /\ ~ Locked(c)
    /\ root = "ready" /\ \A d \in Core : ~ Locked(d)
    /\ preview[op] # Nothing
    /\ Spent(op) /\ outcome[op] \in {"open", "unknown", "failed"}
    /\ \E v \in Verdicts(c, op, shown) \cup {outcome[op]} :
          outcome' = [outcome EXCEPT ![op] = v]
    /\ Sampled(c)
    /\ UNCHANGED <<durable, host, pending, handle, running, phase, recorded,
                   audit, preview>>

-----------------------------------------------------------------------------
(* Audits: a reader that keeps its lock and its transaction from page to   *)
(* page.                                                                   *)

OpenAudit(c) ==
    /\ ~ Locked(c) /\ audit[c] = Nothing
    /\ ReadLock /\ SnapshotValid /\ Trusted(c)
    /\ audit' = [audit EXCEPT ![c] = [state |-> items, seen |-> {}]]
    /\ Sampled(c)
    /\ UNCHANGED <<durable, host, pending, handle, running, phase, recorded,
                   preview, outcome>>

\* One page (of one item); the last one closes the snapshot.  How long pages
\* may be asked for is left open: CloseAudit is always possible.
Page(c) ==
    /\ ~ Locked(c) /\ audit[c] # Nothing
    /\ Trusted(c)
    /\ \E i \in Present(items) \ audit[c].seen :
          audit' = [audit EXCEPT ![c] =
             IF audit[c].seen \cup {i} = Present(items) THEN Nothing
             ELSE [audit[c] EXCEPT !.seen = @ \cup {i}]]
    /\ Sampled(c)
    /\ UNCHANGED <<durable, host, pending, handle, running, phase, recorded,
                   preview, outcome>>

\* close(), the end of its with statement, or a page that fails: expiry,
\* deadline, an untrusted clock, access withdrawn.
CloseAudit(c) ==
    /\ ~ Locked(c) /\ audit[c] # Nothing
    /\ audit' = [audit EXCEPT ![c] = Nothing]
    /\ PerhapsSampled(c)
    /\ UNCHANGED <<durable, host, pending, handle, running, phase, recorded,
                   preview, outcome>>

-----------------------------------------------------------------------------
(* The world: the process dies, the clock and the copies move, somebody    *)
(* lets SQLite roll back a journal.                                        *)

Fault == faults < MaxFaults /\ faults' = faults + 1

Crash(c) ==
    /\ Fault
    /\ \/ Locked(c) \/ audit[c] # Nothing \/ sample[c] > 0
       \/ pending[c] # Nothing \/ handle[c] # Nothing
    /\ hot' \in {hot, hot \/ phase[c] = "written"}
    /\ outcome' = [op \in Operation |->
                     IF op = running[c] /\ Locked(c) THEN "unknown" ELSE outcome[op]]
    /\ pending' = [pending EXCEPT ![c] = Nothing]
    /\ handle' = [handle EXCEPT ![c] = Nothing]
    /\ running' = [running EXCEPT ![c] = Nothing]
    /\ phase' = [phase EXCEPT ![c] = "idle"]
    /\ audit' = [audit EXCEPT ![c] = Nothing]
    /\ sample' = [sample EXCEPT ![c] = 0]
    /\ recorded' = [recorded EXCEPT ![c] = 0]
    /\ UNCHANGED <<root, born, items, proofs, now, copies, preview>>

RollBack ==
    /\ hot /\ \A c \in Core : ~ Locked(c)
    /\ hot' = FALSE
    /\ UNCHANGED <<root, born, items, proofs, host, memory, preview, outcome>>

Tick ==
    /\ now < MaxTime
    /\ now' = now + 1
    /\ UNCHANGED <<durable, copies, faults, memory, preview, outcome>>

SetClockBack ==
    /\ Fault
    /\ now' \in 0 .. now - 1
    /\ UNCHANGED <<durable, copies, memory, preview, outcome>>

CopiesDrift ==
    /\ Fault
    /\ copies' \in Copies \ {copies}
    /\ UNCHANGED <<durable, now, memory, preview, outcome>>

Executing(c) ==
    Verify(c) \/ Refuse(c) \/ WriteItem(c) \/ Commit(c) \/ GiveUp(c) \/ ReadBackOwn(c)

Next ==
    \/ \E c \in Core :
         \/ Initialize(c)
         \/ \E op \in Operation : ProposeChange(c, op)
         \/ Authorize(c) \/ Cancel(c) \/ Executing(c)
         \/ \E op \in Operation, shown \in BOOLEAN : ReadBack(c, op, shown)
         \/ OpenAudit(c) \/ Page(c) \/ CloseAudit(c)
         \/ Crash(c)
    \/ RollBack \/ Tick \/ SetClockBack \/ CopiesDrift

Spec == Init /\ [][Next]_vars

-----------------------------------------------------------------------------
(* Safety.                                                                 *)

\* The check that every later call starts with can always be passed: no
\* sequence of operations, crashes and clock steps leaves a root whose own
\* proofs do not replay to it, and which would be refused for good.
RootStaysUsable == SnapshotValid

\* What happened is what was confirmed: each operation is committed at most
\* once, with the request and the states its preview showed, and dated
\* inside the time the host confirmed it for, although the clock may be set
\* back and other cores may change the root between preview and execution.
CommittedAsConfirmed ==
    \A n \in 1 .. Len(proofs) :
       LET p == proofs[n]  q == preview[p.op] IN
       /\ \A m \in 1 .. Len(proofs) : proofs[m].op = p.op => m = n
       /\ q # Nothing
       /\ p.request = q.request /\ p.before = q.before /\ p.after = q.after
       /\ q.issued =< p.at /\ p.at < q.expires

\* An answer is never taken back: after "refused" or "not-applied" the
\* operation is never found in the root, after "applied" it always is, even if
\* the answer came from another process after a crash.
\* "failed" is no answer: execute raises its codes before and after a commit,
\* and a caller who takes one for a refusal is wrong.
RepliesAreHonest ==
    \A op \in Operation :
       /\ outcome[op] \in {"refused", "not-applied"} => ~ Proven(op)
       /\ outcome[op] = "applied" => Proven(op)

\* Every page of an audit belongs to one state of the root, which no other
\* core changes while the audit is open, and at most one core writes.
AuditsSeeOneState ==
    /\ \A c \in Core : audit[c] # Nothing =>
          audit[c].state = items /\ audit[c].seen \subseteq Present(items)
    /\ \A c, d \in Core : Locked(c) /\ Locked(d) => c = d

=============================================================================
