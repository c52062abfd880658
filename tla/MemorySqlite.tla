---------------------------- MODULE MemorySqlite ----------------------------
(***************************************************************************)
(* The SQLite memory adapter: processes that execute authorised operations *)
(* on the records of one database, look receipts up and query the active   *)
(* records.  Record, full-text index and receipt of an operation are one   *)
(* transaction.  Processes run concurrently, are killed, and retry, with   *)
(* the same observation of trusted time or with a fresh one; the machine   *)
(* loses power.                                                            *)
(*                                                                         *)
(* Digests are modelled by what they digest: a request is its authority    *)
(* and the observed time, the precondition of an operation is the version  *)
(* of a record.  The records are those of one scope (repository and        *)
(* namespace).                                                             *)
(***************************************************************************)
EXTENDS Naturals, Sequences

CONSTANTS
    Process,
    Record,      \* record ids
    Version,     \* canonical records
    Key,         \* idempotency keys
    Authorities, \* the operation authorities that were issued
    None,        \* no record, no digest, nobody
    MaxTime      \* bound of the observed times

Authority ==
    [key : Key, kind : {"upsert", "invalidate", "tombstone", "delete"},
     target : Record, before : Version \cup {None}, version : Version,
     issued : Nat, expires : Nat]

\* validate_operation_authority, and the precondition that
\* build_authorized_request asks of an operation that is not an upsert.
ASSUME SqliteAssumption ==
    /\ MaxTime \in Nat
    /\ None \notin Version \cup Process
    /\ \A a \in Authorities :
          /\ a \in Authority
          /\ a.issued < a.expires
          /\ a.kind # "upsert" => a.before # None

\* An authorised request binds the trusted time it was verified at.  The
\* caller names the observation and accepts its receipt.
Request ==
    {q \in [auth : Authorities, at : 0 .. MaxTime] :
       q.auth.issued =< q.at /\ q.at < q.auth.expires}

VARIABLES
    db,      \* the database as committed
    before,  \* the version of it that a power failure may bring back
    draft,   \* what the open transaction sees; db if there is none
    writer,  \* who holds the write lock (BEGIN IMMEDIATE), or None
    pc,      \* process -> where it is in a call
    req,     \* process -> the request of its last call
    out,     \* process -> what that call returned
    lost     \* requests whose commit a power failure took back

vars == <<db, before, draft, writer, pc, req, out, lost>>

EndState == [invalidate |-> "invalidated", tombstone |-> "tombstoned",
             delete |-> "deleted"]

Row == [version : Version,
        state : {"active", "invalidated", "tombstoned", "deleted"}]

ASSUME NoneAssumption == None \notin Row

\* The file may be absent, created but without a schema, or initialized.
Database ==
    [stage : {"absent", "empty", "ready"},
     rows : [Record -> Row \cup {None}],      \* the table records
     index : [Record -> Version \cup {None}], \* the content in records_fts
     ops : Seq(Request)]                      \* the table operations

Writing == {"begun", "written", "recorded", "synced"}
InCall == {"called", "committed", "creating"} \cup Writing

TypeOK ==
    /\ db \in Database /\ before \in Database /\ draft \in Database
    /\ writer \in Process \cup {None}
    /\ pc \in [Process -> InCall \cup {"idle"}]
    /\ req \in [Process -> Request \cup {None}]
    /\ \A p \in Process : pc[p] \in InCall \ {"creating"} => req[p] \in Request
    /\ out \in [Process ->
                 {"none", "applied", "replay", "failed", "conflict",
                  "original", "unavailable", "rejected"}]
    /\ \A p \in Process : out[p] # "none" => req[p] \in Request
    /\ lost \in SUBSET Request

Absent == [stage |-> "absent", rows |-> [r \in Record |-> None],
           index |-> [r \in Record |-> None], ops |-> << >>]

Init ==
    /\ db = Absent /\ before = Absent /\ draft = Absent
    /\ writer = None
    /\ pc = [p \in Process |-> "idle"]
    /\ req = [p \in Process |-> None]
    /\ out = [p \in Process |-> "none"]
    /\ lost = {}

-----------------------------------------------------------------------------
(* The tables.                                                             *)

Positions(d) == 1 .. Len(d.ops)

\* The stored operation of an idempotency key.
FaultyUnder(d, q) == {i \in Positions(d) : d.ops[i] = q}
Under(d, q) == {i \in Positions(d) : d.ops[i].auth.key = q.auth.key}

FaultySame(d, q) == Under(d, q) # {}
Same(d, q) == \E i \in Under(d, q) : d.ops[i] = q

Stored(d, q) == \E i \in Positions(d) : d.ops[i] = q

VersionOf(d, r) == IF d.rows[r] = None THEN None ELSE d.rows[r].version

\* The digest of the record is the one that the authority names.  It says
\* nothing of the life-cycle state.
Fits(d, a) == VersionOf(d, a.target) = a.before

\* An upsert (re)activates the record; the others take it out of the index
\* and keep its version.
WithRow(d, a) ==
    IF a.kind = "upsert"
      THEN [d EXCEPT !.rows[a.target] = [version |-> a.version,
                                         state |-> "active"],
                     !.index[a.target] = a.version]
      ELSE [d EXCEPT !.rows[a.target].state = EndState[a.kind],
                     !.index[a.target] = None]

WithReceipt(d, q) == [d EXCEPT !.ops = Append(@, q)]

\* The records a query can return.
Found(d) ==
    {r \in Record : /\ d.index[r] # None
                    /\ d.rows[r] # None
                    /\ d.rows[r].state = "active"}

-----------------------------------------------------------------------------
(* initialize                                                              *)

Goto(p, label) == pc' = [pc EXCEPT ![p] = label]
Return(p, result) == Goto(p, "idle") /\ out' = [out EXCEPT ![p] = result]

Rollback(p) ==
    IF writer = p THEN writer' = None /\ draft' = db
                  ELSE UNCHANGED <<writer, draft>>

\* O_CREAT | O_EXCL; nothing has made the directory entry durable yet.
Create(p) ==
    /\ pc[p] = "idle"
    /\ db.stage = "absent"
    /\ db' = [db EXCEPT !.stage = "empty"]
    /\ draft' = db'
    /\ Goto(p, "creating")
    /\ UNCHANGED <<before, writer, req, out, lost>>

\* One transaction with schema and metadata.
CreateSchema(p) ==
    /\ pc[p] = "creating"
    /\ before' = db
    /\ db' = [db EXCEPT !.stage = "ready"]
    /\ draft' = db'
    /\ Goto(p, "idle")
    /\ UNCHANGED <<writer, req, out, lost>>

-----------------------------------------------------------------------------
(* execute_authorized_operation                                            *)

Call(p, q) ==
    /\ pc[p] = "idle"
    /\ req' = [req EXCEPT ![p] = q]
    /\ out' = [out EXCEPT ![p] = "none"]
    /\ Goto(p, "called")
    /\ UNCHANGED <<db, before, draft, writer, lost>>

\* The database is checked, then BEGIN IMMEDIATE takes the write lock.
Begin(p) ==
    /\ pc[p] = "called"
    /\ db.stage = "ready"
    /\ writer = None
    /\ writer' = p
    /\ Goto(p, "begun")
    /\ UNCHANGED <<db, before, draft, req, out, lost>>

\* A key that is known: nothing is written, and the answer depends on
\* whether it is the same request.
Known(p) ==
    /\ pc[p] = "begun"
    /\ Under(draft, req[p]) # {}
    /\ Rollback(p)
    /\ Return(p, IF Same(draft, req[p]) THEN "replay" ELSE "conflict")
    /\ UNCHANGED <<db, before, req, lost>>

WriteRow(p) ==
    /\ pc[p] = "begun"
    /\ Under(draft, req[p]) = {}
    /\ Fits(draft, req[p].auth)
    /\ draft' = WithRow(draft, req[p].auth)
    /\ Goto(p, "written")
    /\ UNCHANGED <<db, before, writer, req, out, lost>>

WriteReceipt(p) ==
    /\ pc[p] = "written"
    /\ draft' = WithReceipt(draft, req[p])
    /\ Goto(p, "recorded")
    /\ UNCHANGED <<db, before, writer, req, out, lost>>

\* COMMIT first makes the rollback journal durable and syncs its directory,
\* and with it the removal of the last one: the previous commit is durable.
SyncJournal(p) ==
    /\ pc[p] = "recorded"
    /\ before' = db
    /\ Goto(p, "synced")
    /\ UNCHANGED <<db, draft, writer, req, out, lost>>

\* The journal is removed; nothing syncs its directory.
Commit(p) ==
    /\ pc[p] = "synced"
    /\ db' = draft
    /\ writer' = None
    /\ Goto(p, "committed")
    /\ UNCHANGED <<before, draft, req, out, lost>>

Answer(p) ==
    /\ pc[p] = "committed"
    /\ Return(p, "applied")
    /\ UNCHANGED <<db, before, draft, writer, req, lost>>

FaultyFail(p) ==
    /\ pc[p] \in {"called"} \cup Writing
    /\ Return(p, "failed")
    /\ IF writer = p THEN writer' = None /\ db' = draft
                     ELSE UNCHANGED <<db, writer>>
    /\ UNCHANGED <<before, draft, req, lost>>

\* No database or another schema, the lock held by somebody else, a
\* precondition that does not hold, the time limit, the size limit, the disk
\* or COMMIT itself: the transaction is rolled back.
Fail(p) ==
    /\ pc[p] \in {"called"} \cup Writing
    /\ Return(p, "failed")
    /\ Rollback(p)
    /\ UNCHANGED <<db, before, req, lost>>

-----------------------------------------------------------------------------
(* lookup_receipt                                                          *)

\* It reads in one statement.  The receipt it finds must be of the same
\* request, observed time included.
LookUp(p, q) ==
    /\ pc[p] = "idle"
    /\ db.stage = "ready"
    /\ req' = [req EXCEPT ![p] = q]
    /\ Return(p, IF Under(db, q) = {} THEN "unavailable"
                 ELSE IF Same(db, q) THEN "original" ELSE "rejected")
    /\ UNCHANGED <<db, before, draft, writer, lost>>

-----------------------------------------------------------------------------
(* The environment.                                                        *)

\* A process is killed; the next one to open the database rolls back.
Crash(p) ==
    /\ pc[p] # "idle"
    /\ Goto(p, "idle")
    /\ Rollback(p)
    /\ UNCHANGED <<db, before, req, out, lost>>

\* Every process dies.  If the removal of the last journal has not reached
\* the disk, the commit it stood for is undone.
PowerLoss ==
    /\ db' \in {db, before}
    /\ before' = db'
    /\ lost' = lost \cup {q \in Request : Stored(db, q) /\ ~ Stored(db', q)}
    /\ writer' = None
    /\ draft' = db'
    /\ pc' = [p \in Process |-> "idle"]
    /\ UNCHANGED <<req, out>>

Execute(p) ==
    \/ Begin(p)
    \/ Known(p)
    \/ WriteRow(p)
    \/ WriteReceipt(p)
    \/ SyncJournal(p)
    \/ Commit(p)
    \/ Answer(p)
    \/ Fail(p)

Next ==
    \/ \E p \in Process :
          \/ Create(p)
          \/ CreateSchema(p)
          \/ Execute(p)
          \/ Crash(p)
          \/ \E q \in Request : Call(p, q) \/ LookUp(p, q)
    \/ PowerLoss

Spec == Init /\ [][Next]_vars

-----------------------------------------------------------------------------
(* Safety.                                                                 *)

\* Operation i is the last one on record r among the first n.
LastOn(d, r, i, n) ==
    /\ i \in 1 .. n
    /\ d.ops[i].auth.target = r
    /\ \A j \in i + 1 .. n : d.ops[j].auth.target # r

Untouched(d, r, n) == \A i \in 1 .. n : d.ops[i].auth.target # r

\* The version that operation a left, and the row and the indexed content.
Left(a) == IF a.kind = "upsert" THEN a.version ELSE a.before
LeftRow(a) == [version |-> Left(a),
               state |-> IF a.kind = "upsert" THEN "active"
                                              ELSE EndState[a.kind]]
LeftIndex(a) == IF a.kind = "upsert" THEN a.version ELSE None

\* The stored operations explain what is stored: row and index of a record
\* are what its last operation left, and nothing else changed them.
Explained(d) ==
    \A r \in Record :
       \/ /\ Untouched(d, r, Len(d.ops))
          /\ d.rows[r] = None
          /\ d.index[r] = None
       \/ \E i \in Positions(d) :
             /\ LastOn(d, r, i, Len(d.ops))
             /\ d.rows[r] = LeftRow(d.ops[i].auth)
             /\ d.index[r] = LeftIndex(d.ops[i].auth)

\* Every operation found the version that its authority names.
Chained(d) ==
    \A i \in Positions(d) :
       LET a == d.ops[i].auth IN
       \/ Untouched(d, a.target, i - 1) /\ a.before = None
       \/ \E j \in Positions(d) :
             /\ LastOn(d, a.target, j, i - 1)
             /\ a.before = Left(d.ops[j].auth)

OncePerKey(d) ==
    \A i, j \in Positions(d) :
       d.ops[i].auth.key = d.ops[j].auth.key => i = j

FindsUpserted(d) ==
    \A r \in Record :
       r \in Found(d) <=> \E i \in Positions(d) :
                            /\ LastOn(d, r, i, Len(d.ops))
                            /\ d.ops[i].auth.kind = "upsert"

\* Whatever calls failed, were killed or lost to a power failure, the
\* database is what the operations with a stored receipt made of it, one per
\* idempotency key, each applied to the version its authority was given for;
\* a query finds exactly the records whose last operation is an upsert.
StoreIsHistory ==
    /\ Explained(db)
    /\ Chained(db)
    /\ OncePerKey(db)
    /\ FindsUpserted(db)

\* What a process was told stays true: a success (applied, replayed, found)
\* names a stored operation of exactly this request, a conflict or rejection
\* an operation of another request under the same key, unless a power
\* failure undid that commit.
ReceiptsTruthful ==
    \A p \in Process :
       /\ out[p] \in {"applied", "replay", "original"} =>
             Stored(db, req[p]) \/ req[p] \in lost
       /\ out[p] \in {"conflict", "rejected"} =>
             \E q \in Request \ {req[p]} :
                /\ q.auth.key = req[p].auth.key
                /\ Stored(db, q) \/ q \in lost

-----------------------------------------------------------------------------
(* The operations table implements the abstract log of AppendLog: each key *)
(* is appended at most once, and a power failure undoes the last commit at *)
(* most, and not even that once a later transaction is being committed.    *)

KeysOf(s) == [i \in 1 .. Len(s) |-> s[i].auth.key]

Abstract == INSTANCE AppendLog
            WITH Request <- Key, log <- KeysOf(db.ops),
                 secured <- Len(before.ops)

ImplementsLog == Abstract!Spec

=============================================================================
