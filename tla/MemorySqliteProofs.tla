------------------------ MODULE MemorySqliteProofs --------------------------
(***************************************************************************)
(* Theorems about MemorySqlite, for any number of processes, records and   *)
(* authorities, and any number of crashes and power failures.              *)
(***************************************************************************)
EXTENDS MemorySqlite, SequenceTheorems, TLAPS

\* What a request is made of.
LEMMA Requests ==
    ASSUME NEW q \in Request
    PROVE  /\ q.auth \in Authorities /\ q.auth \in Authority
           /\ q.auth.key \in Key /\ q.auth.target \in Record
           /\ q.auth.kind \in {"upsert", "invalidate", "tombstone", "delete"}
           /\ q.auth.version \in Version
           /\ q.auth.before \in Version \cup {None}
           /\ q.auth.kind # "upsert" => q.auth.before # None
BY SqliteAssumption DEF Request, Authority

\* The cases of a step, for proofs by cases.
LEMMA SqliteSteps ==
    ASSUME [Next]_vars
    PROVE  \/ \E p \in Process : Create(p) \/ CreateSchema(p) \/ Execute(p)
                                 \/ Crash(p)
           \/ \E p \in Process, q \in Request : Call(p, q) \/ LookUp(p, q)
           \/ PowerLoss
           \/ UNCHANGED vars
BY DEF Next

-----------------------------------------------------------------------------
(* The type.                                                               *)

LEMMA RowType ==
    ASSUME NEW d \in Database, NEW q \in Request, Fits(d, q.auth)
    PROVE  WithRow(d, q.auth) \in Database
<1> DEFINE a == q.auth
           t == q.auth.target
<1>1. /\ t \in Record /\ a.version \in Version
      /\ a.kind \in {"upsert", "invalidate", "tombstone", "delete"}
      /\ a.kind # "upsert" => a.before # None
  BY Requests
<1>2. /\ d.rows \in [Record -> Row \cup {None}]
      /\ d.index \in [Record -> Version \cup {None}]
      /\ d.ops \in Seq(Request) /\ d.stage \in {"absent", "empty", "ready"}
  BY DEF Database
<1>3. CASE a.kind = "upsert"
  <2>1. [version |-> a.version, state |-> "active"] \in Row
    BY <1>1 DEF Row
  <2> QED BY <1>1, <1>2, <1>3, <2>1 DEF WithRow, Database
<1>4. CASE a.kind # "upsert"
  <2>1. d.rows[t] \in Row
    BY <1>1, <1>2, <1>4 DEF Fits, VersionOf
  <2>2. EndState[a.kind] \in {"invalidated", "tombstoned", "deleted"}
    BY <1>1, <1>4 DEF EndState
  <2>3. [d.rows[t] EXCEPT !.state = EndState[a.kind]] \in Row
    BY <2>1, <2>2 DEF Row
  <2> QED BY <1>1, <1>2, <1>4, <2>3 DEF WithRow, Database
<1> QED BY <1>3, <1>4

LEMMA ReceiptType ==
    ASSUME NEW d \in Database, NEW q \in Request
    PROVE  WithReceipt(d, q) \in Database
<1>1. Append(d.ops, q) \in Seq(Request)
  BY DEF Database
<1> QED BY <1>1 DEF WithReceipt, Database

\* What every transaction knows of its draft.
DraftOK ==
    /\ writer = None => draft = db
    /\ writer # None => db.stage = "ready"
    /\ \A p \in Process : pc[p] \in Writing <=> writer = p
    /\ \A p \in Process : pc[p] = "begun" => draft = db
    /\ \A p \in Process : pc[p] \in {"written", "recorded", "synced"} =>
          /\ Under(db, req[p]) = {}
          /\ Fits(db, req[p].auth)
          /\ draft = IF pc[p] = "written" THEN WithRow(db, req[p].auth)
                     ELSE WithReceipt(WithRow(db, req[p].auth), req[p])
    /\ \A p \in Process : pc[p] = "creating" =>
          /\ db.stage = "empty"
          /\ \A q \in Process : pc[q] = "creating" => q = p

LEMMA TypeAndDraft ==
    ASSUME TypeOK, DraftOK, [Next]_vars
    PROVE  TypeOK' /\ DraftOK'
<1> USE DEF TypeOK, DraftOK, Goto, Return, Rollback, Writing, InCall
<1> USE SqliteAssumption
<1>1. ASSUME NEW p \in Process, Create(p) PROVE TypeOK' /\ DraftOK'
  <2>1. db' \in Database /\ draft' \in Database
    BY <1>1 DEF Create, Database
  <2>2. writer = None /\ \A q \in Process : pc[q] # "creating"
    BY <1>1 DEF Create
  <2> QED BY <1>1, <2>1, <2>2 DEF Create
<1>2. ASSUME NEW p \in Process, CreateSchema(p) PROVE TypeOK' /\ DraftOK'
  <2>1. db' \in Database /\ draft' \in Database
    BY <1>2 DEF CreateSchema, Database
  <2>2. writer = None
    BY <1>2 DEF CreateSchema
  <2> QED BY <1>2, <2>1, <2>2 DEF CreateSchema
<1>3. ASSUME NEW p \in Process, Begin(p) PROVE TypeOK' /\ DraftOK'
  BY <1>3 DEF Begin
<1>4. ASSUME NEW p \in Process, Known(p) PROVE TypeOK' /\ DraftOK'
  BY <1>4 DEF Known
<1>5. ASSUME NEW p \in Process, WriteRow(p) PROVE TypeOK' /\ DraftOK'
  <2>1. req[p] \in Request /\ draft = db /\ writer = p
    BY <1>5 DEF WriteRow
  <2>2. draft' \in Database
    BY <1>5, <2>1, RowType DEF WriteRow
  <2> QED BY <1>5, <2>1, <2>2 DEF WriteRow
<1>6. ASSUME NEW p \in Process, WriteReceipt(p) PROVE TypeOK' /\ DraftOK'
  <2>1. req[p] \in Request /\ writer = p
    BY <1>6 DEF WriteReceipt
  <2>2. draft' \in Database
    BY <1>6, <2>1, ReceiptType DEF WriteReceipt
  <2> QED BY <1>6, <2>1, <2>2 DEF WriteReceipt
<1>7. ASSUME NEW p \in Process, Commit(p) PROVE TypeOK' /\ DraftOK'
  <2>1. writer = p /\ db.stage = "ready" /\ \A q \in Process : pc[q] # "creating"
    BY <1>7 DEF Commit
  <2> QED BY <1>7, <2>1 DEF Commit
<1>8. ASSUME NEW p \in Process, SyncJournal(p) PROVE TypeOK' /\ DraftOK'
  BY <1>8 DEF SyncJournal
<1>9. ASSUME NEW p \in Process, Answer(p) PROVE TypeOK' /\ DraftOK'
  BY <1>9 DEF Answer
<1>10. ASSUME NEW p \in Process, Fail(p) PROVE TypeOK' /\ DraftOK'
  BY <1>10 DEF Fail
<1>11. ASSUME NEW p \in Process, Crash(p) PROVE TypeOK' /\ DraftOK'
  BY <1>11 DEF Crash
<1>12. ASSUME NEW p \in Process, NEW q \in Request, Call(p, q)
       PROVE  TypeOK' /\ DraftOK'
  BY <1>12 DEF Call
<1>13. ASSUME NEW p \in Process, NEW q \in Request, LookUp(p, q)
       PROVE  TypeOK' /\ DraftOK'
  BY <1>13 DEF LookUp
<1>14. ASSUME PowerLoss PROVE TypeOK' /\ DraftOK'
  BY <1>14 DEF PowerLoss
<1>15. CASE UNCHANGED vars
  BY <1>15 DEF vars
<1> QED BY SqliteSteps, <1>1, <1>2, <1>3, <1>4, <1>5, <1>6, <1>7, <1>9, <1>10,
           <1>11, <1>12, <1>13, <1>14, <1>15, <1>8 DEF Execute

LEMMA TypeInit ==
    ASSUME Init
    PROVE  TypeOK /\ DraftOK
<1>1. Absent \in Database
  BY DEF Absent, Database
<1> QED BY <1>1, SqliteAssumption
        DEF Init, TypeOK, DraftOK, InCall, Writing, Absent

\* Every execution of the adapter is of the declared types.
THEOREM SqliteTypes == Spec => []TypeOK
<1>1. Init => TypeOK /\ DraftOK
  BY TypeInit
<1>2. TypeOK /\ DraftOK /\ [Next]_vars => TypeOK' /\ DraftOK'
  BY TypeAndDraft
<1> QED BY <1>1, <1>2, PTL DEF Spec

-----------------------------------------------------------------------------
(* The history explains the store.                                         *)

Sound(d) == Explained(d) /\ Chained(d) /\ OncePerKey(d)

\* What one more operation leaves.
After(d, q) == WithReceipt(WithRow(d, q.auth), q)

\* The tables after one more operation.
LEMMA AfterTables ==
    ASSUME NEW d \in Database, NEW q \in Request, Fits(d, q.auth)
    PROVE  /\ After(d, q).ops = Append(d.ops, q)
           /\ After(d, q).rows[q.auth.target] = LeftRow(q.auth)
           /\ After(d, q).index[q.auth.target] = LeftIndex(q.auth)
           /\ \A r \in Record \ {q.auth.target} :
                 /\ After(d, q).rows[r] = d.rows[r]
                 /\ After(d, q).index[r] = d.index[r]
<1> DEFINE a == q.auth
           t == q.auth.target
<1>1. /\ t \in Record
      /\ a.kind # "upsert" => a.before # None
  BY Requests
<1>2. /\ d.rows \in [Record -> Row \cup {None}]
      /\ d.index \in [Record -> Version \cup {None}]
      /\ d = [stage |-> d.stage, rows |-> d.rows, index |-> d.index,
              ops |-> d.ops]
  BY DEF Database
<1>3. CASE a.kind = "upsert"
  BY <1>1, <1>2, <1>3
     DEF After, WithReceipt, WithRow, LeftRow, LeftIndex, Left
<1>4. CASE a.kind # "upsert"
  <2>1. d.rows[t] \in Row /\ d.rows[t].version = a.before
    BY <1>1, <1>2, <1>4 DEF Fits, VersionOf
  <2>2. [d.rows[t] EXCEPT !.state = EndState[a.kind]] = LeftRow(a)
    BY <2>1, <1>4 DEF Row, LeftRow, Left
  <2> QED BY <1>1, <1>2, <1>4, <2>2
          DEF After, WithReceipt, WithRow, LeftIndex
<1> QED BY <1>3, <1>4

LEMMA LeftRowType ==
    ASSUME NEW q \in Request
    PROVE  /\ LeftRow(q.auth) \in Row
           /\ LeftRow(q.auth) # None
           /\ LeftRow(q.auth).version = Left(q.auth)
<1>1. Left(q.auth) \in Version
  BY Requests DEF Left
<1>2. q.auth.kind # "upsert" =>
         EndState[q.auth.kind] \in {"invalidated", "tombstoned", "deleted"}
  BY Requests DEF EndState
<1> QED BY <1>1, <1>2, NoneAssumption DEF LeftRow, Row

\* An operation whose key is new and whose authority names the version that
\* is stored keeps the store explained by its history.
LEMMA AfterSound ==
    ASSUME NEW d \in Database, NEW q \in Request, Sound(d),
           Under(d, q) = {}, Fits(d, q.auth)
    PROVE  Sound(After(d, q))
<1> DEFINE e == After(d, q)
           n == Len(d.ops)
           t == q.auth.target
<1>1. /\ n \in Nat /\ Len(e.ops) = n + 1 /\ e.ops[n + 1] = q
      /\ \A i \in 1 .. n : e.ops[i] = d.ops[i] /\ d.ops[i] \in Request
  BY SMTT(40), AfterTables DEF Database
<1>2. t \in Record /\ q.auth.before \in Version \cup {None}
  BY Requests
<1> HIDE DEF e
<1>3. \A r : \A m \in 0 .. n :
         /\ Untouched(e, r, m) <=> Untouched(d, r, m)
         /\ \A i : LastOn(e, r, i, m) <=> LastOn(d, r, i, m)
  <2> SUFFICES ASSUME NEW r, NEW m \in 0 .. n
               PROVE  /\ Untouched(e, r, m) <=> Untouched(d, r, m)
                      /\ \A i : LastOn(e, r, i, m) <=> LastOn(d, r, i, m)
    OBVIOUS
  <2>1. \A i \in 1 .. m : e.ops[i] = d.ops[i]
    BY <1>1
  <2>2. \A i \in 1 .. m : \A j \in i + 1 .. m : j \in 1 .. m
    BY <1>1
  <2> QED BY <2>1, <2>2 DEF Untouched, LastOn
<1>4. Explained(e)
  <2> SUFFICES ASSUME NEW r \in Record
               PROVE  \/ /\ Untouched(e, r, n + 1)
                         /\ e.rows[r] = None
                         /\ e.index[r] = None
                      \/ \E i \in 1 .. n + 1 :
                            /\ LastOn(e, r, i, n + 1)
                            /\ e.rows[r] = LeftRow(e.ops[i].auth)
                            /\ e.index[r] = LeftIndex(e.ops[i].auth)
    BY <1>1 DEF Explained, Positions
  <2>1. CASE r = t
    <3>1. LastOn(e, r, n + 1, n + 1)
      BY <1>1, <2>1 DEF LastOn
    <3> QED BY <1>1, <2>1, <3>1, AfterTables DEF e
  <2>2. CASE r # t
    <3>1. e.rows[r] = d.rows[r] /\ e.index[r] = d.index[r]
      BY <2>2, AfterTables DEF e
    <3>2. Untouched(d, r, n) => Untouched(e, r, n + 1)
      BY <1>1, <2>2 DEF Untouched
    <3>3. \A i \in 1 .. n : LastOn(d, r, i, n) => LastOn(e, r, i, n + 1)
      <4> SUFFICES ASSUME NEW i \in 1 .. n, LastOn(d, r, i, n)
                   PROVE  LastOn(e, r, i, n + 1)
        OBVIOUS
      <4>1. \A j \in i + 1 .. n + 1 : j = n + 1 \/ j \in i + 1 .. n
        BY <1>1
      <4>2. \A j \in i + 1 .. n : e.ops[j] = d.ops[j]
        BY <1>1
      <4>3. i \in 1 .. n + 1 /\ e.ops[i] = d.ops[i]
        BY <1>1
      <4> QED BY <1>1, <2>2, <4>1, <4>2, <4>3 DEF LastOn
    <3>4. \/ Untouched(d, r, n) /\ d.rows[r] = None /\ d.index[r] = None
          \/ \E i \in 1 .. n : /\ LastOn(d, r, i, n)
                               /\ d.rows[r] = LeftRow(d.ops[i].auth)
                               /\ d.index[r] = LeftIndex(d.ops[i].auth)
      BY DEF Sound, Explained, Positions
    <3>5. CASE \E i \in 1 .. n : /\ LastOn(d, r, i, n)
                                 /\ d.rows[r] = LeftRow(d.ops[i].auth)
                                 /\ d.index[r] = LeftIndex(d.ops[i].auth)
      <4>1. PICK i \in 1 .. n : /\ LastOn(d, r, i, n)
                                /\ d.rows[r] = LeftRow(d.ops[i].auth)
                                /\ d.index[r] = LeftIndex(d.ops[i].auth)
        BY <3>5
      <4>2. i \in 1 .. n + 1 /\ e.ops[i] = d.ops[i]
        BY <1>1
      <4> QED BY <3>1, <3>3, <4>1, <4>2
    <3> QED BY <3>1, <3>2, <3>4, <3>5
  <2> QED BY <2>1, <2>2
<1>5. Chained(e)
  <2> SUFFICES ASSUME NEW i \in 1 .. n + 1
               PROVE  \/ /\ Untouched(e, e.ops[i].auth.target, i - 1)
                         /\ e.ops[i].auth.before = None
                      \/ \E j \in 1 .. n + 1 :
                            /\ LastOn(e, e.ops[i].auth.target, j, i - 1)
                            /\ e.ops[i].auth.before = Left(e.ops[j].auth)
    BY <1>1 DEF Chained, Positions
  <2>1. CASE i \in 1 .. n
    <3>1. e.ops[i] = d.ops[i] /\ i - 1 \in 0 .. n
      BY <1>1, <2>1
    <3> DEFINE a == d.ops[i].auth
    <3>2. CASE Untouched(d, a.target, i - 1) /\ a.before = None
      BY <1>3, <3>1, <3>2
    <3>3. CASE \E j \in 1 .. n : /\ LastOn(d, a.target, j, i - 1)
                                 /\ a.before = Left(d.ops[j].auth)
      <4>1. PICK j \in 1 .. n : /\ LastOn(d, a.target, j, i - 1)
                                /\ a.before = Left(d.ops[j].auth)
        BY <3>3
      <4>2. j \in 1 .. n + 1 /\ e.ops[j] = d.ops[j]
        BY <1>1
      <4>3. LastOn(e, a.target, j, i - 1)
        BY <1>3, <3>1, <4>1
      <4> QED BY <3>1, <4>1, <4>2, <4>3
    <3>4. \/ Untouched(d, a.target, i - 1) /\ a.before = None
          \/ \E j \in 1 .. n : /\ LastOn(d, a.target, j, i - 1)
                               /\ a.before = Left(d.ops[j].auth)
      BY <2>1 DEF Sound, Chained, Positions
    <3> QED BY <3>2, <3>3, <3>4
  <2>2. CASE i = n + 1
    <3>1. VersionOf(d, t) = q.auth.before
      BY DEF Fits
    <3>2. CASE Untouched(d, t, n) /\ d.rows[t] = None
      BY <1>1, <1>3, <2>2, <3>1, <3>2 DEF VersionOf
    <3>3. CASE \E j \in 1 .. n : /\ LastOn(d, t, j, n)
                                 /\ d.rows[t] = LeftRow(d.ops[j].auth)
      <4>1. PICK j \in 1 .. n : /\ LastOn(d, t, j, n)
                                /\ d.rows[t] = LeftRow(d.ops[j].auth)
        BY <3>3
      <4>2. q.auth.before = Left(d.ops[j].auth)
        BY <1>1, <3>1, <4>1, LeftRowType DEF VersionOf
      <4>3. /\ n + 1 - 1 = n /\ n \in 0 .. n /\ j \in 1 .. n + 1
            /\ e.ops[j] = d.ops[j] /\ e.ops[i] = q
        BY <1>1, <2>2
      <4>4. LastOn(e, t, j, n)
        BY <1>3, <4>1, <4>3
      <4> QED BY <2>2, <4>2, <4>3, <4>4
    <3> QED BY <1>2, <3>2, <3>3 DEF Sound, Explained, Positions
  <2> QED BY <2>1, <2>2
<1>6. OncePerKey(e)
  <2>1. \A i \in 1 .. n : d.ops[i].auth.key # q.auth.key
    BY DEF Under, Positions
  <2>2. \A i, j \in 1 .. n : d.ops[i].auth.key = d.ops[j].auth.key => i = j
    BY DEF Sound, OncePerKey, Positions
  <2>3. \A i \in 1 .. n + 1 : i \in 1 .. n \/ i = n + 1
    BY <1>1
  <2> QED BY <1>1, <2>1, <2>2, <2>3 DEF OncePerKey, Positions
<1> QED BY <1>4, <1>5, <1>6 DEF Sound, e

LEMMA SameTablesSound ==
    ASSUME NEW d, NEW e, Sound(d),
           e.ops = d.ops, e.rows = d.rows, e.index = d.index
    PROVE  Sound(e)
BY DEF Sound, Explained, Chained, OncePerKey, Untouched, LastOn, Positions

\* What a step does to the stored tables.
LEMMA TableSteps ==
    ASSUME TypeOK, DraftOK, [Next]_vars
    PROVE  \/ /\ db'.ops = db.ops /\ db'.rows = db.rows
              /\ db'.index = db.index
              /\ before' = before \/ before' = db
              /\ lost' = lost
           \/ /\ \E p \in Process :
                    /\ Commit(p)
                    /\ req[p] \in Request
                    /\ Under(db, req[p]) = {}
                    /\ Fits(db, req[p].auth)
                    /\ db' = After(db, req[p])
              /\ before' = before /\ lost' = lost
           \/ PowerLoss
<1>1. ASSUME NEW p \in Process, Create(p) \/ CreateSchema(p)
      PROVE  /\ db'.ops = db.ops /\ db'.rows = db.rows
             /\ db'.index = db.index
             /\ before' = before \/ before' = db
             /\ lost' = lost
  BY <1>1 DEF Create, CreateSchema, TypeOK, Database
<1>2. ASSUME NEW p \in Process, Commit(p)
      PROVE  /\ req[p] \in Request
             /\ Under(db, req[p]) = {}
             /\ Fits(db, req[p].auth)
             /\ db' = After(db, req[p])
             /\ before' = before /\ lost' = lost
  BY <1>2 DEF Commit, TypeOK, DraftOK, InCall, After
<1>3. ASSUME NEW p \in Process, Begin(p) \/ Known(p) \/ WriteRow(p)
                  \/ WriteReceipt(p) \/ SyncJournal(p) \/ Answer(p)
                  \/ Fail(p) \/ Crash(p)
      PROVE  db' = db /\ (before' = before \/ before' = db) /\ lost' = lost
  BY <1>3 DEF Begin, Known, WriteRow, WriteReceipt, SyncJournal, Answer, Fail,
              Crash
<1>4. ASSUME NEW p \in Process, NEW q \in Request, Call(p, q) \/ LookUp(p, q)
      PROVE  db' = db /\ before' = before /\ lost' = lost
  BY <1>4 DEF Call, LookUp
<1> QED BY SqliteSteps, <1>1, <1>2, <1>3, <1>4 DEF Execute, vars

\* What a power failure brings back is a prefix of the history.
PrefixOK ==
    /\ Len(before.ops) =< Len(db.ops)
    /\ before.ops = SubSeq(db.ops, 1, Len(before.ops))

StoreInv == Sound(db) /\ Sound(before) /\ PrefixOK

LEMMA StoreStep ==
    ASSUME TypeOK, DraftOK, StoreInv, [Next]_vars
    PROVE  StoreInv'
<1>0. /\ db \in Database /\ before \in Database
      /\ db.ops \in Seq(Request) /\ before.ops \in Seq(Request)
      /\ Len(db.ops) \in Nat /\ Len(before.ops) \in Nat
  BY DEF TypeOK, Database
<1>1. CASE /\ db'.ops = db.ops /\ db'.rows = db.rows
           /\ db'.index = db.index
           /\ before' = before \/ before' = db
  <2>1. Sound(db') /\ Sound(before')
    BY <1>1, SameTablesSound DEF StoreInv
  <2>2. PrefixOK'
    BY <1>0, <1>1 DEF StoreInv, PrefixOK
  <2> QED BY <2>1, <2>2 DEF StoreInv
<1>2. ASSUME NEW q \in Request, Under(db, q) = {}, Fits(db, q.auth),
             db' = After(db, q), before' = before
      PROVE  StoreInv'
  <2>1. Sound(db') /\ Sound(before')
    BY <1>0, <1>2, AfterSound DEF StoreInv
  <2>2. db'.ops = Append(db.ops, q)
    BY <1>0, <1>2, AfterTables
  <2>3. PrefixOK'
    BY <1>0, <1>2, <2>2 DEF StoreInv, PrefixOK
  <2> QED BY <2>1, <2>3 DEF StoreInv
<1>3. CASE PowerLoss
  <2>1. (db' = db \/ db' = before) /\ before' = db'
    BY <1>3 DEF PowerLoss
  <2> QED BY <1>0, <2>1 DEF StoreInv, PrefixOK
<1> QED BY TableSteps, <1>1, <1>2, <1>3

LEMMA StoreInit ==
    ASSUME Init
    PROVE  StoreInv
BY DEF Init, Absent, StoreInv, Sound, Explained, Chained, OncePerKey,
       Untouched, LastOn, Positions, PrefixOK

\* The index and the rows agree on what a query finds.
LEMMA ExplainedFinds ==
    ASSUME TypeOK, Explained(db)
    PROVE  FindsUpserted(db)
<1> SUFFICES ASSUME NEW r \in Record
             PROVE  r \in Found(db) <=> \E i \in Positions(db) :
                                          /\ LastOn(db, r, i, Len(db.ops))
                                          /\ db.ops[i].auth.kind = "upsert"
  BY DEF FindsUpserted
<1>0. Len(db.ops) \in Nat /\ \A i \in Positions(db) : db.ops[i] \in Request
  BY DEF TypeOK, Database, Positions
<1>1. CASE /\ Untouched(db, r, Len(db.ops))
           /\ db.rows[r] = None
           /\ db.index[r] = None
  BY <1>1 DEF Found, Untouched, LastOn
<1>2. ASSUME NEW i \in Positions(db), LastOn(db, r, i, Len(db.ops)),
             db.rows[r] = LeftRow(db.ops[i].auth),
             db.index[r] = LeftIndex(db.ops[i].auth)
      PROVE  r \in Found(db) <=> \E j \in Positions(db) :
                                  /\ LastOn(db, r, j, Len(db.ops))
                                  /\ db.ops[j].auth.kind = "upsert"
  <2> DEFINE a == db.ops[i].auth
  <2>1. \A j \in Positions(db) : LastOn(db, r, j, Len(db.ops)) => j = i
    BY <1>0, <1>2 DEF LastOn, Positions
  <2>2. a.kind = "upsert" => r \in Found(db)
    <3>1. a.version # None /\ LeftRow(a) # None
      BY <1>0, Requests, LeftRowType, SqliteAssumption
    <3> QED BY <1>2, <3>1 DEF Found, LeftRow, LeftIndex
  <2>3. a.kind # "upsert" => r \notin Found(db)
    BY <1>2 DEF Found, LeftIndex
  <2> QED BY <1>2, <2>1, <2>2, <2>3
<1> QED BY <1>1, <1>2 DEF Explained

\* Whatever calls failed or were killed and whatever commit a power failure
\* undid, rows, index and stored receipts agree: one operation per key, each
\* on the version its authority names.
THEOREM SqliteHistory == Spec => []StoreIsHistory
<1>1. Init => TypeOK /\ DraftOK /\ StoreInv
  BY StoreInit, TypeInit
<1>2. TypeOK /\ DraftOK /\ StoreInv /\ [Next]_vars
         => TypeOK' /\ DraftOK' /\ StoreInv'
  BY TypeAndDraft, StoreStep
<1>3. TypeOK /\ DraftOK /\ StoreInv => StoreIsHistory
  BY ExplainedFinds DEF StoreInv, Sound, StoreIsHistory
<1> QED BY <1>1, <1>2, <1>3, PTL DEF Spec

-----------------------------------------------------------------------------
(* What processes were told.                                               *)

Kept(q) == Stored(db, q) \/ q \in lost

Told(p) ==
    /\ out[p] \in {"applied", "replay", "original"} => Kept(req[p])
    /\ out[p] \in {"conflict", "rejected"} =>
          \E q \in Request \ {req[p]} :
             q.auth.key = req[p].auth.key /\ Kept(q)
    /\ pc[p] = "committed" => Stored(db, req[p])

ToldInv == \A p \in Process : Told(p)

\* No step forgets a request that was stored, a power failure included; and
\* all but a power failure leave it where it is.
LEMMA KeptStays ==
    ASSUME TypeOK, DraftOK, [Next]_vars
    PROVE  /\ \A q \in Request : Kept(q) => Kept(q)'
           /\ \A q \in Request : Stored(db, q) => Stored(db, q)' \/ PowerLoss
<1>0. db \in Database /\ db.ops \in Seq(Request)
  BY DEF TypeOK, Database
<1>1. CASE db'.ops = db.ops /\ lost' = lost
  BY <1>1 DEF Kept, Stored, Positions
<1>2. ASSUME NEW r \in Request, Fits(db, r.auth), db' = After(db, r),
             lost' = lost
      PROVE  \A q \in Request : /\ Kept(q) => Kept(q)'
                                /\ Stored(db, q) => Stored(db, q)'
  <2>1. db'.ops = Append(db.ops, r)
    BY <1>0, <1>2, AfterTables
  <2>2. /\ Len(db'.ops) = Len(db.ops) + 1
        /\ \A i \in 1 .. Len(db.ops) :
              i \in 1 .. Len(db'.ops) /\ db'.ops[i] = db.ops[i]
    BY <1>0, <2>1
  <2> QED BY <1>2, <2>2 DEF Kept, Stored, Positions
<1>3. CASE PowerLoss
  BY <1>3 DEF PowerLoss, Kept, Stored, Positions
<1> QED BY TableSteps, <1>1, <1>2, <1>3

\* What the table says of a known key.
LEMMA UnderFinds ==
    ASSUME NEW d \in Database, NEW q \in Request, Under(d, q) # {}
    PROVE  /\ Same(d, q) => Stored(d, q)
           /\ ~ Same(d, q) => \E r \in Request \ {q} :
                               r.auth.key = q.auth.key /\ Stored(d, r)
<1>1. PICK i \in Positions(d) : d.ops[i].auth.key = q.auth.key
  BY DEF Under
<1>2. d.ops[i] \in Request
  BY <1>1 DEF Database, Positions
<1>3. i \in Under(d, q)
  BY <1>1 DEF Under
<1> QED BY <1>1, <1>2, <1>3 DEF Same, Stored, Under

LEMMA ToldStep ==
    ASSUME TypeOK, DraftOK, ToldInv, [Next]_vars
    PROVE  ToldInv'
<1> USE DEF TypeOK, InCall, Goto, Return
<1>0. /\ \A q \in Request : Kept(q) => Kept(q)'
      /\ \A q \in Request : Stored(db, q) => Stored(db, q)' \/ PowerLoss
  BY KeptStays
<1>1. ASSUME NEW p \in Process, out'[p] = out[p], req'[p] = req[p],
             pc'[p] = "committed" => pc[p] = "committed"
      PROVE  Told(p)'
  <2>1. out[p] # "none" \/ pc[p] = "committed" => req[p] \in Request
    OBVIOUS
  <2>2. pc'[p] = "committed" => ~ PowerLoss
    BY DEF PowerLoss
  <2>3. out[p] \in {"applied", "replay", "original", "conflict", "rejected"}
           => req[p] \in Request
    OBVIOUS
  <2> QED BY <1>0, <1>1, <2>1, <2>2, <2>3 DEF ToldInv, Told
\* The process that steps, and what is left to show of it.
<1>2. ASSUME NEW p \in Process, Told(p)',
             \A q \in Process \ {p} :
                out'[q] = out[q] /\ req'[q] = req[q] /\ pc'[q] = pc[q]
      PROVE  ToldInv'
  BY <1>1, <1>2 DEF ToldInv
<1>3. ASSUME NEW p \in Process,
             \/ Create(p) \/ CreateSchema(p) \/ Begin(p) \/ WriteRow(p)
             \/ WriteReceipt(p) \/ SyncJournal(p) \/ Crash(p)
      PROVE  ToldInv'
  BY <1>1, <1>3
     DEF Create, CreateSchema, Begin, WriteRow, WriteReceipt, SyncJournal,
         Crash, ToldInv
<1>4. ASSUME NEW p \in Process, Known(p) PROVE ToldInv'
  <2>1. req[p] \in Request /\ draft = db /\ Under(db, req[p]) # {}
    BY <1>4 DEF Known, DraftOK
  <2>2. /\ Same(db, req[p]) => Stored(db, req[p])
        /\ ~ Same(db, req[p]) => \E r \in Request \ {req[p]} :
              r.auth.key = req[p].auth.key /\ Stored(db, r)
    BY <2>1, UnderFinds
  <2>3. /\ req' = req /\ pc'[p] = "idle"
        /\ out'[p] = IF Same(db, req[p]) THEN "replay" ELSE "conflict"
    BY <1>4, <2>1 DEF Known
  <2>4. \A r \in Request : Stored(db, r) => Kept(r)'
    BY <1>0 DEF Kept
  <2>5. Told(p)'
    BY <2>1, <2>2, <2>3, <2>4 DEF Told
  <2> QED BY <1>2, <1>4, <2>5 DEF Known
<1>5. ASSUME NEW p \in Process, Commit(p) PROVE ToldInv'
  <2>1. /\ req[p] \in Request /\ db \in Database
        /\ Fits(db, req[p].auth) /\ db' = After(db, req[p])
    BY <1>5 DEF Commit, DraftOK, After
  <2>2. db'.ops = Append(db.ops, req[p]) /\ db.ops \in Seq(Request)
    BY SMTT(40), <2>1, AfterTables DEF Database
  <2>3. Stored(db', req[p])
    BY <2>1, <2>2 DEF Stored, Positions
  <2>4. out' = out /\ req' = req /\ pc[p] # "committed"
    BY <1>5 DEF Commit
  <2>5. out[p] # "none" => Told(p)'
    BY <1>0, <2>1, <2>3, <2>4 DEF ToldInv, Told, Stored, Positions
  <2>6. out[p] = "none" => Told(p)'
    BY <2>3, <2>4 DEF Told, Stored, Positions
  <2> QED BY <1>2, <1>5, <2>5, <2>6 DEF Commit
<1>6. ASSUME NEW p \in Process, Answer(p) PROVE ToldInv'
  <2>1. Stored(db, req[p])
    BY <1>6 DEF Answer, ToldInv, Told
  <2>2. Kept(req[p])'
    BY <1>6, <2>1 DEF Answer, Kept, Stored, Positions
  <2>3. Told(p)'
    BY <1>6, <2>2 DEF Answer, Told
  <2> QED BY <1>2, <1>6, <2>3 DEF Answer
<1>7. ASSUME NEW p \in Process, Fail(p) PROVE ToldInv'
  <2>1. Told(p)'
    BY <1>7 DEF Fail, Told
  <2> QED BY <1>2, <1>7, <2>1 DEF Fail
<1>8. ASSUME NEW p \in Process, NEW q \in Request, Call(p, q) PROVE ToldInv'
  <2>1. Told(p)'
    BY <1>8 DEF Call, Told
  <2> QED BY <1>2, <1>8, <2>1 DEF Call
<1>9. ASSUME NEW p \in Process, NEW q \in Request, LookUp(p, q)
      PROVE  ToldInv'
  <2>1. /\ req'[p] = q /\ pc'[p] = "idle" /\ db \in Database
        /\ out'[p] = IF Under(db, q) = {} THEN "unavailable"
                     ELSE IF Same(db, q) THEN "original" ELSE "rejected"
    BY <1>9 DEF LookUp
  <2>2. \A r \in Request : Stored(db, r) => Kept(r)'
    BY <1>0 DEF Kept
  <2>3. Told(p)'
    BY <2>1, <2>2, UnderFinds DEF Told
  <2> QED BY <1>2, <1>9, <2>3 DEF LookUp
<1>10. CASE PowerLoss
  BY <1>1, <1>10 DEF PowerLoss, ToldInv
<1>11. CASE UNCHANGED vars
  BY <1>1, <1>11 DEF vars, ToldInv
<1> QED BY SqliteSteps, <1>3, <1>4, <1>5, <1>6, <1>7, <1>8, <1>9, <1>10, <1>11
        DEF Execute

\* A success names a stored operation of exactly this request and a conflict
\* one of another request under its key, unless a power failure undid it.
THEOREM SqliteReceipts == Spec => []ReceiptsTruthful
<1>1. Init => TypeOK /\ DraftOK /\ ToldInv
  BY TypeInit DEF Init, ToldInv, Told
<1>2. TypeOK /\ DraftOK /\ ToldInv /\ [Next]_vars
         => TypeOK' /\ DraftOK' /\ ToldInv'
  BY TypeAndDraft, ToldStep
<1>3. ToldInv => ReceiptsTruthful
  BY DEF ToldInv, Told, Kept, ReceiptsTruthful
<1> QED BY <1>1, <1>2, <1>3, PTL DEF Spec

-----------------------------------------------------------------------------
(* The refinement.                                                         *)

LEMMA KeyLog ==
    ASSUME TypeOK
    PROVE  /\ KeysOf(db.ops) \in Seq(Key) /\ Len(KeysOf(db.ops)) = Len(db.ops)
           /\ Len(db.ops) \in Nat /\ Len(before.ops) \in Nat
           /\ \A i \in 1 .. Len(db.ops) :
                 KeysOf(db.ops)[i] = db.ops[i].auth.key
<1>1. /\ db.ops \in Seq(Request) /\ before.ops \in Seq(Request)
      /\ \A i \in 1 .. Len(db.ops) : db.ops[i].auth.key \in Key
  <2>1. db.ops \in Seq(Request) /\ before.ops \in Seq(Request)
    BY DEF TypeOK, Database
  <2> QED BY <2>1, Requests
<1> QED BY <1>1 DEF KeysOf

\* Every step of the database is one of the abstract log, or none.
LEMMA LogStep ==
    ASSUME TypeOK, TypeOK', DraftOK, StoreInv, [Next]_vars
    PROVE  [Abstract!Next]_(Abstract!vars)
<1> DEFINE n == Len(db.ops)
           m == Len(before.ops)
<1>0. n \in Nat /\ m \in Nat /\ m =< n /\ Len(KeysOf(db.ops)) = n
      /\ db.ops \in Seq(Request)
  BY KeyLog DEF StoreInv, PrefixOK, TypeOK, Database
<1>1. CASE db'.ops = db.ops /\ before' = before
  BY <1>1 DEF Abstract!vars
<1>2. CASE db'.ops = db.ops /\ before' = db
  <2>1. n \in m .. Len(KeysOf(db.ops)) /\ n \in 0 .. Len(KeysOf(db.ops))
    BY <1>0
  <2>2. Abstract!Secure(n)
    BY <1>2, <2>1 DEF Abstract!Secure
  <2> QED BY <2>1, <2>2 DEF Abstract!Next
<1>3. ASSUME NEW q \in Request, Under(db, q) = {}, Fits(db, q.auth),
             db' = After(db, q), before' = before
      PROVE  Abstract!Next
  <2>1. db'.ops = Append(db.ops, q)
    BY <1>3, AfterTables DEF TypeOK
  <2>2. KeysOf(db'.ops) = Append(KeysOf(db.ops), q.auth.key)
    <3>1. /\ Len(db'.ops) = n + 1 /\ db'.ops[n + 1] = q
          /\ \A i \in 1 .. n : db'.ops[i] = db.ops[i]
      BY <1>0, <2>1
    <3>2. /\ Len(Append(KeysOf(db.ops), q.auth.key)) = n + 1
          /\ Append(KeysOf(db.ops), q.auth.key)[n + 1] = q.auth.key
          /\ \A i \in 1 .. n : Append(KeysOf(db.ops), q.auth.key)[i]
                               = db.ops[i].auth.key
          /\ Append(KeysOf(db.ops), q.auth.key) \in Seq(Key)
      BY <1>0, KeyLog, Requests
    <3>3. KeysOf(db'.ops) \in Seq(Key) /\ Len(KeysOf(db'.ops)) = n + 1
          /\ \A i \in 1 .. n + 1 : KeysOf(db'.ops)[i] = db'.ops[i].auth.key
      <4>1. \A i \in 1 .. n + 1 : db'.ops[i].auth.key \in Key
        BY <3>1, Requests DEF TypeOK, Database
      <4> QED BY <1>0, <3>1, <4>1 DEF KeysOf
    <3>4. \A i \in 1 .. n + 1 : i \in 1 .. n \/ i = n + 1
      BY <1>0
    <3>5. \A i \in 1 .. n + 1 :
             KeysOf(db'.ops)[i] = Append(KeysOf(db.ops), q.auth.key)[i]
      BY <3>1, <3>2, <3>3, <3>4
    <3> QED BY SMTT(40), <1>0, <3>2, <3>3, <3>5, SeqEqual
  <2>3. ~ Abstract!Contains(q.auth.key)
    BY <1>0, <1>3, KeyLog DEF Abstract!Contains, Under, Positions
  <2>4. Abstract!AppendRequest(q.auth.key)
    BY <1>3, <2>2, <2>3 DEF Abstract!AppendRequest
  <2> QED BY <2>4, Requests DEF Abstract!Next
<1>4. CASE PowerLoss
  <2>1. PICK k \in m .. n : /\ KeysOf(db'.ops) = SubSeq(KeysOf(db.ops), 1, k)
                            /\ Len(before'.ops) = k
    <3>1. CASE db' = db
      <4>1. KeysOf(db.ops) = SubSeq(KeysOf(db.ops), 1, n)
        BY <1>0, KeyLog
      <4> QED BY <1>0, <1>4, <3>1, <4>1 DEF PowerLoss
    <3>2. CASE db' = before
      <4>1. KeysOf(before.ops) = SubSeq(KeysOf(db.ops), 1, m)
        BY <1>0, KeyLog DEF StoreInv, PrefixOK, KeysOf
      <4> QED BY <1>0, <1>4, <3>2, <4>1 DEF PowerLoss
    <3> QED BY <1>4, <3>1, <3>2 DEF PowerLoss
  <2>2. k \in 0 .. n /\ Abstract!Lose(k)
    BY <1>0, <2>1 DEF Abstract!Lose
  <2> QED BY <1>0, <2>2 DEF Abstract!Next
<1> QED BY TableSteps, <1>1, <1>2, <1>3, <1>4

\* The operations table implements the abstract log: a key is appended at
\* most once, and only a commit that nothing followed can be undone.
THEOREM SqliteImplementsLog == Spec => ImplementsLog
<1>1. Init => Abstract!Init
  BY DEF Init, Absent, Abstract!Init, KeysOf
<1>2. Init => TypeOK /\ DraftOK /\ StoreInv
  BY StoreInit, TypeInit
<1>3. TypeOK /\ DraftOK /\ StoreInv /\ [Next]_vars
         => /\ TypeOK' /\ DraftOK' /\ StoreInv'
            /\ [Abstract!Next]_(Abstract!vars)
  BY TypeAndDraft, StoreStep, LogStep
<1> QED BY <1>1, <1>2, <1>3, PTL DEF Spec, ImplementsLog, Abstract!Spec

=============================================================================
