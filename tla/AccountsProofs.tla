---------------------------- MODULE AccountsProofs ----------------------------
(***************************************************************************)
(* The accounts, proved for any number of requests and accounts, with or   *)
(* without a replica: limits fit their accounts, balances are what was     *)
(* posted, and foreign accounts are not found.                             *)
(***************************************************************************)
EXTENDS Accounts, FiniteSetTheorems, SequenceTheorems, TLAPS

-----------------------------------------------------------------------------
(***************************************************************************)
(* The inductive invariant.                                                *)
(***************************************************************************)

\* The row is a version of the one account a has: its type and its owner
\* never change (account.go:250-258 does not write them).
Known(a, row) ==
  /\ accounts[a] # None
  /\ row.type = accounts[a].type
  /\ row.user = accounts[a].user
  /\ LimitFits(row.type, row.limit)

\* The table, the replica and the stream hold versions of the same rows.
Versions ==
  /\ \A a \in IDs : accounts[a] # None => Known(a, accounts[a])
  /\ \A a \in IDs : replica[a] # None => Known(a, replica[a])
  /\ \A i \in 1 .. Len(wal) : Known(wal[i].id, wal[i].row)

\* What a request at a step knows of its account.
StageOf(p) ==
  LET in == req[p]
  IN  /\ pc[p] \in {"idle", "insert"} /\ in.op = "create" => accounts[p] = None
      /\ pc[p] = "insert" =>
           /\ in.op = "create"
           /\ entity[p] # None /\ entity[p].balance = 0
           /\ LimitFits(entity[p].type, entity[p].limit)
      /\ pc[p] \in PCs \ {"idle", "insert", "done"} => in.op # "create"
      /\ pc[p] \in {"apply", "write"} =>
           in.op = "update" /\ entity[p] # None /\ Known(in.id, entity[p])
      /\ pc[p] \in {"post", "commit"} => in.op = "post" /\ accounts[in.id] # None
      /\ pc[p] = "delete" => in.op = "delete"
      /\ pc[p] = "commit" => rowLock[in.id] = p /\ locked[p] = accounts[in.id].balance
      /\ result[p] = "ok" => pc[p] = "done"
      /\ result[p] = "ok" /\ in.op = "post" => p \in statements
      /\ p \in statements => /\ in.op = "post" /\ pc[p] = "done"
                             /\ accounts[in.id] # None

Stages == \A p \in Requests : StageOf(p)

\* What the fields of an input are, by operation.
LEMMA InputFields ==
  ASSUME TypeOK, NEW p \in Requests
  PROVE  /\ p \in IDs
         /\ req[p].op = "create" =>
              req[p].user \in Users /\ req[p].name \in Names
         /\ req[p].op # "create" => req[p].id \in IDs
         /\ req[p].op = "update" =>
              req[p].name \in Names \cup {None} /\ req[p].limit \in Nat \cup {None}
         /\ req[p].op \in {"create", "update", "get", "delete", "post"}
  <1>1. req[p] \in Input
    BY InputsAssumption DEF TypeOK
  <1> QED
    BY <1>1 DEF Input, CreateInput, UpdateInput, OtherInput, IDs

-----------------------------------------------------------------------------
(***************************************************************************)
(* What a step may change.                                                 *)
(***************************************************************************)

StepOf(p) ==
  \/ PrepareCreate(p) \/ Insert(p) \/ Start(p) \/ FindByID(p)
  \/ ApplyUpdate(p) \/ Update(p) \/ Delete(p)
  \/ LockRow(p) \/ CommitPosting(p) \/ Fail(p)

\* A step of one request moves no other.
LEMMA StepIsOwn ==
  ASSUME TypeOK, NEW p \in Requests, StepOf(p), NEW q \in Requests, q # p
  PROVE  /\ pc'[q] = pc[q]
         /\ result'[q] = result[q]
         /\ entity'[q] = entity[q]
         /\ locked'[q] = locked[q]
         /\ q \in statements' <=> q \in statements
  <1>1. /\ entity'[q] = entity[q] /\ locked'[q] = locked[q]
        /\ q \in statements' <=> q \in statements
    BY DEF StepOf, PrepareCreate, Insert, Start, FindByID, ApplyUpdate, Update, Delete,
           LockRow, CommitPosting, Fail, TypeOK
  <1>2. (\E s : Goto(p, s)) \/ (\E w : Reply(p, w))
    BY DEF StepOf, PrepareCreate, Insert, Start, FindByID, ApplyUpdate, Update, Delete,
           LockRow, CommitPosting, Fail, Executed
  <1> QED
    BY <1>1, <1>2 DEF Goto, Reply, TypeOK

\* The steps that are no request's, and what the input is, after any step.
LEMMA OtherSteps ==
  ASSUME [Next]_vars
  PROVE  /\ req' = req
         /\ \/ \E p \in Requests : StepOf(p) /\ UNCHANGED replica
            \/ UNCHANGED <<accounts, rowLock, statements, pc, entity, locked, result>>
  <1>1. ASSUME NEW p \in Requests, StepOf(p) PROVE UNCHANGED <<req, replica>>
    BY <1>1 DEF StepOf, PrepareCreate, Insert, Start, FindByID, ApplyUpdate, Update, Delete,
                LockRow, CommitPosting, Fail
  <1>2. ASSUME Replicate \/ Quiescent \/ UNCHANGED vars
        PROVE  UNCHANGED <<accounts, rowLock, statements, pc, req, entity, locked, result>>
    BY <1>2 DEF Replicate, Quiescent, vars
  <1>3. (\E p \in Requests : StepOf(p)) \/ Replicate \/ Quiescent \/ UNCHANGED vars
    BY Zenon DEF Next, StepOf
  <1> QED
    BY <1>1, <1>2, <1>3

\* The copy an update writes fits: nothing but its name and limit differ.
LEMMA ApplyType ==
  ASSUME TypeOK, Stages, NEW p \in Requests, ApplyUpdate(p), pc'[p] = "write"
  PROVE  /\ entity'[p] \in Row
         /\ entity'[p].type = entity[p].type
         /\ entity'[p].user = entity[p].user
         /\ LimitFits(entity'[p].type, entity'[p].limit)
  <1>1. /\ req[p].op = "update"
        /\ entity[p] \in Row
        /\ LimitFits(entity[p].type, entity[p].limit)
    BY DEF ApplyUpdate, Stages, StageOf, Known, TypeOK
  <1>2. /\ req[p].name \in Names \cup {None} /\ req[p].limit \in Nat \cup {None}
    BY <1>1, InputFields
  <1>3. \/ req[p].limit = None
        \/ LimitFits(entity[p].type, req[p].limit)
    BY <1>1 DEF ApplyUpdate, Reply, Row, TypeOK
  <1>4. entity'[p] =
          [entity[p] EXCEPT !.name  = IF req[p].name = None THEN @ ELSE req[p].name,
                            !.limit = IF req[p].limit = None THEN @ ELSE req[p].limit]
    BY DEF ApplyUpdate, Reply, TypeOK
  <1>5. req[p].limit # None => req[p].limit \in 1 .. MaxLimit
    BY <1>2, <1>3, DistinctAssumption DEF LimitFits
  <1> QED
    BY <1>1, <1>2, <1>3, <1>4, <1>5 DEF Row

\* The account a create is about to insert is one, with the limit it demands.
LEMMA CreateType ==
  ASSUME TypeOK, NEW p \in Requests, PrepareCreate(p), pc'[p] = "insert"
  PROVE  /\ entity'[p] \in Row /\ result' = result
         /\ entity' = [entity EXCEPT ![p] = entity'[p]]
         /\ entity'[p].balance = 0
         /\ LimitFits(entity'[p].type, entity'[p].limit)
  <1>1. /\ req[p].op = "create" /\ req[p].type \in AccountTypes
        /\ LimitFits(req[p].type, req[p].limit)
        /\ entity' = [entity EXCEPT ![p] =
             [user |-> req[p].user, type |-> req[p].type, name |-> req[p].name,
              limit |-> req[p].limit, balance |-> 0, active |-> TRUE]]
        /\ result' = result
    BY DEF PrepareCreate, Goto, Reply, TypeOK
  <1>2. req[p].limit \in (1 .. MaxLimit) \cup {None}
    BY <1>1 DEF LimitFits
  <1>3. [user |-> req[p].user, type |-> req[p].type, name |-> req[p].name,
         limit |-> req[p].limit, balance |-> 0, active |-> TRUE] \in Row
    BY <1>1, <1>2, InputFields DEF Row
  <1> QED
    BY <1>1, <1>3 DEF TypeOK

\* What a step writes is a version of the row, or a new row.
LEMMA Writes ==
  ASSUME TypeOK, Stages, Versions, NEW p \in Requests, StepOf(p)
  PROVE  \/ UNCHANGED <<accounts, wal>>
         \/ \E a \in IDs, row \in Row :
              /\ Write(a, row)
              /\ LimitFits(row.type, row.limit)
              /\ accounts[a] # None =>
                   row.type = accounts[a].type /\ row.user = accounts[a].user
  <1>1. CASE Insert(p)
    <2>1. entity[p] \in Row /\ accounts[p] = None /\ p \in IDs
      BY <1>1, InputFields DEF Insert, Stages, StageOf, TypeOK
    <2> QED
      BY <1>1, <2>1 DEF Insert, Stages, StageOf
  <1>2. CASE Update(p)
    <2>1. /\ req[p].op = "update" /\ req[p].id \in IDs
          /\ entity[p] \in Row /\ Known(req[p].id, entity[p])
      BY <1>2, InputFields DEF Update, Stages, StageOf, TypeOK
    <2>2. accounts[req[p].id] \in Row
      BY <2>1 DEF Known, TypeOK, Table
    <2> DEFINE row == [accounts[req[p].id] EXCEPT !.name = entity[p].name,
                                                  !.active = entity[p].active,
                                                  !.limit = entity[p].limit]
    <2>3. /\ row \in Row /\ row.type = accounts[req[p].id].type
          /\ row.user = accounts[req[p].id].user /\ row.limit = entity[p].limit
      BY <2>1, <2>2 DEF Row
    <2>4. Write(req[p].id, row)
      BY <1>2 DEF Update
    <2>5. LimitFits(row.type, row.limit)
      BY <2>1, <2>3 DEF Known
    <2> QED
      BY <2>1, <2>3, <2>4, <2>5
  <1>3. CASE Delete(p) /\ ~UNCHANGED <<accounts, wal>>
    <2>1. req[p].id \in IDs
      BY <1>3, InputFields DEF Delete, Stages, StageOf
    <2>2. /\ accounts[req[p].id] \in Row
          /\ LimitFits(accounts[req[p].id].type, accounts[req[p].id].limit)
      BY <1>3, <2>1 DEF Delete, Versions, Known, TypeOK, Table
    <2> DEFINE row == [accounts[req[p].id] EXCEPT !.active = FALSE]
    <2>3. /\ row \in Row /\ row.type = accounts[req[p].id].type
          /\ row.user = accounts[req[p].id].user /\ row.limit = accounts[req[p].id].limit
      BY <2>2 DEF Row
    <2>4. Write(req[p].id, row)
      BY <1>3 DEF Delete
    <2> QED
      BY <2>1, <2>2, <2>3, <2>4
  <1>4. CASE CommitPosting(p)
    <2>1. req[p].id \in IDs /\ accounts[req[p].id] # None
      BY <1>4, InputFields DEF CommitPosting, Stages, StageOf
    <2>2. /\ accounts[req[p].id] \in Row /\ locked[p] \in Nat
          /\ LimitFits(accounts[req[p].id].type, accounts[req[p].id].limit)
      BY <2>1 DEF Versions, Known, TypeOK, Table
    <2> DEFINE row == [accounts[req[p].id] EXCEPT !.balance = locked[p] + 1]
    <2>3. /\ row \in Row /\ row.type = accounts[req[p].id].type
          /\ row.user = accounts[req[p].id].user /\ row.limit = accounts[req[p].id].limit
      BY <2>2 DEF Row
    <2>4. Write(req[p].id, row)
      BY <1>4 DEF CommitPosting
    <2> QED
      BY <2>1, <2>2, <2>3, <2>4
  <1> QED
    BY <1>1, <1>2, <1>3, <1>4
    DEF StepOf, PrepareCreate, Start, FindByID, ApplyUpdate, Delete, LockRow, Fail, Write

\* A row that exists stays, with its type and its owner.
LEMMA KnownStays ==
  ASSUME TypeOK, Stages, Versions, [Next]_vars
  PROVE  \A a \in IDs : accounts[a] # None =>
           /\ accounts'[a] # None
           /\ accounts'[a].type = accounts[a].type
           /\ accounts'[a].user = accounts[a].user
  <1>1. ASSUME NEW p \in Requests, StepOf(p), NEW a \in IDs, accounts[a] # None
        PROVE  /\ accounts'[a] # None
               /\ accounts'[a].type = accounts[a].type
               /\ accounts'[a].user = accounts[a].user
    <2>1. CASE accounts' = accounts
      BY <1>1, <2>1
    <2>2. ASSUME NEW b \in IDs, NEW row \in Row, Write(b, row),
                 accounts[b] # None =>
                   row.type = accounts[b].type /\ row.user = accounts[b].user
          PROVE  /\ accounts'[a] # None
                 /\ accounts'[a].type = accounts[a].type
                 /\ accounts'[a].user = accounts[a].user
      BY <1>1, <2>2, DistinctAssumption DEF Write, TypeOK, Table
    <2> QED
      BY <1>1, <2>1, <2>2, Writes
  <1> QED
    BY <1>1, OtherSteps

\* So that what was a version of it stays one.
LEMMA VersionStays ==
  ASSUME TypeOK, Stages, Versions, [Next]_vars, NEW a \in IDs, NEW row, Known(a, row)
  PROVE  Known(a, row)'
  BY KnownStays DEF Known

\* The table, the replica and the stream keep holding versions.
LEMMA NextVersions ==
  ASSUME TypeOK, Stages, Versions, [Next]_vars PROVE Versions'
  <1> DEFINE Entries == [id : IDs, row : Row]
  <1>0. /\ wal \in Seq(Entries) /\ Len(wal) \in Nat
        /\ \A i \in 1 .. Len(wal) : wal[i] \in Entries
    <2>1. wal \in Seq(Entries)
      BY DEF TypeOK
    <2> HIDE DEF Entries
    <2> QED
      BY <2>1, LenProperties, ElementOfSeq
  <1>1. ASSUME NEW a \in IDs, accounts'[a] = accounts[a], accounts[a] # None
        PROVE  Known(a, accounts[a])'
    BY <1>1 DEF Versions, Known
  <1>2. ASSUME replica' = replica, NEW a \in IDs, replica[a] # None
        PROVE  Known(a, replica[a])'
    <2>1. PICK row : row = replica[a]
      OBVIOUS
    <2>2. Known(a, row)'
      BY <1>2, <2>1, VersionStays DEF Versions
    <2> QED
      BY <1>2, <2>1, <2>2 DEF Known
  <1>3. ASSUME NEW i \in 1 .. Len(wal) PROVE Known(wal[i].id, wal[i].row)'  \/ wal' # wal
    <2>1. PICK a, row : a \in IDs /\ a = wal[i].id /\ row = wal[i].row
      BY <1>0
    <2>2. Known(a, row)'
      BY <2>1, VersionStays DEF Versions
    <2> QED
      BY <2>1, <2>2 DEF Known
  <1>4. CASE UNCHANGED <<accounts, wal, replica>>
    BY <1>1, <1>2, <1>3, <1>4 DEF Versions
  <1>5. ASSUME NEW b \in IDs, NEW row \in Row, Write(b, row), replica' = replica,
               LimitFits(row.type, row.limit)
        PROVE  Versions'
    <2>1. accounts'[b] = row /\ \A a \in IDs \ {b} : accounts'[a] = accounts[a]
      BY <1>5 DEF Write, TypeOK, Table
    <2>2. Known(b, row)'
      BY <1>5, <2>1, DistinctAssumption DEF Known
    <2>3. \A a \in IDs : accounts'[a] # None => Known(a, accounts[a])'
      BY <1>1, <2>1, <2>2 DEF Known
    <2>4. \A i \in 1 .. Len(wal') : Known(wal[i].id, wal[i].row)'
      <3>1. CASE wal' = wal
        BY <1>3, <3>1
      <3>2. CASE wal' = Append(wal, [id |-> b, row |-> row])
        <4> SUFFICES ASSUME NEW i \in 1 .. Len(wal') PROVE Known(wal[i].id, wal[i].row)'
          OBVIOUS
        <4>1. \/ i \in 1 .. Len(wal) /\ wal'[i] = wal[i]
              \/ wal'[i] = [id |-> b, row |-> row]
          BY <1>0, <3>2
        <4>2. CASE wal'[i] = [id |-> b, row |-> row]
          BY <2>2, <4>2 DEF Known
        <4>3. CASE i \in 1 .. Len(wal) /\ wal'[i] = wal[i]
          <5>1. PICK a, r : a \in IDs /\ a = wal[i].id /\ r = wal[i].row
            BY <1>0, <4>3
          <5>2. Known(a, r)'
            BY <4>3, <5>1, VersionStays DEF Versions
          <5> QED
            BY <4>3, <5>1, <5>2 DEF Known
        <4> QED
          BY <4>1, <4>2, <4>3
      <3> QED
        BY <1>5, <3>1, <3>2 DEF Write
    <2> QED
      BY <1>2, <1>5, <2>3, <2>4 DEF Versions
  <1>6. CASE Replicate
    <2>1. accounts' = accounts /\ wal # << >>
      BY <1>6 DEF Replicate
    <2>2. /\ 1 \in 1 .. Len(wal) /\ wal[1] \in Entries
          /\ Len(wal') = Len(wal) - 1
          /\ \A i \in 1 .. Len(wal') : i + 1 \in 1 .. Len(wal) /\ wal'[i] = wal[i + 1]
      <3>1. wal' = Tail(wal) /\ Len(wal) # 0
        BY <1>0, <1>6, EmptySeq DEF Replicate
      <3> QED
        BY <1>0, <2>1, <3>1, HeadTailProperties
    <2>3. \A a \in IDs : replica'[a] # None => Known(a, replica[a])'
      BY <1>6, <2>1, <2>2 DEF Replicate, Versions, Known, TypeOK, Table
    <2>4. \A i \in 1 .. Len(wal') : Known(wal[i].id, wal[i].row)'
      BY <2>1, <2>2 DEF Versions, Known
    <2> QED
      BY <1>1, <2>1, <2>3, <2>4 DEF Versions
  <1>7. ASSUME NEW p \in Requests, StepOf(p), replica' = replica PROVE Versions'
    BY <1>4, <1>5, <1>7, Writes
  <1>8. \/ \E p \in Requests : StepOf(p) /\ UNCHANGED replica
        \/ UNCHANGED <<accounts, wal, replica>>
        \/ Replicate
    <2>1. ASSUME NEW p \in Requests, StepOf(p) PROVE UNCHANGED replica
      BY <2>1 DEF StepOf, PrepareCreate, Insert, Start, FindByID, ApplyUpdate, Update, Delete,
                  LockRow, CommitPosting, Fail
    <2> QED
      BY <2>1, Zenon DEF Next, StepOf, Quiescent, vars
  <1> QED
    BY <1>4, <1>6, <1>7, <1>8

-----------------------------------------------------------------------------
(***************************************************************************)
(* Type correctness.                                                       *)
(***************************************************************************)

\* The tables and the stream keep their types.
LEMMA NextTables ==
  ASSUME TypeOK, Stages, Versions, [Next]_vars
  PROVE  accounts' \in Table /\ replica' \in Table /\ wal' \in Seq([id : IDs, row : Row])
  <1> DEFINE Entries == [id : IDs, row : Row]
  <1>0. accounts \in Table /\ replica \in Table /\ wal \in Seq(Entries)
    BY DEF TypeOK
  <1>1. ASSUME NEW b \in IDs, NEW row \in Row, Write(b, row)
        PROVE  accounts' \in Table /\ wal' \in Seq(Entries)
    <2>1. accounts' \in Table
      BY <1>0, <1>1 DEF Write, Table
    <2>2. [id |-> b, row |-> row] \in Entries
      BY <1>1
    <2> HIDE DEF Entries
    <2>3. Append(wal, [id |-> b, row |-> row]) \in Seq(Entries)
      BY <1>0, <2>2, AppendProperties
    <2> QED
      BY <1>0, <1>1, <2>1, <2>3 DEF Write
  <1>2. ASSUME NEW p \in Requests, StepOf(p)
        PROVE  accounts' \in Table /\ wal' \in Seq(Entries)
    BY <1>0, <1>1, <1>2, Writes
  <1>3. ASSUME NEW p \in Requests, StepOf(p) PROVE UNCHANGED replica
    BY <1>3 DEF StepOf, PrepareCreate, Insert, Start, FindByID, ApplyUpdate, Update, Delete,
                LockRow, CommitPosting, Fail
  <1>4. CASE Replicate
    <2>1. wal # << >> /\ wal' = Tail(wal) /\ accounts' = accounts
      BY <1>4 DEF Replicate
    <2>2. wal[1] \in Entries /\ wal' \in Seq(Entries)
      <3> HIDE DEF Entries
      <3>1. Len(wal) \in Nat /\ Len(wal) # 0
        BY <1>0, <2>1, EmptySeq, LenProperties
      <3> QED
        BY <1>0, <2>1, <3>1, ElementOfSeq, HeadTailProperties
    <2>3. replica' \in Table
      BY <1>0, <1>4, <2>2 DEF Replicate, Table
    <2> QED
      BY <1>0, <2>1, <2>2, <2>3
  <1>5. CASE Quiescent \/ UNCHANGED vars
    BY <1>0, <1>5 DEF Quiescent, vars
  <1> QED
    BY <1>0, <1>2, <1>3, <1>4, <1>5 DEF Next, StepOf

\* Every step keeps the tables and the frames well typed.
LEMMA NextTypeOK ==
  ASSUME TypeOK, Stages, Versions, [Next]_vars PROVE TypeOK'
  <1>1. req' \in [Requests -> Inputs]
    BY OtherSteps DEF TypeOK
  <1>2. ASSUME NEW p \in Requests, StepOf(p)
        PROVE  pc' \in [Requests -> PCs] /\ result' \in [Requests -> Answers]
    <2>1. /\ \A s \in PCs : Goto(p, s) => pc' \in [Requests -> PCs] /\ result' = result
          /\ \A w \in Answers : Reply(p, w) =>
               pc' \in [Requests -> PCs] /\ result' \in [Requests -> Answers]
      BY DEF Goto, Reply, TypeOK, PCs
    <2>2. result \in [Requests -> Answers]
      BY DEF TypeOK
    <2>3. \A t, l : LimitError(t, l) \in Answers
      BY DEF LimitError, Answers
    <2>4. /\ {"find", "insert", "apply", "write", "delete", "post", "commit"} \subseteq PCs
          /\ {"ok", "ErrInvalidAccountType", "ErrStatementNotFound", "ErrAccountNotFound",
              "ErrInternal"} \subseteq Answers
      BY DEF PCs, Answers
    <2>5. CASE PrepareCreate(p) \/ ApplyUpdate(p)
      BY <2>1, <2>2, <2>3, <2>4, <2>5 DEF PrepareCreate, ApplyUpdate
    <2>6. CASE FindByID(p)
      BY <2>1, <2>2, <2>4, <2>6 DEF FindByID
    <2>7. CASE Insert(p) \/ Update(p) \/ Delete(p) \/ LockRow(p) \/ CommitPosting(p)
      BY <2>1, <2>2, <2>4, <2>7 DEF Insert, Update, Delete, LockRow, CommitPosting, Executed
    <2>8. CASE Start(p) \/ Fail(p)
      BY <2>1, <2>2, <2>4, <2>8 DEF Start, Fail
    <2> QED
      BY <1>2, <2>5, <2>6, <2>7, <2>8 DEF StepOf
  <1>3. ASSUME NEW p \in Requests, StepOf(p)
        PROVE  rowLock' \in [IDs -> Requests \cup {None}] /\ locked' \in [Requests -> Nat]
    <2>1. CASE LockRow(p)
      <3>1. req[p].op = "post" /\ accounts[req[p].id] # None
        BY <2>1 DEF LockRow, Stages, StageOf
      <3>2. req[p].id \in IDs /\ accounts[req[p].id] \in Row
        BY <3>1, InputFields DEF TypeOK, Table
      <3> QED
        BY <2>1, <3>2 DEF LockRow, TypeOK, Row
    <2>2. CASE CommitPosting(p) \/ Fail(p)
      BY <2>2 DEF CommitPosting, Fail, TypeOK
    <2> QED
      BY <1>3, <2>1, <2>2
      DEF StepOf, PrepareCreate, Insert, Start, FindByID, ApplyUpdate, Update, Delete, TypeOK
  <1>4. ASSUME NEW p \in Requests, StepOf(p) PROVE entity' \in [Requests -> Row \cup {None}]
    <2>0. entity \in [Requests -> Row \cup {None}]
      BY DEF TypeOK
    <2>1. CASE PrepareCreate(p)
      <3>1. CASE entity' = entity
        BY <2>0, <3>1
      <3>2. CASE entity' # entity
        <4>1. pc'[p] = "insert"
          BY <2>1, <3>2 DEF PrepareCreate, Goto, TypeOK
        <4> QED
          BY <2>0, <2>1, <4>1, CreateType
      <3> QED
        BY <3>1, <3>2
    <2>2. CASE FindByID(p)
      <3>1. req[p].id \in IDs
        BY <2>2, InputFields DEF FindByID, Stages, StageOf, PCs
      <3>2. ReaderRow(req[p].id) \in Row \cup {None}
        BY <3>1 DEF ReaderRow, TypeOK, Table
      <3> QED
        BY <2>0, <2>2, <3>2 DEF FindByID
    <2>3. CASE ApplyUpdate(p)
      <3>1. CASE pc'[p] = "write"
        BY <2>0, <2>3, <3>1, ApplyType DEF ApplyUpdate
      <3>2. CASE pc'[p] # "write"
        BY <2>0, <2>3, <3>2 DEF ApplyUpdate, Goto, TypeOK
      <3> QED
        BY <3>1, <3>2, SMTT(40)
    <2> QED
      BY <1>4, <2>0, <2>1, <2>2, <2>3
      DEF StepOf, Insert, Start, Update, Delete, LockRow, CommitPosting, Fail
  <1>5. ASSUME NEW p \in Requests, StepOf(p) PROVE statements' \subseteq Requests
    BY <1>5 DEF StepOf, PrepareCreate, Insert, Start, FindByID, ApplyUpdate, Update, Delete,
                LockRow, CommitPosting, Fail, TypeOK
  <1> QED
    BY <1>1, <1>2, <1>3, <1>4, <1>5, NextTables, OtherSteps DEF TypeOK

-----------------------------------------------------------------------------
(***************************************************************************)
(* What a request knows stays true while others run.                       *)
(***************************************************************************)

\* A step of another request leaves the row a create is about to insert
\* absent, and the row a posting holds locked as the posting read it.
LEMMA Undisturbed ==
  ASSUME TypeOK, Stages, Versions, NEW p \in Requests, StepOf(p),
         NEW q \in Requests, q # p
  PROVE  /\ accounts[q] = None /\ req[q].op = "create" => accounts'[q] = None
         /\ pc[q] = "commit" =>
              /\ rowLock'[req[q].id] = q
              /\ accounts'[req[q].id].balance = accounts[req[q].id].balance
  <1>0. p \in IDs /\ q \in IDs /\ StageOf(p) /\ StageOf(q) /\ None \notin Requests
    BY InputFields, DistinctAssumption DEF Stages
  <1>1. ASSUME NEW a \in IDs, NEW row, Write(a, row)
        PROVE  \A b \in IDs \ {a} : accounts'[b] = accounts[b]
    BY <1>1 DEF Write, TypeOK, Table
  <1>2. ASSUME accounts[q] = None, req[q].op = "create", accounts'[q] # None PROVE FALSE
    <2>1. CASE Insert(p)
      BY <1>0, <1>1, <1>2, <2>1 DEF Insert
    <2>2. CASE Update(p) \/ CommitPosting(p) \/ Delete(p)
      <3>1. accounts' # accounts => accounts[req[p].id] # None /\ req[p].id \in IDs
        BY <1>0, <2>2, InputFields
        DEF StageOf, Known, Update, CommitPosting, Delete, PCs
      <3> QED
        BY <1>0, <1>1, <1>2, <2>2, <3>1 DEF Update, CommitPosting, Delete
    <2> QED
      BY <1>2, <2>1, <2>2
      DEF StepOf, PrepareCreate, Start, FindByID, ApplyUpdate, LockRow, Fail
  <1>3. ASSUME pc[q] = "commit"
        PROVE  /\ rowLock'[req[q].id] = q
               /\ accounts'[req[q].id].balance = accounts[req[q].id].balance
    <2>0. /\ rowLock[req[q].id] = q /\ req[q].id \in IDs
          /\ accounts[req[q].id] # None
      BY <1>0, <1>3, InputFields DEF StageOf, PCs
    <2>1. CASE Insert(p)
      <3>1. p # req[q].id
        BY <1>0, <2>0, <2>1 DEF StageOf, Insert
      <3> QED
        BY <1>0, <1>1, <2>0, <2>1, <3>1 DEF Insert
    <2>2. CASE Update(p) \/ Delete(p)
      <3>1. req[p].id \in IDs /\ rowLock[req[p].id] = None
        BY <1>0, <2>2, InputFields DEF StageOf, Update, Delete, PCs
      <3>2. req[p].id # req[q].id
        BY <1>0, <2>0, <3>1
      <3> QED
        BY <1>1, <2>0, <2>2, <3>1, <3>2 DEF Update, Delete
    <2>3. CASE CommitPosting(p)
      <3>1. req[p].id \in IDs /\ rowLock[req[p].id] = p
        BY <1>0, <2>3, InputFields DEF StageOf, CommitPosting, PCs
      <3>2. req[p].id # req[q].id
        BY <2>0, <3>1
      <3> QED
        BY <1>1, <2>0, <2>3, <3>1, <3>2 DEF CommitPosting, TypeOK
    <2>4. CASE LockRow(p)
      <3>1. req[p].id # req[q].id
        BY <1>0, <2>0, <2>4 DEF LockRow
      <3> QED
        BY <2>0, <2>4, <3>1 DEF LockRow, TypeOK
    <2>5. CASE Fail(p)
      BY <2>0, <2>5 DEF Fail, TypeOK
    <2> QED
      BY <2>0, <2>1, <2>2, <2>3, <2>4, <2>5
      DEF StepOf, PrepareCreate, Start, FindByID, ApplyUpdate
  <1> QED
    BY <1>2, <1>3

\* The rows the reader shows exist.
LEMMA ReaderKnown ==
  ASSUME TypeOK, Versions, NEW a \in IDs, ReaderRow(a) # None
  PROVE  Known(a, ReaderRow(a))
  BY DEF ReaderRow, Versions

\* Every step keeps what the requests know.
LEMMA NextStages ==
  ASSUME TypeOK, Stages, Versions, [Next]_vars PROVE Stages'
  <1>0. req' = req
    BY OtherSteps
  <1> SUFFICES ASSUME NEW q \in Requests PROVE StageOf(q)'
    BY DEF Stages
  <1>1. StageOf(q) /\ q \in IDs
    BY InputFields DEF Stages
  <1>2. \A a \in IDs : accounts[a] # None => accounts'[a] # None
    BY KnownStays
  <1>3. req[q].op # "create" => req[q].id \in IDs
    BY InputFields
  <1>4. ASSUME NEW e, req[q].op # "create", Known(req[q].id, e)
        PROVE  /\ accounts'[req[q].id] # None
               /\ e.type = accounts'[req[q].id].type
               /\ e.user = accounts'[req[q].id].user
               /\ LimitFits(e.type, e.limit)
    BY <1>3, <1>4, KnownStays DEF Known
  <1>5. ASSUME /\ UNCHANGED <<pc, result>> \/ (pc'[q] = pc[q] /\ result'[q] = result[q])
               /\ entity'[q] = entity[q] /\ locked'[q] = locked[q]
               /\ q \in statements' <=> q \in statements
               /\ accounts[q] = None /\ req[q].op = "create" => accounts'[q] = None
               /\ pc[q] = "commit" =>
                    /\ rowLock'[req[q].id] = q
                    /\ accounts'[req[q].id].balance = accounts[req[q].id].balance
        PROVE  StageOf(q)'
    BY <1>0, <1>1, <1>2, <1>3, <1>4, <1>5 DEF StageOf, Known
  <1>6. ASSUME NEW p \in Requests, StepOf(p), p # q PROVE StageOf(q)'
    BY <1>5, <1>6, StepIsOwn, Undisturbed
  <1>7. CASE UNCHANGED <<accounts, rowLock, statements, pc, entity, locked, result>>
    BY <1>1, <1>5, <1>7 DEF StageOf
  <1>8. ASSUME StepOf(q) PROVE StageOf(q)'
    <2> USE DEF StageOf, Goto, Reply, Executed, PCs
    <2>1. CASE PrepareCreate(q)
      <3>1. CASE pc'[q] = "insert"
        <4>1. pc[q] = "idle" /\ req[q].op = "create" /\ accounts[q] = None
          BY <1>1, <2>1 DEF PrepareCreate
        <4>2. /\ entity'[q] # None /\ entity'[q].balance = 0
              /\ LimitFits(entity'[q].type, entity'[q].limit)
              /\ result' = result /\ accounts' = accounts /\ statements' = statements
          BY <2>1, <3>1, CreateType, DistinctAssumption DEF PrepareCreate
        <4> QED
          BY <1>0, <1>1, <3>1, <4>1, <4>2
      <3>2. CASE pc'[q] # "insert"
        BY <1>0, <1>1, <2>1, <3>2 DEF PrepareCreate, LimitError, TypeOK
      <3> QED
        BY <3>1, <3>2
    <2>2. CASE Insert(q)
      BY <1>0, <1>1, <2>2 DEF Insert, TypeOK
    <2>3. CASE Start(q)
      BY <1>0, <1>1, <2>3 DEF Start, TypeOK
    <2>4. CASE FindByID(q)
      <3>1. req[q].op # "create" /\ req[q].id \in IDs
        BY <1>1, <1>3, <2>4 DEF FindByID
      <3>2. Visible(req[q].id) => Known(req[q].id, ReaderRow(req[q].id))
        BY <3>1, ReaderKnown DEF Visible
      <3>3. accounts' = accounts /\ req' = req
        BY <2>4 DEF FindByID
      <3>4. CASE pc'[q] = "apply"
        <4>1. /\ req[q].op = "update" /\ Visible(req[q].id)
              /\ entity'[q] = ReaderRow(req[q].id) /\ result'[q] = result[q]
          BY <2>4, <3>4 DEF FindByID, TypeOK
        <4>2. Known(req[q].id, entity[q])'
          BY <3>2, <3>3, <4>1 DEF Known
        <4> QED
          BY <1>1, <2>4, <3>3, <3>4, <4>1, <4>2 DEF FindByID, Visible
      <3>5. CASE pc'[q] # "apply"
        BY <1>1, <2>4, <3>1, <3>2, <3>3, <3>5 DEF FindByID, Known, TypeOK
      <3> QED
        BY <3>4, <3>5
    <2>5. CASE ApplyUpdate(q)
      <3>1. /\ accounts' = accounts /\ req' = req
            /\ Known(req[q].id, entity[q]) /\ req[q].op = "update"
        BY <1>1, <2>5 DEF ApplyUpdate
      <3>2. CASE pc'[q] = "write"
        <4>1. entity'[q] # None /\ Known(req[q].id, entity[q])'
          BY <2>5, <3>1, <3>2, ApplyType, DistinctAssumption DEF Known
        <4> QED
          BY <1>1, <2>5, <3>1, <3>2, <4>1 DEF ApplyUpdate, TypeOK
      <3>3. CASE pc'[q] # "write"
        BY <1>1, <2>5, <3>1, <3>3 DEF ApplyUpdate, LimitError, TypeOK
      <3> QED
        BY <3>2, <3>3
    <2>6. CASE Update(q)
      BY <1>0, <1>1, <2>6 DEF Update, TypeOK
    <2>7. CASE Delete(q)
      BY <1>0, <1>1, <2>7 DEF Delete, TypeOK
    <2>8. CASE LockRow(q)
      BY <1>0, <1>1, <1>3, <2>8 DEF LockRow, TypeOK
    <2>9. CASE CommitPosting(q)
      BY <1>0, <1>1, <1>2, <1>3, <2>9 DEF CommitPosting, TypeOK
    <2>10. CASE Fail(q)
      BY <1>0, <1>1, <2>10 DEF Fail, TypeOK
    <2> QED
      BY <1>8, <2>1, <2>2, <2>3, <2>4, <2>5, <2>6, <2>7, <2>8, <2>9, <2>10 DEF StepOf
  <1> QED
    BY <1>6, <1>7, <1>8, OtherSteps

-----------------------------------------------------------------------------
(***************************************************************************)
(* Balances.                                                               *)
(***************************************************************************)

\* The postings of an account that were committed, answered or not.
Posted(a) == {p \in statements : req[p].id = a}

\* Only a posting counts as one, and it counts itself.
LEMMA PostedKinds ==
  ASSUME TypeOK, Stages, [Next]_vars, NEW a \in IDs
  PROVE  \/ /\ Posted(a)' = Posted(a)
            /\ \A p \in Requests : CommitPosting(p) => req[p].id # a
         \/ \E p \in Requests \ Posted(a) :
              CommitPosting(p) /\ req[p].id = a /\ Posted(a)' = Posted(a) \cup {p}
  <1>0. req' = req
    BY OtherSteps
  <1>1. ASSUME NEW p \in Requests, StepOf(p), ~CommitPosting(p)
        PROVE  statements' = statements
    BY <1>1 DEF StepOf, PrepareCreate, Insert, Start, FindByID, ApplyUpdate, Update, Delete,
                LockRow, Fail
  <1>2. ASSUME NEW p \in Requests, CommitPosting(p)
        PROVE  p \notin statements /\ statements' = statements \cup {p}
    BY <1>2 DEF Stages, StageOf, CommitPosting
  <1>3. ASSUME statements' = statements PROVE Posted(a)' = Posted(a)
    BY <1>0, <1>3 DEF Posted
  <1>4. ASSUME NEW p \in Requests, CommitPosting(p)
        PROVE  IF req[p].id = a
                 THEN p \notin Posted(a) /\ Posted(a)' = Posted(a) \cup {p}
                 ELSE Posted(a)' = Posted(a)
    BY <1>0, <1>2, <1>4 DEF Posted
  <1>5. ASSUME NEW p \in Requests, CommitPosting(p) PROVE statements' # statements
    BY <1>2, <1>5
  <1> QED
    BY <1>1, <1>3, <1>4, <1>5, OtherSteps

\* An account's balance counts its postings, whatever updates write back.
LEMMA NextBalanceIsPosted ==
  ASSUME TypeOK, Stages, Versions, BalanceIsPosted, [Next]_vars PROVE BalanceIsPosted'
  <1>s. \A p \in Requests : req'[p].op = "post" /\ result'[p] = "ok" => p \in statements'
    BY NextStages DEF Stages, StageOf
  <1> SUFFICES ASSUME NEW a \in IDs, accounts'[a] # None
               PROVE  accounts'[a].balance = Cardinality(Posted(a)')
    BY <1>s DEF BalanceIsPosted, Posted
  <1>0. IsFiniteSet(Posted(a))
    BY RequestsAssumption, FS_Subset DEF Posted, TypeOK
  <1>1. accounts[a] # None => accounts[a].balance = Cardinality(Posted(a))
    BY DEF BalanceIsPosted, Posted
  <1>2. accounts[a] = None => Posted(a) = {}
    BY DEF Stages, StageOf, Posted, TypeOK
  <1>3. ASSUME NEW p \in Requests \ Posted(a), CommitPosting(p), req[p].id = a,
               Posted(a)' = Posted(a) \cup {p}
        PROVE  accounts'[a].balance = Cardinality(Posted(a)')
    <2>1. accounts[a] # None /\ locked[p] = accounts[a].balance
      BY <1>3 DEF CommitPosting, Stages, StageOf
    <2>2. accounts[a] \in Row /\ accounts'[a] = [accounts[a] EXCEPT !.balance = locked[p] + 1]
      BY <1>3, <2>1 DEF CommitPosting, Write, TypeOK, Table
    <2>3. accounts'[a].balance = accounts[a].balance + 1
      BY <2>1, <2>2 DEF Row
    <2>4. Cardinality(Posted(a) \cup {p}) = Cardinality(Posted(a)) + 1
      BY <1>0, FS_AddElement
    <2> QED
      BY <1>1, <1>3, <2>1, <2>3, <2>4
  <1>4. ASSUME NEW p \in Requests, StepOf(p), CommitPosting(p) => req[p].id # a
        PROVE  \/ accounts[a] # None /\ accounts'[a].balance = accounts[a].balance
               \/ accounts[a] = None /\ accounts'[a].balance = 0
    <2>0. accounts \in [IDs -> Row \cup {None}] /\ StageOf(p)
      BY DEF TypeOK, Table, Stages
    <2>1. CASE Insert(p)
      BY <2>0, <2>1 DEF Insert, Write, StageOf
    <2>2. CASE Update(p)
      <3>1. accounts[req[p].id] # None /\ req[p].id \in IDs
        BY <2>0, <2>2, InputFields DEF Update, StageOf, Known
      <3> QED
        BY <2>0, <2>2, <3>1, DistinctAssumption DEF Update, Write, Row
    <2>3. CASE Delete(p)
      BY <2>0, <2>3, DistinctAssumption DEF Delete, Write, Row
    <2>4. CASE CommitPosting(p)
      BY <1>4, <2>0, <2>4 DEF CommitPosting, Write
    <2> QED
      BY <1>4, <2>1, <2>2, <2>3, <2>4
      DEF StepOf, PrepareCreate, Start, FindByID, ApplyUpdate, LockRow, Fail
  <1>5. CASE /\ Posted(a)' = Posted(a)
             /\ \A p \in Requests : CommitPosting(p) => req[p].id # a
    BY <1>1, <1>2, <1>4, <1>5, FS_EmptySet, OtherSteps
  <1> QED
    BY <1>3, <1>5, PostedKinds

-----------------------------------------------------------------------------
(***************************************************************************)
(* Theorems.                                                               *)
(***************************************************************************)

IInv == TypeOK /\ Stages /\ Versions /\ BalanceIsPosted

\* Rows, copies and frames stay in step.
LEMMA Invariant == Spec => []IInv
  <1>1. Init => IInv
    <2> SUFFICES ASSUME Init PROVE IInv
      OBVIOUS
    <2>1. /\ SeedTable \in Table
          /\ \A a \in IDs : SeedTable[a] # None =>
               a \in Seeded /\ SeedTable[a] = SeedRow[a]
      BY SeedAssumption DEF SeedTable, Table, IDs
    <2>2. TypeOK
      BY <2>1 DEF Init, TypeOK, PCs, Answers
    <2>3. Stages
      BY <2>2, InputFields, DistinctAssumption
      DEF Init, Stages, StageOf, SeedTable, PCs
    <2>4. Versions
      BY <2>1, SeedAssumption DEF Init, Versions, Known
    <2>5. BalanceIsPosted
      <3> SUFFICES ASSUME NEW a \in IDs, accounts[a] # None
                   PROVE  accounts[a].balance = Cardinality(Posted(a))
        BY DEF BalanceIsPosted, Posted, Init
      <3>1. Posted(a) = {}
        BY DEF Init, Posted
      <3> QED
        BY <2>1, <3>1, SeedAssumption, FS_EmptySet DEF Init
    <2> QED
      BY <2>2, <2>3, <2>4, <2>5 DEF IInv
  <1>2. IInv /\ [Next]_vars => IInv'
    BY NextTypeOK, NextStages, NextVersions, NextBalanceIsPosted DEF IInv
  <1> QED
    BY <1>1, <1>2, PTL DEF Spec

\* Tables, stream and frames hold values of their types, and every limit that
\* is written is in its range (account.go:19-30).
THEOREM TypeCorrect == Spec => []TypeOK
  <1>1. IInv => TypeOK
    BY DEF IInv
  <1> QED
    BY <1>1, Invariant, PTL

\* A credit card always has a limit in range and no other account has one,
\* whatever lagging copy an update was made from (entity.go:59-91).
THEOREM LimitsFit == Spec => []LimitFitsType
  <1>1. IInv => LimitFitsType
    <2> SUFFICES ASSUME IInv PROVE LimitFitsType
      OBVIOUS
    <2>1. \A a \in IDs : accounts[a] # None => LimitFits(accounts[a].type, accounts[a].limit)
      BY DEF IInv, Versions, Known
    <2>2. \A p \in Requests :
            /\ pc[p] \in {"insert", "write"} => LimitFits(entity[p].type, entity[p].limit)
            /\ pc[p] = "write" => /\ accounts[req[p].id] # None
                                  /\ accounts[req[p].id].type = entity[p].type
      BY DEF IInv, Stages, StageOf, Known
    <2> QED
      BY <2>1, <2>2 DEF LimitFitsType
  <1> QED
    BY <1>1, Invariant, PTL

\* Whatever updates write back and whichever postings race or lose the answer of
\* their COMMIT, the balance counts the statements of the account, and nobody
\* is told of a posting that is not there (account.go:250-258,
\* statement.go:217-230).
THEOREM BalancesPosted == Spec => []BalanceIsPosted
  <1>1. IInv => BalanceIsPosted
    BY DEF IInv
  <1> QED
    BY <1>1, Invariant, PTL

-----------------------------------------------------------------------------
(***************************************************************************)
(* Once nobody holds a copy, a deletion is final.                          *)
(***************************************************************************)

\* What a step writes to a deleted account is not active: whoever could have
\* written active = true would hold a copy.
LEMMA WritesInactive ==
  ASSUME TypeOK, Stages, NEW p \in Requests, StepOf(p), NEW a \in IDs, Gone(a)
  PROVE  \/ UNCHANGED <<accounts, wal>>
         \/ \E b, row : Write(b, row) /\ (b = a => row # None /\ ~row.active)
  <1>0. accounts[a] \in Row /\ ~accounts[a].active
    BY DEF Gone, TypeOK, Table
  <1>1. CASE Insert(p)
    <2>1. p # a
      BY <1>0, <1>1, DistinctAssumption DEF Insert, Stages, StageOf, Gone
    <2> QED
      BY <1>1, <2>1 DEF Insert
  <1>2. CASE Update(p)
    <2>1. req[p].id # a
      BY <1>2 DEF Update, Gone
    <2> QED
      BY <1>2, <2>1 DEF Update
  <1>3. CASE Delete(p)
    BY <1>0, <1>3 DEF Delete
  <1>4. CASE CommitPosting(p)
    <2> DEFINE row == [accounts[req[p].id] EXCEPT !.balance = locked[p] + 1]
    <2>1. Write(req[p].id, row)
      BY <1>4 DEF CommitPosting
    <2>2. req[p].id = a => row.active = accounts[a].active /\ row # None
      <3> SUFFICES ASSUME req[p].id = a PROVE row.active = accounts[a].active /\ row # None
        OBVIOUS
      <3>1. accounts[req[p].id] \in Row /\ locked[p] \in Nat
        BY <1>0 DEF TypeOK
      <3>2. row \in Row /\ row.active = accounts[req[p].id].active
        BY <3>1 DEF Row
      <3> QED
        BY <3>2, DistinctAssumption
    <2> QED
      BY <1>0, <2>1, <2>2
  <1> QED
    BY <1>1, <1>2, <1>3, <1>4
    DEF StepOf, PrepareCreate, Start, FindByID, ApplyUpdate, LockRow, Fail

\* An update that is about to write its copy held it before or found the
\* account on the reader.
LEMMA CopiesFound ==
  ASSUME TypeOK, [Next]_vars, NEW q \in Requests, pc'[q] \in {"apply", "write"}
  PROVE  pc[q] \in {"apply", "write"} \/ Visible(req[q].id)
  <1>1. ASSUME NEW p \in Requests, StepOf(p), p # q
        PROVE  pc'[q] = pc[q]
    BY <1>1, StepIsOwn
  <1>2. CASE StepOf(q)
    <2>1. CASE FindByID(q)
      BY <2>1 DEF FindByID, Goto, Reply, TypeOK
    <2>2. CASE ApplyUpdate(q)
      BY <2>2 DEF ApplyUpdate
    <2> QED
      BY <1>2, <2>1, <2>2
      DEF StepOf, PrepareCreate, Insert, Start, Update, Delete, LockRow, CommitPosting,
          Fail, Goto, Reply, Executed, TypeOK
  <1> QED
    BY <1>1, <1>2, OtherSteps

\* A deletion that reached the replica, and that no update holds an older copy
\* over, is not undone (account.go:250-302).
THEOREM DeletesFinal == Spec => DeleteIsFinal
  <1>1. ASSUME TypeOK, Stages, Versions, [Next]_vars, NEW a \in IDs, Gone(a) PROVE Gone(a)'
    <2>0. wal \in Seq([id : IDs, row : Row]) /\ req' = req
      BY <1>1, OtherSteps DEF TypeOK
    <2>1. ASSUME NEW q \in Requests, pc'[q] \in {"apply", "write"} PROVE req[q].id # a
      BY <1>1, <2>1, CopiesFound DEF Gone, Visible
    <2>2. ASSUME NEW p \in Requests, StepOf(p), UNCHANGED replica
          PROVE  /\ accounts'[a] # None /\ ~accounts'[a].active
                 /\ \A i \in DOMAIN wal' : wal'[i].id = a => ~wal'[i].row.active
      <3>1. CASE UNCHANGED <<accounts, wal>>
        BY <1>1, <3>1 DEF Gone
      <3>2. ASSUME NEW b, NEW row, Write(b, row), b = a => row # None /\ ~row.active
            PROVE  /\ accounts'[a] # None /\ ~accounts'[a].active
                   /\ \A i \in DOMAIN wal' : wal'[i].id = a => ~wal'[i].row.active
        <4>1. accounts'[a] # None /\ ~accounts'[a].active
          BY <1>1, <3>2 DEF Write, Gone, TypeOK, Table
        <4>2. CASE wal' = wal
          BY <1>1, <4>1, <4>2 DEF Gone
        <4>3. CASE wal' = Append(wal, [id |-> b, row |-> row])
          <5> DEFINE e == [id |-> b, row |-> row]
          <5>1. e.id = a => ~e.row.active
            BY <3>2
          <5> HIDE DEF e
          <5>2. ASSUME NEW i \in DOMAIN Append(wal, e), Append(wal, e)[i].id = a
                PROVE  ~Append(wal, e)[i].row.active
            <6>1. CASE i \in DOMAIN wal
              BY <1>1, <2>0, <5>2, <6>1 DEF Gone
            <6>2. CASE i \notin DOMAIN wal
              BY <2>0, <5>1, <5>2, <6>2
            <6> QED
              BY <6>1, <6>2
          <5> QED
            BY <4>1, <4>3, <5>2 DEF e
        <4> QED
          BY <3>2, <4>2, <4>3 DEF Write
      <3> QED
        BY <1>1, <2>2, <3>1, <3>2, WritesInactive
    <2>3. CASE \E p \in Requests : StepOf(p) /\ UNCHANGED replica
      BY <1>1, <2>0, <2>1, <2>2, <2>3 DEF Gone, ReaderRow
    <2>4. CASE Replicate
      <3>1. Len(wal) \in Nat /\ wal # << >> /\ wal' = Tail(wal) /\ 1 \in DOMAIN wal
        BY <2>0, <2>4 DEF Replicate
      <3>2. \A i \in DOMAIN Tail(wal) : i + 1 \in DOMAIN wal /\ Tail(wal)[i] = wal[i + 1]
        BY <2>0, <3>1
      <3>3. replica'[a] # None => ~replica'[a].active \/ ~HasReplica
        BY <1>1, <2>4, <3>1 DEF Replicate, Gone, ReaderRow, TypeOK, Table
      <3>4. \A i \in DOMAIN wal' : wal'[i].id = a => ~wal'[i].row.active
        BY <1>1, <3>1, <3>2 DEF Gone
      <3>5. UNCHANGED <<accounts, pc>>
        BY <2>4 DEF Replicate
      <3> QED
        BY <1>1, <2>0, <3>3, <3>4, <3>5 DEF Gone, ReaderRow
    <2>5. CASE UNCHANGED vars
      BY <1>1, <2>5 DEF vars, Gone, ReaderRow
    <2>6. (\E p \in Requests : StepOf(p)) \/ Replicate \/ UNCHANGED vars
      BY <1>1, Zenon DEF Next, StepOf, Quiescent
    <2>7. ASSUME NEW p \in Requests, StepOf(p) PROVE UNCHANGED replica
      BY <2>7 DEF StepOf, PrepareCreate, Insert, Start, FindByID, ApplyUpdate, Update,
                  Delete, LockRow, CommitPosting, Fail
    <2> QED
      BY <2>3, <2>4, <2>5, <2>6, <2>7
  <1> DEFINE Final == \A a \in IDs : Gone(a) => Gone(a)'
  <1>2. IInv /\ [Next]_vars => [Final]_vars
    BY <1>1 DEF IInv
  <1> HIDE DEF Final
  <1>3. Spec => [][Final]_vars
    BY <1>2, Invariant, PTL DEF Spec
  <1> QED
    BY <1>3 DEF DeleteIsFinal, Final
===============================================================================
