----------------------------- MODULE LedgerProofs -----------------------------
(***************************************************************************)
(* The ledger, proved for any number of requests, accounts and rows, in    *)
(* four parts: types and the chain of balances; reversals and imports      *)
(* happen once; postings are whole and implement the atomic ledger; and    *)
(* nothing is posted by a request that finds its account gone.             *)
(***************************************************************************)
EXTENDS Ledger, SequenceTheorems, TLAPS

\* A wrapped value is an int64: the sums of statement.go:188-195.
LEMMA WrapType == \A x \in Int : Wrap(x) \in Int64
  <1> SUFFICES ASSUME NEW x \in Int PROVE Wrap(x) \in Int64
    OBVIOUS
  <1>1. /\ 2 * Half \in Nat \ {0}
        /\ x + Half \in Int
    BY HalfAssumption
  <1>2. (x + Half) % (2 * Half) \in 0 .. (2 * Half - 1)
    BY <1>1
  <1> QED
    BY <1>2, HalfAssumption DEF Wrap, Int64

\* A sum of lengths is a length, and no shorter than the first.
LEMMA NatSum == \A m, n \in Nat : m + n \in Nat /\ m + n >= m
  OBVIOUS

\* Arithmetic applies to amounts and balances.
LEMMA Int64IsInt == Int64 \subseteq Int
  BY HalfAssumption DEF Int64

\* A balance a statement was applied to is an int64 (statement.go:188-195).
LEMMA ApplyType ==
  \A b, n \in Int64, t \in Types : Apply(b, t, n) \in Int64
  BY WrapType, Int64IsInt DEF Apply

\* The amount of an imported transaction is an int64, the absolute value
\* of the least one included (import.go:150-158).
LEMMA AbsCentsType == \A n \in Int64 : AbsCents(n) \in Int64
  BY WrapType, Int64IsInt DEF AbsCents

\* An int64 that is positive is an amount, and no amount leaves int64
\* (amount.go:8-17).
LEMMA PositiveIsAmount ==
  /\ \A n \in Int64 : n > 0 => n \in Amounts
  /\ Amounts \subseteq Int64
  BY HalfAssumption DEF Int64, Amounts

\* What the fields of an input are, by operation.
LEMMA InputFields ==
  ASSUME NEW x \in Inputs
  PROVE  /\ x.acct \in Accounts
         /\ x.op \in {"create", "reverse", "import", "update", "delete"}
         /\ x.op = "create" => x.amount \in Int64
         /\ x.op = "reverse" => x.stmt \in StatementIDs
         /\ x.op = "import" => x.txns \in Seq(Txn)
  BY InputsAssumption
  DEF Input, CreateInput, ReverseInput, ImportInput, AccountInput
-----------------------------------------------------------------------------
(***************************************************************************)
(* Type correctness.                                                       *)
(***************************************************************************)

\* NewStatement and NewReversal build drafts (entity.go:48-90).
LEMMA DraftType ==
  ASSUME NEW t \in Types, NEW n \in Amounts, NEW r \in StatementIDs \cup {None},
         NEW e \in ExternalIDs \cup {None}
  PROVE  Draft(t, n, r, e) \in Drafts
  BY DEF Draft, Drafts

\* The opposite of a statement type is one (vo/type.go:36-42).
LEMMA OppositeType == \A t \in Types : Opposite(t) \in Types
  BY DEF Opposite, Types

\* The rows the reader shows are rows of the writer.
LEMMA ReaderLenType ==
  ASSUME TypeOK, ReplicaBehind, NEW a \in Accounts
  PROVE  ReaderLen(a) \in 0 .. Len(ledger[a])
  BY DEF TypeOK, ReplicaBehind, ReaderLen

\* The initial tables are well typed.
LEMMA InitTypeOK == Init => TypeOK
  <1> SUFFICES ASSUME Init PROVE TypeOK
    OBVIOUS
  <1>1. 0 \in Int64
    BY HalfAssumption DEF Int64
  <1>2. balance \in [Accounts -> Int64] /\ running \in [Requests -> Int64]
    BY <1>1 DEF Init
  <1>3. /\ ledger \in [Accounts -> Seq(Rows)]
        /\ wal \in Seq(WalRecords)
        /\ drafts \in [Requests -> Seq(Drafts)]
        /\ rows \in [Requests -> Seq(Rows)]
    BY DEF Init
  <1> QED
    BY <1>2, <1>3 DEF Init, TypeOK, PCs, Answers

\* Steps that only move a request on or answer it.
LEMMA ControlTypeOK ==
  ASSUME TypeOK, NEW p \in Requests,
         \/ \E s \in PCs : Goto(p, s)
         \/ \E w \in Answers : Reply(p, w)
         \/ UNCHANGED <<pc, result>>
  PROVE  pc' \in [Requests -> PCs] /\ result' \in [Requests -> Answers]
  BY ZenonT(60) DEF TypeOK, Goto, Reply, PCs

\* The handler that binds a request keeps the types.
LEMMA StartType ==
  ASSUME TypeOK, NEW p \in Requests, Start(p) PROVE TypeOK'
  <1>1. pc' \in [Requests -> PCs] /\ result' \in [Requests -> Answers]
    BY ControlTypeOK DEF Start, PCs, Answers
  <1> QED
    BY <1>1 DEF TypeOK, Start, store, replica, locals

\* The account checks of a use case lead to a step of its own operation.
LEMMA AfterAccountType ==
  ASSUME TypeOK, NEW p \in Requests
  PROVE  /\ AfterAccount(req[p].op) \in {"create", "original", "parse", "update", "delete"}
         /\ AfterAccount(req[p].op) = "create" => req[p].op = "create"
         /\ AfterAccount(req[p].op) = "original" => req[p].op = "reverse"
         /\ AfterAccount(req[p].op) = "parse" => req[p].op = "import"
  <1>1. req[p].op \in {"create", "reverse", "import", "update", "delete"}
    BY InputFields DEF TypeOK
  <1> QED
    BY <1>1 DEF AfterAccount

\* Finding the account keeps them (account.go:109-126).
LEMMA FindAccountType ==
  ASSUME TypeOK, NEW p \in Requests, FindAccount(p) PROVE TypeOK'
  <1>1. AfterAccount(req[p].op) \in PCs
    BY AfterAccountType DEF PCs
  <1>2. pc' \in [Requests -> PCs] /\ result' \in [Requests -> Answers]
    BY <1>1, ControlTypeOK DEF FindAccount, Answers
  <1> QED
    BY <1>2 DEF TypeOK, FindAccount, store, replica, locals

\* The draft of a create is one (create.go:48-145).
LEMMA PrepareCreateType ==
  ASSUME TypeOK, StepsOfOp, NEW p \in Requests, PrepareCreate(p)
  PROVE  TypeOK'
  <1>1. pc' \in [Requests -> PCs] /\ result' \in [Requests -> Answers]
    BY ControlTypeOK DEF PrepareCreate, Answers, PCs
  <1>2. req[p].amount \in Int64
    BY InputFields DEF TypeOK, StepsOfOp, PrepareCreate
  <1>3. req[p].type \in Types /\ req[p].amount > 0 =>
          <<Draft(req[p].type, req[p].amount, None, None)>> \in Seq(Drafts)
    BY <1>2, DraftType, PositiveIsAmount
  <1>4. drafts' \in [Requests -> Seq(Drafts)]
    BY <1>3 DEF TypeOK, PrepareCreate
  <1> QED
    BY <1>1, <1>4 DEF TypeOK, PrepareCreate, store, replica

\* The draft of a reversal is one, and the original is there
\* (reverse.go:79-124).
LEMMA FindOriginalType ==
  ASSUME TypeOK, StepsOfOp, ReplicaBehind, NEW p \in Requests, FindOriginal(p)
  PROVE  TypeOK'
  <1>1. pc' \in [Requests -> PCs] /\ result' \in [Requests -> Answers]
    BY ControlTypeOK DEF FindOriginal, Answers, PCs
  <1>2. req[p].stmt \in StatementIDs
    BY InputFields DEF TypeOK, StepsOfOp, FindOriginal
  <1>3. ASSUME NEW b \in Accounts, NEW i \in 1 .. ReaderLen(b)
        PROVE  <<Draft(Opposite(ledger[b][i].type), ledger[b][i].amount,
                       req[p].stmt, None)>> \in Seq(Drafts)
    <2>1. ledger[b] \in Seq(Rows) /\ i \in 1 .. Len(ledger[b])
      BY ReaderLenType DEF TypeOK
    <2>2. ledger[b][i] \in Rows
      BY <2>1, ElementOfSeq
    <2>3. /\ Opposite(ledger[b][i].type) \in Types
          /\ ledger[b][i].amount \in Amounts
      BY <2>2, OppositeType DEF Rows
    <2> QED
      BY <1>2, <2>3, DraftType
  <1>4. drafts' \in [Requests -> Seq(Drafts)]
    <2>1. CASE UNCHANGED drafts
      BY <2>1 DEF TypeOK
    <2>2. ASSUME NEW b \in Accounts, NEW i \in 1 .. ReaderLen(b),
                 drafts' = [drafts EXCEPT ![p] =
                              <<Draft(Opposite(ledger[b][i].type),
                                      ledger[b][i].amount, req[p].stmt, None)>>]
          PROVE  drafts' \in [Requests -> Seq(Drafts)]
      BY <1>3, <2>2 DEF TypeOK
    <2> QED
      BY <2>1, <2>2 DEF FindOriginal
  <1> QED
    BY <1>1, <1>4 DEF TypeOK, FindOriginal, store, replica

\* HasReversal reads only (statement.go:385-398).
LEMMA CheckReversalType ==
  ASSUME TypeOK, NEW p \in Requests, CheckReversal(p) PROVE TypeOK'
  <1>1. pc' \in [Requests -> PCs] /\ result' \in [Requests -> Answers]
    BY ControlTypeOK DEF CheckReversal, Answers, PCs
  <1> QED
    BY <1>1 DEF TypeOK, CheckReversal, store, replica, locals

\* FindExternalIDs yields external ids (statement.go:494-514).
LEMMA FindExternalIDsType ==
  ASSUME TypeOK, NEW p \in Requests, FindExternalIDs(p) PROVE TypeOK'
  <1>1. pc' \in [Requests -> PCs] /\ result' \in [Requests -> Answers]
    BY ControlTypeOK DEF FindExternalIDs, Answers, PCs
  <1>2. req[p].acct \in Accounts
    BY InputFields DEF TypeOK
  <1>3. ExternalIDsOf(req[p].acct) \subseteq ExternalIDs
    <2>1. ledger[req[p].acct] \in Seq(Rows)
      BY <1>2 DEF TypeOK
    <2>2. \A i \in 1 .. Len(ledger[req[p].acct]) : ledger[req[p].acct][i] \in Rows
      BY <2>1, ElementOfSeq
    <2> QED
      BY <2>2 DEF ExternalIDsOf, Rows
  <1>4. existing' \in [Requests -> SUBSET ExternalIDs]
    BY <1>3, ZenonT(60) DEF TypeOK, FindExternalIDs
  <1> QED
    BY <1>1, <1>4 DEF TypeOK, FindExternalIDs, store, replica

\* Mapping a transaction adds a draft (import.go:94-117).
LEMMA MapTransactionType ==
  ASSUME TypeOK, StepsOfOp, NEW p \in Requests, MapTransaction(p) PROVE TypeOK'
  <1> DEFINE t == req[p].txns[cursor[p]]
  <1>1. pc' \in [Requests -> PCs] /\ result' \in [Requests -> Answers]
    BY ControlTypeOK DEF MapTransaction, Answers
  <1>2. cursor' \in [Requests -> Nat \ {0}]
    BY DEF TypeOK, MapTransaction
  <1>3. t \in Txn
    <2>1. req[p].txns \in Seq(Txn)
      BY InputFields DEF TypeOK, StepsOfOp, MapTransaction
    <2>2. cursor[p] \in 1 .. Len(req[p].txns)
      BY <2>1 DEF TypeOK, MapTransaction
    <2> QED
      BY <2>1, <2>2, ElementOfSeq
  <1>4. AbsCents(t.amount) > 0 =>
          Draft(TypeOf(t.amount), AbsCents(t.amount), None, t.fitid) \in Drafts
    <2>1. AbsCents(t.amount) > 0 => AbsCents(t.amount) \in Amounts
      BY <1>3, AbsCentsType, PositiveIsAmount DEF Txn
    <2>2. TypeOf(t.amount) \in Types /\ t.fitid \in ExternalIDs \cup {None}
      BY <1>3 DEF Txn, TypeOf, Types
    <2> QED
      BY <2>1, <2>2, DraftType
  <1>5. AbsCents(t.amount) > 0 =>
          Append(drafts[p], Draft(TypeOf(t.amount), AbsCents(t.amount), None, t.fitid))
            \in Seq(Drafts)
    BY <1>4, AppendProperties DEF TypeOK
  <1>6. drafts' \in [Requests -> Seq(Drafts)]
    BY <1>5 DEF TypeOK, MapTransaction
  <1> QED
    BY <1>1, <1>2, <1>6 DEF TypeOK, MapTransaction, store, replica

\* The end of the loop of an import keeps the types (import.go:119-138).
LEMMA EndMappingType ==
  ASSUME TypeOK, NEW p \in Requests, EndMapping(p) PROVE TypeOK'
  <1>1. pc' \in [Requests -> PCs] /\ result' \in [Requests -> Answers]
    BY ControlTypeOK DEF EndMapping, Answers, PCs
  <1> QED
    BY <1>1 DEF TypeOK, EndMapping, store, replica, locals

\* Locking the row reads a balance (statement.go:176-186).
LEMMA LockAccountType ==
  ASSUME TypeOK, NEW p \in Requests, LockAccount(p) PROVE TypeOK'
  <1>1. pc' \in [Requests -> PCs] /\ result' \in [Requests -> Answers]
    BY ControlTypeOK DEF LockAccount, PCs
  <1>2. /\ rowLock' \in [Accounts -> Requests \cup {None}]
        /\ running' \in [Requests -> Int64]
    BY InputFields DEF TypeOK, LockAccount
  <1> QED
    BY <1>1, <1>2 DEF TypeOK, LockAccount, store, replica

\* A row of the transaction is a row, its balance an int64
\* (statement.go:412-462).
LEMMA BuildRowType ==
  ASSUME TypeOK, NEW p \in Requests, BuildRow(p) PROVE TypeOK'
  <1> DEFINE n == Len(rows[p]) + 1
             d == drafts[p][n]
             b == Apply(running[p], d.type, d.amount)
             r == [id |-> <<p, n>>, type |-> d.type, amount |-> d.amount,
                   ref |-> d.ref, ext |-> d.ext, balanceAfter |-> b]
  <1>1. rows[p] \in Seq(Rows) /\ drafts[p] \in Seq(Drafts) /\ n \in Nat \ {0}
    BY DEF TypeOK
  <1>2. d \in Drafts
    BY <1>1, ElementOfSeq DEF BuildRow
  <1>3. b \in Int64
    BY <1>2, ApplyType, PositiveIsAmount DEF TypeOK, Drafts
  <1>4. r \in Rows
    BY <1>1, <1>2, <1>3 DEF Rows, Drafts, StatementIDs
  <1>5. Append(rows[p], r) \in Seq(Rows)
    BY <1>1, <1>4, AppendProperties
  <1>6. /\ rows' = [rows EXCEPT ![p] = Append(rows[p], r)]
        /\ running' = [running EXCEPT ![p] = b]
    BY DEF BuildRow
  <1>7. rows' \in [Requests -> Seq(Rows)] /\ running' \in [Requests -> Int64]
    BY <1>3, <1>5, <1>6 DEF TypeOK
  <1> QED
    BY <1>7 DEF TypeOK, BuildRow, store, replica

\* Ending a transaction frees the row.
LEMMA ReleaseType ==
  ASSUME TypeOK, NEW p \in Requests, Release(p)
  PROVE  rowLock' \in [Accounts -> Requests \cup {None}]
  BY DEF TypeOK, Release

\* Publishing a commit extends the stream by an entry of its type.
LEMMA PublishType ==
  ASSUME TypeOK, NEW a \in Accounts, NEW n \in Nat, NEW w \in BOOLEAN,
         Publish(a, n, w)
  PROVE  wal' \in Seq(WalRecords)
  <1>1. [acct |-> a, len |-> n, active |-> w] \in WalRecords
    BY DEF WalRecords
  <1>2. Append(wal, [acct |-> a, len |-> n, active |-> w]) \in Seq(WalRecords)
    BY <1>1, AppendProperties DEF TypeOK
  <1> QED
    BY <1>2 DEF TypeOK, Publish

\* Inserting keeps the types (statement.go:197-247).
LEMMA InsertRowsType ==
  ASSUME TypeOK, NEW p \in Requests, InsertRows(p) PROVE TypeOK'
  <1>1. pc' \in [Requests -> PCs] /\ result' \in [Requests -> Answers]
    BY ControlTypeOK DEF InsertRows, Answers, PCs
  <1>2. rowLock' \in [Accounts -> Requests \cup {None}]
    BY ReleaseType DEF InsertRows, TypeOK
  <1> QED
    BY <1>1, <1>2 DEF TypeOK, InsertRows, store, replica, locals

\* A commit appends rows and stores an int64 balance (statement.go:464-492).
LEMMA CommitType ==
  ASSUME TypeOK, NEW p \in Requests, Commit(p) PROVE TypeOK'
  <1> DEFINE a == req[p].acct
  <1>1. pc' \in [Requests -> PCs] /\ result' \in [Requests -> Answers]
    BY ControlTypeOK DEF Commit, Answers
  <1>2. rowLock' \in [Accounts -> Requests \cup {None}]
    BY ReleaseType DEF Commit
  <1>3. a \in Accounts
    BY InputFields DEF TypeOK
  <1>4. ledger[a] \in Seq(Rows) /\ rows[p] \in Seq(Rows)
    BY <1>3 DEF TypeOK
  <1>5. ledger[a] \o rows[p] \in Seq(Rows)
    BY <1>4, ConcatProperties
  <1>6. ledger' \in [Accounts -> Seq(Rows)] /\ balance' \in [Accounts -> Int64]
    BY <1>5 DEF TypeOK, Commit
  <1>7. wal' \in Seq(WalRecords)
    <2>0. Len(ledger[a]) \in Nat /\ Len(rows[p]) \in Nat
      BY <1>4, LenProperties
    <2>1. Len(ledger[a]) + Len(rows[p]) \in Nat
      BY <2>0, NatSum
    <2>2. active[a] \in BOOLEAN
      BY <1>3 DEF TypeOK
    <2>3. Publish(a, Len(ledger[a]) + Len(rows[p]), active[a])
      BY DEF Commit
    <2> QED
      BY <2>1, <2>2, <2>3, <1>3, PublishType
  <1> QED
    BY <1>1, <1>2, <1>6, <1>7 DEF TypeOK, Commit, locals

\* A write of the row of an account changes active only, and publishes it.
LEMMA WriteAccountType ==
  ASSUME TypeOK, NEW p \in Requests, NEW a \in Accounts, NEW w \in BOOLEAN,
         WriteAccount(p, a, w)
  PROVE  /\ pc' \in [Requests -> PCs] /\ result' \in [Requests -> Answers]
         /\ active' \in [Accounts -> BOOLEAN]
         /\ wal' \in Seq(WalRecords)
  <1>1. pc' \in [Requests -> PCs] /\ result' \in [Requests -> Answers]
    BY ControlTypeOK DEF WriteAccount, Answers
  <1>2. Len(ledger[a]) \in Nat
    BY DEF TypeOK
  <1>3. wal' \in Seq(WalRecords)
    BY <1>2, PublishType DEF WriteAccount
  <1>4. active' \in [Accounts -> BOOLEAN]
    BY DEF WriteAccount, TypeOK
  <1> QED
    BY <1>1, <1>3, <1>4

\* Updates and deletes of accounts change active only (account.go:250-302).
LEMMA AccountWriteType ==
  ASSUME TypeOK, NEW p \in Requests, SoftDelete(p) \/ UpdateAccount(p)
  PROVE  TypeOK'
  <1> DEFINE a == req[p].acct
  <1>1. a \in Accounts
    BY InputFields DEF TypeOK
  <1>2. CASE \E w \in BOOLEAN : WriteAccount(p, a, w)
    BY <1>1, <1>2, WriteAccountType DEF TypeOK, SoftDelete, UpdateAccount, locals
  <1>3. CASE UNCHANGED <<active, wal>> /\ \E w \in Answers : Reply(p, w)
    <2>1. pc' \in [Requests -> PCs] /\ result' \in [Requests -> Answers]
      BY <1>3, ControlTypeOK
    <2> QED
      BY <1>3, <2>1 DEF TypeOK, SoftDelete, UpdateAccount, locals
  <1>4. \/ \E w \in BOOLEAN : WriteAccount(p, a, w)
        \/ UNCHANGED <<active, wal>> /\ \E w \in Answers : Reply(p, w)
    BY DEF SoftDelete, UpdateAccount, Answers
  <1> QED
    BY <1>2, <1>3, <1>4

\* A failure abandons the transaction and its types.
LEMMA FailType ==
  ASSUME TypeOK, NEW p \in Requests, Fail(p) PROVE TypeOK'
  <1>1. pc' \in [Requests -> PCs] /\ result' \in [Requests -> Answers]
    BY ControlTypeOK DEF Fail, Answers
  <1>2. rowLock' \in [Accounts -> Requests \cup {None}]
    BY DEF Fail, TypeOK
  <1> QED
    BY <1>1, <1>2 DEF TypeOK, Fail, store, replica, locals

\* The replica takes what the stream holds.
LEMMA ReplicateType ==
  ASSUME TypeOK, Replicate PROVE TypeOK'
  <1>1. wal[1] \in WalRecords /\ Tail(wal) \in Seq(WalRecords)
    BY HeadTailProperties, ElementOfSeq, EmptySeq DEF TypeOK, Replicate
  <1>2. /\ repActive' \in [Accounts -> BOOLEAN]
        /\ repLen' \in [Accounts -> Nat]
        /\ wal' \in Seq(WalRecords)
    BY <1>1 DEF TypeOK, Replicate, WalRecords
  <1> QED
    BY <1>2 DEF TypeOK, Replicate, store, locals

\* Every step of the ledger keeps the tables and the frames well typed.
LEMMA NextTypeOK ==
  ASSUME TypeOK, StepsOfOp, ReplicaBehind, [Next]_vars PROVE TypeOK'
  <1>1. CASE UNCHANGED vars
    BY <1>1 DEF TypeOK, vars, store, replica, locals
  <1>2. ASSUME NEW p \in Requests, Start(p) \/ Step(p) \/ Fail(p) PROVE TypeOK'
    BY <1>2, StartType, FindAccountType, PrepareCreateType, FindOriginalType,
       CheckReversalType, FindExternalIDsType, MapTransactionType, EndMappingType,
       LockAccountType, BuildRowType, InsertRowsType, CommitType, AccountWriteType,
       FailType
    DEF Step
  <1>3. CASE Replicate
    BY <1>3, ReplicateType
  <1> QED
    BY <1>1, <1>2, <1>3 DEF Next, Quiescent

-----------------------------------------------------------------------------
(***************************************************************************)
(* Control: a request stays at the steps of its operation.                 *)
(***************************************************************************)

\* The step s belongs to the operation op.
StepFits(s, op) ==
  /\ s = "create" => op = "create"
  /\ s \in {"original", "hasReversal"} => op = "reverse"
  /\ s \in {"parse", "map"} => op = "import"

\* Moving one request to a step of its operation leaves every request at
\* one of its own.
LEMMA MoveStepsOfOp ==
  ASSUME TypeOK, StepsOfOp, NEW p \in Requests, NEW s, StepFits(s, req[p].op),
         pc' = [pc EXCEPT ![p] = s], req' = req
  PROVE  StepsOfOp'
  BY DEF TypeOK, StepsOfOp, StepFits

\* A request only reaches the steps of its own operation: a reversal never
\* maps transactions, a create is never a batch.
LEMMA NextStepsOfOp ==
  ASSUME TypeOK, StepsOfOp, [Next]_vars PROVE StepsOfOp'
  <1>0. CASE UNCHANGED <<pc, req>>
    BY <1>0 DEF StepsOfOp
  <1>1. ASSUME NEW p \in Requests, NEW w, Reply(p, w), req' = req PROVE StepsOfOp'
    BY <1>1, MoveStepsOfOp DEF Reply, StepFits
  <1>2. ASSUME NEW p \in Requests, NEW s \in {"account", "delete", "lock", "build", "commit"},
               Goto(p, s), req' = req
        PROVE  StepsOfOp'
    BY <1>2, MoveStepsOfOp DEF Goto, StepFits
  <1>3. ASSUME NEW p \in Requests, FindAccount(p) PROVE StepsOfOp'
    <2>1. StepFits(AfterAccount(req[p].op), req[p].op)
      BY AfterAccountType DEF StepFits
    <2>2. Goto(p, AfterAccount(req[p].op)) => StepsOfOp'
      BY <1>3, <2>1, MoveStepsOfOp DEF Goto, FindAccount
    <2> QED
      BY <1>1, <1>3, <2>2 DEF FindAccount
  <1>4. ASSUME NEW p \in Requests, FindOriginal(p) PROVE StepsOfOp'
    <2>1. Goto(p, "hasReversal") => StepsOfOp'
      BY <1>4, MoveStepsOfOp DEF Goto, FindOriginal, StepFits, StepsOfOp
    <2> QED
      BY <1>1, <1>4, <2>1 DEF FindOriginal
  <1>5. ASSUME NEW p \in Requests, FindExternalIDs(p) PROVE StepsOfOp'
    <2>1. Goto(p, "map") => StepsOfOp'
      BY <1>5, MoveStepsOfOp DEF Goto, FindExternalIDs, StepFits, StepsOfOp
    <2> QED
      BY <1>1, <1>5, <2>1 DEF FindExternalIDs
  <1>6. ASSUME NEW p \in Requests, Start(p) \/ Step(p) \/ Fail(p) PROVE StepsOfOp'
    <2>1. CASE Start(p) \/ Fail(p)
      BY <1>1, <1>2, <2>1 DEF Start, Fail
    <2>2. CASE PrepareCreate(p) \/ CheckReversal(p) \/ EndMapping(p)
      BY <1>1, <1>2, <2>2 DEF PrepareCreate, CheckReversal, EndMapping
    <2>3. CASE MapTransaction(p) \/ BuildRow(p)
      BY <1>0, <1>1, <2>3 DEF MapTransaction, BuildRow
    <2>4. CASE LockAccount(p) \/ InsertRows(p)
      BY <1>1, <1>2, <2>4 DEF LockAccount, InsertRows
    <2>5. CASE Commit(p) \/ SoftDelete(p) \/ UpdateAccount(p)
      BY <1>1, <2>5 DEF Commit, SoftDelete, UpdateAccount, WriteAccount
    <2> QED
      BY <1>3, <1>4, <1>5, <1>6, <2>1, <2>2, <2>3, <2>4, <2>5 DEF Step
  <1>7. CASE Replicate
    BY <1>0, <1>7 DEF Replicate
  <1> QED
    BY <1>0, <1>6, <1>7 DEF Next, Quiescent, vars

-----------------------------------------------------------------------------
(***************************************************************************)
(* The ledger only grows, and the replica stays behind it.                 *)
(***************************************************************************)

\* Only COMMIT writes statements and balances.
LEMMA OnlyCommitWrites ==
  ASSUME [Next]_vars
  PROVE  \/ UNCHANGED <<ledger, balance>>
         \/ \E p \in Requests : Commit(p)
  <1>1. ASSUME NEW p \in Requests, Start(p) \/ Step(p) \/ Fail(p)
        PROVE  UNCHANGED <<ledger, balance>> \/ Commit(p)
    BY <1>1
    DEF Step, Start, FindAccount, PrepareCreate, FindOriginal, CheckReversal,
        FindExternalIDs, MapTransaction, EndMapping, LockAccount, BuildRow,
        InsertRows, SoftDelete, UpdateAccount, Fail, store
  <1> QED
    BY <1>1 DEF Next, Replicate, Quiescent, vars, store

\* Where the elements of two concatenated sequences are.
LEMMA ConcatParts ==
  ASSUME NEW S, NEW s \in Seq(S), NEW t \in Seq(S), NEW u, u = s \o t
  PROVE  /\ Len(s) \in Nat /\ Len(t) \in Nat
         /\ Len(u) = Len(s) + Len(t)
         /\ \A i \in 1 .. Len(s) : u[i] = s[i]
         /\ \A i \in 1 .. Len(t) : u[Len(s) + i] = t[i]
  <1>1. Len(s) \in Nat /\ Len(t) \in Nat
    BY LenProperties
  <1>2. /\ Len(u) = Len(s) + Len(t)
        /\ \A i \in 1 .. Len(s) + Len(t) :
             u[i] = IF i <= Len(s) THEN s[i] ELSE t[i - Len(s)]
    BY ConcatProperties
  <1>3. \A i \in 1 .. Len(s) : i \in 1 .. Len(s) + Len(t) /\ i <= Len(s)
    BY <1>1
  <1>4. \A i \in 1 .. Len(t) : /\ Len(s) + i \in 1 .. Len(s) + Len(t)
                               /\ ~(Len(s) + i <= Len(s))
                               /\ (Len(s) + i) - Len(s) = i
    BY <1>1
  <1>5. \A i \in 1 .. Len(t) : u[Len(s) + i] = t[i]
    BY <1>2, <1>4
  <1> QED
    BY <1>1, <1>2, <1>3, <1>5

\* COMMIT leaves the committed rows in place and puts its own behind them.
LEMMA CommitGrows ==
  ASSUME TypeOK, NEW p \in Requests, Commit(p), NEW a, a = req[p].acct
  PROVE  /\ a \in Accounts
         /\ ledger[a] \in Seq(Rows)
         /\ rows[p] \in Seq(Rows)
         /\ Len(ledger[a]) \in Nat
         /\ Len(rows[p]) \in Nat
         /\ Len(ledger'[a]) = Len(ledger[a]) + Len(rows[p])
         /\ \A i \in 1 .. Len(ledger[a]) : ledger'[a][i] = ledger[a][i]
         /\ \A i \in 1 .. Len(rows[p]) : ledger'[a][Len(ledger[a]) + i] = rows[p][i]
         /\ \A b \in Accounts \ {a} : ledger'[b] = ledger[b]
  <1>1. a \in Accounts
    BY InputFields DEF TypeOK
  <1>2. ledger[a] \in Seq(Rows) /\ rows[p] \in Seq(Rows)
    BY <1>1 DEF TypeOK
  <1>3. ledger'[a] = ledger[a] \o rows[p]
    BY <1>1 DEF Commit, TypeOK
  <1>4. \A b \in Accounts \ {a} : ledger'[b] = ledger[b]
    BY <1>1 DEF Commit, TypeOK
  <1>5. /\ Len(ledger[a]) \in Nat /\ Len(rows[p]) \in Nat
        /\ Len(ledger'[a]) = Len(ledger[a]) + Len(rows[p])
        /\ \A i \in 1 .. Len(ledger[a]) : ledger'[a][i] = ledger[a][i]
        /\ \A i \in 1 .. Len(rows[p]) : ledger'[a][Len(ledger[a]) + i] = rows[p][i]
    <2>1. PICK s, t, u : s = ledger[a] /\ t = rows[p] /\ u = ledger'[a]
      OBVIOUS
    <2>2. s \in Seq(Rows) /\ t \in Seq(Rows) /\ u = s \o t
      BY <1>2, <1>3, <2>1
    <2>3. /\ Len(s) \in Nat /\ Len(t) \in Nat
          /\ Len(u) = Len(s) + Len(t)
          /\ \A i \in 1 .. Len(s) : u[i] = s[i]
          /\ \A i \in 1 .. Len(t) : u[Len(s) + i] = t[i]
      BY <2>2, ConcatParts
    <2> QED
      BY <2>1, <2>3
  <1> QED
    BY ONLY <1>1, <1>2, <1>4, <1>5, Zenon

\* No step changes or removes a committed statement.
LEMMA NextGrows ==
  ASSUME TypeOK, [Next]_vars, NEW a \in Accounts
  PROVE  /\ Len(ledger[a]) \in Nat /\ Len(ledger'[a]) \in Nat
         /\ Len(ledger'[a]) >= Len(ledger[a])
         /\ \A i \in 1 .. Len(ledger[a]) : ledger'[a][i] = ledger[a][i]
  <1>0. Len(ledger[a]) \in Nat
    BY DEF TypeOK
  <1>1. CASE UNCHANGED <<ledger, balance>>
    BY <1>0, <1>1
  <1>2. ASSUME NEW p \in Requests, Commit(p)
        PROVE  /\ Len(ledger'[a]) \in Nat
               /\ Len(ledger'[a]) >= Len(ledger[a])
               /\ \A i \in 1 .. Len(ledger[a]) : ledger'[a][i] = ledger[a][i]
    <2>1. CASE a = req[p].acct
      <3>1. /\ Len(rows[p]) \in Nat
            /\ Len(ledger'[a]) = Len(ledger[a]) + Len(rows[p])
            /\ \A i \in 1 .. Len(ledger[a]) : ledger'[a][i] = ledger[a][i]
        BY <1>2, <2>1, CommitGrows, ZenonT(60)
      <3>2. Len(ledger'[a]) \in Nat /\ Len(ledger'[a]) >= Len(ledger[a])
        BY <1>0, <3>1, NatSum, Zenon
      <3> QED
        BY <3>1, <3>2, Zenon
    <2>2. CASE a # req[p].acct
      <3>1. ledger'[a] = ledger[a]
        BY <1>2, <2>2 DEF Commit, TypeOK
      <3> QED
        BY <1>0, <3>1
    <2> QED
      BY <2>1, <2>2
  <1> QED
    BY <1>0, <1>1, <1>2, OnlyCommitWrites

\* The stream and the replica hold lengths the writer has reached.
LEMMA NextReplicaBehind ==
  ASSUME TypeOK, ReplicaBehind, [Next]_vars PROVE ReplicaBehind'
  <1>0. \A a \in Accounts : /\ Len(ledger[a]) \in Nat /\ Len(ledger'[a]) \in Nat
                            /\ Len(ledger'[a]) >= Len(ledger[a])
    BY NextGrows
  <1>t. /\ wal \in Seq(WalRecords)
        /\ \A i \in 1 .. Len(wal) : wal[i] \in WalRecords
    BY ElementOfSeq DEF TypeOK
  <1>1. CASE UNCHANGED <<wal, repLen>>
    BY <1>0, <1>1, <1>t, SMTT(40) DEF ReplicaBehind, TypeOK, WalRecords
  <1>2. ASSUME NEW a \in Accounts, NEW n \in Nat, NEW w \in BOOLEAN,
               Publish(a, n, w), n <= Len(ledger'[a]), repLen' = repLen
        PROVE  ReplicaBehind'
    <2>1. CASE wal' = wal
      BY <1>1, <1>2, <2>1
    <2>2. CASE wal' = Append(wal, [acct |-> a, len |-> n, active |-> w])
      <3>1. [acct |-> a, len |-> n, active |-> w] \in WalRecords
        BY DEF WalRecords
      <3>2. /\ Len(wal') = Len(wal) + 1
            /\ \A i \in 1 .. Len(wal) : wal'[i] = wal[i]
            /\ wal'[Len(wal) + 1] = [acct |-> a, len |-> n, active |-> w]
        BY <1>t, <2>2, <3>1, AppendProperties
      <3>3. Len(wal) \in Nat
        BY <1>t
      <3>4. \A i \in 1 .. Len(wal') : wal'[i].len <= Len(ledger'[wal'[i].acct])
        <4> TAKE i \in 1 .. Len(wal')
        <4>1. CASE i \in 1 .. Len(wal)
          <5>1. wal[i].acct \in Accounts /\ wal[i].len \in Nat
            BY <1>t, <4>1 DEF WalRecords
          <5>2. wal[i].len <= Len(ledger[wal[i].acct])
            BY <4>1 DEF ReplicaBehind
          <5> QED
            BY <1>0, <3>2, <4>1, <5>1, <5>2
        <4>2. CASE i = Len(wal) + 1
          BY <1>2, <3>2, <4>2
        <4> QED
          BY <3>2, <3>3, <4>1, <4>2
      <3>5. \A b \in Accounts : repLen'[b] <= Len(ledger'[b])
        BY <1>0, <1>2 DEF ReplicaBehind, TypeOK
      <3> QED
        BY <3>4, <3>5 DEF ReplicaBehind
    <2> QED
      BY <1>2, <2>1, <2>2 DEF Publish
  <1>3. ASSUME NEW p \in Requests, Commit(p) PROVE ReplicaBehind'
    <2>3. req[p].acct \in Accounts
      BY InputFields DEF TypeOK
    <2>0. /\ Len(ledger[req[p].acct]) \in Nat /\ Len(rows[p]) \in Nat
          /\ Len(ledger'[req[p].acct]) = Len(ledger[req[p].acct]) + Len(rows[p])
      BY <1>3, CommitGrows, Zenon
    <2>1. Len(ledger[req[p].acct]) + Len(rows[p]) \in Nat
      BY <2>0, NatSum
    <2>2. Len(ledger[req[p].acct]) + Len(rows[p]) <= Len(ledger'[req[p].acct])
      BY <2>0
    <2>4. active[req[p].acct] \in BOOLEAN
      BY <2>3 DEF TypeOK
    <2>5. /\ Publish(req[p].acct, Len(ledger[req[p].acct]) + Len(rows[p]), active[req[p].acct])
          /\ repLen' = repLen
      BY <1>3 DEF Commit
    <2> QED
      BY <1>2, <2>1, <2>2, <2>3, <2>4, <2>5
  <1>4. ASSUME NEW p \in Requests, SoftDelete(p) \/ UpdateAccount(p) PROVE ReplicaBehind'
    <2>1. req[p].acct \in Accounts
      BY InputFields DEF TypeOK
    <2>2. /\ repLen' = repLen
          /\ \/ wal' = wal
             \/ \E w \in BOOLEAN : Publish(req[p].acct, Len(ledger[req[p].acct]), w)
      BY <1>4 DEF SoftDelete, UpdateAccount, WriteAccount
    <2>3. CASE wal' = wal
      BY <1>1, <2>2, <2>3
    <2>4. ASSUME NEW w \in BOOLEAN, Publish(req[p].acct, Len(ledger[req[p].acct]), w)
          PROVE  ReplicaBehind'
      BY <1>0, <1>2, <2>1, <2>2, <2>4
    <2> QED
      BY <2>2, <2>3, <2>4
  <1>5. CASE Replicate
    <2>1. wal # << >> /\ wal' = Tail(wal) /\ ledger' = ledger
      BY <1>5 DEF Replicate, store
    <2>2. /\ Len(wal) \in Nat \ {0}
          /\ Len(wal') = Len(wal) - 1
          /\ \A i \in 1 .. Len(wal') : wal'[i] = wal[i + 1]
      BY <1>t, <2>1, HeadTailProperties, EmptySeq
    <2>3. \A i \in 1 .. Len(wal') : wal'[i].len <= Len(ledger'[wal'[i].acct])
      BY <2>1, <2>2 DEF ReplicaBehind
    <2>4. wal[1] \in WalRecords /\ wal[1].len <= Len(ledger[wal[1].acct])
      BY <1>t, <2>2 DEF ReplicaBehind
    <2>5. repLen' = [repLen EXCEPT ![wal[1].acct] = wal[1].len]
      BY <1>5 DEF Replicate
    <2>6. \A a \in Accounts : repLen'[a] <= Len(ledger'[a])
      BY <2>1, <2>4, <2>5, SMTT(40) DEF ReplicaBehind, TypeOK, WalRecords
    <2> QED
      BY <2>3, <2>6 DEF ReplicaBehind
  <1>6. ASSUME NEW p \in Requests, Start(p) \/ Step(p) \/ Fail(p)
        PROVE  UNCHANGED <<wal, repLen>> \/ Commit(p) \/ SoftDelete(p) \/ UpdateAccount(p)
    BY <1>6
    DEF Step, Start, FindAccount, PrepareCreate, FindOriginal, CheckReversal,
        FindExternalIDs, MapTransaction, EndMapping, LockAccount, BuildRow,
        InsertRows, Fail, replica
  <1> QED
    BY <1>1, <1>3, <1>4, <1>5, <1>6 DEF Next, Quiescent, vars, replica

\* The parts of TypeInv are preserved together.
LEMMA TypeInvariant == Spec => []TypeInv
  <1>1. Init => TypeInv
    <2>1. Init => StepsOfOp
      BY DEF Init, StepsOfOp
    <2>2. Init => ReplicaBehind
      BY DEF Init, ReplicaBehind
    <2> QED
      BY <2>1, <2>2, InitTypeOK DEF TypeInv
  <1>2. TypeInv /\ [Next]_vars => TypeInv'
    BY NextTypeOK, NextStepsOfOp, NextReplicaBehind DEF TypeInv
  <1> QED
    BY <1>1, <1>2, PTL DEF Spec

\* Whatever the requests and their inputs, tables, stream and frames hold
\* values of their types and no statement is drafted or stored without a positive
\* amount (amount.go:8-17, import.go:94-158, statement.go:168-230, 401-492).
THEOREM TypeCorrect == Spec => []TypeOK
  <1>1. TypeInv => TypeOK
    BY DEF TypeInv
  <1> QED
    BY <1>1, TypeInvariant, PTL

\* No request ever changes or removes a committed statement (statement.go has
\* INSERT INTO statements and no UPDATE of its amounts, migration 20260411002).
THEOREM LedgerAppendOnly == Spec => AppendOnly
  <1> DEFINE Grows ==
        \A a \in Accounts :
          /\ Len(ledger'[a]) >= Len(ledger[a])
          /\ \A i \in 1 .. Len(ledger[a]) : ledger'[a][i] = ledger[a][i]
  <1>1. TypeInv /\ [Next]_vars => Grows
    BY NextGrows DEF TypeInv
  <1>2. TypeInv /\ [Next]_vars => [Grows]_ledger
    BY <1>1
  <1> HIDE DEF Grows
  <1>3. Spec => [][Grows]_ledger
    BY <1>2, TypeInvariant, PTL DEF Spec
  <1> QED
    BY <1>3 DEF AppendOnly, Grows

-----------------------------------------------------------------------------
(***************************************************************************)
(* Balances: the row lock carries the balance from SELECT ... FOR UPDATE   *)
(* to COMMIT.                                                              *)
(***************************************************************************)

\* A step that neither opens nor fills nor commits a transaction.
QuietStep ==
  /\ UNCHANGED <<rows, running, balance, ledger, req>>
  /\ \A q \in Requests :
       \/ pc'[q] = pc[q]
       \/ pc'[q] = "done"
       \/ pc[q] \notin {"build", "commit", "done"} /\ pc'[q] \notin {"build", "commit"}
       \/ pc[q] = "build" /\ pc'[q] = "commit"

\* Answering a request, or moving one that has no transaction, is quiet.
LEMMA ReplyQuiet ==
  ASSUME TypeOK, NEW p \in Requests, NEW w, Reply(p, w),
         UNCHANGED <<rows, running, balance, ledger, req>>
  PROVE  QuietStep
  BY DEF QuietStep, Reply, TypeOK

\* A request that moves on between steps outside a transaction leaves the
\* other requests' places alone.
LEMMA GotoQuiet ==
  ASSUME TypeOK, NEW p \in Requests, NEW s, Goto(p, s),
         \/ pc[p] \notin {"build", "commit", "done"} /\ s \notin {"build", "commit"}
         \/ pc[p] = "build" /\ s = "commit",
         UNCHANGED <<rows, running, balance, ledger, req>>
  PROVE  QuietStep
  BY DEF QuietStep, Goto, TypeOK

\* So does a step that moves nobody.
LEMMA SameControlQuiet ==
  ASSUME UNCHANGED <<pc, rows, running, balance, ledger, req>>
  PROVE  QuietStep
  BY DEF QuietStep

\* All steps but three are quiet.
LEMMA StepKinds ==
  ASSUME TypeOK, [Next]_vars
  PROVE  \/ QuietStep
         \/ \E p \in Requests : LockAccount(p) \/ BuildRow(p) \/ Commit(p)
  <1>1. ASSUME NEW p \in Requests, Start(p) \/ Fail(p) PROVE QuietStep
    BY <1>1, ReplyQuiet, GotoQuiet DEF Start, Fail, store, locals
  <1>2. ASSUME NEW p \in Requests, FindAccount(p) PROVE QuietStep
    <2>1. AfterAccount(req[p].op) \notin {"build", "commit"}
      BY AfterAccountType
    <2> QED
      BY <1>2, <2>1, ReplyQuiet, GotoQuiet DEF FindAccount, store, locals
  <1>3. ASSUME NEW p \in Requests, PrepareCreate(p) \/ FindOriginal(p) PROVE QuietStep
    <2>1. CASE PrepareCreate(p)
      BY <2>1, ReplyQuiet, GotoQuiet DEF PrepareCreate, store
    <2>2. CASE FindOriginal(p)
      BY <2>2, ReplyQuiet, GotoQuiet DEF FindOriginal, store
    <2> QED
      BY <1>3, <2>1, <2>2
  <1>4. ASSUME NEW p \in Requests, CheckReversal(p) \/ FindExternalIDs(p) PROVE QuietStep
    BY <1>4, ReplyQuiet, GotoQuiet DEF CheckReversal, FindExternalIDs, store, locals
  <1>5. ASSUME NEW p \in Requests, MapTransaction(p) \/ EndMapping(p) PROVE QuietStep
    BY <1>5, ReplyQuiet, GotoQuiet, SameControlQuiet
    DEF MapTransaction, EndMapping, store, locals
  <1>6. ASSUME NEW p \in Requests, InsertRows(p) \/ SoftDelete(p) \/ UpdateAccount(p)
        PROVE  QuietStep
    BY <1>6, ReplyQuiet, GotoQuiet
    DEF InsertRows, SoftDelete, UpdateAccount, WriteAccount, store, locals
  <1>7. CASE Replicate \/ UNCHANGED vars
    BY <1>7, SameControlQuiet DEF Replicate, vars, store, locals
  <1> QED
    BY <1>1, <1>2, <1>3, <1>4, <1>5, <1>6, <1>7 DEF Next, Step, Quiescent

\* Two open transactions are on different accounts.
LEMMA DifferentAccounts ==
  ASSUME LockHeld, NEW p \in Requests, NEW q \in Requests, p # q, InTx(p), InTx(q)
  PROVE  req[p].acct # req[q].acct
  BY DEF LockHeld

\* The lock of a row is held by exactly the request whose transaction is
\* open on it: FOR UPDATE excludes, commit and rollback release.
LEMMA NextLockHeld ==
  ASSUME TypeOK, LockHeld, [Next]_vars PROVE LockHeld'
  <1>1. ASSUME NEW p \in Requests, LockAccount(p) PROVE LockHeld'
    <2>1. req[p].acct \in Accounts /\ p # None
      BY InputFields, NoneAssumption DEF TypeOK
    <2>2. ASSUME NEW q \in Requests, InTx(q)' PROVE rowLock'[req'[q].acct] = q
      <3>1. CASE q = p
        BY <1>1, <2>1, <3>1 DEF LockAccount, TypeOK
      <3>2. CASE q # p
        <4>1. InTx(q)
          BY <1>1, <2>2, <3>2 DEF LockAccount, Goto, InTx, TypeOK
        <4>2. rowLock[req[q].acct] = q /\ q # None
          BY <4>1, NoneAssumption DEF LockHeld
        <4> QED
          BY <1>1, <2>1, <4>2 DEF LockAccount, TypeOK
      <3> QED
        BY <3>1, <3>2
    <2> QED
      BY <2>2 DEF LockHeld
  <1>2. ASSUME NEW p \in Requests, InTx(p), Release(p), \E w : Reply(p, w), req' = req
        PROVE  LockHeld'
    <2>1. ASSUME NEW q \in Requests, InTx(q)' PROVE rowLock'[req'[q].acct] = q
      <3>1. q # p /\ InTx(q)
        BY <1>2, <2>1 DEF Reply, InTx, TypeOK
      <3>2. req[p].acct # req[q].acct
        BY <1>2, <3>1, DifferentAccounts
      <3> QED
        BY <1>2, <3>1, <3>2 DEF Release, LockHeld, TypeOK
    <2> QED
      BY <2>1 DEF LockHeld
  <1>3. ASSUME NEW p \in Requests, Fail(p) PROVE LockHeld'
    <2>1. ASSUME NEW q \in Requests, InTx(q)' PROVE rowLock'[req'[q].acct] = q
      <3>1. q # p /\ InTx(q) /\ req' = req
        BY <1>3, <2>1 DEF Fail, Reply, InTx, TypeOK
      <3>2. req[q].acct \in Accounts /\ rowLock[req[q].acct] = q
        BY <3>1, InputFields DEF LockHeld, TypeOK
      <3> QED
        BY <1>3, <3>1, <3>2 DEF Fail
    <2> QED
      BY <2>1 DEF LockHeld
  <1>4. ASSUME rowLock' = rowLock, QuietStep PROVE LockHeld'
    BY <1>4 DEF QuietStep, LockHeld, InTx
  <1>5. ASSUME NEW p \in Requests, BuildRow(p) PROVE LockHeld'
    BY <1>5 DEF BuildRow, LockHeld, InTx
  <1>6. ASSUME NEW p \in Requests, Commit(p) PROVE LockHeld'
    BY <1>2, <1>6 DEF Commit, InTx
  <1>7. ASSUME NEW p \in Requests, InsertRows(p), rowLock' # rowLock PROVE LockHeld'
    BY <1>2, <1>7, SMTT(40) DEF InsertRows, InTx
  <1>8. ASSUME NEW p \in Requests, Start(p) \/ Step(p) \/ Fail(p)
        PROVE  \/ rowLock' = rowLock
               \/ LockAccount(p) \/ Fail(p) \/ InsertRows(p) \/ Commit(p)
    BY <1>8
    DEF Step, Start, FindAccount, PrepareCreate, FindOriginal, CheckReversal,
        FindExternalIDs, MapTransaction, EndMapping, BuildRow, SoftDelete, UpdateAccount
  <1>9. CASE Replicate \/ UNCHANGED vars
    BY <1>9 DEF Replicate, vars, LockHeld, InTx
  <1> QED
    BY <1>1, <1>3, <1>4, <1>5, <1>6, <1>7, <1>8, <1>9, StepKinds DEF Next, Quiescent

\* The rows of open transactions keep continuing the committed balance.
LEMMA NextTxChained ==
  ASSUME TypeOK, LockHeld, TxChained, [Next]_vars PROVE TxChained'
  <1>1. CASE QuietStep
    <2> SUFFICES ASSUME NEW q \in Requests PROVE TxChainedOf(q)'
      BY DEF TxChained
    <2>1. TxChainedOf(q)
      BY DEF TxChained
    <2>2. \A i : TxBalance(q, i)' = TxBalance(q, i)
      BY <1>1 DEF QuietStep, TxBalance
    <2>3. UNCHANGED <<rows, running>>
      BY <1>1 DEF QuietStep
    <2>4. /\ InTx(q)' => InTx(q) 
          /\ pc'[q] \notin {"build", "commit", "done"} => pc[q] \notin {"build", "commit", "done"} \/ pc'[q] = pc[q]
      BY <1>1 DEF QuietStep, InTx
    <2> QED
      BY <2>1, <2>2, <2>3, <2>4 DEF TxChainedOf
  <1>2. ASSUME NEW p \in Requests, NEW q \in Requests, q # p,
               pc'[q] = pc[q], rows'[q] = rows[q], running'[q] = running[q], req' = req,
               InTx(q) => balance'[req[q].acct] = balance[req[q].acct]
        PROVE  TxChainedOf(q)'
    <2>1. TxChainedOf(q)
      BY DEF TxChained
    <2>2. InTx(q)' = InTx(q)
      BY <1>2 DEF InTx
    <2>3. InTx(q) => \A i : TxBalance(q, i)' = TxBalance(q, i)
      BY <1>2 DEF TxBalance
    <2> QED
      BY <1>2, <2>1, <2>2, <2>3 DEF TxChainedOf
  <1>3. ASSUME NEW p \in Requests, LockAccount(p) PROVE TxChained'
    <2>1. TxChainedOf(p)'
      <3>1. rows'[p] = << >>
        BY <1>3 DEF LockAccount, TxChained, TxChainedOf
      <3>2. Len(rows'[p]) = 0
        BY <3>1
      <3>3. running'[p] = balance'[req'[p].acct]
        BY <1>3 DEF LockAccount, TypeOK, store
      <3> QED
        BY <3>1, <3>2, <3>3 DEF TxChainedOf, TxBalance
    <2>2. ASSUME NEW q \in Requests, q # p PROVE TxChainedOf(q)'
      BY <1>2, <1>3, <2>2 DEF LockAccount, Goto, store, TypeOK
    <2> QED
      BY <2>1, <2>2 DEF TxChained
  <1>4. ASSUME NEW p \in Requests, BuildRow(p) PROVE TxChained'
    <2>1. TxChainedOf(p)'
      <3> DEFINE n == Len(rows[p]) + 1
                 d == drafts[p][n]
                 b == Apply(running[p], d.type, d.amount)
                 r == [id |-> <<p, n>>, type |-> d.type, amount |-> d.amount,
                       ref |-> d.ref, ext |-> d.ext, balanceAfter |-> b]
      <3>1. /\ rows'[p] = Append(rows[p], r)
            /\ running'[p] = b
            /\ pc[p] = "build" /\ pc' = pc /\ req' = req /\ balance' = balance
        BY <1>4 DEF BuildRow, TypeOK, store
      <3>2. /\ r.type = d.type /\ r.amount = d.amount /\ r.balanceAfter = b
        OBVIOUS
      <3>3. PICK s : s = rows[p]
        OBVIOUS
      <3>4. s \in Seq(Rows)
        BY <3>3 DEF TypeOK
      <3>5. PICK u : u = Append(s, r)
        OBVIOUS
      <3>6. u = rows'[p]
        BY <3>1, <3>3, <3>5
      <3>7. PICK x : x = r
        OBVIOUS
      <3> HIDE DEF d, b, r
      <3>8. /\ Len(s) \in Nat
            /\ Len(u) = Len(s) + 1
            /\ \A i \in 1 .. Len(s) : u[i] = s[i]
            /\ u[Len(s) + 1] = x
        BY <3>4, <3>5, <3>7
      <3>9. TxBalance(p, Len(u) + 1)' = running'[p]
        <4>1. Len(u) + 1 # 1 /\ (Len(u) + 1) - 1 = Len(s) + 1
          BY <3>8
        <4> QED
          BY <3>1, <3>2, <3>6, <3>7, <3>8, <4>1 DEF TxBalance
      <3>10. \A i \in 1 .. Len(s) + 1 : TxBalance(p, i)' = TxBalance(p, i)
        <4> TAKE i \in 1 .. Len(s) + 1
        <4>1. i = 1 \/ i - 1 \in 1 .. Len(s)
          BY <3>8
        <4> QED
          BY <3>1, <3>3, <3>6, <3>8, <4>1 DEF TxBalance
      <3>11. /\ running[p] = TxBalance(p, Len(s) + 1)
             /\ \A i \in 1 .. Len(s) :
                  s[i].balanceAfter = Apply(TxBalance(p, i), s[i].type, s[i].amount)
        BY <3>1, <3>3 DEF TxChained, TxChainedOf, InTx
      <3>12. ASSUME NEW i \in 1 .. Len(u)
             PROVE  u[i].balanceAfter = Apply(TxBalance(p, i)', u[i].type, u[i].amount)
        <4>1. CASE i \in 1 .. Len(s)
          <5>1. i \in 1 .. Len(s) + 1
            BY <3>8, <4>1
          <5> QED
            BY <3>8, <3>10, <3>11, <4>1, <5>1
        <4>2. CASE i = Len(s) + 1
          <5>1. Len(s) + 1 \in 1 .. Len(s) + 1
            BY <3>8
          <5>2. TxBalance(p, i)' = running[p] /\ u[i] = r
            BY <3>7, <3>8, <3>10, <3>11, <4>2, <5>1
          <5> QED
            BY <3>2, <5>2 DEF b
        <4> QED
          BY <3>8, <4>1, <4>2
      <3> QED
        BY <3>1, <3>6, <3>9, <3>12 DEF TxChainedOf, InTx
    <2>2. ASSUME NEW q \in Requests, q # p PROVE TxChainedOf(q)'
      BY <1>2, <1>4, <2>2 DEF BuildRow, store, TypeOK
    <2> QED
      BY <2>1, <2>2 DEF TxChained
  <1>5. ASSUME NEW p \in Requests, Commit(p) PROVE TxChained'
    <2>1. TxChainedOf(p)'
      BY <1>5 DEF Commit, Reply, TxChainedOf, InTx, TypeOK
    <2>2. ASSUME NEW q \in Requests, q # p PROVE TxChainedOf(q)'
      <3>1. InTx(q) => req[p].acct # req[q].acct
        BY <1>5, <2>2, DifferentAccounts DEF Commit, InTx
      <3>2. InTx(q) => balance'[req[q].acct] = balance[req[q].acct]
        BY <1>5, <3>1, InputFields DEF Commit, TypeOK
      <3> QED
        BY <1>2, <1>5, <2>2, <3>2 DEF Commit, Reply, locals, TypeOK
    <2> QED
      BY <2>1, <2>2 DEF TxChained
  <1> QED
    BY <1>1, <1>3, <1>4, <1>5, StepKinds

\* A commit continues the chain of its account.
LEMMA CommitChained ==
  ASSUME TypeOK, TxChained, BalanceChained, NEW p \in Requests, Commit(p),
         NEW a, a = req[p].acct
  PROVE  AccountChained(a)'
  <1>1. /\ a \in Accounts
        /\ AccountChained(a)
        /\ TxChainedOf(p)
        /\ InTx(p)
    BY InputFields DEF TypeOK, BalanceChained, TxChained, Commit, InTx
  <1>2. PICK s, t, u : s = ledger[a] /\ t = rows[p] /\ u = ledger'[a]
    OBVIOUS
  <1>3. /\ Len(s) \in Nat /\ Len(t) \in Nat
        /\ Len(u) = Len(s) + Len(t)
        /\ \A i \in 1 .. Len(s) : u[i] = s[i]
        /\ \A i \in 1 .. Len(t) : u[Len(s) + i] = t[i]
    <2>1. s \in Seq(Rows) /\ t \in Seq(Rows) /\ u = s \o t
      BY <1>1, <1>2 DEF Commit, TypeOK
    <2> QED
      BY <2>1, ConcatParts
  <1>4. \A i \in 1 .. Len(s) : BalanceBefore(a, i)' = BalanceBefore(a, i)
    <2> TAKE i \in 1 .. Len(s)
    <2>1. i = 1 \/ i - 1 \in 1 .. Len(s)
      BY <1>3
    <2> QED
      BY <1>2, <1>3, <2>1 DEF BalanceBefore
  <1>5. \A k \in 1 .. Len(t) + 1 : BalanceBefore(a, Len(s) + k)' = TxBalance(p, k)
    <2> TAKE k \in 1 .. Len(t) + 1
    <2>1. CASE k = 1
      <3>1. balance[a] = BalanceBefore(a, Len(s) + 1)
        BY <1>1, <1>2 DEF AccountChained, LastBalance
      <3>2. Len(s) + 1 = 1 \/ (Len(s) + 1) - 1 \in 1 .. Len(s)
        BY <1>3
      <3>3. BalanceBefore(a, Len(s) + 1)' = BalanceBefore(a, Len(s) + 1)
        BY <1>2, <1>3, <3>2 DEF BalanceBefore
      <3> QED
        BY <2>1, <3>1, <3>3 DEF TxBalance
    <2>2. CASE k # 1
      <3>1. /\ k - 1 \in 1 .. Len(t)
            /\ Len(s) + k # 1
            /\ (Len(s) + k) - 1 = Len(s) + (k - 1)
        BY <1>3, <2>2
      <3> QED
        BY <1>2, <1>3, <2>2, <3>1 DEF BalanceBefore, TxBalance
    <2> QED
      BY <2>1, <2>2
  <1>6. /\ running[p] = TxBalance(p, Len(t) + 1)
        /\ \A i \in 1 .. Len(t) :
             t[i].balanceAfter = Apply(TxBalance(p, i), t[i].type, t[i].amount)
        /\ \A i \in 1 .. Len(s) :
             s[i].balanceAfter = Apply(BalanceBefore(a, i), s[i].type, s[i].amount)
    BY <1>1, <1>2 DEF TxChainedOf, AccountChained
  <1>7. balance'[a] = LastBalance(a)'
    <2>1. Len(u) + 1 = Len(s) + (Len(t) + 1) /\ Len(t) + 1 \in 1 .. Len(t) + 1
      BY <1>3
    <2>2. BalanceBefore(a, Len(u) + 1)' = running[p]
      BY <1>5, <1>6, <2>1
    <2>3. balance'[a] = running[p]
      BY <1>1 DEF Commit, TypeOK
    <2> QED
      BY <1>2, <2>2, <2>3 DEF LastBalance
  <1>8. ASSUME NEW i \in 1 .. Len(u)
        PROVE  u[i].balanceAfter = Apply(BalanceBefore(a, i)', u[i].type, u[i].amount)
    <2>1. CASE i \in 1 .. Len(s)
      BY <1>3, <1>4, <1>6, <2>1
    <2>2. ASSUME NEW k \in 1 .. Len(t), i = Len(s) + k
          PROVE  u[i].balanceAfter = Apply(BalanceBefore(a, i)', u[i].type, u[i].amount)
      <3>1. k \in 1 .. Len(t) + 1
        BY <1>3
      <3> QED
        BY <1>3, <1>5, <1>6, <2>2, <3>1
    <2>3. i \in 1 .. Len(s) \/ (i - Len(s) \in 1 .. Len(t) /\ i = Len(s) + (i - Len(s)))
      BY <1>3
    <2> QED
      BY <2>1, <2>2, <2>3
  <1> QED
    BY <1>2, <1>7, <1>8 DEF AccountChained

\* Every balance keeps continuing its ledger.
LEMMA NextBalanceChained ==
  ASSUME TypeOK, TxChained, BalanceChained, [Next]_vars PROVE BalanceChained'
  <1> SUFFICES ASSUME NEW a \in Accounts PROVE AccountChained(a)'
    BY DEF BalanceChained
  <1>1. AccountChained(a)
    BY DEF BalanceChained
  <1>2. ASSUME ledger'[a] = ledger[a], balance'[a] = balance[a] PROVE AccountChained(a)'
    BY <1>1, <1>2 DEF AccountChained, LastBalance, BalanceBefore
  <1>3. ASSUME NEW p \in Requests, Commit(p), a # req[p].acct PROVE AccountChained(a)'
    BY <1>2, <1>3 DEF Commit, TypeOK
  <1>4. ASSUME NEW p \in Requests, Commit(p) PROVE AccountChained(a)'
    BY <1>3, <1>4, CommitChained, Zenon
  <1> QED
    BY <1>2, <1>4, OnlyCommitWrites

\* The lock, the open transactions and the balances stay in step.
LEMMA BalanceInvariant == Spec => []BalanceInv
  <1>1. Init => BalanceInv
    <2>1. Init => LockHeld /\ TxChained
      BY DEF Init, LockHeld, InTx, TxChained, TxChainedOf
    <2>2. ASSUME Init, NEW a \in Accounts PROVE AccountChained(a)
      <3>1. ledger[a] = << >> /\ Len(ledger[a]) = 0 /\ balance[a] = 0
        BY <2>2 DEF Init
      <3> QED
        BY <3>1 DEF AccountChained, LastBalance, BalanceBefore
    <2> QED
      BY <2>1, <2>2 DEF BalanceInv, BalanceChained
  <1>2. TypeInv /\ BalanceInv /\ [Next]_vars => BalanceInv'
    BY NextLockHeld, NextTxChained, NextBalanceChained DEF TypeInv, BalanceInv
  <1> QED
    BY <1>1, <1>2, TypeInvariant, PTL DEF Spec

\* Each account's balance is the balance_after of its last statement and every
\* statement continues the one before it, for any number of concurrent
\* creates, reversals, imports, deletes and failures: the row lock of
\* statement.go:176-186 and 412-424 is held until COMMIT.
THEOREM BalanceCorrect == Spec => []BalanceChained
  <1>1. BalanceInv => BalanceChained
    BY DEF BalanceInv
  <1> QED
    BY <1>1, BalanceInvariant, PTL
-----------------------------------------------------------------------------
(***************************************************************************)
(* Reversals and imports: what the unique indexes accept at the INSERT     *)
(* still satisfies them at the COMMIT, because the row lock keeps other    *)
(* postings of the account out and a reversal only ever refers to a        *)
(* statement of its own account.                                           *)
(***************************************************************************)

-----------------------------------------------------------------------------
(***************************************************************************)
(* What single steps may change.                                           *)
(***************************************************************************)

\* Only an INSERT that no unique index refuses brings a request to COMMIT.
LEMMA CommitEntered ==
  ASSUME TypeOK, [Next]_vars, NEW q \in Requests, pc[q] # "commit", pc'[q] = "commit"
  PROVE  ~UniqueViolation(q) /\ UNCHANGED <<rows, ledger, req>>
  <1>1. ASSUME NEW p \in Requests, NEW w, Reply(p, w) PROVE FALSE
    BY <1>1 DEF Reply, TypeOK
  <1>2. ASSUME NEW p \in Requests, NEW s, Goto(p, s), s # "commit" PROVE FALSE
    BY <1>2 DEF Goto, TypeOK
  <1>3. ASSUME NEW p \in Requests, Start(p) \/ Fail(p) PROVE FALSE
    BY <1>1, <1>2, <1>3 DEF Start, Fail
  <1>4. ASSUME NEW p \in Requests, FindAccount(p) PROVE FALSE
    BY <1>1, <1>2, <1>4, AfterAccountType DEF FindAccount
  <1>5. ASSUME NEW p \in Requests, PrepareCreate(p) \/ FindOriginal(p) PROVE FALSE
    BY <1>1, <1>2, <1>5 DEF PrepareCreate, FindOriginal
  <1>6. ASSUME NEW p \in Requests, CheckReversal(p) \/ FindExternalIDs(p) PROVE FALSE
    BY <1>1, <1>2, <1>6 DEF CheckReversal, FindExternalIDs
  <1>7. ASSUME NEW p \in Requests, MapTransaction(p) \/ EndMapping(p) PROVE FALSE
    BY <1>1, <1>2, <1>7 DEF MapTransaction, EndMapping
  <1>8. ASSUME NEW p \in Requests, LockAccount(p) \/ BuildRow(p) PROVE FALSE
    BY <1>2, <1>8 DEF LockAccount, BuildRow
  <1>9. ASSUME NEW p \in Requests, Commit(p) \/ SoftDelete(p) \/ UpdateAccount(p)
        PROVE  FALSE
    BY <1>1, <1>9 DEF Commit, SoftDelete, UpdateAccount, WriteAccount
  <1>10. ASSUME NEW p \in Requests, InsertRows(p)
         PROVE  ~UniqueViolation(q) /\ UNCHANGED <<rows, ledger, req>>
    <2>1. p = q
      BY <1>1, <1>10 DEF InsertRows, Goto, TypeOK
    <2> QED
      BY <1>1, <1>10, <2>1 DEF InsertRows, store, locals
  <1>11. CASE Replicate \/ UNCHANGED vars
    BY <1>11 DEF Replicate, vars
  <1> QED
    BY <1>3, <1>4, <1>5, <1>6, <1>7, <1>8, <1>9, <1>10, <1>11 DEF Next, Step, Quiescent

\* The inputs of the requests never change, and the drafts of a request in a
\* transaction do not.
LEMMA DraftsFixed ==
  ASSUME TypeOK, [Next]_vars
  PROVE  /\ req' = req
         /\ \A q \in Requests : InTx(q) => drafts'[q] = drafts[q]
  <1>1. ASSUME NEW p \in Requests, PrepareCreate(p) \/ FindOriginal(p) \/ MapTransaction(p)
        PROVE  /\ req' = req
               /\ ~InTx(p)
               /\ \A q \in Requests \ {p} : drafts'[q] = drafts[q]
    BY <1>1, SMTT(40) DEF PrepareCreate, FindOriginal, MapTransaction, InTx, TypeOK
  <1>2. ASSUME NEW p \in Requests,
               \/ Start(p) \/ Fail(p) \/ FindAccount(p) \/ CheckReversal(p)
               \/ FindExternalIDs(p) \/ EndMapping(p) \/ LockAccount(p) \/ BuildRow(p)
               \/ InsertRows(p) \/ Commit(p) \/ SoftDelete(p) \/ UpdateAccount(p)
        PROVE  req' = req /\ drafts' = drafts
    BY <1>2 DEF Start, Fail, FindAccount, CheckReversal, FindExternalIDs, EndMapping,
                LockAccount, BuildRow, InsertRows, Commit, SoftDelete, UpdateAccount, locals
  <1>3. CASE Replicate \/ UNCHANGED vars
    BY <1>3 DEF Replicate, vars, locals
  <1> QED
    BY <1>1, <1>2, <1>3 DEF Next, Step, Quiescent

\* A position in two concatenated sequences is in one of them.
LEMMA SplitIndex ==
  \A m, n \in Nat : \A i \in 1 .. m + n :
    i \in 1 .. m \/ \E k \in 1 .. n : i = m + k
  <1> SUFFICES ASSUME NEW m \in Nat, NEW n \in Nat, NEW i \in 1 .. m + n, ~(i \in 1 .. m)
               PROVE  \E k \in 1 .. n : i = m + k
    OBVIOUS
  <1>1. i - m \in 1 .. n /\ i = m + (i - m)
    OBVIOUS
  <1> QED
    BY <1>1

\* A row of an account after a COMMIT was there before or is one of the
\* transaction's.
LEMMA CommitCases ==
  ASSUME TypeOK, NEW p \in Requests, Commit(p), NEW a \in Accounts,
         NEW i \in 1 .. Len(ledger'[a])
  PROVE  \/ i \in 1 .. Len(ledger[a]) /\ ledger'[a][i] = ledger[a][i]
         \/ /\ a = req[p].acct
            /\ \E k \in 1 .. Len(rows[p]) :
                 i = Len(ledger[a]) + k /\ ledger'[a][i] = rows[p][k]
  <1>1. CASE a # req[p].acct
    BY <1>1 DEF Commit, TypeOK
  <1>2. CASE a = req[p].acct
    <2>1. PICK s, t, u : s = ledger[a] /\ t = rows[p] /\ u = ledger'[a]
      OBVIOUS
    <2>2. s \in Seq(Rows) /\ t \in Seq(Rows) /\ u = s \o t
      BY <1>2, <2>1 DEF Commit, TypeOK
    <2>3. /\ Len(s) \in Nat /\ Len(t) \in Nat
          /\ Len(u) = Len(s) + Len(t)
          /\ \A j \in 1 .. Len(s) : u[j] = s[j]
          /\ \A j \in 1 .. Len(t) : u[Len(s) + j] = t[j]
      BY <2>2, ConcatParts
    <2>4. i \in 1 .. Len(s) + Len(t)
      BY <2>1, <2>3
    <2>5. i \in 1 .. Len(s) \/ \E k \in 1 .. Len(t) : i = Len(s) + k
      BY <2>3, <2>4, SplitIndex
    <2> QED
      BY <1>2, <2>1, <2>3, <2>5, ZenonT(60)
  <1> QED
    BY <1>1, <1>2

\* At COMMIT a request keeps its rows until it leaves.
LEMMA RowsFixed ==
  ASSUME TypeOK, [Next]_vars, NEW q \in Requests, pc[q] = "commit", pc'[q] = "commit"
  PROVE  rows'[q] = rows[q]
  <1>1. CASE QuietStep
    BY <1>1 DEF QuietStep
  <1>2. ASSUME NEW p \in Requests, LockAccount(p) \/ Commit(p) PROVE rows' = rows
    BY <1>2 DEF LockAccount, Commit, locals
  <1>3. ASSUME NEW p \in Requests, BuildRow(p) PROVE rows'[q] = rows[q]
    BY <1>3 DEF BuildRow, TypeOK
  <1> QED
    BY <1>1, <1>2, <1>3, StepKinds

-----------------------------------------------------------------------------
(***************************************************************************)
(* The parts of the invariant, one by one.                                 *)
(***************************************************************************)

\* The rows of a transaction are built from the drafts, in their order.
LEMMA NextRowsAreDrafts ==
  ASSUME TypeOK, TxChained, RowsAreDrafts, [Next]_vars PROVE RowsAreDrafts'
  <1> DEFINE Built(r, d, p) ==
        /\ Len(r) <= Len(d)
        /\ \A i \in 1 .. Len(r) : /\ r[i].id = <<p, i>>
                                  /\ r[i].type = d[i].type
                                  /\ r[i].amount = d[i].amount
                                  /\ r[i].ref = d[i].ref
                                  /\ r[i].ext = d[i].ext
  <1> SUFFICES ASSUME NEW q \in Requests, InTx(q)' PROVE Built(rows'[q], drafts'[q], q)
    BY DEF RowsAreDrafts
  <1>0. drafts[q] \in Seq(Drafts) /\ rows[q] \in Seq(Rows)
    BY DEF TypeOK
  <1>1. InTx(q) => Built(rows[q], drafts[q], q) /\ drafts'[q] = drafts[q]
    BY DraftsFixed DEF RowsAreDrafts
  <1>2. CASE QuietStep
    <2>1. InTx(q) /\ rows'[q] = rows[q]
      BY <1>2 DEF QuietStep, InTx
    <2> QED
      BY <1>1, <2>1
  <1>3. ASSUME NEW p \in Requests, LockAccount(p) PROVE Built(rows'[q], drafts'[q], q)
    <2>1. rows' = rows /\ drafts' = drafts
      BY <1>3 DEF LockAccount
    <2>2. CASE p = q
      <3>1. rows[q] = << >>
        BY <1>3, <2>2 DEF LockAccount, TxChained, TxChainedOf
      <3>2. Len(drafts[q]) \in Nat
        BY <1>0
      <3> QED
        BY <2>1, <3>1, <3>2
    <2>3. CASE p # q
      <3>1. InTx(q)
        BY <1>3, <2>3 DEF LockAccount, Goto, InTx, TypeOK
      <3> QED
        BY <1>1, <2>1, <3>1
    <2> QED
      BY <2>2, <2>3
  <1>4. ASSUME NEW p \in Requests, Commit(p) PROVE Built(rows'[q], drafts'[q], q)
    <2>1. rows' = rows /\ InTx(q)
      BY <1>4 DEF Commit, Reply, InTx, TypeOK, locals
    <2> QED
      BY <1>1, <2>1
  <1>5. ASSUME NEW p \in Requests, BuildRow(p) PROVE Built(rows'[q], drafts'[q], q)
    <2>1. InTx(q) /\ drafts'[q] = drafts[q]
      BY <1>5 DEF BuildRow, InTx
    <2>2. CASE p # q
      <3>1. rows'[q] = rows[q]
        BY <1>5, <2>2 DEF BuildRow, TypeOK
      <3> QED
        BY <1>1, <2>1, <3>1
    <2>3. CASE p = q
      <3>1. PICK r, d, n, b : /\ r = rows[q] /\ d = drafts[q] /\ n = Len(rows[q]) + 1
                              /\ b = Apply(running[q], drafts[q][n].type, drafts[q][n].amount)
        OBVIOUS
      <3>2. PICK x : x = [id |-> <<q, n>>, type |-> d[n].type, amount |-> d[n].amount,
                          ref |-> d[n].ref, ext |-> d[n].ext, balanceAfter |-> b]
        OBVIOUS
      <3>3. rows'[q] = Append(r, x) /\ n <= Len(d)
        BY <1>5, <2>3, <3>1, <3>2 DEF BuildRow, TypeOK
      <3>4. /\ x.id = <<q, n>> /\ x.type = d[n].type
            /\ x.amount = d[n].amount /\ x.ref = d[n].ref /\ x.ext = d[n].ext
        BY <3>2
      <3>5. r \in Seq(Rows) /\ Len(r) \in Nat /\ n = Len(r) + 1 /\ Built(r, d, q)
        BY <1>0, <1>1, <2>1, <3>1
      <3>6. PICK s : s = Append(r, x)
        OBVIOUS
      <3>7. Len(s) = n /\ s[n] = x /\ \A i \in 1 .. Len(r) : s[i] = r[i]
        BY <3>5, <3>6
      <3>8. \A i \in 1 .. n : i = n \/ i \in 1 .. Len(r)
        BY <3>5
      <3>9. Built(s, d, q)
        BY <3>3, <3>4, <3>5, <3>7, <3>8
      <3> QED
        BY <2>1, <3>1, <3>3, <3>6, <3>9
    <2> QED
      BY <2>2, <2>3
  <1> QED
    BY <1>2, <1>3, <1>4, <1>5, StepKinds

\* Statements once mirrored stay so, since the ledger only grows.
LEMMA MirrorsStays ==
  ASSUME TypeOK, [Next]_vars, NEW x, NEW a \in Accounts, NEW n \in Nat, NEW m \in Nat,
         n <= Len(ledger[a]), n <= m, Mirrors(x, a, n)
  PROVE  Mirrors(x, a, m)'
  <1>1. /\ Len(ledger[a]) \in Nat
        /\ \A i \in 1 .. Len(ledger[a]) : ledger'[a][i] = ledger[a][i]
    BY NextGrows, Zenon
  <1>2. \A j \in 1 .. n : j \in 1 .. Len(ledger[a]) /\ j \in 1 .. m
    BY <1>1
  <1> QED
    BY <1>1, <1>2 DEF Mirrors

\* The reversed type of a reversed type is the type.
LEMMA OppositeTwice == \A t \in Types : Opposite(Opposite(t)) = t
  BY DEF Opposite, Types

\* A draft a step adds is not a reversal, or mirrors what the reader showed.
LEMMA DraftsChange ==
  ASSUME TypeOK, ReplicaBehind, [Next]_vars, NEW q \in Requests,
         NEW i \in 1 .. Len(drafts'[q]), NEW x, x = drafts'[q][i]
  PROVE  \/ x.ref = None
         \/ i \in 1 .. Len(drafts[q]) /\ x = drafts[q][i]
         \/ Mirrors(x, req[q].acct, Len(ledger[req[q].acct]))
  <1>0. drafts[q] \in Seq(Drafts) /\ req[q].acct \in Accounts
    BY InputFields DEF TypeOK
  <1>1. CASE drafts'[q] = drafts[q]
    BY <1>1
  <1>2. CASE PrepareCreate(q)
    <2>1. CASE drafts' = drafts
      BY <1>1, <2>1
    <2>2. CASE drafts'[q] = <<Draft(req[q].type, req[q].amount, None, None)>>
      BY <2>2 DEF Draft
    <2> QED
      BY <1>2, <2>1, <2>2 DEF PrepareCreate, TypeOK
  <1>3. CASE FindOriginal(q)
    <2>1. CASE drafts' = drafts
      BY <1>1, <2>1
    <2>2. ASSUME NEW a, a = req[q].acct, NEW s, NEW j \in 1 .. ReaderLen(a),
                 ledger[a][j].id = s,
                 drafts'[q] = <<Draft(Opposite(ledger[a][j].type), ledger[a][j].amount, s, None)>>
          PROVE  Mirrors(x, a, Len(ledger[a]))
      <3>1. /\ x.ref = s /\ x.amount = ledger[a][j].amount
            /\ x.type = Opposite(ledger[a][j].type)
        BY <2>2 DEF Draft
      <3>2. /\ Len(ledger[a]) \in Nat
            /\ ReaderLen(a) \in 0 .. Len(ledger[a])
        BY <1>0, <2>2, ReaderLenType, SMTT(40) DEF TypeOK
      <3>3. j \in 1 .. Len(ledger[a])
        BY <3>2
      <3>4. ledger[a][j].type \in Types
        <4>1. ledger[a][j] \in Rows
          BY <1>0, <2>2, <3>3, ElementOfSeq DEF TypeOK
        <4> QED
          BY <4>1 DEF Rows
      <3> QED
        BY <2>2, <3>1, <3>3, <3>4, OppositeTwice, ZenonT(60) DEF Mirrors
    <2> QED
      BY <1>3, <2>1, <2>2, ZenonT(60) DEF FindOriginal, TypeOK
  <1>4. CASE MapTransaction(q)
    <2>1. CASE drafts' = drafts
      BY <1>1, <2>1
    <2>2. ASSUME NEW t, NEW n, NEW e, drafts'[q] = Append(drafts[q], Draft(t, n, None, e))
          PROVE  x.ref = None \/ (i \in 1 .. Len(drafts[q]) /\ x = drafts[q][i])
      <3>1. PICK d : d = Draft(t, n, None, e)
        OBVIOUS
      <3>2. d.ref = None
        BY <3>1 DEF Draft
      <3>3. i \in 1 .. Len(drafts[q]) + 1 /\ x = Append(drafts[q], d)[i]
        BY <1>0, <2>2, <3>1
      <3> QED
        BY <1>0, <3>2, <3>3
    <2> QED
      BY <1>4, <2>1, <2>2 DEF MapTransaction, TypeOK
  <1>5. ASSUME NEW p \in Requests, p # q,
               PrepareCreate(p) \/ FindOriginal(p) \/ MapTransaction(p)
        PROVE  drafts'[q] = drafts[q]
    BY <1>5, SMTT(40) DEF PrepareCreate, FindOriginal, MapTransaction, TypeOK
  <1>6. ASSUME NEW p \in Requests,
               \/ Start(p) \/ Fail(p) \/ FindAccount(p) \/ CheckReversal(p)
               \/ FindExternalIDs(p) \/ EndMapping(p) \/ LockAccount(p) \/ BuildRow(p)
               \/ InsertRows(p) \/ Commit(p) \/ SoftDelete(p) \/ UpdateAccount(p)
        PROVE  drafts' = drafts
    BY <1>6 DEF Start, Fail, FindAccount, CheckReversal, FindExternalIDs, EndMapping,
                LockAccount, BuildRow, InsertRows, Commit, SoftDelete, UpdateAccount, locals
  <1>7. CASE Replicate \/ UNCHANGED vars
    BY <1>1, <1>7 DEF Replicate, vars, locals
  <1> QED
    BY <1>1, <1>2, <1>3, <1>4, <1>5, <1>6, <1>7 DEF Next, Step, Quiescent

\* A drafted reversal mirrors a statement that was committed when it was read,
\* by a replica too, and still is (reverse.go:77-117).
LEMMA NextDraftsMirror ==
  ASSUME TypeOK, ReplicaBehind, DraftsMirror, [Next]_vars PROVE DraftsMirror'
  <1> SUFFICES ASSUME NEW q \in Requests, NEW i \in 1 .. Len(drafts'[q]),
                      drafts'[q][i].ref # None
               PROVE  Mirrors(drafts[q][i], req[q].acct, Len(ledger[req[q].acct]))'
    BY DEF DraftsMirror
  <1>1. PICK x, a : x = drafts'[q][i] /\ a = req[q].acct
    OBVIOUS
  <1>2. a \in Accounts /\ req' = req
    BY <1>1, InputFields, DraftsFixed DEF TypeOK
  <1>3. Mirrors(x, a, Len(ledger[a]))
    BY <1>1, DraftsChange DEF DraftsMirror
  <1>4. /\ Len(ledger[a]) \in Nat /\ Len(ledger'[a]) \in Nat
        /\ Len(ledger[a]) <= Len(ledger'[a])
    BY <1>2, NextGrows
  <1>5. PICK n, m : n = Len(ledger[a]) /\ m = Len(ledger'[a])
    OBVIOUS
  <1>6. Mirrors(x, a, m)'
    BY <1>2, <1>3, <1>4, <1>5, MirrorsStays
  <1> QED
    BY <1>1, <1>2, <1>5, <1>6 DEF Mirrors

\* The id of a statement names the request, and so the account, it came from.
LEMMA NextIdsOwned ==
  ASSUME TypeOK, RowsAreDrafts, IdsOwned, [Next]_vars PROVE IdsOwned'
  <1>0. req' = req
    BY DraftsFixed
  <1>1. CASE UNCHANGED <<ledger, balance>>
    BY <1>0, <1>1 DEF IdsOwned
  <1>2. ASSUME NEW p \in Requests, Commit(p) PROVE IdsOwned'
    <2> SUFFICES ASSUME NEW a \in Accounts, NEW i \in 1 .. Len(ledger'[a])
                 PROVE  req[ledger'[a][i].id[1]].acct = a
      BY <1>0 DEF IdsOwned
    <2>1. CASE i \in 1 .. Len(ledger[a]) /\ ledger'[a][i] = ledger[a][i]
      BY <2>1 DEF IdsOwned
    <2>2. ASSUME a = req[p].acct, NEW k \in 1 .. Len(rows[p]), ledger'[a][i] = rows[p][k]
          PROVE  req[ledger'[a][i].id[1]].acct = a
      <3>1. rows[p][k].id = <<p, k>>
        BY <1>2 DEF RowsAreDrafts, Commit, InTx
      <3> QED
        BY <2>2, <3>1
    <2> QED
      BY <1>2, <2>1, <2>2, CommitCases, ZenonT(60)
  <1> QED
    BY <1>1, <1>2, OnlyCommitWrites

\* A reversal about to be committed refers to a statement of its own account
\* and mirrors it.
LEMMA RowsMirror ==
  ASSUME TypeOK, RowsAreDrafts, DraftsMirror, NEW p \in Requests, InTx(p),
         NEW k \in 1 .. Len(rows[p]), rows[p][k].ref # None
  PROVE  Mirrors(rows[p][k], req[p].acct, Len(ledger[req[p].acct]))
  <1>1. /\ k \in 1 .. Len(drafts[p])
        /\ rows[p][k].type = drafts[p][k].type
        /\ rows[p][k].amount = drafts[p][k].amount
        /\ rows[p][k].ref = drafts[p][k].ref
    <2>1. /\ drafts[p] \in Seq(Drafts) /\ rows[p] \in Seq(Rows)
          /\ Len(rows[p]) <= Len(drafts[p])
      BY DEF TypeOK, RowsAreDrafts
    <2> QED
      BY <2>1 DEF RowsAreDrafts
  <1> QED
    BY <1>1 DEF DraftsMirror, Mirrors

\* The statement a committed or about to be committed reversal refers to tells
\* which account the reversal is on.
LEMMA RefOwned ==
  ASSUME TypeOK, IdsOwned, NEW x, NEW a \in Accounts, NEW n \in Nat,
         n <= Len(ledger[a]), Mirrors(x, a, n)
  PROVE  req[x.ref[1]].acct = a
  <1>1. PICK j \in 1 .. n : ledger[a][j].id = x.ref
    BY DEF Mirrors
  <1>2. Len(ledger[a]) \in Nat
    BY DEF TypeOK
  <1>3. j \in 1 .. Len(ledger[a])
    BY <1>2
  <1> QED
    BY <1>1, <1>3 DEF IdsOwned

\* No unique index refuses rows r of account a: their reversals are the first
\* of their originals, their FITIDs are new to the account, and neither repeats.
Admitted(r, a) ==
  /\ \A k \in 1 .. Len(r) : r[k].ref # None =>
       \A b \in Accounts : \A i \in 1 .. Len(ledger[b]) : ledger[b][i].ref # r[k].ref
  /\ \A k \in 1 .. Len(r) : r[k].ext # None =>
       \A i \in 1 .. Len(ledger[a]) : ledger[a][i].ext # r[k].ext
  /\ \A k, m \in 1 .. Len(r) : k # m =>
       /\ r[k].ext # None => r[k].ext # r[m].ext
       /\ r[k].ref # None => r[k].ref # r[m].ref

\* That is what the INSERT of a transaction checks (statement.go:197-213).
LEMMA AdmittedMeans ==
  ASSUME NEW q \in Requests
  PROVE  ~UniqueViolation(q) <=> Admitted(rows[q], req[q].acct)
  BY Zenon DEF Admitted, UniqueViolation, HasReversalOf, ExternalIDsOf

\* The same after a step.
LEMMA AdmittedMeansNext ==
  ASSUME NEW q \in Requests
  PROVE  ~UniqueViolation(q)' <=> Admitted(rows[q], req[q].acct)'
  BY Zenon DEF Admitted, UniqueViolation, HasReversalOf, ExternalIDsOf

\* Two transactions on different accounts refer to different statements.
LEMMA DifferentRefs ==
  ASSUME TypeOK, RowsAreDrafts, DraftsMirror, IdsOwned,
         NEW p \in Requests, InTx(p), NEW m \in 1 .. Len(rows[p]), rows[p][m].ref # None,
         NEW q \in Requests, InTx(q), NEW k \in 1 .. Len(rows[q]), rows[q][k].ref # None,
         req[p].acct # req[q].acct
  PROVE  rows[p][m].ref # rows[q][k].ref
  <1>1. /\ Mirrors(rows[p][m], req[p].acct, Len(ledger[req[p].acct]))
        /\ Mirrors(rows[q][k], req[q].acct, Len(ledger[req[q].acct]))
    BY RowsMirror
  <1>2. req[p].acct \in Accounts /\ req[q].acct \in Accounts
    BY InputFields DEF TypeOK
  <1>3. \A a \in Accounts : Len(ledger[a]) \in Nat /\ Len(ledger[a]) <= Len(ledger[a])
    BY DEF TypeOK
  <1>4. req[rows[p][m].ref[1]].acct = req[p].acct
    BY <1>1, <1>2, <1>3, RefOwned, Zenon
  <1>5. req[rows[q][k].ref[1]].acct = req[q].acct
    BY <1>1, <1>2, <1>3, RefOwned, Zenon
  <1> QED
    BY <1>4, <1>5, Zenon

\* What passed the unique indexes at the INSERT still does at the COMMIT: the
\* transactions that commit in between are on other accounts.
LEMMA NextUniqueAtCommit ==
  ASSUME TypeOK, LockHeld, RowsAreDrafts, DraftsMirror, IdsOwned, UniqueAtCommit,
         [Next]_vars
  PROVE  UniqueAtCommit'
  <1> SUFFICES ASSUME NEW q \in Requests, pc'[q] = "commit"
               PROVE  Admitted(rows[q], req[q].acct)'
    BY AdmittedMeansNext, Zenon DEF UniqueAtCommit
  <1>0. req' = req /\ req[q].acct \in Accounts
    BY DraftsFixed, InputFields DEF TypeOK
  <1>1. CASE pc[q] # "commit"
    <2>1. ~UniqueViolation(q) /\ UNCHANGED <<rows, ledger, req>>
      BY <1>1, CommitEntered, Zenon
    <2>2. Admitted(rows[q], req[q].acct)
      BY <2>1, AdmittedMeans, Zenon
    <2> QED
      BY <2>1, <2>2, ZenonT(60) DEF Admitted
  <1>2. ASSUME pc[q] = "commit"
        PROVE  Admitted(rows[q], req[q].acct) /\ rows'[q] = rows[q]
    <2>1. ~UniqueViolation(q) /\ rows'[q] = rows[q]
      BY <1>2, RowsFixed, Zenon DEF UniqueAtCommit
    <2> QED
      BY <2>1, AdmittedMeans, Zenon
  <1>3. CASE pc[q] = "commit" /\ UNCHANGED <<ledger, balance>>
    <2>1. ledger' = ledger
      BY <1>3
    <2> QED
      BY <1>0, <1>2, <1>3, <2>1, ZenonT(60) DEF Admitted
  <1>4. ASSUME NEW p \in Requests, Commit(p), pc[q] = "commit"
        PROVE  Admitted(rows[q], req[q].acct)'
    <2>1. InTx(q) /\ InTx(p)
      BY <1>4 DEF Commit, InTx
    <2>2. p # q
      BY <1>4 DEF Commit, Reply, TypeOK
    <2>3. req[p].acct # req[q].acct
      BY <2>1, <2>2, DifferentAccounts
    <2>4. ledger'[req[q].acct] = ledger[req[q].acct]
      BY <1>0, <1>4, <2>3 DEF Commit, TypeOK
    <2>5. ASSUME NEW k \in 1 .. Len(rows[q]), rows[q][k].ref # None,
                 NEW b \in Accounts, NEW i \in 1 .. Len(ledger'[b])
          PROVE  ledger'[b][i].ref # rows[q][k].ref
      <3>1. CASE i \in 1 .. Len(ledger[b]) /\ ledger'[b][i] = ledger[b][i]
        <4>1. ledger[b][i].ref # rows[q][k].ref
          BY <1>2, <1>4, <2>5, <3>1, Zenon DEF Admitted
        <4> QED
          BY <3>1, <4>1
      <3>2. ASSUME NEW m \in 1 .. Len(rows[p]), ledger'[b][i] = rows[p][m]
            PROVE  ledger'[b][i].ref # rows[q][k].ref
        <4>1. rows[p][m].ref = None \/ rows[p][m].ref # rows[q][k].ref
          BY <2>1, <2>3, <2>5, DifferentRefs, Zenon
        <4> QED
          BY <2>5, <3>2, <4>1
      <3>3. \/ i \in 1 .. Len(ledger[b]) /\ ledger'[b][i] = ledger[b][i]
            \/ /\ b = req[p].acct
               /\ \E m \in 1 .. Len(rows[p]) :
                    i = Len(ledger[b]) + m /\ ledger'[b][i] = rows[p][m]
        BY <1>4, CommitCases, Zenon
      <3> QED
        BY <3>1, <3>2, <3>3, Zenon
    <2>6. Admitted(rows[q], req[q].acct) /\ rows'[q] = rows[q]
      BY <1>2, <1>4
    <2> QED
      BY <1>0, <2>4, <2>5, <2>6, ZenonT(60) DEF Admitted
  <1> QED
    BY <1>1, <1>3, <1>4, OnlyCommitWrites

-----------------------------------------------------------------------------
(***************************************************************************)
(* The properties.                                                         *)
(***************************************************************************)

\* A commit adds reversals behind the statements they mirror.
LEMMA NextReversalMirrors ==
  ASSUME TypeOK, RowsAreDrafts, DraftsMirror, ReversalMirrorsOriginal, [Next]_vars
  PROVE  ReversalMirrorsOriginal'
  <1>1. CASE UNCHANGED <<ledger, balance>>
    BY <1>1 DEF ReversalMirrorsOriginal, Mirrors
  <1>2. ASSUME NEW p \in Requests, Commit(p) PROVE ReversalMirrorsOriginal'
    <2> SUFFICES ASSUME NEW a \in Accounts, NEW i \in 1 .. Len(ledger'[a]),
                        ledger'[a][i].ref # None
                 PROVE  Mirrors(ledger[a][i], a, i - 1)'
      BY DEF ReversalMirrorsOriginal
    <2>0. \/ i \in 1 .. Len(ledger[a]) /\ ledger'[a][i] = ledger[a][i]
          \/ /\ a = req[p].acct
             /\ \E k \in 1 .. Len(rows[p]) :
                  i = Len(ledger[a]) + k /\ ledger'[a][i] = rows[p][k]
      BY <1>2, CommitCases, SMTT(60)
    <2>1. PICK x : x = ledger'[a][i]
      OBVIOUS
    <2>2. Len(ledger[a]) \in Nat /\ i - 1 \in Nat
      BY DEF TypeOK
    <2>3. CASE i \in 1 .. Len(ledger[a]) /\ x = ledger[a][i]
      <3>1. Mirrors(x, a, i - 1)
        BY <2>1, <2>3 DEF ReversalMirrorsOriginal
      <3>2. i - 1 <= Len(ledger[a])
        BY <2>2, <2>3
      <3>3. PICK n : n = i - 1
        OBVIOUS
      <3>4. Mirrors(x, a, n)'
        BY <2>2, <3>1, <3>2, <3>3, MirrorsStays
      <3> QED
        BY <2>1, <3>3, <3>4 DEF Mirrors
    <2>4. ASSUME a = req[p].acct, NEW k \in 1 .. Len(rows[p]),
                 i = Len(ledger[a]) + k, x = rows[p][k]
          PROVE  Mirrors(ledger[a][i], a, i - 1)'
      <3>1. Mirrors(x, a, Len(ledger[a]))
        BY <1>2, <2>1, <2>4, RowsMirror DEF Commit, InTx
      <3>2. PICK n, m : n = Len(ledger[a]) /\ m = i - 1
        OBVIOUS
      <3>3. n \in Nat /\ m \in Nat /\ n <= m
        BY <2>2, <2>4, <3>2
      <3>4. Mirrors(x, a, m)'
        BY <3>1, <3>2, <3>3, MirrorsStays
      <3> QED
        BY <2>1, <3>2, <3>4 DEF Mirrors
    <2> QED
      BY <2>0, <2>1, <2>3, <2>4, Zenon
  <1> QED
    BY <1>1, <1>2, OnlyCommitWrites

\* A commit adds no second reversal of a statement.
LEMMA NextReversedOnce ==
  ASSUME TypeOK, UniqueAtCommit, ReversedOnce, [Next]_vars PROVE ReversedOnce'
  <1>1. CASE UNCHANGED <<ledger, balance>>
    BY <1>1 DEF ReversedOnce
  <1>2. ASSUME NEW p \in Requests, Commit(p) PROVE ReversedOnce'
    <2>0. Admitted(rows[p], req[p].acct)
      BY <1>2, AdmittedMeans DEF UniqueAtCommit, Commit
    <2> SUFFICES ASSUME NEW a \in Accounts, NEW b \in Accounts,
                        NEW i \in 1 .. Len(ledger'[a]), NEW j \in 1 .. Len(ledger'[b]),
                        ledger'[a][i].ref # None, ledger'[a][i].ref = ledger'[b][j].ref
                 PROVE  a = b /\ i = j
      BY DEF ReversedOnce
    <2>1. PICK x, y : x = ledger'[a][i] /\ y = ledger'[b][j]
      OBVIOUS
    <2>2. x.ref # None /\ x.ref = y.ref
      BY <2>1
    <2>3. \/ i \in 1 .. Len(ledger[a]) /\ ledger'[a][i] = ledger[a][i]
          \/ /\ a = req[p].acct
             /\ \E k \in 1 .. Len(rows[p]) :
                  i = Len(ledger[a]) + k /\ ledger'[a][i] = rows[p][k]
      BY <1>2, CommitCases
    <2>4. \/ j \in 1 .. Len(ledger[b]) /\ ledger'[b][j] = ledger[b][j]
          \/ /\ b = req[p].acct
             /\ \E k \in 1 .. Len(rows[p]) :
                  j = Len(ledger[b]) + k /\ ledger'[b][j] = rows[p][k]
      BY <1>2, CommitCases
    <2>5. CASE i \in 1 .. Len(ledger[a]) /\ x = ledger[a][i]
      <3>1. CASE j \in 1 .. Len(ledger[b]) /\ y = ledger[b][j]
        BY <2>2, <2>5, <3>1, Zenon DEF ReversedOnce
      <3>2. ASSUME NEW k \in 1 .. Len(rows[p]), y = rows[p][k] PROVE FALSE
        BY <2>0, <2>2, <2>5, <3>2 DEF Admitted
      <3> QED
        BY <2>1, <2>4, <3>1, <3>2, Zenon
    <2>6. ASSUME NEW k \in 1 .. Len(rows[p]), x = rows[p][k],
                 a = req[p].acct, i = Len(ledger[a]) + k
          PROVE  a = b /\ i = j
      <3>1. CASE j \in 1 .. Len(ledger[b]) /\ y = ledger[b][j]
        BY <2>0, <2>2, <2>6, <3>1 DEF Admitted
      <3>2. ASSUME NEW m \in 1 .. Len(rows[p]), y = rows[p][m],
                   b = req[p].acct, j = Len(ledger[b]) + m
            PROVE  a = b /\ i = j
        <4>1. k = m
          BY <2>0, <2>2, <2>6, <3>2, Zenon DEF Admitted
        <4> QED
          BY <2>6, <3>2, <4>1, Zenon
      <3> QED
        BY <2>1, <2>4, <3>1, <3>2, Zenon
    <2> QED
      BY <2>1, <2>3, <2>5, <2>6, Zenon
  <1> QED
    BY <1>1, <1>2, OnlyCommitWrites

\* A commit adds no FITID the account already has, and none twice.
LEMMA NextImportedOnce ==
  ASSUME TypeOK, UniqueAtCommit, ImportedOnce, [Next]_vars PROVE ImportedOnce'
  <1>1. CASE UNCHANGED <<ledger, balance>>
    BY <1>1 DEF ImportedOnce
  <1>2. ASSUME NEW p \in Requests, Commit(p) PROVE ImportedOnce'
    <2>0. Admitted(rows[p], req[p].acct)
      BY <1>2, AdmittedMeans DEF UniqueAtCommit, Commit
    <2> SUFFICES ASSUME NEW a \in Accounts,
                        NEW i \in 1 .. Len(ledger'[a]), NEW j \in 1 .. Len(ledger'[a]),
                        ledger'[a][i].ext # None, ledger'[a][i].ext = ledger'[a][j].ext
                 PROVE  i = j
      BY Zenon DEF ImportedOnce
    <2>1. PICK x, y : x = ledger'[a][i] /\ y = ledger'[a][j]
      OBVIOUS
    <2>2. x.ext # None /\ x.ext = y.ext
      BY <2>1
    <2>3. \/ i \in 1 .. Len(ledger[a]) /\ ledger'[a][i] = ledger[a][i]
          \/ /\ a = req[p].acct
             /\ \E k \in 1 .. Len(rows[p]) :
                  i = Len(ledger[a]) + k /\ ledger'[a][i] = rows[p][k]
      BY <1>2, CommitCases
    <2>4. \/ j \in 1 .. Len(ledger[a]) /\ ledger'[a][j] = ledger[a][j]
          \/ /\ a = req[p].acct
             /\ \E k \in 1 .. Len(rows[p]) :
                  j = Len(ledger[a]) + k /\ ledger'[a][j] = rows[p][k]
      BY <1>2, CommitCases
    <2>5. CASE i \in 1 .. Len(ledger[a]) /\ x = ledger[a][i]
      <3>1. CASE j \in 1 .. Len(ledger[a]) /\ y = ledger[a][j]
        BY <2>2, <2>5, <3>1, Zenon DEF ImportedOnce
      <3>2. ASSUME NEW k \in 1 .. Len(rows[p]), y = rows[p][k], a = req[p].acct PROVE FALSE
        BY <2>0, <2>2, <2>5, <3>2 DEF Admitted
      <3> QED
        BY <2>1, <2>4, <3>1, <3>2, Zenon
    <2>6. ASSUME NEW k \in 1 .. Len(rows[p]), x = rows[p][k],
                 a = req[p].acct, i = Len(ledger[a]) + k
          PROVE  i = j
      <3>1. CASE j \in 1 .. Len(ledger[a]) /\ y = ledger[a][j]
        BY <2>0, <2>2, <2>6, <3>1 DEF Admitted
      <3>2. ASSUME NEW m \in 1 .. Len(rows[p]), y = rows[p][m], j = Len(ledger[a]) + m
            PROVE  i = j
        <4>1. k = m
          BY <2>0, <2>2, <2>6, <3>2, Zenon DEF Admitted
        <4> QED
          BY <2>6, <3>2, <4>1, Zenon
      <3> QED
        BY <2>1, <2>4, <3>1, <3>2, Zenon
    <2> QED
      BY <2>1, <2>3, <2>5, <2>6, Zenon
  <1> QED
    BY <1>1, <1>2, OnlyCommitWrites

\* Drafts, open transactions, ids and unique indexes stay in step.
LEMMA OnceInvariant == Spec => []OnceInv
  <1>1. Init => OnceInv
    BY DEF Init, OnceInv, RowsAreDrafts, DraftsMirror, IdsOwned, UniqueAtCommit, InTx,
           ReversalMirrorsOriginal, ReversedOnce, ImportedOnce
  <1>2. TypeInv /\ BalanceInv /\ OnceInv /\ [Next]_vars => OnceInv'
    BY NextRowsAreDrafts, NextDraftsMirror, NextIdsOwned, NextUniqueAtCommit,
       NextReversalMirrors, NextReversedOnce, NextImportedOnce
       DEF TypeInv, BalanceInv, OnceInv
  <1> QED
    BY <1>1, <1>2, TypeInvariant, BalanceInvariant, PTL DEF Spec

\* Every reversal follows a statement of its own account with the same amount
\* and the opposite type, however far the replica it was read from lags
\* (reverse.go:77-117).
THEOREM ReversalsMirror == Spec => []ReversalMirrorsOriginal
  <1>1. OnceInv => ReversalMirrorsOriginal
    BY DEF OnceInv
  <1> QED
    BY <1>1, OnceInvariant, PTL

\* No statement is reversed twice, however many reversals pass HasReversal
\* together (reverse.go:91-101, statement.go:197-226).
THEOREM ReversedAtMostOnce == Spec => []ReversedOnce
  <1>1. OnceInv => ReversedOnce
    BY DEF OnceInv
  <1> QED
    BY <1>1, OnceInvariant, PTL

\* No FITID is in the ledger of an account twice, however many imports of the
\* same file run together (import.go:87-126, statement.go:439-470).
THEOREM ImportedAtMostOnce == Spec => []ImportedOnce
  <1>1. OnceInv => ImportedOnce
    BY DEF OnceInv
  <1> QED
    BY <1>1, OnceInvariant, PTL
-----------------------------------------------------------------------------
(***************************************************************************)
(* Postings are whole.  The interleaved requests implement the atomic      *)
(* ledger: a COMMIT with rows is one Post of AtomicLedger, the soft delete *)
(* of an active account one Close, an update that opens a closed account   *)
(* again one Reopen, and every other step leaves the committed tables      *)
(* alone.                                                                  *)
(***************************************************************************)

\* The abstract arithmetic is that of the repository (statement.go:188-195).
LEMMA SameArithmetic ==
  ASSUME NEW b, NEW t, NEW n
  PROVE  Atomic!Apply(b, t, n) = Apply(b, t, n) /\ Atomic!Opposite(t) = Opposite(t)
  BY DEF Atomic!Apply, Apply, Atomic!Wrap, Wrap, Atomic!Opposite, Opposite

\* Only a soft delete or an update writes accounts.active (account.go:250-302).
LEMMA OnlyAccountWrites ==
  ASSUME [Next]_vars, active' # active
  PROVE  \E p \in Requests : SoftDelete(p) \/ UpdateAccount(p)
  <1>1. ASSUME NEW p \in Requests, Start(p) \/ Step(p) \/ Fail(p)
        PROVE  SoftDelete(p) \/ UpdateAccount(p)
    BY <1>1, ZenonT(60)
    DEF Step, Start, FindAccount, PrepareCreate, FindOriginal, CheckReversal,
        FindExternalIDs, MapTransaction, EndMapping, LockAccount, BuildRow,
        InsertRows, Commit, Fail, store
  <1>2. ~(Replicate \/ Quiescent \/ UNCHANGED vars)
    BY DEF Replicate, Quiescent, vars, store
  <1> QED
    BY <1>1, <1>2 DEF Next

\* A soft delete closes an open account, and an update that finds the account
\* closed opens it.
LEMMA AccountWriteRefines ==
  ASSUME TypeOK, [Next]_vars, UNCHANGED <<ledger, balance>>
  PROVE  [Atomic!Next]_(Atomic!avars)
  <1>1. ASSUME NEW p \in Requests, SoftDelete(p), active' # active
        PROVE  Atomic!Close(req[p].acct) /\ req[p].acct \in Accounts
    BY <1>1, InputFields, ZenonT(60) DEF SoftDelete, WriteAccount, Atomic!Close, TypeOK
  <1>2. ASSUME NEW p \in Requests, UpdateAccount(p), active' # active
        PROVE  Atomic!Reopen(req[p].acct) /\ req[p].acct \in Accounts
    <2>1. req[p].acct \in Accounts
      BY InputFields DEF TypeOK
    <2>2. active' = [active EXCEPT ![req[p].acct] = TRUE]
      BY <1>2 DEF UpdateAccount, WriteAccount
    <2>3. ~active[req[p].acct]
      BY <1>2, <2>1, <2>2 DEF TypeOK
    <2> QED
      BY <2>1, <2>2, <2>3 DEF Atomic!Reopen
  <1>3. CASE active' = active
    BY <1>3 DEF Atomic!avars
  <1> QED
    BY <1>1, <1>2, <1>3, OnlyAccountWrites DEF Atomic!Next

\* A transaction without rows commits nothing: the tables stay as they are.
LEMMA EmptyCommit ==
  ASSUME TypeOK, TxChained, NEW p \in Requests, Commit(p), Len(rows[p]) = 0
  PROVE  UNCHANGED Atomic!avars
  <1> DEFINE a == req[p].acct
  <1>1. a \in Accounts /\ ledger[a] \in Seq(Rows) /\ rows[p] \in Seq(Rows)
    BY CommitGrows
  <1>2. rows[p] = << >>
    BY <1>1, EmptySeq
  <1>3. ledger[a] \o rows[p] = ledger[a]
    BY <1>1, <1>2, ConcatEmptySeq
  <1>4. running[p] = balance[a]
    BY DEF Commit, TxChained, TxChainedOf, InTx, TxBalance
  <1> QED
    BY <1>1, <1>3, <1>4 DEF Commit, TypeOK, Atomic!avars

\* A transaction with rows is one posting: the rows continue the balance, a
\* reversal among them is the first of an earlier statement and an import is
\* new to its account (statement.go:168-230, 401-492).
LEMMA CommitPosts ==
  ASSUME TypeOK, TxChained, BalanceChained, NEW p \in Requests, Commit(p),
         Len(rows[p]) # 0,
         BalanceChained', ReversalMirrorsOriginal', ReversedOnce', ImportedOnce',
         NEW a, a = req[p].acct
  PROVE  Atomic!Post(a)
  <1>1. /\ a \in Accounts
        /\ ledger[a] \in Seq(Rows)
        /\ rows[p] \in Seq(Rows)
        /\ Len(ledger[a]) \in Nat
        /\ Len(rows[p]) \in Nat
        /\ Len(ledger'[a]) = Len(ledger[a]) + Len(rows[p])
        /\ \A i \in 1 .. Len(ledger[a]) : ledger'[a][i] = ledger[a][i]
    BY CommitGrows, ZenonT(60)
  <1>2. PICK old, new, len, size :
          old = ledger[a] /\ new = ledger'[a] /\ len = Len(old) /\ size = Len(new)
    OBVIOUS
  <1>3. len \in Nat /\ size \in Nat /\ size > len
    <2>1. PICK m, n, k : m = Len(ledger[a]) /\ n = Len(rows[p]) /\ k = Len(ledger'[a])
      OBVIOUS
    <2>2. m \in Nat /\ n \in Nat /\ k = m + n /\ n # 0
      BY <1>1, <2>1, Zenon
    <2>3. len = m /\ size = k
      BY <1>2, <2>1, Zenon
    <2> QED
      BY <2>2, <2>3
  <1>4. SubSeq(new, 1, len) = old
    <2>1. new \in Seq(Rows) /\ old \in Seq(Rows)
      BY <1>1, <1>2, ConcatProperties DEF Commit, TypeOK
    <2>2. /\ SubSeq(new, 1, len) \in Seq(Rows)
          /\ Len(SubSeq(new, 1, len)) = len
          /\ \A i \in 1 .. len : SubSeq(new, 1, len)[i] = new[i]
      BY <1>2, <1>3, <2>1, SubSeqProperties
    <2> QED
      BY <1>1, <1>2, <2>1, <2>2, SeqEqual
  <1>5. ASSUME NEW n \in (len + 1) .. size
        PROVE  /\ Atomic!Continues(new, n, 0)
               /\ new[n].ref # None => Atomic!ReversesFresh(new, n)
               /\ new[n].ext # None => Atomic!ImportsFresh(new, n)
    <2>1. n \in 1 .. size /\ \A i \in 1 .. (n - 1) : i \in 1 .. size /\ i # n
      BY <1>3
    <2>2. Atomic!Continues(new, n, 0)
      <3>1. new[n].balanceAfter = Apply(BalanceBefore(a, n)', new[n].type, new[n].amount)
        BY <1>1, <1>2, <2>1 DEF BalanceChained, AccountChained
      <3>2. BalanceBefore(a, n)' = IF n = 1 THEN 0 ELSE new[n - 1].balanceAfter
        BY <1>2 DEF BalanceBefore
      <3> QED
        BY <3>1, <3>2, SameArithmetic DEF Atomic!Continues
    <2>3. ASSUME new[n].ref # None PROVE Atomic!ReversesFresh(new, n)
      <3>1. PICK j \in 1 .. (n - 1) : /\ new[j].id = new[n].ref
                                      /\ new[j].amount = new[n].amount
                                      /\ new[j].type = Opposite(new[n].type)
        BY <1>1, <1>2, <2>1, <2>3, ZenonT(60) DEF ReversalMirrorsOriginal, Mirrors
      <3>2. \A i \in 1 .. (n - 1) : new[i].ref # new[n].ref
        BY <1>1, <1>2, <2>1, <2>3, ZenonT(60) DEF ReversedOnce
      <3> QED
        BY <3>1, <3>2, SameArithmetic DEF Atomic!ReversesFresh
    <2>4. ASSUME new[n].ext # None PROVE Atomic!ImportsFresh(new, n)
      BY <1>1, <1>2, <2>1, <2>4 DEF ImportedOnce, Atomic!ImportsFresh
    <2> QED
      BY <2>2, <2>3, <2>4
  <1>6. ledger' = [ledger EXCEPT ![a] = new]
    BY <1>1, <1>2 DEF Commit, TypeOK
  <1>7. balance' = [balance EXCEPT ![a] = new[size].balanceAfter]
    <2>1. balance'[a] = new[size].balanceAfter
      <3>1. balance'[a] = BalanceBefore(a, size + 1)'
        BY <1>1, <1>2 DEF BalanceChained, AccountChained, LastBalance
      <3>2. size + 1 # 1 /\ (size + 1) - 1 = size
        BY <1>3
      <3> QED
        BY <1>2, <3>1, <3>2 DEF BalanceBefore
    <2> QED
      BY <1>1, <2>1 DEF Commit, TypeOK
  <1> QED
    BY <1>2, <1>3, <1>4, <1>5, <1>6, <1>7, ZenonT(60) DEF Atomic!Post, Commit

\* Creates, reversals, imports, account updates, deletes, failures and a lagging
\* replica, interleaved in any way, look like a ledger that takes one posting,
\* closing or reopening at a time (interfaces/repository.go; statement.go:168-230,
\* 401-492; account.go:250-302).
THEOREM LedgerRefines == Spec => ImplementsAtomicLedger
  <1>1. Init => Atomic!Init
    BY DEF Init, Atomic!Init
  <1>2. ASSUME TypeInv, BalanceInv, BalanceInv', OnceInv', [Next]_vars
        PROVE  [Atomic!Next]_(Atomic!avars)
    <2>1. CASE UNCHANGED <<ledger, balance>>
      BY <1>2, <2>1, AccountWriteRefines DEF TypeInv
    <2>2. ASSUME NEW p \in Requests, Commit(p)
          PROVE  [Atomic!Next]_(Atomic!avars)
      <3>1. CASE Len(rows[p]) = 0
        BY <1>2, <2>2, <3>1, EmptyCommit DEF TypeInv, BalanceInv
      <3>2. CASE Len(rows[p]) # 0
        <4>1. Atomic!Post(req[p].acct)
          BY <1>2, <2>2, <3>2, CommitPosts DEF TypeInv, BalanceInv, OnceInv
        <4>2. req[p].acct \in Accounts
          BY <1>2, InputFields DEF TypeInv, TypeOK
        <4> QED
          BY <4>1, <4>2 DEF Atomic!Next
      <3> QED
        BY <3>1, <3>2
    <2> QED
      BY <1>2, <2>1, <2>2, OnlyCommitWrites
  <1> QED
    BY <1>1, <1>2, TypeInvariant, BalanceInvariant, OnceInvariant, PTL
    DEF Spec, ImplementsAtomicLedger, Atomic!Spec

-----------------------------------------------------------------------------
(***************************************************************************)
(* A request posts all its statements or none.                             *)
(***************************************************************************)

\* Membership in the rows of a request.
LEMMA InPostedBy ==
  ASSUME NEW q, NEW x
  PROVE  x \in PostedBy(q) <=>
           \E a \in Accounts : \E i \in 1 .. Len(ledger[a]) :
             x = <<a, i>> /\ ledger[a][i].id[1] = q
  <1>1. x \in UNION {{a} \X (1 .. Len(ledger[a])) : a \in Accounts} <=>
          \E a \in Accounts : \E i \in 1 .. Len(ledger[a]) : x = <<a, i>>
    OBVIOUS
  <1> QED
    BY <1>1 DEF PostedBy

\* The same after a step.
LEMMA InPostedByNext ==
  ASSUME NEW q, NEW x
  PROVE  x \in PostedBy(q)' <=>
           \E a \in Accounts : \E i \in 1 .. Len(ledger'[a]) :
             x = <<a, i>> /\ ledger'[a][i].id[1] = q
  <1>1. x \in UNION {{a} \X (1 .. Len(ledger'[a])) : a \in Accounts} <=>
          \E a \in Accounts : \E i \in 1 .. Len(ledger'[a]) : x = <<a, i>>
    OBVIOUS
  <1> QED
    BY <1>1 DEF PostedBy

\* Only its own COMMIT adds to the rows of a request.
LEMMA PostedStays ==
  ASSUME TypeOK, RowsAreDrafts, [Next]_vars, NEW q \in Requests, ~Commit(q)
  PROVE  PostedBy(q)' = PostedBy(q)
  <1>1. CASE UNCHANGED <<ledger, balance>>
    BY <1>1 DEF PostedBy
  <1>2. ASSUME NEW p \in Requests, Commit(p), NEW a \in Accounts,
               NEW i \in 1 .. Len(ledger'[a]), ledger'[a][i].id[1] = q
        PROVE  i \in 1 .. Len(ledger[a]) /\ ledger[a][i].id[1] = q
    <2>1. ASSUME NEW k \in 1 .. Len(rows[p]), ledger'[a][i] = rows[p][k] PROVE FALSE
      <3>1. rows[p][k].id = <<p, k>>
        BY <1>2 DEF RowsAreDrafts, Commit, InTx
      <3> QED
        BY <1>2, <2>1, <3>1
    <2> QED
      BY <1>2, <2>1, CommitCases, ZenonT(60)
  <1>3. ASSUME NEW a \in Accounts, NEW i \in 1 .. Len(ledger[a])
        PROVE  i \in 1 .. Len(ledger'[a]) /\ ledger'[a][i] = ledger[a][i]
    BY <1>3, NextGrows
  <1>4. ASSUME NEW p \in Requests, Commit(p), NEW x
        PROVE  x \in PostedBy(q)' <=> x \in PostedBy(q)
    <2>1. ASSUME x \in PostedBy(q)' PROVE x \in PostedBy(q)
      <3>1. PICK a \in Accounts : \E i \in 1 .. Len(ledger'[a]) :
                   x = <<a, i>> /\ ledger'[a][i].id[1] = q
        BY <2>1, InPostedByNext
      <3>2. PICK i \in 1 .. Len(ledger'[a]) : x = <<a, i>> /\ ledger'[a][i].id[1] = q
        BY <3>1
      <3>3. i \in 1 .. Len(ledger[a]) /\ ledger[a][i].id[1] = q
        BY <1>2, <1>4, <3>2, Zenon
      <3> QED
        BY <3>2, <3>3, InPostedBy, Zenon
    <2>2. ASSUME x \in PostedBy(q) PROVE x \in PostedBy(q)'
      <3>1. PICK a \in Accounts : \E i \in 1 .. Len(ledger[a]) :
                   x = <<a, i>> /\ ledger[a][i].id[1] = q
        BY <2>2, InPostedBy
      <3>2. PICK i \in 1 .. Len(ledger[a]) : x = <<a, i>> /\ ledger[a][i].id[1] = q
        BY <3>1
      <3>3. i \in 1 .. Len(ledger'[a]) /\ ledger'[a][i].id[1] = q
        BY <1>3, <3>2
      <3> QED
        BY <3>2, <3>3, InPostedByNext, Zenon
    <2> QED
      BY <2>1, <2>2
  <1> QED
    BY <1>1, <1>4, OnlyCommitWrites

\* What a step other than its COMMIT may do to the drafts and the answer of a
\* request: an answered one keeps them, and "ok" is answered with none drafted.
LEMMA AnswerWithoutCommit ==
  ASSUME TypeOK, DraftsInTime, [Next]_vars, NEW q \in Requests, ~Commit(q)
  PROVE  /\ pc[q] = "done" => /\ pc'[q] = "done"
                              /\ result'[q] = result[q] /\ drafts'[q] = drafts[q]
         /\ pc[q] # "done" =>
              /\ pc'[q] # "done" => result'[q] = result[q]
              /\ result'[q] = "ok" => result[q] = "ok" \/ drafts'[q] = << >>
  <1> DEFINE Kept(p) == pc'[p] = pc[p] /\ result'[p] = result[p] /\ drafts'[p] = drafts[p]
             Moved(p) == /\ pc[p] # "done"
                         /\ pc'[p] # "done" => result'[p] = result[p]
                         /\ result'[p] = "ok" => result[p] = "ok" \/ drafts'[p] = << >>
  <1> SUFFICES Kept(q) \/ Moved(q)
    OBVIOUS
  <1>1. ASSUME NEW p \in Requests, NEW s, Goto(p, s)
        PROVE  /\ result' = result
               /\ \A r \in Requests \ {p} : pc'[r] = pc[r] /\ result'[r] = result[r]
    BY <1>1 DEF Goto, TypeOK
  <1>2. ASSUME NEW p \in Requests, NEW w, Reply(p, w)
        PROVE  /\ pc'[p] = "done" /\ result'[p] = w
               /\ \A r \in Requests \ {p} : pc'[r] = pc[r] /\ result'[r] = result[r]
    BY <1>2 DEF Reply, TypeOK
  <1>3. ASSUME NEW p \in Requests, Start(p) \/ Fail(p) \/ CheckReversal(p) \/ InsertRows(p),
               p = q \/ p # q
        PROVE  Kept(q) \/ Moved(q)
    BY <1>1, <1>2, <1>3, SMTT(40) DEF Start, Fail, CheckReversal, InsertRows, locals
  <1>4. ASSUME NEW p \in Requests, FindAccount(p) \/ FindExternalIDs(p)
        PROVE  Kept(q) \/ Moved(q)
    BY <1>1, <1>2, <1>4, SMTT(40) DEF FindAccount, FindExternalIDs, locals
  <1>5. ASSUME NEW p \in Requests, PrepareCreate(p) \/ FindOriginal(p)
        PROVE  Kept(q) \/ Moved(q)
    BY <1>1, <1>2, <1>5, SMTT(40) DEF PrepareCreate, FindOriginal, TypeOK
  <1>6. ASSUME NEW p \in Requests, MapTransaction(p)
        PROVE  Kept(q) \/ Moved(q)
    BY <1>1, <1>2, <1>6, SMTT(40) DEF MapTransaction, TypeOK
  <1>7. ASSUME NEW p \in Requests, EndMapping(p) \/ SoftDelete(p) \/ UpdateAccount(p)
        PROVE  Kept(q) \/ Moved(q)
    <2>1. ASSUME NEW w, Reply(p, w), drafts' = drafts, pc[p] # "done",
                 w = "ok" => drafts[p] = << >>
          PROVE  Kept(q) \/ Moved(q)
      BY <1>2, <2>1
    <2>2. CASE EndMapping(p)
      BY <1>1, <2>1, <2>2 DEF EndMapping, locals
    <2>3. CASE SoftDelete(p) \/ UpdateAccount(p)
      <3>1. drafts[p] = << >> /\ pc[p] # "done" /\ drafts' = drafts
        BY <2>3 DEF SoftDelete, UpdateAccount, DraftsInTime, locals
      <3>2. \E w \in Answers : Reply(p, w)
        BY <2>3 DEF SoftDelete, UpdateAccount, WriteAccount, Answers
      <3> QED
        BY <2>1, <3>1, <3>2
    <2> QED
      BY <1>7, <2>2, <2>3
  <1>8. ASSUME NEW p \in Requests, LockAccount(p) \/ BuildRow(p)
        PROVE  Kept(q) \/ Moved(q)
    BY <1>1, <1>8, SMTT(40) DEF LockAccount, BuildRow
  <1>9. ASSUME NEW p \in Requests, Commit(p)
        PROVE  Kept(q)
    BY <1>2, <1>9 DEF Commit, locals
  <1>10. CASE Replicate \/ UNCHANGED vars
    BY <1>10 DEF Replicate, vars, locals
  <1> QED
    BY <1>3, <1>4, <1>5, <1>6, <1>7, <1>8, <1>9, <1>10 DEF Next, Step, Quiescent

\* Use cases draft after their checks, and an INSERT takes every draft.
LEMMA NextDraftsInTime ==
  ASSUME TypeOK, StepsOfOp, TxChained, DraftsInTime, [Next]_vars PROVE DraftsInTime'
  <1> DEFINE Early == {"idle", "account", "create", "original", "parse", "update", "delete"}
  <1> SUFFICES ASSUME NEW q \in Requests
               PROVE  /\ pc'[q] \in Early => drafts'[q] = << >>
                      /\ pc'[q] = "commit" => Len(rows'[q]) = Len(drafts'[q])
    BY DEF DraftsInTime
  <1> DEFINE Goal == /\ pc'[q] \in Early => drafts'[q] = << >>
                     /\ pc'[q] = "commit" => Len(rows'[q]) = Len(drafts'[q])
  <1>0. CASE pc'[q] = pc[q] /\ rows'[q] = rows[q] /\ drafts'[q] = drafts[q]
    BY <1>0 DEF DraftsInTime
  <1>1. ASSUME NEW p \in Requests, Start(p) \/ Fail(p) \/ CheckReversal(p) \/ EndMapping(p)
        PROVE  Goal
    BY <1>0, <1>1, SMTT(40)
    DEF Start, Fail, CheckReversal, EndMapping, Reply, Goto, DraftsInTime, TypeOK, locals
  <1>2. ASSUME NEW p \in Requests, FindAccount(p) \/ FindExternalIDs(p) PROVE Goal
    <2>1. CASE p # q
      BY <1>0, <1>2, <2>1, SMTT(40)
      DEF FindAccount, FindExternalIDs, Reply, Goto, TypeOK, locals
    <2>2. CASE p = q /\ FindExternalIDs(p)
      BY <2>2, SMTT(40) DEF FindExternalIDs, Reply, Goto, DraftsInTime, TypeOK
    <2>3. CASE p = q /\ FindAccount(p)
      <3>1. drafts'[q] = << >>
        BY <2>3 DEF FindAccount, DraftsInTime, locals
      <3>2. PICK s : pc'[q] = s /\ s # "commit"
        BY <2>3, AfterAccountType DEF FindAccount, Reply, Goto, TypeOK
      <3> QED
        BY <3>1, <3>2
    <2> QED
      BY <1>2, <2>1, <2>2, <2>3
  <1>3. ASSUME NEW p \in Requests, PrepareCreate(p) \/ FindOriginal(p) PROVE Goal
    BY <1>0, <1>3, SMTT(40)
    DEF PrepareCreate, FindOriginal, Reply, Goto, DraftsInTime, TypeOK
  <1>4. ASSUME NEW p \in Requests, MapTransaction(p) PROVE Goal
    BY <1>0, <1>4, SMTT(40) DEF MapTransaction, Reply, DraftsInTime, TypeOK
  <1>5. ASSUME NEW p \in Requests, LockAccount(p) \/ BuildRow(p) PROVE Goal
    BY <1>0, <1>5, SMTT(40) DEF LockAccount, BuildRow, Goto, DraftsInTime, TypeOK
  <1>6. ASSUME NEW p \in Requests, InsertRows(p) PROVE Goal
    <2>1. CASE p # q
      BY <1>0, <1>6, <2>1 DEF InsertRows, Reply, Goto, TypeOK, locals
    <2>2. CASE p = q
      BY <1>6, <2>2 DEF InsertRows, Reply, Goto, TypeOK, locals
    <2> QED
      BY <2>1, <2>2
  <1>7. ASSUME NEW p \in Requests, Commit(p) \/ SoftDelete(p) \/ UpdateAccount(p) PROVE Goal
    <2>1. CASE p # q
      BY <1>0, <1>7, <2>1
      DEF Commit, SoftDelete, UpdateAccount, WriteAccount, Reply, TypeOK, locals
    <2>2. CASE p = q
      BY <1>7, <2>2 DEF Commit, SoftDelete, UpdateAccount, WriteAccount, Reply, TypeOK
    <2> QED
      BY <2>1, <2>2
  <1>8. CASE Replicate \/ UNCHANGED vars
    BY <1>0, <1>8 DEF Replicate, vars, locals
  <1> QED
    BY <1>1, <1>2, <1>3, <1>4, <1>5, <1>6, <1>7, <1>8 DEF Next, Step, Quiescent

\* COMMIT puts every row of the transaction behind those of its account.
LEMMA CommitWhole ==
  ASSUME TypeOK, RowsAreDrafts, DraftsInTime, NothingBeforeAnswer,
         NEW q \in Requests, Commit(q), NEW k, k = Len(ledger[req[q].acct])
  PROVE  k \in 0 .. Len(ledger'[req[q].acct]) /\ req' = req /\ PostedBehind(q, k)'
  <1>1. PICK a, n, r, d : /\ a = req[q].acct /\ n = Len(rows[q])
                          /\ r = rows[q] /\ d = drafts[q]
    OBVIOUS
  <1>2. /\ a \in Accounts
        /\ k \in Nat /\ n \in Nat
        /\ Len(ledger'[a]) = k + n
        /\ \A i \in 1 .. n : ledger'[a][k + i] = r[i]
    BY <1>1, CommitGrows, ZenonT(60)
  <1>3. req' = req /\ drafts' = drafts /\ n = Len(d)
    BY <1>1 DEF Commit, DraftsInTime, locals
  <1>4. \A i \in 1 .. n : /\ r[i].id = <<q, i>> /\ r[i].type = d[i].type
                          /\ r[i].amount = d[i].amount /\ r[i].ext = d[i].ext
    BY <1>1 DEF RowsAreDrafts, Commit, InTx
  <1>5. \A i \in 1 .. n : k + i \in 1 .. k + n
    BY <1>2
  <1>6. ASSUME NEW x \in PostedBy(q)' PROVE x \in {<<a, k + i>> : i \in 1 .. n}
    <2>1. PICK b \in Accounts : \E i \in 1 .. Len(ledger'[b]) :
                 x = <<b, i>> /\ ledger'[b][i].id[1] = q
      BY <1>6, InPostedByNext
    <2>2. PICK i \in 1 .. Len(ledger'[b]) : x = <<b, i>> /\ ledger'[b][i].id[1] = q
      BY <2>1
    <2>3. ~(i \in 1 .. Len(ledger[b]) /\ ledger'[b][i] = ledger[b][i])
      <3>1. PostedBy(q) = {}
        BY DEF NothingBeforeAnswer, Commit
      <3>2. ASSUME i \in 1 .. Len(ledger[b]), ledger'[b][i] = ledger[b][i]
            PROVE  x \in PostedBy(q)
        BY <2>2, <3>2, InPostedBy, Zenon
      <3> QED
        BY <3>1, <3>2
    <2>4. b = a /\ \E m \in 1 .. n : i = k + m
      <3>1. /\ b = req[q].acct
            /\ \E m \in 1 .. Len(rows[q]) :
                 i = Len(ledger[b]) + m /\ ledger'[b][i] = rows[q][m]
        BY <2>1, <2>2, <2>3, CommitCases, Zenon
      <3> QED
        BY <1>1, <3>1, Zenon
    <2> QED
      BY <2>2, <2>4
  <1>7. ASSUME NEW i \in 1 .. n PROVE <<a, k + i>> \in PostedBy(q)'
    <2>1. k + i \in 1 .. Len(ledger'[a])
      BY <1>2, <1>5
    <2>2. ledger'[a][k + i] = r[i] /\ r[i].id = <<q, i>>
      BY <1>2, <1>4
    <2>3. ledger'[a][k + i].id[1] = q
      BY <2>2
    <2> QED
      BY <1>2, <2>1, <2>3, InPostedByNext, Zenon
  <1>8. PostedBy(q)' = {<<a, k + i>> : i \in 1 .. n}
    BY <1>6, <1>7
  <1>9. k \in 0 .. Len(ledger'[a])
    BY <1>2
  <1>10. \A i \in 1 .. n : /\ ledger'[a][k + i].type = d[i].type
                          /\ ledger'[a][k + i].amount = d[i].amount
                          /\ ledger'[a][k + i].ext = d[i].ext
    BY <1>2, <1>4
  <1> QED
    BY <1>1, <1>3, <1>8, <1>9, <1>10, SMTT(40) DEF PostedBehind

\* What was posted whole stays so.
LEMMA BehindStays ==
  ASSUME TypeOK, [Next]_vars, NEW q \in Requests, NEW k, PostedBehind(q, k),
         k \in 0 .. Len(ledger[req[q].acct]),
         PostedBy(q)' = PostedBy(q), drafts'[q] = drafts[q]
  PROVE  k \in 0 .. Len(ledger'[req[q].acct]) /\ req' = req /\ PostedBehind(q, k)'
  <1>1. PICK a, d : a = req[q].acct /\ d = drafts[q]
    OBVIOUS
  <1>2. a \in Accounts /\ req' = req
    BY <1>1, InputFields, DraftsFixed DEF TypeOK
  <1>3. /\ Len(ledger[a]) \in Nat /\ Len(ledger'[a]) \in Nat
        /\ Len(ledger'[a]) >= Len(ledger[a])
        /\ \A i \in 1 .. Len(ledger[a]) : ledger'[a][i] = ledger[a][i]
    BY <1>2, NextGrows
  <1>4. ASSUME NEW i \in 1 .. Len(d) PROVE ledger'[a][k + i] = ledger[a][k + i]
    <2>1. <<a, k + i>> \in PostedBy(q)
      BY <1>1 DEF PostedBehind
    <2>2. k + i \in 1 .. Len(ledger[a])
      BY <2>1, InPostedBy
    <2> QED
      BY <1>3, <2>2
  <1>5. k \in 0 .. Len(ledger'[a])
    BY <1>1, <1>3
  <1>6. /\ PostedBy(q)' = {<<a, k + i>> : i \in 1 .. Len(d)}
        /\ \A i \in 1 .. Len(d) : /\ ledger'[a][k + i].type = d[i].type
                                  /\ ledger'[a][k + i].amount = d[i].amount
                                  /\ ledger'[a][k + i].ext = d[i].ext
    BY <1>1, <1>4 DEF PostedBehind
  <1> QED
    BY <1>1, <1>2, <1>5, <1>6, ZenonT(60) DEF PostedBehind

\* The parts of WholeInv are preserved together.
LEMMA NextWhole ==
  ASSUME TypeInv, TxChained, RowsAreDrafts, WholeInv, [Next]_vars PROVE WholeInv'
  <1>1. TypeOK /\ StepsOfOp /\ DraftsInTime /\ NothingBeforeAnswer /\ AllOrNothing
    BY DEF TypeInv, WholeInv
  <1>2. req' = req
    BY <1>1, DraftsFixed
  <1>3. ASSUME NEW q \in Requests, Commit(q)
        PROVE  /\ pc'[q] = "done"
               /\ result'[q] \in {"ok", "ErrInternal"}
               /\ \E k \in 0 .. Len(ledger'[req[q].acct]) : PostedBehind(q, k)'
    <2>1. pc'[q] = "done" /\ result'[q] \in {"ok", "ErrInternal"}
      BY <1>1, <1>3 DEF Commit, Reply, TypeOK
    <2>2. \E k \in 0 .. Len(ledger'[req[q].acct]) : PostedBehind(q, k)'
      BY <1>1, <1>3, CommitWhole, Zenon
    <2> QED
      BY <2>1, <2>2
  <1>4. ASSUME NEW q \in Requests, ~Commit(q), pc[q] = "done"
        PROVE  /\ pc'[q] = "done"
               /\ \/ /\ PostedBy(q)' = {}
                     /\ result'[q] = "ok" => drafts'[q] = << >>
                  \/ /\ result'[q] \in {"ok", "ErrInternal"}
                     /\ \E k \in 0 .. Len(ledger'[req[q].acct]) : PostedBehind(q, k)'
    <2>1. /\ pc'[q] = "done" /\ result'[q] = result[q] /\ drafts'[q] = drafts[q]
          /\ PostedBy(q)' = PostedBy(q)
      BY <1>1, <1>4, AnswerWithoutCommit, PostedStays, Zenon
    <2>2. CASE PostedBy(q) = {} /\ (result[q] = "ok" => drafts[q] = << >>)
      BY <2>1, <2>2
    <2>3. ASSUME NEW k \in 0 .. Len(ledger[req[q].acct]), PostedBehind(q, k)
          PROVE  k \in 0 .. Len(ledger'[req[q].acct]) /\ PostedBehind(q, k)'
      BY <1>1, <2>1, <2>3, BehindStays, Zenon
    <2> QED
      BY <1>1, <1>4, <2>1, <2>2, <2>3, ZenonT(60) DEF AllOrNothing
  <1>5. ASSUME NEW q \in Requests, ~Commit(q), pc[q] # "done"
        PROVE  /\ PostedBy(q)' = {}
               /\ result'[q] = "ok" => drafts'[q] = << >>
               /\ pc'[q] # "done" => result'[q] = "none"
    <2>1. result[q] = "none" /\ PostedBy(q) = {}
      BY <1>1, <1>5 DEF NothingBeforeAnswer
    <2> QED
      BY <1>1, <1>5, <2>1, AnswerWithoutCommit, PostedStays
  <1>6. DraftsInTime'
    BY <1>1, NextDraftsInTime
  <1>7. NothingBeforeAnswer'
    BY <1>3, <1>4, <1>5, Zenon DEF NothingBeforeAnswer
  <1>8. AllOrNothing'
    BY <1>2, <1>3, <1>4, <1>5, ZenonT(60) DEF AllOrNothing
  <1> QED
    BY <1>6, <1>7, <1>8 DEF WholeInv

\* Postings stay whole.
LEMMA WholeInvariant == Spec => []WholeInv
  <1>1. Init => WholeInv
    <2> SUFFICES ASSUME Init PROVE WholeInv
      OBVIOUS
    <2>1. \A p \in Requests : PostedBy(p) = {}
      BY InPostedBy DEF Init
    <2> QED
      BY <2>1 DEF Init, WholeInv, DraftsInTime, NothingBeforeAnswer, AllOrNothing
  <1>2. TypeInv /\ BalanceInv /\ OnceInv /\ WholeInv /\ [Next]_vars => WholeInv'
    BY NextWhole DEF BalanceInv, OnceInv
  <1> QED
    BY <1>1, <1>2, TypeInvariant, BalanceInvariant, OnceInvariant, PTL DEF Spec

\* A request posts every statement of its file or body, in order and next to
\* one another, or none of them, and only a whole posting answers 2xx
\* (statement.go:168-230, 401-492).
THEOREM PostingsWhole == Spec => []AllOrNothing
  <1>1. WholeInv => AllOrNothing
    BY DEF WholeInv
  <1> QED
    BY <1>1, WholeInvariant, PTL

-----------------------------------------------------------------------------
(***************************************************************************)
(* Nothing is posted by a request that finds its account gone.             *)
(***************************************************************************)

\* The stream brings nothing that would open account a on the replica.
StreamClosed(a) == \A i \in 1 .. Len(wal) : wal[i].acct = a => ~wal[i].active

\* A commit that does not open account a leaves the stream without one.
LEMMA PublishClosed ==
  ASSUME TypeOK, NEW a \in Accounts, StreamClosed(a), NEW b \in Accounts,
         NEW n \in Nat, NEW w \in BOOLEAN, Publish(b, n, w), b = a => ~w
  PROVE  StreamClosed(a)'
  <1>1. CASE wal' = wal
    BY <1>1 DEF StreamClosed
  <1>2. CASE wal' = Append(wal, [acct |-> b, len |-> n, active |-> w])
    <2>1. [acct |-> b, len |-> n, active |-> w] \in WalRecords
      BY DEF WalRecords
    <2>2. /\ Len(wal) \in Nat
          /\ Len(wal') = Len(wal) + 1
          /\ \A i \in 1 .. Len(wal) : wal'[i] = wal[i]
          /\ wal'[Len(wal) + 1] = [acct |-> b, len |-> n, active |-> w]
      BY <1>2, <2>1, AppendProperties, LenProperties DEF TypeOK
    <2>3. ASSUME NEW i \in 1 .. Len(wal'), wal'[i].acct = a PROVE ~wal'[i].active
      <3>1. CASE i \in 1 .. Len(wal)
        BY <2>2, <2>3, <3>1 DEF StreamClosed
      <3>2. CASE i = Len(wal) + 1
        BY <2>2, <2>3, <3>2
      <3> QED
        BY <2>2, <3>1, <3>2
    <2> QED
      BY <2>3 DEF StreamClosed
  <1> QED
    BY <1>1, <1>2 DEF Publish

\* Only commits and writes of accounts are published, each with what it left in
\* accounts.active.
LEMMA PublishCases ==
  ASSUME TypeOK, [Next]_vars, wal' # wal
  PROVE  \/ Replicate
         \/ \E b \in Accounts : \E n \in Nat : Publish(b, n, active'[b])
  <1>1. ASSUME NEW p \in Requests, Start(p) \/ Step(p) \/ Fail(p)
        PROVE  Commit(p) \/ SoftDelete(p) \/ UpdateAccount(p)
    BY <1>1, ZenonT(60)
    DEF Step, Start, FindAccount, PrepareCreate, FindOriginal, CheckReversal,
        FindExternalIDs, MapTransaction, EndMapping, LockAccount, BuildRow,
        InsertRows, Fail, replica
  <1>2. ASSUME NEW p \in Requests, Commit(p)
        PROVE  \E b \in Accounts : \E n \in Nat : Publish(b, n, active'[b])
    <2>1. req[p].acct \in Accounts
      BY InputFields DEF TypeOK
    <2>2. Len(ledger[req[p].acct]) \in Nat /\ Len(rows[p]) \in Nat
      BY <2>1 DEF TypeOK
    <2>3. Len(ledger[req[p].acct]) + Len(rows[p]) \in Nat
      BY <2>2, NatSum
    <2>4. Publish(req[p].acct, Len(ledger[req[p].acct]) + Len(rows[p]), active'[req[p].acct])
      BY <1>2 DEF Commit
    <2> QED
      BY <2>1, <2>3, <2>4
  <1>3. ASSUME NEW p \in Requests, SoftDelete(p) \/ UpdateAccount(p)
        PROVE  \E b \in Accounts : \E n \in Nat : Publish(b, n, active'[b])
    <2>1. req[p].acct \in Accounts
      BY InputFields DEF TypeOK
    <2>2. Len(ledger[req[p].acct]) \in Nat
      BY <2>1 DEF TypeOK
    <2>3. PICK w \in BOOLEAN : /\ active' = [active EXCEPT ![req[p].acct] = w]
                               /\ Publish(req[p].acct, Len(ledger[req[p].acct]), w)
      BY <1>3 DEF SoftDelete, UpdateAccount, WriteAccount
    <2>4. active'[req[p].acct] = w
      BY <2>1, <2>3 DEF TypeOK
    <2> QED
      BY <2>1, <2>2, <2>3, <2>4
  <1> QED
    BY <1>1, <1>2, <1>3 DEF Next, Quiescent, vars, replica

\* An account that is gone is opened by no step: FindByID does not show it, so
\* no update gets past it (account.go:109-126, 250-258).
LEMMA GoneStays ==
  ASSUME TypeOK, TypeOK', [Next]_vars, NEW a \in Accounts, Gone(a) PROVE Gone(a)'
  <1>1. ~active'[a]
    <2>1. ASSUME NEW p \in Requests, SoftDelete(p) PROVE ~active'[a]
      BY <2>1 DEF SoftDelete, WriteAccount, TypeOK, Gone
    <2>2. ASSUME NEW p \in Requests, UpdateAccount(p) PROVE ~active'[a]
      BY <2>2 DEF UpdateAccount, WriteAccount, TypeOK, Gone
    <2> QED
      BY <2>1, <2>2, OnlyAccountWrites DEF Gone
  <1>2. StreamClosed(a)'
    <2>1. StreamClosed(a)
      BY DEF Gone, StreamClosed
    <2>2. CASE wal' = wal
      BY <2>1, <2>2 DEF StreamClosed
    <2>3. CASE Replicate
      <3>1. wal # << >> /\ wal' = Tail(wal) /\ wal \in Seq(WalRecords)
        BY <2>3 DEF Replicate, TypeOK
      <3>2. /\ Len(wal) \in Nat \ {0}
            /\ Len(wal') = Len(wal) - 1
            /\ \A i \in 1 .. Len(wal') : wal'[i] = wal[i + 1]
        BY <3>1, HeadTailProperties, EmptySeq
      <3>3. \A i \in 1 .. Len(wal') : i + 1 \in 1 .. Len(wal)
        BY <3>2
      <3> QED
        BY <2>1, <3>2, <3>3 DEF StreamClosed
    <2>4. ASSUME NEW b \in Accounts, NEW n \in Nat, Publish(b, n, active'[b])
          PROVE  StreamClosed(a)'
      <3>1. active'[b] \in BOOLEAN
        BY DEF TypeOK
      <3> QED
        BY <1>1, <2>1, <2>4, <3>1, PublishClosed
    <2> QED
      BY <2>2, <2>3, <2>4, PublishCases
  <1>3. ~ReaderActive(a)'
    <2>1. CASE ~HasReplica
      BY <1>1, <2>1 DEF ReaderActive
    <2>2. CASE HasReplica /\ Replicate
      <3>1. wal[1] \in WalRecords /\ 1 \in 1 .. Len(wal)
        BY <2>2, EmptySeq, ElementOfSeq, LenProperties DEF Replicate, TypeOK
      <3>2. repActive' = [repActive EXCEPT ![wal[1].acct] = wal[1].active]
        BY <2>2 DEF Replicate
      <3>3. ~repActive[a]
        BY <2>2 DEF Gone, ReaderActive
      <3>4. wal[1].acct = a => ~wal[1].active
        BY <3>1 DEF Gone
      <3>5. wal[1].acct = a => ~repActive'[a]
        BY <3>2, <3>4, Zenon DEF TypeOK
      <3>6. wal[1].acct # a => ~repActive'[a]
        BY <3>2, <3>3, Zenon DEF TypeOK
      <3> QED
        BY <2>2, <3>5, <3>6 DEF ReaderActive
    <2>3. CASE HasReplica /\ repActive' = repActive
      BY <2>3 DEF ReaderActive, Gone
    <2>4. ASSUME NEW p \in Requests, Start(p) \/ Step(p) \/ Fail(p)
          PROVE  repActive' = repActive
      BY <2>4, ZenonT(60)
      DEF Step, Start, FindAccount, PrepareCreate, FindOriginal, CheckReversal,
          FindExternalIDs, MapTransaction, EndMapping, LockAccount, BuildRow,
          InsertRows, Commit, SoftDelete, UpdateAccount, Fail, replica
    <2> QED
      BY <2>1, <2>2, <2>3, <2>4, HasReplicaAssumption DEF Next, Quiescent, vars, replica
  <1>4. req' = req
    BY DraftsFixed
  <1>5. ASSUME NEW q \in Requests, req[q].acct = a PROVE pc'[q] # "update"
    <2>0. pc[q] # "update"
      BY <1>5 DEF Gone
    <2>1. ASSUME NEW p \in Requests, NEW w, Reply(p, w) PROVE pc'[q] # "update"
      BY <2>0, <2>1 DEF Reply, TypeOK
    <2>2. ASSUME NEW p \in Requests, NEW s, Goto(p, s), s # "update" \/ p # q
          PROVE  pc'[q] # "update"
      BY <2>0, <2>2 DEF Goto, TypeOK
    <2>3. ASSUME NEW p \in Requests, Start(p) \/ Fail(p) PROVE pc'[q] # "update"
      BY <2>1, <2>2, <2>3 DEF Start, Fail
    <2>4. ASSUME NEW p \in Requests, FindAccount(p) PROVE pc'[q] # "update"
      <3>1. CASE p # q
        BY <2>1, <2>2, <2>4, <3>1 DEF FindAccount
      <3>2. CASE p = q
        BY <1>5, <2>1, <2>4, <3>2 DEF FindAccount, Gone
      <3> QED
        BY <3>1, <3>2
    <2>5. ASSUME NEW p \in Requests, PrepareCreate(p) \/ FindOriginal(p) \/ CheckReversal(p)
          PROVE  pc'[q] # "update"
      BY <2>1, <2>2, <2>5 DEF PrepareCreate, FindOriginal, CheckReversal
    <2>6. ASSUME NEW p \in Requests,
                 FindExternalIDs(p) \/ MapTransaction(p) \/ EndMapping(p)
          PROVE  pc'[q] # "update"
      BY <2>0, <2>1, <2>2, <2>6 DEF FindExternalIDs, MapTransaction, EndMapping
    <2>7. ASSUME NEW p \in Requests, LockAccount(p) \/ BuildRow(p) \/ InsertRows(p)
          PROVE  pc'[q] # "update"
      BY <2>0, <2>1, <2>2, <2>7 DEF LockAccount, BuildRow, InsertRows
    <2>8. ASSUME NEW p \in Requests, Commit(p) \/ SoftDelete(p) \/ UpdateAccount(p)
          PROVE  pc'[q] # "update"
      BY <2>1, <2>8 DEF Commit, SoftDelete, UpdateAccount, WriteAccount
    <2>9. CASE Replicate \/ UNCHANGED vars
      BY <2>0, <2>9 DEF Replicate, vars
    <2> QED
      BY <2>3, <2>4, <2>5, <2>6, <2>7, <2>8, <2>9 DEF Next, Step, Quiescent
  <1> QED
    BY <1>1, <1>2, <1>3, <1>4, <1>5 DEF Gone, StreamClosed

\* The account of p is gone, and p has neither posted nor got past FindByID.
ShutOut(p) ==
  /\ Gone(req[p].acct)
  /\ pc[p] \in {"idle", "account", "delete", "done"}
  /\ PostedBy(p) = {}

\* A request that is shut out stays so.
LEMMA NextShutOut ==
  ASSUME TypeOK, TypeOK', RowsAreDrafts, [Next]_vars, NEW p \in Requests, ShutOut(p)
  PROVE  ShutOut(p)'
  <1> DEFINE Outside(s) == s \in {"idle", "account", "delete", "done"}
  <1>1. req' = req /\ req[p].acct \in Accounts
    BY DraftsFixed, InputFields DEF TypeOK
  <1>2. Gone(req[p].acct)'
    <2>1. PICK a \in Accounts : a = req[p].acct
      BY <1>1
    <2>2. Gone(a)'
      BY <2>1, GoneStays DEF ShutOut
    <2> QED
      BY <1>1, <2>1, <2>2
  <1>3. Outside(pc'[p])
    <2>1. Outside(pc[p])
      BY DEF ShutOut
    <2>2. ASSUME NEW q \in Requests, NEW w, Reply(q, w) PROVE Outside(pc'[p])
      BY <2>1, <2>2 DEF Reply, TypeOK
    <2>3. ASSUME NEW q \in Requests, NEW s, Goto(q, s), q # p \/ Outside(s)
          PROVE  Outside(pc'[p])
      BY <2>1, <2>3 DEF Goto, TypeOK
    <2>4. ASSUME NEW q \in Requests, Start(q) \/ Fail(q) PROVE Outside(pc'[p])
      BY <2>2, <2>3, <2>4 DEF Start, Fail
    <2>5. ASSUME NEW q \in Requests, FindAccount(q) PROVE Outside(pc'[p])
      <3>1. CASE q # p
        BY <2>2, <2>3, <2>5, <3>1 DEF FindAccount
      <3>2. CASE q = p
        <4>1. ~ReaderActive(req[q].acct)
          BY <3>2 DEF Gone, ShutOut
        <4> QED
          BY <2>2, <2>5, <4>1 DEF FindAccount
      <3> QED
        BY <3>1, <3>2
    <2>6. ASSUME NEW q \in Requests, PrepareCreate(q) \/ FindOriginal(q)
          PROVE  Outside(pc'[p])
      BY <2>1, <2>2, <2>3, <2>6 DEF PrepareCreate, FindOriginal
    <2>7. ASSUME NEW q \in Requests, CheckReversal(q) \/ FindExternalIDs(q)
          PROVE  Outside(pc'[p])
      BY <2>1, <2>2, <2>3, <2>7 DEF CheckReversal, FindExternalIDs
    <2>8. ASSUME NEW q \in Requests, MapTransaction(q) \/ EndMapping(q)
          PROVE  Outside(pc'[p])
      BY <2>1, <2>2, <2>3, <2>8 DEF MapTransaction, EndMapping
    <2>9. ASSUME NEW q \in Requests, LockAccount(q) \/ BuildRow(q) \/ InsertRows(q)
          PROVE  Outside(pc'[p])
      BY <2>1, <2>2, <2>3, <2>9 DEF LockAccount, BuildRow, InsertRows
    <2>10. ASSUME NEW q \in Requests, Commit(q) \/ SoftDelete(q) \/ UpdateAccount(q)
           PROVE  Outside(pc'[p])
      BY <2>2, <2>10 DEF Commit, SoftDelete, UpdateAccount, WriteAccount
    <2>11. CASE Replicate \/ UNCHANGED vars
      BY <2>1, <2>11 DEF Replicate, vars
    <2> QED
      BY <2>4, <2>5, <2>6, <2>7, <2>8, <2>9, <2>10, <2>11 DEF Next, Step, Quiescent
  <1>4. PostedBy(p)' = {}
    <2>1. ~Commit(p)
      BY DEF ShutOut, Commit
    <2> QED
      BY <2>1, PostedStays DEF ShutOut
  <1> QED
    BY <1>2, <1>3, <1>4 DEF ShutOut

\* A request that begins once its account is gone never posts to it: the account
\* is closed, the replica knows, and no update that read it before is under way
\* (account.go:109-126, 250-258, statement.go:168-230).
THEOREM GoneTakesNothing == Spec => NoPostingAfterDelete
  <1> SUFFICES ASSUME NEW p \in Requests
               PROVE  Spec => [](Gone(req[p].acct) /\ pc[p] = "idle" => [](PostedBy(p) = {}))
    BY DEF NoPostingAfterDelete
  <1>1. WholeInv /\ Gone(req[p].acct) /\ pc[p] = "idle" => ShutOut(p)
    BY DEF WholeInv, NothingBeforeAnswer, ShutOut
  <1>2. TypeInv /\ TypeInv' /\ OnceInv /\ ShutOut(p) /\ [Next]_vars => ShutOut(p)'
    BY NextShutOut DEF TypeInv, OnceInv
  <1>3. ShutOut(p) => PostedBy(p) = {}
    BY DEF ShutOut
  <1> QED
    BY <1>1, <1>2, <1>3, TypeInvariant, OnceInvariant, WholeInvariant, PTL DEF Spec
===============================================================================
