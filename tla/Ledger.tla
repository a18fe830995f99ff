-------------------------------- MODULE Ledger --------------------------------
(***************************************************************************)
(* The statement ledger of the wallet: POST /accounts/:id/statements,      *)
(* POST .../statements/:id/reverse, POST .../statements/import, and PUT    *)
(* and DELETE /accounts/:id, which write the same row of accounts, each    *)
(* request served by a goroutine of its own.                               *)
(*                                                                         *)
(* A request first reads the account (and, for a reversal, the original    *)
(* statement) through the READER connection, which is a streaming replica  *)
(* when one is configured, and only then opens a transaction on the WRITER *)
(* that locks the account row (SELECT ... FOR UPDATE), computes            *)
(* balance_after row by row, inserts the rows under the unique indexes,    *)
(* updates accounts.balance and commits.  Everything between those steps   *)
(* may interleave with other requests, and every database call may fail.   *)
(***************************************************************************)
EXTENDS Money, Sequences

CONSTANTS
  Requests,     \* the requests of one behaviour; each is served once
  Accounts,     \* accounts.id
  Users,        \* users.id
  NoUser,       \* RequestingUserID = "": admins and service-key callers
  Owner,        \* Owner[a]: accounts.user_id
  ExternalIDs,  \* the FITIDs an OFX file may carry
  None,         \* SQL NULL
  HasReplica,   \* is a reader DSN configured
  Inputs        \* the request bodies clients may send

\* A statement id is the UUID the request draws for its i-th row.
StatementIDs == Requests \X (Nat \ {0})

Txn == [fitid : ExternalIDs \cup {None}, amount : Int64]

CreateInput  == [op : {"create"}, acct : Accounts, user : Users \cup {NoUser},
                 type : STRING, amount : Int64]
ReverseInput == [op : {"reverse"}, acct : Accounts, user : Users \cup {NoUser},
                 stmt : StatementIDs]
ImportInput  == [op : {"import"}, acct : Accounts, user : Users \cup {NoUser},
                 txns : Seq(Txn)]
AccountInput == [op : {"update", "delete"}, acct : Accounts, user : Users \cup {NoUser}]

Input == CreateInput \cup ReverseInput \cup ImportInput \cup AccountInput

ASSUME OwnerAssumption == Owner \in [Accounts -> Users]
ASSUME NoneAssumption ==
  /\ None \notin Requests
  /\ None \notin StatementIDs
  /\ None \notin ExternalIDs
ASSUME NoUserAssumption == NoUser \notin Users
ASSUME HasReplicaAssumption == HasReplica \in BOOLEAN
ASSUME InputsAssumption == Inputs \subseteq Input

VARIABLES
  balance,    \* accounts.balance, committed on the writer
  active,     \* accounts.active, committed on the writer
  ledger,     \* statements per account in commit order, on the writer
  rowLock,    \* holder of the row lock on each account
  wal,        \* commits the replica has not applied yet
  repActive,  \* accounts.active as the replica has it
  repLen,     \* how many rows of ledger[a] the replica has
  pc,         \* the next step of each request
  req,        \* the input of each request
  existing,   \* what FindExternalIDs returned to an import
  cursor,     \* the next OFX transaction an import maps
  drafts,     \* the statements the use case built, before balance_after
  rows,       \* the rows prepared in the open transaction
  running,    \* currentBalance / runningBalance of the open transaction
  result      \* the answer of each request

store   == <<balance, active, ledger>>
replica == <<wal, repActive, repLen>>
locals  == <<existing, cursor, drafts, rows, running>>
vars    == <<store, rowLock, replica, pc, req, locals, result>>

-----------------------------------------------------------------------------
(***************************************************************************)
(* Values.                                                                 *)
(***************************************************************************)

\* NewAmount: the cents of a statement are positive.
Amounts == 1 .. (Half - 1)

\* NewStatement, NewReversalStatement, NewImportedStatement.
Draft(t, amount, ref, ext) ==
  [type |-> t, amount |-> amount, ref |-> ref, ext |-> ext]

Drafts == [type : Types, amount : Amounts, ref : StatementIDs \cup {None},
           ext : ExternalIDs \cup {None}]

Rows == [id : StatementIDs, type : Types, amount : Amounts,
         ref : StatementIDs \cup {None}, ext : ExternalIDs \cup {None},
         balanceAfter : Int64]

-----------------------------------------------------------------------------
(***************************************************************************)
(* What the reader and the writer connections see.                         *)
(***************************************************************************)

ReaderActive(a) == IF HasReplica THEN repActive[a] ELSE active[a]

ReaderLen(a) == IF HasReplica THEN repLen[a] ELSE Len(ledger[a])

HasReversalOf(s) ==
  \E a \in Accounts : \E i \in 1 .. Len(ledger[a]) : ledger[a][i].ref = s

ExternalIDsOf(a) == {ledger[a][i].ext : i \in 1 .. Len(ledger[a])} \ {None}

FitIDs(txns) == {txns[i].fitid : i \in 1 .. Len(txns)}

\* Ownership: an empty RequestingUserID bypasses the check.
MayAccess(p) == req[p].user \in {NoUser, Owner[req[p].acct]}

\* Faulty: no unique index on reference_id.
UniqueViolationNoRef(p) ==
  LET r == rows[p]
  IN  \/ \E i \in 1 .. Len(r) : r[i].ext # None /\ r[i].ext \in ExternalIDsOf(req[p].acct)
      \/ \E i, j \in 1 .. Len(r) : i # j /\ r[i].ext # None /\ r[i].ext = r[j].ext

\* Faulty: no unique index on (account_id, external_id).
UniqueViolationNoExt(p) ==
  \E i \in 1 .. Len(rows[p]) : rows[p][i].ref # None /\ HasReversalOf(rows[p][i].ref)

\* A unique index rejects the prepared rows, against committed rows or
\* against one another.  Rows of other open transactions cannot collide:
\* equal (account_id, external_id) or reference_id means the same account,
\* whose row lock this transaction holds.
UniqueViolation(p) ==
  LET a == req[p].acct
      r == rows[p]
  IN  \/ \E i \in 1 .. Len(r) : r[i].ref # None /\ HasReversalOf(r[i].ref)
      \/ \E i \in 1 .. Len(r) : r[i].ext # None /\ r[i].ext \in ExternalIDsOf(a)
      \/ \E i, j \in 1 .. Len(r) : /\ i # j
                                   /\ \/ r[i].ext # None /\ r[i].ext = r[j].ext
                                      \/ r[i].ref # None /\ r[i].ref = r[j].ref

-----------------------------------------------------------------------------
Init ==
  /\ balance   = [a \in Accounts |-> 0]
  /\ active    = [a \in Accounts |-> TRUE]
  /\ ledger    = [a \in Accounts |-> << >>]
  /\ rowLock   = [a \in Accounts |-> None]
  /\ wal       = << >>
  /\ repActive = [a \in Accounts |-> TRUE]
  /\ repLen    = [a \in Accounts |-> 0]
  /\ pc        = [p \in Requests |-> "idle"]
  /\ req       \in [Requests -> Inputs]
  /\ existing  = [p \in Requests |-> {}]
  /\ cursor    = [p \in Requests |-> 1]
  /\ drafts    = [p \in Requests |-> << >>]
  /\ rows      = [p \in Requests |-> << >>]
  /\ running   = [p \in Requests |-> 0]
  /\ result    = [p \in Requests |-> "none"]

\* Proceed to the next step / answer the client.
Goto(p, step) == pc' = [pc EXCEPT ![p] = step] /\ UNCHANGED result

Reply(p, answer) ==
  /\ pc' = [pc EXCEPT ![p] = "done"]
  /\ result' = [result EXCEPT ![p] = answer]

\* A commit on the writer enters the replication stream.
Publish(a, len, act) ==
  wal' = IF HasReplica
           THEN Append(wal, [acct |-> a, len |-> len, active |-> act])
           ELSE wal

\* The handler's binding of a request body (oneof=credit debit, gt=0).
Binds(x) == x.op = "create" => x.type \in Types /\ x.amount > 0

\* The request reaches its use case.  DELETE by an admin skips the lookup.
Start(p) ==
  /\ pc[p] = "idle"
  /\ \/ ~Binds(req[p]) /\ Reply(p, "ErrInvalidRequest")
     \/ /\ Binds(req[p])
        /\ IF req[p].op = "delete" /\ req[p].user = NoUser
             THEN Goto(p, "delete")
             ELSE Goto(p, "account")
  /\ UNCHANGED <<store, rowLock, replica, req, locals>>

\* The step of the use case that follows the account checks.
AfterAccount(op) ==
  IF op = "create" THEN "create"
  ELSE IF op = "reverse" THEN "original"
  ELSE IF op = "import" THEN "parse"
  ELSE op

\* Faulty: FindByID without the condition on active.
FindAnyAccount(p) ==
  /\ pc[p] = "account"
  /\ \/ ~MayAccess(p) /\ Reply(p, "ErrStatementNotFound")
     \/ MayAccess(p) /\ Goto(p, AfterAccount(req[p].op))
  /\ UNCHANGED <<store, rowLock, replica, req, locals>>

\* accountRepo.FindByID on the reader (WHERE active = true), then ownership.
FindAccount(p) ==
  LET a == req[p].acct
  IN  /\ pc[p] = "account"
      /\ \/ ~ReaderActive(a) /\ Reply(p, "ErrAccountNotFound")
         \/ /\ ReaderActive(a)
            /\ ~MayAccess(p)
            /\ Reply(p, IF req[p].op \in {"update", "delete"}
                           THEN "ErrAccountNotFound" ELSE "ErrStatementNotFound")
         \/ ReaderActive(a) /\ MayAccess(p) /\ Goto(p, AfterAccount(req[p].op))
      /\ UNCHANGED <<store, rowLock, replica, req, locals>>

\* CreateUseCase after the account checks: type and amount pass once more, the
\* posted_at, category and tag checks may reject the request (what they decide
\* on is not part of this module), or the entity is built.
PrepareCreate(p) ==
  /\ pc[p] = "create"
  /\ \/ Reply(p, "ErrValidation") /\ UNCHANGED drafts
     \/ /\ req[p].type \in Types
        /\ req[p].amount > 0
        /\ drafts' = [drafts EXCEPT ![p] =
                        <<Draft(req[p].type, req[p].amount, None, None)>>]
        /\ Goto(p, "lock")
  /\ UNCHANGED <<store, rowLock, replica, req, existing, cursor, rows, running>>

\* Faulty: the original may belong to any account.
FindOriginalAnywhere(p) ==
  LET s == req[p].stmt
  IN  /\ pc[p] = "original"
      /\ \E b \in Accounts : \E i \in 1 .. ReaderLen(b) :
           /\ ledger[b][i].id = s
           /\ drafts' = [drafts EXCEPT ![p] = <<Draft(Opposite(ledger[b][i].type),
                                                     ledger[b][i].amount, s, None)>>]
      /\ Goto(p, "hasReversal")
      /\ UNCHANGED <<store, rowLock, replica, req, existing, cursor, rows, running>>

\* Faulty: the reversal repeats the type of the original.
FindOriginalSameType(p) ==
  LET a == req[p].acct
      s == req[p].stmt
  IN  /\ pc[p] = "original"
      /\ \E i \in 1 .. ReaderLen(a) :
           /\ ledger[a][i].id = s
           /\ drafts' = [drafts EXCEPT ![p] = <<Draft(ledger[a][i].type,
                                                     ledger[a][i].amount, s, None)>>]
      /\ Goto(p, "hasReversal")
      /\ UNCHANGED <<store, rowLock, replica, req, existing, cursor, rows, running>>

\* ReverseUseCase: the original statement, read on the reader, must belong to
\* the account; the reversal carries its amount and the opposite type.
FindOriginal(p) ==
  LET a == req[p].acct
      s == req[p].stmt
  IN  /\ pc[p] = "original"
      /\ \/ /\ \A b \in Accounts : \A i \in 1 .. ReaderLen(b) : ledger[b][i].id # s
            /\ Reply(p, "ErrStatementNotFound")
            /\ UNCHANGED drafts
         \/ \E b \in Accounts : \E i \in 1 .. ReaderLen(b) :
              /\ ledger[b][i].id = s
              /\ \/ /\ b # a
                    /\ Reply(p, "ErrStatementNotFound")
                    /\ UNCHANGED drafts
                 \/ /\ b = a
                    /\ drafts' = [drafts EXCEPT ![p] =
                                    <<Draft(Opposite(ledger[b][i].type),
                                            ledger[b][i].amount, s, None)>>]
                    /\ Goto(p, "hasReversal")
      /\ UNCHANGED <<store, rowLock, replica, req, existing, cursor, rows, running>>

\* HasReversal on the writer, outside any transaction.
CheckReversal(p) ==
  /\ pc[p] = "hasReversal"
  /\ \/ HasReversalOf(req[p].stmt) /\ Reply(p, "ErrAlreadyReversed")
     \/ ~HasReversalOf(req[p].stmt) /\ Goto(p, "lock")
  /\ UNCHANGED <<store, rowLock, replica, req, locals>>

\* ImportUseCase: parse the file (one that does not parse stands for an empty
\* one), then FindExternalIDs on the writer.
FindExternalIDs(p) ==
  /\ pc[p] = "parse"
  /\ \/ /\ req[p].txns = << >>
        /\ Reply(p, "ErrNoTransactions")
        /\ UNCHANGED existing
     \/ /\ req[p].txns # << >>
        /\ existing' = [existing EXCEPT ![p] =
             ExternalIDsOf(req[p].acct) \cap FitIDs(req[p].txns)]
        /\ Goto(p, "map")
  /\ UNCHANGED <<store, rowLock, replica, req, cursor, drafts, rows, running>>

\* Faulty: absCents is not looked at.
MapAnyAmount(p) ==
  LET t == req[p].txns[cursor[p]]
      skip == (t.fitid # None /\ t.fitid \in existing[p]) \/ t.amount = 0
  IN  /\ pc[p] = "map"
      /\ cursor[p] <= Len(req[p].txns)
      /\ cursor' = [cursor EXCEPT ![p] = @ + 1]
      /\ drafts' = [drafts EXCEPT ![p] =
           IF skip THEN @
           ELSE Append(@, Draft(TypeOf(t.amount), AbsCents(t.amount), None, t.fitid))]
      /\ UNCHANGED <<store, rowLock, replica, pc, req, existing, rows, running, result>>

\* One turn of the loop over the parsed transactions: known FITIDs and zero
\* amounts are skipped, an amount that has no positive cents ends the import.
MapTransaction(p) ==
  LET t == req[p].txns[cursor[p]]
      skip == (t.fitid # None /\ t.fitid \in existing[p]) \/ t.amount = 0
  IN  /\ pc[p] = "map"
      /\ cursor[p] <= Len(req[p].txns)
      /\ cursor' = [cursor EXCEPT ![p] = @ + 1]
      /\ \/ skip /\ UNCHANGED <<drafts, pc, result>>
         \/ /\ ~skip
            /\ AbsCents(t.amount) <= 0
            /\ Reply(p, "ErrInvalidAmount")
            /\ UNCHANGED drafts
         \/ /\ ~skip
            /\ AbsCents(t.amount) > 0
            /\ drafts' = [drafts EXCEPT ![p] =
                 Append(@, Draft(TypeOf(t.amount), AbsCents(t.amount), None, t.fitid))]
            /\ UNCHANGED <<pc, result>>
      /\ UNCHANGED <<store, rowLock, replica, req, existing, rows, running>>

\* The loop ends: an import with nothing new answers without a transaction.
EndMapping(p) ==
  /\ pc[p] = "map"
  /\ cursor[p] > Len(req[p].txns)
  /\ \/ drafts[p] = << >> /\ Reply(p, "ok")
     \/ drafts[p] # << >> /\ Goto(p, "lock")
  /\ UNCHANGED <<store, rowLock, replica, req, locals>>

-----------------------------------------------------------------------------
(***************************************************************************)
(* StatementRepository.Create and CreateBatch: one writer transaction.     *)
(***************************************************************************)

\* Faulty: SELECT balance without FOR UPDATE.
ReadAccount(p) ==
  LET a == req[p].acct
  IN  /\ pc[p] = "lock"
      /\ running' = [running EXCEPT ![p] = balance[a]]
      /\ Goto(p, "build")
      /\ UNCHANGED <<store, rowLock, replica, req, existing, cursor, drafts, rows>>

\* BEGIN; SELECT balance FROM accounts WHERE id = $1 FOR UPDATE.  It waits for
\* the lock and does not look at the active column.
LockAccount(p) ==
  LET a == req[p].acct
  IN  /\ pc[p] = "lock"
      /\ rowLock[a] = None
      /\ rowLock' = [rowLock EXCEPT ![a] = p]
      /\ running' = [running EXCEPT ![p] = balance[a]]
      /\ Goto(p, "build")
      /\ UNCHANGED <<store, replica, req, existing, cursor, drafts, rows>>

\* One turn of the loop that computes balance_after of each row.
BuildRow(p) ==
  LET n == Len(rows[p]) + 1
      d == drafts[p][n]
      b == Apply(running[p], d.type, d.amount)
  IN  /\ pc[p] = "build"
      /\ n <= Len(drafts[p])
      /\ running' = [running EXCEPT ![p] = b]
      /\ rows' = [rows EXCEPT ![p] =
           Append(@, [id |-> <<p, n>>, type |-> d.type, amount |-> d.amount,
                      ref |-> d.ref, ext |-> d.ext, balanceAfter |-> b])]
      /\ UNCHANGED <<store, rowLock, replica, pc, req, existing, cursor, drafts, result>>

Release(p) == rowLock' = [rowLock EXCEPT ![req[p].acct] = None]

\* Faulty: a conflicting batch is dropped silently (ON CONFLICT DO NOTHING).
InsertIgnoringConflicts(p) ==
  /\ pc[p] = "build"
  /\ Len(rows[p]) = Len(drafts[p])
  /\ \/ UniqueViolation(p) /\ Release(p) /\ Reply(p, "ok")
     \/ ~UniqueViolation(p) /\ Goto(p, "commit") /\ UNCHANGED rowLock
  /\ UNCHANGED <<store, replica, req, locals>>

\* Faulty: the batch is inserted one row short.
InsertAllButLast(p) ==
  /\ pc[p] = "build"
  /\ Len(rows[p]) >= 1
  /\ Len(rows[p]) >= Len(drafts[p]) - 1
  /\ \/ UniqueViolation(p) /\ Release(p) /\ Reply(p, "ErrInternal")
     \/ ~UniqueViolation(p) /\ Goto(p, "commit") /\ UNCHANGED rowLock
  /\ UNCHANGED <<store, replica, req, locals>>

\* Faulty: the transaction is not rolled back after a unique violation.
InsertLeakingTx(p) ==
  /\ pc[p] = "build"
  /\ Len(rows[p]) = Len(drafts[p])
  /\ \/ UniqueViolation(p) /\ Reply(p, "ErrInternal")
     \/ ~UniqueViolation(p) /\ Goto(p, "commit")
  /\ UNCHANGED <<store, rowLock, replica, req, locals>>

\* INSERT INTO statements (and statement_tags): a unique violation is not
\* translated to a domain error, so the client sees a 500; ROLLBACK.
InsertRows(p) ==
  /\ pc[p] = "build"
  /\ Len(rows[p]) = Len(drafts[p])
  /\ \/ UniqueViolation(p) /\ Release(p) /\ Reply(p, "ErrInternal")
     \/ ~UniqueViolation(p) /\ Goto(p, "commit") /\ UNCHANGED rowLock
  /\ UNCHANGED <<store, replica, req, locals>>

\* UPDATE accounts SET balance; COMMIT.  The answer to COMMIT may be lost.
Commit(p) ==
  LET a == req[p].acct
  IN  /\ pc[p] = "commit"
      /\ ledger' = [ledger EXCEPT ![a] = @ \o rows[p]]
      /\ balance' = [balance EXCEPT ![a] = running[p]]
      /\ Release(p)
      /\ Publish(a, Len(ledger[a]) + Len(rows[p]), active[a])
      /\ \E answer \in {"ok", "ErrInternal"} : Reply(p, answer)
      /\ UNCHANGED <<active, repActive, repLen, req, locals>>

\* What an autocommitted UPDATE of the row of account a changed is committed; its
\* answer may be lost.
WriteAccount(p, a, act) ==
  /\ active' = [active EXCEPT ![a] = act]
  /\ Publish(a, Len(ledger[a]), act)
  /\ \E answer \in {"ok", "ErrInternal"} : Reply(p, answer)

\* AccountRepository.Delete: UPDATE accounts SET active = false WHERE active =
\* true.  The row update waits for the row lock.
SoftDelete(p) ==
  LET a == req[p].acct
  IN  /\ pc[p] = "delete"
      /\ rowLock[a] = None
      /\ \/ active[a] /\ WriteAccount(p, a, FALSE)
         \/ /\ ~active[a]
            /\ Reply(p, "ErrAccountNotFound")
            /\ UNCHANGED <<active, wal>>
      /\ UNCHANGED <<balance, ledger, rowLock, repActive, repLen, req, locals>>

\* UpdateUseCase behind FindByID: a limit that does not fit is refused, else
\* AccountRepository.Update writes the copy back WHERE id = :id, with the
\* active = true it was found with (module Accounts has its other columns).
UpdateAccount(p) ==
  LET a == req[p].acct
  IN  /\ pc[p] = "update"
      /\ \/ Reply(p, "ErrValidation") /\ UNCHANGED <<active, wal>>
         \/ rowLock[a] = None /\ WriteAccount(p, a, TRUE)
      /\ UNCHANGED <<balance, ledger, rowLock, repActive, repLen, req, locals>>

\* A database call fails, the client goes away or the process dies: the open
\* transaction is rolled back and the request ends with a 500 or no answer.
Fail(p) ==
  /\ pc[p] \notin {"idle", "done"}
  /\ rowLock' = [a \in Accounts |-> IF rowLock[a] = p THEN None ELSE rowLock[a]]
  /\ Reply(p, "ErrInternal")
  /\ UNCHANGED <<store, replica, req, locals>>

\* The replica applies the next commit of the stream.
Replicate ==
  /\ wal # << >>
  /\ wal' = Tail(wal)
  /\ repActive' = [repActive EXCEPT ![wal[1].acct] = wal[1].active]
  /\ repLen' = [repLen EXCEPT ![wal[1].acct] = wal[1].len]
  /\ UNCHANGED <<store, rowLock, pc, req, locals, result>>

-----------------------------------------------------------------------------
Step(p) ==
  \/ FindAccount(p)
  \/ PrepareCreate(p)
  \/ FindOriginal(p)
  \/ CheckReversal(p)
  \/ FindExternalIDs(p)
  \/ MapTransaction(p)
  \/ EndMapping(p)
  \/ LockAccount(p)
  \/ BuildRow(p)
  \/ InsertRows(p)
  \/ Commit(p)
  \/ SoftDelete(p)
  \/ UpdateAccount(p)

\* Every request was served and the replica has caught up.
Quiescent ==
  /\ \A p \in Requests : pc[p] = "done"
  /\ wal = << >>
  /\ UNCHANGED vars

Next ==
  \/ \E p \in Requests : Start(p) \/ Step(p) \/ Fail(p)
  \/ Replicate
  \/ Quiescent

Spec == Init /\ [][Next]_vars

\* The Go scheduler runs every goroutine, and PostgreSQL grants a row lock
\* that stays free to a waiter.  Clients and failures are not fair.
Fairness == \A p \in Requests : WF_vars(Step(p))

FairSpec == Spec /\ Fairness
-----------------------------------------------------------------------------
(***************************************************************************)
(* Type correctness.                                                       *)
(***************************************************************************)

PCs == {"idle", "account", "create", "original", "hasReversal", "parse", "map",
        "lock", "build", "commit", "update", "delete", "done"}

Answers == {"none", "ok", "ErrAccountNotFound", "ErrStatementNotFound",
            "ErrInvalidRequest", "ErrValidation", "ErrInvalidAmount", "ErrNoTransactions",
            "ErrAlreadyReversed", "ErrInternal"}

WalRecords == [acct : Accounts, len : Nat, active : BOOLEAN]

\* The database tables, the replication stream and the frame of every request
\* hold values of their column and Go types; every statement that is drafted or
\* stored has a positive amount, the smallest int64 of a file included, whose
\* absCents is negative (amount.go:8-17, import.go:150-158).
TypeOK ==
  /\ balance   \in [Accounts -> Int64]
  /\ active    \in [Accounts -> BOOLEAN]
  /\ ledger    \in [Accounts -> Seq(Rows)]
  /\ rowLock   \in [Accounts -> Requests \cup {None}]
  /\ wal       \in Seq(WalRecords)
  /\ repActive \in [Accounts -> BOOLEAN]
  /\ repLen    \in [Accounts -> Nat]
  /\ pc        \in [Requests -> PCs]
  /\ req       \in [Requests -> Inputs]
  /\ existing  \in [Requests -> SUBSET ExternalIDs]
  /\ cursor    \in [Requests -> Nat \ {0}]
  /\ drafts    \in [Requests -> Seq(Drafts)]
  /\ rows      \in [Requests -> Seq(Rows)]
  /\ running   \in [Requests -> Int64]
  /\ result    \in [Requests -> Answers]

-----------------------------------------------------------------------------
(***************************************************************************)
(* Safety.                                                                 *)
(***************************************************************************)

\* The balance an account had before its i-th statement.
BalanceBefore(a, i) == IF i = 1 THEN 0 ELSE ledger[a][i - 1].balanceAfter

\* The balance the last statement of an account left.
LastBalance(a) == BalanceBefore(a, Len(ledger[a]) + 1)

\* Account a's statements continue one another up to its balance.
AccountChained(a) ==
  /\ balance[a] = LastBalance(a)
  /\ \A i \in 1 .. Len(ledger[a]) :
       ledger[a][i].balanceAfter =
         Apply(BalanceBefore(a, i), ledger[a][i].type, ledger[a][i].amount)

\* accounts.balance is the balance_after of the last statement, and the
\* balance_after of every statement continues that of the one before it: no
\* interleaving of create, reverse and import loses or repeats an update of
\* the balance (the row lock of statement.go:176-186 and 412-424).
BalanceChained == \A a \in Accounts : AccountChained(a)

\* The sum of the first n statements of account a, credits less debits, in Int.
SumOf(a, n) ==
  LET sum[k \in Nat] ==
        IF k = 0 THEN 0
        ELSE LET x == ledger[a][k]
             IN  sum[k - 1] + (IF x.type = "credit" THEN x.amount ELSE -x.amount)
  IN  sum[n]

\* Nothing keeps balance + amount from overflowing (statement.go:188-195,
\* 427-437): the balance wraps and the client gets its 2xx.  But nothing is
\* lost: whenever the sum of the statements of an account fits an int64, the
\* balance is that sum, whatever it wrapped to in between.
BalanceIsSum ==
  \A a \in Accounts :
    LET total == SumOf(a, Len(ledger[a]))
    IN  total \in Int64 => balance[a] = total

\* A statement is reversed at most once, however many reversals race past
\* HasReversal (statement.go:388-398, reverse.go:91-101): the unique index on
\* reference_id decides.
ReversedOnce ==
  \A a, b \in Accounts :
    \A i \in 1 .. Len(ledger[a]), j \in 1 .. Len(ledger[b]) :
      /\ ledger[a][i].ref # None
      /\ ledger[a][i].ref = ledger[b][j].ref
      => a = b /\ i = j

\* The statement or draft x reverses one of the first n statements of a.
Mirrors(x, a, n) ==
  \E j \in 1 .. n : /\ ledger[a][j].id = x.ref
                    /\ ledger[a][j].amount = x.amount
                    /\ ledger[a][j].type = Opposite(x.type)

\* A reversal stands later in the ledger of the same account as the statement
\* it refers to, has the same amount and the opposite type, although the
\* original was read from a lagging replica (reverse.go:77-117).
ReversalMirrorsOriginal ==
  \A a \in Accounts : \A i \in 1 .. Len(ledger[a]) :
    ledger[a][i].ref # None => Mirrors(ledger[a][i], a, i - 1)

\* A FITID enters the ledger of an account at most once, however many imports
\* race past FindExternalIDs (import.go:87-126).
ImportedOnce ==
  \A a \in Accounts : \A i, j \in 1 .. Len(ledger[a]) :
    ledger[a][i].ext # None /\ ledger[a][i].ext = ledger[a][j].ext => i = j

\* The rows request p has in the ledger.
PostedBy(p) ==
  {x \in UNION {{a} \X (1 .. Len(ledger[a])) : a \in Accounts} :
     ledger[x[1]][x[2]].id[1] = p}

\* The rows of p are its drafts, behind the first k statements of its account.
PostedBehind(p, k) ==
  LET a == req[p].acct
  IN  /\ PostedBy(p) = {<<a, k + i>> : i \in 1 .. Len(drafts[p])}
      /\ \A i \in 1 .. Len(drafts[p]) :
           /\ ledger[a][k + i].type = drafts[p][i].type
           /\ ledger[a][k + i].amount = drafts[p][i].amount
           /\ ledger[a][k + i].ext = drafts[p][i].ext

\* A request posts all of the statements it built, next to one another and in
\* file order in the ledger of its account, or none of them; a 2xx answer
\* means all, a domain error none (statement.go:168-230, 401-492).
AllOrNothing ==
  \A p \in Requests :
    \/ /\ PostedBy(p) = {}
       /\ result[p] = "ok" => drafts[p] = << >>
    \/ /\ result[p] \in {"ok", "ErrInternal"}
       /\ \E k \in 0 .. Len(ledger[req[p].acct]) : PostedBehind(p, k)

\* The ledger is append-only: no step changes or removes a statement that was
\* committed (CHANGELOG.md:27, migration 20260411002).
AppendOnly ==
  [][\A a \in Accounts :
       /\ Len(ledger'[a]) >= Len(ledger[a])
       /\ \A i \in 1 .. Len(ledger[a]) : ledger'[a][i] = ledger[a][i]]_ledger

\* Account a is closed and nothing is left that could open it again: the reader
\* and the stream know it, and no update holds a copy it read before.
Gone(a) ==
  /\ ~active[a]
  /\ ~ReaderActive(a)
  /\ \A i \in 1 .. Len(wal) : wal[i].acct = a => ~wal[i].active
  /\ \A p \in Requests : pc[p] = "update" => req[p].acct # a

\* A request that reaches the service once its account is gone posts nothing:
\* CREATE and CREATE BATCH do not look at active (statement.go:176-186), so only
\* requests that were already past FindByID still post.  Until it is gone, a
\* lagging reader lets requests in and an update that read the account before
\* the delete opens it again (account.go:109-126, 250-258).
NoPostingAfterDelete ==
  \A p \in Requests :
    [](Gone(req[p].acct) /\ pc[p] = "idle" => [](PostedBy(p) = {}))

\* Every request that was started is answered: waiting for row locks never
\* leaves requests waiting for one another.
EveryRequestAnswered ==
  \A p \in Requests : pc[p] # "idle" ~> pc[p] = "done"

\* The interleaved requests implement the ledger of AtomicLedger: seen from
\* the committed tables, each posting is one step of one account.
Atomic == INSTANCE AtomicLedger WITH balance <- balance, active <- active, ledger <- ledger

ImplementsAtomicLedger == Atomic!Spec

-----------------------------------------------------------------------------
(***************************************************************************)
(* The inductive invariant behind the safety properties.                   *)
(***************************************************************************)

InTx(p) == pc[p] \in {"build", "commit"}

\* A request is only ever at a step of its own operation.
StepsOfOp ==
  \A p \in Requests :
    /\ pc[p] = "create" => req[p].op = "create"
    /\ pc[p] \in {"original", "hasReversal"} => req[p].op = "reverse"
    /\ pc[p] \in {"parse", "map"} => req[p].op = "import"

\* An open transaction holds the lock of its account's row.
LockHeld == \A p \in Requests : InTx(p) => rowLock[req[p].acct] = p

\* The balance of p's account before the i-th row of its transaction.
TxBalance(p, i) ==
  IF i = 1 THEN balance[req[p].acct] ELSE rows[p][i - 1].balanceAfter

\* The rows of p's open transaction continue the committed balance.
TxChainedOf(p) ==
  /\ pc[p] \notin {"build", "commit", "done"} => rows[p] = << >>
  /\ InTx(p) =>
       /\ running[p] = TxBalance(p, Len(rows[p]) + 1)
       /\ \A i \in 1 .. Len(rows[p]) :
            rows[p][i].balanceAfter =
              Apply(TxBalance(p, i), rows[p][i].type, rows[p][i].amount)

TxChained == \A p \in Requests : TxChainedOf(p)

\* The rows of an open transaction are the statements its use case built.
RowsAreDrafts ==
  \A p \in Requests : InTx(p) =>
    /\ Len(rows[p]) <= Len(drafts[p])
    /\ \A i \in 1 .. Len(rows[p]) :
         /\ rows[p][i].id = <<p, i>>
         /\ rows[p][i].type = drafts[p][i].type
         /\ rows[p][i].amount = drafts[p][i].amount
         /\ rows[p][i].ref = drafts[p][i].ref
         /\ rows[p][i].ext = drafts[p][i].ext

\* A drafted reversal mirrors a committed statement of its own account.
DraftsMirror ==
  \A p \in Requests : \A i \in 1 .. Len(drafts[p]) :
    drafts[p][i].ref # None =>
      Mirrors(drafts[p][i], req[p].acct, Len(ledger[req[p].acct]))

\* The replica and its stream never run ahead of the writer.
ReplicaBehind ==
  /\ \A a \in Accounts : repLen[a] <= Len(ledger[a])
  /\ \A i \in 1 .. Len(wal) : wal[i].len <= Len(ledger[wal[i].acct])

\* A committed id was drawn by a request on the account that holds it.
IdsOwned ==
  \A a \in Accounts : \A i \in 1 .. Len(ledger[a]) :
    req[ledger[a][i].id[1]].acct = a

\* What passed the unique indexes still satisfies them when it commits.
UniqueAtCommit == \A p \in Requests : pc[p] = "commit" => ~UniqueViolation(p)

\* A request drafts statements only in its use case, and commits a row for
\* each of them.
DraftsInTime ==
  \A p \in Requests :
    /\ pc[p] \in {"idle", "account", "create", "original", "parse", "update", "delete"} =>
         drafts[p] = << >>
    /\ pc[p] = "commit" => Len(rows[p]) = Len(drafts[p])

\* A request that was not answered has posted nothing.
NothingBeforeAnswer ==
  \A p \in Requests : pc[p] # "done" => result[p] = "none" /\ PostedBy(p) = {}

\* The parts of the invariant that type correctness rests on, and those that
\* carry the balance through a transaction.
TypeInv == TypeOK /\ StepsOfOp /\ ReplicaBehind

BalanceInv == LockHeld /\ TxChained /\ BalanceChained

\* The parts that carry the unique indexes from the INSERT to the COMMIT of
\* statement.go:197-226, and the replica read of reverse.go:77 to the reversal.
OnceInv ==
  /\ RowsAreDrafts
  /\ DraftsMirror
  /\ IdsOwned
  /\ UniqueAtCommit
  /\ ReversalMirrorsOriginal
  /\ ReversedOnce
  /\ ImportedOnce

\* The parts that make a posting whole (statement.go:197-230, 439-492).
WholeInv == DraftsInTime /\ NothingBeforeAnswer /\ AllOrNothing
===============================================================================
