------------------------------- MODULE Accounts -------------------------------
(***************************************************************************)
(* The accounts of the wallet: POST /accounts, GET, PUT and DELETE         *)
(* /accounts/:id, and what a posting (module Ledger) does to the row of    *)
(* its account.                                                            *)
(*                                                                         *)
(* PUT reads the whole account through the READER connection, changes the  *)
(* fields the body sends in that copy and writes the copy's columns back   *)
(* on the WRITER, without a transaction, a version or a condition on       *)
(* active: what was committed in between is overwritten.                   *)
(***************************************************************************)
EXTENDS Naturals, Sequences, FiniteSets

CONSTANTS
  Requests,    \* the requests of one behaviour; each is served once
  Seeded,      \* accounts that exist initially
  SeedRow,     \* SeedRow[a]: the row of a seeded account
  Users,       \* users.id
  NoUser,      \* RequestingUserID = "": admins and service-key callers
  Names,       \* name and description, which every operation treats alike
  MaxLimit,    \* MaxCreditLimit
  None,        \* SQL NULL, and a field the body leaves out
  HasReplica,  \* is a reader DSN configured
  Inputs       \* the request bodies clients may send

\* The account a request creates gets the request's own UUID.
IDs == Requests \cup Seeded

AccountTypes == {"bank_account", "credit_card", "cash"}

Row == [user : Users, type : AccountTypes, name : Names,
        limit : (1 .. MaxLimit) \cup {None}, balance : Nat, active : BOOLEAN]

CreateInput == [op : {"create"}, user : Users, type : STRING, name : Names,
                limit : Nat \cup {None}]
UpdateInput == [op : {"update"}, user : Users \cup {NoUser}, id : IDs,
                name : Names \cup {None}, limit : Nat \cup {None}]
OtherInput  == [op : {"get", "delete", "post"}, user : Users \cup {NoUser}, id : IDs]

Input == CreateInput \cup UpdateInput \cup OtherInput

\* AcceptsCreditLimit and the CHECK constraint on accounts.
AcceptsCreditLimit(t) == t = "credit_card"

\* Faulty: a credit card needs a limit, but any will do.
AnyLimitFits(t, limit) == AcceptsCreditLimit(t) <=> limit # None

LimitFits(t, limit) ==
  IF AcceptsCreditLimit(t) THEN limit \in 1 .. MaxLimit ELSE limit = None

ASSUME MaxLimitAssumption == MaxLimit \in Nat \ {0}
ASSUME DistinctAssumption ==
  /\ Requests \cap Seeded = {}
  /\ None \notin Nat /\ None \notin Names /\ None \notin Requests /\ None \notin Row
  /\ NoUser \notin Users
ASSUME RequestsAssumption == IsFiniteSet(Requests)
ASSUME SeedAssumption ==
  /\ SeedRow \in [Seeded -> Row]
  /\ \A a \in Seeded : LimitFits(SeedRow[a].type, SeedRow[a].limit)
  /\ \A a \in Seeded : SeedRow[a].balance = 0
ASSUME HasReplicaAssumption == HasReplica \in BOOLEAN
ASSUME InputsAssumption == Inputs \subseteq Input

VARIABLES
  accounts,  \* the accounts table on the writer; None where there is no row
  rowLock,   \* the posting that holds the lock of each row
  statements, \* the posting requests whose row is in the statements table
  wal,       \* commits the replica has not applied yet
  replica,   \* the accounts table on the replica
  pc,        \* the next step of each request
  req,       \* the input of each request
  entity,    \* the Account a create or update is about to write
  locked,    \* the balance a posting read under the lock
  result     \* the answer of each request

vars == <<accounts, rowLock, statements, wal, replica, pc, req, entity, locked, result>>
-----------------------------------------------------------------------------
SeedTable == [a \in IDs |-> IF a \in Seeded THEN SeedRow[a] ELSE None]

Init ==
  /\ accounts = SeedTable
  /\ replica  = SeedTable
  /\ rowLock  = [a \in IDs |-> None]
  /\ statements = {}
  /\ wal      = << >>
  /\ pc       = [p \in Requests |-> "idle"]
  /\ req      \in [Requests -> Inputs]
  /\ entity   = [p \in Requests |-> None]
  /\ locked   = [p \in Requests |-> 0]
  /\ result   = [p \in Requests |-> "none"]

Goto(p, step) == pc' = [pc EXCEPT ![p] = step] /\ UNCHANGED result

Reply(p, answer) ==
  /\ pc' = [pc EXCEPT ![p] = "done"]
  /\ result' = [result EXCEPT ![p] = answer]

\* A write that was committed: its answer may be lost, and the request fails.
Executed(p) == \E answer \in {"ok", "ErrInternal"} : Reply(p, answer)

\* A committed row enters the replication stream.
Write(a, row) ==
  /\ accounts' = [accounts EXCEPT ![a] = row]
  /\ wal' = IF HasReplica THEN Append(wal, [id |-> a, row |-> row]) ELSE wal

ReaderRow(a) == IF HasReplica THEN replica[a] ELSE accounts[a]

\* Faulty: deleted accounts are found, too.
VisibleDeleted(a) == ReaderRow(a) # None

\* FindByID on the reader finds active accounts only.
Visible(a) == ReaderRow(a) # None /\ ReaderRow(a).active

\* A RequestingUserID must be the owner's.
Owns(p) == req[p].user \in {NoUser, ReaderRow(req[p].id).user}

\* NewCreditLimit, resolveCreditLimit and SetCreditLimit: why a limit is refused.
LimitError(t, limit) ==
  IF ~AcceptsCreditLimit(t) THEN "ErrCreditLimitNotAllowed"
  ELSE IF limit = None THEN "ErrCreditLimitRequired"
  ELSE "ErrInvalidCreditLimit"

-----------------------------------------------------------------------------
\* CreateUseCase up to the INSERT: type, then the limit the type demands.
PrepareCreate(p) ==
  LET in == req[p]
  IN  /\ pc[p] = "idle"
      /\ in.op = "create"
      /\ \/ /\ in.type \notin AccountTypes
            /\ Reply(p, "ErrInvalidAccountType")
            /\ UNCHANGED entity
         \/ /\ in.type \in AccountTypes
            /\ ~LimitFits(in.type, in.limit)
            /\ Reply(p, LimitError(in.type, in.limit))
            /\ UNCHANGED entity
         \/ /\ in.type \in AccountTypes
            /\ LimitFits(in.type, in.limit)
            /\ entity' = [entity EXCEPT ![p] =
                 [user |-> in.user, type |-> in.type, name |-> in.name,
                  limit |-> in.limit, balance |-> 0, active |-> TRUE]]
            /\ Goto(p, "insert")
      /\ UNCHANGED <<accounts, rowLock, statements, wal, replica, req, locked>>

\* AccountRepository.Create.
Insert(p) ==
  /\ pc[p] = "insert"
  /\ Write(p, entity[p])
  /\ Executed(p)
  /\ UNCHANGED <<rowLock, statements, replica, req, entity, locked>>

\* The other requests.  DELETE by an admin skips the lookup.
Start(p) ==
  /\ pc[p] = "idle"
  /\ req[p].op # "create"
  /\ Goto(p, IF req[p].op = "delete" /\ req[p].user = NoUser THEN "delete" ELSE "find")
  /\ UNCHANGED <<accounts, rowLock, statements, wal, replica, req, entity, locked>>

\* FindByID and the ownership check, which answer alike; GET is answered.
FindByID(p) ==
  LET a == req[p].id
  IN  /\ pc[p] = "find"
      /\ \/ /\ ~(Visible(a) /\ Owns(p))
            /\ Reply(p, IF req[p].op = "post" /\ Visible(a) THEN "ErrStatementNotFound"
                                                            ELSE "ErrAccountNotFound")
            /\ UNCHANGED entity
         \/ /\ Visible(a) /\ Owns(p)
            /\ req[p].op = "get"
            /\ Reply(p, "ok")
            /\ UNCHANGED entity
         \/ /\ Visible(a) /\ Owns(p)
            /\ req[p].op \in {"delete", "post"}
            /\ Goto(p, req[p].op)
            /\ UNCHANGED entity
         \/ /\ Visible(a) /\ Owns(p)
            /\ req[p].op = "update"
            /\ entity' = [entity EXCEPT ![p] = ReaderRow(a)]
            /\ Goto(p, "apply")
      /\ UNCHANGED <<accounts, rowLock, statements, wal, replica, req, locked>>

\* Faulty: the range of the limit is checked, not the type of the account.
ApplyLimitToAnyType(p) ==
  LET in == req[p]
  IN  /\ pc[p] = "apply"
      /\ entity' = [entity EXCEPT
           ![p].name = IF in.name = None THEN @ ELSE in.name,
           ![p].limit = IF in.limit = None THEN @ ELSE in.limit]
      /\ in.limit = None \/ in.limit \in 1 .. MaxLimit
      /\ Goto(p, "write")
      /\ UNCHANGED <<accounts, rowLock, statements, wal, replica, req, locked>>

\* UpdateUseCase: the fields the body sends replace those of the copy.
ApplyUpdate(p) ==
  LET in == req[p]
      new == [entity[p] EXCEPT !.name  = IF in.name = None THEN @ ELSE in.name,
                               !.limit = IF in.limit = None THEN @ ELSE in.limit]
  IN  /\ pc[p] = "apply"
      /\ \/ /\ in.limit # None /\ ~LimitFits(new.type, in.limit)
            /\ Reply(p, LimitError(new.type, in.limit))
            /\ UNCHANGED entity
         \/ /\ in.limit = None \/ LimitFits(new.type, in.limit)
            /\ entity' = [entity EXCEPT ![p] = new]
            /\ Goto(p, "write")
      /\ UNCHANGED <<accounts, rowLock, statements, wal, replica, req, locked>>

\* Faulty: every column is written, balance included.
UpdateAllColumns(p) ==
  LET a == req[p].id
  IN  /\ pc[p] = "write"
      /\ rowLock[a] = None
      /\ Write(a, entity[p])
      /\ Executed(p)
      /\ UNCHANGED <<rowLock, statements, replica, req, entity, locked>>

\* AccountRepository.Update: name, description, active and credit_limit of the
\* copy are written WHERE id = :id, once no posting holds the row.
Update(p) ==
  LET a == req[p].id
  IN  /\ pc[p] = "write"
      /\ rowLock[a] = None
      /\ Write(a, [accounts[a] EXCEPT !.name = entity[p].name,
                                      !.active = entity[p].active,
                                      !.limit = entity[p].limit])
      /\ Executed(p)
      /\ UNCHANGED <<rowLock, statements, replica, req, entity, locked>>

\* AccountRepository.Delete: SET active = false WHERE id = $2 AND active = true.
Delete(p) ==
  LET a == req[p].id
  IN  /\ pc[p] = "delete"
      /\ rowLock[a] = None
      /\ \/ /\ accounts[a] # None /\ accounts[a].active
            /\ Write(a, [accounts[a] EXCEPT !.active = FALSE])
            /\ Executed(p)
         \/ /\ ~(accounts[a] # None /\ accounts[a].active)
            /\ Reply(p, "ErrAccountNotFound")
            /\ UNCHANGED <<accounts, wal>>
      /\ UNCHANGED <<rowLock, statements, replica, req, entity, locked>>

\* A posting locks the row and reads its balance (SELECT ... FOR UPDATE) ...
LockRow(p) ==
  LET a == req[p].id
  IN  /\ pc[p] = "post"
      /\ rowLock[a] = None
      /\ rowLock' = [rowLock EXCEPT ![a] = p]
      /\ locked' = [locked EXCEPT ![p] = accounts[a].balance]
      /\ Goto(p, "commit")
      /\ UNCHANGED <<accounts, statements, wal, replica, req, entity>>

\* ... and commits the new balance, here one cent more, with its statement.
CommitPosting(p) ==
  LET a == req[p].id
  IN  /\ pc[p] = "commit"
      /\ Write(a, [accounts[a] EXCEPT !.balance = locked[p] + 1])
      /\ statements' = statements \cup {p}
      /\ rowLock' = [rowLock EXCEPT ![a] = None]
      /\ Executed(p)
      /\ UNCHANGED <<replica, req, entity, locked>>

\* A database call fails or the client goes away before anything is written;
\* what fails once it is written is in Executed.
Fail(p) ==
  /\ pc[p] \notin {"idle", "done"}
  /\ rowLock' = [a \in IDs |-> IF rowLock[a] = p THEN None ELSE rowLock[a]]
  /\ Reply(p, "ErrInternal")
  /\ UNCHANGED <<accounts, statements, wal, replica, req, entity, locked>>

\* The replica applies the next commit of the stream.
Replicate ==
  /\ wal # << >>
  /\ replica' = [replica EXCEPT ![wal[1].id] = wal[1].row]
  /\ wal' = Tail(wal)
  /\ UNCHANGED <<accounts, rowLock, statements, pc, req, entity, locked, result>>

Quiescent ==
  /\ \A p \in Requests : pc[p] = "done"
  /\ wal = << >>
  /\ UNCHANGED vars

Next ==
  \/ \E p \in Requests :
       \/ PrepareCreate(p) \/ Insert(p) \/ Start(p) \/ FindByID(p)
       \/ ApplyUpdate(p) \/ Update(p) \/ Delete(p)
       \/ LockRow(p) \/ CommitPosting(p) \/ Fail(p)
  \/ Replicate
  \/ Quiescent

Spec == Init /\ [][Next]_vars

-----------------------------------------------------------------------------
(***************************************************************************)
(* Properties.                                                             *)
(***************************************************************************)

PCs == {"idle", "insert", "find", "apply", "write", "delete", "post", "commit", "done"}

Answers == {"none", "ok", "ErrAccountNotFound", "ErrStatementNotFound",
            "ErrInvalidAccountType", "ErrInvalidCreditLimit",
            "ErrCreditLimitRequired", "ErrCreditLimitNotAllowed", "ErrInternal"}

Table == [IDs -> Row \cup {None}]

\* Tables, stream and frames hold values of their column and Go types
\* (accountDB, account.go:19-30).
TypeOK ==
  /\ accounts \in Table
  /\ replica  \in Table
  /\ rowLock  \in [IDs -> Requests \cup {None}]
  /\ statements \subseteq Requests
  /\ wal      \in Seq([id : IDs, row : Row])
  /\ pc       \in [Requests -> PCs]
  /\ req      \in [Requests -> Inputs]
  /\ entity   \in [Requests -> Row \cup {None}]
  /\ locked   \in [Requests -> Nat]
  /\ result   \in [Requests -> Answers]

\* A credit card has a limit in range and no other account has one, in the
\* table and in every Account about to be written to it, although its type
\* and limit were read from a lagging replica and limits race (INV-01 to
\* INV-05 of account-credit-limit.spec.md; entity.go:59-91): the CHECK
\* constraint of the table is never what refuses a write.
LimitFitsType ==
  /\ \A a \in IDs : accounts[a] # None => LimitFits(accounts[a].type, accounts[a].limit)
  /\ \A p \in Requests :
       pc[p] \in {"insert", "write"} => LimitFits(entity[p].type, entity[p].limit)
  /\ \A p \in Requests :
       pc[p] = "write" => /\ accounts[req[p].id] # None
                          /\ accounts[req[p].id].type = entity[p].type

\* The balance of an account counts its statements, and whoever was told that
\* a posting is made has a statement: updates that hold a stale copy of the row
\* never write its balance back, and the row lock keeps two postings apart
\* (account.go:250-258, INV-04 and RN-13).  A posting whose COMMIT was not
\* answered (statement.go:226-228) counts when it is there.
BalanceIsPosted ==
  /\ \A a \in IDs : accounts[a] # None =>
       accounts[a].balance = Cardinality({p \in statements : req[p].id = a})
  /\ \A p \in Requests : req[p].op = "post" /\ result[p] = "ok" => p \in statements

\* Nothing that could still bring account a back: no row of it anywhere that is
\* active, and no update that holds a copy.
Gone(a) ==
  /\ accounts[a] # None /\ ~accounts[a].active
  /\ ReaderRow(a) # None => ~ReaderRow(a).active
  /\ \A i \in DOMAIN wal : wal[i].id = a => ~wal[i].row.active
  /\ \A p \in Requests : pc[p] \in {"apply", "write"} => req[p].id # a

\* An update writes active = true of its copy over a deletion that was answered
\* before (account.go:250-277).  It does so only if it read the copy before the
\* deletion reached the reader: once nobody holds one, the deletion is final.
DeleteIsFinal == [][\A a \in IDs : Gone(a) => Gone(a)']_vars
===============================================================================
