------------------------------ MODULE UsersProofs ------------------------------
(***************************************************************************)
(* Users, proved for any number of requests and users, with or without a   *)
(* replica: only a race loses a password or brings a deleted user back,    *)
(* gets answer what was committed, and every token goes back to a login.   *)
(***************************************************************************)
EXTENDS Users, SequenceTheorems, TLAPS

-----------------------------------------------------------------------------
(***************************************************************************)
(* The inductive invariant.                                                *)
(***************************************************************************)

Version == [users : [UserIDs -> User \cup {None}], by : Requests \cup {None}]

UniqueEmails(users) ==
  \A u, v \in {w \in UserIDs : users[w] # None} : users[u].email = users[v].email => u = v

\* The versions of the table: emails are unique, and a row that was ever there
\* is still there, since a delete only marks it.
History(lg) ==
  /\ lg \in Seq(Version)
  /\ Len(lg) \in Nat \ {0}
  /\ \A i \in 1 .. Len(lg) : lg[i] \in Version /\ UniqueEmails(lg[i].users)
  /\ \A i \in 1 .. Len(lg), u \in UserIDs :
       lg[i].users[u] # None => lg[Len(lg)].users[u] # None

\* What a version of the history says of user u.
Committed(lg, u, view) ==
  \E i \in 1 .. Len(lg) : lg[i].users[u] # None /\ Public(lg[i].users[u]) = view

\* A copy of the row of u in the version it was read from.
CopyOf(lg, u, c) ==
  /\ c \in [row : User \cup {None}, at : 1 .. Len(lg)]
  /\ c.row = lg[c.at].users[u]

PCs == {"idle", "insert", "cache", "flight", "read", "wait", "deliver", "store",
        "find", "write", "delete", "invalidate", "password", "done"}

\* The variables of the requests, and what they leave behind.
Frames ==
  /\ applied \in 1 .. Len(log)
  /\ cache \in [UserIDs -> View \cup {None}]
  /\ tokens \subseteq Token
  /\ pc \in [Requests -> PCs]
  /\ req \in [Requests -> Input]
  /\ copy \in [Requests -> [row : User \cup {None}, at : 1 .. Len(log)] \cup {None}]
  /\ awaits \in [Requests -> Requests \cup {None}]
  /\ got \in [Requests -> View \cup {None}]

\* The password a password request must have found.
Warrant(in) == IF in.op = "setPassword" THEN None ELSE in.current

\* What a request at a step has checked and knows.
StageOf(p) ==
  LET in == req[p]
  IN  /\ pc[p] \in {"cache", "flight", "read", "wait", "deliver", "store"} => in.op = "get"
      /\ pc[p] = "wait" => awaits[p] \in Requests /\ req[awaits[p]].id = in.id
      /\ pc[p] \in {"idle", "insert"} /\ in.op = "create" => Users[p] = None
      /\ pc[p] = "insert" => in.op = "create" /\ in.email # BadEmail
      /\ pc[p] = "find" => in.op \in {"update"} \cup PasswordOps
      /\ pc[p] \in {"find", "write"} /\ in.op = "update" => in.email # BadEmail
      /\ pc[p] = "write" => in.op = "update"
      /\ pc[p] = "delete" => in.op = "delete"
      /\ pc[p] = "invalidate" => in.op \in {"update", "delete"}
      /\ pc[p] = "password" =>
           /\ in.op \in PasswordOps
           /\ in.new \in Passwords
           /\ copy[p].row.password = Warrant(in)
      /\ pc[p] \in {"deliver", "store", "write", "password"} => CopyOf(log, in.id, copy[p])
      /\ pc[p] \in {"store", "write", "password"} => copy[p].row # None

Stages == \A p \in Requests : StageOf(p)

\* Who wrote a version has nothing more to read or write.
WritersDone ==
  \A i \in 2 .. Len(log) : log[i].by \in Requests /\ pc[log[i].by] \in {"invalidate", "done"}

\* What the fields of an input are, by operation.
LEMMA InputFields ==
  ASSUME Frames, NEW p \in Requests
  PROVE  /\ p \in UserIDs
         /\ req[p].op = "create" =>
              req[p].name \in Names /\ req[p].email \in Emails \cup {BadEmail}
         /\ req[p].op \in {"get", "delete", "update"} \cup PasswordOps => req[p].id \in UserIDs
         /\ req[p].op = "update" =>
              /\ req[p].name \in Names \cup {None}
              /\ req[p].email \in Emails \cup {BadEmail, None}
         /\ req[p].op \in PasswordOps => req[p].new \in Passwords \cup {WeakPassword}
         /\ req[p].op = "changePassword" => req[p].current \in Passwords
  <1>1. req[p] \in Input
    BY DEF Frames
  <1> QED
    BY <1>1
    DEF Input, CreateInput, GetInput, DeleteInput, UpdateInput, SetPasswordInput,
        ChangePasswordInput, LoginInput, RefreshInput, UserIDs, PasswordOps

\* The last version and the reader's are versions.
LEMMA CurrentVersions ==
  ASSUME History(log), Frames
  PROVE  /\ Users \in [UserIDs -> User \cup {None}] /\ UniqueEmails(Users)
         /\ Reader \in 1 .. Len(log)
         /\ log[Reader].users \in [UserIDs -> User \cup {None}]
         /\ applied =< Reader
  BY HasReplicaAssumption DEF History, Version, Frames, Users, Reader

\* A row that was found is still there.
LEMMA FoundStays ==
  ASSUME History(log), NEW u \in UserIDs, NEW c, CopyOf(log, u, c), c.row # None
  PROVE  Users[u] # None /\ Users[u] \in User /\ c.row \in User
  <1>1. c.at \in 1 .. Len(log) /\ c.row \in User
    BY DEF CopyOf
  <1>2. Users[u] # None
    BY <1>1 DEF History, CopyOf, Users
  <1> QED
    BY <1>1, <1>2 DEF History, Version, Users

-----------------------------------------------------------------------------
(***************************************************************************)
(* What a step may change.                                                 *)
(***************************************************************************)

StepOf(p) == Step(p) \/ Fail(p)

\* The handlers up to the first call, and a look at the row.
Admitted(p) ==
  \/ AdmitCreate(p) \/ AdmitGet(p) \/ AdmitUpdate(p) \/ AdmitDelete(p)
  \/ AdmitSetPassword(p) \/ AdmitChangePassword(p)

Looked(p) == FindForUpdate(p) \/ FindForSet(p) \/ FindForChange(p)

\* The cases of a step of a request.
LEMMA StepCases ==
  ASSUME NEW p \in Requests, StepOf(p)
  PROVE  \/ Admitted(p) \/ Looked(p) \/ InsertUser(p)
         \/ GetCached(p) \/ JoinFlight(p) \/ ReadUser(p) \/ Deliver(p) \/ StoreUser(p)
         \/ WriteUser(p) \/ DeleteUser(p) \/ InvalidateUpdated(p) \/ InvalidateDeleted(p)
         \/ WritePassword(p) \/ Login(p) \/ Refresh(p) \/ Fail(p)
  BY Zenon DEF StepOf, Step, Admitted, Looked

\* What is written: a new row, or the row of the request's user, whose password
\* and whose return from deletion are as the properties say.
Write(p, u, row) ==
  /\ Commit(p, u, row)
  /\ \A v \in UserIDs \ {u} : Users[v] # None => Users[v].email # row.email
  /\ \/ u = p /\ Users[u] = None
     \/ /\ u = req[p].id
        /\ Users[u] # None
        /\ row.password # Users[u].password =>
             /\ req[p].op \in PasswordOps
             /\ Users[u].active
             /\ copy[p].at \in 1 .. Len(log)
             /\ log[copy[p].at].users[u] # None
             /\ log[copy[p].at].users[u].password = Warrant(req[p])
        /\ row.active /\ ~Users[u].active =>
             /\ req[p].op = "update"
             /\ copy[p].at \in 1 .. Len(log)
             /\ log[copy[p].at].users[u].active

\* Every step writes so, or nothing.
LEMMA Writes ==
  ASSUME History(log), Frames, Stages, NEW p \in Requests, StepOf(p)
  PROVE  \/ log' = log
         \/ /\ \E u \in UserIDs, row \in User : Write(p, u, row)
            /\ pc[p] \notin {"invalidate", "done"}
            /\ pc'[p] \in {"invalidate", "done"}
  <1>0. /\ Users \in [UserIDs -> User \cup {None}] /\ UniqueEmails(Users)
        /\ StageOf(p) /\ pc \in [Requests -> PCs]
    BY CurrentVersions DEF Stages, Frames
  <1>1. CASE InsertUser(p) /\ log' # log
    <2>1. /\ p \in UserIDs /\ Users[p] = None
          /\ NewUser(req[p].name, req[p].email) \in User
      BY <1>0, <1>1, InputFields DEF InsertUser, StageOf, NewUser, User
    <2>2. /\ Commit(p, p, NewUser(req[p].name, req[p].email))
          /\ ~EmailTaken(req[p].email, p)
          /\ pc[p] = "insert" /\ pc'[p] = "done"
      BY <1>0, <1>1 DEF InsertUser, Reply
    <2>3. Write(p, p, NewUser(req[p].name, req[p].email))
      BY <2>1, <2>2 DEF Write, EmailTaken, NewUser
    <2> QED
      BY <2>1, <2>2, <2>3
  <1>2. CASE WriteUser(p) /\ log' # log
    <2> DEFINE u == req[p].id
               row == Updated(p)
    <2>1. /\ req[p].op = "update" /\ u \in UserIDs
          /\ req[p].name \in Names \cup {None}
          /\ req[p].email \in Emails \cup {None}
          /\ CopyOf(log, u, copy[p]) /\ copy[p].row # None
      BY <1>0, <1>2, InputFields DEF WriteUser, StageOf
    <2>2. Users[u] # None /\ Users[u] \in User /\ copy[p].row \in User
      BY <2>1, FoundStays
    <2>3. /\ row \in User /\ row.password = Users[u].password
          /\ row.active = copy[p].row.active
      BY <2>1, <2>2 DEF Updated, User
    <2>4. Commit(p, u, row) /\ ~EmailTaken(row.email, u)
      BY <1>2 DEF WriteUser
    <2>5. pc[p] = "write" /\ pc'[p] \in {"invalidate", "done"}
      BY <1>0, <1>2 DEF WriteUser, Executed, Goto, Reply
    <2>6. copy[p].at \in 1 .. Len(log) /\ copy[p].row = log[copy[p].at].users[u]
      BY <2>1 DEF CopyOf
    <2> HIDE DEF row
    <2>7. Write(p, u, row)
      BY <2>1, <2>2, <2>3, <2>4, <2>6 DEF Write, EmailTaken
    <2> QED
      BY <2>1, <2>3, <2>5, <2>7
  <1>3. CASE DeleteUser(p) /\ log' # log
    <2> DEFINE u == req[p].id
               row == [Users[u] EXCEPT !.active = FALSE]
    <2>1. /\ u \in UserIDs /\ Users[u] # None
          /\ Commit(p, u, row)
          /\ pc[p] = "delete" /\ pc'[p] \in {"invalidate", "done"}
      BY <1>0, <1>3, InputFields DEF DeleteUser, Executed, Goto, Reply, StageOf
    <2>2. /\ row \in User /\ row.password = Users[u].password /\ ~row.active
          /\ row.email = Users[u].email
      BY <1>0, <2>1 DEF User
    <2>3. \A v \in UserIDs \ {u} : Users[v] # None => Users[v].email # row.email
      BY <1>0, <2>1, <2>2 DEF UniqueEmails
    <2> HIDE DEF row
    <2>4. Write(p, u, row)
      BY <2>1, <2>2, <2>3 DEF Write
    <2> QED
      BY <2>1, <2>2, <2>4
  <1>4. CASE WritePassword(p) /\ log' # log
    <2> DEFINE u == req[p].id
               row == [Users[u] EXCEPT !.password = req[p].new]
    <2>1. /\ req[p].op \in PasswordOps /\ u \in UserIDs
          /\ req[p].new \in Passwords /\ copy[p].row.password = Warrant(req[p])
          /\ CopyOf(log, u, copy[p]) /\ copy[p].row # None
      BY <1>0, <1>4, InputFields DEF WritePassword, StageOf
    <2>2. Users[u] # None /\ Users[u] \in User
      BY <2>1, FoundStays
    <2>3. /\ Users[u].active /\ Commit(p, u, row)
          /\ pc[p] = "password" /\ pc'[p] = "done"
      BY <1>0, <1>4 DEF WritePassword, Reply
    <2>4. /\ row \in User /\ row.active = Users[u].active
          /\ row.email = Users[u].email
      BY <2>1, <2>2 DEF User
    <2>5. \A v \in UserIDs \ {u} : Users[v] # None => Users[v].email # row.email
      BY <1>0, <2>1, <2>2, <2>4 DEF UniqueEmails
    <2>6. /\ copy[p].at \in 1 .. Len(log)
          /\ log[copy[p].at].users[u] # None
          /\ log[copy[p].at].users[u].password = Warrant(req[p])
      BY <2>1 DEF CopyOf
    <2> HIDE DEF row
    <2>7. Write(p, u, row)
      BY <2>1, <2>2, <2>3, <2>4, <2>5, <2>6 DEF Write
    <2> QED
      BY <2>1, <2>3, <2>4, <2>7
  <1>5. CASE Admitted(p) \/ Looked(p)
    BY <1>5 DEF Admitted, AdmitCreate, AdmitGet, AdmitUpdate, AdmitDelete, AdmitSetPassword,
                AdmitChangePassword, Admit, Looked, FindForUpdate, FindForSet, FindForChange, Find
  <1>6. CASE \/ GetCached(p) \/ JoinFlight(p) \/ ReadUser(p) \/ Deliver(p) \/ StoreUser(p)
             \/ InvalidateUpdated(p) \/ InvalidateDeleted(p) \/ Login(p) \/ Refresh(p) \/ Fail(p)
    BY <1>6 DEF GetCached, JoinFlight, ReadUser, Deliver, StoreUser, InvalidateUpdated,
                InvalidateDeleted, Invalidate, Login, Refresh, Fail
  <1> QED
    BY <1>1, <1>2, <1>3, <1>4, <1>5, <1>6, StepCases

\* The steps that are no request's.
LEMMA OtherSteps ==
  ASSUME [Next]_vars
  PROVE  /\ req' = req
         /\ \/ \E p \in Requests : StepOf(p) /\ applied' = applied
            \/ ~(\E p \in Requests : StepOf(p)) /\ UNCHANGED <<log, pc, copy, awaits, got>>
  <1>1. ASSUME NEW p \in Requests, StepOf(p) PROVE UNCHANGED <<req, applied>>
    <2>1. CASE Admitted(p) \/ Looked(p)
      BY <2>1 DEF Admitted, AdmitCreate, AdmitGet, AdmitUpdate, AdmitDelete, AdmitSetPassword,
                  AdmitChangePassword, Admit, Looked, FindForUpdate, FindForSet, FindForChange, Find
    <2>2. CASE \/ InsertUser(p) \/ GetCached(p) \/ JoinFlight(p) \/ ReadUser(p) \/ Deliver(p)
               \/ StoreUser(p) \/ WriteUser(p) \/ DeleteUser(p)
      BY <2>2 DEF InsertUser, GetCached, JoinFlight, ReadUser, Deliver, StoreUser, WriteUser,
                  DeleteUser
    <2>3. CASE \/ InvalidateUpdated(p) \/ InvalidateDeleted(p) \/ WritePassword(p)
               \/ Login(p) \/ Refresh(p) \/ Fail(p)
      BY <2>3 DEF InvalidateUpdated, InvalidateDeleted, Invalidate, WritePassword, Login,
                  Refresh, Fail
    <2> QED
      BY <1>1, <2>1, <2>2, <2>3, StepCases
  <1>2. ASSUME \/ \E t \in tokens : ExpireToken(t)
               \/ \E u \in UserIDs : ExpireEntry(u)
               \/ Replicate \/ Quiescent \/ UNCHANGED vars
        PROVE  UNCHANGED <<log, pc, req, copy, awaits, got>>
    BY <1>2 DEF ExpireToken, ExpireEntry, Replicate, Quiescent, vars
  <1>3. \/ \E p \in Requests : StepOf(p)
        \/ \E t \in tokens : ExpireToken(t)
        \/ \E u \in UserIDs : ExpireEntry(u)
        \/ Replicate \/ Quiescent \/ UNCHANGED vars
    BY Zenon DEF Next, StepOf
  <1> QED
    BY <1>1, <1>2, <1>3

\* The table after a write.
LEMMA Written ==
  ASSUME History(log), NEW p \in Requests, NEW u \in UserIDs, NEW row \in User, Write(p, u, row)
  PROVE  /\ History(log')
         /\ Len(log') = Len(log) + 1
         /\ log'[Len(log')].by = p
         /\ log'[Len(log')].users = [Users EXCEPT ![u] = row]
         /\ \A i \in 1 .. Len(log) : log'[i] = log[i]
  <1> DEFINE new == [users |-> [Users EXCEPT ![u] = row], by |-> p]
  <1>1. log \in Seq(Version) /\ Len(log) \in Nat \ {0} /\ log' = Append(log, new)
    BY DEF History, Write, Commit
  <1>2. Users \in [UserIDs -> User \cup {None}] /\ UniqueEmails(Users)
    BY DEF History, Version, Users
  <1>3. new \in Version
    BY <1>2 DEF Version
  <1>4. UniqueEmails(new.users)
    BY <1>2 DEF UniqueEmails, Write
  <1>5. new.users = [Users EXCEPT ![u] = row] /\ new.by = p
    OBVIOUS
  <1> HIDE DEF new
  <1>6. /\ log' \in Seq(Version) /\ Len(log') = Len(log) + 1
        /\ log'[Len(log')] = new
        /\ \A i \in 1 .. Len(log) : log'[i] = log[i]
    BY <1>1, <1>3, AppendProperties
  <1>7. \A i \in 1 .. Len(log') : log'[i] \in Version /\ UniqueEmails(log'[i].users)
    BY <1>1, <1>3, <1>4, <1>6 DEF History
  <1>8. ASSUME NEW i \in 1 .. Len(log'), NEW v \in UserIDs, log'[i].users[v] # None
        PROVE  log'[Len(log')].users[v] # None
    <2>1. Users[v] # None => new.users[v] # None
      BY <1>2, <1>5, NamedApartAssumption
    <2> QED
      BY <1>1, <1>6, <1>8, <2>1 DEF History, Users
  <1> QED
    BY <1>1, <1>5, <1>6, <1>7, <1>8 DEF History

\* The history keeps its constraints and grows by one version at most.
LEMMA NextHistory ==
  ASSUME History(log), Frames, Stages, [Next]_vars
  PROVE  /\ History(log')
         /\ log' = log \/ Len(log') = Len(log) + 1
         /\ \A i \in 1 .. Len(log) : log'[i] = log[i]
  BY OtherSteps, Writes, Written DEF History

\* What was committed was, and a copy remains one.
LEMMA PastStays ==
  ASSUME History(log), Frames, Stages, [Next]_vars
  PROVE  /\ \A u, view : Committed(log, u, view) => Committed(log', u, view)
         /\ \A u, c : CopyOf(log, u, c) => CopyOf(log', u, c)
         /\ 1 .. Len(log) \subseteq 1 .. Len(log')
  <1>1. /\ Len(log) \in Nat /\ Len(log') \in Nat /\ Len(log) =< Len(log')
        /\ \A i \in 1 .. Len(log) : i \in 1 .. Len(log') /\ log'[i] = log[i]
    BY NextHistory DEF History
  <1>2. ASSUME NEW u, NEW view, Committed(log, u, view) PROVE Committed(log', u, view)
    BY <1>1, <1>2 DEF Committed
  <1>3. ASSUME NEW u, NEW c, CopyOf(log, u, c) PROVE CopyOf(log', u, c)
    BY <1>1, <1>3 DEF CopyOf
  <1> QED
    BY <1>1, <1>2, <1>3

\* A step of one request moves another only if that waits for it.
LEMMA StepIsOwn ==
  ASSUME Frames, NEW p \in Requests, StepOf(p), NEW q \in Requests, q # p
  PROVE  /\ awaits'[q] = awaits[q] /\ got'[q] = got[q]
         /\ \/ pc'[q] = pc[q] /\ copy'[q] = copy[q]
            \/ pc[q] = "wait" /\ awaits[q] = p /\ pc'[q] = "done" /\ copy'[q] = copy[q]
            \/ /\ pc[q] = "wait" /\ awaits[q] = p /\ pc'[q] = "store"
               /\ copy'[q] = copy[p] /\ copy[p].row # None /\ pc[p] = "deliver"
  <1>1. CASE Deliver(p)
    BY <1>1 DEF Deliver, ReplyAll, Sharing, Frames
  <1>2. CASE Fail(p)
    BY <1>2 DEF Fail, ReplyAll, Sharing, Frames
  <1>3. CASE Admitted(p) \/ Looked(p)
    <2>1. UNCHANGED <<awaits, got>> /\ ((\E s : Goto(p, s)) \/ (\E w : Reply(p, w)))
      BY <1>3 DEF Admitted, AdmitCreate, AdmitGet, AdmitUpdate, AdmitDelete, AdmitSetPassword,
                  AdmitChangePassword, Admit, Looked, FindForUpdate, FindForSet, FindForChange, Find
    <2>2. copy'[q] = copy[q]
      BY <1>3 DEF Admitted, AdmitCreate, AdmitGet, AdmitUpdate, AdmitDelete, AdmitSetPassword,
                  AdmitChangePassword, Admit, Looked, FindForUpdate, FindForSet, FindForChange,
                  Find, Frames
    <2> QED
      BY <2>1, <2>2 DEF Goto, Reply, Frames
  <1>4. CASE \/ InsertUser(p) \/ GetCached(p) \/ JoinFlight(p) \/ ReadUser(p) \/ StoreUser(p)
             \/ WriteUser(p) \/ DeleteUser(p) \/ InvalidateUpdated(p) \/ InvalidateDeleted(p)
             \/ WritePassword(p) \/ Login(p) \/ Refresh(p)
    <2>1. (\E s : Goto(p, s)) \/ (\E w : Reply(p, w))
      BY <1>4 DEF InsertUser, GetCached, JoinFlight, ReadUser, StoreUser, WriteUser, DeleteUser,
                  InvalidateUpdated, InvalidateDeleted, Invalidate, WritePassword, Login,
                  Refresh, Executed
    <2>2. awaits'[q] = awaits[q] /\ got'[q] = got[q] /\ copy'[q] = copy[q]
      BY <1>4 DEF InsertUser, GetCached, JoinFlight, ReadUser, StoreUser, WriteUser, DeleteUser,
                  InvalidateUpdated, InvalidateDeleted, Invalidate, WritePassword, Login,
                  Refresh, Frames
    <2> QED
      BY <2>1, <2>2 DEF Goto, Reply, Frames
  <1> QED
    BY <1>1, <1>2, <1>3, <1>4, StepCases

-----------------------------------------------------------------------------
(***************************************************************************)
(* The variables keep their types.                                         *)
(***************************************************************************)

\* Requests are at steps.
LEMMA NextPCs ==
  ASSUME Frames, NEW p \in Requests, StepOf(p) PROVE pc' \in [Requests -> PCs]
  <1>1. /\ \A s \in PCs : Goto(p, s) => pc' \in [Requests -> PCs]
        /\ \A w : Reply(p, w) => pc' \in [Requests -> PCs]
        /\ \A ps, w : ReplyAll(ps, w) => pc' \in [Requests -> PCs]
    BY DEF Goto, Reply, ReplyAll, Frames, PCs
  <1>2. {"insert", "cache", "flight", "read", "wait", "deliver", "store", "find", "write",
         "delete", "invalidate", "password"} \subseteq PCs
    BY DEF PCs
  <1>3. CASE Admitted(p)
    BY <1>1, <1>2, <1>3
    DEF Admitted, AdmitCreate, AdmitGet, AdmitUpdate, AdmitDelete, AdmitSetPassword,
        AdmitChangePassword, Admit
  <1>4. CASE Looked(p)
    BY <1>1, <1>2, <1>4 DEF Looked, FindForUpdate, FindForSet, FindForChange, Find
  <1>5. CASE Deliver(p)
    BY <1>1, <1>2, <1>5 DEF Deliver, Frames
  <1>6. CASE InsertUser(p) \/ GetCached(p) \/ JoinFlight(p) \/ ReadUser(p) \/ StoreUser(p)
    BY <1>1, <1>2, <1>6 DEF InsertUser, GetCached, JoinFlight, ReadUser, StoreUser
  <1>7. CASE \/ WriteUser(p) \/ DeleteUser(p) \/ InvalidateUpdated(p) \/ InvalidateDeleted(p)
             \/ WritePassword(p) \/ Login(p) \/ Refresh(p) \/ Fail(p)
    BY <1>1, <1>2, <1>7 DEF WriteUser, DeleteUser, InvalidateUpdated, InvalidateDeleted,
                            Invalidate, WritePassword, Login, Refresh, Fail, Executed
  <1> QED
    BY <1>3, <1>4, <1>5, <1>6, <1>7, StepCases

\* A row is shown as a view.
LEMMA PublicType == \A row \in User : Public(row) \in View
  BY DEF Public, View, User

\* Copies, answers and entries are rows and views.
LEMMA NextCopies ==
  ASSUME History(log), Frames, Stages, NEW p \in Requests, StepOf(p), [Next]_vars
  PROVE  /\ copy' \in [Requests -> [row : User \cup {None}, at : 1 .. Len(log')] \cup {None}]
         /\ awaits' \in [Requests -> Requests \cup {None}]
         /\ got' \in [Requests -> View \cup {None}]
         /\ cache' \in [UserIDs -> View \cup {None}]
         /\ tokens' \subseteq Token
  <1> DEFINE Copy == [row : User \cup {None}, at : 1 .. Len(log)] \cup {None}
  <1>0. /\ StageOf(p) /\ copy \in [Requests -> Copy]
        /\ \A u \in UserIDs, v \in 1 .. Len(log) :
             [row |-> log[v].users[u], at |-> v] \in Copy
        /\ Reader \in 1 .. Len(log)
    BY CurrentVersions DEF Stages, Frames, History, Version
  <1>1. Copy \subseteq [row : User \cup {None}, at : 1 .. Len(log')] \cup {None}
    BY PastStays
  <1>2. copy' \in [Requests -> Copy]
    <2> HIDE DEF Copy
    <2>1. CASE Looked(p)
      <3>1. req[p].id \in UserIDs
        BY <1>0, <2>1, InputFields DEF Looked, FindForUpdate, FindForSet, FindForChange, Find,
                                       PasswordOps
      <3> QED
        BY <1>0, <2>1, <3>1 DEF Looked, FindForUpdate, FindForSet, FindForChange, Find, Found
    <2>2. CASE ReadUser(p)
      <3>1. req[p].id \in UserIDs
        BY <1>0, <2>2, InputFields DEF ReadUser, StageOf
      <3> QED
        BY <1>0, <2>2, <3>1 DEF ReadUser
    <2>3. CASE Deliver(p)
      BY <1>0, <2>3 DEF Deliver
    <2>4. CASE \/ Admitted(p) \/ InsertUser(p) \/ GetCached(p) \/ JoinFlight(p) \/ StoreUser(p)
               \/ WriteUser(p) \/ DeleteUser(p) \/ InvalidateUpdated(p)
               \/ InvalidateDeleted(p) \/ WritePassword(p) \/ Login(p) \/ Refresh(p) \/ Fail(p)
      BY <1>0, <2>4
      DEF Admitted, AdmitCreate, AdmitGet, AdmitUpdate, AdmitDelete, AdmitSetPassword,
          AdmitChangePassword, Admit, InsertUser, GetCached, JoinFlight, StoreUser, WriteUser,
          DeleteUser, InvalidateUpdated, InvalidateDeleted, Invalidate, WritePassword,
          Login, Refresh, Fail
    <2> QED
      BY <2>1, <2>2, <2>3, <2>4, StepCases
  <1>3. awaits' \in [Requests -> Requests \cup {None}]
    <2>1. CASE Admitted(p) \/ Looked(p)
      BY <2>1
      DEF Admitted, AdmitCreate, AdmitGet, AdmitUpdate, AdmitDelete, AdmitSetPassword,
          AdmitChangePassword, Admit, Looked, FindForUpdate, FindForSet, FindForChange, Find,
          Frames
    <2>2. CASE ~(Admitted(p) \/ Looked(p))
      BY <2>2, StepCases
      DEF InsertUser, GetCached, JoinFlight, Leaders, ReadUser, Deliver, StoreUser, WriteUser,
          DeleteUser, InvalidateUpdated, InvalidateDeleted, Invalidate, WritePassword,
          Login, Refresh, Fail, Frames
    <2> QED
      BY <2>1, <2>2
  <1>4. /\ got' \in [Requests -> View \cup {None}]
        /\ cache' \in [UserIDs -> View \cup {None}]
    <2>0. /\ got \in [Requests -> View \cup {None}]
          /\ cache \in [UserIDs -> View \cup {None}]
      BY DEF Frames
    <2>1. CASE GetCached(p)
      <3>1. req[p].id \in UserIDs
        BY <1>0, <2>1, InputFields DEF GetCached, StageOf
      <3> QED
        BY <2>0, <2>1, <3>1 DEF GetCached
    <2>2. CASE StoreUser(p)
      <3>1. req[p].id \in UserIDs /\ Public(copy[p].row) \in View
        BY <1>0, <2>2, InputFields, FoundStays, PublicType DEF StoreUser, StageOf
      <3> QED
        BY <2>0, <2>2, <3>1 DEF StoreUser
    <2>3. CASE InvalidateUpdated(p) \/ InvalidateDeleted(p)
      BY <2>0, <2>3 DEF InvalidateUpdated, InvalidateDeleted, Invalidate
    <2>4. CASE Admitted(p) \/ Looked(p)
      BY <2>0, <2>4
      DEF Admitted, AdmitCreate, AdmitGet, AdmitUpdate, AdmitDelete, AdmitSetPassword,
          AdmitChangePassword, Admit, Looked, FindForUpdate, FindForSet, FindForChange, Find
    <2>5. CASE \/ InsertUser(p) \/ JoinFlight(p) \/ ReadUser(p) \/ Deliver(p) \/ WriteUser(p)
               \/ DeleteUser(p) \/ WritePassword(p) \/ Login(p) \/ Refresh(p) \/ Fail(p)
      BY <2>0, <2>5
      DEF InsertUser, JoinFlight, ReadUser, Deliver, WriteUser, DeleteUser, WritePassword,
          Login, Refresh, Fail
    <2> QED
      BY <2>1, <2>2, <2>3, <2>4, <2>5, StepCases
  <1>5. tokens' \subseteq Token
    <2>0. tokens \subseteq Token
      BY DEF Frames
    <2>1. \A u \in UserIDs : Issue(p, u) => tokens' \subseteq Token
      BY <2>0 DEF Issue, Token
    <2>2. CASE Login(p)
      BY <2>0, <2>1, <2>2 DEF Login
    <2>3. CASE Refresh(p)
      <3>1. \A t \in tokens : t.user \in UserIDs
        BY <2>0 DEF Token
      <3> QED
        BY <2>0, <2>1, <2>3, <3>1 DEF Refresh
    <2>4. CASE Admitted(p) \/ Looked(p)
      BY <2>0, <2>4
      DEF Admitted, AdmitCreate, AdmitGet, AdmitUpdate, AdmitDelete, AdmitSetPassword,
          AdmitChangePassword, Admit, Looked, FindForUpdate, FindForSet, FindForChange, Find
    <2>5. CASE \/ InsertUser(p) \/ GetCached(p) \/ JoinFlight(p) \/ ReadUser(p) \/ Deliver(p)
               \/ StoreUser(p) \/ WriteUser(p) \/ DeleteUser(p) \/ InvalidateUpdated(p)
               \/ InvalidateDeleted(p) \/ WritePassword(p) \/ Fail(p)
      BY <2>0, <2>5
      DEF InsertUser, GetCached, JoinFlight, ReadUser, Deliver, StoreUser, WriteUser, DeleteUser,
          InvalidateUpdated, InvalidateDeleted, Invalidate, WritePassword, Fail
    <2> QED
      BY <2>2, <2>3, <2>4, <2>5, StepCases
  <1> QED
    BY <1>1, <1>2, <1>3, <1>4, <1>5

\* Every step keeps the variables of the requests well typed.
LEMMA NextFrames ==
  ASSUME History(log), Frames, Stages, [Next]_vars PROVE Frames'
  <1>1. req' = req /\ req' \in [Requests -> Input]
    BY OtherSteps DEF Frames
  <1>2. CASE \E p \in Requests : StepOf(p) /\ applied' = applied
    BY <1>1, <1>2, NextPCs, NextCopies, PastStays DEF Frames
  <1>3. CASE UNCHANGED <<log, pc, copy, awaits, got>> /\ ~\E p \in Requests : StepOf(p)
    <2>1. applied' \in 1 .. Len(log') /\ tokens' \subseteq Token
      <3>1. CASE Replicate
        BY <3>1 DEF Replicate, Frames, History
      <3>2. CASE (\E t \in tokens : ExpireToken(t)) \/ (\E u \in UserIDs : ExpireEntry(u))
                 \/ Quiescent \/ UNCHANGED vars
        BY <1>3, <3>2 DEF ExpireToken, ExpireEntry, Quiescent, vars, Frames
      <3> QED
        BY <1>3, <3>1, <3>2, Zenon DEF Next, StepOf
    <2>2. cache' \in [UserIDs -> View \cup {None}]
      <3>1. ASSUME NEW u \in UserIDs, ExpireEntry(u)
            PROVE  cache' \in [UserIDs -> View \cup {None}]
        BY <3>1 DEF ExpireEntry, Frames
      <3>2. CASE (\E t \in tokens : ExpireToken(t)) \/ Replicate \/ Quiescent \/ UNCHANGED vars
        BY <3>2 DEF ExpireToken, Replicate, Quiescent, vars, Frames
      <3> QED
        BY <1>3, <3>1, <3>2, Zenon DEF Next, StepOf
    <2> QED
      BY <1>1, <1>3, <2>1, <2>2 DEF Frames
  <1> QED
    BY <1>2, <1>3, OtherSteps

-----------------------------------------------------------------------------
(***************************************************************************)
(* What a request knows stays true while others run.                       *)
(***************************************************************************)

\* A row that is about to be created is written by nobody else.
LEMMA Undisturbed ==
  ASSUME History(log), Frames, Stages, NEW p \in Requests, StepOf(p),
         NEW q \in Requests, q # p, Users[q] = None
  PROVE  Users'[q] = None
  <1>1. q \in UserIDs /\ Users \in [UserIDs -> User \cup {None}]
    BY CurrentVersions, InputFields
  <1>2. CASE log' = log
    BY <1>2 DEF Users
  <1>3. ASSUME NEW u \in UserIDs, NEW row \in User, Write(p, u, row) PROVE Users'[q] = None
    <2>1. u # q
      BY <1>3 DEF Write
    <2>2. Users' = [Users EXCEPT ![u] = row]
      BY <1>3, Written DEF Users
    <2> QED
      BY <1>1, <2>1, <2>2
  <1> QED
    BY <1>2, <1>3, Writes

\* What a step of its own leaves a request at.
LEMMA OwnStage ==
  ASSUME History(log), Frames, Stages, [Next]_vars, NEW q \in Requests, StepOf(q)
  PROVE  StageOf(q)'
  <1>0. /\ req' = req /\ StageOf(q) /\ pc \in [Requests -> PCs] /\ DOMAIN copy = Requests
        /\ DOMAIN awaits = Requests
    BY OtherSteps DEF Stages, Frames
  <1>1. \A u, c : CopyOf(log, u, c) => CopyOf(log', u, c)
    BY PastStays
  <1>2. CASE Admitted(q)
    <2>1. Users' = Users /\ pc[q] = "idle"
      BY <1>2 DEF Admitted, AdmitCreate, AdmitGet, AdmitUpdate, AdmitDelete, AdmitSetPassword,
                  AdmitChangePassword, Admit, Users
    <2>2. CASE AdmitCreate(q)
      BY <1>0, <2>1, <2>2 DEF AdmitCreate, Admit, ValidEmail, Goto, Reply, StageOf, PasswordOps
    <2>3. CASE AdmitUpdate(q)
      BY <1>0, <2>1, <2>3
      DEF AdmitUpdate, Admit, Ownership, ValidEmail, Goto, Reply, StageOf, PasswordOps
    <2>4. CASE AdmitGet(q) \/ AdmitDelete(q) \/ AdmitSetPassword(q) \/ AdmitChangePassword(q)
      BY <1>0, <2>1, <2>4
      DEF AdmitGet, AdmitDelete, AdmitSetPassword, AdmitChangePassword, Admit, Goto, Reply,
          StageOf, PasswordOps
    <2> QED
      BY <1>2, <2>2, <2>3, <2>4 DEF Admitted
  <1>3. CASE Looked(q)
    <2>1. /\ pc[q] = "find" /\ req[q].op \in {"update"} \cup PasswordOps
          /\ req[q].id \in UserIDs
      BY <1>3, InputFields
      DEF Looked, FindForUpdate, FindForSet, FindForChange, Find, PasswordOps
    <2>2. CopyOf(log, req[q].id, [row |-> Found(q), at |-> Reader])
      BY <2>1, CurrentVersions DEF CopyOf, Found, History, Version
    <2>3. CASE pc'[q] = "done"
      BY <1>0, <2>1, <2>3 DEF StageOf
    <2>4. CASE pc'[q] # "done"
      <3> DEFINE c == [row |-> Found(q), at |-> Reader]
      <3>1. /\ copy' = [copy EXCEPT ![q] = c] /\ Found(q) # None /\ log' = log
            /\ pc'[q] = IF req[q].op = "update" THEN "write" ELSE "password"
        BY <1>0, <1>3, <2>4
        DEF Looked, FindForUpdate, FindForSet, FindForChange, Find, Goto, Reply
      <3>2. copy'[q] = c /\ c.row = Found(q)
        BY <1>0, <3>1
      <3>3. req[q].op \in PasswordOps =>
              /\ req[q].new \in Passwords
              /\ Found(q).password = Warrant(req[q])
        <4>1. ASSUME NewPasswordRefusal(req[q]) = "none" PROVE req[q].new # WeakPassword
          BY <4>1 DEF NewPasswordRefusal, Strong
        <4>2. CASE FindForUpdate(q)
          BY <4>2 DEF FindForUpdate, Find, PasswordOps
        <4>3. CASE FindForSet(q)
          <5>1. /\ req[q].op = "setPassword" /\ Found(q).password = None
                /\ NewPasswordRefusal(req[q]) = "none"
            BY <1>0, <2>4, <3>1, <4>3 DEF FindForSet, Find, Goto, Reply
          <5> QED
            BY <4>1, <5>1, InputFields DEF Warrant, PasswordOps
        <4>4. CASE FindForChange(q)
          <5>1. /\ req[q].op = "changePassword" /\ Matches(Found(q).password, req[q].current)
                /\ NewPasswordRefusal(req[q]) = "none"
            BY <1>0, <2>4, <3>1, <4>4 DEF FindForChange, Find, Goto, Reply
          <5> QED
            BY <4>1, <5>1, InputFields DEF Warrant, PasswordOps, Matches
        <4> QED
          BY <1>3, <4>2, <4>3, <4>4 DEF Looked
      <3> HIDE DEF c
      <3>4. CopyOf(log, req[q].id, c)
        BY <2>2 DEF c
      <3> QED
        BY <1>0, <1>1, <2>1, <3>1, <3>2, <3>3, <3>4 DEF StageOf, PasswordOps
    <2> QED
      BY <2>3, <2>4
  <1>4. CASE ReadUser(q)
    <2>1. CopyOf(log, req[q].id, [row |-> log[Reader].users[req[q].id], at |-> Reader])
      <3>1. req[q].id \in UserIDs
        BY <1>0, <1>4, InputFields DEF ReadUser, StageOf
      <3> QED
        BY <3>1, CurrentVersions DEF CopyOf, History, Version
    <2>2. /\ pc[q] = "read" /\ pc'[q] = "deliver" /\ log' = log
          /\ copy'[q] = [row |-> log[Reader].users[req[q].id], at |-> Reader]
      BY <1>0, <1>4 DEF ReadUser, Goto
    <2> QED
      BY <1>0, <1>1, <2>1, <2>2 DEF StageOf
  <1>5. CASE Deliver(q)
    <2>1. CopyOf(log, req[q].id, copy[q]) /\ pc[q] = "deliver" /\ req[q].op = "get"
      BY <1>0, <1>5 DEF Deliver, StageOf
    <2>2. /\ copy'[q] = copy[q]
          /\ pc'[q] = "done" \/ (pc'[q] = "store" /\ copy[q].row # None)
      BY <1>0, <1>5 DEF Deliver, ReplyAll, Sharing
    <2> QED
      BY <1>0, <1>1, <2>1, <2>2 DEF StageOf
  <1>6. CASE GetCached(q) \/ StoreUser(q)
    BY <1>0, <1>6 DEF GetCached, StoreUser, Goto, Reply, StageOf
  <1>7. CASE JoinFlight(q)
    <2>1. CASE Goto(q, "read")
      BY <1>0, <1>7, <2>1 DEF JoinFlight, Goto, StageOf
    <2>2. ASSUME NEW p \in Leaders(req[q].id), awaits' = [awaits EXCEPT ![q] = p],
                 Goto(q, "wait")
          PROVE  StageOf(q)'
      BY <1>0, <1>7, <2>2 DEF JoinFlight, Leaders, Goto, StageOf
    <2> QED
      BY <1>7, <2>1, <2>2 DEF JoinFlight
  <1>8. CASE InsertUser(q) \/ WritePassword(q)
    BY <1>0, <1>8 DEF InsertUser, WritePassword, Reply, StageOf
  <1>9. CASE WriteUser(q) \/ DeleteUser(q)
    BY <1>0, <1>9 DEF WriteUser, DeleteUser, Executed, Goto, Reply, StageOf
  <1>10. CASE InvalidateUpdated(q) \/ InvalidateDeleted(q) \/ Login(q) \/ Refresh(q)
    BY <1>0, <1>10
    DEF InvalidateUpdated, InvalidateDeleted, Invalidate, Login, Refresh, Reply, StageOf
  <1>11. CASE Fail(q)
    BY <1>0, <1>11 DEF Fail, ReplyAll, Sharing, StageOf
  <1> QED
    BY <1>2, <1>3, <1>4, <1>5, <1>6, <1>7, <1>8, <1>9, <1>10, <1>11, StepCases

\* Every step keeps what the requests know.
LEMMA NextStages ==
  ASSUME History(log), Frames, Stages, [Next]_vars PROVE Stages'
  <1>0. req' = req
    BY OtherSteps
  <1> SUFFICES ASSUME NEW q \in Requests PROVE StageOf(q)'
    BY DEF Stages
  <1>1. StageOf(q) /\ \A u, c : CopyOf(log, u, c) => CopyOf(log', u, c)
    BY PastStays DEF Stages
  <1>2. ASSUME NEW p \in Requests, StepOf(p), p # q PROVE StageOf(q)'
    <2>1. Users[q] = None => Users'[q] = None
      BY <1>2, Undisturbed
    <2>2. awaits'[q] = awaits[q]
      BY <1>2, StepIsOwn
    <2>3. CASE pc'[q] = pc[q] /\ copy'[q] = copy[q]
      BY <1>0, <1>1, <2>1, <2>2, <2>3 DEF StageOf
    <2>4. CASE pc[q] = "wait" /\ pc'[q] = "done"
      BY <1>0, <1>1, <2>4 DEF StageOf
    <2>5. CASE /\ pc[q] = "wait" /\ awaits[q] = p /\ pc'[q] = "store"
               /\ copy'[q] = copy[p] /\ copy[p].row # None /\ pc[p] = "deliver"
      <3>1. CopyOf(log, req[p].id, copy[p]) /\ req[p].id = req[q].id /\ req[q].op = "get"
        BY <1>1, <2>5 DEF Stages, StageOf
      <3> QED
        BY <1>0, <1>1, <2>5, <3>1 DEF StageOf
    <2> QED
      BY <1>2, <2>3, <2>4, <2>5, StepIsOwn
  <1>3. CASE UNCHANGED <<log, pc, copy, awaits, got>>
    BY <1>0, <1>1, <1>3 DEF StageOf, Users
  <1> QED
    BY <1>2, <1>3, OwnStage, OtherSteps

\* Whoever has written is done with its copy.
LEMMA NextWritersDone ==
  ASSUME History(log), Frames, Stages, WritersDone, [Next]_vars PROVE WritersDone'
  <1>1. ASSUME NEW p \in Requests, StepOf(p), NEW q \in Requests, pc[q] \in {"invalidate", "done"}
        PROVE  pc'[q] \in {"invalidate", "done"}
    <2>1. CASE q # p
      BY <1>1, <2>1, StepIsOwn
    <2>2. CASE q = p
      <3>1. CASE Admitted(p) \/ Looked(p)
        BY <1>1, <2>2, <3>1
        DEF Admitted, AdmitCreate, AdmitGet, AdmitUpdate, AdmitDelete, AdmitSetPassword,
            AdmitChangePassword, Admit, Looked, FindForUpdate, FindForSet, FindForChange, Find
      <3>2. CASE InvalidateUpdated(p) \/ InvalidateDeleted(p) \/ Fail(p)
        BY <2>2, <3>2
        DEF InvalidateUpdated, InvalidateDeleted, Invalidate, Reply, Fail, ReplyAll, Sharing,
            Frames
      <3>3. CASE \/ InsertUser(p) \/ GetCached(p) \/ JoinFlight(p) \/ ReadUser(p) \/ Deliver(p)
                 \/ StoreUser(p) \/ WriteUser(p) \/ DeleteUser(p) \/ WritePassword(p)
                 \/ Login(p) \/ Refresh(p)
        BY <1>1, <2>2, <3>3
        DEF InsertUser, GetCached, JoinFlight, ReadUser, Deliver, StoreUser, WriteUser,
            DeleteUser, WritePassword, Login, Refresh
      <3> QED
        BY <1>1, <3>1, <3>2, <3>3, StepCases
    <2> QED
      BY <2>1, <2>2
  <1>2. ASSUME NEW p \in Requests, StepOf(p) PROVE WritersDone'
    <2>1. CASE log' = log
      BY <1>1, <1>2, <2>1 DEF WritersDone
    <2>2. ASSUME NEW u \in UserIDs, NEW row \in User, Write(p, u, row),
                 pc'[p] \in {"invalidate", "done"}
          PROVE  WritersDone'
      <3>1. /\ Len(log) \in Nat /\ Len(log') = Len(log) + 1
            /\ log'[Len(log')].by = p
            /\ \A i \in 1 .. Len(log) : log'[i] = log[i]
        BY <2>2, Written DEF History
      <3>2. ASSUME NEW i \in 2 .. Len(log')
            PROVE  log'[i].by \in Requests /\ pc'[log'[i].by] \in {"invalidate", "done"}
        <4>1. CASE i \in 2 .. Len(log)
          BY <1>1, <1>2, <3>1, <4>1 DEF WritersDone
        <4>2. CASE i = Len(log')
          BY <2>2, <3>1, <4>2
        <4> QED
          BY <3>1, <4>1, <4>2
      <3> QED
        BY <3>2 DEF WritersDone
    <2> QED
      BY <1>2, <2>1, <2>2, Writes
  <1>3. CASE UNCHANGED <<log, pc, copy, awaits, got>>
    BY <1>3 DEF WritersDone
  <1> QED
    BY <1>2, <1>3, OtherSteps

-----------------------------------------------------------------------------
(***************************************************************************)
(* Passwords and deletions.                                                *)
(***************************************************************************)

\* A user whose password is not the one version c shows has got it since.
LastWritten ==
  \A c \in 1 .. Len(log), u \in UserIDs :
    log[c].users[u] # None /\ log[c].users[u].password # Users[u].password =>
      \E j \in c + 1 .. Len(log) : Rewritten(j, u)

\* What was replaced in the past stays so.
LEMMA RewrittenStays ==
  ASSUME History(log), Frames, Stages, [Next]_vars,
         NEW j \in 2 .. Len(log), NEW u, Rewritten(j, u)
  PROVE  Rewritten(j, u)'
  <1>1. \A i \in 1 .. Len(log) : log'[i] = log[i]
    BY NextHistory
  <1>2. j \in 1 .. Len(log) /\ j - 1 \in 1 .. Len(log)
    BY DEF History
  <1>3. log'[j] = log[j] /\ log'[j - 1] = log[j - 1]
    BY <1>1, <1>2
  <1> QED
    BY <1>3 DEF Rewritten, Before, After

\* A step that writes leaves a password or is the last to have written it.
LEMMA NextLastWritten ==
  ASSUME History(log), Frames, Stages, LastWritten, [Next]_vars
  PROVE  LastWritten'
  <1>1. /\ Len(log) \in Nat \ {0} /\ Len(log') \in Nat
        /\ log' = log \/ Len(log') = Len(log) + 1
        /\ \A i \in 1 .. Len(log) : log'[i] = log[i]
    BY NextHistory DEF History
  <1>2. CASE log' = log
    BY <1>2 DEF LastWritten, Users, Rewritten, Before, After
  <1>3. CASE Len(log') = Len(log) + 1
    <2> SUFFICES ASSUME NEW c \in 1 .. Len(log'), NEW u \in UserIDs,
                        log'[c].users[u] # None,
                        log'[c].users[u].password # log'[Len(log')].users[u].password
                 PROVE  \E j \in c + 1 .. Len(log') : Rewritten(j, u)'
      BY DEF LastWritten, Users
    <2>1. c \in 1 .. Len(log) /\ log'[c] = log[c]
      BY <1>1, <1>3
    <2>2. Users[u] # None
      BY <2>1 DEF History, Users
    <2>3. CASE log[c].users[u].password # Users[u].password
      <3>1. PICK j \in c + 1 .. Len(log) : Rewritten(j, u)
        BY <2>1, <2>3 DEF LastWritten
      <3>2. j \in 2 .. Len(log) /\ j \in c + 1 .. Len(log')
        BY <1>1, <1>3, <2>1
      <3> QED
        BY <3>1, <3>2, RewrittenStays
    <2>4. CASE log[c].users[u].password = Users[u].password
      <3>1. log'[Len(log)] = log[Len(log)] /\ Len(log') - 1 = Len(log)
        BY <1>1, <1>3
      <3>2. Rewritten(Len(log), u)'
        BY <2>1, <2>2, <2>4, <3>1 DEF Rewritten, Before, After, Users
      <3>3. PICK n : n = Len(log')
        OBVIOUS
      <3>4. Rewritten(n, u)'
        BY <3>2, <3>3, Zenon DEF Rewritten, Before, After
      <3>5. n \in c + 1 .. Len(log')
        BY <1>1, <1>3, <2>1, <3>3
      <3> QED
        BY <3>4, <3>5
    <2> QED
      BY <2>3, <2>4
  <1> QED
    BY <1>1, <1>2, <1>3

\* Version i changed the password of u for a request that found what it had to,
\* or had found it before another was written,
WarrantedAt(i, u) ==
  LET p == log[i].by
  IN  Rewritten(i, u) =>
        /\ req[p].op \in PasswordOps
        /\ req[p].id = u
        /\ Before(i, u).active
        /\ copy[p].at \in 1 .. Len(log)
        /\ log[copy[p].at].users[u].password = Warrant(req[p])
        /\ Before(i, u).password # Warrant(req[p]) =>
             \E j \in copy[p].at + 1 .. i - 1 : Rewritten(j, u)

\* and brought u back for an update that had read it before the deletion.
RacedAt(i, u) ==
  LET p == log[i].by
  IN  Before(i, u) # None /\ ~Before(i, u).active /\ After(i, u).active =>
        /\ req[p].op = "update"
        /\ copy[p].at \in 1 .. Len(log)
        /\ log[copy[p].at].users[u].active
        /\ \E j \in copy[p].at + 1 .. i - 1 : ~log[j].users[u].active

Changes == \A i \in 2 .. Len(log), u \in UserIDs : WarrantedAt(i, u) /\ RacedAt(i, u)

\* Every step keeps the changes that were made, and makes only such.
LEMMA NextChanges ==
  ASSUME History(log), Frames, Stages, WritersDone, LastWritten, Changes, [Next]_vars
  PROVE  Changes'
  <1>0. /\ req' = req
        /\ Len(log) \in Nat \ {0} /\ Len(log') \in Nat
        /\ Len(log') = Len(log) \/ Len(log') = Len(log) + 1
        /\ \A i \in 1 .. Len(log) : log'[i] = log[i]
    BY OtherSteps, NextHistory DEF History
  <1>1. ASSUME NEW q \in Requests, pc[q] \in {"invalidate", "done"} PROVE copy'[q] = copy[q]
    <2>1. ASSUME NEW p \in Requests, StepOf(p), p # q PROVE copy'[q] = copy[q]
      BY <1>1, <2>1, StepIsOwn
    <2>2. CASE StepOf(q)
      <3>1. CASE Admitted(q) \/ Looked(q)
        BY <1>1, <3>1
        DEF Admitted, AdmitCreate, AdmitGet, AdmitUpdate, AdmitDelete, AdmitSetPassword,
            AdmitChangePassword, Admit, Looked, FindForUpdate, FindForSet, FindForChange, Find
      <3>2. CASE ~(Admitted(q) \/ Looked(q))
        BY <1>1, <2>2, <3>2, StepCases
        DEF InsertUser, GetCached, JoinFlight, ReadUser, Deliver, StoreUser, WriteUser,
            DeleteUser, InvalidateUpdated, InvalidateDeleted, Invalidate, WritePassword,
            Login, Refresh, Fail
      <3> QED
        BY <3>1, <3>2
    <2> QED
      BY <2>1, <2>2, OtherSteps
  <1>2. ASSUME NEW i \in 2 .. Len(log), NEW u \in UserIDs
        PROVE  (WarrantedAt(i, u) /\ RacedAt(i, u))'
    <2>1. log[i].by \in Requests /\ copy'[log[i].by] = copy[log[i].by]
      BY <1>1 DEF WritersDone
    <2>2. WarrantedAt(i, u) /\ RacedAt(i, u)
      BY DEF Changes
    <2>3. i - 1 \in 1 .. Len(log) /\ log'[i - 1] = log[i - 1] /\ log'[i] = log[i]
      BY <1>0
    <2>4. Before(i, u)' = Before(i, u) /\ After(i, u)' = After(i, u)
      BY <2>3 DEF Before, After
    <2>5. WarrantedAt(i, u)'
      <3> SUFFICES ASSUME Rewritten(i, u)
                   PROVE  /\ req[log[i].by].op \in PasswordOps
                          /\ req[log[i].by].id = u
                          /\ Before(i, u).active
                          /\ copy[log[i].by].at \in 1 .. Len(log')
                          /\ log'[copy[log[i].by].at].users[u].password = Warrant(req[log[i].by])
                          /\ Before(i, u).password # Warrant(req[log[i].by]) =>
                               \E j \in copy[log[i].by].at + 1 .. i - 1 : Rewritten(j, u)'
        BY <1>0, <2>1, <2>3, <2>4 DEF WarrantedAt, Rewritten
      <3> DEFINE at == copy[log[i].by].at
                 checked == Warrant(req[log[i].by])
      <3>1. /\ req[log[i].by].op \in PasswordOps
            /\ req[log[i].by].id = u
            /\ Before(i, u).active
            /\ at \in 1 .. Len(log)
            /\ log[at].users[u].password = checked
            /\ Before(i, u).password # checked => \E j \in at + 1 .. i - 1 : Rewritten(j, u)
        BY <2>2 DEF WarrantedAt
      <3> HIDE DEF at, checked
      <3>2. at \in 1 .. Len(log') /\ log'[at] = log[at]
        BY <1>0, <3>1
      <3>3. Before(i, u).password # checked => \E j \in at + 1 .. i - 1 : Rewritten(j, u)'
        <4> SUFFICES ASSUME NEW j \in at + 1 .. i - 1, Rewritten(j, u)
                     PROVE  Rewritten(j, u)'
          BY <3>1
        <4>1. j \in 2 .. Len(log)
          BY <1>0, <3>1
        <4> QED
          BY <4>1, RewrittenStays
      <3> QED
        BY <3>1, <3>2, <3>3 DEF at, checked
    <2>6. RacedAt(i, u)'
      <3> SUFFICES ASSUME Before(i, u) # None, ~Before(i, u).active, After(i, u).active
                   PROVE  /\ req[log[i].by].op = "update"
                          /\ copy[log[i].by].at \in 1 .. Len(log')
                          /\ log'[copy[log[i].by].at].users[u].active
                          /\ \E j \in copy[log[i].by].at + 1 .. i - 1 : ~log'[j].users[u].active
        BY <1>0, <2>1, <2>3, <2>4 DEF RacedAt
      <3> DEFINE at == copy[log[i].by].at
      <3>1. /\ req[log[i].by].op = "update"
            /\ at \in 1 .. Len(log)
            /\ log[at].users[u].active
            /\ \E j \in at + 1 .. i - 1 : ~log[j].users[u].active
        BY <2>2 DEF RacedAt
      <3>2. PICK j \in at + 1 .. i - 1 : ~log[j].users[u].active
        BY <3>1
      <3> HIDE DEF at
      <3>3. at \in 1 .. Len(log') /\ j \in 1 .. Len(log)
        BY <1>0, <3>1, <3>2
      <3>4. log'[at] = log[at] /\ log'[j] = log[j]
        BY <1>0, <3>1, <3>3
      <3> QED
        BY <3>1, <3>2, <3>3, <3>4 DEF at
    <2> QED
      BY <2>5, <2>6
  <1>3. ASSUME NEW p \in Requests, StepOf(p), NEW v \in UserIDs, NEW row \in User,
               Write(p, v, row), copy'[p] = copy[p], NEW u \in UserIDs
        PROVE  (WarrantedAt(Len(log), u) /\ RacedAt(Len(log), u))'
    <2>1. /\ Len(log') = Len(log) + 1
          /\ log'[Len(log')].by = p
          /\ log'[Len(log')].users = [Users EXCEPT ![v] = row]
          /\ log'[Len(log') - 1].users = Users
      BY <1>0, <1>3, Written DEF Users
    <2>2. Users \in [UserIDs -> User \cup {None}]
      BY CurrentVersions
    <2>3. /\ log'[Len(log') - 1].users[u] = Users[u]
          /\ log'[Len(log')].users[u] = IF u = v THEN row ELSE Users[u]
      BY <2>1, <2>2
    <2>4. WarrantedAt(Len(log), u)'
      <3> SUFFICES ASSUME Users[u] # None, u = v, row.password # Users[u].password
                   PROVE  /\ req[p].op \in PasswordOps
                          /\ req[p].id = u
                          /\ Users[u].active
                          /\ copy[p].at \in 1 .. Len(log')
                          /\ log'[copy[p].at].users[u].password = Warrant(req[p])
                          /\ Users[u].password # Warrant(req[p]) =>
                               \E j \in copy[p].at + 1 .. Len(log') - 1 : Rewritten(j, u)'
        BY <1>0, <1>3, <2>1, <2>3 DEF WarrantedAt, Rewritten, Before, After
      <3> DEFINE at == copy[p].at
      <3>1. /\ req[p].op \in PasswordOps
            /\ req[p].id = u
            /\ Users[u].active
            /\ at \in 1 .. Len(log)
            /\ log[at].users[u] # None
            /\ log[at].users[u].password = Warrant(req[p])
        BY <1>3 DEF Write
      <3> HIDE DEF at
      <3>2. at \in 1 .. Len(log') /\ log'[at] = log[at]
        BY <1>0, <2>1, <3>1
      <3>3. Users[u].password # Warrant(req[p]) =>
              \E j \in at + 1 .. Len(log') - 1 : Rewritten(j, u)'
        <4> SUFFICES ASSUME Users[u].password # Warrant(req[p])
                     PROVE  \E j \in at + 1 .. Len(log') - 1 : Rewritten(j, u)'
          OBVIOUS
        <4>1. PICK j \in at + 1 .. Len(log) : Rewritten(j, u)
          BY <3>1 DEF LastWritten
        <4>2. j \in 2 .. Len(log) /\ j \in at + 1 .. Len(log') - 1
          BY <1>0, <2>1, <3>1
        <4>3. Rewritten(j, u)'
          BY <4>1, <4>2, RewrittenStays
        <4> QED
          BY <4>2, <4>3
      <3> QED
        BY <3>1, <3>2, <3>3 DEF at
    <2>5. RacedAt(Len(log), u)'
      <3> SUFFICES ASSUME Users[u] # None, ~Users[u].active, u = v, row.active
                   PROVE  /\ req[p].op = "update"
                          /\ copy[p].at \in 1 .. Len(log')
                          /\ log'[copy[p].at].users[u].active
                          /\ \E j \in copy[p].at + 1 .. Len(log') - 1 : ~log'[j].users[u].active
        BY <1>0, <1>3, <2>1, <2>3 DEF RacedAt, Before, After
      <3>1. /\ req[p].op = "update" /\ copy[p].at \in 1 .. Len(log)
            /\ log[copy[p].at].users[u].active
        BY <1>3 DEF Write
      <3>2. copy[p].at # Len(log)
        BY <3>1 DEF Users
      <3>3. Len(log) \in copy[p].at + 1 .. Len(log') - 1 /\ ~log'[Len(log)].users[u].active
        BY <1>0, <2>1, <3>1, <3>2 DEF Users
      <3> QED
        BY <1>0, <3>1, <3>3
    <2> QED
      BY <2>4, <2>5
  <1>4. CASE log' = log
    BY <1>2, <1>4 DEF Changes
  <1>5. ASSUME NEW p \in Requests, StepOf(p), NEW v \in UserIDs, NEW row \in User,
               Write(p, v, row)
        PROVE  Changes'
    <2>1. copy'[p] = copy[p]
      <3>1. CASE Admitted(p) \/ Looked(p) \/ ReadUser(p) \/ Deliver(p)
        <4>1. log' = log
          BY <3>1
          DEF Admitted, AdmitCreate, AdmitGet, AdmitUpdate, AdmitDelete, AdmitSetPassword,
              AdmitChangePassword, Admit, Looked, FindForUpdate, FindForSet, FindForChange,
              Find, ReadUser, Deliver
        <4>2. Len(log') = Len(log) + 1
          BY <1>5, Written
        <4> QED
          BY <1>0, <4>1, <4>2
      <3>2. CASE ~(Admitted(p) \/ Looked(p) \/ ReadUser(p) \/ Deliver(p))
        BY <1>5, <3>2, StepCases, ZenonT(60)
        DEF InsertUser, GetCached, JoinFlight, StoreUser, WriteUser, DeleteUser,
            InvalidateUpdated, InvalidateDeleted, Invalidate, WritePassword, Login, Refresh, Fail
      <3> QED
        BY <3>1, <3>2
    <2>2. Len(log') = Len(log) + 1
      BY <1>5, Written
    <2>3. ASSUME NEW i \in 2 .. Len(log'), NEW u \in UserIDs
          PROVE  (WarrantedAt(i, u) /\ RacedAt(i, u))'
      <3>1. CASE i \in 2 .. Len(log)
        BY <1>2, <3>1
      <3>2. CASE i = Len(log')
        <4>1. (WarrantedAt(Len(log), u) /\ RacedAt(Len(log), u))'
          BY <1>3, <1>5, <2>1
        <4> QED
          BY <3>2, <4>1, ZenonT(60) DEF WarrantedAt, RacedAt, Rewritten, Before, After
      <3> QED
        BY <1>0, <2>2, <3>1, <3>2
    <2> QED
      BY <2>3 DEF Changes
  <1> QED
    BY <1>4, <1>5, OtherSteps, Writes

-----------------------------------------------------------------------------
(***************************************************************************)
(* Answers and entries.                                                    *)
(***************************************************************************)

\* What gets were answered with and what the cache keeps was committed.
Shown ==
  /\ \A p \in Requests : got[p] # None => Committed(log, req[p].id, got[p])
  /\ \A u \in UserIDs : cache[u] # None => Committed(log, u, cache[u])

\* Every step keeps it, whoever read the row that is delivered and stored.
LEMMA NextShown ==
  ASSUME History(log), Frames, Stages, Shown, [Next]_vars PROVE Shown'
  <1>0. req' = req /\ \A u, view : Committed(log, u, view) => Committed(log', u, view)
    BY OtherSteps, PastStays
  <1>1. ASSUME NEW p \in Requests, NEW view, got'[p] = view, view # None
        PROVE  Committed(log, req[p].id, view)
    <2>1. CASE got'[p] = got[p]
      BY <1>1, <2>1 DEF Shown
    <2>2. CASE got'[p] # got[p]
      <3>1. StepOf(p)
        BY <2>2, OtherSteps, StepIsOwn
      <3>2. CASE GetCached(p)
        <4>1. req[p].id \in UserIDs
          BY <3>2, InputFields, SMTT(40) DEF GetCached, Stages, StageOf
        <4> QED
          BY <1>1, <2>2, <3>2, <4>1 DEF GetCached, Shown, Frames
      <3>3. CASE StoreUser(p)
        <4>1. CopyOf(log, req[p].id, copy[p]) /\ copy[p].row # None
          BY <3>3 DEF StoreUser, Stages, StageOf
        <4>2. view = Public(copy[p].row)
          BY <1>1, <3>3 DEF StoreUser, Frames
        <4> QED
          BY <4>1, <4>2, ZenonT(60) DEF CopyOf, Committed
      <3>4. CASE Admitted(p) \/ Looked(p)
        BY <2>2, <3>4
        DEF Admitted, AdmitCreate, AdmitGet, AdmitUpdate, AdmitDelete, AdmitSetPassword,
            AdmitChangePassword, Admit, Looked, FindForUpdate, FindForSet, FindForChange, Find
      <3>5. CASE \/ InsertUser(p) \/ JoinFlight(p) \/ ReadUser(p) \/ Deliver(p) \/ WriteUser(p)
                 \/ DeleteUser(p) \/ InvalidateUpdated(p) \/ InvalidateDeleted(p)
                 \/ WritePassword(p) \/ Login(p) \/ Refresh(p) \/ Fail(p)
        BY <2>2, <3>5
        DEF InsertUser, JoinFlight, ReadUser, Deliver, WriteUser, DeleteUser, InvalidateUpdated,
            InvalidateDeleted, Invalidate, WritePassword, Login, Refresh, Fail
      <3> QED
        BY <3>1, <3>2, <3>3, <3>4, <3>5, StepCases
    <2> QED
      BY <2>1, <2>2
  <1>2. \/ cache' = cache
        \/ \E u \in UserIDs : cache' = [cache EXCEPT ![u] = None]
        \/ \E p \in Requests : StoreUser(p)
    <2>1. ASSUME NEW p \in Requests, StepOf(p), ~StoreUser(p)
          PROVE  cache' = cache \/ \E u \in UserIDs : cache' = [cache EXCEPT ![u] = None]
      <3>1. CASE InvalidateUpdated(p) \/ InvalidateDeleted(p)
        <4>1. req[p].id \in UserIDs
          BY <3>1, InputFields DEF InvalidateUpdated, InvalidateDeleted, Invalidate
        <4> QED
          BY <3>1, <4>1 DEF InvalidateUpdated, InvalidateDeleted, Invalidate
      <3>2. CASE Admitted(p) \/ Looked(p)
        BY <3>2
        DEF Admitted, AdmitCreate, AdmitGet, AdmitUpdate, AdmitDelete, AdmitSetPassword,
            AdmitChangePassword, Admit, Looked, FindForUpdate, FindForSet, FindForChange, Find
      <3>3. CASE \/ InsertUser(p) \/ GetCached(p) \/ JoinFlight(p) \/ ReadUser(p) \/ Deliver(p)
                 \/ WriteUser(p) \/ DeleteUser(p) \/ WritePassword(p) \/ Login(p) \/ Refresh(p)
                 \/ Fail(p)
        BY <3>3
        DEF InsertUser, GetCached, JoinFlight, ReadUser, Deliver, WriteUser, DeleteUser,
            WritePassword, Login, Refresh, Fail
      <3> QED
        BY <2>1, <3>1, <3>2, <3>3, StepCases
    <2>2. ASSUME (\E t \in tokens : ExpireToken(t)) \/ Replicate \/ Quiescent \/ UNCHANGED vars
          PROVE  cache' = cache
      BY <2>2 DEF ExpireToken, Replicate, Quiescent, vars
    <2>3. ASSUME NEW u \in UserIDs, ExpireEntry(u) PROVE cache' = [cache EXCEPT ![u] = None]
      BY <2>3 DEF ExpireEntry
    <2>4. \/ \E p \in Requests : StepOf(p)
          \/ \E t \in tokens : ExpireToken(t)
          \/ \E u \in UserIDs : ExpireEntry(u)
          \/ Replicate \/ Quiescent \/ UNCHANGED vars
      BY Zenon DEF Next, StepOf
    <2> QED
      BY <2>1, <2>2, <2>3, <2>4
  <1>3. ASSUME NEW u \in UserIDs, NEW view, cache'[u] = view, view # None
        PROVE  Committed(log, u, view)
    <2>0. u \in DOMAIN cache
      BY DEF Frames
    <2>1. CASE cache'[u] = cache[u]
      BY <1>3, <2>1 DEF Shown
    <2>2. ASSUME NEW p \in Requests, StoreUser(p), cache'[u] # cache[u]
          PROVE  Committed(log, u, view)
      <3>1. CopyOf(log, req[p].id, copy[p]) /\ copy[p].row # None
        BY <2>2 DEF StoreUser, Stages, StageOf
      <3>2. req[p].id = u /\ view = Public(copy[p].row)
        BY <1>3, <2>0, <2>2 DEF StoreUser
      <3> QED
        BY <3>1, <3>2 DEF CopyOf, Committed
    <2>3. ASSUME NEW v \in UserIDs, cache' = [cache EXCEPT ![v] = None]
          PROVE  cache'[u] = cache[u]
      BY <1>3, <2>0, <2>3
    <2> QED
      BY <1>2, <2>1, <2>2, <2>3
  <1>4. ASSUME NEW p \in Requests, got'[p] # None PROVE Committed(log', req'[p].id, got'[p])
    BY <1>0, <1>1, <1>4
  <1>5. ASSUME NEW u \in UserIDs, cache'[u] # None PROVE Committed(log', u, cache'[u])
    BY <1>0, <1>3, <1>5
  <1> QED
    BY <1>4, <1>5 DEF Shown, Committed

-----------------------------------------------------------------------------
(***************************************************************************)
(* The theorems.                                                           *)
(***************************************************************************)

\* The invariant of every behaviour.
IInv ==
  /\ History(log)
  /\ Frames
  /\ Stages
  /\ WritersDone
  /\ LastWritten
  /\ Changes
  /\ Shown

\* It holds initially.
LEMMA InitIInv == Init => IInv
  <1> SUFFICES ASSUME Init PROVE IInv
    OBVIOUS
  <1> DEFINE seed == [u \in UserIDs |-> IF u \in DOMAIN SeedUsers THEN SeedUsers[u] ELSE None]
             first == [users |-> seed, by |-> None]
  <1>1. seed \in [UserIDs -> User \cup {None}] /\ UniqueEmails(seed)
    BY SeedsAssumption DEF UserIDs, UniqueEmails
  <1>2. first \in Version /\ first.users = seed
    BY <1>1 DEF Version
  <1>3. \A p \in Requests : seed[p] = None
    BY NamedApartAssumption DEF UserIDs
  <1>4. log = <<first>>
    BY DEF Init
  <1> HIDE DEF seed, first
  <1>5. /\ log \in Seq(Version) /\ Len(log) = 1 /\ log[1] = first
    BY <1>2, <1>4
  <1>6. History(log)
    BY <1>1, <1>2, <1>5 DEF History
  <1>7. Frames
    BY <1>5, WorkloadsAssumption DEF Init, Frames, PCs
  <1>8. Stages
    <2>1. \A p \in Requests : Users[p] = None
      BY <1>2, <1>3, <1>5 DEF Users
    <2> QED
      BY <2>1 DEF Init, Stages, StageOf
  <1>9. WritersDone /\ Changes /\ LastWritten
    BY <1>5 DEF WritersDone, Changes, LastWritten, Users
  <1>10. Shown
    BY DEF Init, Shown
  <1> QED
    BY <1>6, <1>7, <1>8, <1>9, <1>10 DEF IInv

\* Every step keeps it.
LEMMA NextIInv == IInv /\ [Next]_vars => IInv'
  <1> SUFFICES ASSUME IInv, [Next]_vars PROVE IInv'
    OBVIOUS
  <1>1. History(log)'
    BY NextHistory DEF IInv, History
  <1>2. Frames' /\ Stages'
    BY NextFrames, NextStages DEF IInv
  <1>3. WritersDone' /\ LastWritten' /\ Changes' /\ Shown'
    BY NextWritersDone, NextLastWritten, NextChanges, NextShown DEF IInv
  <1> QED
    BY <1>1, <1>2, <1>3 DEF IInv

\* Hence it is an invariant.
LEMMA Invariant == Spec => []IInv
  BY InitIInv, NextIInv, PTL DEF Spec

\* Rows, entries and tokens are of their types, and no two users ever have one
\* email, although no request looks at another before it writes
\* (migration 20240101002).
THEOREM TypeCorrect == Spec => []TypeOK
  <1>1. IInv => TypeOK
    <2> SUFFICES ASSUME IInv PROVE TypeOK
      OBVIOUS
    <2>1. DOMAIN log = 1 .. Len(log)
      BY DEF IInv, History
    <2>2. ASSUME NEW i \in DOMAIN log
          PROVE  /\ log[i].users \in [UserIDs -> User \cup {None}]
                 /\ log[i].by \in Requests \cup {None}
                 /\ UniqueEmails(log[i].users)
      BY <2>1, <2>2 DEF IInv, History, Version
    <2> QED
      BY <2>2 DEF TypeOK, UniqueEmails, IInv, Frames
  <1> QED
    BY <1>1, Invariant, PTL

\* A password is replaced only for a request that was made for it, while the user
\* is active, and is the one that request had found and checked unless another was
\* committed after the version it read (set_password.go:66, change_password.go:66,
\* repository/user.go:297-304).
THEOREM PasswordsLostByRaces == Spec => []PasswordLostOnlyByRace
  <1>1. IInv => PasswordLostOnlyByRace
    BY SMTT(40) DEF IInv, Changes, WarrantedAt, Warrant, PasswordLostOnlyByRace
  <1> QED
    BY <1>1, Invariant, PTL

\* Only an update that had read the user before the deletion brings it back
\* (user.go:250-256).
THEOREM RevivedByRaces == Spec => []RevivedOnlyByRace
  <1>1. IInv => RevivedOnlyByRace
    BY DEF IInv, Changes, RacedAt, RevivedOnlyByRace
  <1> QED
    BY <1>1, Invariant, PTL

\* Gets answer, and the cache keeps, what one committed version says of the user
\* that was asked for, whoever in a flight has read it (get.go:79-107).
THEOREM GetsCommitted == Spec => []GetWasCommitted
  <1>1. IInv => GetWasCommitted
    <2>1. IInv => DOMAIN log = 1 .. Len(log)
      BY DEF IInv, History
    <2> QED
      BY <2>1 DEF IInv, Shown, Committed, GetWasCommitted
  <1> QED
    BY <1>1, Invariant, PTL

\* Every new token goes back to the credentials of a user who was active in the
\* version the replica had reached, or later, or to a live refresh token of the
\* same user (login.go:103-122, refresh.go:40-51).
THEOREM SessionsRooted == Spec => SessionRooted
  <1> DEFINE Rooted ==
        \A t \in tokens' \ tokens :
          \/ /\ req[t.by].op = "login"
             /\ \E i \in applied .. Len(log) :
                  LET row == log[i].users[t.user]
                  IN  /\ row # None
                      /\ row.active
                      /\ row.email = req[t.by].email
                      /\ row.password = req[t.by].password
          \/ /\ req[t.by].op = "refresh"
             /\ \E s \in tokens : s.user = t.user /\ s.type = "refresh"
  <1>1. IInv /\ [Next]_vars => [Rooted]_vars
    <2> SUFFICES ASSUME IInv, Next PROVE Rooted
      BY DEF vars
    <2>1. ASSUME NEW p \in Requests, Login(p) PROVE Rooted
      <3>1. CASE tokens' = tokens
        BY <3>1
      <3>2. ASSUME NEW u \in UserIDs, Accepts(log[Reader].users[u], req[p]), Issue(p, u)
            PROVE  Rooted
        <4>1. \A t \in tokens' \ tokens : t.by = p /\ t.user = u
          BY <3>2 DEF Issue
        <4>2. Reader \in applied .. Len(log) /\ req[p].op = "login"
          BY <2>1, CurrentVersions DEF IInv, Frames, History, Login
        <4>3. LET row == log[Reader].users[u]
              IN  /\ row # None /\ row.active /\ row.email = req[p].email
                  /\ row.password = req[p].password
          BY <3>2 DEF Accepts, Matches
        <4> QED
          BY <4>1, <4>2, <4>3
      <3> QED
        BY <2>1, <3>1, <3>2 DEF Login
    <2>2. ASSUME NEW p \in Requests, Refresh(p) PROVE Rooted
      <3>1. CASE tokens' = tokens
        BY <3>1
      <3>2. ASSUME NEW s \in tokens, s.type = "refresh", Issue(p, s.user) PROVE Rooted
        <4>1. \A t \in tokens' \ tokens : t.by = p /\ t.user = s.user
          BY <3>2 DEF Issue
        <4> QED
          BY <2>2, <3>2, <4>1 DEF Refresh
      <3> QED
        BY <2>2, <3>1, <3>2 DEF Refresh
    <2>3. ASSUME NEW p \in Requests, StepOf(p), ~Login(p), ~Refresh(p) PROVE tokens' = tokens
      <3>1. CASE Admitted(p) \/ Looked(p)
        BY <3>1
        DEF Admitted, AdmitCreate, AdmitGet, AdmitUpdate, AdmitDelete, AdmitSetPassword,
            AdmitChangePassword, Admit, Looked, FindForUpdate, FindForSet, FindForChange, Find
      <3>2. CASE ~(Admitted(p) \/ Looked(p))
        BY <2>3, <3>2, StepCases
        DEF InsertUser, GetCached, JoinFlight, ReadUser, Deliver, StoreUser, WriteUser,
            DeleteUser, InvalidateUpdated, InvalidateDeleted, Invalidate, WritePassword, Fail
      <3> QED
        BY <3>1, <3>2
    <2>4. ASSUME \/ \E t \in tokens : ExpireToken(t)
                 \/ \E u \in UserIDs : ExpireEntry(u)
                 \/ Replicate \/ Quiescent
          PROVE  tokens' \subseteq tokens
      BY <2>4 DEF ExpireToken, ExpireEntry, Replicate, Quiescent, vars
    <2>5. \/ \E p \in Requests : StepOf(p)
          \/ \E t \in tokens : ExpireToken(t)
          \/ \E u \in UserIDs : ExpireEntry(u)
          \/ Replicate \/ Quiescent
      BY Zenon DEF Next, StepOf
    <2> QED
      BY <2>1, <2>2, <2>3, <2>4, <2>5
  <1> QED
    BY <1>1, Invariant, PTL DEF Spec, SessionRooted

===============================================================================
