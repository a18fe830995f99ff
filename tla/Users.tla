--------------------------------- MODULE Users ---------------------------------
(***************************************************************************)
(* Users, their cache, their passwords and their sessions: /users, POST    *)
(* and PUT /users/password, /auth/login and /auth/refresh.                 *)
(*                                                                         *)
(* Every use case reads the user on the READER and writes on the WRITER in *)
(* a statement of its own.  A read of a user goes through a cache entry    *)
(* with a TTL and, on a miss, through a singleflight group, in which one   *)
(* request reads the row and the ones that come meanwhile share what it    *)
(* gets.  Tokens are signed and kept by clients; only their TTL ends them. *)
(***************************************************************************)
EXTENDS Naturals, Sequences, FiniteSets

CONSTANTS
  Requests,      \* the requests of one behaviour; each is served once
  Names,         \* users.name
  Emails,        \* addresses NewEmail accepts
  BadEmail,      \* one it rejects
  Passwords,     \* passwords ValidatePasswordStrength accepts; a hash stands
                 \* for the password it was made from
  WeakPassword,  \* one it rejects
  Trusted,       \* an admin, or a caller with a service key
  None,          \* no row, no password, no cache entry, a field left out
  SeedUsers,     \* SeedUsers[u]: the users that exist initially
  HasReplica,    \* is a reader DSN configured
  Workloads      \* the inputs the requests of a behaviour may have

\* What a request creates gets the request's own UUID.
UserIDs == Requests \cup DOMAIN SeedUsers

User == [name : Names, email : Emails, password : Passwords \cup {None}, active : BOOLEAN]

Token == [user : UserIDs, type : {"access", "refresh"}, by : Requests]

\* The bodies and paths of the requests, and who sends them.
CreateInput  == [op : {"create"}, name : Names, email : Emails \cup {BadEmail}]
GetInput     == [op : {"get"}, id : UserIDs, caller : UserIDs \cup {Trusted}]
DeleteInput  == [op : {"delete"}, id : UserIDs, caller : UserIDs \cup {Trusted}]
UpdateInput  == [op : {"update"}, id : UserIDs, caller : UserIDs \cup {Trusted},
                 name : Names \cup {None}, email : Emails \cup {BadEmail, None}]
SetPasswordInput    == [op : {"setPassword"}, id : UserIDs,
                        new : Passwords \cup {WeakPassword}, confirmed : BOOLEAN]
ChangePasswordInput == [op : {"changePassword"}, id : UserIDs, current : Passwords,
                        new : Passwords \cup {WeakPassword}, confirmed : BOOLEAN]
LoginInput   == [op : {"login"}, email : Emails \cup {BadEmail}, password : Passwords]
RefreshInput == [op : {"refresh"}]

Input == CreateInput \cup GetInput \cup DeleteInput \cup UpdateInput
           \cup SetPasswordInput \cup ChangePasswordInput \cup LoginInput \cup RefreshInput

PasswordOps == {"setPassword", "changePassword"}

ASSUME NamedApartAssumption ==
  /\ None \notin UserIDs \cup Names \cup Emails \cup Passwords \cup User
  /\ Trusted \notin UserIDs /\ BadEmail \notin Emails /\ WeakPassword \notin Passwords
  /\ (DOMAIN SeedUsers) \cap Requests = {}
ASSUME SeedsAssumption ==
  /\ SeedUsers \in [DOMAIN SeedUsers -> User]
  /\ \A u, v \in DOMAIN SeedUsers : SeedUsers[u].email = SeedUsers[v].email => u = v
ASSUME HasReplicaAssumption == HasReplica \in BOOLEAN
ASSUME WorkloadsAssumption == Workloads \subseteq [Requests -> Input]

VARIABLES
  log,      \* the committed versions of the table, and the request behind each
  applied,  \* the version the replica has reached
  cache,    \* Redis: the public part of a user, or None
  tokens,   \* the tokens that have been issued and not expired
  pc,       \* the next step of each request
  req,      \* the input of each request
  copy,     \* the row a request has read and the version it read it from
  awaits,   \* the request whose read a get shares
  got,      \* the user a get was answered with
  result    \* the answer of each request

vars == <<log, applied, cache, tokens, pc, req, copy, awaits, got, result>>

Users == log[Len(log)].users

Reader == IF HasReplica THEN applied ELSE Len(log)

\* What dto.GetOutput shows of a user, and the cache keeps.
Public(row) == [name |-> row.name, email |-> row.email, active |-> row.active]

\* Faulty: the email of a deleted user is free again.
EmailTakenByActive(email, id) ==
  \E u \in UserIDs \ {id} : Users[u] # None /\ Users[u].active /\ Users[u].email = email

\* users.email is UNIQUE, whether the user is active or not.
EmailTaken(email, id) ==
  \E u \in UserIDs \ {id} : Users[u] # None /\ Users[u].email = email
\* NewEmail, and the email rule of the JSON binding before it.
ValidEmail(email) == email # BadEmail

\* ValidatePasswordStrength, the first thing NewPassword does.
Strong(password) == password # WeakPassword

\* CheckPassword: a hash that is missing or malformed matches nothing.
Matches(hash, password) == hash # None /\ hash = password

\* entity.NewUser.
NewUser(name, email) == [name |-> name, email |-> email, password |-> None, active |-> TRUE]
-----------------------------------------------------------------------------
Init ==
  /\ log     = <<[users |-> [u \in UserIDs |->
                               IF u \in DOMAIN SeedUsers THEN SeedUsers[u] ELSE None],
                  by |-> None]>>
  /\ applied = 1
  /\ cache   = [u \in UserIDs |-> None]
  /\ tokens  = {}
  /\ pc      = [p \in Requests |-> "idle"]
  /\ req     \in Workloads
  /\ copy    = [p \in Requests |-> None]
  /\ awaits  = [p \in Requests |-> None]
  /\ got     = [p \in Requests |-> None]
  /\ result  = [p \in Requests |-> "none"]

Goto(p, step) == pc' = [pc EXCEPT ![p] = step] /\ UNCHANGED result

Reply(p, answer) ==
  /\ pc' = [pc EXCEPT ![p] = "done"]
  /\ result' = [result EXCEPT ![p] = answer]

Commit(p, u, row) ==
  log' = Append(log, [users |-> [Users EXCEPT ![u] = row], by |-> p])

\* The writer has executed the statement; either the request goes on, or the
\* answer of the database was lost and it fails.
Executed(p, step) == Goto(p, step) \/ Reply(p, "ErrInternal")
-----------------------------------------------------------------------------
(***************************************************************************)
(* The handlers, up to the first call of a use case that reads or writes.  *)
(***************************************************************************)

\* Request p, for operation op, is answered at once or goes on to a step.
Admit(p, op, refusal, step) ==
  /\ pc[p] = "idle"
  /\ req[p].op = op
  /\ IF refusal # "none" THEN Reply(p, refusal) ELSE Goto(p, step)
  /\ UNCHANGED <<log, applied, cache, tokens, req, copy, awaits, got>>

\* isAdminOrOwner.
Ownership(in) == IF in.caller \in {in.id, Trusted} THEN "none" ELSE "forbidden"

AdmitCreate(p) ==
  Admit(p, "create", IF ValidEmail(req[p].email) THEN "none" ELSE "badRequest", "insert")

AdmitGet(p) == Admit(p, "get", Ownership(req[p]), "cache")

AdmitUpdate(p) ==
  Admit(p, "update",
        IF Ownership(req[p]) = "none" /\ ~ValidEmail(req[p].email)
        THEN "badRequest" ELSE Ownership(req[p]),
        "find")

AdmitDelete(p) == Admit(p, "delete", Ownership(req[p]), "delete")

\* The service key route names the user in the body,
AdmitSetPassword(p) == Admit(p, "setPassword", "none", "find")

\* the other takes it from the token.
AdmitChangePassword(p) == Admit(p, "changePassword", "none", "find")
-----------------------------------------------------------------------------
(***************************************************************************)
(* CreateUseCase.                                                          *)
(***************************************************************************)

\* UserRepository.Create; a unique violation is not translated.
InsertUser(p) ==
  /\ pc[p] = "insert"
  /\ \/ /\ EmailTaken(req[p].email, p)
        /\ Reply(p, "ErrInternal")
        /\ UNCHANGED log
     \/ /\ ~EmailTaken(req[p].email, p)
        /\ Commit(p, p, NewUser(req[p].name, req[p].email))
        /\ \E answer \in {"ok", "ErrInternal"} : Reply(p, answer)
  /\ UNCHANGED <<applied, cache, tokens, req, copy, awaits, got>>
-----------------------------------------------------------------------------
(***************************************************************************)
(* GetUseCase: cache, singleflight, reader, cache.                         *)
(***************************************************************************)

\* A hit is the answer; a miss and a failing cache go on to the database.
GetCached(p) ==
  LET entry == cache[req[p].id]
  IN  /\ pc[p] = "cache"
      /\ \/ /\ entry # None
            /\ got' = [got EXCEPT ![p] = entry]
            /\ Reply(p, "ok")
         \/ /\ Goto(p, "flight")
            /\ UNCHANGED got
      /\ UNCHANGED <<log, applied, cache, tokens, req, copy, awaits>>

\* The request that is reading user u for the others.
Leaders(u) == {q \in Requests : pc[q] \in {"read", "deliver"} /\ req[q].id = u}

\* Faulty: the flight has the same key for every user.
JoinAnyFlight(p) ==
  LET leaders == UNION {Leaders(u) : u \in UserIDs}
  IN  /\ pc[p] = "flight"
      /\ IF leaders = {}
         THEN Goto(p, "read") /\ UNCHANGED awaits
         ELSE /\ \E q \in leaders : awaits' = [awaits EXCEPT ![p] = q]
              /\ Goto(p, "wait")
      /\ UNCHANGED <<log, applied, cache, tokens, req, copy, got>>

\* FlightGroup.Do, keyed by the id of the user.
JoinFlight(p) ==
  /\ pc[p] = "flight"
  /\ \/ /\ Leaders(req[p].id) = {}
        /\ Goto(p, "read")
        /\ UNCHANGED awaits
     \/ /\ \E q \in Leaders(req[p].id) : awaits' = [awaits EXCEPT ![p] = q]
        /\ Goto(p, "wait")
  /\ UNCHANGED <<log, applied, cache, tokens, req, copy, got>>

\* FindByID on the reader.
ReadUser(p) ==
  /\ pc[p] = "read"
  /\ copy' = [copy EXCEPT ![p] = [row |-> log[Reader].users[req[p].id], at |-> Reader]]
  /\ Goto(p, "deliver")
  /\ UNCHANGED <<log, applied, cache, tokens, req, awaits, got>>

\* The requests that get what p got from the flight.
Sharing(p) == {p} \cup {q \in Requests : pc[q] = "wait" /\ awaits[q] = p}

ReplyAll(ps, answer) ==
  /\ pc' = [q \in Requests |-> IF q \in ps THEN "done" ELSE pc[q]]
  /\ result' = [q \in Requests |-> IF q \in ps THEN answer ELSE result[q]]

\* The flight ends: everybody in it has the row, or its absence.
Deliver(p) ==
  LET row == copy[p].row
  IN  /\ pc[p] = "deliver"
      /\ \/ /\ row = None
            /\ ReplyAll(Sharing(p), "ErrUserNotFound")
            /\ UNCHANGED copy
         \/ /\ row # None
            /\ pc' = [q \in Requests |-> IF q \in Sharing(p) THEN "store" ELSE pc[q]]
            /\ copy' = [q \in Requests |-> IF q \in Sharing(p) THEN copy[p] ELSE copy[q]]
            /\ UNCHANGED result
      /\ UNCHANGED <<log, applied, cache, tokens, req, awaits, got>>

\* Cache.Set, by everybody who was in the flight; an error is only logged.
StoreUser(p) ==
  LET value == Public(copy[p].row)
  IN  /\ pc[p] = "store"
      /\ \/ cache' = [cache EXCEPT ![req[p].id] = value]
         \/ UNCHANGED cache
      /\ got' = [got EXCEPT ![p] = value]
      /\ Reply(p, "ok")
      /\ UNCHANGED <<log, applied, tokens, req, copy, awaits>>
-----------------------------------------------------------------------------
(***************************************************************************)
(* UpdateUseCase, DeleteUseCase, SetPasswordUseCase, ChangePasswordUseCase.*)
(***************************************************************************)

\* FindByID on the reader, inactive users included.
Found(p) == log[Reader].users[req[p].id]

\* What the use case finds wrong with the row is its answer.
Find(p, op, refusal, step) ==
  LET answer == IF Found(p) = None THEN "ErrUserNotFound" ELSE refusal
  IN  /\ pc[p] = "find"
      /\ req[p].op = op
      /\ IF answer # "none"
         THEN Reply(p, answer) /\ UNCHANGED copy
         ELSE /\ copy' = [copy EXCEPT ![p] = [row |-> Found(p), at |-> Reader]]
              /\ Goto(p, step)
      /\ UNCHANGED <<log, applied, cache, tokens, req, awaits, got>>

FindForUpdate(p) == Find(p, "update", "none", "write")

\* What both use cases ask of the new password, in the order they do.
NewPasswordRefusal(in) ==
  CASE ~in.confirmed -> "ErrPasswordMismatch"
    [] in.confirmed /\ ~Strong(in.new) -> "ErrInvalidPassword"
    [] OTHER -> "none"

\* Faulty: whether there is a password already is not looked at.
FindForSetUnchecked(p) ==
  Find(p, "setPassword", NewPasswordRefusal(req[p]), "password")

FindForSet(p) ==
  Find(p, "setPassword",
       IF Found(p).password # None THEN "ErrPasswordAlreadySet"
       ELSE NewPasswordRefusal(req[p]),
       "password")

FindForChange(p) ==
  Find(p, "changePassword",
       IF ~Matches(Found(p).password, req[p].current) THEN "ErrInvalidCredentials"
       ELSE NewPasswordRefusal(req[p]),
       "password")

\* Faulty: the UPDATE writes the whole copy back, its password included.
UpdatedWhole(p) ==
  LET in == req[p]
      old == copy[p].row
  IN  [old EXCEPT !.name = IF in.name = None THEN @ ELSE in.name,
                  !.email = IF in.email = None THEN @ ELSE in.email]

\* Faulty: an updated user is active.
UpdatedActive(p) ==
  LET in == req[p]
      old == copy[p].row
  IN  [Users[in.id] EXCEPT
         !.name   = IF in.name = None THEN old.name ELSE in.name,
         !.email  = IF in.email = None THEN old.email ELSE in.email,
         !.active = TRUE]

\* The row after the UPDATE: name, email and active of the copy with the
\* changes asked for; the password of the row that is there.
Updated(p) ==
  LET in == req[p]
      old == copy[p].row
  IN  [Users[in.id] EXCEPT
         !.name   = IF in.name = None THEN old.name ELSE in.name,
         !.email  = IF in.email = None THEN old.email ELSE in.email,
         !.active = old.active]

\* UserRepository.Update: WHERE id, whatever has become of the row.
WriteUser(p) ==
  LET row == Updated(p)
  IN  /\ pc[p] = "write"
      /\ \/ /\ EmailTaken(row.email, req[p].id)
            /\ Reply(p, "ErrInternal")
            /\ UNCHANGED log
         \/ /\ ~EmailTaken(row.email, req[p].id)
            /\ Commit(p, req[p].id, row)
            /\ Executed(p, "invalidate")
      /\ UNCHANGED <<applied, cache, tokens, req, copy, awaits, got>>

\* UserRepository.Delete: WHERE id AND active.
DeleteUser(p) ==
  LET u == req[p].id
      found == Users[u] # None /\ Users[u].active
  IN  /\ pc[p] = "delete"
      /\ \/ /\ ~found
            /\ Reply(p, "ErrUserNotFound")
            /\ UNCHANGED log
         \/ /\ found
            /\ Commit(p, u, [Users[u] EXCEPT !.active = FALSE])
            /\ Executed(p, "invalidate")
      /\ UNCHANGED <<applied, cache, tokens, req, copy, awaits, got>>

\* Cache.Delete; an error is only logged.
Invalidate(p, op) ==
  /\ pc[p] = "invalidate"
  /\ req[p].op = op
  /\ \/ cache' = [cache EXCEPT ![req[p].id] = None]
     \/ UNCHANGED cache
  /\ Reply(p, "ok")
  /\ UNCHANGED <<log, applied, tokens, req, copy, awaits, got>>

InvalidateUpdated(p) == Invalidate(p, "update")
InvalidateDeleted(p) == Invalidate(p, "delete")

\* Faulty: WHERE id only.
WritePasswordAnyway(p) ==
  LET u == req[p].id
  IN  /\ pc[p] = "password"
      /\ Commit(p, u, [Users[u] EXCEPT !.password = req[p].new])
      /\ \E answer \in {"ok", "ErrInternal"} : Reply(p, answer)
      /\ UNCHANGED <<applied, cache, tokens, req, copy, awaits, got>>

\* UserRepository.UpdatePassword: WHERE id AND active, whatever the password.
WritePassword(p) ==
  LET u == req[p].id
  IN  /\ pc[p] = "password"
      /\ \/ /\ ~Users[u].active
            /\ Reply(p, "ErrUserNotFound")
            /\ UNCHANGED log
         \/ /\ Users[u].active
            /\ Commit(p, u, [Users[u] EXCEPT !.password = req[p].new])
            /\ \E answer \in {"ok", "ErrInternal"} : Reply(p, answer)
      /\ UNCHANGED <<applied, cache, tokens, req, copy, awaits, got>>
-----------------------------------------------------------------------------
(***************************************************************************)
(* LoginUseCase, RefreshUseCase and the TTL of tokens.                     *)
(***************************************************************************)

Issue(p, u) ==
  tokens' = tokens \cup [user : {u}, type : {"access", "refresh"}, by : {p}]

\* Faulty: inactive users may log in.
AcceptsInactive(row, in) ==
  row # None /\ row.email = in.email /\ Matches(row.password, in.password)

\* The row a login is for: its email, active, with that password.
Accepts(row, in) ==
  /\ row # None
  /\ row.email = in.email
  /\ row.active
  /\ Matches(row.password, in.password)

\* Every refusal is ErrInvalidCredentials, a failing database included.
Login(p) ==
  /\ pc[p] = "idle"
  /\ req[p].op = "login"
  /\ \/ /\ Reply(p, "ErrInvalidCredentials")
        /\ UNCHANGED tokens
     \/ \E u \in UserIDs :
          /\ Accepts(log[Reader].users[u], req[p])
          /\ Issue(p, u)
          /\ Reply(p, "ok")
  /\ UNCHANGED <<log, applied, cache, req, copy, awaits, got>>

\* Faulty: the type of the token is not looked at.
RefreshWithAny(p) ==
  /\ pc[p] = "idle"
  /\ req[p].op = "refresh"
  /\ \/ Reply(p, "ErrInvalidCredentials") /\ UNCHANGED tokens
     \/ \E t \in tokens : Issue(p, t.user) /\ Reply(p, "ok")
  /\ UNCHANGED <<log, applied, cache, req, copy, awaits, got>>

\* A live refresh token buys a new pair, whatever has become of its user; an
\* expired or forged one and an access token do not.
Refresh(p) ==
  /\ pc[p] = "idle"
  /\ req[p].op = "refresh"
  /\ \/ /\ Reply(p, "ErrInvalidCredentials")
        /\ UNCHANGED tokens
     \/ \E t \in tokens :
          /\ t.type = "refresh"
          /\ Issue(p, t.user)
          /\ Reply(p, "ok")
  /\ UNCHANGED <<log, applied, cache, req, copy, awaits, got>>

ExpireToken(t) ==
  /\ tokens' = tokens \ {t}
  /\ UNCHANGED <<log, applied, cache, pc, req, copy, awaits, got, result>>
-----------------------------------------------------------------------------
\* Faulty: the requests that share the read of one that fails are forgotten.
FailAlone(p) ==
  /\ pc[p] \notin {"idle", "wait", "done"}
  /\ Reply(p, "ErrInternal")
  /\ UNCHANGED <<log, applied, cache, tokens, req, copy, awaits, got>>

\* A database call fails, the client leaves or the process dies.  The read of
\* a flight is made with the context of the request that leads it, so that
\* those who share it fail with it; they themselves wait on without a context.
Fail(p) ==
  /\ pc[p] \notin {"idle", "wait", "done"}
  /\ ReplyAll(Sharing(p), "ErrInternal")
  /\ UNCHANGED <<log, applied, cache, tokens, req, copy, awaits, got>>

Replicate ==
  /\ HasReplica
  /\ applied < Len(log)
  /\ applied' = applied + 1
  /\ UNCHANGED <<log, cache, tokens, pc, req, copy, awaits, got, result>>

\* Faulty: entries are stored without a TTL.
NeverExpire(u) == cache[u] # None /\ UNCHANGED vars

ExpireEntry(u) ==
  /\ cache[u] # None
  /\ cache' = [cache EXCEPT ![u] = None]
  /\ UNCHANGED <<log, applied, tokens, pc, req, copy, awaits, got, result>>

\* Nothing runs any more: every request is answered, or waits for another
\* (FlightEnds says that none of these is left).
Quiescent ==
  /\ \A p \in Requests : pc[p] \in {"wait", "done"}
  /\ UNCHANGED vars

Step(p) ==
  \/ AdmitCreate(p) \/ AdmitGet(p) \/ AdmitUpdate(p) \/ AdmitDelete(p)
  \/ AdmitSetPassword(p) \/ AdmitChangePassword(p) \/ InsertUser(p)
  \/ GetCached(p) \/ JoinFlight(p) \/ ReadUser(p) \/ Deliver(p) \/ StoreUser(p)
  \/ FindForUpdate(p) \/ FindForSet(p) \/ FindForChange(p)
  \/ WriteUser(p) \/ DeleteUser(p) \/ InvalidateUpdated(p) \/ InvalidateDeleted(p)
  \/ WritePassword(p)
  \/ Login(p) \/ Refresh(p)

Next ==
  \/ \E p \in Requests : Step(p) \/ Fail(p)
  \/ \E t \in tokens : ExpireToken(t)
  \/ \E u \in UserIDs : ExpireEntry(u)
  \/ Replicate
  \/ Quiescent

\* Requests that have come go on, Redis ends a TTL, the replica catches up.
Fairness ==
  /\ \A p \in Requests : WF_vars(pc[p] # "idle" /\ Step(p))
  /\ \A u \in UserIDs : WF_vars(ExpireEntry(u))
  /\ WF_vars(Replicate)

Spec == Init /\ [][Next]_vars /\ Fairness
-----------------------------------------------------------------------------
(***************************************************************************)
(* Properties.                                                             *)
(***************************************************************************)

View == [name : Names, email : Emails, active : BOOLEAN]

\* Rows, cache entries and tokens are those the code builds, and no two users
\* have one email (migration 20240101002).
TypeOK ==
  /\ \A i \in DOMAIN log :
       /\ log[i].users \in [UserIDs -> User \cup {None}]
       /\ log[i].by \in Requests \cup {None}
       /\ \A u, v \in {w \in UserIDs : log[i].users[w] # None} :
            log[i].users[u].email = log[i].users[v].email => u = v
  /\ applied \in 1 .. Len(log)
  /\ cache \in [UserIDs -> View \cup {None}]
  /\ tokens \subseteq Token
  /\ copy \in [Requests -> [row : User \cup {None}, at : 1 .. Len(log)] \cup {None}]
  /\ awaits \in [Requests -> Requests \cup {None}]
  /\ got \in [Requests -> View \cup {None}]

Before(i, u) == log[i - 1].users[u]
After(i, u)  == log[i].users[u]

\* Version i replaced the password of a user who was there before.
Rewritten(i, u) == Before(i, u) # None /\ Before(i, u).password # After(i, u).password

\* Setting a password is meant for users who have none yet (set_password.go:37,
\* handler/password.go:34) and changing it for who knows the current one, but
\* UpdatePassword looks at neither (repository/user.go:297-304): a request that
\* was raced, or that checked a lagging replica, replaces a password that it has
\* not seen.  No other password is lost so: whatever overlaps, only a request made
\* for it replaces a password, while the user is active, and if it is not the one
\* the request had found and checked (set_password.go:66, change_password.go:66),
\* another was committed after the version it read.
PasswordLostOnlyByRace ==
  \A i \in 2 .. Len(log) : \A u \in UserIDs : Rewritten(i, u) =>
    LET p == log[i].by
        checked == IF req[p].op = "setPassword" THEN None ELSE req[p].current
    IN  /\ req[p].op \in PasswordOps
        /\ req[p].id = u
        /\ Before(i, u).active
        /\ log[copy[p].at].users[u].password = checked
        /\ Before(i, u).password # checked =>
             \E j \in copy[p].at + 1 .. i - 1 : Rewritten(j, u)

\* A deleted user comes back only by an update that had read it before the
\* deletion could be seen (user.go:250-256): an update that finds it deleted
\* leaves it deleted.
RevivedOnlyByRace ==
  \A i \in 2 .. Len(log) : \A u \in UserIDs :
    LET p == log[i].by
        revived == Before(i, u) # None /\ ~Before(i, u).active /\ After(i, u).active
    IN  revived =>
          /\ req[p].op = "update"
          /\ log[copy[p].at].users[u].active
          /\ \E j \in copy[p].at + 1 .. i - 1 : ~log[j].users[u].active

\* A get answers, and the cache keeps, only what one committed version says
\* of the user that was asked for, however reads are shared (get.go:79-107).
GetWasCommitted ==
  LET Committed(u, view) ==
        \E i \in DOMAIN log : log[i].users[u] # None /\ Public(log[i].users[u]) = view
  IN  /\ \A p \in Requests : got[p] # None => Committed(req[p].id, got[p])
      /\ \A u \in UserIDs : cache[u] # None => Committed(u, cache[u])

\* A token comes from a login with the credentials of a user who was active
\* when the replica last heard of it, or later, or from a refresh token of the
\* same user that has not expired: a session ends with its refresh tokens,
\* however many access tokens are left (login.go:103-122, refresh.go:40-51).
SessionRooted ==
  [][\A t \in tokens' \ tokens :
       \/ /\ req[t.by].op = "login"
          /\ \E i \in applied .. Len(log) :
               LET row == log[i].users[t.user]
               IN  /\ row # None
                   /\ row.active
                   /\ row.email = req[t.by].email
                   /\ row.password = req[t.by].password
       \/ /\ req[t.by].op = "refresh"
          /\ \E s \in tokens : s.user = t.user /\ s.type = "refresh"]_vars

\* Whatever fills and invalidations do to each other, the cached user ends as
\* none or as the user is (get.go:107-112, update.go:85-91).
CacheConverges ==
  \A u \in UserIDs :
    <>[](cache[u] # None => Users[u] # None /\ cache[u] = Public(Users[u]))

\* A get that waits for the read of another is answered, also when the other
\* fails (singleflight.go:27-30).
FlightEnds == \A p \in Requests : pc[p] = "wait" ~> pc[p] = "done"
===============================================================================
