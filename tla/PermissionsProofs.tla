--------------------------- MODULE PermissionsProofs ---------------------------
(***************************************************************************)
(* Roles and permissions, proved for any number of requests, users and     *)
(* roles, with or without a replica: the tables keep their constraints,    *)
(* nobody is allowed what was never granted, and what the requests are     *)
(* told of assigns and revokes adds up.                                    *)
(***************************************************************************)
EXTENDS Permissions, FiniteSetTheorems, SequenceTheorems, TLAPS

-----------------------------------------------------------------------------
(***************************************************************************)
(* The tables.                                                             *)
(***************************************************************************)

DB == [name : [RoleIDs -> Names \cup {None}], grants : SUBSET (Users \X RoleIDs)]

\* The foreign key of user_roles and the unique index on roles.name.
Sound(db) ==
  /\ \A g \in db.grants : Exists(db, g[2])
  /\ \A r, s \in RoleIDs : Exists(db, r) /\ db.name[r] = db.name[s] => r = s

\* The history is one of tables that keep their constraints.
History(lg) ==
  /\ lg \in Seq(DB)
  /\ Len(lg) \in Nat \ {0}
  /\ \A i \in 1 .. Len(lg) : lg[i] \in DB /\ Sound(lg[i])

\* The list was the one of user u in some state of the history.
Was(lg, k, u, list) == \E i \in 1 .. Len(lg) : list = Load(lg[i], k, u)

\* Every entry is a list its user has had.
CacheWas ==
  /\ DOMAIN cache = Kinds \X Users
  /\ \A k \in Kinds, u \in Users :
       cache[<<k, u>>] # None => Was(log, k, u, cache[<<k, u>>])

\* What a request is at, and what a check has loaded so far.
StageOf(p) ==
  LET in == req[p]
  IN  /\ pc[p] \in {"get", "load", "set"} => in.op = "check"
      /\ pc[p] = "find" => in.op \in {"assign", "revoke", "create"}
      /\ pc[p] \in {"invalidate_perms", "invalidate_roles"} => in.op \in {"assign", "revoke"}
      /\ pc[p] # "done" => result[p] = "none"
      /\ result[p] = "ok" => in.op # "check"
      /\ in.op \in {"assign", "revoke"} =>
           /\ result[p] = "ok" => p \in changed
           /\ p \in changed => result[p] \in {"none", "ok", "ErrInternal"}
      /\ p \in changed => pc[p] \in {"invalidate_perms", "invalidate_roles", "done"}
      /\ pc[p] \in {"invalidate_perms", "invalidate_roles"} => p \in changed
      /\ pc[p] = "set" => Was(log, kind[p], in.user, loaded[p][kind[p]])
      /\ kind[p] = "roles" =>
           /\ in.op = "check"
           /\ in.perm \in loaded[p]["perms"]
           /\ Was(log, "perms", in.user, loaded[p]["perms"])
      /\ result[p] = "allowed" =>
           kind[p] = "roles" /\ Was(log, "roles", in.user, loaded[p]["roles"])

Stages == \A p \in Requests : StageOf(p)

\* The variables of the requests.
Frames ==
  /\ changed \subseteq Requests
  /\ applied \in 1 .. Len(log)
  /\ pc \in [Requests -> PCs]
  /\ req \in [Requests -> Inputs]
  /\ kind \in [Requests -> Kinds]
  /\ loaded \in [Requests -> Lists]
  /\ result \in [Requests -> Answers]

\* What the fields of an input are, by operation.
LEMMA InputFields ==
  ASSUME Frames, NEW p \in Requests
  PROVE  /\ p \in RoleIDs
         /\ req[p].op = "check" => req[p].user \in Users /\ req[p].perm \in Perms
         /\ req[p].op \in {"assign", "revoke"} =>
              req[p].user \in Users /\ req[p].role \in RoleIDs
         /\ req[p].op = "delete" => req[p].role \in RoleIDs
         /\ req[p].op = "create" => req[p].name \in Names
         /\ req[p].op \in {"check", "assign", "revoke", "delete", "create"}
  <1>1. req[p] \in Input
    BY InputsAssumption DEF Frames
  <1> QED
    BY <1>1 DEF Input, RoleIDs

\* The lists of a user are a set of permissions and a set of role names.
LEMMA LoadType ==
  ASSUME NEW db \in DB, Sound(db), NEW u \in Users
  PROVE  /\ Load(db, "perms", u) \in SUBSET Perms
         /\ Load(db, "roles", u) \in SUBSET Names
  <1>1. UserPerms(db, u) \in SUBSET Perms
    <2>1. \A r \in Granted(db, u) \cap Seeded : PermsOf[r] \subseteq Perms
      BY SeedAssumption
    <2> QED
      BY <2>1 DEF UserPerms
  <1>2. \A r \in Granted(db, u) : db.name[r] \in Names
    BY DEF Granted, Sound, Exists, DB
  <1> QED
    BY <1>1, <1>2 DEF Load, UserRoles

\* So is a list that was one.
LEMMA WasType ==
  ASSUME History(log), NEW u \in Users, NEW k \in Kinds, NEW list, Was(log, k, u, list)
  PROVE  list \in IF k = "perms" THEN SUBSET Perms ELSE SUBSET Names
  BY LoadType DEF History, Was, Kinds

\* Writer and reader are states of the history.
LEMMA CurrentStates ==
  ASSUME History(log), Frames
  PROVE  /\ Writer \in DB /\ Sound(Writer)
         /\ Reader \in DB /\ Sound(Reader)
         /\ \A k, u : Was(log, k, u, Load(Reader, k, u))
  BY FlagsAssumption DEF History, Frames, Writer, Reader, Was

\* A state appended to the history is its last, and the others stay.
LEMMA AppendHistory ==
  ASSUME History(log), NEW db \in DB, Sound(db), Commit(db)
  PROVE  /\ History(log')
         /\ Len(log') = Len(log) + 1
         /\ log'[Len(log')] = db
         /\ \A i \in 1 .. Len(log) : log'[i] = log[i]
  <1>1. /\ log' \in Seq(DB) /\ Len(log') = Len(log) + 1
        /\ log'[Len(log')] = db
        /\ \A i \in 1 .. Len(log) : log'[i] = log[i]
    <2>1. log \in Seq(DB) /\ log' = Append(log, db)
      BY DEF History, Commit
    <2> QED
      BY <2>1, AppendProperties
  <1>2. \A i \in 1 .. Len(log') : log'[i] \in DB /\ Sound(log'[i])
    BY <1>1 DEF History
  <1> QED
    BY <1>1, <1>2 DEF History

-----------------------------------------------------------------------------
(***************************************************************************)
(* What a step may change.                                                 *)
(***************************************************************************)

StepOf(p) == Start(p) \/ Step(p)

\* The cases of a step of a request.
LEMMA StepCases ==
  ASSUME NEW p \in Requests, StepOf(p)
  PROVE  \/ Start(p) \/ GetCached(p) \/ LoadFromDB(p) \/ SetCached(p)
         \/ FindRole(p) \/ FindName(p) \/ Assign(p) \/ Revoke(p)
         \/ Invalidate(p) \/ Delete(p) \/ Create(p) \/ Fail(p)
  BY Zenon DEF StepOf, Step

\* What is written is a state that keeps the constraints, although nothing but
\* the statement itself looked at the writer.
LEMMA Writes ==
  ASSUME History(log), Frames, NEW p \in Requests, StepOf(p)
  PROVE  \/ log' = log
         \/ \E db \in DB : Sound(db) /\ Commit(db)
  <1>0. Writer \in DB /\ Sound(Writer)
    BY CurrentStates
  <1>1. CASE Assign(p) /\ log' # log
    <2>1. /\ req[p].user \in Users /\ req[p].role \in RoleIDs
          /\ Exists(Writer, req[p].role)
          /\ Commit(AssignRole(Writer, req[p].user, req[p].role))
      BY <1>1, InputFields DEF Assign
    <2>2. /\ AssignRole(Writer, req[p].user, req[p].role) \in DB
          /\ Sound(AssignRole(Writer, req[p].user, req[p].role))
      BY <1>0, <2>1 DEF AssignRole, DB, Sound, Exists
    <2> QED
      BY <2>1, <2>2
  <1>2. CASE Revoke(p) /\ log' # log
    <2>1. /\ req[p].user \in Users /\ req[p].role \in RoleIDs
          /\ Commit(RevokeRole(Writer, req[p].user, req[p].role))
      BY <1>2, InputFields DEF Revoke
    <2>2. /\ RevokeRole(Writer, req[p].user, req[p].role) \in DB
          /\ Sound(RevokeRole(Writer, req[p].user, req[p].role))
      BY <1>0, <2>1 DEF RevokeRole, DB, Sound, Exists
    <2> QED
      BY <2>1, <2>2
  <1>3. CASE Delete(p) /\ log' # log
    <2>1. req[p].role \in RoleIDs /\ Commit(DeleteRole(Writer, req[p].role))
      BY <1>3, InputFields DEF Delete
    <2>2. /\ DeleteRole(Writer, req[p].role) \in DB
          /\ Sound(DeleteRole(Writer, req[p].role))
      BY <1>0, <2>1 DEF DeleteRole, DB, Sound, Exists
    <2> QED
      BY <2>1, <2>2
  <1>4. CASE Create(p) /\ log' # log
    <2>1. /\ req[p].name \in Names /\ p \in RoleIDs
          /\ ~Taken(Writer, req[p].name)
          /\ Commit(InsertRole(Writer, p, req[p].name))
      BY <1>4, InputFields DEF Create
    <2>2. /\ InsertRole(Writer, p, req[p].name) \in DB
          /\ Sound(InsertRole(Writer, p, req[p].name))
      BY <1>0, <2>1, NoneAssumption DEF InsertRole, Taken, DB, Sound, Exists
    <2> QED
      BY <2>1, <2>2
  <1>5. CASE Start(p) \/ GetCached(p) \/ LoadFromDB(p) \/ SetCached(p) \/ FindRole(p)
             \/ FindName(p) \/ Invalidate(p) \/ Fail(p)
    BY <1>5 DEF Start, GetCached, LoadFromDB, SetCached, FindRole, FindName, Invalidate, Fail
  <1> QED
    BY <1>1, <1>2, <1>3, <1>4, <1>5, StepCases

\* The steps that are no request's.
LEMMA OtherSteps ==
  ASSUME [Next]_vars
  PROVE  /\ req' = req
         /\ \/ \E p \in Requests : StepOf(p) /\ applied' = applied
            \/ UNCHANGED <<log, changed, pc, kind, loaded, result>>
  <1>1. ASSUME NEW p \in Requests, StepOf(p) PROVE UNCHANGED <<req, applied>>
    BY <1>1, StepCases
    DEF Start, GetCached, LoadFromDB, SetCached, FindRole, FindName, Assign, Revoke,
        Invalidate, Delete, Create, Fail
  <1>2. ASSUME \/ \E key \in Kinds \X Users : Expire(key)
               \/ Replicate \/ Quiescent \/ UNCHANGED vars
        PROVE  UNCHANGED <<log, changed, pc, req, kind, loaded, result>>
    BY <1>2 DEF Expire, Replicate, Quiescent, vars
  <1>3. \/ \E p \in Requests : StepOf(p)
        \/ \E key \in Kinds \X Users : Expire(key)
        \/ Replicate \/ Quiescent \/ UNCHANGED vars
    BY Zenon DEF Next, StepOf
  <1> QED
    BY <1>1, <1>2, <1>3

\* The history keeps its constraints and grows by one state at most.
LEMMA NextHistory ==
  ASSUME History(log), Frames, [Next]_vars
  PROVE  /\ History(log')
         /\ \/ log' = log
            \/ Len(log') = Len(log) + 1
         /\ \A i \in 1 .. Len(log) : log'[i] = log[i]
  BY OtherSteps, Writes, AppendHistory DEF History

\* What was, was.
LEMMA WasStays ==
  ASSUME History(log), Frames, [Next]_vars, NEW k, NEW u, NEW list, Was(log, k, u, list)
  PROVE  Was(log', k, u, list)
  <1>1. PICK i \in 1 .. Len(log) : list = Load(log[i], k, u)
    BY DEF Was
  <1>2. i \in 1 .. Len(log') /\ log'[i] = log[i]
    BY NextHistory DEF History
  <1> QED
    BY <1>1, <1>2 DEF Was

\* A step of one request moves no other.
LEMMA StepIsOwn ==
  ASSUME Frames, NEW p \in Requests, StepOf(p), NEW q \in Requests, q # p
  PROVE  /\ pc'[q] = pc[q]
         /\ result'[q] = result[q]
         /\ kind'[q] = kind[q]
         /\ loaded'[q] = loaded[q]
         /\ q \in changed' <=> q \in changed
  <1>0. q \in changed' <=> q \in changed
    BY StepCases
    DEF Start, GetCached, LoadFromDB, SetCached, FindRole, FindName, Assign, Revoke,
        Invalidate, Delete, Create, Fail
  <1>1. loaded'[q] = loaded[q]
    BY StepCases
    DEF Start, GetCached, LoadFromDB, SetCached, FindRole, FindName, Assign, Revoke,
        Invalidate, Delete, Create, Fail, Frames
  <1>2. kind'[q] = kind[q]
    BY StepCases
    DEF Start, GetCached, LoadFromDB, SetCached, FindRole, FindName, Assign, Revoke,
        Invalidate, Delete, Create, Fail, Proceed, Frames
  <1>3. (\E s : Goto(p, s)) \/ (\E w : Reply(p, w))
    <2>1. CASE GetCached(p) \/ SetCached(p)
      BY <2>1 DEF GetCached, SetCached, Proceed
    <2>2. CASE FindRole(p) \/ FindName(p) \/ Assign(p) \/ Revoke(p)
      BY <2>2 DEF FindRole, FindName, Assign, Revoke, Executed
    <2>3. CASE Start(p) \/ LoadFromDB(p) \/ Invalidate(p) \/ Delete(p) \/ Create(p) \/ Fail(p)
      BY <2>3 DEF Start, LoadFromDB, Invalidate, Delete, Create, Fail
    <2> QED
      BY <2>1, <2>2, <2>3, StepCases
  <1> QED
    BY <1>0, <1>1, <1>2, <1>3 DEF Goto, Reply, Frames

-----------------------------------------------------------------------------
(***************************************************************************)
(* The invariant.                                                          *)
(***************************************************************************)

\* What a check has when it proceeds is a list of its user, and where it goes.
LEMMA Proceeds ==
  ASSUME Frames, Stages, NEW p \in Requests, pc[p] \in {"get", "set"}, Proceed(p),
         loaded' \in [Requests -> Lists]
  PROVE  /\ pc' \in [Requests -> PCs] /\ pc'[p] \in {"get", "done"}
         /\ result' \in [Requests -> Answers]
         /\ kind' \in [Requests -> Kinds]
         /\ kind'[p] = "roles" =>
              kind[p] = "roles" \/ req[p].perm \in loaded'[p]["perms"]
         /\ pc'[p] = "get" => result'[p] = "none"
         /\ result'[p] \in {"none", "allowed", "forbidden"}
         /\ result'[p] = "allowed" => kind[p] = "roles" /\ kind'[p] = "roles"
  <1>1. result[p] = "none" /\ kind[p] \in Kinds
    BY DEF Stages, StageOf, Frames
  <1>2. CASE kind[p] = "perms" /\ req[p].perm \notin loaded'[p]["perms"]
    BY <1>1, <1>2 DEF Proceed, Reply, Frames, PCs, Answers
  <1>3. CASE kind[p] = "perms" /\ req[p].perm \in loaded'[p]["perms"]
    BY <1>1, <1>3 DEF Proceed, Goto, Frames, PCs, Kinds
  <1>4. CASE kind[p] = "roles"
    BY <1>1, <1>4 DEF Proceed, Reply, Frames, PCs, Answers
  <1> QED
    BY <1>1, <1>2, <1>3, <1>4 DEF Kinds

\* A cached entry that is used, or a list that was stored, was the user's.
LEMMA ProceedsWith ==
  ASSUME History(log), Frames, Stages, CacheWas, NEW p \in Requests,
         (GetCached(p) /\ pc'[p] # "load") \/ SetCached(p)
  PROVE  /\ Proceed(p)
         /\ loaded' \in [Requests -> Lists]
         /\ \A k \in Kinds \ {kind[p]} : loaded'[p][k] = loaded[p][k]
         /\ Was(log, kind[p], req[p].user, loaded'[p][kind[p]])
  <1>1. /\ kind[p] \in Kinds /\ loaded[p] \in Lists
        /\ req[p].op = "check" /\ req[p].user \in Users
    BY InputFields DEF Frames, GetCached, SetCached, Stages, StageOf
  <1>2. CASE GetCached(p) /\ pc'[p] # "load"
    <2> DEFINE entry == cache[<<kind[p], req[p].user>>]
    <2>1. /\ entry # None /\ Proceed(p)
          /\ loaded' = [loaded EXCEPT ![p][kind[p]] = entry]
      BY <1>2 DEF GetCached, Goto, Frames, CacheKey
    <2>2. Was(log, kind[p], req[p].user, entry)
      BY <1>1, <2>1 DEF CacheWas
    <2>3. entry \in IF kind[p] = "perms" THEN SUBSET Perms ELSE SUBSET Names
      BY <1>1, <2>2, WasType
    <2> HIDE DEF entry
    <2>4. loaded' \in [Requests -> Lists]
      BY <1>1, <2>1, <2>3 DEF Frames, Lists, Kinds
    <2>5. loaded'[p] = [loaded[p] EXCEPT ![kind[p]] = entry]
      BY <2>1 DEF Frames
    <2>6. /\ loaded'[p][kind[p]] = entry
          /\ \A k \in Kinds \ {kind[p]} : loaded'[p][k] = loaded[p][k]
      BY <1>1, <2>5 DEF Lists, Kinds
    <2> QED
      BY <2>1, <2>2, <2>4, <2>6
  <1>3. CASE SetCached(p)
    BY <1>1, <1>3 DEF SetCached, Stages, StageOf, Frames
  <1> QED
    BY <1>2, <1>3

\* Every step keeps the variables of the requests well typed.
LEMMA NextFrames ==
  ASSUME History(log), Frames, Stages, CacheWas, [Next]_vars PROVE Frames'
  <1>1. req' \in [Requests -> Inputs]
    BY OtherSteps DEF Frames
  <1>2. applied' \in 1 .. Len(log')
    <2>1. CASE applied' = applied
      BY <2>1, NextHistory DEF Frames, History
    <2>2. CASE Replicate
      BY <2>2 DEF Replicate, Frames, History
    <2>3. applied' = applied \/ Replicate
      <3>1. ASSUME NEW p \in Requests, StepOf(p) PROVE applied' = applied
        BY <3>1, StepCases
        DEF Start, GetCached, LoadFromDB, SetCached, FindRole, FindName, Assign, Revoke,
            Invalidate, Delete, Create, Fail
      <3>2. ASSUME (\E key \in Kinds \X Users : Expire(key)) \/ Quiescent \/ UNCHANGED vars
            PROVE  applied' = applied
        BY <3>2 DEF Expire, Quiescent, vars
      <3> QED
        BY <3>1, <3>2, Zenon DEF Next, StepOf
    <2> QED
      BY <2>1, <2>2, <2>3
  <1>3. ASSUME NEW p \in Requests, StepOf(p)
        PROVE  /\ pc' \in [Requests -> PCs]
               /\ kind' \in [Requests -> Kinds]
               /\ loaded' \in [Requests -> Lists]
               /\ result' \in [Requests -> Answers]
    <2>1. /\ \A s \in PCs : Goto(p, s) => pc' \in [Requests -> PCs] /\ result' = result
          /\ \A w \in Answers : Reply(p, w) =>
               pc' \in [Requests -> PCs] /\ result' \in [Requests -> Answers]
      BY DEF Goto, Reply, Frames, PCs
    <2>2. /\ result \in [Requests -> Answers] /\ kind \in [Requests -> Kinds]
          /\ loaded \in [Requests -> Lists]
      BY DEF Frames
    <2>3. /\ {"get", "load", "set", "find", "write", "invalidate_perms",
              "invalidate_roles"} \subseteq PCs
          /\ {"ok", "ErrRoleNotFound", "ErrDuplicateRoleName", "ErrRoleAlreadyAssigned",
              "ErrRoleNotAssigned", "ErrInternal"} \subseteq Answers
      BY DEF PCs, Answers
    <2>4. CASE (GetCached(p) /\ pc'[p] # "load") \/ SetCached(p)
      <3>1. pc[p] \in {"get", "set"}
        BY <2>4 DEF GetCached, SetCached
      <3> QED
        BY <2>4, <3>1, Proceeds, ProceedsWith
    <2>5. CASE GetCached(p) /\ pc'[p] = "load"
      <3>1. CASE Goto(p, "load") /\ UNCHANGED <<kind, loaded>>
        BY <2>1, <2>2, <2>3, <3>1
      <3>2. CASE loaded' = [loaded EXCEPT ![p][kind[p]] = cache[CacheKey(kind[p], req[p].user)]]
                 /\ Proceed(p)
        BY <2>5, <3>2 DEF Proceed, Goto, Reply, Frames
      <3> QED
        BY <2>5, <3>1, <3>2 DEF GetCached
    <2>6. CASE LoadFromDB(p)
      <3>1. /\ kind[p] \in Kinds /\ loaded[p] \in Lists
            /\ req[p].op = "check" /\ req[p].user \in Users
        BY <2>6, InputFields DEF Frames, LoadFromDB, Stages, StageOf
      <3>2. Load(Reader, kind[p], req[p].user)
              \in IF kind[p] = "perms" THEN SUBSET Perms ELSE SUBSET Names
        BY <3>1, CurrentStates, WasType
      <3>3. loaded' \in [Requests -> Lists]
        BY <2>6, <3>1, <3>2 DEF LoadFromDB, Frames, Lists, Kinds
      <3> QED
        BY <2>1, <2>2, <2>3, <2>6, <3>3 DEF LoadFromDB
    <2>7. CASE FindRole(p) \/ FindName(p)
      BY <2>1, <2>2, <2>3, <2>7 DEF FindRole, FindName
    <2>8. CASE Assign(p) \/ Revoke(p)
      BY <2>1, <2>2, <2>3, <2>8 DEF Assign, Revoke, Executed
    <2>9. CASE Invalidate(p)
      BY <2>1, <2>2, <2>3, <2>9 DEF Invalidate
    <2>10. CASE Delete(p) \/ Create(p) \/ Start(p) \/ Fail(p)
      BY <2>1, <2>2, <2>3, <2>10 DEF Delete, Create, Start, Fail
    <2> QED
      BY <1>3, <2>4, <2>5, <2>6, <2>7, <2>8, <2>9, <2>10, StepCases
  <1>5. changed' \subseteq Requests
    <2>1. ASSUME NEW p \in Requests, StepOf(p) PROVE changed' \subseteq changed \cup {p}
      BY <2>1, StepCases
      DEF Start, GetCached, LoadFromDB, SetCached, FindRole, FindName, Assign, Revoke,
          Invalidate, Delete, Create, Fail
    <2> QED
      BY <2>1, OtherSteps DEF Frames
  <1>4. /\ pc' \in [Requests -> PCs] /\ kind' \in [Requests -> Kinds]
        /\ loaded' \in [Requests -> Lists] /\ result' \in [Requests -> Answers]
    BY <1>3, OtherSteps DEF Frames
  <1> QED
    BY <1>1, <1>2, <1>4, <1>5 DEF Frames

\* The cache keeps what was: it gets what a check has loaded, however late.
LEMMA NextCacheWas ==
  ASSUME History(log), Frames, Stages, CacheWas, [Next]_vars PROVE CacheWas'
  <1>1. \/ cache' = cache
        \/ \E key \in Kinds \X Users : cache' = [cache EXCEPT ![key] = None]
        \/ \E p \in Requests : SetCached(p)
    <2>1. ASSUME NEW p \in Requests, Invalidate(p)
          PROVE  \/ cache' = cache
                 \/ \E key \in Kinds \X Users : cache' = [cache EXCEPT ![key] = None]
      <3>1. req[p].user \in Users
        BY <2>1, InputFields DEF Invalidate, Stages, StageOf
      <3>2. \A k \in Kinds : <<k, req[p].user>> \in Kinds \X Users
        BY <3>1
      <3> QED
        BY <2>1, <3>2 DEF Invalidate, CacheKey, Kinds
    <2>2. ASSUME NEW p \in Requests, StepOf(p), ~Invalidate(p), ~SetCached(p)
          PROVE  cache' = cache
      BY <2>2, StepCases
      DEF Start, GetCached, LoadFromDB, FindRole, FindName, Assign, Revoke, Delete, Create, Fail
    <2>3. ASSUME Replicate \/ Quiescent \/ UNCHANGED vars PROVE cache' = cache
      BY <2>3 DEF Replicate, Quiescent, vars
    <2>4. ASSUME NEW key \in Kinds \X Users, Expire(key)
          PROVE  cache' = [cache EXCEPT ![key] = None]
      BY <2>4 DEF Expire
    <2>5. \/ \E p \in Requests : StepOf(p)
          \/ \E key \in Kinds \X Users : Expire(key)
          \/ Replicate \/ Quiescent \/ UNCHANGED vars
      BY Zenon DEF Next, StepOf
    <2> QED
      BY <2>1, <2>2, <2>3, <2>4, <2>5
  <1>2. DOMAIN cache' = Kinds \X Users
    BY <1>1 DEF CacheWas, SetCached
  <1>3. SUFFICES ASSUME NEW k \in Kinds, NEW u \in Users, cache'[<<k, u>>] # None
                 PROVE  Was(log', k, u, cache'[<<k, u>>])
    BY <1>2 DEF CacheWas
  <1>4. PICK list : list = cache'[<<k, u>>]
    OBVIOUS
  <1>5. <<k, u>> \in DOMAIN cache
    BY DEF CacheWas
  <1>6. Was(log, k, u, list)
    <2>1. CASE cache' = cache
      BY <1>3, <1>4, <2>1 DEF CacheWas
    <2>2. ASSUME NEW key \in Kinds \X Users, cache' = [cache EXCEPT ![key] = None]
          PROVE  Was(log, k, u, list)
      BY <1>3, <1>4, <1>5, <2>2 DEF CacheWas
    <2>3. ASSUME NEW p \in Requests, SetCached(p) PROVE Was(log, k, u, list)
      <3>1. Was(log, kind[p], req[p].user, loaded[p][kind[p]])
        BY <2>3 DEF SetCached, Stages, StageOf
      <3>2. CASE cache' = cache
        BY <2>1, <3>2
      <3>3. CASE cache' = [cache EXCEPT ![<<kind[p], req[p].user>>] = loaded[p][kind[p]]]
        <4>1. CASE <<k, u>> = <<kind[p], req[p].user>>
          BY <1>4, <1>5, <3>1, <3>3, <4>1
        <4>2. CASE <<k, u>> # <<kind[p], req[p].user>>
          BY <1>3, <1>4, <1>5, <3>3, <4>2 DEF CacheWas
        <4> QED
          BY <4>1, <4>2
      <3> QED
        BY <2>3, <3>2, <3>3 DEF SetCached, CacheKey
    <2> QED
      BY <1>1, <2>1, <2>2, <2>3
  <1> QED
    BY <1>4, <1>6, WasStays

\* Every step keeps what the requests know.
LEMMA NextStages ==
  ASSUME History(log), Frames, Stages, CacheWas, [Next]_vars PROVE Stages'
  <1>0. req' = req
    BY OtherSteps
  <1> SUFFICES ASSUME NEW q \in Requests PROVE StageOf(q)'
    BY DEF Stages
  <1>1. StageOf(q)
    BY DEF Stages
  <1>2. \A k, u, list : Was(log, k, u, list) => Was(log', k, u, list)
    BY WasStays
  <1>3. CASE /\ UNCHANGED <<pc[q], kind[q], loaded[q], result[q]>>
             /\ q \in changed' <=> q \in changed
    BY <1>0, <1>1, <1>2, <1>3 DEF StageOf
  <1>4. CASE StepOf(q)
    <2>1. CASE Start(q)
      <3>1. req[q].op \in {"check", "assign", "revoke", "delete", "create"}
        BY InputFields
      <3> QED
        BY <1>0, <1>1, <1>2, <2>1, <3>1 DEF Start, Goto, StageOf, Frames
    <2>2. CASE (GetCached(q) /\ pc'[q] # "load") \/ SetCached(q)
      <3>1. /\ pc[q] \in {"get", "set"} /\ req[q].op = "check" /\ kind[q] \in Kinds
            /\ result[q] = "none"
        BY <1>1, <2>2 DEF GetCached, SetCached, StageOf, Frames
      <3>2. /\ Proceed(q)
            /\ loaded' \in [Requests -> Lists]
            /\ \A k \in Kinds \ {kind[q]} : loaded'[q][k] = loaded[q][k]
            /\ Was(log, kind[q], req[q].user, loaded'[q][kind[q]])
        BY <2>2, ProceedsWith
      <3>3. /\ pc'[q] \in {"get", "done"} /\ kind'[q] \in Kinds
            /\ kind'[q] = "roles" =>
                 kind[q] = "roles" \/ req[q].perm \in loaded'[q]["perms"]
            /\ pc'[q] = "get" => result'[q] = "none"
            /\ result'[q] \in {"none", "allowed", "forbidden"}
            /\ result'[q] = "allowed" => kind[q] = "roles" /\ kind'[q] = "roles"
        BY <3>1, <3>2, Proceeds
      <3>4. kind'[q] = "roles" =>
              /\ req[q].perm \in loaded'[q]["perms"]
              /\ Was(log, "perms", req[q].user, loaded'[q]["perms"])
        BY <1>1, <3>1, <3>2, <3>3 DEF StageOf, Kinds
      <3>5. result'[q] = "allowed" => Was(log, "roles", req[q].user, loaded'[q]["roles"])
        BY <3>2, <3>3
      <3>6. q \notin changed'
        BY <1>1, <2>2, <3>1 DEF StageOf, GetCached, SetCached
      <3> QED
        BY <1>0, <1>2, <3>1, <3>3, <3>4, <3>5, <3>6 DEF StageOf
    <2>3. CASE GetCached(q) /\ pc'[q] = "load"
      <3>1. pc'[q] = "load" /\ UNCHANGED <<kind, loaded, result>>
        BY <2>3 DEF GetCached, Proceed, Goto, Reply, Frames
      <3> QED
        BY <1>0, <1>1, <1>2, <2>3, <3>1 DEF StageOf, GetCached
    <2>4. CASE LoadFromDB(q)
      <3>1. /\ req[q].op = "check" /\ kind[q] \in Kinds /\ result[q] = "none"
            /\ loaded[q] \in Lists
        BY <1>1, <2>4 DEF LoadFromDB, StageOf, Frames
      <3>2. /\ pc'[q] = "set" /\ kind' = kind /\ result' = result
            /\ loaded'[q][kind[q]] = Load(Reader, kind[q], req[q].user)
            /\ \A k \in Kinds \ {kind[q]} : loaded'[q][k] = loaded[q][k]
        BY <2>4, <3>1 DEF LoadFromDB, Goto, Frames, Lists, Kinds
      <3>3. Was(log, kind[q], req[q].user, loaded'[q][kind[q]])
        BY <3>2, CurrentStates
      <3>4. q \notin changed'
        BY <1>1, <2>4 DEF StageOf, LoadFromDB
      <3> QED
        BY <1>0, <1>1, <1>2, <3>1, <3>2, <3>3, <3>4 DEF StageOf, Kinds
    <2>5. CASE FindRole(q) \/ FindName(q)
      BY <1>0, <1>1, <1>2, <2>5 DEF FindRole, FindName, Goto, Reply, StageOf, Frames
    <2>6. CASE Assign(q) \/ Revoke(q)
      BY <1>0, <1>1, <1>2, <2>6 DEF Assign, Revoke, Executed, Goto, Reply, StageOf, Frames
    <2>7. CASE Invalidate(q)
      BY <1>0, <1>1, <1>2, <2>7 DEF Invalidate, Goto, Reply, StageOf, Frames
    <2>8. CASE Delete(q) \/ Create(q) \/ Fail(q)
      BY <1>0, <1>1, <1>2, <2>8 DEF Delete, Create, Fail, Reply, StageOf, Frames
    <2> QED
      BY <1>4, <2>1, <2>2, <2>3, <2>4, <2>5, <2>6, <2>7, <2>8, StepCases
  <1> QED
    BY <1>3, <1>4, StepIsOwn, OtherSteps

\* The invariant of every behaviour.
IInv == History(log) /\ Frames /\ Stages /\ CacheWas

\* It holds initially.
LEMMA InitIInv == Init => IInv
  <1> SUFFICES ASSUME Init PROVE IInv
    OBVIOUS
  <1>1. SeedState \in DB /\ Sound(SeedState)
    <2>1. SeedState \in DB
      BY SeedAssumption DEF SeedState, DB, RoleIDs
    <2>2. \A g \in SeedState.grants : Exists(SeedState, g[2])
      BY SeedAssumption, NoneAssumption DEF SeedState, Exists, RoleIDs
    <2>3. \A r, s \in RoleIDs :
            Exists(SeedState, r) /\ SeedState.name[r] = SeedState.name[s] => r = s
      BY SeedAssumption, NoneAssumption DEF SeedState, Exists, RoleIDs
    <2> QED
      BY <2>1, <2>2, <2>3 DEF Sound
  <1>2. History(log) /\ applied \in 1 .. Len(log)
    BY <1>1 DEF Init, History
  <1>3. CacheWas
    BY DEF Init, CacheWas
  <1>4. Frames
    BY <1>2 DEF Init, Frames, PCs, Kinds, Lists, Answers
  <1>5. Stages
    BY DEF Init, Stages, StageOf
  <1> QED
    BY <1>2, <1>3, <1>4, <1>5 DEF IInv

\* Every step keeps it.
LEMMA NextIInv == IInv /\ [Next]_vars => IInv'
  <1> SUFFICES ASSUME IInv, [Next]_vars PROVE IInv'
    OBVIOUS
  <1>1. History(log')
    BY NextHistory DEF IInv
  <1>2. Frames' /\ Stages' /\ CacheWas'
    BY NextFrames, NextStages, NextCacheWas DEF IInv
  <1>3. History(log)'
    BY <1>1 DEF History
  <1> QED
    BY <1>2, <1>3 DEF IInv

\* Hence it is an invariant.
LEMMA Invariant == Spec => []IInv
  BY InitIInv, NextIInv, PTL DEF Spec

\* The tables keep their rows, names and foreign key, and every cache entry and
\* every loaded list is of its kind (assign.go:65, cachekeys.go:3-11).
THEOREM TypeCorrect == Spec => []TypeOK
  <1>1. IInv => TypeOK
    <2> SUFFICES ASSUME IInv PROVE TypeOK
      OBVIOUS
    <2>1. DOMAIN log = 1 .. Len(log)
      BY DEF IInv, History
    <2>2. ASSUME NEW i \in DOMAIN log PROVE log[i] \in DB /\ Sound(log[i])
      BY <2>1, <2>2 DEF IInv, History
    <2>3. ASSUME NEW u \in Users
          PROVE  /\ cache[<<"perms", u>>] \in (SUBSET Perms) \cup {None}
                 /\ cache[<<"roles", u>>] \in (SUBSET Names) \cup {None}
      <3>1. ASSUME NEW k \in Kinds, NEW list, list = cache[<<k, u>>], list # None
            PROVE  list \in IF k = "perms" THEN SUBSET Perms ELSE SUBSET Names
        BY <3>1, WasType DEF IInv, CacheWas
      <3>2. cache[<<"perms", u>>] # None => cache[<<"perms", u>>] \in SUBSET Perms
        BY <3>1, SMT DEF Kinds
      <3>3. cache[<<"roles", u>>] # None => cache[<<"roles", u>>] \in SUBSET Names
        BY <3>1, SMT DEF Kinds
      <3> QED
        BY <3>2, <3>3
    <2> QED
      BY <2>2, <2>3 DEF TypeOK, IInv, Frames, DB, Sound
  <1> QED
    BY <1>1, Invariant, PTL

\* Whoever is allowed had the permission, and the roles of its context, in some
\* committed state: lag, late fills and entries that outlive a role invent no
\* right (permission_loader.go:29-81).
THEOREM AllowedGranted == Spec => []AllowedWasGranted
  <1>1. IInv => AllowedWasGranted
    <2> SUFFICES ASSUME IInv, NEW p \in Requests, result[p] = "allowed"
                 PROVE  /\ \E i \in DOMAIN log : req[p].perm \in UserPerms(log[i], req[p].user)
                        /\ \E i \in DOMAIN log : loaded[p]["roles"] = UserRoles(log[i], req[p].user)
      BY DEF AllowedWasGranted
    <2>1. /\ req[p].perm \in loaded[p]["perms"]
          /\ Was(log, "perms", req[p].user, loaded[p]["perms"])
          /\ Was(log, "roles", req[p].user, loaded[p]["roles"])
      BY DEF IInv, Stages, StageOf
    <2>2. DOMAIN log = 1 .. Len(log)
      BY DEF IInv, History
    <2> QED
      BY <2>1, <2>2 DEF Was, Load
  <1> QED
    BY <1>1, Invariant, PTL

-----------------------------------------------------------------------------
(***************************************************************************)
(* Assigns and revokes.                                                    *)
(***************************************************************************)

\* The requests whose op of role r and user u has committed.
Ops(op, u, r) ==
  {p \in changed : req[p].op = op /\ req[p].user = u /\ req[p].role = r}

Has(db, u, r) == <<u, r>> \in db.grants

\* A step that commits no assign or revoke changes no grant for a request.
LEMMA ChangedStays ==
  ASSUME IInv, NEW p \in Requests, StepOf(p), log' = log \/ Delete(p) \/ Create(p)
  PROVE  changed' = changed
  <1>1. log \in Seq(DB)
    BY DEF IInv, History
  <1>2. \A db : log' = log => ~Commit(db)
    <2> SUFFICES ASSUME NEW db, log = Append(log, db) PROVE FALSE
      BY DEF Commit
    <2>1. Len(log) \in Nat /\ Len(Append(log, db)) = Len(log) + 1
      BY <1>1, LenProperties
    <2> QED
      BY <2>1
  <1>3. CASE Assign(p) \/ Revoke(p)
    <2>1. log' = log
      BY <1>3 DEF Assign, Revoke, Delete, Create
    <2> QED
      BY <1>2, <1>3, <2>1 DEF Assign, Revoke
  <1> QED
    BY <1>3, StepCases
    DEF Start, GetCached, LoadFromDB, SetCached, FindRole, FindName, Invalidate, Delete,
        Create, Fail

\* A request that commits an assign or revoke had changed nothing before.
LEMMA Commits ==
  ASSUME IInv, NEW p \in Requests, Assign(p) \/ Revoke(p), log' # log
  PROVE  /\ p \notin changed /\ changed' = changed \cup {p}
         /\ req[p].user \in Users /\ req[p].role \in RoleIDs
         /\ Assign(p) => /\ ~Has(Writer, req[p].user, req[p].role)
                         /\ Commit(AssignRole(Writer, req[p].user, req[p].role))
         /\ Revoke(p) => /\ Has(Writer, req[p].user, req[p].role)
                         /\ Commit(RevokeRole(Writer, req[p].user, req[p].role))
  <1>1. /\ req[p].op \in {"assign", "revoke"} /\ pc[p] = "write"
        /\ req[p].user \in Users /\ req[p].role \in RoleIDs
        /\ Frames /\ StageOf(p)
    BY InputFields DEF Assign, Revoke, IInv, Stages
  <1> QED
    BY <1>1 DEF Assign, Revoke, StageOf, Has

\* The writer after a commit, and the tables of all steps.
LEMMA WriterAfter ==
  ASSUME IInv, [Next]_vars
  PROVE  /\ log' = log => Writer' = Writer
         /\ \A db : Commit(db) => Writer' = db
         /\ log'[1] = log[1]
  <1>1. log \in Seq(DB) /\ Len(log) \in Nat \ {0} /\ \A i \in 1 .. Len(log) : log'[i] = log[i]
    BY NextHistory DEF IInv, History
  <1>2. ASSUME NEW db, Commit(db) PROVE Writer' = db
    BY <1>1, <1>2 DEF Commit, Writer
  <1> QED
    BY <1>1, <1>2 DEF Writer

\* One step: nothing changes for a role and a user, or one request is counted
\* and the user gets or loses the role.
LEMMA OneChange ==
  ASSUME IInv, [Next]_vars, NEW u \in Users, NEW r \in Seeded,
         \A p \in Requests : req[p].op = "delete" => req[p].role # r
  PROVE  \/ /\ \A op \in {"assign", "revoke"} : Ops(op, u, r)' = Ops(op, u, r)
            /\ Has(Writer, u, r)' = Has(Writer, u, r)
         \/ \E p \in Requests \ Ops("assign", u, r) :
              /\ Ops("assign", u, r)' = Ops("assign", u, r) \cup {p}
              /\ Ops("revoke", u, r)' = Ops("revoke", u, r)
              /\ ~Has(Writer, u, r) /\ Has(Writer, u, r)'
         \/ \E p \in Requests \ Ops("revoke", u, r) :
              /\ Ops("revoke", u, r)' = Ops("revoke", u, r) \cup {p}
              /\ Ops("assign", u, r)' = Ops("assign", u, r)
              /\ Has(Writer, u, r) /\ ~Has(Writer, u, r)'
  <1>0. req' = req
    BY OtherSteps
  <1>2. CASE UNCHANGED <<log, changed, pc, kind, loaded, result>>
    BY <1>0, <1>2, WriterAfter DEF Ops, Has
  <1>3. ASSUME NEW p \in Requests, StepOf(p), log' = log \/ Delete(p) \/ Create(p)
        PROVE  \A op \in {"assign", "revoke"} : Ops(op, u, r)' = Ops(op, u, r)
    BY <1>0, <1>3, ChangedStays DEF Ops
  <1>4. ASSUME NEW p \in Requests, Delete(p) \/ Create(p)
        PROVE  Has(Writer, u, r)' = Has(Writer, u, r)
    <2>1. CASE log' = log
      BY <2>1, WriterAfter DEF Has
    <2>2. CASE Delete(p) /\ log' # log
      <3>1. req[p].role # r /\ Writer' = DeleteRole(Writer, req[p].role) /\ Writer \in DB
        BY <2>2, WriterAfter, CurrentStates DEF Delete, IInv
      <3>2. Writer'.grants = {g \in Writer.grants : g[2] # req[p].role}
        BY <3>1 DEF DeleteRole, DB
      <3> QED
        BY <3>1, <3>2 DEF Has
    <2>3. CASE Create(p) /\ log' # log
      <3>1. Writer' = InsertRole(Writer, p, req[p].name) /\ Writer \in DB
        BY <2>3, WriterAfter, CurrentStates DEF Create, IInv
      <3> QED
        BY <3>1 DEF InsertRole, DB, Has
    <2> QED
      BY <1>4, <2>1, <2>2, <2>3
  <1>5. ASSUME NEW p \in Requests, StepOf(p), Assign(p), log' # log
        PROVE  \/ /\ \A op \in {"assign", "revoke"} : Ops(op, u, r)' = Ops(op, u, r)
                  /\ Has(Writer, u, r)' = Has(Writer, u, r)
               \/ /\ p \notin Ops("assign", u, r)
                  /\ Ops("assign", u, r)' = Ops("assign", u, r) \cup {p}
                  /\ Ops("revoke", u, r)' = Ops("revoke", u, r)
                  /\ ~Has(Writer, u, r) /\ Has(Writer, u, r)'
    <2>1. /\ p \notin changed /\ changed' = changed \cup {p} /\ req[p].op = "assign"
          /\ ~Has(Writer, req[p].user, req[p].role)
          /\ Writer' = AssignRole(Writer, req[p].user, req[p].role) /\ Writer \in DB
      BY <1>5, Commits, WriterAfter, CurrentStates DEF Assign, IInv
    <2>2. Writer'.grants = Writer.grants \cup {<<req[p].user, req[p].role>>}
      BY <2>1 DEF AssignRole, DB
    <2>3. CASE req[p].user = u /\ req[p].role = r
      <3>1. p \notin Ops("assign", u, r) /\ Ops("assign", u, r)' = Ops("assign", u, r) \cup {p}
        BY <1>0, <1>5, <2>1, <2>3 DEF Ops
      <3>2. Ops("revoke", u, r)' = Ops("revoke", u, r)
        BY <1>0, <1>5, <2>1, <2>3 DEF Ops
      <3> QED
        BY <2>1, <2>2, <2>3, <3>1, <3>2 DEF Has
    <2>4. CASE ~(req[p].user = u /\ req[p].role = r)
      <3>1. \A op \in {"assign", "revoke"} : Ops(op, u, r)' = Ops(op, u, r)
        BY <1>0, <1>5, <2>1, <2>4 DEF Ops
      <3> QED
        BY <2>2, <2>4, <3>1 DEF Has
    <2> QED
      BY <2>3, <2>4
  <1>6. ASSUME NEW p \in Requests, StepOf(p), Revoke(p), log' # log
        PROVE  \/ /\ \A op \in {"assign", "revoke"} : Ops(op, u, r)' = Ops(op, u, r)
                  /\ Has(Writer, u, r)' = Has(Writer, u, r)
               \/ /\ p \notin Ops("revoke", u, r)
                  /\ Ops("revoke", u, r)' = Ops("revoke", u, r) \cup {p}
                  /\ Ops("assign", u, r)' = Ops("assign", u, r)
                  /\ Has(Writer, u, r) /\ ~Has(Writer, u, r)'
    <2>1. /\ p \notin changed /\ changed' = changed \cup {p} /\ req[p].op = "revoke"
          /\ Has(Writer, req[p].user, req[p].role)
          /\ Writer' = RevokeRole(Writer, req[p].user, req[p].role) /\ Writer \in DB
      BY <1>6, Commits, WriterAfter, CurrentStates DEF Revoke, IInv
    <2>2. Writer'.grants = Writer.grants \ {<<req[p].user, req[p].role>>}
      BY <2>1 DEF RevokeRole, DB
    <2>3. CASE req[p].user = u /\ req[p].role = r
      <3>1. p \notin Ops("revoke", u, r) /\ Ops("revoke", u, r)' = Ops("revoke", u, r) \cup {p}
        BY <1>0, <1>6, <2>1, <2>3 DEF Ops
      <3>2. Ops("assign", u, r)' = Ops("assign", u, r)
        BY <1>0, <1>6, <2>1, <2>3 DEF Ops
      <3> QED
        BY <2>1, <2>2, <2>3, <3>1, <3>2 DEF Has
    <2>4. CASE ~(req[p].user = u /\ req[p].role = r)
      <3>1. \A op \in {"assign", "revoke"} : Ops(op, u, r)' = Ops(op, u, r)
        BY <1>0, <1>6, <2>1, <2>4 DEF Ops
      <3> QED
        BY <2>2, <2>4, <3>1 DEF Has
    <2> QED
      BY <2>3, <2>4
  <1>7. ASSUME NEW p \in Requests, StepOf(p)
        PROVE  log' = log \/ Assign(p) \/ Revoke(p) \/ Delete(p) \/ Create(p)
    BY <1>7, StepCases
    DEF Start, GetCached, LoadFromDB, SetCached, FindRole, FindName, Invalidate, Fail
  <1>8. log' = log => Has(Writer, u, r)' = Has(Writer, u, r)
    BY WriterAfter DEF Has
  <1> QED
    BY <1>2, <1>3, <1>4, <1>5, <1>6, <1>7, <1>8, OtherSteps

\* Who is told of an assign or a revoke changed the role, and those that changed
\* it, told or not, add up to who has it: retries, races and lost answers do not
\* make two requests claim one change (role.go:203-248).
THEOREM AnswersCounted == Spec => []AnswersAddUp
  <1> DEFINE Bit(b) == IF b THEN 1 ELSE 0
             AddUp == \A u \in Users, r \in Seeded :
               (\A p \in Requests : req[p].op = "delete" => req[p].role # r)
               => Cardinality(Ops("assign", u, r)) + Bit(Has(log[1], u, r))
                    = Cardinality(Ops("revoke", u, r)) + Bit(Has(Writer, u, r))
  <1>1. Init => AddUp
    <2> SUFFICES ASSUME Init, NEW u \in Users, NEW r \in Seeded
                 PROVE  Cardinality(Ops("assign", u, r)) + Bit(Has(log[1], u, r))
                          = Cardinality(Ops("revoke", u, r)) + Bit(Has(Writer, u, r))
      OBVIOUS
    <2>1. \A op : Ops(op, u, r) = {}
      BY DEF Init, Ops
    <2>2. Writer = log[1]
      BY DEF Init, Writer
    <2> QED
      BY <2>1, <2>2
  <1>2. IInv /\ AddUp /\ [Next]_vars => AddUp'
    <2> SUFFICES ASSUME IInv, AddUp, [Next]_vars, NEW u \in Users, NEW r \in Seeded,
                        \A p \in Requests : req'[p].op = "delete" => req'[p].role # r
                 PROVE  Cardinality(Ops("assign", u, r)') + Bit(Has(log[1], u, r)')
                          = Cardinality(Ops("revoke", u, r)') + Bit(Has(Writer, u, r)')
      OBVIOUS
    <2>1. req' = req /\ Has(log[1], u, r)' = Has(log[1], u, r)
      BY OtherSteps, WriterAfter DEF Has
    <2> DEFINE A == Ops("assign", u, r)
               R == Ops("revoke", u, r)
    <2>2. /\ IsFiniteSet(A) /\ IsFiniteSet(R)
          /\ Cardinality(A) \in Nat /\ Cardinality(R) \in Nat
      BY RequestsAssumption, FS_Subset, FS_CardinalityType DEF Ops, IInv, Frames
    <2>3. Cardinality(A) + Bit(Has(log[1], u, r)) = Cardinality(R) + Bit(Has(Writer, u, r))
      BY <2>1
    <2>4. \A p \in Requests : /\ p \notin A => Cardinality(A \cup {p}) = Cardinality(A) + 1
                              /\ p \notin R => Cardinality(R \cup {p}) = Cardinality(R) + 1
      BY <2>2, FS_AddElement
    <2>5. \/ A' = A /\ R' = R /\ Has(Writer, u, r)' = Has(Writer, u, r)
          \/ \E p \in Requests \ A :
               A' = A \cup {p} /\ R' = R /\ ~Has(Writer, u, r) /\ Has(Writer, u, r)'
          \/ \E p \in Requests \ R :
               R' = R \cup {p} /\ A' = A /\ Has(Writer, u, r) /\ ~Has(Writer, u, r)'
      BY <2>1, OneChange
    <2> HIDE DEF A, R
    <2>6. Cardinality(A') + Bit(Has(log[1], u, r)') = Cardinality(R') + Bit(Has(Writer, u, r)')
      <3>0. /\ Bit(Has(log[1], u, r)') = Bit(Has(log[1], u, r))
            /\ Bit(Has(log[1], u, r)) \in Nat
        BY <2>1
      <3>1. CASE A' = A /\ R' = R /\ Has(Writer, u, r)' = Has(Writer, u, r)
        BY <2>3, <3>0, <3>1
      <3>2. CASE \E p \in Requests \ A :
                   A' = A \cup {p} /\ R' = R /\ ~Has(Writer, u, r) /\ Has(Writer, u, r)'
        <4>1. Cardinality(A') = Cardinality(A) + 1 /\ Cardinality(R') = Cardinality(R)
          BY <2>4, <3>2, Zenon
        <4>2. Bit(Has(Writer, u, r)) = 0 /\ Bit(Has(Writer, u, r)') = 1
          BY <3>2, Zenon
        <4> HIDE DEF Bit
        <4> QED
          BY <2>2, <2>3, <3>0, <4>1, <4>2, SMT
      <3>3. CASE \E p \in Requests \ R :
                   R' = R \cup {p} /\ A' = A /\ Has(Writer, u, r) /\ ~Has(Writer, u, r)'
        <4>1. Cardinality(R') = Cardinality(R) + 1 /\ Cardinality(A') = Cardinality(A)
          BY <2>4, <3>3, Zenon
        <4>2. Bit(Has(Writer, u, r)) = 1 /\ Bit(Has(Writer, u, r)') = 0
          BY <3>3, Zenon
        <4> HIDE DEF Bit
        <4> QED
          BY <2>2, <2>3, <3>0, <4>1, <4>2, SMT
      <3> QED
        BY <2>5, <3>1, <3>2, <3>3, Zenon
    <2> QED
      BY <2>6 DEF A, R
  <1>3. IInv /\ AddUp => AnswersAddUp
    <2> SUFFICES ASSUME IInv, AddUp PROVE AnswersAddUp
      OBVIOUS
    <2>1. \A p \in Requests : req[p].op \in {"assign", "revoke"} =>
            /\ result[p] = "ok" => p \in changed
            /\ p \in changed => result[p] \in {"none", "ok", "ErrInternal"}
      BY DEF IInv, Stages, StageOf
    <2> QED
      BY <2>1 DEF AnswersAddUp, Ops, Has
  <1> HIDE DEF AddUp
  <1> QED
    BY <1>1, <1>2, <1>3, Invariant, PTL DEF Spec

===============================================================================
