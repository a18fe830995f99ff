------------------------------ MODULE Permissions ------------------------------
(***************************************************************************)
(* Roles, their assignment to users, and the permissions RequirePermission *)
(* checks on every protected route.                                        *)
(*                                                                         *)
(* CachedPermissionLoader keeps a user's permissions and role names in two *)
(* Redis entries filled from the READER database.  Assigning and revoking  *)
(* a role deletes both entries after the commit; a check that read before  *)
(* the commit may fill them again afterwards, and deleting a role deletes  *)
(* no entry.                                                               *)
(***************************************************************************)
EXTENDS Naturals, Sequences, FiniteSets

CONSTANTS
  Requests,    \* the requests of one behaviour; each is served once
  Users,
  Seeded,      \* roles of the initial database
  NameOf,      \* NameOf[r]: the name of a seeded role
  PermsOf,     \* PermsOf[r]: the permissions of a seeded role
  Names,       \* role names
  Perms,       \* permission names
  SeedGrants,  \* the initial user_roles
  None,        \* a cache miss
  HasReplica,  \* is a reader DSN configured
  CacheFails,  \* may calls to Redis fail
  Inputs       \* the requests clients may send

\* The role a request creates gets the request's own UUID.
RoleIDs == Requests \cup Seeded

Input == [op : {"check"}, user : Users, perm : Perms]
           \cup [op : {"assign", "revoke"}, user : Users, role : RoleIDs]
           \cup [op : {"delete"}, role : RoleIDs]
           \cup [op : {"create"}, name : Names]

ASSUME SeedAssumption ==
  /\ Requests \cap Seeded = {}
  /\ NameOf \in [Seeded -> Names]
  /\ \A r, s \in Seeded : NameOf[r] = NameOf[s] => r = s
  /\ PermsOf \in [Seeded -> SUBSET Perms]
  /\ SeedGrants \subseteq Users \X Seeded
ASSUME RequestsAssumption == IsFiniteSet(Requests)
ASSUME NoneAssumption == None \notin Names
ASSUME FlagsAssumption == HasReplica \in BOOLEAN /\ CacheFails \in BOOLEAN
ASSUME InputsAssumption == Inputs \subseteq Input

Kinds == {"perms", "roles"}

VARIABLES
  log,      \* the committed states of the roles and user_roles tables
  changed,  \* history: the assigns and revokes that changed a row of user_roles
  applied,  \* the one the replica has reached
  cache,    \* Redis
  pc,       \* the next step of each request
  req,      \* the request
  kind,     \* what a check is loading
  loaded,   \* what it loaded: the permissions and roles of its context
  result    \* the answer of each request

vars == <<log, changed, applied, cache, pc, req, kind, loaded, result>>

Writer == log[Len(log)]
Reader == IF HasReplica THEN log[applied] ELSE Writer

\* What the joins of GetUserPermissions and GetUserRoles select.
Granted(db, u) == {r \in RoleIDs : <<u, r>> \in db.grants}
UserPerms(db, u) == UNION {PermsOf[r] : r \in Granted(db, u) \cap Seeded}
UserRoles(db, u) == {db.name[r] : r \in Granted(db, u)}

Load(db, k, u) == IF k = "perms" THEN UserPerms(db, u) ELSE UserRoles(db, u)

\* Faulty: one entry for both lists of a user.
SharedKey(k, u) == <<"perms", u>>

\* Faulty: one entry for all users.
KeyOfAnyUser(k, u) == <<k, CHOOSE v \in Users : TRUE>>

\* PermissionCacheKeyPrefix and RoleCacheKeyPrefix.
CacheKey(k, u) == <<k, u>>
-----------------------------------------------------------------------------
SeedState == [name   |-> [r \in RoleIDs |-> IF r \in Seeded THEN NameOf[r] ELSE None],
              grants |-> SeedGrants]

Exists(db, r) == db.name[r] # None
Taken(db, name) == \E r \in RoleIDs : db.name[r] = name

\* INSERT INTO user_roles, DELETE FROM user_roles, DELETE FROM roles with its
\* ON DELETE CASCADE, INSERT INTO roles.
AssignRole(db, u, r) == [db EXCEPT !.grants = @ \cup {<<u, r>>}]
RevokeRole(db, u, r) == [db EXCEPT !.grants = @ \ {<<u, r>>}]
DeleteRole(db, r) == [db EXCEPT !.name[r] = None, !.grants = {g \in @ : g[2] # r}]
InsertRole(db, r, name) == [db EXCEPT !.name[r] = name]

Init ==
  /\ log     = <<SeedState>>
  /\ changed = {}
  /\ applied = 1
  /\ cache   = [key \in Kinds \X Users |-> None]
  /\ pc      = [p \in Requests |-> "idle"]
  /\ req     \in [Requests -> Inputs]
  /\ kind    = [p \in Requests |-> "perms"]
  /\ loaded  = [p \in Requests |-> [k \in Kinds |-> {}]]
  /\ result  = [p \in Requests |-> "none"]

Goto(p, step) == pc' = [pc EXCEPT ![p] = step] /\ UNCHANGED result
Reply(p, answer) ==
  /\ pc' = [pc EXCEPT ![p] = "done"]
  /\ result' = [result EXCEPT ![p] = answer]

Commit(db) == log' = Append(log, db)

\* A statement that was committed: the request goes on, or the answer of the
\* database was lost and it fails.
Executed(p, step) == Goto(p, step) \/ Reply(p, "ErrInternal")

\* The handlers: a check loads, a delete writes, the others look first.
Start(p) ==
  /\ pc[p] = "idle"
  /\ Goto(p, CASE req[p].op = "check"  -> "get"
               [] req[p].op = "delete" -> "write"
               [] OTHER                -> "find")
  /\ UNCHANGED <<log, changed, applied, cache, req, kind, loaded>>

-----------------------------------------------------------------------------
(***************************************************************************)
(* RequirePermission: load permissions, decide, load roles.                *)
(***************************************************************************)

\* The list is there: 403 without the permission, else the roles are next.
Proceed(p) ==
  LET k == kind[p]
  IN  \/ /\ k = "perms" /\ req[p].perm \notin loaded'[p][k]
         /\ Reply(p, "forbidden")
         /\ UNCHANGED kind
      \/ /\ k = "perms" /\ req[p].perm \in loaded'[p][k]
         /\ kind' = [kind EXCEPT ![p] = "roles"]
         /\ Goto(p, "get")
      \/ /\ k = "roles"
         /\ Reply(p, "allowed")
         /\ UNCHANGED kind

\* cache.Get; any error counts as a miss.
GetCached(p) ==
  LET entry == cache[CacheKey(kind[p], req[p].user)]
  IN  /\ pc[p] = "get"
      /\ \/ /\ entry = None \/ CacheFails
            /\ Goto(p, "load")
            /\ UNCHANGED <<kind, loaded>>
         \/ /\ entry # None
            /\ loaded' = [loaded EXCEPT ![p][kind[p]] = entry]
            /\ Proceed(p)
      /\ UNCHANGED <<log, changed, applied, cache, req>>

\* GetUserPermissions or GetUserRoles.
LoadFromDB(p) ==
  /\ pc[p] = "load"
  /\ loaded' = [loaded EXCEPT ![p][kind[p]] = Load(Reader, kind[p], req[p].user)]
  /\ Goto(p, "set")
  /\ UNCHANGED <<log, changed, applied, cache, req, kind>>

\* cache.Set; a failure is logged.
SetCached(p) ==
  /\ pc[p] = "set"
  /\ \/ cache' = [cache EXCEPT ![CacheKey(kind[p], req[p].user)] = loaded[p][kind[p]]]
     \/ CacheFails /\ UNCHANGED cache
  /\ UNCHANGED loaded
  /\ Proceed(p)
  /\ UNCHANGED <<log, changed, applied, req>>

-----------------------------------------------------------------------------
(***************************************************************************)
(* The use cases of roles.                                                 *)
(***************************************************************************)

\* FindByID, on the reader, in AssignRoleUseCase and RevokeRoleUseCase.
FindRole(p) ==
  /\ pc[p] = "find"
  /\ req[p].op \in {"assign", "revoke"}
  /\ IF Exists(Reader, req[p].role) THEN Goto(p, "write") ELSE Reply(p, "ErrRoleNotFound")
  /\ UNCHANGED <<log, changed, applied, cache, req, kind, loaded>>

\* FindByName, on the reader, in CreateUseCase.
FindName(p) ==
  /\ pc[p] = "find"
  /\ req[p].op = "create"
  /\ IF Taken(Reader, req[p].name) THEN Reply(p, "ErrDuplicateRoleName")
                                   ELSE Goto(p, "write")
  /\ UNCHANGED <<log, changed, applied, cache, req, kind, loaded>>

\* Faulty: RowsAffected is not looked at.
AssignAgain(p) ==
  LET grant == <<req[p].user, req[p].role>>
  IN  /\ pc[p] = "write"
      /\ req[p].op = "assign"
      /\ Exists(Writer, req[p].role)
      /\ Commit(AssignRole(Writer, req[p].user, req[p].role))
      /\ changed' = IF grant \in Writer.grants THEN changed ELSE changed \cup {p}
      /\ Executed(p, "invalidate_perms")
      /\ UNCHANGED <<applied, cache, req, kind, loaded>>

\* AssignRole: INSERT ... ON CONFLICT DO NOTHING.  When its answer is lost the
\* role is assigned, and the entries of the user stay.
Assign(p) ==
  LET grant == <<req[p].user, req[p].role>>
  IN  /\ pc[p] = "write"
      /\ req[p].op = "assign"
      /\ \/ /\ ~Exists(Writer, req[p].role)     \* the foreign key refuses
            /\ Reply(p, "ErrInternal")
            /\ UNCHANGED <<log, changed>>
         \/ /\ grant \in Writer.grants
            /\ Reply(p, "ErrRoleAlreadyAssigned")
            /\ UNCHANGED <<log, changed>>
         \/ /\ Exists(Writer, req[p].role)
            /\ grant \notin Writer.grants
            /\ Commit(AssignRole(Writer, req[p].user, req[p].role))
            /\ changed' = changed \cup {p}
            /\ Executed(p, "invalidate_perms")
      /\ UNCHANGED <<applied, cache, req, kind, loaded>>

\* RevokeRole: a revoke of what is not assigned, and one whose answer is lost,
\* leaves before it invalidates.
Revoke(p) ==
  LET grant == <<req[p].user, req[p].role>>
  IN  /\ pc[p] = "write"
      /\ req[p].op = "revoke"
      /\ \/ /\ grant \notin Writer.grants
            /\ Reply(p, "ErrRoleNotAssigned")
            /\ UNCHANGED <<log, changed>>
         \/ /\ grant \in Writer.grants
            /\ Commit(RevokeRole(Writer, req[p].user, req[p].role))
            /\ changed' = changed \cup {p}
            /\ Executed(p, "invalidate_perms")
      /\ UNCHANGED <<applied, cache, req, kind, loaded>>

\* invalidateUserAuthCache: one entry, then the other.
Invalidate(p) ==
  /\ pc[p] \in {"invalidate_perms", "invalidate_roles"}
  /\ LET k == IF pc[p] = "invalidate_perms" THEN "perms" ELSE "roles"
     IN  \/ cache' = [cache EXCEPT ![CacheKey(k, req[p].user)] = None]
         \/ CacheFails /\ UNCHANGED cache
  /\ IF pc[p] = "invalidate_perms" THEN Goto(p, "invalidate_roles") ELSE Reply(p, "ok")
  /\ UNCHANGED <<log, changed, applied, req, kind, loaded>>

\* Delete: the role goes, and by ON DELETE CASCADE its assignments.
Delete(p) ==
  LET r == req[p].role
  IN  /\ pc[p] = "write"
      /\ req[p].op = "delete"
      /\ \/ /\ ~Exists(Writer, r)
            /\ Reply(p, "ErrRoleNotFound")
            /\ UNCHANGED log
         \/ /\ Exists(Writer, r)
            /\ Commit(DeleteRole(Writer, r))
            /\ \E answer \in {"ok", "ErrInternal"} : Reply(p, answer)
      /\ UNCHANGED <<changed, applied, cache, req, kind, loaded>>

\* Create: the unique index on roles.name has the last word.
Create(p) ==
  /\ pc[p] = "write"
  /\ req[p].op = "create"
  /\ \/ /\ Taken(Writer, req[p].name)
        /\ Reply(p, "ErrInternal")
        /\ UNCHANGED log
     \/ /\ ~Taken(Writer, req[p].name)
        /\ Commit(InsertRole(Writer, p, req[p].name))
        /\ \E answer \in {"ok", "ErrInternal"} : Reply(p, answer)
  /\ UNCHANGED <<changed, applied, cache, req, kind, loaded>>

-----------------------------------------------------------------------------
\* A database call fails before it changes anything; one that fails after it
\* did is a disjunct of Assign, Revoke, Delete and Create.
Fail(p) ==
  /\ pc[p] \in {"find", "write", "load"}
  /\ Reply(p, "ErrInternal")
  /\ UNCHANGED <<log, changed, applied, cache, req, kind, loaded>>

Replicate ==
  /\ applied < Len(log)
  /\ applied' = applied + 1
  /\ UNCHANGED <<log, changed, cache, pc, req, kind, loaded, result>>

\* Faulty: Set stores without a TTL.
NeverExpire(key) == FALSE /\ UNCHANGED vars

\* The TTL of an entry ends.
Expire(key) ==
  /\ cache[key] # None
  /\ cache' = [cache EXCEPT ![key] = None]
  /\ UNCHANGED <<log, changed, applied, pc, req, kind, loaded, result>>

Quiescent ==
  /\ \A p \in Requests : pc[p] = "done"
  /\ applied = Len(log)
  /\ UNCHANGED vars

Step(p) ==
  \/ GetCached(p) \/ LoadFromDB(p) \/ SetCached(p)
  \/ FindRole(p) \/ FindName(p) \/ Assign(p) \/ Revoke(p) \/ Invalidate(p)
  \/ Delete(p) \/ Create(p) \/ Fail(p)

Next ==
  \/ \E p \in Requests : Start(p) \/ Step(p)
  \/ \E key \in Kinds \X Users : Expire(key)
  \/ Replicate
  \/ Quiescent

\* Goroutines that serve a request run, the replica catches up and Redis ends every TTL.
Fairness ==
  /\ \A p \in Requests : WF_vars(Step(p))
  /\ \A key \in Kinds \X Users : WF_vars(Expire(key))
  /\ WF_vars(Replicate)

Spec == Init /\ [][Next]_vars /\ Fairness

-----------------------------------------------------------------------------
(***************************************************************************)
(* Properties.                                                             *)
(***************************************************************************)

PCs == {"idle", "get", "load", "set", "find", "write",
        "invalidate_perms", "invalidate_roles", "done"}

Answers == {"none", "allowed", "forbidden", "ok", "ErrRoleNotFound",
            "ErrDuplicateRoleName", "ErrRoleAlreadyAssigned",
            "ErrRoleNotAssigned", "ErrInternal"}

Lists == [perms : SUBSET Perms, roles : SUBSET Names]

\* A permissions entry holds permissions and a roles entry role names
\* (cachekeys.go:3-11); the tables hold rows of their types, no two roles of one
\* name, and no grant of a role that is not there, although the role is looked
\* up on the reader before the insert (assign.go:65, migration 20260402001).
TypeOK ==
  /\ \A i \in DOMAIN log : log[i] \in [name : [RoleIDs -> Names \cup {None}],
                                       grants : SUBSET (Users \X RoleIDs)]
  /\ \A i \in DOMAIN log :
       /\ \A g \in log[i].grants : Exists(log[i], g[2])
       /\ \A r, s \in RoleIDs :
            Exists(log[i], r) /\ log[i].name[r] = log[i].name[s] => r = s
  /\ changed \subseteq Requests
  /\ applied \in 1 .. Len(log)
  /\ \A u \in Users : /\ cache[<<"perms", u>>] \in (SUBSET Perms) \cup {None}
                      /\ cache[<<"roles", u>>] \in (SUBSET Names) \cup {None}
  /\ pc \in [Requests -> PCs]
  /\ req \in [Requests -> Inputs]
  /\ kind \in [Requests -> Kinds]
  /\ loaded \in [Requests -> Lists]
  /\ result \in [Requests -> Answers]

\* An allowed request had the permission, and the roles its handler sees were
\* the roles of its user, in some committed state of the database: neither
\* lag, nor a fill that races an invalidation, nor an entry that outlives its
\* role invents a right nobody gave (permission_loader.go:29-81).
AllowedWasGranted ==
  \A p \in Requests : result[p] = "allowed" =>
    /\ \E i \in DOMAIN log : req[p].perm \in UserPerms(log[i], req[p].user)
    /\ \E i \in DOMAIN log : loaded[p]["roles"] = UserRoles(log[i], req[p].user)

\* Who is told that a role was assigned or revoked changed it, and who changed
\* it is told so or gets an error of the server, never that somebody else had
\* done it; and as long as nobody deletes the role, the assigns and revokes that
\* changed it add up to whether the user has it.  Races and retries do not make
\* two requests claim one change, and a change whose answer was lost is one of
\* those that failed (role.go:203-248, assign.go:72-75, revoke.go:71-74).
AnswersAddUp ==
  /\ \A p \in Requests : req[p].op \in {"assign", "revoke"} =>
       /\ result[p] = "ok" => p \in changed
       /\ p \in changed => result[p] \in {"none", "ok", "ErrInternal"}
  /\ \A u \in Users, r \in Seeded :
       LET ops(op) == {p \in changed :
                         req[p].op = op /\ req[p].user = u /\ req[p].role = r}
           has(db) == IF <<u, r>> \in db.grants THEN 1 ELSE 0
       IN  (\A p \in Requests : req[p].op = "delete" => req[p].role # r)
           => Cardinality(ops("assign")) + has(log[1])
                = Cardinality(ops("revoke")) + has(Writer)

\* Stale entries do not stay: once no more requests come, the cache ends up
\* holding nothing but what the database says (client.go:102-111).
CacheConverges ==
  <>[](\A k \in Kinds, u \in Users :
         cache[CacheKey(k, u)] \in {None, Load(Writer, k, u)})
===============================================================================
