------------------------------ MODULE Idempotency ------------------------------
(***************************************************************************)
(* The Idempotency middleware and its Redis store.                         *)
(*                                                                         *)
(* A POST with an Idempotency-Key takes the key with SET NX, runs the rest *)
(* of the chain (the rate limits of module RateLimit, authentication,      *)
(* RequireIdempotencyKey, the handler) and stores the answer, or deletes   *)
(* the key after a 5xx.  A request that finds the key taken is refused or  *)
(* gets the stored answer.  The lock has a TTL that the running request    *)
(* does not extend, its owner is not recorded, and every failure of this   *)
(* store lets the request through.                                         *)
(***************************************************************************)
EXTENDS RateLimit

CONSTANTS
  Requests,  \* the requests of one behaviour, retries included
  Bodies,    \* request bodies; equal bodies have equal SHA-256 fingerprints
  Parts,     \* the ':'-separated parts of service names and keys
  None,      \* no entry, no answer yet
  Workloads, \* what the requests may be, and which of them there are
  Services,  \* the services with a key in SERVICE_KEYS
  ServiceKeysEnabled,  \* are service keys asked for
  Faults     \* what may go wrong, see below

AllFaults == {"store",           \* a Redis call fails, or the client has gone
                                 \* and cancelled the context it is made with
              "lock_expired",    \* 30 s pass while a request is in the chain
              "entry_expired",   \* 24 h pass
              "unknown_commit",  \* the commit succeeds and its answer is lost
              "crash"}           \* the process dies or the handler panics

\* A service name is one part or absent, a key any parts; a request that is
\* not a POST counts as one without a key.  token: a valid access token, or
\* none is asked for (set password); serviceKey: the key is the service's.
Input == [client : Clients, route : Routes, service : Seq(Parts), serviceKey : BOOLEAN,
          token : BOOLEAN, key : Seq(Parts), body : Bodies, keyRequired : BOOLEAN]

Inputs == UNION {{w[p] : p \in DOMAIN w} : w \in Workloads}

ASSUME FaultsAssumption == Faults \subseteq AllFaults
ASSUME InputsAssumption ==
  \A in \in Inputs : in \in Input /\ Len(in.service) <= 1
ASSUME WorkloadsAssumption == \A w \in Workloads : DOMAIN w \subseteq Requests
ASSUME ServicesAssumption == Services \subseteq Parts /\ ServiceKeysEnabled \in BOOLEAN

\* An answer, and the request whose chain produced it.
Codes == {200, 201, 400, 401, 404, 409, 422, 429, 500, 503}
Answers == [code : Codes, by : Requests]

\* redisstore's JSON: only final answers below 500 are in a COMPLETED entry.
Entries ==
  [status : {"PROCESSING"}, fingerprint : Bodies, answer : {None}]
    \cup [status : {"COMPLETED"}, fingerprint : Bodies,
          answer : [code : Codes \ {500, 503}, by : Requests]]

ASSUME NoneAssumption == None \notin Entries \cup Answers

\* buildIdempotencyKey: the service name, if any, and the key, joined by ':'.
FullKey(in) == in.service \o in.key

FullKeys == {FullKey(in) : in \in {in \in Inputs : in.key # << >>}}

\* Faulty: every answer is stored.
StoreAll(code) == code >= 200

\* shouldStoreResponse.
ShouldStore(code) == code >= 200 /\ code < 500

VARIABLES
  store,      \* Redis: the entry of each key
  pc,         \* the next step of each request
  req,        \* the request
  locked,     \* the requests that hold, or held, the lock of their key
  committed,  \* the requests whose handler committed its effect
  result,     \* the answer of each request, and the request it was made for
  lapsed      \* keys whose protection was lost to a fault (history variable)

ownVars == <<store, pc, req, locked, committed, result, lapsed>>
vars == <<ownVars, limiterVars>>

Sent == DOMAIN req
KeyOf(p) == FullKey(req[p])
LimitKey(p) == <<req[p].client, req[p].route>>

Processing(body) == [status |-> "PROCESSING", fingerprint |-> body, answer |-> None]
Completed(body, answer) ==
  [status |-> "COMPLETED", fingerprint |-> body, answer |-> answer]

\* RequireIdempotencyKey on the routes that create, import and reverse.
LacksKey(p) == req[p].keyRequired /\ req[p].key = << >>

\* ServiceKeyAuth: why the request is refused, or 0.
ServiceKeyAuth(p) ==
  IF ~ServiceKeysEnabled THEN 0
  ELSE IF Services = {} THEN 503
  ELSE IF req[p].serviceKey /\ \E s \in Services : req[p].service = <<s>> THEN 0
  ELSE 401

\* JWTAuth, likewise.
JWTAuth(p) == IF req[p].token THEN 0 ELSE 401

Unauthorized(p) == IF ServiceKeyAuth(p) # 0 THEN ServiceKeyAuth(p) ELSE JWTAuth(p)

IsProcessing(k) == store[k] # None /\ store[k].status = "PROCESSING"
-----------------------------------------------------------------------------
Init ==
  /\ store     = [k \in FullKeys |-> None]
  /\ req       \in Workloads
  /\ pc        = [p \in Requests |-> IF p \in Sent THEN "lock" ELSE "done"]
  /\ locked    = {}
  /\ committed = {}
  /\ result    = [p \in Requests |-> None]
  /\ lapsed    = {}
  /\ LimiterInit

Goto(p, step) == pc' = [pc EXCEPT ![p] = step]
Answer(p, code, by) == result' = [result EXCEPT ![p] = [code |-> code, by |-> by]]
\* A holder of the lock has its answer captured and goes on to Finish.
End(p) == Goto(p, IF p \in locked THEN "finish" ELSE "done")

Lapse(k) == lapsed' = lapsed \cup ({k} \cap FullKeys)

Keyed(p) == req[p].key # << >>

\* Other methods and requests without a key pass through.
Bypass(p) ==
  /\ pc[p] = "lock"
  /\ ~Keyed(p)
  /\ Goto(p, "limit")
  /\ UNCHANGED <<store, req, locked, committed, result, lapsed, limiterVars>>

\* Store.Lock: SET key NX EX lockTTL.
Lock(p) ==
  /\ pc[p] = "lock"
  /\ Keyed(p)
  /\ \/ /\ store[KeyOf(p)] = None
        /\ store' = [store EXCEPT ![KeyOf(p)] = Processing(req[p].body)]
        /\ locked' = locked \cup {p}
        /\ Goto(p, "limit")
     \/ /\ store[KeyOf(p)] # None
        /\ Goto(p, "get")
        /\ UNCHANGED <<store, locked>>
  /\ UNCHANGED <<req, committed, result, lapsed, limiterVars>>

\* The body cannot be read or Lock fails, before or after Redis executed it:
\* the request goes on without.
LockFails(p) ==
  /\ pc[p] = "lock"
  /\ Keyed(p)
  /\ "store" \in Faults
  /\ \/ UNCHANGED store
     \/ /\ store[KeyOf(p)] = None
        /\ store' = [store EXCEPT ![KeyOf(p)] = Processing(req[p].body)]
  /\ Goto(p, "limit")
  /\ Lapse(KeyOf(p))
  /\ UNCHANGED <<req, locked, committed, result, limiterVars>>

\* Faulty: the stored answer is replayed whatever the body is.
GetIgnoringBody(p) ==
  LET entry == store[KeyOf(p)]
  IN  /\ pc[p] = "get"
      /\ entry # None
      /\ IF entry.status = "PROCESSING" THEN Answer(p, 409, p)
         ELSE Answer(p, entry.answer.code, entry.answer.by)
      /\ Goto(p, "done")
      /\ UNCHANGED <<store, req, locked, committed, lapsed, limiterVars>>

\* Store.Get and what the entry says: in progress, another body, or a replay.
Get(p) ==
  LET entry == store[KeyOf(p)]
  IN  /\ pc[p] = "get"
      /\ entry # None
      /\ \/ /\ entry.status = "PROCESSING"
            /\ Answer(p, 409, p)
         \/ /\ entry.status = "COMPLETED"
            /\ entry.fingerprint # req[p].body
            /\ Answer(p, 422, p)
         \/ /\ entry.status = "COMPLETED"
            /\ entry.fingerprint = req[p].body
            /\ Answer(p, entry.answer.code, entry.answer.by)
      /\ Goto(p, "done")
      /\ UNCHANGED <<store, req, locked, committed, lapsed, limiterVars>>

\* The entry has gone since Lock, or Get fails: the request goes on without.
GetFails(p) ==
  /\ pc[p] = "get"
  /\ store[KeyOf(p)] = None \/ "store" \in Faults
  /\ Goto(p, "limit")
  /\ Lapse(KeyOf(p))
  /\ UNCHANGED <<store, req, locked, committed, result, limiterVars>>

\* The limiters.  A request they turn away is answered 429, and a request to
\* /auth 503 if Redis fails; any other request goes on without.
Refuse(p) ==
  /\ Answer(p, 429, p)
  /\ End(p)

AfterLimit(p) == IF req[p].route = "auth" THEN "authLimit" ELSE "chain"

GlobalLimit(p) ==
  LET k == LimitKey(p)
  IN  /\ pc[p] = "limit"
      /\ window' = Counted(k, p, pc[p])
      /\ \/ /\ Allowed(k, Limit)
            /\ admitted' = IF req[p].route = "api" THEN admitted \cup {p} ELSE admitted
            /\ Goto(p, AfterLimit(p))
            /\ UNCHANGED result
         \/ /\ ~Allowed(k, Limit)
            /\ Refuse(p)
            /\ UNCHANGED admitted
      /\ UNCHANGED <<store, req, locked, committed, lapsed>>

AuthRouteLimit(p) ==
  LET k == LimitKey(p)
  IN  /\ pc[p] = "authLimit"
      /\ window' = Counted(k, p, pc[p])
      /\ \/ /\ Allowed(k, AuthLimit)
            /\ admitted' = admitted \cup {p}
            /\ Goto(p, "chain")
            /\ UNCHANGED result
         \/ /\ ~Allowed(k, AuthLimit)
            /\ Refuse(p)
            /\ UNCHANGED admitted
      /\ UNCHANGED <<store, req, locked, committed, lapsed>>

\* Faulty: /auth fails open as well.
LimitFailsOpen(p) ==
  /\ pc[p] \in {"limit", "authLimit"}
  /\ "store" \in Faults
  /\ window' \in {window, Counted(LimitKey(p), p, pc[p])}
  /\ Goto(p, IF pc[p] = "limit" THEN AfterLimit(p) ELSE "chain")
  /\ UNCHANGED <<store, req, locked, committed, result, lapsed, admitted>>

\* Store.Allow fails, before or after Redis counted the request.
LimitFails(p) ==
  /\ pc[p] \in {"limit", "authLimit"}
  /\ "store" \in Faults
  /\ window' \in {window, Counted(LimitKey(p), p, pc[p])}
  /\ \/ /\ pc[p] = "limit"
        /\ Goto(p, AfterLimit(p))
        /\ UNCHANGED result
     \/ /\ pc[p] = "authLimit"
        /\ Answer(p, 503, p)
        /\ End(p)
  /\ UNCHANGED <<store, req, locked, committed, lapsed, admitted>>

\* The rest of the chain of a protected route: authentication,
\* RequireIdempotencyKey and the handler.
Chain(p) ==
  /\ pc[p] = "chain" /\ req[p].route = "api"
  /\ \/ /\ Unauthorized(p) # 0
        /\ Answer(p, Unauthorized(p), p)
        /\ UNCHANGED <<committed, lapsed>>
     \/ /\ Unauthorized(p) = 0 /\ LacksKey(p)
        /\ Answer(p, 400, p)
        /\ UNCHANGED <<committed, lapsed>>
     \/ /\ Unauthorized(p) = 0 /\ ~LacksKey(p)
        /\ \/ /\ Answer(p, 201, p)                 \* the handler succeeds,
              /\ committed' = committed \cup {p}
              /\ UNCHANGED lapsed
           \/ /\ \E code \in {404, 500} : Answer(p, code, p)   \* refuses, fails
              /\ UNCHANGED <<committed, lapsed>>
           \/ /\ "unknown_commit" \in Faults       \* or fails after its commit
              /\ Answer(p, 500, p)
              /\ committed' = committed \cup {p}
              /\ Lapse(KeyOf(p))
  /\ End(p)
  /\ UNCHANGED <<store, req, locked, limiterVars>>

\* Login and refresh write nothing.
AuthChain(p) ==
  /\ pc[p] = "chain" /\ req[p].route = "auth"
  /\ \E code \in {200, 400, 401, 500} : Answer(p, code, p)
  /\ End(p)
  /\ UNCHANGED <<store, req, locked, committed, lapsed, limiterVars>>

\* Faulty: the key is released after every answer.
FinishUnlocking(p) ==
  /\ pc[p] = "finish"
  /\ store' = [store EXCEPT ![KeyOf(p)] = None]
  /\ Goto(p, "done")
  /\ UNCHANGED <<req, locked, committed, result, lapsed, limiterVars>>

\* Store.Complete or Store.Unlock, whoever's entry the key holds by now.
Finish(p) ==
  /\ pc[p] = "finish"
  /\ store' = [store EXCEPT ![KeyOf(p)] =
       IF ShouldStore(result[p].code) THEN Completed(req[p].body, result[p]) ELSE None]
  /\ Goto(p, "done")
  /\ UNCHANGED <<req, locked, committed, result, lapsed, limiterVars>>

\* They fail, which is logged; the entry stays as it is until it expires.
FinishFails(p) ==
  /\ pc[p] = "finish"
  /\ "store" \in Faults
  /\ Goto(p, "done")
  /\ UNCHANGED <<store, req, locked, committed, result, lapsed, limiterVars>>

\* The process dies, or the handler panics past the code that would finish.
Crash(p) ==
  /\ "crash" \in Faults
  /\ pc[p] \in {"limit", "authLimit", "chain", "finish"}
  /\ Goto(p, "done")
  /\ UNCHANGED <<store, req, locked, committed, result, lapsed, limiterVars>>

\* A request of the key is not finished, and would unlock the next one, or
\* committed and is now forgotten.
Exposed(k) ==
  \E p \in Sent :
    /\ KeyOf(p) = k
    /\ \/ p \in locked /\ pc[p] \in {"limit", "authLimit", "chain", "finish"}
       \/ p \in committed

\* Faulty: Lock sets no TTL.
ExpireCompleted(k) ==
  /\ store[k] # None
  /\ ~IsProcessing(k)
  /\ "entry_expired" \in Faults
  /\ store' = [store EXCEPT ![k] = None]
  /\ lapsed' = IF Exposed(k) THEN lapsed \cup {k} ELSE lapsed
  /\ UNCHANGED <<pc, req, locked, committed, result, limiterVars>>

\* The TTL of an entry ends.  A lock outlives the chain it was taken for
\* unless "lock_expired" is possible.
Expire(k) ==
  /\ store[k] # None
  /\ \/ IsProcessing(k) /\ "lock_expired" \in Faults
     \/ /\ IsProcessing(k)
        /\ \A p \in locked : KeyOf(p) = k => pc[p] = "done"
     \/ ~IsProcessing(k) /\ "entry_expired" \in Faults
  /\ store' = [store EXCEPT ![k] = None]
  /\ lapsed' = IF Exposed(k) THEN lapsed \cup {k} ELSE lapsed
  /\ UNCHANGED <<pc, req, locked, committed, result, limiterVars>>

Quiescent ==
  /\ \A p \in Requests : pc[p] = "done"
  /\ UNCHANGED vars

\* The window of a counter ends while a request may still be counted in it.
WindowEnds(k) ==
  /\ \E p \in Sent : LimitKey(p) = k /\ pc[p] \in {"lock", "get", "limit", "authLimit"}
  /\ CloseWindow(k)
  /\ UNCHANGED ownVars

Step(p) ==
  \/ Bypass(p) \/ Lock(p) \/ LockFails(p) \/ Get(p) \/ GetFails(p)
  \/ GlobalLimit(p) \/ AuthRouteLimit(p) \/ LimitFails(p)
  \/ Chain(p) \/ AuthChain(p) \/ Finish(p) \/ FinishFails(p) \/ Crash(p)

Next ==
  \/ \E p \in Requests : Step(p)
  \/ \E k \in FullKeys : Expire(k)
  \/ \E k \in LimitKeys : WindowEnds(k)
  \/ Quiescent

\* Redis ends a TTL and gin runs a request that has come to its end.
Fairness ==
  /\ \A p \in Requests : WF_vars(pc[p] # "lock" /\ Step(p))
  /\ \A k \in FullKeys : WF_vars(IsProcessing(k) /\ Expire(k))

Spec == Init /\ [][Next]_vars /\ Fairness

-----------------------------------------------------------------------------
(***************************************************************************)
(* Properties.                                                             *)
(***************************************************************************)

Steps == {"lock", "get", "limit", "authLimit", "chain", "finish", "done"}

\* Entries and answers are those the middleware builds (store.go:6-11).
TypeOK ==
  /\ store \in [FullKeys -> Entries \cup {None}]
  /\ pc \in [Requests -> Steps]
  /\ req \in Workloads
  /\ result \in [Requests -> Answers \cup {None}]
  /\ locked \subseteq Requests
  /\ committed \subseteq Requests
  /\ lapsed \subseteq FullKeys
  /\ window \in [LimitKeys -> SUBSET (Requests \X Limiters)]
  /\ admitted \subseteq Requests

\* However requests with one key overlap and retry, one of them commits,
\* until a fault ends the protection of the key: an entry that expires while
\* it still protects something, a Redis error (fail-open) or a commit
\* reported as a 5xx (idempotency.go:46-48).  A crash alone is no such fault.
AtMostOnce ==
  \A p, q \in committed :
    Keyed(p) /\ Keyed(q) /\ KeyOf(p) = KeyOf(q) /\ KeyOf(p) \notin lapsed => p = q

\* An answer given in place of the handler's is the one a request with the
\* same key and the same body got from it, and a 201 is never given for an
\* effect that was not committed, even by a request whose lock had expired
\* or was deleted by another (idempotency.go:113-127).
ReplayFaithful ==
  \A p \in Requests : result[p] # None =>
    LET q == result[p].by
    IN  /\ result[p].code = 201 => q \in committed
        /\ p # q => /\ KeyOf(p) = KeyOf(q)
                    /\ req[p].body = req[q].body
                    /\ result[q] = result[p]

\* What the requests let through in one window have cost its counter is within
\* the limit, whichever limiters count and however their steps interleave: of
\* the requests to /auth, which cost two each, half the limit gets through
\* (router.go:88-94, 105-112).
WindowSpent ==
  \A c \in Clients, r \in Routes :
    Cardinality({ticket \in window[<<c, r>>] : ticket[1] \in admitted})
      <= IF r = "auth" THEN AuthLimit ELSE Limit

\* No password is tried uncounted, while Redis fails or not: an answer of the
\* handlers of /auth, replayed ones included, is that of a request that the
\* limiter counted and let through (ratelimit.go:49-56).
AuthCounted ==
  \A p \in Sent :
    /\ result[p] # None
    /\ result[p].code \in {200, 400, 401}
    /\ req[result[p].by].route = "auth"
    => result[p].by \in admitted

\* A key is not blocked for ever: whatever happens to the request that took
\* it, it is completed, released or expired (redisstore/store.go:44-48).
KeyFreed ==
  \A k \in FullKeys : IsProcessing(k) ~> ~IsProcessing(k)

-----------------------------------------------------------------------------
(***************************************************************************)
(* What a comment says and the code does not do.                           *)
(***************************************************************************)

\* "2xx and 4xx are deterministic and should be stored" (idempotency.go:175):
\* a request is told 429 only if the rate limiter turned it away.
LimitedOnlyIfRefused ==
  \A p \in Requests :
    result[p] # None /\ result[p].code = 429 => result[p].by = p
===============================================================================
