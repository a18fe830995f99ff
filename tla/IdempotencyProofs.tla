--------------------------- MODULE IdempotencyProofs ---------------------------
(***************************************************************************)
(* What the middleware promises, proved for any number of requests, keys,  *)
(* bodies and clients and for any faults: at most one request of a         *)
(* protected key commits, a replay is the answer the handler gave to the   *)
(* same body, every answer of the handlers of /auth was counted, and no    *)
(* window of a counter is overspent.                                       *)
(***************************************************************************)
EXTENDS Idempotency, FiniteSetTheorems, TLAPS

-----------------------------------------------------------------------------
(***************************************************************************)
(* The inductive invariant.                                                *)
(***************************************************************************)

InChain(p) == pc[p] \in {"limit", "authLimit", "chain"}

\* Request p would unlock its key, or has committed under it.
Active(p) == p \in committed \/ (p \in locked /\ pc[p] # "done")

\* Where a request is says what it holds: only a fault lets a request with a
\* key into the chain without the lock, and only one that holds it ends there.
StageOf(p) ==
  /\ pc[p] # "done" \/ p \in locked \/ p \in committed => p \in Sent
  /\ pc[p] = "get" => Keyed(p)
  /\ p \in locked => Keyed(p) /\ pc[p] \notin {"lock", "get"}
  /\ pc[p] = "finish" => p \in locked /\ result[p] \in Answers /\ result[p].by = p
  /\ InChain(p) /\ Keyed(p) /\ KeyOf(p) \notin lapsed => p \in locked
  /\ p \in committed => pc[p] \in {"finish", "done"}
  /\ p \in committed /\ Keyed(p) /\ KeyOf(p) \notin lapsed => result[p].code = 201
  /\ pc[p] = "authLimit" => req[p].route = "auth"

Stages == \A p \in Requests : StageOf(p)

\* A protected key has one request that matters, and an entry while it has.
Alone(p, q) ==
  /\ Keyed(p) /\ Keyed(q)
  /\ KeyOf(p) = KeyOf(q) /\ KeyOf(p) \notin lapsed
  /\ Active(p) /\ Active(q)
  => p = q

Exclusive == \A p, q \in Sent : Alone(p, q)

Held ==
  \A p \in Sent :
    Keyed(p) /\ Active(p) /\ KeyOf(p) \notin lapsed => store[KeyOf(p)] # None

\* The answer of request q, which is over, was given for this key and body.
GivenBy(q, answer, key, body) ==
  /\ q \in Sent
  /\ pc[q] = "done"
  /\ result[q] = answer
  /\ KeyOf(q) = key
  /\ req[q].body = body

\* What is stored, and what was replayed, is the answer of a request.
StoredFaithful ==
  \A k \in FullKeys : store[k] # None /\ store[k].status = "COMPLETED" =>
    GivenBy(store[k].answer.by, store[k].answer, k, store[k].fingerprint)

AnsweredFaithful ==
  \A p \in Requests : result[p] # None =>
    /\ p \in Sent
    /\ pc[p] \in {"finish", "done"}
    /\ result[p].code = 201 => result[p].by \in committed
    /\ p # result[p].by =>
         GivenBy(result[p].by, result[p], KeyOf(p), req[p].body)

Faithful == StoredFaithful /\ AnsweredFaithful

\* A request reaches the handlers of /auth past the stricter limiter only.
AuthAdmitted ==
  \A p \in Sent : pc[p] = "chain" /\ req[p].route = "auth" => p \in admitted

BeforeLimit(p) == pc[p] \in {"lock", "get", "limit"}
BeforeAuthLimit(p) == BeforeLimit(p) \/ pc[p] = "authLimit"

\* A limiter has counted a request, in the window of its client and route, only
\* if the request is past it.
TicketsInTime ==
  \A k \in LimitKeys, p \in Requests :
    /\ <<p, "limit">> \in window[k] => ~BeforeLimit(p) /\ k = LimitKey(p)
    /\ <<p, "authLimit">> \in window[k] => ~BeforeAuthLimit(p) /\ k = LimitKey(p)

\* A request is admitted by the last of its limiters.
AdmittedLast ==
  \A p \in admitted : p \in Sent /\ ~BeforeAuthLimit(p)

FiniteWindows == \A k \in LimitKeys : IsFiniteSet(window[k])

LimitOf(k) == IF k[2] = "auth" THEN AuthLimit ELSE Limit

\* The tickets of the requests that were let through.
Spent(k) == {ticket \in window[k] : ticket[1] \in admitted}

\* What has been counted and let through in a window is within its limit.
NotOverspent == \A k \in LimitKeys : Cardinality(Spent(k)) <= LimitOf(k)

\* What the requests of a behaviour are.
LEMMA RequestType ==
  ASSUME TypeOK, NEW p \in Sent
  PROVE  /\ p \in Requests
         /\ req[p].body \in Bodies
         /\ req[p].route \in Routes
         /\ LimitKey(p) \in LimitKeys
         /\ Keyed(p) => KeyOf(p) \in FullKeys
  <1>1. req[p] \in Inputs /\ p \in Requests
    BY WorkloadsAssumption DEF Sent, Inputs, TypeOK
  <1>2. req[p] \in Input
    BY <1>1, InputsAssumption
  <1> QED
    BY <1>1, <1>2 DEF Input, LimitKey, LimitKeys, Keyed, KeyOf, FullKeys

-----------------------------------------------------------------------------
(***************************************************************************)
(* Type correctness.                                                       *)
(***************************************************************************)

\* Moving on, and being answered, stay within the steps and the answers.
LEMMA ControlType ==
  ASSUME TypeOK, NEW p \in Requests
  PROVE  /\ \A s \in Steps : Goto(p, s) => pc' \in [Requests -> Steps]
         /\ End(p) => pc' \in [Requests -> Steps]
         /\ \A code \in Codes, q \in Requests :
              Answer(p, code, q) => result' \in [Requests -> Answers \cup {None}]
  BY DEF TypeOK, Goto, End, Answer, Answers, Steps

\* What the entries of a key are.
LEMMA EntryType ==
  /\ \A b \in Bodies : Processing(b) \in Entries
  /\ \A b \in Bodies, a \in Answers : ShouldStore(a.code) => Completed(b, a) \in Entries
  /\ \A e \in Entries : e.status = "COMPLETED" =>
       e.fingerprint \in Bodies /\ e.answer \in Answers
  BY DEF Entries, Processing, Completed, Answers, Codes, ShouldStore

\* Every step of the middleware keeps the types.
LEMMA NextTypeOK ==
  ASSUME TypeOK, Stages, [Next]_vars PROVE TypeOK'
  <1> USE DEF Steps, Codes
  <1>1. ASSUME NEW p \in Requests, Bypass(p) PROVE TypeOK'
    BY <1>1, ControlType DEF Bypass, TypeOK, limiterVars
  <1>2. ASSUME NEW p \in Requests, Lock(p) PROVE TypeOK'
    <2>1. pc' \in [Requests -> Steps]
      BY <1>2, ControlType DEF Lock
    <2>2. p \in Sent
      BY <1>2 DEF Lock, Stages, StageOf
    <2>3. store' \in [FullKeys -> Entries \cup {None}]
      BY <1>2, <2>2, RequestType, EntryType DEF Lock, TypeOK
    <2> QED
      BY <1>2, <2>1, <2>3 DEF Lock, TypeOK, limiterVars
  <1>3. ASSUME NEW p \in Requests, LockFails(p) PROVE TypeOK'
    <2>1. pc' \in [Requests -> Steps]
      BY <1>3, ControlType DEF LockFails
    <2>2. p \in Sent
      BY <1>3 DEF LockFails, Stages, StageOf
    <2>3. store' \in [FullKeys -> Entries \cup {None}]
      BY <1>3, <2>2, RequestType, EntryType DEF LockFails, TypeOK
    <2> QED
      BY <1>3, <2>1, <2>3 DEF LockFails, Lapse, TypeOK, limiterVars
  <1>4. ASSUME NEW p \in Requests, Get(p) PROVE TypeOK'
    <2>1. pc' \in [Requests -> Steps]
      BY <1>4, ControlType DEF Get
    <2>2. p \in Sent /\ Keyed(p)
      BY <1>4 DEF Get, Stages, StageOf
    <2>3. store[KeyOf(p)] \in Entries
      BY <1>4, <2>2, RequestType DEF Get, TypeOK
    <2>4. result' \in [Requests -> Answers \cup {None}]
      <3>1. CASE store[KeyOf(p)].status = "PROCESSING"
        BY <1>4, <3>1, ControlType DEF Get
      <3>2. CASE store[KeyOf(p)].status = "COMPLETED"
        <4>1. /\ store[KeyOf(p)].answer.code \in Codes
              /\ store[KeyOf(p)].answer.by \in Requests
          BY <2>3, <3>2, EntryType DEF Answers
        <4> QED
          BY <1>4, <3>2, <4>1, ControlType DEF Get
      <3> QED
        BY <2>3, <3>1, <3>2 DEF Entries
    <2> QED
      BY <1>4, <2>1, <2>4 DEF Get, TypeOK, limiterVars
  <1>5. ASSUME NEW p \in Requests, GetFails(p) PROVE TypeOK'
    BY <1>5, ControlType DEF GetFails, Lapse, TypeOK, limiterVars
  <1>6. ASSUME NEW p \in Requests, GlobalLimit(p) \/ AuthRouteLimit(p) \/ LimitFails(p)
        PROVE  TypeOK'
    <2>1. p \in Sent
      BY <1>6 DEF GlobalLimit, AuthRouteLimit, LimitFails, Stages, StageOf
    <2>2. /\ window' = window \/ window' = Counted(LimitKey(p), p, pc[p])
          /\ pc[p] \in Limiters
      BY <1>6 DEF GlobalLimit, AuthRouteLimit, LimitFails, Limiters
    <2>3. window' \in [LimitKeys -> SUBSET (Requests \X Limiters)]
      BY <2>2 DEF Counted, TypeOK
    <2>4. pc' \in [Requests -> Steps] /\ result' \in [Requests -> Answers \cup {None}]
      BY <1>6, ControlType
      DEF GlobalLimit, AuthRouteLimit, LimitFails, Refuse, AfterLimit, TypeOK
    <2> QED
      BY <1>6, <2>3, <2>4 DEF GlobalLimit, AuthRouteLimit, LimitFails, TypeOK
  <1>7. ASSUME NEW p \in Requests, Chain(p) \/ AuthChain(p) PROVE TypeOK'
    <2>1. Unauthorized(p) \in {0, 401, 503}
      BY DEF Unauthorized, ServiceKeyAuth, JWTAuth
    <2>2. pc' \in [Requests -> Steps] /\ result' \in [Requests -> Answers \cup {None}]
      BY <1>7, <2>1, ControlType DEF Chain, AuthChain
    <2> QED
      BY <1>7, <2>2 DEF Chain, AuthChain, Lapse, TypeOK, limiterVars
  <1>8. ASSUME NEW p \in Requests, Finish(p) PROVE TypeOK'
    <2>1. p \in Sent /\ Keyed(p) /\ result[p] \in Answers
      BY <1>8 DEF Finish, Stages, StageOf
    <2>2. store' \in [FullKeys -> Entries \cup {None}]
      BY <1>8, <2>1, RequestType, EntryType DEF Finish, TypeOK
    <2> QED
      BY <1>8, <2>2, ControlType DEF Finish, TypeOK, limiterVars
  <1>9. ASSUME NEW p \in Requests, FinishFails(p) \/ Crash(p) PROVE TypeOK'
    BY <1>9, ControlType DEF FinishFails, Crash, TypeOK, limiterVars
  <1>10. ASSUME NEW k \in FullKeys, Expire(k) PROVE TypeOK'
    BY <1>10 DEF Expire, TypeOK, limiterVars
  <1>11. ASSUME NEW k \in LimitKeys, WindowEnds(k) PROVE TypeOK'
    BY <1>11 DEF WindowEnds, CloseWindow, ownVars, TypeOK
  <1>12. CASE Quiescent \/ UNCHANGED vars
    BY <1>12 DEF Quiescent, vars, ownVars, limiterVars, TypeOK
  <1> QED
    BY <1>1, <1>2, <1>3, <1>4, <1>5, <1>6, <1>7, <1>8, <1>9, <1>10, <1>11, <1>12
    DEF Next, Step

-----------------------------------------------------------------------------
(***************************************************************************)
(* What a step may change.                                                 *)
(***************************************************************************)

\* Requests do not change, and neither a lock that was held, an effect that
\* was committed nor a protection that was lost is undone.
LEMMA NextGrows ==
  ASSUME [Next]_vars
  PROVE  /\ req' = req
         /\ lapsed \subseteq lapsed'
         /\ locked \subseteq locked'
         /\ committed \subseteq committed'
         /\ admitted \subseteq admitted'
  <1>1. ASSUME NEW p \in Requests, Step(p)
        PROVE  /\ req' = req
               /\ lapsed \subseteq lapsed'
               /\ locked \subseteq locked'
               /\ committed \subseteq committed'
               /\ admitted \subseteq admitted'
    BY <1>1 DEF Step, Bypass, Lock, LockFails, Get, GetFails, GlobalLimit, AuthRouteLimit,
                LimitFails, Chain, AuthChain, Finish, FinishFails, Crash, Lapse, limiterVars
  <1>2. ASSUME NEW k, Expire(k) \/ WindowEnds(k)
        PROVE  /\ req' = req
               /\ lapsed \subseteq lapsed'
               /\ locked \subseteq locked'
               /\ committed \subseteq committed'
               /\ admitted \subseteq admitted'
    BY <1>2 DEF Expire, WindowEnds, CloseWindow, limiterVars, ownVars
  <1> QED
    BY <1>1, <1>2 DEF Next, Quiescent, vars, ownVars, limiterVars

\* A step of one request moves no other.
LEMMA StepIsOwn ==
  ASSUME TypeOK, NEW p \in Requests, Step(p), NEW q \in Requests, q # p
  PROVE  /\ pc'[q] = pc[q]
         /\ result'[q] = result[q]
         /\ q \in locked' <=> q \in locked
         /\ q \in committed' <=> q \in committed
         /\ q \in admitted' <=> q \in admitted
  <1>1. ASSUME NEW s, Goto(p, s) PROVE pc'[q] = pc[q]
    BY <1>1 DEF Goto, TypeOK
  <1>2. ASSUME NEW code, NEW r, Answer(p, code, r) PROVE result'[q] = result[q]
    BY <1>2 DEF Answer, TypeOK
  <1>3. pc'[q] = pc[q]
    BY <1>1
    DEF Step, Bypass, Lock, LockFails, Get, GetFails, GlobalLimit, AuthRouteLimit,
        LimitFails, Chain, AuthChain, Finish, FinishFails, Crash, Refuse, End
  <1>4. result'[q] = result[q]
    BY <1>2
    DEF Step, Bypass, Lock, LockFails, Get, GetFails, GlobalLimit, AuthRouteLimit,
        LimitFails, Chain, AuthChain, Finish, FinishFails, Crash, Refuse
  <1>5. /\ locked' \subseteq locked \cup {p}
        /\ committed' \subseteq committed \cup {p}
        /\ admitted' \subseteq admitted \cup {p}
    BY DEF Step, Bypass, Lock, LockFails, Get, GetFails, GlobalLimit, AuthRouteLimit,
           LimitFails, Chain, AuthChain, Finish, FinishFails, Crash, limiterVars
  <1> QED
    BY <1>3, <1>4, <1>5, NextGrows DEF Next

\* The steps that are no request's move none.
LEMMA OtherSteps ==
  ASSUME [Next]_vars, ~\E p \in Requests : Step(p)
  PROVE  /\ UNCHANGED <<pc, req, locked, committed, result, admitted>>
         /\ \/ store' = store
            \/ \E k \in FullKeys : Expire(k)
  BY DEF Next, Expire, WindowEnds, CloseWindow, Quiescent, vars, ownVars, limiterVars

\* Losing the protection of a request's key is remembered.
LEMMA LapseMarks ==
  ASSUME TypeOK, NEW p \in Sent, Keyed(p), Lapse(KeyOf(p))
  PROVE  KeyOf(p) \in lapsed'
  BY RequestType DEF Lapse

-----------------------------------------------------------------------------
(***************************************************************************)
(* At most one effect.                                                     *)
(***************************************************************************)

\* Only a fault takes a request with a key into the chain without its lock.
LEMMA NextStages ==
  ASSUME TypeOK, Stages, [Next]_vars PROVE Stages'
  <1>0. req' = req /\ Sent' = Sent /\ lapsed \subseteq lapsed'
    BY NextGrows DEF Sent
  <1> SUFFICES ASSUME NEW q \in Requests PROVE StageOf(q)'
    BY DEF Stages
  <1>1. StageOf(q)
    BY DEF Stages
  <1>2. ASSUME /\ pc'[q] = pc[q]
               /\ result'[q] = result[q]
               /\ q \in locked' <=> q \in locked
               /\ q \in committed' <=> q \in committed
        PROVE  StageOf(q)'
    BY <1>0, <1>1, <1>2 DEF StageOf, InChain, Keyed, KeyOf
  <1>3. ASSUME NEW p \in Requests, Step(p), p # q PROVE StageOf(q)'
    BY <1>2, <1>3, StepIsOwn
  <1>4. ASSUME Step(q) PROVE StageOf(q)'
    <2>0. q \in Sent
      BY <1>1, <1>4
      DEF StageOf, Step, Bypass, Lock, LockFails, Get, GetFails, GlobalLimit,
          AuthRouteLimit, LimitFails, Chain, AuthChain, Finish, FinishFails, Crash
    <2> USE DEF StageOf, InChain, Goto
    <2>1. CASE Bypass(q) \/ Lock(q)
      BY <1>0, <1>1, <2>0, <2>1 DEF Bypass, Lock, Keyed, KeyOf, TypeOK
    <2>2. CASE LockFails(q) \/ GetFails(q)
      <3>1. Keyed(q) /\ Lapse(KeyOf(q))
        BY <1>1, <2>2 DEF LockFails, GetFails
      <3>2. KeyOf(q) \in lapsed'
        BY <2>0, <3>1, LapseMarks
      <3> QED
        BY <1>0, <1>1, <2>0, <2>2, <3>1, <3>2 DEF LockFails, GetFails, Keyed, KeyOf, TypeOK
    <2>3. CASE Get(q)
      BY <1>0, <1>1, <2>0, <2>3 DEF Get, Keyed, KeyOf, TypeOK
    <2>4. CASE GlobalLimit(q) \/ AuthRouteLimit(q) \/ LimitFails(q)
      BY <1>0, <1>1, <2>0, <2>4
      DEF GlobalLimit, AuthRouteLimit, LimitFails, AfterLimit, Refuse, End, Answer, Answers,
          Codes, Keyed, KeyOf, TypeOK
    <2>5. CASE Chain(q)
      <3>1. Unauthorized(q) \in {0, 401, 503}
        BY DEF Unauthorized, ServiceKeyAuth, JWTAuth
      <3>2. /\ pc' = [pc EXCEPT ![q] = IF q \in locked THEN "finish" ELSE "done"]
            /\ locked' = locked
            /\ \/ committed' = committed
               \/ result'[q].code = 201
               \/ Lapse(KeyOf(q))
        BY <2>5 DEF Chain, End, Answer, TypeOK
      <3>3. result'[q] \in Answers /\ result'[q].by = q
        BY <2>5, <3>1 DEF Chain, Answer, Answers, Codes, TypeOK
      <3> QED
        BY <1>0, <1>1, <2>0, <2>5, <3>2, <3>3, LapseMarks
        DEF Chain, Keyed, KeyOf, TypeOK
    <2>6. CASE AuthChain(q)
      BY <1>0, <1>1, <2>0, <2>6
      DEF AuthChain, End, Answer, Answers, Codes, Keyed, KeyOf, TypeOK
    <2>7. CASE Finish(q) \/ FinishFails(q) \/ Crash(q)
      BY <1>0, <1>1, <2>0, <2>7 DEF Finish, FinishFails, Crash, Keyed, KeyOf, TypeOK
    <2> QED
      BY <1>4, <2>1, <2>2, <2>3, <2>4, <2>5, <2>6, <2>7 DEF Step
  <1>5. ASSUME ~\E p \in Requests : Step(p) PROVE StageOf(q)'
    BY <1>2, <1>5, OtherSteps
  <1> QED
    BY <1>3, <1>4, <1>5

\* A request comes to matter for its key with the lock, and only then.
LEMMA ActiveBegins ==
  ASSUME TypeOK, Stages, [Next]_vars,
         NEW q \in Sent, Keyed(q), KeyOf(q) \notin lapsed', Active(q)'
  PROVE  Active(q) \/ (Lock(q) /\ store[KeyOf(q)] = None)
  <1>0. q \in Requests /\ StageOf(q) /\ KeyOf(q) \notin lapsed
    BY RequestType, NextGrows DEF Stages
  <1>1. ASSUME pc'[q] = pc[q], q \in locked' <=> q \in locked,
               q \in committed' <=> q \in committed
        PROVE  Active(q)
    BY <1>1 DEF Active
  <1>2. ASSUME NEW p \in Requests, Step(p), p # q PROVE Active(q)
    BY <1>0, <1>1, <1>2, StepIsOwn
  <1>3. CASE ~\E p \in Requests : Step(p)
    BY <1>1, <1>3, OtherSteps
  <1>4. CASE Lock(q)
    BY <1>0, <1>4 DEF Lock, Active, StageOf
  <1>5. CASE Step(q) /\ ~Lock(q)
    <2>1. pc[q] # "done" /\ locked' = locked
      BY <1>5 DEF Step, Bypass, LockFails, Get, GetFails, GlobalLimit, AuthRouteLimit,
                  LimitFails, Chain, AuthChain, Finish, FinishFails, Crash
    <2>2. committed' = committed \/ pc[q] = "chain"
      BY <1>5 DEF Step, Bypass, LockFails, Get, GetFails, GlobalLimit, AuthRouteLimit,
                  LimitFails, Chain, AuthChain, Finish, FinishFails, Crash
    <2> QED
      BY <1>0, <2>1, <2>2 DEF Active, StageOf, InChain
  <1> QED
    BY <1>2, <1>3, <1>4, <1>5

\* Two requests with one key are never both between SET NX and the end, nor
\* does one commit after the other, unless a fault let one through.
LEMMA NextExclusive ==
  ASSUME TypeOK, Stages, Exclusive, Held, [Next]_vars PROVE Exclusive'
  <1>0. req' = req /\ Sent' = Sent /\ lapsed \subseteq lapsed'
    BY NextGrows DEF Sent
  <1> SUFFICES ASSUME NEW p \in Sent, NEW q \in Sent,
                      Keyed(p), Keyed(q), KeyOf(p) = KeyOf(q), KeyOf(p) \notin lapsed',
                      Active(p)', Active(q)', p # q
               PROVE  FALSE
    BY <1>0 DEF Exclusive, Alone, Keyed, KeyOf
  <1>1. ASSUME NEW r \in Sent, NEW s \in Sent, r # s, KeyOf(r) = KeyOf(s), Keyed(s),
               KeyOf(s) \notin lapsed', Lock(r), store[KeyOf(r)] = None, Active(s)'
        PROVE  FALSE
    <2>1. r \in Requests /\ s \in Requests
      BY RequestType
    <2>2. ~Active(s)
      BY <1>0, <1>1 DEF Held
    <2>3. Lock(s)
      BY <1>1, <2>2, ActiveBegins
    <2>4. pc'[s] = pc[s]
      BY <1>1, <2>1, StepIsOwn DEF Step
    <2> QED
      BY <2>1, <2>3, <2>4 DEF Lock, Goto, TypeOK
  <1>2. Active(p) /\ Active(q)
    BY <1>1, ActiveBegins
  <1> QED
    BY <1>0, <1>2 DEF Exclusive, Alone

\* The entry of a protected key stays while the key has a request that matters.
LEMMA NextHeld ==
  ASSUME TypeOK, Stages, Exclusive, Held, [Next]_vars PROVE Held'
  <1>0. req' = req /\ Sent' = Sent /\ lapsed \subseteq lapsed'
    BY NextGrows DEF Sent
  <1> SUFFICES ASSUME NEW q \in Sent, Keyed(q), KeyOf(q) \notin lapsed', Active(q)'
               PROVE  store'[KeyOf(q)] # None
    BY <1>0 DEF Held, Keyed, KeyOf
  <1>1. q \in Requests /\ KeyOf(q) \in FullKeys /\ StageOf(q)
    BY RequestType DEF Stages
  <1>2. \A b \in Bodies : Processing(b) # None
    BY EntryType, NoneAssumption
  <1>3. CASE Lock(q) /\ store[KeyOf(q)] = None
    BY <1>1, <1>2, <1>3, RequestType DEF Lock, TypeOK
  <1>4. CASE Active(q)
    <2>1. store[KeyOf(q)] # None
      BY <1>0, <1>4 DEF Held
    <2>2. ASSUME NEW k \in FullKeys, Expire(k) PROVE store'[KeyOf(q)] # None
      <3>1. Exposed(KeyOf(q))
        BY <1>1, <1>4 DEF Active, Exposed, StageOf, TypeOK, Steps
      <3>2. k # KeyOf(q)
        BY <2>2, <3>1 DEF Expire
      <3> QED
        BY <1>1, <2>1, <2>2, <3>2 DEF Expire, TypeOK
    <2>3. ASSUME NEW p \in Requests, Finish(p) PROVE store'[KeyOf(q)] # None
      <3>1. p \in Sent /\ Keyed(p) /\ Active(p) /\ result[p] \in Answers
        BY <2>3 DEF Finish, Stages, StageOf, Active
      <3>2. CASE KeyOf(p) # KeyOf(q)
        BY <1>1, <2>1, <2>3, <3>2 DEF Finish, TypeOK
      <3>3. CASE KeyOf(p) = KeyOf(q)
        <4>1. p = q
          BY <1>0, <1>4, <3>1, <3>3 DEF Exclusive, Alone
        <4>2. q \in committed
          BY <1>1, <2>3, <4>1 DEF Finish, Goto, Active, TypeOK
        <4>3. ShouldStore(result[q].code)
          BY <1>0, <1>1, <4>2 DEF StageOf, ShouldStore
        <4>4. Completed(req[q].body, result[q]) # None
          BY <3>1, <4>1, <4>3, RequestType, EntryType, NoneAssumption
        <4> QED
          BY <1>1, <2>3, <4>1, <4>3, <4>4 DEF Finish, TypeOK
      <3> QED
        BY <3>2, <3>3
    <2>4. ASSUME NEW p \in Requests, Step(p), ~Finish(p) PROVE store'[KeyOf(q)] # None
      <3>1. \/ store' = store
            \/ /\ p \in Sent
               /\ store' = [store EXCEPT ![KeyOf(p)] = Processing(req[p].body)]
        BY <2>4
        DEF Step, Bypass, Lock, LockFails, Get, GetFails, GlobalLimit, AuthRouteLimit,
            LimitFails, Chain, AuthChain, FinishFails, Crash, Stages, StageOf
      <3> QED
        BY <1>1, <1>2, <2>1, <3>1, RequestType DEF TypeOK
    <2> QED
      BY <2>1, <2>2, <2>3, <2>4, OtherSteps
  <1> QED
    BY <1>3, <1>4, ActiveBegins

-----------------------------------------------------------------------------
(***************************************************************************)
(* Replays and the limiter of /auth.                                       *)
(***************************************************************************)

\* The answer of a request that is over is final.
LEMMA GivenByStays ==
  ASSUME TypeOK, [Next]_vars, NEW q, NEW answer, NEW key, NEW body,
         GivenBy(q, answer, key, body)
  PROVE  GivenBy(q, answer, key, body)'
  <1>0. q \in Sent /\ q \in Requests /\ pc[q] = "done" /\ req' = req
    BY RequestType, NextGrows DEF GivenBy
  <1>1. ~Step(q)
    BY <1>0 DEF Step, Bypass, Lock, LockFails, Get, GetFails, GlobalLimit, AuthRouteLimit,
                LimitFails, Chain, AuthChain, Finish, FinishFails, Crash
  <1>2. pc'[q] = pc[q] /\ result'[q] = result[q]
    BY <1>0, <1>1, StepIsOwn, OtherSteps
  <1> QED
    BY <1>0, <1>2 DEF GivenBy, Sent, KeyOf

\* What Finish stores is the answer of a request that is over then.
LEMMA NextStoredFaithful ==
  ASSUME TypeOK, Stages, StoredFaithful, [Next]_vars PROVE StoredFaithful'
  <1> SUFFICES ASSUME NEW k \in FullKeys, store'[k] # None,
                      store'[k].status = "COMPLETED"
               PROVE  GivenBy(store[k].answer.by, store[k].answer, k,
                              store[k].fingerprint)'
    BY DEF StoredFaithful
  <1>1. CASE store'[k] = store[k]
    <2>1. PICK e : e = store[k]
      OBVIOUS
    <2>2. GivenBy(e.answer.by, e.answer, k, e.fingerprint)
      BY <1>1, <2>1 DEF StoredFaithful
    <2>3. GivenBy(e.answer.by, e.answer, k, e.fingerprint)'
      BY <2>2, GivenByStays
    <2> QED
      BY <1>1, <2>1, <2>3 DEF GivenBy
  <1>2. ASSUME NEW p \in Requests, Finish(p), k = KeyOf(p), ShouldStore(result[p].code)
        PROVE  GivenBy(store[k].answer.by, store[k].answer, k, store[k].fingerprint)'
    <2>1. p \in Sent /\ result[p].by = p
      BY <1>2 DEF Finish, Stages, StageOf
    <2>2. store'[k] = Completed(req[p].body, result[p])
      BY <1>2 DEF Finish, TypeOK
    <2>3. pc'[p] = "done" /\ result' = result /\ req' = req
      BY <1>2 DEF Finish, Goto, TypeOK
    <2> QED
      BY <1>2, <2>1, <2>2, <2>3 DEF GivenBy, Completed, KeyOf, Sent
  <1>3. ASSUME NEW p \in Requests, Step(p), store'[k] # store[k]
        PROVE  Finish(p) /\ k = KeyOf(p) /\ ShouldStore(result[p].code)
    <2>1. CASE Finish(p)
      BY <1>3, <2>1 DEF Finish, TypeOK
    <2>2. CASE ~Finish(p)
      <3>1. store' = [store EXCEPT ![KeyOf(p)] = Processing(req[p].body)]
        BY <1>3, <2>2
        DEF Step, Bypass, Lock, LockFails, Get, GetFails, GlobalLimit, AuthRouteLimit,
            LimitFails, Chain, AuthChain, FinishFails, Crash
      <3> QED
        BY <1>3, <3>1 DEF Processing, TypeOK
    <2> QED
      BY <2>1, <2>2
  <1>4. ASSUME NEW j \in FullKeys, Expire(j) PROVE store'[k] = store[k]
    BY <1>4 DEF Expire, TypeOK
  <1> QED
    BY <1>1, <1>2, <1>3, <1>4, OtherSteps

\* What a replay is made of: the answer of a request that is over, with this
\* key and this body.
LEMMA Replay ==
  ASSUME TypeOK, Stages, StoredFaithful, NEW p \in Requests, Get(p),
         NEW e, e = store[KeyOf(p)], e.status = "COMPLETED", e.fingerprint = req[p].body
  PROVE  /\ result'[p] = e.answer
         /\ e.answer \in Answers
         /\ e.answer.by # p
         /\ GivenBy(e.answer.by, e.answer, KeyOf(p), req[p].body)
  <1>1. p \in Sent /\ Keyed(p) /\ pc[p] = "get"
    BY DEF Get, Stages, StageOf
  <1>2. KeyOf(p) \in FullKeys /\ e # None
    BY <1>1, RequestType DEF Get
  <1>3. e.answer \in Answers
    BY <1>2, EntryType DEF TypeOK
  <1>4. GivenBy(e.answer.by, e.answer, KeyOf(p), req[p].body)
    BY <1>2 DEF StoredFaithful
  <1>5. result'[p] = [code |-> e.answer.code, by |-> e.answer.by]
    BY DEF Get, Answer, TypeOK
  <1> QED
    BY <1>1, <1>3, <1>4, <1>5 DEF GivenBy, Answers

\* Who a new answer is from: the chain of the request itself, or a replay.
LEMMA AnswerKinds ==
  ASSUME TypeOK, Stages, StoredFaithful, NEW p \in Requests, Step(p),
         result'[p] # result[p]
  PROVE  /\ p \in Sent
         /\ pc'[p] \in {"finish", "done"}
         /\ \/ /\ result'[p].by = p
               /\ result'[p].code = 201 => p \in committed'
               /\ result'[p].code \in {200, 400, 401} =>
                    pc[p] = "chain" /\ req[p].route \in {"api", "auth"}
            \/ /\ result'[p].by # p
               /\ result'[p] \in Answers
               /\ GivenBy(result'[p].by, result'[p], KeyOf(p), req[p].body)
  <1>1. pc[p] # "done" /\ p \in Sent
    BY DEF Stages, StageOf, Step, Bypass, Lock, LockFails, Get, GetFails, GlobalLimit,
           AuthRouteLimit, LimitFails, Chain, AuthChain, Finish, FinishFails, Crash
  <1>2. CASE Get(p)
    <2>1. pc'[p] = "done"
      BY <1>2 DEF Get, Goto, TypeOK
    <2>2. CASE result'[p] = [code |-> 409, by |-> p] \/ result'[p] = [code |-> 422, by |-> p]
      BY <1>1, <2>1, <2>2
    <2>3. CASE /\ store[KeyOf(p)].status = "COMPLETED"
               /\ store[KeyOf(p)].fingerprint = req[p].body
      BY <1>1, <1>2, <2>1, <2>3, Replay
    <2> QED
      BY <1>2, <2>2, <2>3 DEF Get, Answer, TypeOK
  <1>3. CASE GlobalLimit(p) \/ AuthRouteLimit(p) \/ LimitFails(p)
    <2>1. \E code \in {429, 503} : Answer(p, code, p) /\ End(p)
      BY <1>3 DEF GlobalLimit, AuthRouteLimit, LimitFails, Refuse
    <2> QED
      BY <1>1, <2>1 DEF Answer, End, Goto, TypeOK
  <1>4. CASE Chain(p)
    <2>1. Unauthorized(p) \in {0, 401, 503}
      BY DEF Unauthorized, ServiceKeyAuth, JWTAuth
    <2>2. \E code \in Codes : Answer(p, code, p) /\ (code = 201 => p \in committed')
      BY <1>4, <2>1 DEF Chain, Codes
    <2> QED
      BY <1>1, <1>4, <2>2 DEF Chain, Answer, End, Goto, TypeOK
  <1>5. CASE AuthChain(p)
    BY <1>1, <1>5 DEF AuthChain, Answer, End, Goto, TypeOK
  <1> QED
    BY <1>2, <1>3, <1>4, <1>5
    DEF Step, Bypass, Lock, LockFails, GetFails, Finish, FinishFails, Crash

\* Answers stay those of the handlers, for the same key and body.
LEMMA NextAnsweredFaithful ==
  ASSUME TypeOK, Stages, Faithful, [Next]_vars PROVE AnsweredFaithful'
  <1>0. req' = req /\ Sent' = Sent /\ committed \subseteq committed'
    BY NextGrows DEF Sent
  <1> SUFFICES ASSUME NEW p \in Requests, result'[p] # None
               PROVE  /\ p \in Sent
                      /\ pc'[p] \in {"finish", "done"}
                      /\ result'[p].code = 201 => result'[p].by \in committed'
                      /\ p # result'[p].by =>
                           GivenBy(result[p].by, result[p], KeyOf(p), req[p].body)'
    BY <1>0 DEF AnsweredFaithful, KeyOf
  <1>1. CASE result'[p] = result[p]
    <2>1. pc'[p] \in {"finish", "done"}
      <3>1. pc[p] \in {"finish", "done"}
        BY <1>1 DEF Faithful, AnsweredFaithful
      <3>2. Step(p) => pc'[p] = "done"
        BY <3>1 DEF Step, Bypass, Lock, LockFails, Get, GetFails, GlobalLimit,
                    AuthRouteLimit, LimitFails, Chain, AuthChain, Finish, FinishFails,
                    Crash, Goto, TypeOK
      <3> QED
        BY <3>1, <3>2, StepIsOwn, OtherSteps
    <2>2. p # result[p].by => GivenBy(result[p].by, result[p], KeyOf(p), req[p].body)'
      <3> SUFFICES ASSUME p # result[p].by
                   PROVE  GivenBy(result[p].by, result[p], KeyOf(p), req[p].body)'
        OBVIOUS
      <3>1. GivenBy(result[p].by, result[p], KeyOf(p), req[p].body)
        BY <1>1 DEF Faithful, AnsweredFaithful
      <3>2. PICK r, a, k, b :
              r = result[p].by /\ a = result[p] /\ k = KeyOf(p) /\ b = req[p].body
        OBVIOUS
      <3>3. GivenBy(r, a, k, b)'
        BY <3>1, <3>2, GivenByStays
      <3> QED
        BY <1>0, <1>1, <3>2, <3>3 DEF GivenBy, KeyOf
    <2> QED
      BY <1>0, <1>1, <2>1, <2>2 DEF Faithful, AnsweredFaithful, GivenBy, KeyOf
  <1>2. CASE Step(p) /\ result'[p] # result[p]
    <2>1. CASE result'[p].by = p
      BY <1>2, <2>1, AnswerKinds DEF Faithful
    <2>2. CASE result'[p].by # p
      <3>1. PICK r, a, k, b :
              r = result'[p].by /\ a = result'[p] /\ k = KeyOf(p) /\ b = req[p].body
        OBVIOUS
      <3>2. /\ GivenBy(r, a, k, b) /\ a \in Answers
            /\ p \in Sent /\ pc'[p] \in {"finish", "done"}
        BY <1>2, <2>2, <3>1, AnswerKinds DEF Faithful
      <3>3. GivenBy(r, a, k, b)'
        BY <3>2, GivenByStays
      <3>4. a.code = 201 => r \in committed
        <4>1. r \in Requests /\ result[r] = a /\ a # None /\ a.by = r
          BY <3>1, <3>2, RequestType, NoneAssumption DEF GivenBy
        <4> QED
          BY <4>1 DEF Faithful, AnsweredFaithful
      <3> QED
        BY <1>0, <3>1, <3>2, <3>3, <3>4 DEF GivenBy, KeyOf
    <2> QED
      BY <2>1, <2>2
  <1> QED
    BY <1>1, <1>2, StepIsOwn, OtherSteps

\* The stricter limiter stands before the handlers of /auth.
LEMMA NextAuthAdmitted ==
  ASSUME TypeOK, Stages, AuthAdmitted, [Next]_vars PROVE AuthAdmitted'
  <1>0. req' = req /\ Sent' = Sent /\ admitted \subseteq admitted'
    BY NextGrows DEF Sent
  <1> SUFFICES ASSUME NEW p \in Sent, pc'[p] = "chain", req[p].route = "auth",
                      pc[p] # "chain"
               PROVE  p \in admitted'
    BY <1>0 DEF AuthAdmitted
  <1>1. p \in Requests
    BY RequestType
  <1>2. Step(p)
    BY <1>1, StepIsOwn, OtherSteps
  <1>3. AuthRouteLimit(p)
    BY <1>1, <1>2
    DEF Step, Bypass, Lock, LockFails, Get, GetFails, GlobalLimit, AuthRouteLimit,
        LimitFails, Chain, AuthChain, Finish, FinishFails, Crash, Refuse, AfterLimit, End,
        Goto, TypeOK
  <1> QED
    BY <1>1, <1>3 DEF AuthRouteLimit, Refuse, End, Goto, TypeOK

\* What /auth answers stays counted.
LEMMA NextAuthCounted ==
  ASSUME TypeOK, Stages, Faithful, AuthAdmitted, AuthCounted, [Next]_vars
  PROVE  AuthCounted'
  <1>0. req' = req /\ Sent' = Sent /\ admitted \subseteq admitted'
    BY NextGrows DEF Sent
  <1> SUFFICES ASSUME NEW p \in Sent, result'[p] # None,
                      result'[p].code \in {200, 400, 401},
                      req[result'[p].by].route = "auth"
               PROVE  result'[p].by \in admitted'
    BY <1>0 DEF AuthCounted
  <1>1. p \in Requests
    BY RequestType
  <1>2. CASE result'[p] = result[p]
    BY <1>0, <1>2 DEF AuthCounted
  <1>3. CASE Step(p) /\ result'[p] # result[p]
    <2>1. CASE result'[p].by = p
      <3>1. pc[p] = "chain"
        BY <1>1, <1>3, <2>1, AnswerKinds DEF Faithful
      <3> QED
        BY <1>0, <2>1, <3>1 DEF AuthAdmitted
    <2>2. CASE result'[p].by # p
      <3>1. /\ result'[p] \in Answers
            /\ GivenBy(result'[p].by, result'[p], KeyOf(p), req[p].body)
        BY <1>1, <1>3, <2>2, AnswerKinds DEF Faithful
      <3>2. result'[p].by \in Sent /\ result[result'[p].by] = result'[p]
        BY <3>1 DEF GivenBy
      <3> QED
        BY <1>0, <3>2 DEF AuthCounted
    <2> QED
      BY <2>1, <2>2
  <1> QED
    BY <1>1, <1>2, <1>3, StepIsOwn, OtherSteps

-----------------------------------------------------------------------------
(***************************************************************************)
(* The windows of the limiters.                                            *)
(***************************************************************************)

\* The windows change when a limiter counts a request or a TTL ends; a limiter
\* that lets a request through has compared its counter.
LEMMA WindowSteps ==
  ASSUME TypeOK, Stages, [Next]_vars
  PROVE  \/ UNCHANGED <<window, admitted>>
         \/ \E k \in LimitKeys : WindowEnds(k)
         \/ \E p \in Sent :
              /\ p \in Requests
              /\ pc[p] \in Limiters /\ Step(p)
              /\ window' \in {window, Counted(LimitKey(p), p, pc[p])}
              /\ \/ admitted' = admitted
                 \/ /\ admitted' = admitted \cup {p}
                    /\ Allowed(LimitKey(p), LimitOf(LimitKey(p)))
                    /\ window' = Counted(LimitKey(p), p, pc[p])
                    /\ pc'[p] = "chain"
  <1>1. ASSUME NEW p \in Requests, GlobalLimit(p) \/ AuthRouteLimit(p) \/ LimitFails(p)
        PROVE  /\ p \in Sent
               /\ pc[p] \in Limiters /\ Step(p)
               /\ window' \in {window, Counted(LimitKey(p), p, pc[p])}
               /\ \/ admitted' = admitted
                  \/ /\ admitted' = admitted \cup {p}
                     /\ Allowed(LimitKey(p), LimitOf(LimitKey(p)))
                     /\ window' = Counted(LimitKey(p), p, pc[p])
                     /\ pc'[p] = "chain"
    <2>1. p \in Sent
      BY <1>1 DEF GlobalLimit, AuthRouteLimit, LimitFails, Stages, StageOf
    <2>2. CASE GlobalLimit(p)
      BY <2>1, <2>2, RequestType
      DEF Step, GlobalLimit, Limiters, AfterLimit, LimitOf, LimitKey, Routes, Goto, TypeOK
    <2>3. CASE AuthRouteLimit(p)
      <3>1. req[p].route = "auth"
        BY <2>1, <2>3 DEF AuthRouteLimit, Stages, StageOf
      <3> QED
        BY <2>1, <2>3, <3>1
        DEF Step, AuthRouteLimit, Limiters, LimitOf, LimitKey, Goto, TypeOK
    <2>4. CASE LimitFails(p)
      BY <2>1, <2>4 DEF Step, LimitFails, Limiters
    <2> QED
      BY <1>1, <2>2, <2>3, <2>4
  <1>2. ASSUME NEW p \in Requests, Step(p),
               ~(GlobalLimit(p) \/ AuthRouteLimit(p) \/ LimitFails(p))
        PROVE  UNCHANGED <<window, admitted>>
    BY <1>2 DEF Step, Bypass, Lock, LockFails, Get, GetFails, Chain, AuthChain, Finish,
                FinishFails, Crash, limiterVars
  <1>3. ASSUME NEW k, Expire(k) PROVE UNCHANGED <<window, admitted>>
    BY <1>3 DEF Expire, limiterVars
  <1> QED
    BY <1>1, <1>2, <1>3 DEF Next, Quiescent, vars, limiterVars

\* No step takes a request back before a limiter, and a limiter's own step
\* takes the request past it.
LEMMA LimitersPassed ==
  ASSUME TypeOK, [Next]_vars, NEW p \in Requests
  PROVE  /\ ~BeforeLimit(p) => ~BeforeLimit(p)'
         /\ ~BeforeAuthLimit(p) => ~BeforeAuthLimit(p)'
         /\ Step(p) /\ pc[p] = "limit" => ~BeforeLimit(p)'
         /\ Step(p) /\ pc[p] = "authLimit" => ~BeforeAuthLimit(p)'
  <1>1. CASE Step(p)
    BY <1>1
    DEF Step, Bypass, Lock, LockFails, Get, GetFails, GlobalLimit, AuthRouteLimit,
        LimitFails, Chain, AuthChain, Finish, FinishFails, Crash, Refuse, AfterLimit, End,
        Goto, TypeOK, BeforeLimit, BeforeAuthLimit
  <1>2. CASE ~Step(p)
    BY <1>2, StepIsOwn, OtherSteps DEF BeforeLimit, BeforeAuthLimit
  <1> QED
    BY <1>1, <1>2

\* Tickets are handed out once, to requests that go past their limiter.
LEMMA NextTickets ==
  ASSUME TypeOK, Stages, TicketsInTime, [Next]_vars PROVE TicketsInTime'
  <1>0. req' = req
    BY NextGrows
  <1>1. ASSUME NEW k \in LimitKeys, NEW p \in Requests,
               NEW s \in Limiters, <<p, s>> \in window'[k]
        PROVE  \/ <<p, s>> \in window[k]
               \/ pc[p] = s /\ Step(p) /\ k = LimitKey(p)
    <2>1. CASE \E j \in LimitKeys : WindowEnds(j)
      BY <1>1, <2>1 DEF WindowEnds, CloseWindow, TypeOK
    <2>2. ASSUME NEW r \in Requests, r \in Sent, Step(r),
                 window' = Counted(LimitKey(r), r, pc[r])
          PROVE  \/ <<p, s>> \in window[k]
                 \/ pc[p] = s /\ Step(p) /\ k = LimitKey(p)
      BY <1>1, <2>2 DEF Counted, TypeOK
    <2> QED
      BY <1>1, <2>1, <2>2, WindowSteps
  <1> QED
    BY <1>0, <1>1, LimitersPassed DEF TicketsInTime, Limiters, LimitKey

\* A request that is let through has no limiter before it any more.
LEMMA NextAdmittedLast ==
  ASSUME TypeOK, Stages, AdmittedLast, [Next]_vars PROVE AdmittedLast'
  <1>0. Sent' = Sent
    BY NextGrows DEF Sent
  <1> SUFFICES ASSUME NEW p \in admitted' PROVE p \in Sent /\ ~BeforeAuthLimit(p)'
    BY <1>0 DEF AdmittedLast
  <1>1. CASE p \in admitted
    BY <1>1, LimitersPassed DEF AdmittedLast, TypeOK
  <1>2. CASE p \notin admitted
    <2>1. p \in Sent /\ pc'[p] = "chain"
      BY <1>2, WindowSteps DEF WindowEnds, CloseWindow
    <2> QED
      BY <2>1 DEF BeforeAuthLimit, BeforeLimit
  <1> QED
    BY <1>1, <1>2

\* What the requests let through have cost a counter stays within its limit: a
\* request that is not let through costs them nothing, and one that is costs
\* what the limiter has compared.
LEMMA NextNotOverspent ==
  ASSUME TypeOK, Stages, TicketsInTime, AdmittedLast, FiniteWindows, NotOverspent,
         [Next]_vars
  PROVE  FiniteWindows' /\ NotOverspent'
  <1> SUFFICES ASSUME NEW k \in LimitKeys
               PROVE  IsFiniteSet(window'[k]) /\ Cardinality(Spent(k)') <= LimitOf(k)
    BY DEF FiniteWindows, NotOverspent, LimitOf
  <1>0. /\ IsFiniteSet(window[k]) /\ Cardinality(Spent(k)) <= LimitOf(k)
        /\ LimitOf(k) \in Nat
    BY LimitAssumption DEF FiniteWindows, NotOverspent, LimitOf
  <1>1. CASE Spent(k)' = Spent(k) /\ window'[k] = window[k]
    BY <1>0, <1>1
  <1>2. CASE window'[k] = {}
    BY <1>0, <1>2, FS_EmptySet DEF Spent
  <1>3. ASSUME NEW p \in Sent, p \in Requests, pc[p] \in Limiters, k = LimitKey(p),
               window' = Counted(k, p, pc[p])
        PROVE  /\ window'[k] = window[k] \cup {<<p, pc[p]>>}
               /\ IsFiniteSet(window'[k])
               /\ Cardinality(window'[k]) <= Count(k) + 1
               /\ Count(k) \in Nat
    <2>1. window'[k] = window[k] \cup {<<p, pc[p]>>}
      BY <1>3 DEF Counted, TypeOK
    <2>2. /\ IsFiniteSet(window[k] \cup {<<p, pc[p]>>})
          /\ Cardinality(window[k] \cup {<<p, pc[p]>>}) =
               IF <<p, pc[p]>> \in window[k] THEN Cardinality(window[k])
               ELSE Cardinality(window[k]) + 1
      BY <1>0, FS_AddElement
    <2>3. Cardinality(window[k]) \in Nat
      BY <1>0, FS_CardinalityType
    <2> QED
      BY <2>1, <2>2, <2>3 DEF Count
  <1>4. ASSUME NEW p \in Sent, p \in Requests, pc[p] \in Limiters, k = LimitKey(p),
               window' = Counted(k, p, pc[p]), admitted' = admitted
        PROVE  IsFiniteSet(window'[k]) /\ Cardinality(Spent(k)') <= LimitOf(k)
    <2>1. p \notin admitted
      BY <1>4 DEF AdmittedLast, BeforeAuthLimit, BeforeLimit, Limiters
    <2>2. Spent(k)' = Spent(k)
      BY <1>3, <1>4, <2>1 DEF Spent
    <2> QED
      BY <1>0, <1>3, <1>4, <2>2
  <1>5. ASSUME NEW p \in Sent, p \in Requests, pc[p] \in Limiters, k = LimitKey(p),
               window' = Counted(k, p, pc[p]), Allowed(k, LimitOf(k))
        PROVE  IsFiniteSet(window'[k]) /\ Cardinality(Spent(k)') <= LimitOf(k)
    <2>1. /\ IsFiniteSet(window'[k]) /\ Cardinality(window'[k]) <= LimitOf(k)
          /\ Cardinality(window'[k]) \in Nat
      BY <1>0, <1>3, <1>5, FS_CardinalityType DEF Allowed
    <2>2. Spent(k)' \in SUBSET window'[k]
      BY DEF Spent
    <2>3. /\ IsFiniteSet(Spent(k)')
          /\ Cardinality(Spent(k)') <= Cardinality(window'[k])
      BY <2>1, <2>2, FS_Subset
    <2> QED
      BY <1>0, <2>1, <2>3, FS_CardinalityType
  <1>6. ASSUME NEW p \in Sent, p \in Requests, k # LimitKey(p), LimitKey(p) \in LimitKeys,
               pc[p] \in Limiters, Step(p),
               window' \in {window, Counted(LimitKey(p), p, pc[p])},
               admitted' \in {admitted, admitted \cup {p}}
        PROVE  Spent(k)' = Spent(k) /\ window'[k] = window[k]
    <2>1. window'[k] = window[k]
      BY <1>6 DEF Counted, TypeOK
    <2>2. ASSUME NEW ticket \in window[k] PROVE ticket[1] # p
      <3>1. ticket \in Requests \X Limiters
        BY DEF TypeOK
      <3>2. PICK s \in Limiters : ticket = <<ticket[1], s>>
        BY <3>1
      <3>3. \A r \in Requests : <<r, s>> \in window[k] => k = LimitKey(r)
        BY DEF TicketsInTime, Limiters
      <3> QED
        BY <1>6, <3>2, <3>3
    <2> QED
      BY <1>6, <2>1, <2>2 DEF Spent
  <1>7. CASE \E j \in LimitKeys : WindowEnds(j)
    <2>1. /\ admitted' = admitted
          /\ window'[k] = window[k] \/ window'[k] = {}
      BY <1>7 DEF WindowEnds, CloseWindow, TypeOK
    <2> QED
      BY <1>1, <1>2, <2>1 DEF Spent
  <1>8. ASSUME NEW p \in Sent, p \in Requests, pc[p] \in Limiters, Step(p),
               window' \in {window, Counted(LimitKey(p), p, pc[p])},
               \/ admitted' = admitted
               \/ /\ admitted' = admitted \cup {p}
                  /\ Allowed(LimitKey(p), LimitOf(LimitKey(p)))
                  /\ window' = Counted(LimitKey(p), p, pc[p])
        PROVE  IsFiniteSet(window'[k]) /\ Cardinality(Spent(k)') <= LimitOf(k)
    <2>1. CASE k = LimitKey(p)
      <3>1. CASE window' = window /\ admitted' = admitted
        BY <1>1, <3>1 DEF Spent
      <3> QED
        BY <1>4, <1>5, <1>8, <2>1, <3>1
    <2>2. CASE k # LimitKey(p)
      BY <1>0, <1>6, <1>8, <2>2, RequestType
    <2> QED
      BY <2>1, <2>2
  <1>9. CASE UNCHANGED <<window, admitted>>
    BY <1>1, <1>9 DEF Spent
  <1> QED
    BY <1>7, <1>8, <1>9, WindowSteps

-----------------------------------------------------------------------------
(***************************************************************************)
(* Theorems.                                                               *)
(***************************************************************************)

IInv == /\ TypeOK /\ Stages
        /\ Exclusive /\ Held
        /\ Faithful
        /\ AuthAdmitted /\ AuthCounted
        /\ TicketsInTime /\ AdmittedLast /\ FiniteWindows /\ NotOverspent

\* Locks, entries, answers and counters stay in step.
LEMMA Invariant == Spec => []IInv
  <1>1. Init => IInv
    <2> SUFFICES ASSUME Init PROVE IInv
      OBVIOUS
    <2>1. TypeOK
      BY DEF Init, LimiterInit, TypeOK, Steps
    <2>2. Stages /\ Exclusive /\ Held
      BY RequestType, <2>1
      DEF Init, Stages, StageOf, Exclusive, Alone, Held, Active, InChain, Sent
    <2>3. Faithful /\ AuthAdmitted /\ AuthCounted
      BY RequestType, <2>1
      DEF Init, Faithful, StoredFaithful, AnsweredFaithful, AuthAdmitted, AuthCounted
    <2>4. TicketsInTime /\ AdmittedLast /\ FiniteWindows
      BY FS_EmptySet DEF Init, LimiterInit, TicketsInTime, AdmittedLast, FiniteWindows
    <2>5. NotOverspent
      <3>1. \A k \in LimitKeys : Spent(k) = {} /\ LimitOf(k) \in Nat
        BY LimitAssumption DEF Init, LimiterInit, Spent, LimitOf
      <3> QED
        BY <3>1, FS_EmptySet DEF NotOverspent
    <2> QED
      BY <2>1, <2>2, <2>3, <2>4, <2>5 DEF IInv
  <1>2. IInv /\ [Next]_vars => IInv'
    BY NextTypeOK, NextStages, NextExclusive, NextHeld, NextStoredFaithful,
       NextAnsweredFaithful, NextAuthAdmitted, NextAuthCounted, NextTickets,
       NextAdmittedLast, NextNotOverspent
    DEF IInv, Faithful
  <1> QED
    BY <1>1, <1>2, PTL DEF Spec

\* Entries, answers and counters are those the code builds (store.go:6-11).
THEOREM TypeCorrect == Spec => []TypeOK
  <1>1. IInv => TypeOK
    BY DEF IInv
  <1> QED
    BY <1>1, Invariant, PTL

\* Of the requests with one key at most one commits, until a fault ends the
\* protection of the key, whatever the requests, retries and crashes
\* (idempotency.go:77-164).
THEOREM CommitsOnce == Spec => []AtMostOnce
  <1>1. IInv => AtMostOnce
    <2> SUFFICES ASSUME IInv, NEW p \in committed, NEW q \in committed,
                        Keyed(p), Keyed(q), KeyOf(p) = KeyOf(q), KeyOf(p) \notin lapsed
                 PROVE  p = q
      BY DEF AtMostOnce
    <2>1. p \in Sent /\ q \in Sent
      BY DEF IInv, TypeOK, Stages, StageOf
    <2> QED
      BY <2>1 DEF IInv, Exclusive, Alone, Active
  <1> QED
    BY <1>1, Invariant, PTL

\* An answer that is not the request's own is that of a request with its key
\* and body, and no 201 is given without a commit, whatever fails
\* (idempotency.go:113-127).
THEOREM ReplaysFaithful == Spec => []ReplayFaithful
  <1>1. IInv => ReplayFaithful
    BY DEF IInv, Faithful, AnsweredFaithful, GivenBy, ReplayFaithful
  <1> QED
    BY <1>1, Invariant, PTL

\* No handler of /auth answers a request that the limiter has not counted and
\* let through, whatever Redis does (ratelimit.go:49-56).
THEOREM PasswordsCounted == Spec => []AuthCounted
  <1>1. IInv => AuthCounted
    BY DEF IInv
  <1> QED
    BY <1>1, Invariant, PTL

\* The requests let through in one window of a client and route have cost its
\* counter no more than the limit, however many requests there are and however
\* the two limiters interleave or fail (ratelimit.go:48-81, router.go:86-112).
THEOREM WindowsSpent == Spec => []WindowSpent
  <1>1. IInv => WindowSpent
    <2> SUFFICES ASSUME IInv, NEW c \in Clients, NEW r \in Routes, NEW k, k = <<c, r>>
                 PROVE  Cardinality(Spent(k)) <= IF r = "auth" THEN AuthLimit ELSE Limit
      BY DEF WindowSpent, Spent
    <2> QED
      BY DEF IInv, NotOverspent, LimitOf, LimitKeys
  <1> QED
    BY <1>1, Invariant, PTL
===============================================================================
