------------------------------- MODULE RateLimit -------------------------------
(***************************************************************************)
(* The rate limiter: a counter in Redis per client and route, with a TTL   *)
(* that its first request sets.  The limiter of all routes and the         *)
(* stricter one of /auth build the same key, so that a request to /auth    *)
(* is counted twice in one counter.                                        *)
(***************************************************************************)
EXTENDS Naturals, Sequences, FiniteSets

CONSTANTS
  Clients,   \* client addresses
  Limit,     \* RATE_LIMIT_REQUESTS
  AuthLimit  \* RATE_LIMIT_AUTH_REQUESTS

Routes == {"api", "auth"}

\* "ratelimit:<ip>:<method>:<route>".
LimitKeys == Clients \X Routes

ASSUME LimitAssumption == Limit \in Nat /\ AuthLimit \in Nat

VARIABLES
  window,   \* the INCRs of the current window of each key, as tickets
  admitted  \* the requests that a limiter which counted them let through

limiterVars == <<window, admitted>>

\* A ticket is a request and the limiter that counts it, which does so once.
Limiters == {"limit", "authLimit"}

LimiterInit ==
  /\ window   = [k \in LimitKeys |-> {}]
  /\ admitted = {}

\* INCR, in the script that also sets the TTL of a key that has none.
Counted(k, p, limiter) == [window EXCEPT ![k] = @ \cup {<<p, limiter>>}]

\* The value of a counter.
Count(k) == Cardinality(window[k])

\* Faulty: the counter before the request is compared.
AllowedBefore(k, limit) == Count(k) <= limit

\* count <= limit, with the request counted.
Allowed(k, limit) == Count(k) + 1 <= limit

\* The TTL of a counter ends, and the key is gone.
CloseWindow(k) ==
  /\ window[k] # {}
  /\ window' = [window EXCEPT ![k] = {}]
  /\ UNCHANGED admitted
===============================================================================
