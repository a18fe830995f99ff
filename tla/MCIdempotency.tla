----------------------------- MODULE MCIdempotency -----------------------------
(***************************************************************************)
(* Instances of Idempotency for TLC.                                       *)
(***************************************************************************)
EXTENDS Idempotency, TLC

CONSTANTS r1, r2, r3, ip, svc, k1, b1, b2

Post(service, key, body) ==
  [client |-> ip, route |-> "api", service |-> service, serviceKey |-> TRUE, token |-> TRUE,
   key |-> key, body |-> body, keyRequired |-> TRUE]

Login(key) ==
  [Post(<<svc>>, key, b1) EXCEPT !.route = "auth", !.token = FALSE, !.keyRequired = FALSE]

Two(x, y) == r1 :> x @@ r2 :> y
All(x, y, z) == Two(x, y) @@ r3 :> z

First == Post(<<svc>>, <<k1>>, b1)
\* The key of First, spelled without a service name.
Spelled == Post(<< >>, <<svc, k1>>, b2)
Unkeyed == Post(<<svc>>, << >>, b1)
Anonymous(in) == [in EXCEPT !.token = FALSE]

\* Requests are interchangeable, so one order stands for all: a request, its
\* retry and another body under its key; requests without a token or a key;
\* logins, with and without a key.
MCWorkloads ==
  {All(First, First, Spelled), All(Anonymous(Unkeyed), Unkeyed, Unkeyed),
   All(Login(<< >>), Login(<< >>), Login(<< >>)), Two(Login(<<k1>>), Login(<<k1>>))}

\* A request and its retry, after another of the client.
RetryWorkloads == {All(Anonymous(Unkeyed), First, First)}
===============================================================================
