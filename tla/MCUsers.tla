-------------------------------- MODULE MCUsers --------------------------------
(***************************************************************************)
(* Instances of Users for TLC.                                             *)
(***************************************************************************)
EXTENDS Users, TLC

CONSTANTS r1, r2, r3, u1, u2, n1, n2, e1, e2, e3, w1, w2

MCSeedUsers ==
  u1 :> [name |-> n1, email |-> e1, password |-> w1, active |-> TRUE] @@
  u2 :> [name |-> n1, email |-> e2, password |-> None, active |-> TRUE]

Get(u, c) == [op |-> "get", id |-> u, caller |-> c]
Upd(u, c, n, e) == [op |-> "update", id |-> u, caller |-> c, name |-> n, email |-> e]
Del(u, c) == [op |-> "delete", id |-> u, caller |-> c]
Set(u, w, same) == [op |-> "setPassword", id |-> u, new |-> w, confirmed |-> same]
Chg(u, w, v, same) ==
  [op |-> "changePassword", id |-> u, current |-> w, new |-> v, confirmed |-> same]
Crt(e) == [op |-> "create", name |-> n2, email |-> e]
Log(e, w) == [op |-> "login", email |-> e, password |-> w]

\* Reads, updates and deletions of one user, and a read of another.
CacheRaces == <<Get(u1, u1), Get(u2, Trusted), Upd(u1, u1, n2, None), Del(u1, Trusted)>>

\* Two first passwords, two changes, and what they may race with.
PasswordRaces ==
  <<Set(u2, w1, TRUE), Set(u2, w2, TRUE), Chg(u2, w1, w2, TRUE), Upd(u2, u2, None, e3),
    Del(u2, u2)>>

\* A session of a user whose password changes or who is deleted.
SessionRaces ==
  <<Log(e1, w1), [op |-> "refresh"], Chg(u1, w1, w2, TRUE), Del(u1, Trusted)>>

\* Two users for one email, and what is refused.
EmailRaces ==
  <<Crt(e1), Crt(e3), Upd(u1, Trusted, None, e2), Upd(u2, u2, None, e3), Get(r1, Trusted),
    Del(u1, u1)>>
Refused ==
  <<Crt(BadEmail), Get(u2, u1), Upd(u1, u1, None, BadEmail), Set(u1, w2, TRUE),
    Set(u2, w1, FALSE), Set(u2, WeakPassword, TRUE), Chg(u1, w1, w2, FALSE), Log(e2, w2)>>

\* Requests are interchangeable, so one order of three inputs stands for all.
Three(inputs) ==
  {(r1 :> inputs[i]) @@ (r2 :> inputs[j]) @@ (r3 :> inputs[k]) :
     <<i, j, k>> \in {x \in (DOMAIN inputs) \X (DOMAIN inputs) \X (DOMAIN inputs) :
                        x[1] <= x[2] /\ x[2] <= x[3]}}

MCWorkloads ==
  Three(CacheRaces) \cup Three(PasswordRaces) \cup Three(SessionRaces)
    \cup Three(EmailRaces)
    \cup {(r1 :> Refused[i]) @@ (r2 :> Refused[i]) @@ (r3 :> Get(u1, u1)) : i \in DOMAIN Refused}
===============================================================================
