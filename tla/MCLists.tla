-------------------------------- MODULE MCLists --------------------------------
(***************************************************************************)
(* Instances of Lists for TLC.                                             *)
(***************************************************************************)
EXTENDS Lists, TLC

CONSTANTS a1, a2, u1, u2, t1, t2, l1, l2

MCHolderOf == a1 :> u1 @@ a2 :> u2

R(id, at, owner, type, label) ==
  [id |-> id, at |-> at, owner |-> owner, type |-> type, label |-> label, active |-> TRUE]

\* Rows 2 and 3 have one time, and row 5, if added, comes in between two pages
\* or before them; row 4 is another's.
Rows(mine, theirs) ==
  {R(1, 1, mine, t1, l1), R(2, 2, mine, t1, l1), R(3, 2, mine, t2, l1), R(4, 2, theirs, t1, l1)}
Added(mine) == {R(5, 1, mine, t1, l1), R(6, 3, mine, t1, l2)}

MCSeeds ==
  "statements" :> Rows(a1, a2) @@ "accounts" :> Rows(u1, u2) @@
  "users" :> {R(1, 1, None, t1, l1), R(2, 2, None, t1, l1), R(3, 3, None, t1, l1)} @@
  "roles" :> {R(1, 1, None, t1, l1), R(2, 2, None, t1, l1), R(3, 3, None, t1, l2)} @@
  "categories" :> Rows(u1, u2) \cup {R(5, 1, None, t1, l1), R(6, 1, None, t2, l1)} @@
  "tags" :> Rows(u1, u2) \cup {R(5, 1, None, t1, l1)}

MCAdditions ==
  "statements" :> Added(a1) @@ "accounts" :> Added(u1) @@ "users" :> {R(6, 2, None, t1, l2)} @@
  "roles" :> {R(4, 3, None, t1, l2)} @@ "categories" :> {} @@ "tags" :> {R(6, 3, u2, t1, l1)}

Plain(kind, who, caller) ==
  [kind |-> kind, of |-> who, caller |-> caller, scope |-> "any", type |-> None, label |-> None,
   dates |-> Times, activeOnly |-> FALSE, malformed |-> FALSE, limit |-> 2, follow |-> "page"]

\* Both ways of reading on, with a limit that is allowed and one too great.
Walked(q) == {[q EXCEPT !.limit = n, !.follow = f] : n \in {1, 4}, f \in {"cursor", "page"}}

MCQueries ==
  LET statements == Plain("statements", a1, u1)
      accounts == Plain("accounts", u1, u1)
      users == Plain("users", u1, Trusted)
      roles == Plain("roles", u1, Trusted)
  IN  Walked(statements)
      \cup {[statements EXCEPT !.caller = u2], [statements EXCEPT !.caller = Trusted],
            [statements EXCEPT !.label = l1, !.follow = "cursor", !.limit = 1],
            [statements EXCEPT !.dates = {2}, !.limit = 1]}
      \cup {[accounts EXCEPT !.activeOnly = TRUE, !.follow = "cursor", !.limit = 1],
            [accounts EXCEPT !.type = t1, !.limit = 0]}
      \cup {users, [users EXCEPT !.activeOnly = TRUE, !.limit = 9],
            [users EXCEPT !.caller = 2], [users EXCEPT !.caller = 6],
            roles, [roles EXCEPT !.label = l2, !.limit = 1]}
      \cup {[statements EXCEPT !.malformed = TRUE],
            [Plain("categories", u1, u1) EXCEPT !.malformed = TRUE]}
      \cup {[Plain("categories", u1, u1) EXCEPT !.scope = s, !.type = t] :
              s \in {"any", "system", "user"}, t \in {None, t1}}
      \cup {[Plain("tags", u1, u1) EXCEPT !.scope = s] : s \in {"any", "system", "user"}}
===============================================================================
