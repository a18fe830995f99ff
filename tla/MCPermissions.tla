----------------------------- MODULE MCPermissions -----------------------------
(***************************************************************************)
(* Instances of Permissions for TLC.                                       *)
(***************************************************************************)
EXTENDS Permissions, TLC

CONSTANTS admin, user, auditor, u1, u2, read, delete

MCNameOf == [r \in Seeded |-> r]
MCPermsOf == [r \in Seeded |-> IF r = admin THEN {read, delete} ELSE {read}]
MCSeedGrants == {<<u1, admin>>, <<u2, user>>}

Check(u, perm) == [op |-> "check", user |-> u, perm |-> perm]
Grant(op, u, r) == [op |-> op, user |-> u, role |-> r]
DeleteOf(r) == [op |-> "delete", role |-> r]
CreateOf(name) == [op |-> "create", name |-> name]

\* Every operation on the administrator's role, and checks of both users.
AllInputs ==
  {Check(u1, delete), Check(u2, delete),
   Grant("assign", u1, admin), Grant("assign", u2, admin), Grant("revoke", u1, admin),
   DeleteOf(admin), CreateOf(admin), CreateOf(auditor)}
===============================================================================
