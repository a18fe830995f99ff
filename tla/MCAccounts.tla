------------------------------ MODULE MCAccounts ------------------------------
(***************************************************************************)
(* Instances of Accounts for TLC.                                          *)
(***************************************************************************)
EXTENDS Accounts, TLC

CONSTANTS card, bank, u1, u2, n1, n2

SeedOf(t, limit) == [user |-> u1, type |-> t, name |-> n1, limit |-> limit,
                     balance |-> 0, active |-> TRUE]

MCSeedRow == [a \in Seeded |-> IF a = card THEN SeedOf("credit_card", 1)
                                           ELSE SeedOf("bank_account", None)]

CreateOf(t, limit) == [op |-> "create", user |-> u1, type |-> t, name |-> n1, limit |-> limit]
UpdateOf(a, u, name, limit) ==
  [op |-> "update", user |-> u, id |-> a, name |-> name, limit |-> limit]
Do(op, a, u) == [op |-> op, user |-> u, id |-> a]

\* Every operation on a credit card, by its owner, an admin and a stranger, and
\* limits that fit and do not fit the type of old and new accounts.
AllInputs ==
  {UpdateOf(card, u1, n2, None), UpdateOf(card, NoUser, None, 2),
   UpdateOf(card, u1, None, 3), UpdateOf(card, u2, None, 0),
   Do("delete", card, u1), Do("delete", card, NoUser), Do("get", card, u2),
   Do("post", card, u1), Do("post", card, u2), Do("get", bank, u1),
   UpdateOf(bank, u1, n2, 1), UpdateOf(bank, u1, n2, None),
   CreateOf("credit_card", 1), CreateOf("credit_card", None), CreateOf("credit_card", 3),
   CreateOf("cash", 2), CreateOf("cash", None), CreateOf("savings", None)}
  \cup {UpdateOf(p, u1, None, 2) : p \in Requests}
  \cup {Do("delete", p, NoUser) : p \in Requests}

Symmetry == Permutations(Requests)
===============================================================================
