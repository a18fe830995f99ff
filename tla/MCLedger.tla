------------------------------- MODULE MCLedger -------------------------------
(***************************************************************************)
(* Instances of Ledger for TLC.                                            *)
(***************************************************************************)
EXTENDS Ledger, TLC

CONSTANTS a1, a2, u1, u2, f1, f2, r1, r2, r3

MCOwner == [a \in Accounts |-> IF a = a1 THEN u1 ELSE u2]

CreateBy(a, u, t, n) == [op |-> "create", acct |-> a, user |-> u, type |-> t, amount |-> n]
ReverseBy(a, u, s) == [op |-> "reverse", acct |-> a, user |-> u, stmt |-> s]
ImportBy(a, u, ts) == [op |-> "import", acct |-> a, user |-> u, txns |-> ts]
UpdateBy(a, u) == [op |-> "update", acct |-> a, user |-> u]
DeleteBy(a, u) == [op |-> "delete", acct |-> a, user |-> u]
T(f, n) == [fitid |-> f, amount |-> n]

\* Postings near the int64 limit and overlapping imports of one account.
Credit3 == CreateBy(a1, u1, "credit", 3)
Import2 == ImportBy(a1, u1, <<T(f1, 2), T(f2, -3)>>)
Postings == {Credit3, CreateBy(a1, NoUser, "debit", 1),
             ImportBy(a1, u1, <<T(f1, 2), T(None, -1)>>), Import2}

\* What races with them: reversals of the first request's statement, and what
\* opens and closes the account.
Others == {ReverseBy(a1, u1, <<r1, 1>>), UpdateBy(a1, u1), DeleteBy(a1, u1)}

\* Two accounts of different owners: requests that name the other account or are
\* not its owner's, and inputs the use cases reject.
Checks ==
  {CreateBy(a1, u2, "credit", 1), CreateBy(a1, u1, "transfer", 1),
   CreateBy(a1, u1, "credit", 0), CreateBy(a2, u2, "debit", 2),
   ReverseBy(a2, u2, <<r1, 1>>), ImportBy(a1, u1, <<T(f1, 2), T(f1, 2)>>),
   ImportBy(a2, u2, <<T(f1, 1), T(f2, 0)>>), ImportBy(a1, NoUser, <<T(f2, -4)>>),
   ImportBy(a1, u1, << >>), DeleteBy(a1, NoUser), DeleteBy(a1, u2), UpdateBy(a1, u2)}

AllInputs == Postings \cup Others \cup Checks \cup {ReverseBy(a1, u1, <<r2, 1>>)}

Serve(x, y, z) == [p \in Requests |-> IF p = r1 THEN x ELSE IF p = r2 THEN y ELSE z]

\* Three requests in every combination that matters: who is called r1, r2 or r3
\* does not, but for whose statement a reversal names.
Workloads ==
  {Serve(x, ReverseBy(a1, u1, <<r1, 1>>), z) :
     x \in {Credit3, Import2},
     z \in Postings \cup Others \cup {ReverseBy(a1, u1, <<r2, 1>>)}}
  \cup {Serve(x, y, DeleteBy(a1, u1)) : x \in Postings, y \in {UpdateBy(a1, u1), Credit3}}
  \cup {Serve(Credit3, y, z) : y \in Postings, z \in Postings}
  \cup {Serve(Credit3, DeleteBy(a1, u1), y) : y \in Checks}

MCInit == Init /\ req \in Workloads

MCSpec == MCInit /\ [][Next]_vars /\ Fairness
===============================================================================
