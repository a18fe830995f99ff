----------------------------- MODULE AtomicLedger -----------------------------
(***************************************************************************)
(* What the statement repository promises (interfaces/repository.go): every *)
(* accepted posting appends statements to one account and moves its balance *)
(* in a single step, statements are immutable, a statement is reversed at   *)
(* most once and an external id is imported at most once per account.       *)
(***************************************************************************)
EXTENDS Money, Sequences

CONSTANTS Accounts, None

VARIABLES balance, active, ledger

avars == <<balance, active, ledger>>

Init ==
  /\ balance = [a \in Accounts |-> 0]
  /\ active  = [a \in Accounts |-> TRUE]
  /\ ledger  = [a \in Accounts |-> << >>]

\* Row n of s continues the balance that row n - 1 left, and b before row 1.
Continues(s, n, b) ==
  s[n].balanceAfter =
    Apply(IF n = 1 THEN b ELSE s[n - 1].balanceAfter, s[n].type, s[n].amount)

\* Row n of s reverses an earlier row of s that no other row reverses.
ReversesFresh(s, n) ==
  /\ \E i \in 1 .. (n - 1) : /\ s[i].id = s[n].ref
                             /\ s[i].amount = s[n].amount
                             /\ s[i].type = Opposite(s[n].type)
  /\ \A i \in 1 .. (n - 1) : s[i].ref # s[n].ref

\* Row n of s is an import that no earlier row of s has recorded.
ImportsFresh(s, n) == \A i \in 1 .. (n - 1) : s[i].ext # s[n].ext

\* One accepted request: account a grows by one or more acceptable rows.
Post(a) ==
  LET old == ledger[a]
      new == ledger'[a]
  IN  /\ Len(new) > Len(old)
      /\ SubSeq(new, 1, Len(old)) = old
      /\ \A n \in (Len(old) + 1) .. Len(new) :
           /\ Continues(new, n, 0)
           /\ new[n].ref # None => ReversesFresh(new, n)
           /\ new[n].ext # None => ImportsFresh(new, n)
      /\ ledger' = [ledger EXCEPT ![a] = new]
      /\ balance' = [balance EXCEPT ![a] = new[Len(new)].balanceAfter]
      /\ UNCHANGED active

\* The account is closed; its statements and its balance stay.
Close(a) ==
  /\ active[a]
  /\ active' = [active EXCEPT ![a] = FALSE]
  /\ UNCHANGED <<balance, ledger>>

\* An update that read the account before it was closed opens it again.
Reopen(a) ==
  /\ ~active[a]
  /\ active' = [active EXCEPT ![a] = TRUE]
  /\ UNCHANGED <<balance, ledger>>

Next == \E a \in Accounts : Post(a) \/ Close(a) \/ Reopen(a)

Spec == Init /\ [][Next]_avars
===============================================================================
