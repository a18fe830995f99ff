-------------------------------- MODULE Money --------------------------------
(***************************************************************************)
(* Amounts in cents, as the wallet computes with them: signed 64-bit       *)
(* integers of Go, credited to and debited from a balance.                 *)
(***************************************************************************)
EXTENDS Integers

CONSTANT Half   \* 2^63, the number of non-negative values of an int64

ASSUME HalfAssumption == Half \in Nat \ {0}

Types == {"credit", "debit"}

Int64 == (-Half) .. (Half - 1)

\* The value an int64 variable holds after a computation with result x.
Wrap(x) == ((x + Half) % (2 * Half)) - Half

\* Opposite() of a statement type.
Opposite(t) == IF t = "credit" THEN "debit" ELSE "credit"

\* Faulty: the balance stops at the ends of its range.
ApplySaturating(b, t, amount) ==
  LET x == IF t = "credit" THEN b + amount ELSE b - amount
  IN  IF x > Half - 1 THEN Half - 1 ELSE IF x < -Half THEN -Half ELSE x

\* The balance after one statement: credits add, debits subtract.
Apply(b, t, amount) ==
  IF t = "credit" THEN Wrap(b + amount) ELSE Wrap(b - amount)

\* absCents of a signed amount: negating the smallest int64 wraps to itself.
AbsCents(amount) == IF amount < 0 THEN Wrap(-amount) ELSE amount

\* The statement type of a signed OFX amount.
TypeOf(amount) == IF amount >= 0 THEN "credit" ELSE "debit"
===============================================================================
