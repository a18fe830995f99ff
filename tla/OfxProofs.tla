------------------------------- MODULE OfxProofs -------------------------------
(***************************************************************************)
(* What an import reads of money and time is what the file says, proved    *)
(* for any file and any width of integers and of floats.  A plain file is  *)
(* read as the bank wrote it, or refused, and no file that a bank may      *)
(* render is read as saying what it does not say.                          *)
(***************************************************************************)
EXTENDS Ofx, SequenceTheorems, WellFoundedInduction, TLAPS

-----------------------------------------------------------------------------
(***************************************************************************)
(* Amounts.                                                                *)
(***************************************************************************)

\* Does a float tell its thousandths?
Precise(a) == 1000 * (a.whole + 1) <= Precision

\* How many decimals does an amount have?
Decimals(a) == Len(a.frac)

\* c is the magnitude of an amount, exactly or within half a cent.
Exactly(a, c) == c \in Nat /\ c < Half /\ 10 * c = Thousandths(a)
Nearly(a, c) ==
  c \in Int /\ -Half < c /\ c < Half /\ 10 * c - Thousandths(a) \in -5 .. 5

\* What fits an int64 is what the variable holds.
LEMMA WrapFits ==
  ASSUME NEW x \in Int, -Half <= x, x < Half
  PROVE  Wrap(x) = x
  <1>1. x + Half \in 0 .. (2 * Half - 1) /\ 2 * Half \in Nat \ {0}
    BY HalfAssumption
  <1>2. \A n \in Nat \ {0} : \A y \in 0 .. (n - 1) : y % n = y
    OBVIOUS
  <1>3. (x + Half) % (2 * Half) = x + Half
    BY <1>1, <1>2
  <1> QED
    BY <1>3, HalfAssumption DEF Wrap

\* An amount below the greatest the guard lets through fits with its cents.
LEMMA CentsFit ==
  ASSUME NEW whole \in Nat, whole < maxWholePart
  PROVE  100 * whole + 100 < Half
  BY HalfAssumption DEF maxWholePart

\* The decimals of an amount are digits.
LEMMA DigitTypes ==
  ASSUME NEW frac \in Seq(0 .. 9)
  PROVE  /\ Digit(frac, 1) \in 0 .. 9 /\ Digit(frac, 2) \in 0 .. 9 /\ Digit(frac, 3) \in 0 .. 9
         /\ Len(frac) \in Nat /\ DOMAIN frac = 1 .. Len(frac)
         /\ Len(frac) = 0 => Digit(frac, 1) = 0
         /\ Len(frac) \in {0, 1} => Digit(frac, 2) = 0
         /\ Len(frac) \in {0, 1, 2} => Digit(frac, 3) = 0
  BY DEF Digit

\* One decimal or two are that many cents.
LEMMA PaddedCents ==
  ASSUME NEW frac \in Seq(0 .. 9), Len(frac) \in {1, 2}
  PROVE  /\ Padded(frac) \in 0 .. 99
         /\ 10 * Padded(frac) = 100 * Digit(frac, 1) + 10 * Digit(frac, 2)
  <1>1. DOMAIN frac = 1 .. Len(frac) /\ \A k \in 1 .. Len(frac) : frac[k] \in 0 .. 9
    OBVIOUS
  <1>2. CASE Len(frac) = 1
    <2>1. frac[1] \in 0 .. 9 /\ Digit(frac, 1) = frac[1] /\ Digit(frac, 2) = 0
      BY <1>1, <1>2 DEF Digit
    <2> QED
      BY <1>2, <2>1 DEF Padded
  <1>3. CASE Len(frac) = 2
    <2>1. /\ frac[1] \in 0 .. 9 /\ frac[2] \in 0 .. 9
          /\ Digit(frac, 1) = frac[1] /\ Digit(frac, 2) = frac[2]
      BY <1>1, <1>3 DEF Digit
    <2>2. PICK x \in 0 .. 9, y \in 0 .. 9 : x = frac[1] /\ y = frac[2]
      BY SMTT(40), <2>1
    <2>3. Padded(frac) = 10 * x + y
      BY <1>3, <2>2 DEF Padded
    <2>4. Padded(frac) \in 0 .. 99 /\ 10 * Padded(frac) = 100 * x + 10 * y
      BY <2>3
    <2> QED
      BY <2>1, <2>2, <2>4
  <1> QED
    BY <1>2, <1>3

\* An amount without its sign is not negative.
LEMMA ThousandthsNat ==
  ASSUME NEW a, a.whole \in Nat,
         Digit(a.frac, 1) \in 0 .. 9, Digit(a.frac, 2) \in 0 .. 9, Digit(a.frac, 3) \in 0 .. 9
  PROVE  /\ Thousandths(a) \in Nat
         /\ 1000 * a.whole <= Thousandths(a) /\ Thousandths(a) < 1000 * (a.whole + 1)
         /\ Digit(a.frac, 3) = 0 =>
              Thousandths(a) = 1000 * a.whole + (100 * Digit(a.frac, 1) + 10 * Digit(a.frac, 2))
  <1>1. PICK w \in Nat, x \in 0 .. 9, y \in 0 .. 9, z \in 0 .. 9 :
          w = a.whole /\ x = Digit(a.frac, 1) /\ y = Digit(a.frac, 2) /\ z = Digit(a.frac, 3)
    OBVIOUS
  <1>2. Thousandths(a) = 1000 * w + 100 * x + 10 * y + z
    BY <1>1 DEF Thousandths
  <1>3. 0 <= 100 * x + 10 * y + z /\ 100 * x + 10 * y + z <= 999
    OBVIOUS
  <1>4. /\ Thousandths(a) \in Nat
        /\ 1000 * w <= Thousandths(a) /\ Thousandths(a) < 1000 * (w + 1)
        /\ z = 0 => Thousandths(a) = 1000 * w + (100 * x + 10 * y)
    BY <1>2, <1>3
  <1> QED
    BY <1>1, <1>4

\* A sign does not change how far off an amount is.
LEMMA SignedApart ==
  ASSUME NEW sign, NEW c \in Int, NEW t \in Int
  PROVE  /\ Signed(sign, c) \in {c, -c}
         /\ 10 * c = t => 10 * Signed(sign, c) - Signed(sign, t) = 0
         /\ 10 * c - t \in -5 .. 5 => 10 * Signed(sign, c) - Signed(sign, t) \in -5 .. 5
  <1>1. CASE sign = "-"
    <2>1. Signed(sign, c) = -c /\ Signed(sign, t) = -t
      BY <1>1 DEF Signed
    <2> QED
      BY <2>1
  <1>2. CASE sign # "-"
    <2>1. Signed(sign, c) = c /\ Signed(sign, t) = t
      BY <1>2 DEF Signed
    <2> QED
      BY <2>1
  <1> QED
    BY <1>1, <1>2

\* Below the guard, and below the precision of a float for a third decimal,
\* the magnitude of an amount without a second sign is read within half a cent.
LEMMA MagnitudeTrue ==
  ASSUME NEW a \in Amounts, a.inner = "none", a.whole \in Nat, a.whole < maxWholePart,
         NEW c \in Magnitudes(a), c # Invalid
  PROVE  /\ Decimals(a) \in {0, 1, 2} => Exactly(a, c)
         /\ Precise(a) => Nearly(a, c)
  <1> DEFINE t == 1000 * a.whole + 100 * a.frac[1] + 10 * a.frac[2] + a.frac[3]
  <1>0. a.frac \in Seq(0 .. 9)
    BY DEF Amounts
  <1>1. /\ Decimals(a) \in Nat /\ DOMAIN a.frac = 1 .. Decimals(a)
        /\ \A k \in 1 .. Decimals(a) : a.frac[k] \in 0 .. 9
    BY <1>0 DEF Decimals
  <1>digits. /\ Digit(a.frac, 1) \in 0 .. 9
             /\ Digit(a.frac, 2) \in 0 .. 9
             /\ Digit(a.frac, 3) \in 0 .. 9
    BY <1>0, DigitTypes
  <1>zeros. /\ Decimals(a) = 0 => Digit(a.frac, 1) = 0
            /\ Decimals(a) \in {0, 1} => Digit(a.frac, 2) = 0
            /\ Decimals(a) \in {0, 1, 2} => Digit(a.frac, 3) = 0
    BY <1>0, DigitTypes DEF Decimals
  <1>bounds. /\ Thousandths(a) \in Nat
             /\ 1000 * a.whole <= Thousandths(a) /\ Thousandths(a) < 1000 * (a.whole + 1)
             /\ Digit(a.frac, 3) = 0 =>
                  Thousandths(a) = 1000 * a.whole + (100 * Digit(a.frac, 1) + 10 * Digit(a.frac, 2))
    BY <1>digits, ThousandthsNat
  <1>same. \A k \in {1, 2, 3} : k <= Decimals(a) => a.frac[k] = Digit(a.frac, k)
    BY <1>1 DEF Digit
  <1>2. /\ a.whole \in Nat /\ 100 * a.whole + 100 < Half
        /\ -Half <= a.whole /\ a.whole <= maxWholePart
        /\ Half \in Nat /\ maxWholePart \in Int
    BY CentsFit, HalfAssumption DEF maxWholePart
  <1>3. Signed(a.inner, a.whole) = a.whole /\ Signed(a.inner, t) = t
    BY DEF Signed
  <1> HIDE DEF t
  <1>4. CASE Decimals(a) = 0
    <2>1. c = Wrap(a.whole * 100)
      BY <1>2, <1>3, <1>4 DEF Magnitudes, Decimals
    <2>2. c = 100 * a.whole
      BY <1>2, <2>1, WrapFits
    <2>zeros. Digit(a.frac, 1) = 0 /\ Digit(a.frac, 2) = 0 /\ Digit(a.frac, 3) = 0
      BY <1>4, <1>zeros
    <2>3. Thousandths(a) = 1000 * a.whole
      BY <2>zeros, <1>2, <1>bounds
    <2> QED
      BY <1>2, <2>2, <2>3 DEF Exactly, Nearly
  <1>5. CASE Decimals(a) \in {1, 2}
    <2>1. c = Wrap(a.whole * 100 + Padded(a.frac))
      BY <1>2, <1>3, <1>5 DEF Magnitudes, Decimals
    <2>2. /\ Padded(a.frac) \in 0 .. 99
          /\ 10 * Padded(a.frac) = 100 * Digit(a.frac, 1) + 10 * Digit(a.frac, 2)
          /\ Digit(a.frac, 3) = 0
      BY <1>0, <1>zeros, <1>5, PaddedCents DEF Decimals
    <2>3. c = a.whole * 100 + Padded(a.frac)
      BY <1>2, <2>1, <2>2, WrapFits
    <2>4. Thousandths(a) = 1000 * a.whole + 10 * Padded(a.frac)
      BY <1>digits, <1>2, <2>2, <1>bounds
    <2> QED
      BY <1>2, <2>2, <2>3, <2>4 DEF Exactly, Nearly
  <1>6. CASE Decimals(a) > 2 /\ Precise(a)
    <2>1. PICK x \in Rounded(t) : c \in FromFloat(x)
      BY SMTT(40), <1>2, <1>3, <1>6 DEF Magnitudes, Decimals, t
    <2>three. /\ a.frac[1] = Digit(a.frac, 1) /\ a.frac[2] = Digit(a.frac, 2)
              /\ a.frac[3] = Digit(a.frac, 3)
      BY <1>1, <1>6, <1>same
    <2>sum. t = Thousandths(a)
      BY <2>three DEF Thousandths, t
    <2>2. /\ Thousandths(a) = t
          /\ t \in Nat /\ 1000 * a.whole <= t /\ t < 1000 * (a.whole + 1)
      BY <1>2, <2>sum, <1>bounds
    <2>3. Loss(t) = 5
      <3>1. \A n \in Nat \ {0} : \A y \in 0 .. (n - 1) : y \div n = 0
        OBVIOUS
      <3>2. t \in 0 .. (Precision - 1)
        BY <1>2, <1>6, <2>2, PrecisionAssumption DEF Precise
      <3>3. t \div Precision = 0
        BY <3>1, <3>2, PrecisionAssumption
      <3>4. (IF t < 0 THEN -t ELSE t) = t
        BY <2>2
      <3> QED
        BY <3>3, <3>4 DEF Loss
    <2>4. x \in Int /\ 10 * x - t \in -5 .. 5
      BY <2>1, <2>2, <2>3 DEF Rounded
    <2>5. -Half < x /\ x < Half
      <3>1. 10 * x <= t + 5 /\ 10 * x >= t - 5
        BY <2>2, <2>4
      <3> QED
        BY <1>2, <2>2, <2>4, <3>1
    <2>6. c = x
      BY <1>2, <2>1, <2>4, <2>5 DEF FromFloat
    <2> QED
      BY <1>6, <2>2, <2>4, <2>5, <2>6 DEF Nearly
  <1> QED
    BY <1>1, <1>4, <1>5, <1>6

\* And so is the amount, with its sign (amount.go:13-92).
LEMMA ParsedAmountTrue ==
  ASSUME NEW text, NEW cents \in ParseAmount(text), cents # Invalid,
         NEW a, a = text[1], a.inner = "none", a.whole < maxWholePart
  PROVE  /\ a \in Amounts
         /\ Decimals(a) <= 2 => 10 * cents - Signed(a.sign, Thousandths(a)) = 0
         /\ Precise(a) => 10 * cents - Signed(a.sign, Thousandths(a)) \in -5 .. 5
  <1>1. a \in Amounts /\ a.whole # NoDigits
    BY DEF ParseAmount
  <1>2. a.whole \in Nat /\ a.sign \in {"none", "+", "-"} /\ a.frac \in Seq(0 .. 9)
    BY <1>1 DEF Amounts
  <1>3. PICK c \in Magnitudes(a) : c # Invalid /\ cents = Wrap(Signed(a.sign, c))
    BY <1>1 DEF ParseAmount
  <1>4. /\ Decimals(a) \in {0, 1, 2} => Exactly(a, c)
        /\ Precise(a) => Nearly(a, c)
    BY <1>1, <1>2, <1>3, MagnitudeTrue
  <1>digits. /\ Digit(a.frac, 1) \in 0 .. 9
             /\ Digit(a.frac, 2) \in 0 .. 9
             /\ Digit(a.frac, 3) \in 0 .. 9
    BY <1>2, DigitTypes
  <1>decimals. Decimals(a) \in Nat
    BY <1>2, DigitTypes DEF Decimals
  <1>5. Thousandths(a) \in Nat /\ Half \in Nat
    BY <1>2, <1>digits, ThousandthsNat, HalfAssumption
  <1>6. ASSUME c \in Int, -Half < c, c < Half
        PROVE  cents = Signed(a.sign, c)
    <2>1. Signed(a.sign, c) \in Int /\ -Half <= Signed(a.sign, c) /\ Signed(a.sign, c) < Half
      BY <1>5, <1>6 DEF Signed
    <2> QED
      BY <1>3, <2>1, WrapFits
  <1>7. ASSUME Decimals(a) <= 2
        PROVE  10 * cents - Signed(a.sign, Thousandths(a)) = 0
    BY <1>4, <1>5, <1>6, <1>7, <1>decimals, SignedApart DEF Exactly
  <1>8. ASSUME Precise(a)
        PROVE  10 * cents - Signed(a.sign, Thousandths(a)) \in -5 .. 5
    BY <1>4, <1>5, <1>6, <1>8, SignedApart DEF Nearly
  <1> QED
    BY <1>1, <1>7, <1>8
-----------------------------------------------------------------------------
(***************************************************************************)
(* Dates.                                                                  *)
(***************************************************************************)

\* A date is the instant that was meant, or half an hour off if its zone has
\* half an hour (date.go:9-82).
LEMMA ParsedDateTrue ==
  ASSUME NEW text, ParseDate(text) # Invalid, NEW d, d = text[1]
  PROVE  LET meant == IF d.zone = Invalid THEN d.local ELSE d.local - d.zone
         IN  ParseDate(text) - meant \in IF d.zone = Invalid THEN {0}
                                         ELSE IF d.zone % 2 = 0 THEN {0} ELSE {-1, 1}
  <1>1. /\ d \in Dates
        /\ ParseDate(text) = d.local - parseOFXTimezone(d.zone)
    BY DEF ParseDate
  <1>2. d.local \in Int /\ d.zone \in Int \cup {Invalid}
    BY <1>1 DEF Dates
  <1>3. CASE d.zone = Invalid
    BY <1>1, <1>2, <1>3 DEF parseOFXTimezone
  <1>4. CASE d.zone # Invalid
    <2>1. d.zone \in Int
      BY <1>2, <1>4
    <2>2. d.zone - parseOFXTimezone(d.zone) \in
            IF d.zone % 2 = 0 THEN {0} ELSE {-1, 1}
      BY <1>4, <2>1 DEF parseOFXTimezone
    <2>3. parseOFXTimezone(d.zone) \in Int
      BY <1>4, <2>1 DEF parseOFXTimezone
    <2> QED
      BY <1>1, <1>2, <1>4, <2>1, <2>2, <2>3
  <1> QED
    BY <1>3, <1>4
-----------------------------------------------------------------------------
(***************************************************************************)
(* The invariant.                                                          *)
(***************************************************************************)

\* Transaction i is what mapTransaction made of what was decoded.
Mapped(i) ==
  /\ txns[i].Amount \in ParseAmount(raw[i]["TRNAMT"])
  /\ txns[i].Amount # Invalid
  /\ txns[i].DatePosted = ParseDate(raw[i]["DTPOSTED"])
  /\ txns[i].DatePosted # Invalid

\* Nothing is mapped before the decoder is done, and what it read is not
\* changed after that.
MapInv ==
  /\ pc \in {"read", "decode", "map", "done"}
  /\ pc \in {"read", "decode"} => txns = << >>
  /\ \E S : txns \in Seq(S)
  /\ \A i \in DOMAIN txns : Mapped(i)

\* Every step keeps it: mapTransaction appends, or drops what it has.
LEMMA NextMapInv ==
  ASSUME MapInv, [Next]_vars PROVE MapInv'
  <1>1. CASE Read \/ StartElement \/ CharData \/ EndElement \/ EndOfInput
    <2>1. txns = << >> /\ txns' = << >> /\ pc' \in {"read", "decode", "map", "done"}
      BY <1>1
      DEF MapInv, Read, StartElement, CharData, EndElement, EndOfInput, Reads, Finish
    <2> QED
      BY <2>1 DEF MapInv
  <1>2. CASE MapTransaction
    <2>1. CASE txns' = << >> /\ Finish("ErrInvalidAmount")
      BY <2>1 DEF MapInv, Finish
    <2>2. CASE txns' = << >> /\ Finish("ErrInvalidDate")
      BY <2>2 DEF MapInv, Finish
    <2>3. ASSUME NEW x, x = raw[Len(txns) + 1],
                 NEW cents \in ParseAmount(x["TRNAMT"]), cents # Invalid,
                 NEW date, date = ParseDate(x["DTPOSTED"]), date # Invalid,
                 NEW e, e = [FITID |-> x["FITID"], Type |-> x["TRNTYPE"], Amount |-> cents,
                             Name |-> x["NAME"], Memo |-> x["MEMO"], DatePosted |-> date],
                 txns' = Append(txns, e), UNCHANGED <<pc, raw>>, pc = "map"
          PROVE  MapInv'
      <3>1. PICK S : txns \in Seq(S)
        BY DEF MapInv
      <3>2. PICK T : T = S \cup {e}
        OBVIOUS
      <3>3. txns \in Seq(T) /\ e \in T
        BY <3>1, <3>2, SeqMonotonic
      <3>4. /\ txns' \in Seq(T)
            /\ Len(txns) \in Nat
            /\ DOMAIN txns = 1 .. Len(txns) /\ DOMAIN txns' = 1 .. (Len(txns) + 1)
            /\ \A i \in 1 .. Len(txns) : txns'[i] = txns[i]
            /\ txns'[Len(txns) + 1] = e
        BY <2>3, <3>3, AppendProperties, LenProperties
      <3>5. e.Amount = cents /\ e.DatePosted = date
        BY <2>3
      <3>6. ASSUME NEW i \in DOMAIN txns' PROVE Mapped(i)'
        <4>1. CASE i \in DOMAIN txns
          BY <2>3, <3>4, <4>1 DEF MapInv, Mapped
        <4>2. CASE i = Len(txns) + 1
          BY <2>3, <3>4, <3>5, <4>2 DEF Mapped
        <4> QED
          BY <3>4, <4>1, <4>2
      <3> QED
        BY <2>3, <3>4, <3>6 DEF MapInv
    <2> QED
      BY <1>2, <2>1, <2>2, <2>3 DEF MapTransaction
  <1>3. CASE Return \/ Parsed \/ UNCHANGED vars
    BY <1>3 DEF MapInv, Mapped, Return, Parsed, Finish, vars
  <1> QED
    BY <1>1, <1>2, <1>3 DEF Next

LEMMA MapInvariant == Spec => []MapInv
  <1>1. Init => MapInv
    BY DEF Init, MapInv
  <1>2. MapInv /\ [Next]_vars => MapInv'
    BY NextMapInv
  <1> QED
    BY <1>1, <1>2, PTL DEF Spec

\* Of every file that is read, every transaction has the amount and the date
\* that the file says, signs, decimals, overflows and zones included, for any
\* width of integers (amount.go:13-92, date.go:9-82).
THEOREM ValuesKept == Spec => []ValuesTrue
  <1>1. MapInv => AmountTrue
    <2> DEFINE a(i) == raw[i]["TRNAMT"][1]
               read(i) == 10 * txns[i].Amount - Signed(a(i).sign, Thousandths(a(i)))
    <2>1. SUFFICES ASSUME MapInv, NEW i \in DOMAIN txns,
                          a(i).inner = "none", a(i).whole < maxWholePart
                   PROVE  /\ Decimals(a(i)) <= 2 => read(i) = 0
                          /\ Precise(a(i)) => read(i) \in -5 .. 5
      BY ZenonT(60) DEF AmountTrue, Precise, Decimals
    <2>2. txns[i].Amount \in ParseAmount(raw[i]["TRNAMT"]) /\ txns[i].Amount # Invalid
      BY <2>1 DEF MapInv, Mapped
    <2> QED
      BY <2>1, <2>2, ParsedAmountTrue
  <1>2. MapInv => InstantKept
    BY ParsedDateTrue DEF MapInv, Mapped, InstantKept
  <1> QED
    BY <1>1, <1>2, MapInvariant, PTL DEF ValuesTrue
-----------------------------------------------------------------------------
(***************************************************************************)
(* Open elements.                                                          *)
(***************************************************************************)

\* The element x has no namesake in the path.
NotOn(path, x) == \A i \in DOMAIN path : path[i] # x

\* Of the elements that are open, the bank means those on a path to be, all
\* before the first b.  The others are leaves, and leaves stay open only in a
\* transaction.
Nested(path, b, open) ==
  /\ open \in Seq(Names) /\ path \in Seq(Names)
  /\ b \in Len(path) .. Len(open)
  /\ \A k \in 1 .. Len(path) : open[k] = path[k]
  /\ \A k \in (Len(path) + 1) .. Len(open) : NotOn(path, open[k]) /\ NotOn(TxnPath, open[k])
  /\ path # TxnPath => b = Len(path)

LEMMA Appended ==
  ASSUME NEW S, NEW s \in Seq(S), NEW x \in S
  PROVE  /\ Append(s, x) \in Seq(S) /\ Append(s, x) # << >>
         /\ Len(s) \in Nat /\ Len(Append(s, x)) = Len(s) + 1
         /\ \A k \in 1 .. Len(s) : Append(s, x)[k] = s[k]
         /\ Append(s, x)[Len(s) + 1] = x
  BY AppendProperties, LenProperties

\* Appending tells sequences apart.
LEMMA AppendedEqual ==
  ASSUME NEW S, NEW s \in Seq(S), NEW t \in Seq(S), NEW x \in S, NEW y \in S,
         Append(s, x) = Append(t, y)
  PROVE  s = t /\ x = y
  <1>1. Len(s) = Len(t)
    BY Appended
  <1>2. x = y /\ \A k \in 1 .. Len(s) : s[k] = t[k]
    BY <1>1, Appended
  <1> QED
    BY <1>1, <1>2, SeqEqual

\* The start of a sequence.
LEMMA Cut ==
  ASSUME NEW S, NEW s \in Seq(S), NEW n \in 0 .. Len(s)
  PROVE  /\ SubSeq(s, 1, n) \in Seq(S) /\ Len(SubSeq(s, 1, n)) = n
         /\ \A k \in 1 .. n : SubSeq(s, 1, n)[k] = s[k]
  <1>1. Len(s) \in Nat /\ \A k \in 1 .. n : s[k] \in S
    BY LenProperties, ElementOfSeq
  <1>2. 1 \in Int /\ n \in Int
    OBVIOUS
  <1>3. /\ SubSeq(s, 1, n) \in Seq(S)
        /\ Len(SubSeq(s, 1, n)) = IF 1 <= n THEN n - 1 + 1 ELSE 0
        /\ \A i \in 1 .. n - 1 + 1 : SubSeq(s, 1, n)[i] = s[1 + i - 1]
    BY <1>1, <1>2, SubSeqProperties
  <1> QED
    BY <1>1, <1>3

\* A set of numbers has a least one.
LEMMA Least ==
  ASSUME NEW T, T \subseteq Nat, T # {}
  PROVE  \E m \in T : \A n \in T : m <= n
  <1> DEFINE R == {p \in Nat \X Nat : p[1] < p[2]}
  <1>1. IsWellFoundedOn(R, Nat)
    BY NatLessThanWellFounded DEF OpToRel
  <1>2. PICK m \in T : \A n \in T : <<n, m>> \notin R
    BY <1>1, WFMin
  <1>3. ASSUME NEW n \in T PROVE m <= n
    <2>1. m \in Nat /\ n \in Nat /\ <<n, m>> \notin R
      BY <1>2
    <2>2. ~(n < m)
      BY <2>1
    <2> QED
      BY <2>1, <2>2
  <1> QED
    BY <1>3

\* And, if none is above b, a greatest.
LEMMA Greatest ==
  ASSUME NEW b \in Nat, NEW T, T \subseteq 0 .. b, T # {}
  PROVE  \E m \in T : \A n \in T : n <= m
  <1> DEFINE above == {m \in Nat : \A n \in T : n <= m}
  <1>1. b \in above
    OBVIOUS
  <1>2. PICK m \in above : \A k \in above : m <= k
    BY <1>1, Least
  <1>3. m \in T
    <2> SUFFICES ASSUME m \notin T PROVE FALSE
      OBVIOUS
    <2>1. \A n \in T : n <= m - 1
      OBVIOUS
    <2>2. PICK n \in T : TRUE
      OBVIOUS
    <2>3. m - 1 \in above
      BY <2>1, <2>2
    <2> QED
      BY <1>2, <2>3
  <1> QED
    BY <1>2, <1>3

\* </t> closes what was opened since the innermost t, and that.
LEMMA ClosesTo ==
  ASSUME NEW S, NEW open \in Seq(S), NEW t, NEW k \in 1 .. Len(open), open[k] = t,
         \A j \in (k + 1) .. Len(open) : open[j] # t
  PROVE  OpenAfter(open, t) = SubSeq(open, 1, k - 1)
  <1> DEFINE same == {i \in DOMAIN open : open[i] = t}
  <1>1. Len(open) \in Nat /\ DOMAIN open = 1 .. Len(open)
    BY LenProperties
  <1>2. k \in same /\ \A j \in same : j \in Nat /\ j <= k
    BY <1>1
  <1> DEFINE c == CHOOSE i \in same : \A j \in same : j <= i
  <1>3. c \in same /\ \A j \in same : j <= c
    BY <1>2
  <1>4. c = k
    BY <1>2, <1>3
  <1> HIDE DEF c
  <1>5. OpenAfter(open, t) = SubSeq(open, 1, c - 1)
    BY <1>2 DEF OpenAfter, c
  <1> QED
    BY <1>4, <1>5

\* And everything, if no t is open.
LEMMA ClosesAll ==
  ASSUME NEW S, NEW open \in Seq(S), NEW t, \A k \in 1 .. Len(open) : open[k] # t
  PROVE  OpenAfter(open, t) = << >>
  BY LenProperties DEF OpenAfter

\* Outside a transaction, what is open is what the bank means.
LEMMA OpenExactly ==
  ASSUME NEW path, NEW open, Nested(path, Len(open), open), Len(path) = Len(open)
  PROVE  open = path
  BY SeqEqual DEF Nested

\* An aggregate opens.
LEMMA NestedOpens ==
  ASSUME NEW path, NEW open, Nested(path, Len(open), open), path # TxnPath, NEW a \in Names
  PROVE  /\ open = path
         /\ Nested(Append(path, a), Len(Append(open, a)), Append(open, a))
  <1>1. open = path /\ path \in Seq(Names)
    BY OpenExactly DEF Nested
  <1> QED
    BY <1>1, Appended DEF Nested

\* A leaf opens.
LEMMA NestedLeaf ==
  ASSUME NEW path, NEW open, Nested(path, Len(open), open),
         NEW x \in Names, NotOn(path, x), NotOn(TxnPath, x)
  PROVE  Nested(path, Len(Append(open, x)) - 1, Append(open, x))
  <1> DEFINE s == Append(open, x)
  <1>1. open \in Seq(Names) /\ path \in Seq(Names) /\ Len(path) \in Nat /\ Len(path) <= Len(open)
    BY LenProperties DEF Nested
  <1>2. /\ s \in Seq(Names) /\ Len(s) = Len(open) + 1 /\ Len(open) \in Nat
        /\ \A k \in 1 .. Len(open) : s[k] = open[k]
        /\ s[Len(open) + 1] = x
    BY <1>1, Appended
  <1> HIDE DEF s
  <1>3. \A k \in 1 .. Len(path) : s[k] = path[k]
    BY <1>1, <1>2 DEF Nested
  <1>4. \A k \in (Len(path) + 1) .. Len(s) : NotOn(path, s[k]) /\ NotOn(TxnPath, s[k])
    <2> SUFFICES ASSUME NEW k \in (Len(path) + 1) .. Len(s)
                 PROVE  NotOn(path, s[k]) /\ NotOn(TxnPath, s[k])
      OBVIOUS
    <2>1. k \in (Len(path) + 1) .. Len(open) \/ k = Len(open) + 1
      BY <1>1, <1>2
    <2> QED
      BY <1>1, <1>2, <2>1 DEF Nested
  <1>5. /\ Len(s) - 1 \in Len(path) .. Len(s)
        /\ path # TxnPath => Len(s) - 1 = Len(path)
    BY <1>1, <1>2 DEF Nested
  <1> QED
    BY <1>1, <1>2, <1>3, <1>4, <1>5 DEF Nested, s

\* In a transaction, a leaf may stay open.
LEMMA NestedStays ==
  ASSUME NEW b, NEW open, Nested(TxnPath, b, open)
  PROVE  Nested(TxnPath, Len(open), open)
  BY LenProperties DEF Nested

\* A leaf that is open is the innermost.
LEMMA NestedPops ==
  ASSUME NEW path, NEW open, Nested(path, Len(open) - 1, open)
  PROVE  LET s == OpenAfter(open, open[Len(open)])
         IN  Nested(path, Len(s), s) /\ Len(s) = Len(open) - 1
  <1> DEFINE n == Len(open) - 1
             s == OpenAfter(open, open[Len(open)])
  <1>1. /\ open \in Seq(Names) /\ path \in Seq(Names)
        /\ Len(open) \in Nat /\ Len(path) \in Nat /\ Len(path) <= n /\ n \in 0 .. Len(open)
    BY LenProperties DEF Nested
  <1>2. s = SubSeq(open, 1, n)
    BY <1>1, ClosesTo
  <1>3. s \in Seq(Names) /\ Len(s) = n /\ \A k \in 1 .. n : s[k] = open[k]
    BY <1>1, <1>2, Cut
  <1> HIDE DEF s
  <1>4. \A k \in 1 .. Len(path) : s[k] = path[k]
    BY <1>1, <1>3 DEF Nested
  <1>5. ASSUME NEW k \in (Len(path) + 1) .. Len(s)
        PROVE  NotOn(path, s[k]) /\ NotOn(TxnPath, s[k])
    <2>1. k \in (Len(path) + 1) .. Len(open) /\ s[k] = open[k]
      BY <1>1, <1>3
    <2> QED
      BY <2>1 DEF Nested
  <1>6. path # TxnPath => n = Len(path)
    BY DEF Nested
  <1> QED
    BY <1>1, <1>3, <1>4, <1>5, <1>6 DEF Nested, s

\* Its second closing tag closes a leaf of the same name that was left open, and
\* everything if there is none.
LEMMA NestedPopsAgain ==
  ASSUME NEW path, NEW open, Nested(path, Len(open), open),
         NEW x, NotOn(path, x)
  PROVE  LET s == OpenAfter(open, x)
         IN  s = << >> \/ Nested(path, Len(s), s)
  <1>1. /\ open \in Seq(Names) /\ path \in Seq(Names)
        /\ Len(open) \in Nat /\ Len(path) \in Nat /\ Len(path) <= Len(open)
        /\ DOMAIN path = 1 .. Len(path)
    BY LenProperties DEF Nested
  <1>2. CASE \A k \in 1 .. Len(open) : open[k] # x
    BY <1>1, <1>2, ClosesAll
  <1>3. CASE \E k \in 1 .. Len(open) : open[k] = x
    <2> DEFINE same == {k \in 1 .. Len(open) : open[k] = x}
               s == OpenAfter(open, x)
    <2>0. same \subseteq 0 .. Len(open) /\ same # {}
      BY <1>1, <1>3
    <2>1. PICK k \in same : \A j \in same : j <= k
      <3> HIDE DEF same
      <3> QED
        BY <1>1, <2>0, Greatest
    <2>2. k \in 1 .. Len(open) /\ open[k] = x /\ \A j \in (k + 1) .. Len(open) : open[j] # x
      BY <1>1, <2>1
    <2>3. s = SubSeq(open, 1, k - 1)
      BY <1>1, <2>2, ClosesTo
    <2>4. ~(k <= Len(path))
      BY <1>1, <2>2 DEF Nested, NotOn
    <2>5. s \in Seq(Names) /\ Len(s) = k - 1 /\ \A j \in 1 .. k - 1 : s[j] = open[j]
      BY <1>1, <2>2, <2>3, Cut
    <2>6. path = TxnPath
      BY <1>1, <2>2, <2>4 DEF Nested
    <2> HIDE DEF s
    <2>7. \A j \in 1 .. Len(path) : s[j] = path[j]
      BY <1>1, <2>2, <2>4, <2>5 DEF Nested
    <2>8. ASSUME NEW j \in (Len(path) + 1) .. Len(s)
          PROVE  NotOn(path, s[j]) /\ NotOn(TxnPath, s[j])
      <3>1. j \in (Len(path) + 1) .. Len(open) /\ s[j] = open[j]
        BY <1>1, <2>2, <2>4, <2>5
      <3> QED
        BY <3>1 DEF Nested
    <2> QED
      BY <1>1, <2>2, <2>4, <2>5, <2>6, <2>7, <2>8 DEF Nested, s
  <1> QED
    BY <1>2, <1>3

\* An aggregate's end tag closes it, and the leaves that are open in it.
LEMMA NestedCloses ==
  ASSUME NEW path, NEW open, path \in Seq(Names), NEW a \in Names,
         Nested(Append(path, a), Len(open), open)
  PROVE  OpenAfter(open, a) = path
  <1> DEFINE p == Append(path, a)
  <1>1. /\ p \in Seq(Names) /\ Len(p) = Len(path) + 1 /\ Len(path) \in Nat /\ p[Len(p)] = a
        /\ \A k \in 1 .. Len(path) : p[k] = path[k]
    BY Appended
  <1> HIDE DEF p
  <1>2. /\ open \in Seq(Names) /\ Len(open) \in Nat /\ Len(p) <= Len(open)
        /\ open[Len(p)] = a /\ \A k \in 1 .. Len(path) : open[k] = path[k]
        /\ DOMAIN p = 1 .. Len(p)
    BY <1>1, LenProperties DEF Nested, p
  <1>3. \A j \in (Len(p) + 1) .. Len(open) : open[j] # a
    BY <1>1, <1>2 DEF Nested, NotOn, p
  <1>4. OpenAfter(open, a) = SubSeq(open, 1, Len(p) - 1)
    <2>1. Len(p) \in 1 .. Len(open)
      BY <1>1, <1>2
    <2> QED
      BY <1>2, <1>3, <2>1, ClosesTo
  <1>5. /\ SubSeq(open, 1, Len(path)) \in Seq(Names) /\ Len(SubSeq(open, 1, Len(path))) = Len(path)
        /\ \A k \in 1 .. Len(path) : SubSeq(open, 1, Len(path))[k] = open[k]
    BY <1>1, <1>2, Cut
  <1> QED
    BY <1>1, <1>2, <1>4, <1>5, SeqEqual

\* A path is open if nothing else is.
LEMMA NestedPath ==
  ASSUME NEW path \in Seq(Names)
  PROVE  Nested(path, Len(path), path)
  BY LenProperties DEF Nested
-----------------------------------------------------------------------------
(***************************************************************************)
(* Files, line by line.                                                    *)
(***************************************************************************)

LEMMA FileTypes ==
  ASSUME NEW f \in Files
  PROVE  /\ f.lines \in Seq(Seq(Tokens)) /\ f.says \in Seq([Fields -> Seq(Texts)])
         /\ f.path \in Seq(Seq(Names)) /\ f.begun \in Seq(Nat)
         /\ f.long \in Nat /\ f.long <= Len(f.lines)
  BY FilesAssumption

\* Places are where lines begin, and the end.
LEMMA Places ==
  ASSUME NEW f \in Files
  PROVE  /\ Len(f.lines) \in Nat \ {0} /\ DOMAIN f.lines = 1 .. Len(f.lines)
         /\ Len(f.says) \in Nat /\ DOMAIN f.says = 1 .. Len(f.says)
         /\ f.path[1] = << >> /\ f.begun[1] = 0
         /\ \A n \in 1 .. Len(f.lines) + 1 :
              /\ f.path[n] \in Seq(Names)
              /\ f.begun[n] \in 0 .. Len(f.says)
              /\ f.path[n] = TxnPath => f.begun[n] > 0
         /\ \A n \in 2 .. Len(f.lines) : f.path[n] # << >>
  <1>1. /\ f.lines \in Seq(Seq(Tokens)) /\ f.says \in Seq([Fields -> Seq(Texts)])
        /\ f.path \in Seq(Seq(Names)) /\ f.begun \in Seq(Nat)
    BY FileTypes
  <1>2. Rendered(f)
    BY RenderedAssumption
  <1>3. /\ Len(f.lines) \in Nat \ {0} /\ DOMAIN f.lines = 1 .. Len(f.lines)
        /\ Len(f.path) = Len(f.lines) + 1 /\ Len(f.begun) = Len(f.lines) + 1
        /\ Len(f.says) \in Nat /\ DOMAIN f.says = 1 .. Len(f.says)
    BY <1>1, <1>2, LenProperties, EmptySeq DEF Rendered
  <1>4. \A n \in 1 .. Len(f.lines) + 1 : f.path[n] \in Seq(Names) /\ f.begun[n] \in Nat
    BY <1>1, <1>3, ElementOfSeq
  <1>5. \A n \in 1 .. Len(f.lines) + 1 :
          f.begun[n] <= Len(f.says) /\ (f.path[n] = TxnPath => f.begun[n] > 0)
    BY <1>2 DEF Rendered
  <1>6. f.path[1] = << >> /\ f.begun[1] = 0 /\ \A n \in DOMAIN f.lines : n > 1 => f.path[n] # << >>
    BY <1>2 DEF Rendered
  <1>7. \A n \in 1 .. Len(f.lines) + 1 : f.begun[n] \in 0 .. Len(f.says)
    BY <1>3, <1>4, <1>5
  <1>8. \A n \in 2 .. Len(f.lines) : f.path[n] # << >>
    BY <1>3, <1>6
  <1> QED
    BY <1>3, <1>4, <1>5, <1>6, <1>7, <1>8

\* A line of one token has a name or a value on it.
LEMMA OneToken ==
  ASSUME NEW f \in Files, NEW n \in 1 .. Len(f.lines), Len(f.lines[n]) = 1
  PROVE  /\ f.lines[n][1].k \in {"start", "end"} => f.lines[n][1].name \in Names
         /\ f.lines[n][1].k = "text" => f.lines[n][1].value \in Texts
  <1>1. f.lines[n] \in Seq(Tokens)
    BY FileTypes, ElementOfSeq
  <1>2. f.lines[n][1] \in Tokens
    BY <1>1, ElementOfSeq
  <1> QED
    BY <1>2 DEF Tokens

\* The decoder has the lines up to one that is too long, with their closing tags.
LEMMA LinesShape ==
  ASSUME file \in Files
  PROVE  /\ Len(Lines) \in Nat /\ DOMAIN Lines = 1 .. Len(Lines) /\ Len(Lines) <= Len(file.lines)
         /\ \A n \in 1 .. Len(Lines) :
              Lines[n] = IF isSGML THEN processLine(file.lines[n]) ELSE file.lines[n]
         /\ file.long = 0 => Len(Lines) = Len(file.lines)
         /\ Len(Lines) = Len(file.lines) => file.long = 0 \/ ~isSGML
  <1>1. /\ file.lines \in Seq(Seq(Tokens)) /\ file.long \in Nat /\ file.long <= Len(file.lines)
        /\ Len(file.lines) \in Nat /\ DOMAIN file.lines = 1 .. Len(file.lines)
    BY FileTypes, LenProperties
  <1>2. /\ DOMAIN Scanned = 1 .. Len(Scanned) /\ Len(Scanned) \in Nat
        /\ Len(Scanned) = IF file.long = 0 THEN Len(file.lines) ELSE file.long - 1
        /\ \A n \in 1 .. Len(Scanned) : Scanned[n] = file.lines[n]
    <2>1. CASE file.long = 0
      BY <1>1, <2>1 DEF Scanned
    <2>2. CASE file.long # 0
      <3>1. file.long - 1 \in 0 .. Len(file.lines)
        BY <1>1, <2>2
      <3>2. Scanned \in Seq(Seq(Tokens)) /\ Len(Scanned) = file.long - 1
            /\ \A n \in 1 .. file.long - 1 : Scanned[n] = file.lines[n]
        BY <1>1, <2>2, <3>1, Cut DEF Scanned
      <3> QED
        BY <2>2, <3>1, <3>2, LenProperties
    <2> QED
      BY <2>1, <2>2
  <1>3. CASE isSGML
    <2>1. Lines = [n \in DOMAIN Scanned |-> processLine(Scanned[n])]
      BY <1>3 DEF Lines, sgmlToXML
    <2>2. DOMAIN Lines = 1 .. Len(Scanned) /\ Len(Lines) = Len(Scanned)
      <3>1. PICK m \in Nat : m = Len(Scanned)
        BY <1>2
      <3>2. Lines = [n \in 1 .. m |-> processLine(Scanned[n])]
        BY <1>2, <2>1, <3>1
      <3> QED
        BY <3>1, <3>2
    <2> QED
      BY <1>1, <1>2, <1>3, <2>1, <2>2
  <1>4. CASE ~isSGML
    BY <1>1, <1>4 DEF Lines
  <1> QED
    BY <1>3, <1>4

\* What the decoder reads on a leaf's line: a tag, then perhaps a value, and end
\* tags, two of them if processLine adds its own to the bank's.
LeafLine(n) ==
  LET l == file.lines[n]
      x == l[1].name
      given == Lines[n]
      valued == Len(given) >= 2 /\ given[2].k = "text"
  IN  /\ Len(given) \in 1 .. 4 /\ given[1] = l[1] /\ l[1].k = "start" /\ x \in Names
      /\ NotOn(file.path[n], x) /\ NotOn(TxnPath, x) /\ file.path[n] # << >>
      /\ \A c \in 2 .. Len(given) : given[c] = EndTag(x) \/ (c = 2 /\ valued)
      /\ Len(given) > 2 => valued
      /\ valued => given[2].value \in Texts /\ Says(file, n, x, <<given[2].value>>)
      /\ ~valued /\ Len(given) = 2 => Says(file, n, x, << >>)
      /\ Len(given) = 1 \/ (Len(given) = 2 /\ valued) => file.path[n] = TxnPath
      /\ PlainLine(n) <=> (Len(given) = 2 /\ ~valued) \/ Len(given) = 3
      /\ Len(given) = 1 <=> Len(l) = 1
      /\ SamePlace(file, n)

LEMMA LineKinds ==
  ASSUME file \in Files, NEW n \in 1 .. Len(Lines)
  PROVE  \/ /\ Opens(file, n) \/ Closes(file, n) \/ IsValue(file, n)
            /\ Lines[n] = file.lines[n] /\ Len(Lines[n]) = 1
         \/ IsLeaf(file, n) /\ LeafLine(n)
  <1> DEFINE l == file.lines[n]
             given == Lines[n]
             x == l[1].name
  <1>1. /\ n \in 1 .. Len(file.lines) /\ n \in DOMAIN file.lines
        /\ given = IF isSGML THEN processLine(l) ELSE l
        /\ l \in Seq(Tokens) /\ Len(l) \in Nat
        /\ \A c \in 1 .. Len(l) : l[c] \in Tokens
    <2>1. /\ Len(Lines) \in Nat /\ Len(Lines) <= Len(file.lines) /\ Len(file.lines) \in Nat
          /\ DOMAIN file.lines = 1 .. Len(file.lines)
          /\ given = IF isSGML THEN processLine(l) ELSE l
      BY LinesShape, Places
    <2>2. n \in 1 .. Len(file.lines)
      BY <2>1
    <2>3. l \in Seq(Tokens)
      BY <2>2, FileTypes, ElementOfSeq
    <2> QED
      BY <2>1, <2>2, <2>3, LenProperties, ElementOfSeq
  <1>2. Opens(file, n) \/ Closes(file, n) \/ IsLeaf(file, n) \/ IsValue(file, n)
    BY <1>1, RenderedAssumption DEF Rendered
  <1>3. CASE Opens(file, n) \/ Closes(file, n) \/ IsValue(file, n)
    <2>1. Len(l) = 1
      BY <1>3 DEF Opens, Closes, IsValue
    <2>2. given = l
      BY <1>1, <2>1 DEF processLine
    <2> QED
      BY <1>3, <2>1, <2>2
  <1>4. CASE IsLeaf(file, n)
    <2> SUFFICES LeafLine(n)
      BY <1>4
    <2>1. /\ l # << >> /\ l[1].k = "start" /\ file.path[n] # << >> /\ SamePlace(file, n)
          /\ NotOn(file.path[n], x) /\ NotOn(TxnPath, x)
      BY <1>4 DEF IsLeaf, NotOn
    <2>2. Len(l) >= 1 /\ l[1] \in Tokens
      BY <1>1, <2>1, EmptySeq
    <2>3. x \in Names
      BY <2>1, <2>2 DEF Tokens
    <2>4. EndTag(x).k = "end" /\ EndTag(x).k # "text" /\ EndTag(x) \in Tokens
      BY <2>3 DEF EndTag, Tokens
    <2> HIDE DEF l, given, x
    <2>texts. \A c \in 1 .. Len(l) : l[c].k = "text" => l[c].value \in Texts
      BY <1>1 DEF Tokens
    <2>same. \A c \in 1 .. Len(l) : l[c] = EndTag(x) => l[c].k = "end"
      BY <2>4
    <2>longer. LET more == Append(l, EndTag(x))
               IN  /\ Len(more) = Len(l) + 1 /\ more[Len(l) + 1] = EndTag(x)
                   /\ \A k \in 1 .. Len(l) : more[k] = l[k]
      BY <1>1, <2>4, Appended
    <2>5. CASE Len(l) = 1 /\ file.path[n] = TxnPath
      <3>1. given = l
        BY <1>1, <2>5 DEF processLine
      <3> QED
        BY SMTT(40), <2>1, <2>3, <2>5, <3>1 DEF LeafLine, PlainLine, l, given, x
    <2>6. CASE Len(l) = 2 /\ l[2].k = "end" /\ l[2] = EndTag(x) /\ Says(file, n, x, << >>)
      <3>1. given = l
        BY <1>1, <2>6 DEF processLine
      <3>2. PlainLine(n)
        BY <2>6 DEF PlainLine, l
      <3>3. /\ Len(given) = 2 /\ given[1] = l[1] /\ given[2] = EndTag(x)
            /\ given[2].k # "text" /\ \A c \in 2 .. 2 : c = 2
        BY <2>4, <2>6, <3>1
      <3> QED
        BY <2>1, <2>3, <2>6, <3>2, <3>3 DEF LeafLine, l, given, x
    <2>7. CASE /\ Len(l) = 2 /\ l[2].k = "text" /\ Says(file, n, x, <<l[2].value>>)
               /\ ~isSGML /\ file.path[n] = TxnPath
      <3>1. given = l
        BY <1>1, <2>7
      <3>2. ~PlainLine(n)
        BY <2>7 DEF PlainLine, l
      <3>3. Len(given) = 2 /\ given[1] = l[1] /\ given[2] = l[2] /\ \A c \in 2 .. 2 : c = 2
        BY <2>7, <3>1
      <3> QED
        BY <2>1, <2>3, <2>7, <2>texts, <3>2, <3>3 DEF LeafLine, l, given, x
    <2>8. CASE Len(l) = 2 /\ l[2].k = "text" /\ Says(file, n, x, <<l[2].value>>) /\ isSGML
      <3>1. given = Append(l, EndTag(x))
        BY SMTT(40), <1>1, <2>1, <2>8 DEF processLine, l, x
      <3>2. Len(given) = 3 /\ given[1] = l[1] /\ given[2] = l[2] /\ given[3] = EndTag(x)
        BY <2>8, <2>longer, <3>1
      <3> QED
        BY <2>1, <2>3, <2>8, <2>texts, <3>2 DEF LeafLine, PlainLine, l, given, x
    <2>9. CASE /\ Len(l) = 3 /\ l[2].k = "text" /\ l[3] = EndTag(x)
               /\ Says(file, n, x, <<l[2].value>>) /\ ~isSGML
      <3>1. given = l
        BY <1>1, <2>9
      <3> QED
        BY <2>1, <2>3, <2>9, <2>texts, <3>1 DEF LeafLine, PlainLine, l, given, x
    <2>10. CASE /\ Len(l) = 3 /\ l[2].k = "text" /\ l[3] = EndTag(x)
                /\ Says(file, n, x, <<l[2].value>>) /\ isSGML
      <3>1. given = Append(l, EndTag(x))
        BY <1>1, <2>1, <2>10 DEF processLine, l, x
      <3>2. /\ Len(given) = 4 /\ given[1] = l[1] /\ given[2] = l[2]
            /\ given[3] = EndTag(x) /\ given[4] = EndTag(x)
        BY <2>10, <2>longer, <3>1
      <3> QED
        BY <2>1, <2>3, <2>10, <2>texts, <3>2 DEF LeafLine, PlainLine, l, given, x
    <2> QED
      BY <1>4, <2>5, <2>6, <2>7, <2>8, <2>9, <2>10 DEF IsLeaf, isSGML, l, x
  <1> QED
    BY <1>2, <1>3, <1>4

LEMMA LineLength ==
  ASSUME file \in Files, NEW n \in 1 .. Len(Lines)
  PROVE  \E m \in 1 .. 4 : m = Len(Lines[n])
  <1>1. CASE Len(Lines[n]) = 1
    BY <1>1
  <1>2. CASE LeafLine(n)
    <2>1. Len(Lines[n]) \in 1 .. 4
      BY <1>2 DEF LeafLine
    <2> QED
      BY <2>1
  <1> QED
    BY <1>1, <1>2, LineKinds
-----------------------------------------------------------------------------
(***************************************************************************)
(* What is decoded.                                                        *)
(***************************************************************************)

Decoded == Seq([Fields -> Seq(Texts)])

\* A transaction begins with nothing.
LEMMA Begun ==
  ASSUME NEW r \in Decoded, NEW new, new = Append(r, [x \in Fields |-> << >>])
  PROVE  /\ new \in Decoded /\ Len(r) \in Nat /\ Len(new) = Len(r) + 1
         /\ DOMAIN r = 1 .. Len(r) /\ DOMAIN new = 1 .. (Len(r) + 1)
         /\ \A i \in 1 .. Len(r) : new[i] = r[i]
         /\ \A x \in Fields : new[Len(r) + 1][x] = << >>
  <1> DEFINE blank == [x \in Fields |-> << >>]
  <1>1. << >> \in Seq(Texts)
    BY EmptySeq
  <1>2. blank \in [Fields -> Seq(Texts)] /\ \A x \in Fields : blank[x] = << >>
    BY <1>1
  <1> HIDE DEF blank
  <1>3. r \in Seq([Fields -> Seq(Texts)]) /\ new = Append(r, blank)
    BY DEF Decoded, blank
  <1>4. /\ new \in Seq([Fields -> Seq(Texts)]) /\ Len(r) \in Nat /\ Len(new) = Len(r) + 1
        /\ \A i \in 1 .. Len(r) : new[i] = r[i]
        /\ new[Len(r) + 1] = blank
    <2>1. PICK S : S = [Fields -> Seq(Texts)]
      OBVIOUS
    <2>2. r \in Seq(S) /\ blank \in S
      BY <1>2, <1>3, <2>1
    <2> QED
      BY ONLY <1>3, <2>1, <2>2, Appended
  <1> QED
    BY <1>2, <1>3, <1>4, LenProperties DEF Decoded

\* A field of the last transaction is given a value, and nothing else changes.
Give(r, x, v) == [r EXCEPT ![Len(r)][x] = v]

LEMMA Given ==
  ASSUME NEW r \in Decoded, r # << >>, NEW x \in Fields, NEW v \in Seq(Texts),
         NEW new, new = Give(r, x, v)
  PROVE  /\ new \in Decoded /\ Len(r) \in Nat \ {0} /\ Len(new) = Len(r)
         /\ DOMAIN r = 1 .. Len(r) /\ DOMAIN new = 1 .. Len(r)
         /\ new[Len(r)][x] = v
         /\ \A i \in 1 .. Len(r) : \A y \in Fields :
              i # Len(r) \/ y # x => new[i][y] = r[i][y]
  <1> DEFINE n == Len(r)
             e == [r[n] EXCEPT ![x] = v]
  <1>1. r \in Seq([Fields -> Seq(Texts)]) /\ n \in Nat \ {0} /\ DOMAIN r = 1 .. n
    BY LenProperties, EmptySeq DEF Decoded
  <1>2. r[n] \in [Fields -> Seq(Texts)]
    BY <1>1, ElementOfSeq
  <1>3. /\ e \in [Fields -> Seq(Texts)] /\ e[x] = v
        /\ \A y \in Fields : y # x => e[y] = r[n][y]
    BY <1>2
  <1>4. new = [r EXCEPT ![n] = e]
    BY <1>1 DEF Give
  <1> HIDE DEF e
  <1>5. n \in 1 .. Len(r)
    BY <1>1
  <1>6. /\ new \in Seq([Fields -> Seq(Texts)]) /\ Len(new) = n
        /\ \A j \in 1 .. n : new[j] = IF j = n THEN e ELSE r[j]
    <2>1. LET s == [r EXCEPT ![n] = e]
          IN  /\ s \in Seq([Fields -> Seq(Texts)]) /\ Len(s) = Len(r)
              /\ \A j \in 1 .. Len(r) : s[j] = IF j = n THEN e ELSE r[j]
      BY <1>1, <1>3, <1>5, ExceptSeq
    <2> QED
      BY <1>4, <2>1
  <1>7. new[n] = e /\ DOMAIN new = 1 .. n
    BY <1>5, <1>6, LenProperties
  <1>8. \A i \in 1 .. n : \A y \in Fields : i # n \/ y # x => new[i][y] = r[i][y]
    BY <1>3, <1>6
  <1> QED
    BY Zenon, <1>1, <1>3, <1>6, <1>7, <1>8 DEF Decoded

\* The decoder appends a value to the text of a field.
One(v) == <<v>>
Put(r, x, v) == [r EXCEPT ![Len(r)][x] = Append(@, v)]

LEMMA PutFirst ==
  ASSUME NEW r \in Decoded, r # << >>, NEW x \in Fields, NEW v \in Texts, r[Len(r)][x] = << >>,
         NEW new, new = Put(r, x, v)
  PROVE  /\ new \in Decoded /\ Len(r) \in Nat \ {0} /\ Len(new) = Len(r)
         /\ new[Len(r)][x] = One(v)
         /\ \A i \in 1 .. Len(r) : \A y \in Fields :
              i # Len(r) \/ y # x => new[i][y] = r[i][y]
  <1>1. PICK w \in Seq(Texts) : w = <<v>> /\ w = Append(r[Len(r)][x], v)
    <2>1. <<v>> \in Seq(Texts) /\ Append(<< >>, v) = <<v>>
      OBVIOUS
    <2> QED
      BY <2>1
  <1>2. new = Give(r, x, w)
    BY <1>1 DEF Put, Give
  <1>3. w \in Seq(Texts)
    BY <1>1
  <1>4. /\ new \in Decoded /\ Len(r) \in Nat \ {0} /\ Len(new) = Len(r)
        /\ new[Len(r)][x] = w
        /\ \A i \in 1 .. Len(r) : \A y \in Fields : i # Len(r) \/ y # x => new[i][y] = r[i][y]
    BY <1>2, <1>3, Given
  <1> QED
    BY <1>1, <1>4 DEF One
-----------------------------------------------------------------------------
(***************************************************************************)
(* The invariant.                                                          *)
(***************************************************************************)

\* Before each line the bank has elements open.  The decoder has those, and
\* perhaps leaves: the one it is in, at its value or its first end tag, is not
\* below, and others may be.
Here == file.path[line]
Below == IF col \in {2, 3} THEN Len(stack) - 1 ELSE Len(stack)

\* The decoder is at a token, or at the end.
PlaceInv ==
  /\ line \in 1 .. Len(Lines) + 1 /\ col \in Nat \ {0}
  /\ line <= Len(Lines) => col <= Len(Lines[line])
  /\ line = Len(Lines) + 1 => col = 1

StackInv ==
  /\ Nested(Here, Below, stack)
  /\ line > 1 => stack # << >>
  /\ col \in {2, 3} => Innermost = file.lines[line][1].name

\* Line n is the tag of a leaf and nothing else.
Bare(n) == file.path[n] = TxnPath /\ Len(file.lines[n]) = 1 /\ file.lines[n][1].k = "start"

ValueBelow == col = 1 /\ line > 1 /\ Bare(line - 1)

\* Where a value may come, the element it is of has just opened, and has none.
FreshInv ==
  /\ col = 2 \/ ValueBelow =>
       (stack = Append(TxnPath, Innermost) /\ Innermost \in Fields =>
          raw[Len(raw)][Innermost] = << >>)
  /\ ValueBelow => Innermost = file.lines[line - 1][1].name

\* A field has the value that the bank says, or none.
RawInv ==
  /\ raw \in Decoded
  /\ Len(raw) <= Len(file.says)
  /\ \A i \in 1 .. Len(raw) : \A x \in Fields : raw[i][x] \in {<< >>, file.says[i][x]}

\* In a plain file no leaf is left open, and each leaf so far, if it is a field's
\* and the decoder is not about to read another for that field, has given it.
ReadSoFar(n) == n < line \/ (n = line /\ col = 3)
Kept(i, x) == i \in 1 .. Len(raw) /\ raw[i][x] = file.says[i][x]
KeptInv ==
  \A n \in 1 .. Len(file.lines) : \A x \in Fields :
    /\ ReadSoFar(n) /\ LeafOf(file, n, file.begun[n], x)
    /\ ~(col = 2 /\ LeafOf(file, line, file.begun[n], x))
    => Kept(file.begun[n], x)

PlainInv == Below = Len(Here) /\ KeptInv

DecodeInv ==
  /\ PlaceInv /\ StackInv /\ FreshInv
  /\ Len(raw) = file.begun[line]
  /\ PlainFile => PlainInv
-----------------------------------------------------------------------------
(***************************************************************************)
(* Steps of the decoder.                                                   *)
(***************************************************************************)

\* What the decoder is given does not change.
LEMMA SameFile ==
  ASSUME file' = file
  PROVE  /\ Lines' = Lines /\ isSGML' = isSGML
         /\ PlainFile' = PlainFile /\ WholeFile' = WholeFile
  BY DEF Lines, sgmlToXML, Scanned, isSGML, PlainFile, PlainLine, WholeFile, Splits

\* A token is an aggregate's tag or end tag or a value, alone on its line, or one
\* of a leaf's line: the tag, the value, its end, or an end tag too many.
OnlyToken == col = 1 /\ Token = file.lines[line][1] /\ Len(Lines[line]) = 1

LEMMA TokenKinds ==
  ASSUME file \in Files, PlaceInv, ~AtEnd
  PROVE  /\ line \in 1 .. Len(Lines) /\ line \in 1 .. Len(file.lines)
         /\ line + 1 \in 1 .. Len(file.lines) + 1
         /\ col \in 1 .. Len(Lines[line]) /\ Len(Lines[line]) \in Nat
         /\ \/ OnlyToken /\ (Opens(file, line) \/ Closes(file, line) \/ IsValue(file, line))
            \/ /\ LeafLine(line) /\ Len(Lines[line]) \in 1 .. 4
               /\ \/ col = 1 /\ Token = file.lines[line][1] /\ Token.k = "start"
                  \/ col = 2 /\ Token.k = "text"
                  \/ col = 2 /\ Len(Lines[line]) = 2 /\ Token = EndTag(file.lines[line][1].name)
                  \/ col \in {3, 4} /\ Token = EndTag(file.lines[line][1].name)
  <1>1. /\ line \in 1 .. Len(Lines) /\ Len(Lines) \in Nat /\ Len(Lines) <= Len(file.lines)
        /\ Len(file.lines) \in Nat /\ col \in Nat \ {0} /\ col <= Len(Lines[line])
    BY LinesShape, Places DEF PlaceInv, AtEnd
  <1>2. CASE Lines[line] = file.lines[line] /\ Len(Lines[line]) = 1
             /\ (Opens(file, line) \/ Closes(file, line) \/ IsValue(file, line))
    BY <1>1, <1>2 DEF OnlyToken, Token
  <1>3. CASE LeafLine(line)
    <2>1. /\ Len(Lines[line]) \in 1 .. 4 /\ Lines[line][1] = file.lines[line][1]
          /\ Lines[line][1].k = "start"
      BY <1>3 DEF LeafLine
    <2>2. col = 1 \/ col = 2 \/ col = 3 \/ col = 4
      <3>1. PICK m \in 1 .. 4 : m = Len(Lines[line])
        BY <1>1, LineLength
      <3>2. col <= m
        BY <1>1, <3>1
      <3> QED
        BY <1>1, <3>2
    <2>3. CASE col = 1
      BY <1>1, <1>3, <2>1, <2>3 DEF Token
    <2>4. CASE col = 2
      <3>1. CASE Token.k = "text"
        BY <1>1, <1>3, <2>1, <2>4, <3>1
      <3>2. CASE Token.k # "text"
        <4>1. PICK m \in 1 .. 4 : m = Len(Lines[line])
          BY <1>1, LineLength
        <4>2. m >= 2 /\ 2 \in 2 .. m
          BY <1>1, <2>4, <4>1
        <4>3. Lines[line][2] = Token
          BY <2>4 DEF Token
        <4>4. Token = EndTag(file.lines[line][1].name)
          BY <1>3, <3>2, <4>1, <4>2, <4>3 DEF LeafLine
        <4>5. Len(Lines[line]) > 2 => FALSE
          BY <1>3, <3>2, <4>3 DEF LeafLine
        <4>6. m > 2 => FALSE
          BY <4>1, <4>5
        <4>7. m = 2
          BY <4>2, <4>6
        <4> QED
          BY <1>1, <1>3, <2>1, <2>4, <4>1, <4>4, <4>7
      <3> QED
        BY <3>1, <3>2
    <2>5. CASE col \in {3, 4}
      <3>1. PICK m \in 1 .. 4 : m = Len(Lines[line])
        BY <1>1, LineLength
      <3>2. col \in 2 .. m /\ col # 2
        <4>1. col <= m
          BY <1>1, <3>1
        <4> QED
          BY <2>5, <4>1
      <3>3. Token = EndTag(file.lines[line][1].name)
        BY <1>3, <3>1, <3>2 DEF LeafLine, Token
      <3> QED
        BY <1>1, <1>3, <2>1, <2>5, <3>3
    <2> QED
      BY <2>2, <2>3, <2>4, <2>5
  <1> QED
    BY <1>1, <1>2, <1>3, LineKinds

\* After the last token of a line comes the first of the next.
LEMMA Advances ==
  ASSUME file \in Files, PlaceInv, ~AtEnd, Advance, file' = file
  PROVE  /\ PlaceInv'
         /\ \/ col < Len(Lines[line]) /\ line' = line /\ col' = col + 1
            \/ col = Len(Lines[line]) /\ line' = line + 1 /\ col' = 1
  <1>1. /\ line \in 1 .. Len(Lines) /\ Len(Lines) \in Nat /\ col \in 1 .. Len(Lines[line])
        /\ Len(Lines[line]) \in Nat
    BY LinesShape, TokenKinds
  <1>2. Lines' = Lines
    BY SameFile
  <1>3. CASE col < Len(Lines[line])
    <2>1. line' = line /\ col' = col + 1
      BY <1>3 DEF Advance
    <2> QED
      BY <1>1, <1>2, <1>3, <2>1 DEF PlaceInv
  <1>4. CASE col = Len(Lines[line])
    <2>1. line' = line + 1 /\ col' = 1
      BY <1>1, <1>4 DEF Advance
    <2>2. line' <= Len(Lines) => 1 <= Len(Lines[line'])
      <3>1. SUFFICES ASSUME line' \in 1 .. Len(Lines)
                     PROVE  1 <= Len(Lines[line'])
        BY <1>1, <2>1
      <3>2. PICK n \in 1 .. Len(Lines) : n = line'
        BY <3>1
      <3>3. PICK m \in 1 .. 4 : m = Len(Lines[n])
        BY LineLength
      <3>4. m = Len(Lines[line'])
        BY <3>2, <3>3
      <3> QED
        BY <3>4
    <2> QED
      BY <1>1, <1>2, <1>4, <2>1, <2>2 DEF PlaceInv
  <1> QED
    BY <1>1, <1>3, <1>4

\* What was kept is, if the next line is reached with no more lost, and this
\* line's field, if it is a leaf, was kept too.
LEMMA KeptNext ==
  ASSUME file \in Files, KeptInv, file' = file, line \in 1 .. Len(file.lines),
         line' = line + 1, col' = 1,
         Len(raw) \in Nat, Len(raw') \in Nat, Len(raw) <= Len(raw'),
         \A i \in 1 .. Len(raw) : \A x \in Fields : raw'[i][x] = raw[i][x],
         \A i \in Nat : \A x \in Fields : LeafOf(file, line, i, x) => Kept(i, x)'
  PROVE  KeptInv'
  <1> SUFFICES ASSUME NEW n \in 1 .. Len(file.lines), NEW x \in Fields, n < line + 1,
                      NEW i \in Nat, i = file.begun[n], LeafOf(file, n, i, x)
               PROVE  Kept(i, x)'
    BY Places DEF KeptInv, ReadSoFar
  <1>1. Len(file.lines) \in Nat
    BY Places
  <1>2. CASE n = line
    BY <1>2
  <1>3. CASE n # line /\ ~(col = 2 /\ LeafOf(file, line, i, x))
    <2>1. n < line
      BY <1>1, <1>3
    <2>2. Kept(i, x)
      BY <1>3, <2>1 DEF KeptInv, ReadSoFar
    <2> QED
      BY <2>2 DEF Kept
  <1>4. CASE col = 2 /\ LeafOf(file, line, i, x)
    BY <1>4
  <1> QED
    BY <1>2, <1>3, <1>4

Ready == file \in Files /\ RawInv /\ DecodeInv

\* What every step of the decoder needs: where it is, and in what.
LEMMA ReadyFacts ==
  ASSUME Ready
  PROVE  /\ Here \in Seq(Names) /\ Len(Here) \in Nat /\ stack \in Seq(Names) /\ Len(stack) \in Nat
         /\ raw \in Decoded /\ Len(raw) \in Nat /\ DOMAIN raw = 1 .. Len(raw)
         /\ Len(file.says) \in Nat
         /\ Here = TxnPath => raw # << >>
         /\ Len(raw) = file.begun[line] /\ line \in 1 .. Len(file.lines) + 1
  <1>1. line \in 1 .. Len(Lines) + 1 /\ Len(Lines) \in Nat /\ Len(Lines) <= Len(file.lines)
    BY LinesShape DEF Ready, DecodeInv, PlaceInv
  <1>2. line \in 1 .. Len(file.lines) + 1 /\ Len(file.says) \in Nat
    BY <1>1, Places DEF Ready
  <1>3. Here \in Seq(Names) /\ (Here = TxnPath => file.begun[line] > 0)
    BY <1>2, Places DEF Ready, Here
  <1>4. raw \in Decoded /\ Len(raw) = file.begun[line]
    BY DEF Ready, RawInv, DecodeInv
  <1>5. Len(raw) \in Nat /\ DOMAIN raw = 1 .. Len(raw) /\ (raw = << >> => Len(raw) = 0)
    BY <1>4, LenProperties, EmptySeq DEF Decoded
  <1>6. stack \in Seq(Names)
    BY DEF Ready, DecodeInv, StackInv, Nested
  <1> QED
    BY <1>2, <1>3, <1>4, <1>5, <1>6, LenProperties

\* An aggregate opens, and perhaps a transaction begins.
LEMMA StepOpens ==
  ASSUME Ready, OnlyToken, Opens(file, line), StartElement, ~AtEnd
  PROVE  Ready'
  <1> DEFINE a == file.lines[line][1].name
  <1>1. file' = file /\ Lines' = Lines /\ PlaceInv' /\ line' = line + 1 /\ col' = 1 /\ col = 1
        /\ line \in 1 .. Len(file.lines)
    BY Advances, SameFile, TokenKinds DEF StartElement, OnlyToken, Ready, DecodeInv
  <1>2. /\ Here # TxnPath /\ file.path[line + 1] = Append(Here, a) /\ a \in Names
        /\ file.begun[line + 1] = IF Append(Here, a) = TxnPath THEN file.begun[line] + 1
                                  ELSE file.begun[line]
        /\ file.lines[line][1].k = "start" /\ Len(file.lines[line]) = 1
    BY <1>1, OneToken DEF Opens, Here, Ready
  <1>3. Nested(Here, Len(stack), stack)
    BY <1>1 DEF Ready, DecodeInv, StackInv, Below
  <1>4. stack = Here /\ Nested(Append(Here, a), Len(Append(stack, a)), Append(stack, a))
    BY <1>2, <1>3, NestedOpens
  <1>5. stack' = Append(stack, a) /\ stack' # << >> /\ Len(stack') = Len(stack) + 1
    <2>1. stack' = Append(stack, a)
      BY DEF StartElement, OnlyToken
    <2>2. stack \in Seq(Names) /\ a \in Names
      BY <1>2, ReadyFacts
    <2> QED
      BY <2>1, <2>2, Appended
  <1>6. StackInv' /\ Here' = Append(Here, a) /\ Below' = Len(Here')
    <2>1. Here' = Append(Here, a)
      BY <1>1, <1>2 DEF Here
    <2>2. Below' = Len(stack')
      BY <1>1 DEF Below
    <2> QED
      BY <1>1, <1>4, <1>5, <2>1, <2>2 DEF StackInv
  <1>7. RawInv' /\ Len(raw') = file.begun[line + 1] /\ Len(raw) <= Len(raw') /\ Len(raw') \in Nat
        /\ \A i \in 1 .. Len(raw) : \A x \in Fields : raw'[i][x] = raw[i][x]
    <2>1. file.begun[line + 1] <= Len(file.says) /\ Len(raw) = file.begun[line]
      BY <1>1, Places, ReadyFacts DEF Ready
    <2>2. CASE Append(Here, a) = TxnPath
      <3>1. raw' = Append(raw, [x \in Fields |-> << >>])
        BY <1>4, <1>5, <2>2 DEF StartElement
      <3>2. /\ raw' \in Decoded /\ Len(raw) \in Nat /\ Len(raw') = Len(raw) + 1
            /\ \A i \in 1 .. Len(raw) : raw'[i] = raw[i]
            /\ \A x \in Fields : raw'[Len(raw) + 1][x] = << >>
        BY <3>1, Begun, ReadyFacts
      <3>3. \A i \in 1 .. Len(raw') : i \in 1 .. Len(raw) \/ i = Len(raw) + 1
        BY <3>2
      <3>4. RawInv'
        BY <1>1, <1>2, <2>1, <2>2, <3>2, <3>3 DEF RawInv, Ready
      <3> QED
        BY <1>2, <2>1, <2>2, <3>2, <3>4
    <2>3. CASE Append(Here, a) # TxnPath
      <3>1. raw' = raw
        BY <1>2, <1>4, <1>5, <2>3 DEF StartElement
      <3>2. RawInv'
        BY <1>1, <3>1 DEF RawInv, Ready
      <3> QED
        BY SMTT(40), <1>2, <2>1, <2>3, <3>1, <3>2, ReadyFacts
    <2> QED
      BY <2>2, <2>3
  <1>8. FreshInv'
    <2>1. ~Bare(line)
      BY <1>2 DEF Bare, Here
    <2>2. ~ValueBelow' /\ col' # 2
      BY <1>1, <2>1, ReadyFacts DEF ValueBelow, Bare
    <2> QED
      BY <2>2 DEF FreshInv
  <1>9. PlainFile => PlainInv'
    <2> SUFFICES ASSUME PlainFile PROVE KeptInv'
      BY <1>6 DEF PlainInv
    <2>1. KeptInv
      BY DEF Ready, DecodeInv, PlainInv
    <2>2. \A i \in Nat : \A x \in Fields : ~LeafOf(file, line, i, x)
      BY <1>2 DEF LeafOf, Here
    <2> QED
      BY <1>1, <1>7, <2>1, <2>2, KeptNext, ReadyFacts DEF Ready
  <1> QED
    BY <1>1, <1>6, <1>7, <1>8, <1>9, SameFile DEF Ready, DecodeInv

\* When the bank has closed everything, a plain file has been read to its end and
\* nothing it says is missing.
LEMMA AllRead ==
  ASSUME Ready, PlainFile, KeptInv, col = 1, line \in 1 .. Len(file.lines),
         file.path[line + 1] = << >>, file.begun[line + 1] = file.begun[line],
         \A i \in Nat : \A x \in Fields : ~LeafOf(file, line, i, x)
  PROVE  raw = file.says
  <1>1. /\ Len(file.lines) \in Nat \ {0} /\ DOMAIN file.lines = 1 .. Len(file.lines)
        /\ Len(file.says) \in Nat /\ DOMAIN file.says = 1 .. Len(file.says)
        /\ \A n \in 2 .. Len(file.lines) : file.path[n] # << >>
        /\ \A n \in 1 .. Len(file.lines) + 1 : file.begun[n] \in Nat
    BY Places DEF Ready
  <1>2. line = Len(file.lines)
    <2>1. line + 1 \in 2 .. Len(file.lines) => FALSE
      BY <1>1
    <2> QED
      BY <1>1, <2>1
  <1>3. Complete(file) /\ Rendered(file)
    BY <1>2, RenderedAssumption DEF Complete, Ready
  <1>4. /\ file.begun[line + 1] = Len(file.says)
        /\ \A i \in 1 .. Len(file.says) : \A x \in Fields :
             file.says[i][x] = << >> \/ \E n \in 1 .. Len(file.lines) : LeafOf(file, n, i, x)
    BY <1>1, <1>2, <1>3 DEF Rendered
  <1>5. Len(raw) = Len(file.says)
    BY <1>4, ReadyFacts
  <1>6. \A i \in 1 .. Len(raw) :
          raw[i] \in [Fields -> Seq(Texts)] /\ file.says[i] \in [Fields -> Seq(Texts)]
    BY <1>5, ReadyFacts, FileTypes, ElementOfSeq DEF Ready, Decoded
  <1>7. ASSUME NEW i \in 1 .. Len(raw), NEW x \in Fields
        PROVE  raw[i][x] = file.says[i][x]
    <2>1. raw[i][x] \in {<< >>, file.says[i][x]} /\ i \in 1 .. Len(file.says) /\ i \in Nat
      BY <1>5, ReadyFacts DEF Ready, RawInv
    <2>2. CASE file.says[i][x] = << >>
      BY <2>1, <2>2
    <2>3. CASE \E n \in 1 .. Len(file.lines) : LeafOf(file, n, i, x)
      <3>1. PICK n \in 1 .. Len(file.lines) : LeafOf(file, n, i, x)
        BY <2>3
      <3>2. n # line /\ file.begun[n] = i
        BY <2>1, <3>1 DEF LeafOf
      <3>3. n < line
        BY <1>1, <1>2, <3>2
      <3>4. Kept(i, x)
        BY <3>1, <3>2, <3>3 DEF KeptInv, ReadSoFar
      <3> QED
        BY <3>4 DEF Kept
    <2> QED
      BY <1>4, <2>1, <2>2, <2>3
  <1>8. \A i \in 1 .. Len(raw) : raw[i] = file.says[i]
    BY <1>6, <1>7
  <1> QED
    BY <1>5, <1>8, SeqEqual, FileTypes, ReadyFacts DEF Ready, Decoded

\* An aggregate closes, with what was left open in it.
LEMMA StepCloses ==
  ASSUME Ready, OnlyToken, Closes(file, line), EndElement, ~AtEnd
  PROVE  /\ Innermost # Token.name => ~PlainFile
         /\ stack' = OpenAfter(stack, Token.name) /\ stack' = << >> /\ PlainFile => raw = file.says
         /\ stack' = OpenAfter(stack, Token.name) /\ stack' # << >> => Ready'
  <1> DEFINE a == file.lines[line][1].name
  <1>1. file' = file /\ Lines' = Lines /\ PlaceInv' /\ line' = line + 1 /\ col' = 1 /\ col = 1
        /\ line \in 1 .. Len(file.lines) /\ line + 1 \in 1 .. Len(file.lines) + 1 /\ raw' = raw
    BY Advances, SameFile, TokenKinds DEF EndElement, OnlyToken, Ready, DecodeInv
  <1>2. /\ Here = Append(file.path[line + 1], a) /\ a \in Names /\ Token.name = a
        /\ file.begun[line + 1] = file.begun[line] /\ file.path[line + 1] \in Seq(Names)
        /\ file.lines[line][1].k = "end" /\ Len(file.lines[line]) = 1
    BY <1>1, OneToken, Places DEF Closes, Here, Ready, OnlyToken
  <1>3. Nested(Here, Len(stack), stack)
    BY <1>1 DEF Ready, DecodeInv, StackInv, Below
  <1>4. OpenAfter(stack, a) = file.path[line + 1]
    BY <1>2, <1>3, NestedCloses
  <1>5. PlainFile => KeptInv /\ Len(stack) = Len(Here)
    BY <1>1 DEF Ready, DecodeInv, PlainInv, Below
  <1>6. \A i \in Nat : \A x \in Fields : ~LeafOf(file, line, i, x)
    BY <1>2 DEF LeafOf, Tag
  <1>7. PlainFile => Innermost = Token.name
    <2> SUFFICES ASSUME PlainFile PROVE Innermost = a
      BY <1>2
    <2>1. stack = Here
      BY <1>3, <1>5, OpenExactly
    <2> QED
      BY <1>2, <2>1, Appended DEF Innermost
  <1>8. ASSUME stack' = OpenAfter(stack, a), stack' = << >>, PlainFile PROVE raw = file.says
    BY <1>1, <1>2, <1>4, <1>5, <1>6, <1>8, AllRead
  <1>9. ASSUME stack' = OpenAfter(stack, a), stack' # << >> PROVE Ready'
    <2>1. Here' = stack' /\ Below' = Len(Here')
      BY <1>1, <1>4, <1>9 DEF Here, Below
    <2>2. Nested(stack', Len(stack'), stack')
      BY <1>2, <1>4, <1>9, NestedPath
    <2>3. StackInv'
      BY <1>1, <1>9, <2>1, <2>2 DEF StackInv
    <2>4. FreshInv'
      <3>1. ~Bare(line)
        BY <1>2 DEF Bare
      <3>2. ~ValueBelow' /\ col' # 2
        BY <1>1, <3>1, ReadyFacts DEF ValueBelow, Bare
      <3> QED
        BY <3>2 DEF FreshInv
    <2>5. RawInv' /\ Len(raw') = file.begun[line']
      BY <1>1, <1>2, ReadyFacts DEF RawInv, Ready
    <2>6. PlainFile => PlainInv'
      <3> SUFFICES ASSUME PlainFile PROVE KeptInv'
        BY <2>1 DEF PlainInv
      <3> QED
        BY <1>1, <1>5, <1>6, KeptNext, ReadyFacts DEF Ready
    <2> QED
      BY <1>1, <2>3, <2>4, <2>5, <2>6, SameFile DEF Ready, DecodeInv
  <1> QED
    BY <1>2, <1>7, <1>8, <1>9

\* Text is the value of the field that has just opened, if it is one.
LEMMA TextGiven ==
  ASSUME Ready, NEW v \in Texts, file' = file,
         stack = Append(TxnPath, Innermost) /\ Innermost \in Fields =>
           /\ Here = TxnPath /\ raw[Len(raw)][Innermost] = << >>
           /\ file.says[file.begun[line]][Innermost] = One(v),
         raw' = IF stack # << >> /\ Innermost \in Fields /\ stack = Append(TxnPath, Innermost)
                THEN [raw EXCEPT ![Len(raw)][Innermost] = Append(@, v)]
                ELSE raw
  PROVE  /\ RawInv' /\ Len(raw') = Len(raw)
         /\ stack = Append(TxnPath, Innermost) /\ Innermost \in Fields =>
              raw'[Len(raw)][Innermost] = One(v)
         /\ \A i \in 1 .. Len(raw) : \A x \in Fields :
              \/ i = Len(raw) /\ x = Innermost /\ raw'[i][x] = file.says[i][x]
              \/ raw'[i][x] = raw[i][x]
  <1>1. CASE stack = Append(TxnPath, Innermost) /\ Innermost \in Fields
    <2>1. PICK x \in Fields : x = Innermost
      BY <1>1
    <2>2. stack # << >>
      BY <1>1, <2>1, NamesAssumption, Appended
    <2>3. raw' = Put(raw, x, v) /\ raw[Len(raw)][x] = << >> /\ raw # << >>
      BY <1>1, <2>1, <2>2, ReadyFacts DEF Put
    <2>4. raw \in Decoded /\ x \in Fields /\ v \in Texts
      BY <2>1, ReadyFacts
    <2>5. /\ raw' \in Decoded /\ Len(raw) \in Nat \ {0} /\ Len(raw') = Len(raw)
          /\ raw'[Len(raw)][x] = One(v)
          /\ \A i \in 1 .. Len(raw) : \A y \in Fields :
               i # Len(raw) \/ y # x => raw'[i][y] = raw[i][y]
      BY ONLY <2>3, <2>4, PutFirst
    <2>6. file.says[Len(raw)][x] = One(v) /\ file.says' = file.says
      BY <1>1, <2>1, ReadyFacts
    <2>7. RawInv'
      BY <2>1, <2>5, <2>6 DEF RawInv, Ready
    <2> QED
      BY <2>1, <2>5, <2>6, <2>7
  <1>2. CASE ~(stack = Append(TxnPath, Innermost) /\ Innermost \in Fields)
    <2>1. raw' = raw
      BY <1>2
    <2>2. RawInv'
      BY <2>1 DEF RawInv, Ready
    <2> QED
      BY <1>2, <2>1, <2>2
  <1> QED
    BY <1>1, <1>2

\* A value below its leaf's tag.
LEMMA StepValue ==
  ASSUME Ready, OnlyToken, IsValue(file, line), CharData, ~AtEnd
  PROVE  Ready'
  <1> DEFINE v == file.lines[line][1].value
  <1>1. file' = file /\ Lines' = Lines /\ PlaceInv' /\ line' = line + 1 /\ col' = 1 /\ col = 1
        /\ line \in 1 .. Len(file.lines) /\ line + 1 \in 1 .. Len(file.lines) + 1 /\ stack' = stack
    BY Advances, SameFile, TokenKinds DEF CharData, OnlyToken, Ready, DecodeInv
  <1>2. /\ Here = TxnPath /\ file.path[line + 1] = TxnPath /\ v \in Texts /\ Token.value = v
        /\ file.begun[line + 1] = file.begun[line]
        /\ file.lines[line][1].k = "text" /\ Len(file.lines[line]) = 1
        /\ line > 1 /\ Bare(line - 1) /\ Says(file, line, file.lines[line - 1][1].name, One(v))
    <2>1. v \in Texts
      BY <1>1, OneToken DEF IsValue, Ready
    <2>2. Token.value = v
      BY DEF OnlyToken
    <2>3. line > 1 /\ Bare(line - 1) /\ Says(file, line, file.lines[line - 1][1].name, One(v))
      BY <1>1 DEF IsValue, Bare, One
    <2> QED
      BY <2>1, <2>2, <2>3 DEF IsValue, SamePlace, Here
  <1>3. ValueBelow
    BY <1>1, <1>2 DEF ValueBelow
  <1>4. stack = Append(TxnPath, Innermost) /\ Innermost \in Fields =>
          /\ Here = TxnPath /\ raw[Len(raw)][Innermost] = << >>
          /\ file.says[file.begun[line]][Innermost] = One(v)
    <2>1. FreshInv
      BY DEF Ready, DecodeInv
    <2>2. /\ Innermost = file.lines[line - 1][1].name
          /\ stack = Append(TxnPath, Innermost) /\ Innermost \in Fields =>
               raw[Len(raw)][Innermost] = << >>
      BY <1>3, <2>1 DEF FreshInv
    <2>3. Innermost \in Fields => file.says[file.begun[line]][Innermost] = One(v)
      BY <1>2, <2>2 DEF Says, Here
    <2> QED
      BY <1>2, <2>2, <2>3
  <1>5. RawInv' /\ Len(raw') = Len(raw)
    BY <1>1, <1>2, <1>4, TextGiven DEF CharData
  <1>6. StackInv'
    <2>1. Nested(Here, Len(stack), stack) /\ stack # << >>
      BY <1>1, <1>2 DEF Ready, DecodeInv, StackInv, Below
    <2>2. Here' = Here /\ Below' = Len(stack)
      BY <1>1, <1>2 DEF Here, Below
    <2> QED
      BY <1>1, <2>1, <2>2 DEF StackInv
  <1>7. FreshInv'
    <2>1. ~Bare(line)
      BY <1>2 DEF Bare
    <2>2. ~ValueBelow' /\ col' # 2
      BY <1>1, <2>1, ReadyFacts DEF ValueBelow, Bare
    <2> QED
      BY <2>2 DEF FreshInv
  <1>8. ~PlainFile
    <2>1. ~PlainLine(line)
      BY <1>2 DEF PlainLine
    <2> QED
      BY <1>1, <2>1, Places DEF PlainFile, Ready
  <1> QED
    BY <1>1, <1>2, <1>5, <1>6, <1>7, <1>8, ReadyFacts, SameFile DEF Ready, DecodeInv
-----------------------------------------------------------------------------
(***************************************************************************)
(* The leaves.                                                             *)
(***************************************************************************)

\* A leaf is right inside what the bank means to be open, or a leaf above it was
\* not closed.
LEMMA LeafInPlace ==
  ASSUME NEW path, NEW open, Nested(path, Len(open) - 1, open), NEW x, x = open[Len(open)]
  PROVE  /\ x \in Names /\ Len(open) \in Nat \ {0}
         /\ open = Append(TxnPath, x) => path = TxnPath
         /\ path = TxnPath /\ Len(path) = Len(open) - 1 => open = Append(TxnPath, x)
  <1>1. /\ open \in Seq(Names) /\ path \in Seq(Names) /\ TxnPath \in Seq(Names)
        /\ Len(open) \in Nat /\ Len(path) \in Nat /\ Len(path) <= Len(open) - 1
        /\ \A k \in 1 .. Len(path) : open[k] = path[k]
        /\ path # TxnPath => Len(open) - 1 = Len(path)
    BY NamesAssumption, LenProperties DEF Nested
  <1>2. Len(open) \in 1 .. Len(open) /\ x \in Names
    BY <1>1, ElementOfSeq
  <1> HIDE DEF TxnPath
  <1>3. PICK s \in Seq(Names) : s = Append(TxnPath, x)
    BY <1>1, <1>2, Appended
  <1>4. /\ Len(s) = Len(TxnPath) + 1 /\ Len(TxnPath) \in Nat
        /\ \A k \in 1 .. Len(TxnPath) : s[k] = TxnPath[k]
        /\ s[Len(TxnPath) + 1] = x
    BY <1>1, <1>2, <1>3, Appended
  <1>5. ASSUME open = s, path # TxnPath PROVE FALSE
    <2>1. Len(path) = Len(TxnPath) /\ \A k \in 1 .. Len(path) : path[k] = TxnPath[k]
      BY <1>1, <1>4, <1>5
    <2> QED
      BY <1>1, <1>5, <2>1, SeqEqual
  <1>6. ASSUME path = TxnPath, Len(path) = Len(open) - 1 PROVE open = s
    <2>1. Len(open) = Len(s)
      BY <1>1, <1>4, <1>6
    <2>2. ASSUME NEW k \in 1 .. Len(open) PROVE open[k] = s[k]
      <3>1. k \in 1 .. Len(TxnPath) \/ k = Len(TxnPath) + 1
        BY <1>1, <1>4, <1>6
      <3> QED
        BY <1>1, <1>2, <1>4, <1>6, <3>1
    <2> QED
      BY <1>1, <2>1, <2>2, SeqEqual
  <1> QED
    BY <1>1, <1>2, <1>3, <1>5, <1>6

\* Where a leaf's line is, and what it is the leaf of.
LEMMA LeafFacts ==
  ASSUME Ready, ~AtEnd, LeafLine(line), NEW x, x = file.lines[line][1].name
  PROVE  /\ line \in 1 .. Len(file.lines) /\ line + 1 \in 1 .. Len(file.lines) + 1
         /\ x \in Names /\ NotOn(Here, x) /\ NotOn(TxnPath, x) /\ Here # << >>
         /\ file.path[line + 1] = Here /\ file.begun[line + 1] = file.begun[line]
         /\ \A i \in Nat : \A y \in Fields :
              LeafOf(file, line, i, y) <=> Here = TxnPath /\ i = Len(raw) /\ y = x
  <1>1. line \in 1 .. Len(file.lines) /\ line + 1 \in 1 .. Len(file.lines) + 1
    BY TokenKinds DEF Ready, DecodeInv
  <1>2. /\ x \in Names /\ NotOn(Here, x) /\ NotOn(TxnPath, x) /\ Here # << >>
        /\ file.path[line + 1] = Here /\ file.begun[line + 1] = file.begun[line]
        /\ file.lines[line][1].k = "start"
    BY DEF LeafLine, Here, SamePlace
  <1>3. file.lines[line][1] = Tag(x)
    <2>1. file.lines[line] \in Seq(Tokens) /\ Len(file.lines[line]) \in Nat
      BY <1>1, FileTypes, ElementOfSeq, LenProperties DEF Ready
    <2>2. file.lines[line] # << >> \/ Len(file.lines[line]) = 1
      BY LineKinds, TokenKinds DEF IsLeaf, Ready, DecodeInv
    <2>3. file.lines[line][1] \in Tokens
      <3>1. 1 \in 1 .. Len(file.lines[line])
        BY <2>1, <2>2, EmptySeq
      <3> QED
        BY <2>1, <3>1, ElementOfSeq
    <2> QED
      BY <1>2, <2>3 DEF Tokens, Tag
  <1>4. \A y : file.lines[line][1] = Tag(y) <=> y = x
    BY <1>3 DEF Tag
  <1>5. file.begun[line] = Len(raw)
    BY ReadyFacts
  <1>6. \A i \in Nat : \A y \in Fields :
          LeafOf(file, line, i, y) <=> Here = TxnPath /\ i = Len(raw) /\ y = x
    BY <1>4, <1>5 DEF LeafOf, Here
  <1> QED
    BY <1>1, <1>2, <1>6

\* A leaf's tag: in a transaction it takes the place of what was read for it.
LEMMA StepLeafTag ==
  ASSUME Ready, ~AtEnd, LeafLine(line), col = 1, Token = file.lines[line][1], StartElement
  PROVE  Ready'
  <1> DEFINE x == file.lines[line][1].name
  <1>1. /\ file' = file /\ Lines' = Lines /\ PlaceInv'
        /\ \/ 1 < Len(Lines[line]) /\ line' = line /\ col' = 2
           \/ Len(Lines[line]) = 1 /\ line' = line + 1 /\ col' = 1
    BY Advances, SameFile DEF StartElement, Ready, DecodeInv
  <1>2. /\ line \in 1 .. Len(file.lines) /\ line + 1 \in 1 .. Len(file.lines) + 1
        /\ x \in Names /\ NotOn(Here, x) /\ NotOn(TxnPath, x) /\ Here # << >>
        /\ file.path[line + 1] = Here /\ file.begun[line + 1] = file.begun[line]
        /\ \A i \in Nat : \A y \in Fields :
             LeafOf(file, line, i, y) <=> Here = TxnPath /\ i = Len(raw) /\ y = x
    BY LeafFacts
  <1>3. Nested(Here, Len(stack), stack) /\ stack \in Seq(Names) /\ Len(stack) \in Nat
    BY ReadyFacts DEF Ready, DecodeInv, StackInv, Below
  <1>4. stack' = Append(stack, x)
    BY DEF StartElement
  <1>5. /\ Len(stack') = Len(stack) + 1 /\ stack' # << >> /\ Innermost' = x
        /\ Nested(Here, Len(stack') - 1, stack')
    BY <1>2, <1>3, <1>4, NestedLeaf, Appended DEF Innermost
  <1>6. stack' # TxnPath
    <2>1. Len(stack') \in DOMAIN stack' /\ stack'[Len(stack')] = x
      <3>1. stack' \in Seq(Names) /\ stack'[Len(stack) + 1] = x
        BY <1>2, <1>3, <1>4, Appended
      <3> QED
        BY <1>3, <1>5, <3>1, LenProperties
    <2> QED
      BY <1>2, <2>1 DEF NotOn
  <1>7. /\ stack = TxnPath => Here = TxnPath
        /\ stack' = Append(TxnPath, x) => stack = TxnPath
    <2>1. Here # TxnPath => stack = Here
      BY <1>3, OpenExactly DEF Nested
    <2> QED
      BY <1>2, <1>3, <1>4, <2>1, NamesAssumption, AppendedEqual
  <1>8. /\ RawInv' /\ Len(raw') = Len(raw)
        /\ stack = TxnPath /\ x \in Fields => raw'[Len(raw)][x] = << >>
        /\ \A i \in 1 .. Len(raw) : \A y \in Fields :
             (stack = TxnPath /\ i = Len(raw) /\ y = x) \/ raw'[i][y] = raw[i][y]
    <2>1. CASE stack = TxnPath /\ x \in Fields
      <3>1. PICK y \in Fields : y = x
        BY <2>1
      <3>2. PICK w \in Seq(Texts) : w = << >>
        BY EmptySeq
      <3>3. raw' = Give(raw, y, w)
        BY <1>6, <2>1, <3>1, <3>2 DEF StartElement, Give
      <3>4. raw \in Decoded /\ raw # << >>
        BY <1>7, <2>1, ReadyFacts
      <3>5. /\ raw' \in Decoded /\ Len(raw) \in Nat \ {0} /\ Len(raw') = Len(raw)
            /\ raw'[Len(raw)][y] = w
            /\ \A i \in 1 .. Len(raw) : \A z \in Fields :
                 i # Len(raw) \/ z # y => raw'[i][z] = raw[i][z]
        BY ONLY <3>3, <3>4, Given
      <3>6. RawInv'
        BY <1>1, <3>2, <3>5 DEF RawInv, Ready
      <3> QED
        BY <2>1, <3>1, <3>2, <3>5, <3>6
    <2>2. CASE ~(stack = TxnPath /\ x \in Fields)
      <3>1. raw' = raw
        BY <1>6, <2>2 DEF StartElement
      <3>2. RawInv'
        BY <1>1, <3>1 DEF RawInv, Ready
      <3> QED
        BY <2>2, <3>1, <3>2
    <2> QED
      BY <2>1, <2>2
  <1>9. stack' = Append(TxnPath, Innermost') /\ Innermost' \in Fields =>
          raw'[Len(raw')][Innermost'] = << >>
    BY <1>5, <1>7, <1>8
  <1>10. CASE 1 < Len(Lines[line]) /\ line' = line /\ col' = 2
    <2>1. Here' = Here /\ Below' = Len(stack') - 1
      BY <1>1, <1>10 DEF Here, Below
    <2>2. StackInv'
      BY <1>1, <1>5, <1>10, <2>1 DEF StackInv
    <2>3. FreshInv'
      BY <1>9, <1>10 DEF FreshInv, ValueBelow
    <2>4. PlainFile => PlainInv'
      <3> SUFFICES ASSUME PlainFile PROVE Below' = Len(Here') /\ KeptInv'
        BY DEF PlainInv
      <3>1. Len(stack) = Len(Here) /\ KeptInv
        BY DEF Ready, DecodeInv, PlainInv, Below
      <3>2. ASSUME NEW n \in 1 .. Len(file.lines), NEW y \in Fields, n < line,
                   NEW i \in Nat, i = file.begun[n],
                   LeafOf(file, n, i, y), ~LeafOf(file, line, i, y)
            PROVE  Kept(i, y)'
        <4>1. Kept(i, y)
          BY <3>1, <3>2 DEF KeptInv, ReadSoFar
        <4>2. ~(stack = TxnPath /\ i = Len(raw) /\ y = x)
          BY <1>2, <1>7, <3>2
        <4> QED
          BY <1>1, <1>8, <4>1, <4>2 DEF Kept
      <3>3. KeptInv'
        BY <1>1, <1>10, <3>2, Places DEF KeptInv, ReadSoFar, Ready
      <3> QED
        BY <1>3, <1>5, <2>1, <3>1, <3>3
    <2> QED
      BY <1>1, <1>8, <1>10, <2>2, <2>3, <2>4, ReadyFacts, SameFile DEF Ready, DecodeInv
  <1>11. CASE Len(Lines[line]) = 1 /\ line' = line + 1 /\ col' = 1
    <2>1. Here = TxnPath /\ Len(file.lines[line]) = 1 /\ file.lines[line][1].k = "start"
      BY <1>11 DEF LeafLine, Here
    <2>2. Here' = TxnPath /\ Below' = Len(stack')
      BY <1>1, <1>2, <1>11, <2>1 DEF Here, Below
    <2>3. Nested(TxnPath, Len(stack'), stack')
      BY <1>5, <2>1, NestedStays
    <2>4. StackInv'
      BY <1>5, <1>11, <2>2, <2>3 DEF StackInv
    <2>5. FreshInv'
      <3>1. ValueBelow' => Innermost' = file.lines[line' - 1][1].name
        BY <1>2, <1>5, <1>11
      <3> QED
        BY <1>1, <1>9, <3>1 DEF FreshInv
    <2>6. ~PlainFile
      <3>1. ~PlainLine(line)
        BY <1>11 DEF LeafLine
      <3> QED
        BY <1>2, <3>1, Places DEF PlainFile, Ready
    <2> QED
      BY <1>1, <1>2, <1>8, <1>11, <2>4, <2>5, <2>6, ReadyFacts, SameFile DEF Ready, DecodeInv
  <1> QED
    BY <1>1, <1>10, <1>11

\* The value on a leaf's line.
LEMMA StepLeafText ==
  ASSUME Ready, ~AtEnd, LeafLine(line), col = 2, Token.k = "text", CharData
  PROVE  Ready'
  <1> DEFINE x == file.lines[line][1].name
             v == Token.value
  <1>1. /\ file' = file /\ Lines' = Lines /\ PlaceInv' /\ stack' = stack
        /\ \/ 2 < Len(Lines[line]) /\ line' = line /\ col' = 3
           \/ Len(Lines[line]) = 2 /\ line' = line + 1 /\ col' = 1
    BY Advances, SameFile DEF CharData, Ready, DecodeInv
  <1>2. /\ line \in 1 .. Len(file.lines) /\ line + 1 \in 1 .. Len(file.lines) + 1
        /\ Here # << >>
        /\ file.path[line + 1] = Here /\ file.begun[line + 1] = file.begun[line]
        /\ \A i \in Nat : \A y \in Fields :
             LeafOf(file, line, i, y) <=> Here = TxnPath /\ i = Len(raw) /\ y = x
    BY LeafFacts
  <1>3. Len(Lines[line]) >= 2
    <2>1. col <= Len(Lines[line])
      BY TokenKinds DEF Ready, DecodeInv
    <2> QED
      BY <2>1
  <1>4. v \in Texts /\ Says(file, line, x, One(v)) /\ Len(file.lines[line]) # 1
    BY <1>3 DEF LeafLine, Token, One
  <1>5. Nested(Here, Len(stack) - 1, stack) /\ Innermost = x
    BY DEF Ready, DecodeInv, StackInv, Below
  <1>6. /\ Len(stack) \in Nat \ {0}
        /\ stack = Append(TxnPath, Innermost) => Here = TxnPath
        /\ Here = TxnPath /\ Len(Here) = Len(stack) - 1 => stack = Append(TxnPath, Innermost)
    BY <1>5, LeafInPlace DEF Innermost
  <1>7. stack = Append(TxnPath, Innermost) /\ Innermost \in Fields =>
          /\ Here = TxnPath /\ raw[Len(raw)][Innermost] = << >>
          /\ file.says[file.begun[line]][Innermost] = One(v)
    BY <1>4, <1>5, <1>6 DEF Ready, DecodeInv, FreshInv, Says, Here
  <1>8. /\ RawInv' /\ Len(raw') = Len(raw)
        /\ stack = Append(TxnPath, Innermost) /\ Innermost \in Fields =>
             raw'[Len(raw)][Innermost] = One(v)
        /\ \A i \in 1 .. Len(raw) : \A y \in Fields :
             \/ i = Len(raw) /\ y = Innermost /\ raw'[i][y] = file.says[i][y]
             \/ raw'[i][y] = raw[i][y]
    BY <1>1, <1>4, <1>7, TextGiven DEF CharData
  <1>9. CASE 2 < Len(Lines[line]) /\ line' = line /\ col' = 3
    <2>1. Here' = Here /\ Below' = Len(stack) - 1
      BY <1>1, <1>9 DEF Here, Below
    <2>2. StackInv'
      BY <1>1, <1>5, <1>9, <2>1 DEF StackInv, Ready, DecodeInv, Innermost
    <2>3. FreshInv'
      BY <1>9 DEF FreshInv, ValueBelow
    <2>4. PlainFile => PlainInv'
      <3> SUFFICES ASSUME PlainFile PROVE Below' = Len(Here') /\ KeptInv'
        BY DEF PlainInv
      <3>1. Len(stack) - 1 = Len(Here) /\ KeptInv
        BY DEF Ready, DecodeInv, PlainInv, Below
      <3>2. ASSUME NEW n \in 1 .. Len(file.lines), NEW y \in Fields, n < line \/ n = line,
                   NEW i \in Nat, i = file.begun[n], LeafOf(file, n, i, y)
            PROVE  Kept(i, y)'
        <4>1. CASE LeafOf(file, line, i, y)
          <5>1. Here = TxnPath /\ i = Len(raw) /\ y = x
            BY <1>2, <4>1
          <5>2. raw'[i][y] = file.says[i][y]
            BY <1>5, <1>6, <1>7, <1>8, <3>1, <5>1, ReadyFacts
          <5>3. i \in 1 .. Len(raw')
            <6>1. raw # << >> /\ Len(raw) \in Nat /\ raw \in Decoded
              BY <5>1, ReadyFacts
            <6>2. Len(raw) # 0
              BY <6>1, EmptySeq DEF Decoded
            <6> QED
              BY <1>8, <5>1, <6>1, <6>2
          <5> QED
            BY <1>1, <5>2, <5>3 DEF Kept
        <4>2. CASE ~LeafOf(file, line, i, y)
          <5>1. n < line
            BY <3>2, <4>2
          <5>2. Kept(i, y)
            BY <3>1, <3>2, <4>2, <5>1 DEF KeptInv, ReadSoFar
          <5> QED
            BY <1>1, <1>8, <5>2 DEF Kept
        <4> QED
          BY <4>1, <4>2
      <3>3. KeptInv'
        BY <1>1, <1>9, <3>2, Places DEF KeptInv, ReadSoFar, Ready
      <3> QED
        BY <2>1, <3>1, <3>3
    <2> QED
      BY <1>1, <1>8, <1>9, <2>2, <2>3, <2>4, ReadyFacts, SameFile DEF Ready, DecodeInv
  <1>10. CASE Len(Lines[line]) = 2 /\ line' = line + 1 /\ col' = 1
    <2>1. Here = TxnPath
      BY <1>10 DEF LeafLine, Here, Token
    <2>2. Here' = TxnPath /\ Below' = Len(stack)
      BY <1>1, <1>2, <1>10, <2>1 DEF Here, Below
    <2>3. Nested(TxnPath, Len(stack), stack) /\ stack # << >>
      BY <1>5, <1>6, <2>1, NestedStays, EmptySeq
    <2>4. StackInv'
      BY <1>1, <1>10, <2>2, <2>3 DEF StackInv
    <2>5. FreshInv'
      <3>1. ~Bare(line)
        BY <1>4 DEF Bare
      <3>2. ~ValueBelow' /\ col' # 2
        BY <1>1, <1>10, <3>1, ReadyFacts DEF ValueBelow, Bare
      <3> QED
        BY <3>2 DEF FreshInv
    <2>6. ~PlainFile
      <3>1. ~PlainLine(line)
        BY <1>10 DEF LeafLine, Token
      <3> QED
        BY <1>2, <3>1, Places DEF PlainFile, Ready
    <2> QED
      BY <1>1, <1>2, <1>8, <1>10, <2>4, <2>5, <2>6, ReadyFacts, SameFile DEF Ready, DecodeInv
  <1> QED
    BY <1>1, <1>9, <1>10

\* The first end tag on a leaf's line closes it.
LEMMA StepLeafEnd ==
  ASSUME Ready, ~AtEnd, LeafLine(line), Token = EndTag(file.lines[line][1].name),
         (col = 2 /\ Len(Lines[line]) = 2) \/ col = 3, EndElement
  PROVE  Innermost = Token.name /\ stack' # << >> /\ Ready'
  <1> DEFINE x == file.lines[line][1].name
  <1>1. /\ file' = file /\ Lines' = Lines /\ PlaceInv' /\ raw' = raw
        /\ \/ col < Len(Lines[line]) /\ line' = line /\ col' = col + 1
           \/ col = Len(Lines[line]) /\ line' = line + 1 /\ col' = 1
    BY Advances, SameFile DEF EndElement, Ready, DecodeInv
  <1>2. /\ line \in 1 .. Len(file.lines) /\ line + 1 \in 1 .. Len(file.lines) + 1
        /\ Here # << >>
        /\ file.path[line + 1] = Here /\ file.begun[line + 1] = file.begun[line]
        /\ \A i \in Nat : \A y \in Fields :
             LeafOf(file, line, i, y) <=> Here = TxnPath /\ i = Len(raw) /\ y = x
    BY LeafFacts
  <1>3. Token.name = x /\ Token.k = "end"
    BY DEF EndTag
  <1>4. Nested(Here, Len(stack) - 1, stack) /\ Innermost = x
    BY DEF Ready, DecodeInv, StackInv, Below
  <1>5. stack' = OpenAfter(stack, stack[Len(stack)])
    BY <1>3, <1>4 DEF EndElement, Innermost
  <1>6. Nested(Here, Len(stack'), stack') /\ Len(stack') = Len(stack) - 1
    BY <1>4, <1>5, NestedPops
  <1>7. stack' # << >>
    <2>1. Len(Here) \in Nat /\ Len(Here) # 0
      BY <1>2, ReadyFacts, EmptySeq
    <2>2. Len(stack') >= Len(Here) /\ Len(stack') \in Nat
      BY <1>6, <2>1, LenProperties DEF Nested
    <2> QED
      BY <2>1, <2>2
  <1>8. CASE col < Len(Lines[line]) /\ line' = line /\ col' = col + 1
    <2>1. col = 3 /\ col' = 4 /\ Len(Lines[line]) > 3
      <3>1. PICK m \in 1 .. 4 : m = Len(Lines[line])
        BY LineLength, TokenKinds DEF Ready, DecodeInv
      <3>2. col < m /\ col' = col + 1 /\ ((col = 2 /\ m = 2) \/ col = 3)
        BY <1>8, <3>1
      <3>3. col = 3 /\ m > 3 /\ col' = 4
        BY <3>2
      <3> QED
        BY <3>1, <3>3
    <2>2. Here' = Here /\ Below' = Len(stack')
      BY <1>1, <1>8, <2>1 DEF Here, Below
    <2>3. StackInv'
      BY <1>6, <1>7, <2>1, <2>2 DEF StackInv
    <2>4. FreshInv'
      BY <2>1 DEF FreshInv, ValueBelow
    <2>5. ~PlainFile
      <3>1. ~PlainLine(line)
        BY <2>1 DEF LeafLine
      <3> QED
        BY <1>2, <3>1, Places DEF PlainFile, Ready
    <2>6. RawInv' /\ Len(raw') = file.begun[line']
      BY <1>1, <1>8, ReadyFacts DEF RawInv, Ready
    <2> QED
      BY <1>1, <1>3, <1>4, <1>7, <2>3, <2>4, <2>5, <2>6, SameFile DEF Ready, DecodeInv
  <1>9. CASE col = Len(Lines[line]) /\ line' = line + 1 /\ col' = 1
    <2>1. Here' = Here /\ Below' = Len(stack')
      BY <1>1, <1>2, <1>9 DEF Here, Below
    <2>2. StackInv'
      BY <1>6, <1>7, <1>9, <2>1 DEF StackInv
    <2>3. FreshInv'
      <3>1. ~Bare(line)
        BY <1>9 DEF Bare, LeafLine
      <3>2. ~ValueBelow' /\ col' # 2
        BY <1>1, <1>2, <1>9, <3>1 DEF ValueBelow, Bare
      <3> QED
        BY <3>2 DEF FreshInv
    <2>4. RawInv' /\ Len(raw') = file.begun[line']
      <3>1. Len(raw) = file.begun[line]
        BY ReadyFacts
      <3> QED
        BY <1>1, <1>2, <1>9, <3>1 DEF RawInv, Ready
    <2>5. PlainFile => PlainInv'
      <3> SUFFICES ASSUME PlainFile PROVE Below' = Len(Here') /\ KeptInv'
        BY DEF PlainInv
      <3>1. Len(stack) - 1 = Len(Here) /\ KeptInv
        BY DEF Ready, DecodeInv, PlainInv, Below
      <3>2. ASSUME NEW i \in Nat, NEW y \in Fields, LeafOf(file, line, i, y)
            PROVE  Kept(i, y)'
        <4>1. Here = TxnPath /\ i = Len(raw) /\ y = x /\ i = file.begun[line]
          <5>1. i = file.begun[line]
            BY <3>2 DEF LeafOf
          <5> QED
            BY <1>2, <3>2, <5>1
        <4>2. CASE col = 3
          <5>1. Kept(i, y)
            BY <1>2, <3>1, <3>2, <4>1, <4>2 DEF KeptInv, ReadSoFar
          <5> QED
            BY <1>1, <5>1 DEF Kept
        <4>3. CASE col = 2 /\ Len(Lines[line]) = 2
          <5>1. stack = Append(TxnPath, Innermost)
            BY <1>4, <3>1, <4>1, LeafInPlace DEF Innermost
          <5>2. raw[i][y] = << >>
            BY <1>4, <4>1, <4>3, <5>1 DEF Ready, DecodeInv, FreshInv
          <5>3. Says(file, line, x, << >>)
            <6>1. Lines[line][2].k # "text"
              BY <1>3, <4>3 DEF Token
            <6> QED
              BY <4>3, <6>1 DEF LeafLine
          <5>4. file.says[i][y] = << >>
            BY <4>1, <5>3 DEF Says, Here
          <5>5. i \in 1 .. Len(raw)
            <6>1. raw # << >> /\ Len(raw) \in Nat /\ raw \in Decoded
              BY <4>1, ReadyFacts
            <6>2. Len(raw) # 0
              BY <6>1, EmptySeq DEF Decoded
            <6> QED
              BY <4>1, <6>1, <6>2
          <5> QED
            BY <1>1, <5>2, <5>4, <5>5 DEF Kept
        <4> QED
          BY <4>2, <4>3
      <3>3. \A i \in Nat : \A y \in Fields : LeafOf(file, line, i, y) => Kept(i, y)'
        BY <3>2
      <3>4. KeptInv'
        <4>1. /\ Len(raw) \in Nat /\ Len(raw') \in Nat /\ Len(raw) <= Len(raw')
              /\ \A i \in 1 .. Len(raw) : \A y \in Fields : raw'[i][y] = raw[i][y]
          BY <1>1, ReadyFacts
        <4> QED
          BY <1>1, <1>2, <1>9, <3>1, <3>3, <4>1, KeptNext DEF Ready
      <3> QED
        BY <1>6, <2>1, <3>1, <3>4
    <2> QED
      BY <1>1, <1>3, <1>4, <1>7, <2>2, <2>3, <2>4, <2>5, SameFile DEF Ready, DecodeInv
  <1> QED
    BY <1>1, <1>8, <1>9

\* The second closes more than the bank meant.
LEMMA StepLeafEndAgain ==
  ASSUME Ready, ~AtEnd, LeafLine(line), Token = EndTag(file.lines[line][1].name), col = 4,
         EndElement
  PROVE  /\ ~PlainFile
         /\ stack' = OpenAfter(stack, Token.name) /\ stack' # << >> => Ready'
  <1> DEFINE x == file.lines[line][1].name
  <1>1. /\ file' = file /\ Lines' = Lines /\ PlaceInv' /\ raw' = raw
        /\ line' = line + 1 /\ col' = 1 /\ Len(Lines[line]) = 4
    <2>1. PICK m \in 1 .. 4 : m = Len(Lines[line])
      BY LineLength, TokenKinds DEF Ready, DecodeInv
    <2>2. col <= Len(Lines[line])
      BY TokenKinds DEF Ready, DecodeInv
    <2>3. m = 4
      <3>1. 4 <= m
        BY <2>1, <2>2
      <3> QED
        BY <3>1
    <2> QED
      BY <2>1, <2>3, Advances, SameFile DEF EndElement, Ready, DecodeInv
  <1>2. /\ line \in 1 .. Len(file.lines) /\ line + 1 \in 1 .. Len(file.lines) + 1
        /\ NotOn(Here, x)
        /\ file.path[line + 1] = Here /\ file.begun[line + 1] = file.begun[line]
    BY LeafFacts
  <1>3. Token.name = x
    BY DEF EndTag
  <1>4. Nested(Here, Len(stack), stack)
    BY DEF Ready, DecodeInv, StackInv, Below
  <1>5. ~PlainFile
    <2>1. ~PlainLine(line)
      BY <1>1 DEF LeafLine
    <2> QED
      BY <1>2, <2>1, Places DEF PlainFile, Ready
  <1>6. ASSUME stack' = OpenAfter(stack, x), stack' # << >> PROVE Ready'
    <2>1. Nested(Here, Len(stack'), stack')
      BY <1>2, <1>4, <1>6, NestedPopsAgain
    <2>2. Here' = Here /\ Below' = Len(stack')
      BY <1>1, <1>2 DEF Here, Below
    <2>3. StackInv'
      BY <1>1, <1>6, <2>1, <2>2 DEF StackInv
    <2>4. FreshInv'
      <3>1. ~Bare(line)
        BY <1>1 DEF Bare, LeafLine
      <3>2. ~ValueBelow' /\ col' # 2
        BY <1>1, <1>2, <3>1 DEF ValueBelow, Bare
      <3> QED
        BY <3>2 DEF FreshInv
    <2>5. RawInv' /\ Len(raw') = file.begun[line']
      BY <1>1, <1>2, ReadyFacts DEF RawInv, Ready
    <2> QED
      BY <1>1, <1>5, <2>3, <2>4, <2>5, SameFile DEF Ready, DecodeInv
  <1> QED
    BY <1>3, <1>5, <1>6
-----------------------------------------------------------------------------
(***************************************************************************)
(* The parser.                                                             *)
(***************************************************************************)

\* Before the decoder has read anything, it is where the bank begins.
LEMMA ReadyFirst ==
  ASSUME file \in Files, line = 1, col = 1, stack = << >>, raw = << >>
  PROVE  Ready
  <1>1. /\ Len(file.lines) \in Nat \ {0} /\ Len(file.says) \in Nat
        /\ file.path[1] = << >> /\ file.begun[1] = 0
    BY Places
  <1>2. PlaceInv
    <2>1. Len(Lines) \in Nat
      BY LinesShape
    <2>2. 1 <= Len(Lines) => 1 <= Len(Lines[1])
      <3> SUFFICES ASSUME 1 <= Len(Lines) PROVE 1 <= Len(Lines[1])
        OBVIOUS
      <3>1. PICK n \in 1 .. Len(Lines) : n = 1
        BY <2>1
      <3>2. PICK m \in 1 .. 4 : m = Len(Lines[n])
        BY LineLength
      <3>3. m = Len(Lines[1]) /\ 1 <= m
        <4>1. m = Len(Lines[1])
          BY <3>1, <3>2
        <4> QED
          BY <4>1
      <3> QED
        BY <3>3
    <2> QED
      BY <2>1, <2>2 DEF PlaceInv
  <1>3. Here = << >> /\ Below = 0 /\ Len(Here) = 0 /\ << >> \in Seq(Names)
    BY <1>1, EmptySeq DEF Here, Below
  <1>4. StackInv
    <2>1. PICK p \in Seq(Names) : p = << >>
      BY <1>3
    <2>2. Nested(p, Len(p), p)
      BY NestedPath
    <2>3. Nested(Here, Below, stack)
      BY <1>3, <2>1, <2>2
    <2> QED
      BY <2>3 DEF StackInv
  <1>5. FreshInv
    BY DEF FreshInv, ValueBelow
  <1>6. RawInv /\ Len(raw) = file.begun[line]
    BY <1>1, EmptySeq DEF RawInv, Decoded
  <1>7. PlainInv
    <2>1. \A n \in 1 .. Len(file.lines) : ~ReadSoFar(n)
      BY <1>1 DEF ReadSoFar
    <2> QED
      BY <1>3, <2>1 DEF PlainInv, KeptInv
  <1> QED
    BY <1>2, <1>4, <1>5, <1>6, <1>7 DEF Ready, DecodeInv

\* Every token takes the decoder from where the bank is to where it is next, or
\* ends it: with all that a plain file says, or for an end tag out of place.
LEMMA StepStart ==
  ASSUME Ready, StartElement
  PROVE  Ready'
  <1>1. ~AtEnd /\ Token.k = "start"
    BY DEF StartElement, Reads
  <1> QED
    BY <1>1, TokenKinds, StepOpens, StepLeafTag
    DEF Ready, DecodeInv, OnlyToken, Closes, IsValue, EndTag

LEMMA StepText ==
  ASSUME Ready, CharData
  PROVE  Ready'
  <1>1. ~AtEnd /\ Token.k = "text"
    BY DEF CharData, Reads
  <1> QED
    BY SMTT(40), <1>1, TokenKinds, StepValue, StepLeafText
    DEF Ready, DecodeInv, OnlyToken, Opens, Closes, EndTag

LEMMA StepEnd ==
  ASSUME Ready, EndElement
  PROVE  /\ Innermost # Token.name => ~PlainFile
         /\ stack' = OpenAfter(stack, Token.name) /\ stack' = << >> /\ PlainFile => raw = file.says
         /\ stack' = OpenAfter(stack, Token.name) /\ stack' # << >> => Ready'
  <1>1. ~AtEnd /\ Token.k = "end"
    BY DEF EndElement, Reads
  <1>2. CASE OnlyToken /\ Closes(file, line)
    BY <1>1, <1>2, StepCloses
  <1>3. CASE LeafLine(line) /\ Token = EndTag(file.lines[line][1].name)
             /\ ((col = 2 /\ Len(Lines[line]) = 2) \/ col = 3)
    BY <1>1, <1>3, StepLeafEnd
  <1>4. CASE LeafLine(line) /\ Token = EndTag(file.lines[line][1].name) /\ col = 4
    BY <1>1, <1>4, StepLeafEndAgain
  <1> QED
    BY <1>1, <1>2, <1>3, <1>4, TokenKinds DEF Ready, DecodeInv, OnlyToken, Opens, IsValue

\* The end of the input comes too early only for a file that was cut or left an
\* element open.
LEMMA StepEndOfInput ==
  ASSUME Ready, AtEnd
  PROVE  ~(PlainFile /\ WholeFile)
  <1> SUFFICES ASSUME PlainFile, WholeFile PROVE FALSE
    OBVIOUS
  <1>1. /\ Len(Lines) = Len(file.lines) /\ Len(file.lines) \in Nat \ {0}
        /\ file.path[Len(file.lines) + 1] = << >>
    BY LinesShape, Places DEF WholeFile, Complete, Ready
  <1>2. line \in 1 .. Len(Lines) + 1 /\ (line = Len(Lines) + 1 => col = 1)
    BY DEF Ready, DecodeInv, PlaceInv
  <1>3. line = Len(file.lines) + 1 /\ line > 1 /\ col = 1
    BY <1>1, <1>2 DEF AtEnd
  <1>4. Here = << >> /\ Below = Len(stack)
    BY <1>1, <1>3 DEF Here, Below
  <1>5. Len(stack) = 0 /\ stack # << >> /\ stack \in Seq(Names)
    BY <1>3, <1>4, EmptySeq, ReadyFacts DEF Ready, DecodeInv, PlainInv, StackInv
  <1> QED
    BY <1>5, EmptySeq

\* While a file is decoded, Ready; then a plain file has been read as it was
\* written, unless it was refused, and is answered with all its transactions.
AnswerInv ==
  /\ pc \in {"read", "decode", "map"} => result = "none"
  /\ pc \in {"map", "done"} /\ result # "ErrInvalidFormat" /\ PlainFile => raw = file.says
  /\ Len(txns) <= Len(raw)
  /\ pc = "done" => (result = "ok" <=> txns # << >>)
  /\ result = "ok" => Len(txns) = Len(raw)
  /\ result = "ErrInvalidFormat" => ~(PlainFile /\ WholeFile)

ReadInv ==
  /\ file \in Files /\ RawInv
  /\ pc \in {"read", "decode"} => Ready
  /\ AnswerInv

\* Without a step of the decoder, what it has read and where it is stay.
LEMMA StillRaw ==
  ASSUME RawInv, UNCHANGED <<file, raw>>
  PROVE  RawInv'
  BY DEF RawInv

LEMMA StillReady ==
  ASSUME Ready, UNCHANGED <<file, line, col, stack, raw>>
  PROVE  Ready'
  <1>1. PlaceInv' /\ StackInv' /\ FreshInv' /\ RawInv'
    BY SameFile, StillRaw
    DEF Ready, DecodeInv, PlaceInv, StackInv, FreshInv, ValueBelow, Bare, Here, Below, Innermost
  <1>2. PlainFile => PlainInv'
    BY DEF Ready, DecodeInv, PlainInv, KeptInv, ReadSoFar, Kept, Here, Below
  <1> QED
    BY <1>1, <1>2, SameFile DEF Ready, DecodeInv

\* Every step keeps it.
LEMMA NextReadInv ==
  ASSUME ReadInv, MapInv, [Next]_vars
  PROVE  ReadInv'
  <1>1. /\ file \in Files /\ RawInv /\ AnswerInv
        /\ pc \in {"read", "decode"} => Ready /\ txns = << >> /\ Len(txns) = 0 /\ result = "none"
    BY EmptySeq DEF ReadInv, AnswerInv, MapInv
  <1>2. Ready => Len(raw) \in Nat
    BY ReadyFacts
  <1>3. CASE Read
    <2>1. /\ UNCHANGED <<file, line, col, stack, raw, txns>> /\ pc = "read"
          /\ \/ pc' = "decode" /\ result' = result
             \/ ~WholeFile /\ pc' = "done" /\ result' = "ErrInvalidFormat"
      BY <1>3 DEF Read, Finish, WholeFile
    <2>2. Ready' /\ RawInv' /\ PlainFile' = PlainFile /\ WholeFile' = WholeFile
      BY <1>1, <2>1, StillRaw, StillReady, SameFile
    <2>3. AnswerInv'
      BY <1>1, <1>2, <2>1, <2>2 DEF AnswerInv
    <2> QED
      BY <1>1, <2>1, <2>2, <2>3 DEF ReadInv
  <1>4. CASE StartElement \/ CharData
    <2>1. UNCHANGED <<file, pc, txns, result>> /\ pc = "decode"
      BY <1>4 DEF StartElement, CharData, Reads
    <2>2. Ready'
      BY <1>1, <1>4, <2>1, StepStart, StepText
    <2>3. Len(raw') \in Nat
      BY <2>2, LenProperties DEF Ready, RawInv, Decoded
    <2>4. AnswerInv'
      BY <1>1, <2>1, <2>3 DEF AnswerInv
    <2> QED
      BY <1>1, <2>1, <2>2, <2>4 DEF ReadInv, Ready
  <1>5. CASE EndElement
    <2>1. UNCHANGED <<file, raw, txns>> /\ pc = "decode"
      BY <1>5 DEF EndElement, Reads
    <2>2. Ready /\ Len(raw) \in Nat /\ Len(txns) = 0 /\ txns = << >> /\ RawInv'
          /\ PlainFile' = PlainFile /\ WholeFile' = WholeFile
      BY <1>1, <1>2, <2>1, StillRaw, SameFile
    <2>3. \/ pc' = "decode" /\ result' = "none" /\ Ready'
          \/ pc' = "map" /\ result' = "none" /\ (PlainFile => raw = file.says)
          \/ pc' = "done" /\ result' = "ErrInvalidFormat" /\ ~PlainFile
      BY <1>1, <1>5, <2>1, <2>2, StepEnd DEF EndElement, Finish
    <2>4. AnswerInv'
      BY <2>1, <2>2, <2>3 DEF AnswerInv
    <2> QED
      BY <1>1, <2>1, <2>2, <2>3, <2>4 DEF ReadInv
  <1>6. CASE EndOfInput
    <2>1. /\ UNCHANGED <<file, raw, txns>> /\ pc = "decode" /\ AtEnd
          /\ pc' = "done" /\ result' = "ErrInvalidFormat"
      BY <1>6 DEF EndOfInput, Finish
    <2>2. /\ Len(raw) \in Nat /\ Len(txns) = 0 /\ txns = << >> /\ RawInv'
          /\ PlainFile' = PlainFile /\ WholeFile' = WholeFile /\ ~(PlainFile /\ WholeFile)
      BY <1>1, <1>2, <2>1, StillRaw, SameFile, StepEndOfInput
    <2>3. AnswerInv'
      BY <2>1, <2>2 DEF AnswerInv
    <2> QED
      BY <1>1, <2>1, <2>2, <2>3 DEF ReadInv
  <1>7. CASE MapTransaction
    <2>1. UNCHANGED <<file, line, col, stack, raw>> /\ pc = "map" /\ Len(txns) < Len(raw)
      BY <1>7 DEF MapTransaction
    <2>2. RawInv' /\ PlainFile' = PlainFile /\ WholeFile' = WholeFile /\ Len(raw) \in Nat
      BY <1>1, <2>1, StillRaw, SameFile, LenProperties DEF RawInv, Decoded
    <2>3. PICK n \in Nat : n = Len(txns)
      BY LenProperties DEF MapInv
    <2>4. CASE pc' = "done" /\ result' \in {"ErrInvalidAmount", "ErrInvalidDate"} /\ txns' = << >>
      <3>1. Len(txns') = 0
        BY <2>4, EmptySeq
      <3>2. AnswerInv'
        BY <1>1, <2>1, <2>2, <2>4, <3>1 DEF AnswerInv
      <3> QED
        BY <1>1, <2>1, <2>2, <2>4, <3>2 DEF ReadInv
    <2>5. CASE UNCHANGED <<pc, result>> /\ \E e : txns' = Append(txns, e)
      <3>1. Len(txns') = n + 1
        <4>1. PICK S : txns \in Seq(S)
          BY DEF MapInv
        <4>2. PICK e : txns' = Append(txns, e)
          BY <2>5
        <4>3. PICK T : T = S \cup {e}
          OBVIOUS
        <4>4. txns \in Seq(T) /\ e \in T
          BY <4>1, <4>3, SeqMonotonic
        <4> QED
          BY <2>3, <4>2, <4>4, Appended
      <3>2. Len(txns') <= Len(raw)
        BY <2>1, <2>2, <2>3, <3>1
      <3>3. AnswerInv'
        BY <1>1, <2>1, <2>2, <2>5, <3>2 DEF AnswerInv
      <3> QED
        BY <1>1, <2>1, <2>2, <2>5, <3>3 DEF ReadInv
    <2> QED
      BY <1>7, <2>4, <2>5 DEF MapTransaction, Finish
  <1>8. CASE Return
    <2>1. /\ UNCHANGED <<file, raw, txns>> /\ pc = "map" /\ Len(txns) = Len(raw)
          /\ pc' = "done" /\ result' = IF raw = << >> THEN "ErrNoTransactions" ELSE "ok"
      BY <1>8 DEF Return, Finish
    <2>2. RawInv' /\ PlainFile' = PlainFile /\ WholeFile' = WholeFile /\ Len(raw) \in Nat
      BY <1>1, <2>1, StillRaw, SameFile, LenProperties DEF RawInv, Decoded
    <2>3. raw = << >> <=> txns = << >>
      <3>1. PICK S : txns \in Seq(S)
        BY DEF MapInv
      <3>2. raw \in Seq([Fields -> Seq(Texts)])
        BY <1>1 DEF RawInv, Decoded
      <3> QED
        BY <2>1, <3>1, <3>2, EmptySeq
    <2>4. AnswerInv'
      BY <1>1, <2>1, <2>2, <2>3 DEF AnswerInv
    <2> QED
      BY <1>1, <2>1, <2>2, <2>4 DEF ReadInv
  <1>9. CASE Parsed \/ UNCHANGED vars
    <2>1. UNCHANGED vars
      BY <1>9 DEF Parsed
    <2>2. RawInv' /\ (Ready => Ready') /\ PlainFile' = PlainFile /\ WholeFile' = WholeFile
      BY <1>1, <2>1, StillRaw, StillReady, SameFile DEF vars
    <2>3. AnswerInv'
      BY <1>1, <2>1, <2>2 DEF AnswerInv, vars
    <2> QED
      BY <1>1, <2>1, <2>2, <2>3 DEF ReadInv, vars
  <1> QED
    BY <1>3, <1>4, <1>5, <1>6, <1>7, <1>8, <1>9 DEF Next

LEMMA ReadInvariant == Spec => []ReadInv
  <1>1. Init => ReadInv
    <2> SUFFICES ASSUME Init PROVE ReadInv
      OBVIOUS
    <2>1. Ready
      BY ReadyFirst DEF Init
    <2>2. Len(raw) \in Nat /\ Len(txns) = 0
      BY <2>1, EmptySeq, ReadyFacts DEF Init
    <2>3. AnswerInv
      BY <2>2 DEF Init, AnswerInv
    <2> QED
      BY <2>1, <2>3 DEF Init, ReadInv, Ready
  <1>2. ReadInv /\ MapInv /\ [Next]_vars => ReadInv'
    BY NextReadInv
  <1> QED
    BY <1>1, <1>2, MapInvariant, PTL DEF Spec

\* Of every file that a bank may render: if it is plain, it is read as the bank
\* wrote it or refused, and its format is accepted if it is whole; if it is not,
\* whatever it loses, no field takes the value of another.  This is for any
\* number of lines, transactions and statements, and however the leaves of its
\* transactions are closed (parser.go:183-293).
THEOREM EveryFileReadAsWritten == Spec => []ReadAsWritten
  <1>1. ReadInv /\ MapInv => NothingLost
    BY DEF ReadInv, AnswerInv, MapInv, NothingLost
  <1>2. ReadInv => NothingInvented
    <2> SUFFICES ASSUME ReadInv, NEW i \in DOMAIN raw
                 PROVE  i \in DOMAIN file.says
                        /\ \A x \in Fields : raw[i][x] \in {<< >>, file.says[i][x]}
      BY DEF NothingInvented
    <2>1. file \in Files /\ RawInv /\ raw \in Seq([Fields -> Seq(Texts)])
      BY DEF ReadInv, RawInv, Decoded
    <2>2. i \in 1 .. Len(raw) /\ Len(raw) \in Nat /\ Len(raw) <= Len(file.says)
          /\ Len(file.says) \in Nat /\ DOMAIN file.says = 1 .. Len(file.says)
      BY <2>1, Places, LenProperties DEF RawInv
    <2> QED
      BY <2>1, <2>2 DEF RawInv
  <1> QED
    BY <1>1, <1>2, ReadInvariant, MapInvariant, PTL DEF ReadAsWritten
===============================================================================
