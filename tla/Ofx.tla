---------------------------------- MODULE Ofx ----------------------------------
(***************************************************************************)
(* The parser of OFX files that an import reads its transactions with.     *)
(*                                                                         *)
(* A file is a sequence of lines and a line a sequence of tags and values. *)
(* A file of version 1 is SGML: its lines are given closing tags, and the  *)
(* result goes to Go's XML decoder in lenient mode.  A file of version 2   *)
(* goes to the decoder as it is, in strict mode.                           *)
(***************************************************************************)
EXTENDS Money, Sequences

CONSTANTS
  Files,       \* the files that may be parsed
  Names,       \* the names that elements may have
  Texts,       \* the values that may be written into one
  Invalid,     \* a TRNAMT, DTPOSTED or zone that does not parse; no value
  NoDigits,    \* the whole part of ".50"
  Precision    \* 2^51: a float64 of fewer thousandths tells tenths of a cent

\* The elements on the way to a transaction, and the fields of one.
ListPath == <<"OFX", "BANKMSGSRSV1", "STMTTRNRS", "STMTRS", "BANKTRANLIST">>
TxnPath == Append(ListPath, "STMTTRN")
Fields == {"TRNTYPE", "DTPOSTED", "TRNAMT", "FITID", "NAME", "MEMO"}

Tag(t) == [k |-> "start", name |-> t]
EndTag(t) == [k |-> "end", name |-> t]
Text(v) == [k |-> "text", value |-> v]

Tokens == [k : {"start", "end"}, name : Names] \cup [k : {"text"}, value : Texts]

ASSUME NamesAssumption == TxnPath \in Seq(Names) /\ Fields \subseteq Names

\* A file, and what the bank meant by it: the transactions that it says there
\* are, and before each line and at the end, the elements that it says are open
\* and how many transactions it has begun.
ASSUME FilesAssumption ==
  \A f \in Files :
    /\ f \in [size : {"blank", "fits", "big"}, hasOFX : BOOLEAN, version : {"1", "2", "none"},
              lines : Seq(Seq(Tokens)), long : Nat,
              says : Seq([Fields -> Seq(Texts)]), path : Seq(Seq(Names)), begun : Seq(Nat)]
    /\ f.long <= Len(f.lines)

ASSUME PrecisionAssumption == Precision \in Nat \ {0}

-----------------------------------------------------------------------------
(***************************************************************************)
(* What a bank renders, line by line.  The values of a transaction's       *)
(* fields may be closed or not, below their tag or not there; every other  *)
(* leaf is closed, as version 2 wants it or by its line's end in version 1.*)
(***************************************************************************)

\* Line n of f says that field x of the transaction is text.
Says(f, n, x, text) == f.path[n] = TxnPath /\ x \in Fields => f.says[f.begun[n]][x] = text

SamePlace(f, n) == f.path[n + 1] = f.path[n] /\ f.begun[n + 1] = f.begun[n]

\* The tag of an aggregate.  There are none in a transaction.
Opens(f, n) ==
  LET l == f.lines[n]
  IN  /\ Len(l) = 1 /\ l[1].k = "start" /\ f.path[n] # TxnPath
      /\ f.path[n + 1] = Append(f.path[n], l[1].name)
      /\ f.begun[n + 1] = IF f.path[n + 1] = TxnPath THEN f.begun[n] + 1 ELSE f.begun[n]

Closes(f, n) ==
  LET l == f.lines[n]
  IN  /\ Len(l) = 1 /\ l[1].k = "end"
      /\ f.path[n] = Append(f.path[n + 1], l[1].name)
      /\ f.begun[n + 1] = f.begun[n]

\* A leaf, which does not have the name of an aggregate it is in.
IsLeaf(f, n) ==
  LET l == f.lines[n]
      closed == l[Len(l)] = EndTag(l[1].name)
  IN  /\ l # << >> /\ l[1].k = "start"
      /\ \A p \in {f.path[n], TxnPath} : \A i \in DOMAIN p : p[i] # l[1].name
      /\ f.path[n] # << >>
      /\ \/ Len(l) = 1 /\ f.path[n] = TxnPath
         \/ Len(l) = 2 /\ l[2].k = "end" /\ closed /\ Says(f, n, l[1].name, << >>)
         \/ /\ Len(l) = 2 /\ l[2].k = "text" /\ Says(f, n, l[1].name, <<l[2].value>>)
            /\ f.version # "2" \/ f.path[n] = TxnPath
         \/ Len(l) = 3 /\ l[2].k = "text" /\ closed /\ Says(f, n, l[1].name, <<l[2].value>>)
      /\ SamePlace(f, n)

\* The value of the leaf above it.
IsValue(f, n) ==
  LET l == f.lines[n]
  IN  /\ Len(l) = 1 /\ l[1].k = "text" /\ f.path[n] = TxnPath
      /\ n > 1 /\ f.path[n - 1] = TxnPath
      /\ Len(f.lines[n - 1]) = 1 /\ f.lines[n - 1][1].k = "start"
      /\ Says(f, n, f.lines[n - 1][1].name, <<l[1].value>>)
      /\ SamePlace(f, n)

\* Line n is the leaf of field x of transaction i.
LeafOf(f, n, i, x) ==
  f.path[n] = TxnPath /\ f.begun[n] = i /\ f.lines[n][1] = Tag(x)

\* The bank leaves nothing open.
Complete(f) == f.path[Len(f.lines) + 1] = << >>

Rendered(f) ==
  LET places == 1 .. Len(f.lines) + 1
  IN  /\ f.lines # << >> /\ Len(f.path) = Len(f.lines) + 1 /\ Len(f.begun) = Len(f.lines) + 1
      /\ f.path[1] = << >> /\ f.begun[1] = 0
      /\ \A n \in DOMAIN f.lines : Opens(f, n) \/ Closes(f, n) \/ IsLeaf(f, n) \/ IsValue(f, n)
      /\ \A n \in DOMAIN f.lines : n > 1 => f.path[n] # << >>
      /\ \A n \in places : f.begun[n] <= Len(f.says) /\ (f.path[n] = TxnPath => f.begun[n] > 0)
      /\ Complete(f) =>
           /\ f.begun[Len(f.lines) + 1] = Len(f.says)
           /\ \A i \in DOMAIN f.says : \A x \in Fields :
                f.says[i][x] = << >> \/ \E n \in DOMAIN f.lines : LeafOf(f, n, i, x)

ASSUME RenderedAssumption == \A f \in Files : Rendered(f)
-----------------------------------------------------------------------------
VARIABLES
  file,    \* the file, and what the bank wrote into it
  pc,      \* the next step of Parse
  line,    \* the decoder's line
  col,     \* the token it reads next on that line
  stack,   \* the open elements, the root first
  raw,     \* the transactions as decoded, each a text per field
  txns,    \* the transactions as mapped
  result   \* "ok" or an error, at the end

vars == <<file, pc, line, col, stack, raw, txns, result>>
-----------------------------------------------------------------------------
(***************************************************************************)
(* From SGML to XML.                                                       *)
(***************************************************************************)

isSGML == file.version # "2"

\* Faulty: a line with a value is not given a closing tag.
processLineNot(l) == l

\* A line that begins with a tag and a value is closed with that tag, at its
\* end and whatever else is on it; any other line stays as it is.
processLine(l) ==
  IF Len(l) >= 2 /\ l[1].k = "start" /\ l[2].k = "text" THEN Append(l, EndTag(l[1].name)) ELSE l

\* The scanner stops, without a word, at a line longer than its buffer.
Scanned == IF file.long = 0 THEN file.lines ELSE SubSeq(file.lines, 1, file.long - 1)

sgmlToXML == [n \in DOMAIN Scanned |-> processLine(Scanned[n])]

\* What the decoder is given.
Lines == IF isSGML THEN sgmlToXML ELSE file.lines
-----------------------------------------------------------------------------
(***************************************************************************)
(* Amounts.  An amount is a sign, a second sign that ParseInt would take,  *)
(* a whole part and up to three decimals; any other text is none.          *)
(***************************************************************************)

Amounts == [sign : {"none", "+", "-"}, inner : {"none", "+", "-"}, whole : Nat \cup {NoDigits},
            frac : Seq(0 .. 9)]

maxWholePart == (Half - 1) \div 100

Signed(sign, x) == IF sign = "-" THEN -x ELSE x

\* Faulty: 7.5 is 7.05.
PaddedRight(frac) == IF Len(frac) = 1 THEN frac[1] ELSE 10 * frac[1] + frac[2]

\* "5" is padded to "50".
Padded(frac) == IF Len(frac) = 1 THEN 10 * frac[1] ELSE 10 * frac[1] + frac[2]

\* How far from t thousandths math.Round(f * 100) may be: half a cent, and what
\* ParseFloat and the product lose.
Loss(t) == 5 + (IF t < 0 THEN -t ELSE t) \div Precision

\* math.Round of a float64 near t thousandths, in cents: both neighbours of a
\* tie, which the float may be on either side of.
Rounded(t) ==
  LET near == -Loss(t) .. Loss(t)
  IN  {c \in (t - Loss(t)) \div 10 .. (t + Loss(t)) \div 10 : 10 * c - t \in near}

\* float64(MaxInt64) is 2^63, which the guard lets through and no int64 holds.
FromFloat(x) ==
  IF x > Half \/ x < -Half THEN {Invalid}
  ELSE IF x = Half THEN {-Half, Half - 1} ELSE {x}

\* What ParseAmount may return, before the sign is applied.
Magnitudes(a) ==
  LET whole == Signed(a.inner, a.whole)
      thousandths == Signed(a.inner, 1000 * a.whole + 100 * a.frac[1] + 10 * a.frac[2] + a.frac[3])
      parsed == -Half <= whole /\ whole <= maxWholePart
  IN  CASE ~parsed -> {Invalid}
        [] parsed /\ Len(a.frac) = 0 -> {Wrap(whole * 100)}
        [] parsed /\ Len(a.frac) \in {1, 2} -> {Wrap(whole * 100 + Padded(a.frac))}
        [] OTHER -> UNION {FromFloat(x) : x \in Rounded(thousandths)}

ParseAmount(text) ==
  IF Len(text) # 1 THEN {Invalid}
  ELSE IF text[1] \notin Amounts THEN {Invalid}
  ELSE IF text[1].whole = NoDigits THEN {Invalid}
  ELSE {IF c = Invalid THEN c ELSE Wrap(Signed(text[1].sign, c)) :
          c \in Magnitudes(text[1])}
-----------------------------------------------------------------------------
(***************************************************************************)
(* Dates, in half hours: a number of digits and the local time they are,   *)
(* and a zone.                                                             *)
(***************************************************************************)

Dates == [digits : Nat, local : Int, zone : Int \cup {Invalid}]

\* Faulty: the offset is added.
parseOFXTimezoneEast(z) == IF z = Invalid THEN 0 ELSE -(2 * (z \div 2))

\* The offset of a zone that is z half hours east.  Sscanf reads the digits
\* before the point, and a zone it cannot read is taken for UTC.
parseOFXTimezone(z) ==
  IF z = Invalid THEN 0 ELSE IF z >= 0 THEN 2 * (z \div 2) ELSE -(2 * ((-z) \div 2))

ParseDate(text) ==
  IF Len(text) # 1 THEN Invalid
  ELSE IF text[1] \notin Dates THEN Invalid
  ELSE IF text[1].digits \notin {8, 14} THEN Invalid
  ELSE text[1].local - parseOFXTimezone(text[1].zone)
-----------------------------------------------------------------------------
Init ==
  /\ file   \in Files
  /\ pc     = "read"
  /\ line   = 1
  /\ col    = 1
  /\ stack  = << >>
  /\ raw    = << >>
  /\ txns   = << >>
  /\ result = "none"

Finish(answer) == pc' = "done" /\ result' = answer

\* The file is not too big or blank, and there is an <OFX> to split it at.
Splits == file.size = "fits" /\ file.hasOFX

\* Parse, up to the decoder: the size, the header and the conversion.
Read ==
  /\ pc = "read"
  /\ IF Splits
     THEN pc' = "decode" /\ UNCHANGED result
     ELSE Finish("ErrInvalidFormat")
  /\ UNCHANGED <<file, line, col, stack, raw, txns>>
-----------------------------------------------------------------------------
(***************************************************************************)
(* The decoder, one token at a time.                                       *)
(***************************************************************************)

AtEnd == line > Len(Lines)

Token == Lines[line][col]

Reads(kind) == pc = "decode" /\ ~AtEnd /\ Token.k = kind

Advance ==
  IF col < Len(Lines[line]) THEN col' = col + 1 /\ UNCHANGED line ELSE line' = line + 1 /\ col' = 1

Innermost == stack[Len(stack)]

\* An element opens.  A transaction in its place is appended to the list, and
\* a field of one takes the place of what was read for it; any other element
\* is skipped with all it holds.
StartElement ==
  LET t == Token.name
  IN  /\ Reads("start")
      /\ stack' = Append(stack, t)
      /\ Advance
      /\ raw' = IF stack' = TxnPath THEN Append(raw, [x \in Fields |-> << >>])
                ELSE IF stack = TxnPath /\ t \in Fields THEN [raw EXCEPT ![Len(raw)][t] = << >>]
                ELSE raw
      /\ UNCHANGED <<file, pc, txns, result>>

\* Faulty: the text of the elements in a field is part of its value.
CharDataNested ==
  /\ Reads("text")
  /\ raw' = IF Len(stack) >= 7 /\ stack[7] \in Fields /\ SubSeq(stack, 1, 6) = TxnPath
            THEN [raw EXCEPT ![Len(raw)][stack[7]] = Append(@, Token.value)]
            ELSE raw
  /\ Advance
  /\ UNCHANGED <<file, pc, stack, txns, result>>

\* The text right inside a field is its value.
CharData ==
  /\ Reads("text")
  /\ raw' = IF stack # << >> /\ Innermost \in Fields /\ stack = Append(TxnPath, Innermost)
            THEN [raw EXCEPT ![Len(raw)][Innermost] = Append(@, Token.value)]
            ELSE raw
  /\ Advance
  /\ UNCHANGED <<file, pc, stack, txns, result>>

\* What stays open after </t>: in lenient mode it closes every element up to
\* the innermost t, and all of them if there is none.
OpenAfter(open, t) ==
  LET same == {i \in DOMAIN open : open[i] = t}
  IN  IF same = {} THEN << >> ELSE SubSeq(open, 1, (CHOOSE i \in same : \A j \in same : j <= i) - 1)

\* An element closes.  The decoder is done when the root does.
EndElement ==
  LET t == Token.name
  IN  /\ Reads("end")
      /\ \/ /\ isSGML \/ Innermost = t
            /\ stack' = OpenAfter(stack, t)
            /\ IF stack' = << >> THEN pc' = "map" ELSE UNCHANGED pc
            /\ UNCHANGED result
         \/ /\ ~isSGML /\ Innermost # t
            /\ Finish("ErrInvalidFormat")
            /\ UNCHANGED stack
      /\ Advance
      /\ UNCHANGED <<file, raw, txns>>

\* Faulty: what was read before the end of a cut file is taken for all of it.
EndOfInputAccepted ==
  /\ pc = "decode" /\ AtEnd
  /\ pc' = "map"
  /\ UNCHANGED <<file, line, col, stack, raw, txns, result>>

\* The input ends with the root open, in either mode.
EndOfInput ==
  /\ pc = "decode" /\ AtEnd
  /\ Finish("ErrInvalidFormat")
  /\ UNCHANGED <<file, line, col, stack, raw, txns>>
-----------------------------------------------------------------------------
(***************************************************************************)
(* From the fields to transactions.                                        *)
(***************************************************************************)

\* mapTransaction: one amount or date that is invalid refuses the file.
MapTransaction ==
  LET x == raw[Len(txns) + 1]
      date == ParseDate(x["DTPOSTED"])
  IN  /\ pc = "map" /\ Len(txns) < Len(raw)
      /\ \E cents \in ParseAmount(x["TRNAMT"]) :
           \/ /\ cents = Invalid
              /\ Finish("ErrInvalidAmount")
              /\ txns' = << >>
           \/ /\ cents # Invalid /\ date = Invalid
              /\ Finish("ErrInvalidDate")
              /\ txns' = << >>
           \/ /\ cents # Invalid /\ date # Invalid
              /\ txns' = Append(txns, [FITID |-> x["FITID"], Type |-> x["TRNTYPE"],
                                       Amount |-> cents, Name |-> x["NAME"],
                                       Memo |-> x["MEMO"], DatePosted |-> date])
              /\ UNCHANGED <<pc, result>>
      /\ UNCHANGED <<file, line, col, stack, raw>>

\* Faulty: a file without transactions is read as such.
ReturnAny ==
  /\ pc = "map" /\ Len(txns) = Len(raw)
  /\ Finish("ok")
  /\ UNCHANGED <<file, line, col, stack, raw, txns>>

Return ==
  /\ pc = "map" /\ Len(txns) = Len(raw)
  /\ Finish(IF raw = << >> THEN "ErrNoTransactions" ELSE "ok")
  /\ UNCHANGED <<file, line, col, stack, raw, txns>>

Parsed == pc = "done" /\ UNCHANGED vars

Next ==
  \/ Read
  \/ StartElement \/ CharData \/ EndElement \/ EndOfInput
  \/ MapTransaction \/ Return
  \/ Parsed

Spec == Init /\ [][Next]_vars
-----------------------------------------------------------------------------
(***************************************************************************)
(* Properties.                                                             *)
(***************************************************************************)

\* An aggregate's tag or end tag alone, or a leaf that is closed: on its own, or
\* with processLine's help.
PlainLine(n) ==
  LET l == file.lines[n]
  IN  \/ Len(l) = 1 /\ l[1].k = "end"
      \/ Len(l) = 1 /\ l[1].k = "start" /\ file.path[n] # TxnPath
      \/ Len(l) = 2 /\ l[2].k = "end"
      \/ Len(l) = 2 /\ l[2].k = "text" /\ isSGML
      \/ Len(l) = 3 /\ ~isSGML

PlainFile == \A n \in DOMAIN file.lines : PlainLine(n)

WholeFile == Splits /\ file.long = 0 /\ Complete(file)

\* What a plain file is read as is what the bank wrote: every transaction, in
\* order, with all its fields.  A file that was cut, anywhere, and a file with a
\* line too long for the scanner, are refused and never taken for shorter ones,
\* and transactions come with "ok" and never with an error
\* (parser.go:185-200, 267-293).
NothingLost ==
  /\ result = "ok" /\ PlainFile => raw = file.says /\ Len(txns) = Len(raw)
  /\ pc = "done" => (result = "ok" <=> txns # << >>)
  /\ pc = "done" /\ PlainFile /\ WholeFile => raw = file.says /\ result # "ErrInvalidFormat"

\* Whatever a file of version 1 loses because of how its leaves are closed, no
\* field ever takes a value of another field or of another transaction
\* (parser.go:203-230).
NothingInvented ==
  result = "ok" =>
    \A i \in DOMAIN raw :
      /\ i \in DOMAIN file.says
      /\ \A x \in Fields : raw[i][x] \in {<< >>, file.says[i][x]}

\* Both: a plain file is read as it was written or refused, and a file of odd
\* lines, whatever it loses, is not read as saying what it does not say.
ReadAsWritten == NothingLost /\ NothingInvented

Digit(frac, k) == IF k \in DOMAIN frac THEN frac[k] ELSE 0

\* An amount without its signs, in thousandths, as far as three decimals tell.
Thousandths(a) ==
  1000 * a.whole + 100 * Digit(a.frac, 1) + 10 * Digit(a.frac, 2) + Digit(a.frac, 3)

\* An amount of one sign is read within half a cent, with its sign, and exactly
\* if it has whole cents.  There are two exceptions: if its whole part is the
\* greatest the guard lets through, the cents may not fit and wrap, and if it
\* has a third decimal, it must not be too great for a float (amount.go:47-83).
AmountTrue ==
  \A i \in DOMAIN txns :
    LET a == raw[i]["TRNAMT"][1]
        read == 10 * txns[i].Amount - Signed(a.sign, Thousandths(a))
    IN  a.inner = "none" /\ a.whole < maxWholePart =>
          /\ Len(a.frac) <= 2 => read = 0
          /\ 1000 * (a.whole + 1) <= Precision => read \in -5 .. 5

\* A date is the instant the bank meant, if its zone is whole hours, and no
\* more than half an hour off otherwise (date.go:60-82).
InstantKept ==
  \A i \in DOMAIN txns :
    LET d == raw[i]["DTPOSTED"][1]
        meant == IF d.zone = Invalid THEN d.local ELSE d.local - d.zone
    IN  txns[i].DatePosted - meant \in IF d.zone = Invalid THEN {0}
                                      ELSE IF d.zone % 2 = 0 THEN {0} ELSE {-1, 1}

\* Both: what a transaction says of money and time is what the file says.
ValuesTrue == AmountTrue /\ InstantKept
-----------------------------------------------------------------------------
(***************************************************************************)
(* What a comment says and the code does not do.                           *)
(***************************************************************************)

\* "converts OFX SGML to valid XML by adding closing tags for leaf elements
\* that don't have them" (parser.go:183-184): so it does not matter whether the
\* leaves of a file have closing tags.
LeavesClosed == result = "ok" /\ isSGML => raw = file.says
===============================================================================
