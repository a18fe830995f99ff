--------------------------------- MODULE MCOfx ---------------------------------
(***************************************************************************)
(* Instances of Ofx for TLC: files rendered from what a bank may write.    *)
(***************************************************************************)
EXTENDS Ofx, SequencesExt, TLC

CONSTANTS f1, f2, n1, m1, kind1

Amt(sign, whole, frac) == [sign |-> sign, inner |-> "none", whole |-> whole, frac |-> frac]
Day(n, z) == [digits |-> n, local |-> 20, zone |-> z]

Entry(f, a, d) ==
  [x \in Fields |-> CASE x = "TRNTYPE" -> <<kind1>> [] x = "DTPOSTED" -> <<d>>
                      [] x = "TRNAMT" -> <<a>> [] x = "FITID" -> <<f>>
                      [] x = "NAME" -> <<n1>> [] x = "MEMO" -> <<m1>>]

FieldOrder == <<"TRNTYPE", "DTPOSTED", "TRNAMT", "FITID", "NAME", "MEMO">>

\* A leaf with an open end, with a closing tag, and with its value below.
Leaf(style, x, text) ==
  IF text = << >> THEN IF style = "closed" THEN <<<<Tag(x), EndTag(x)>>>> ELSE <<<<Tag(x)>>>>
  ELSE CASE style = "open" -> <<<<Tag(x), Text(text[1])>>>>
         [] style = "closed" -> <<<<Tag(x), Text(text[1]), EndTag(x)>>>>
         [] style = "below" -> <<<<Tag(x)>>, <<Text(text[1])>>>>

\* One leaf of a transaction may be in another style.
Txn(style, odd, at, e) ==
  <<<<Tag("STMTTRN")>>>>
  \o FlattenSeq([i \in 1 .. 6 |-> Leaf(IF i = at THEN odd ELSE style, FieldOrder[i], e[FieldOrder[i]])])
  \o <<<<EndTag("STMTTRN")>>>>

Body(style, odd, at, says) ==
  <<<<Tag("OFX")>>, <<Tag("SIGNONMSGSRSV1")>>>> \o Leaf(style, "LANGUAGE", <<n1>>)
  \o <<<<EndTag("SIGNONMSGSRSV1")>>>> \o [i \in 1 .. 4 |-> <<Tag(ListPath[i + 1])>>]
  \o Leaf(style, "DTSTART", <<n1>>)
  \o FlattenSeq([i \in DOMAIN says |-> Txn(style, odd, IF i = 1 THEN at ELSE 0, says[i])])
  \o [i \in 1 .. 5 |-> <<EndTag(ListPath[6 - i])>>]

\* The elements that are open before a line, and the transactions begun.
Place(lines) ==
  LET place[n \in 1 .. Len(lines) + 1] ==
        IF n = 1 THEN [path |-> << >>, begun |-> 0]
        ELSE LET before == place[n - 1]
                 l == lines[n - 1]
                 path == Append(before.path, l[1].name)
             IN  CASE Len(l) = 1 /\ l[1].k = "end" -> [before EXCEPT !.path = Front(@)]
                   [] Len(l) = 1 /\ l[1].k = "start" /\ before.path # TxnPath ->
                        [path |-> path, begun |-> before.begun + (IF path = TxnPath THEN 1 ELSE 0)]
                   [] OTHER -> before
  IN  place

File(version, lines, says) ==
  LET place == Place(lines)
  IN  [size |-> "fits", hasOFX |-> TRUE, version |-> version, lines |-> lines, long |-> 0, says |-> says,
       path |-> [n \in DOMAIN place |-> place[n].path], begun |-> [n \in DOMAIN place |-> place[n].begun]]

Two == <<Entry(f1, Amt("-", 3, <<2, 5>>), Day(8, 0)), Entry(f2, Amt("none", 4, << >>), Day(14, -6))>>
One(a, d) == <<Entry(f1, a, d)>>

Plain1 == File("1", Body("open", "open", 0, Two), Two)
Plain2 == File("2", Body("closed", "closed", 0, Two), Two)

\* Files cut after each line, with a long line, refused at once or without
\* transactions.
Cuts(f) == {File(f.version, SubSeq(f.lines, 1, n), f.says) : n \in DOMAIN f.lines}
Longs(f) == {[f EXCEPT !.long = n] : n \in DOMAIN f.lines}
Bad ==
  {[Plain1 EXCEPT !.size = "big"], [Plain1 EXCEPT !.size = "blank"], [Plain1 EXCEPT !.hasOFX = FALSE],
   File("2", Body("closed", "open", 1, Two), Two), [Plain2 EXCEPT !.version = "none"],
   File("1", Body("open", "open", 0, << >>), << >>)}

\* One leaf of version 1 with a closing tag or with its value below, or one leaf
\* without a value.
Odd ==
  {File("1", Body("open", s, i, Two), Two) : s \in {"closed", "below"}, i \in 1 .. 6}
  \cup {LET says == <<[Two[1] EXCEPT ![x] = << >>], Two[2]>>
        IN  File(v, Body(IF v = "1" THEN "open" ELSE "closed", "open", 0, says), says) :
            x \in Fields, v \in {"1", "2"}}

\* Amounts up to the limit, and dates with every kind of zone.
Written ==
  {Amt(s, w, f) : s \in {"none", "+", "-"}, w \in {0, 9, maxWholePart, maxWholePart + 1},
                  f \in {<< >>, <<5>>, <<0, 5>>, <<2, 4>>, <<2, 3, 9>>, <<4, 5, 5>>, <<4, 5, 4>>}}
  \cup {[Amt("-", 5, <<2, 5>>) EXCEPT !.inner = "-"], [Amt("none", Half + 1, << >>) EXCEPT !.inner = "-"],
         Amt("none", NoDigits, <<5>>), Invalid}
Days == {Day(n, z) : n \in {8, 14, 12}, z \in {0, -6, 11, -7, Invalid}} \cup {Invalid}

MCNames == ToSet(TxnPath) \cup Fields \cup {"SIGNONMSGSRSV1", "LANGUAGE", "DTSTART"}

MCTexts == {f1, f2, n1, m1, kind1, Amt("-", 3, <<2, 5>>), Amt("none", 4, << >>), Day(14, -6)} \cup Written \cup Days

MCFiles ==
  Cuts(Plain1) \cup Cuts(Plain2) \cup Longs(Plain1) \cup Bad \cup Odd
  \cup {File("1", Body("open", "open", 0, One(a, Day(8, 0))), One(a, Day(8, 0))) : a \in Written}
  \cup {File("2", Body("closed", "closed", 0, One(Two[1]["TRNAMT"][1], d)),
             One(Two[1]["TRNAMT"][1], d)) : d \in Days}
===============================================================================
