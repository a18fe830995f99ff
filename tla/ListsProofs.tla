------------------------------ MODULE ListsProofs ------------------------------
(***************************************************************************)
(* What a client gets of a list that it reads page after page, proved for  *)
(* any lists, queries and limits, and any number of commits meanwhile.     *)
(***************************************************************************)
EXTENDS Lists, FiniteSetTheorems, SequenceTheorems, TLAPS

-----------------------------------------------------------------------------
(***************************************************************************)
(* Orders and pages.                                                       *)
(***************************************************************************)

\* What is compared has a time and an id.
Stamped(r) == r.at \in Nat /\ r.id \in Nat

LEMMA RowStamped ==
  ASSUME NEW r \in Row \cup [at : Times, id : Ids]
  PROVE  Stamped(r)
  BY ValuesAssumption DEF Row, Stamped

\* The order is strict, transitive, and total on different ids.
LEMMA NewerOrder ==
  ASSUME NEW r, NEW s, NEW t, Stamped(r), Stamped(s), Stamped(t)
  PROVE  /\ ~Newer(r, r)
         /\ Newer(r, s) => ~Newer(s, r)
         /\ Newer(r, s) /\ Newer(s, t) => Newer(r, t)
         /\ ~Newer(s, r) /\ Newer(s, t) => Newer(r, t)
         /\ r.id # s.id => Newer(r, s) \/ Newer(s, r)
  BY DEF Newer, Stamped

\* Every order of a set has each of its elements once.
LEMMA Ordered ==
  ASSUME NEW R, IsFiniteSet(R), NEW s \in SetToSeqs(R)
  PROVE  /\ Cardinality(R) \in Nat /\ Len(s) = Cardinality(R)
         /\ s \in Seq(R) /\ DOMAIN s = 1 .. Len(s)
         /\ \A j, k \in 1 .. Len(s) : j # k => s[j] # s[k]
         /\ \A r \in R : \E k \in 1 .. Len(s) : s[k] = r
  <1>1. Cardinality(R) \in Nat
    BY FS_CardinalityType
  <1>2. PICK n \in Nat : n = Cardinality(R)
    BY <1>1
  <1>3. s \in [1 .. n -> R] /\ \A j, k \in 1 .. n : j # k => s[j] # s[k]
    BY <1>2 DEF SetToSeqs
  <1>4. s \in Seq(R) /\ Len(s) = n /\ DOMAIN s = 1 .. n
    BY <1>3, LenProperties
  <1>5. s \in Injection(1 .. n, R)
    BY <1>3 DEF Injection, IsInjective
  <1>6. IsFiniteSet(1 .. n) /\ Cardinality(1 .. n) = n
    BY FS_Interval
  <1>7. s \in Surjection(1 .. n, R)
    BY <1>2, <1>5, <1>6, FS_Injection
  <1> QED
    BY <1>1, <1>2, <1>3, <1>4, <1>7 DEF Surjection

\* A limit is at least one row and at most the greatest.
LEMMA LimitBounds ==
  ASSUME query \in Queries
  PROVE  Limit \in Nat /\ 1 <= Limit /\ Limit <= MaxLimit
  <1>1. query.limit \in Int
    BY TablesAssumption DEF Query
  <1> QED
    BY <1>1, LimitsAssumption DEF Limit, CappedLimit, ReplacedLimit

\* A page holds the rows after the offset, as many as the limit allows.
LEMMA CutRows ==
  ASSUME NEW S, NEW s \in Seq(S), NEW offset \in Nat, Limit \in Nat, 1 <= Limit
  PROVE  LET c == Cut(s, offset)
         IN  /\ c \in Seq(S) /\ Len(c) \in Nat /\ Len(c) <= Limit /\ DOMAIN c = 1 .. Len(c)
             /\ \A k \in 1 .. Len(c) : offset + k \in 1 .. Len(s) /\ c[k] = s[offset + k]
             /\ \A k \in 1 .. Len(s) :
                  offset < k /\ k <= offset + Limit => k - offset \in 1 .. Len(c)
             /\ Len(c) < Limit => Len(s) <= offset + Limit
  <1> DEFINE size == IF offset + Limit < Len(s) THEN Limit ELSE Len(s) - offset
  <1>1. PICK c : c = Cut(s, offset) /\ c = [k \in 1 .. size |-> s[offset + k]]
    BY DEF Cut
  <1>2. PICK n \in Nat : n = Len(s)
    BY LenProperties
  <1>3. DOMAIN s = 1 .. n /\ \A k \in 1 .. n : s[k] \in S
    BY <1>2, LenProperties, ElementOfSeq
  <1>4. PICK m \in Nat : 1 .. size = 1 .. m /\ m = IF size < 0 THEN 0 ELSE size
    <2>1. size \in Int
      BY <1>2
    <2> HIDE DEF size
    <2>2. CASE size < 0
      <3>1. 1 .. size = 1 .. 0
        BY <2>1, <2>2
      <3> QED
        BY <2>2, <3>1
    <2>3. CASE ~(size < 0)
      BY <2>1, <2>3
    <2> QED
      BY <2>2, <2>3
  <1>5. \A k \in 1 .. m : offset + k \in 1 .. n
    BY <1>2, <1>4
  <1>6. c \in [1 .. m -> S] /\ \A k \in 1 .. m : c[k] = s[offset + k]
    BY <1>1, <1>3, <1>4, <1>5
  <1>7. c \in Seq(S) /\ Len(c) = m /\ DOMAIN c = 1 .. m
    BY <1>6, LenProperties
  <1>8. m <= Limit /\ (m < Limit => n <= offset + Limit)
    BY <1>2, <1>4
  <1>9. \A k \in 1 .. n : offset < k /\ k <= offset + Limit => k - offset \in 1 .. m
    BY <1>2, <1>4
  <1> QED
    BY <1>1, <1>2, <1>5, <1>6, <1>7, <1>8, <1>9

-----------------------------------------------------------------------------
(***************************************************************************)
(* The table.                                                              *)
(***************************************************************************)

Version == [rows : SUBSET Row, open : BOOLEAN]

\* An id is in a table once.
Distinct(R) == \A r, s \in R : r.id = s.id => r = s

Sound(v) == v \in Version /\ IsFiniteSet(v.rows) /\ Distinct(v.rows)

\* No row leaves a table or changes its time.
Keeps(R, S) == \A r \in R : \E s \in S : s.id = r.id /\ s.at = r.at

\* Statements and accounts are never removed, and keep their times.
LogInv ==
  /\ query \in Queries
  /\ log \in Seq(Version)
  /\ applied \in DOMAIN log
  /\ \A i \in DOMAIN log : Sound(log[i])
  /\ query.kind \in KeysetKinds =>
       \A i, j \in DOMAIN log : i <= j => Keeps(log[i].rows, log[j].rows)

\* Versions are only added, and the reader does not go back.
Advances ==
  /\ query' = query
  /\ DOMAIN log \subseteq DOMAIN log'
  /\ \A i \in DOMAIN log : log'[i] = log[i]
  /\ Reader <= Reader'

LEMMA LogFacts ==
  ASSUME LogInv
  PROVE  /\ Len(log) \in Nat /\ DOMAIN log = 1 .. Len(log) /\ Len(log) \in DOMAIN log
         /\ applied \in Nat /\ Reader \in DOMAIN log /\ Reader \in Nat
         /\ Sound(Current) /\ Sound(log[Reader])
  <1>1. Len(log) \in Nat /\ DOMAIN log = 1 .. Len(log)
    BY LenProperties DEF LogInv
  <1>2. applied \in 1 .. Len(log)
    BY <1>1 DEF LogInv
  <1> QED
    BY <1>1, <1>2 DEF LogInv, Reader, Current

LEMMA QueryFacts ==
  ASSUME NEW q \in Queries
  PROVE  /\ q \in Query /\ q.kind \in Kinds /\ q.of \in Owners
         /\ q.caller \in Owners \cup Ids \cup {Trusted}
         /\ q.follow \in {"cursor", "page"}
         /\ q.follow = "cursor" => q.kind \in KeysetKinds
         /\ q.type # None => q.kind \in TypedKinds
  BY TablesAssumption DEF Query

LEMMA KeepsTrans ==
  ASSUME NEW R, NEW S, NEW T, Keeps(R, S), Keeps(S, T)
  PROVE  Keeps(R, T)
  BY DEF Keeps

\* A commit that loses nothing of a statement or an account.
LEMMA Committed ==
  ASSUME LogInv, NEW v, Commit(v), Sound(v),
         query.kind \in KeysetKinds => Keeps(Current.rows, v.rows)
  PROVE  LogInv' /\ Advances
  <1>1. PICK n \in Nat : n = Len(log)
    BY LogFacts
  <1>2. /\ log \in Seq(Version) /\ n \in 1 .. n /\ DOMAIN log = 1 .. n
        /\ applied \in 1 .. n /\ log' = Append(log, v) /\ v \in Version
        /\ query' = query /\ applied' = applied
    BY <1>1, LogFacts DEF LogInv, Commit, Sound
  <1>3. /\ log' \in Seq(Version) /\ Len(log') = n + 1 /\ DOMAIN log' = 1 .. (n + 1)
        /\ \A i \in 1 .. n : log'[i] = log[i]
        /\ log'[n + 1] = v
    BY <1>1, <1>2, AppendProperties, LenProperties
  <1>4. Advances
    BY <1>1, <1>2, <1>3 DEF Advances, Reader
  <1>5. \A i \in DOMAIN log' : Sound(log'[i])
    <2> TAKE i \in DOMAIN log'
    <2>1. i \in 1 .. n \/ i = n + 1
      BY <1>1, <1>3
    <2> QED
      BY <1>2, <1>3, <2>1 DEF LogInv
  <1>6. ASSUME query.kind \in KeysetKinds, NEW i \in DOMAIN log', NEW j \in DOMAIN log', i <= j
        PROVE  Keeps(log'[i].rows, log'[j].rows)
    <2>1. CASE j \in 1 .. n
      <3>1. i \in 1 .. n
        BY <1>1, <1>3, <1>6, <2>1
      <3> QED
        BY <1>2, <1>3, <1>6, <2>1, <3>1 DEF LogInv
    <2>2. CASE j = n + 1 /\ i \in 1 .. n
      <3>1. Keeps(log[i].rows, log[n].rows) /\ Keeps(log[n].rows, v.rows)
        BY <1>1, <1>2, <1>6, <2>2 DEF LogInv, Current
      <3> QED
        BY <1>2, <1>3, <2>2, <3>1, KeepsTrans
    <2>3. CASE j = n + 1 /\ i = n + 1
      BY <1>3, <2>3 DEF Keeps
    <2> QED
      BY <1>1, <1>3, <2>1, <2>2, <2>3
  <1>7. query' \in Queries /\ applied' \in DOMAIN log'
    BY <1>2, <1>3 DEF LogInv
  <1> QED
    BY SMTT(30), <1>2, <1>3, <1>4, <1>5, <1>6, <1>7 DEF LogInv

Writes ==
  \/ \E row \in Additions[query.kind] : Insert(row)
  \/ \E r \in Current.rows : Relabel(r) \/ Delete(r)
  \/ CloseAccount

\* What other requests commit.
LEMMA Written ==
  ASSUME LogInv, Writes
  PROVE  LogInv' /\ Advances /\ UNCHANGED <<pc, page, cursor, counted, pages, result>>
  <1>0. PICK c : c = Current
    OBVIOUS
  <1>1. /\ c = Current /\ Sound(c) /\ c.rows \subseteq Row /\ c.open \in BOOLEAN
        /\ c \in Version /\ IsFiniteSet(c.rows) /\ Distinct(c.rows)
    BY <1>0, LogFacts DEF Sound, Version
  <1>2. SUFFICES \E v : /\ Commit(v) /\ Sound(v)
                        /\ query.kind \in KeysetKinds => Keeps(c.rows, v.rows)
    BY <1>1, Committed DEF Commit
  <1>3. CASE \E row \in Additions[query.kind] : Insert(row)
    <2>1. PICK row \in Additions[query.kind] : Insert(row)
      BY <1>3
    <2>2. PICK v : v = [c EXCEPT !.rows = c.rows \cup {row}]
      OBVIOUS
    <2>3. Commit(v) /\ \A r \in c.rows : r.id # row.id
      BY <1>1, <2>1, <2>2 DEF Insert
    <2>4. row \in Row
      BY <2>1, QueryFacts, TablesAssumption DEF LogInv
    <2>5. v \in Version /\ v.rows = c.rows \cup {row}
      BY <1>1, <2>2, <2>4 DEF Version
    <2>6. IsFiniteSet(v.rows)
      BY <1>1, <2>5, FS_AddElement
    <2>7. Distinct(v.rows) /\ Keeps(c.rows, v.rows)
      BY <1>1, <2>3, <2>5 DEF Distinct, Keeps
    <2> QED
      BY <2>3, <2>5, <2>6, <2>7 DEF Sound
  <1>4. ASSUME NEW r \in c.rows, NEW s, s \in Row, s.id = r.id, s.at = r.at,
               NEW v, v = [c EXCEPT !.rows = (c.rows \ {r}) \cup {s}], Commit(v)
        PROVE  \E w : /\ Commit(w) /\ Sound(w)
                      /\ query.kind \in KeysetKinds => Keeps(c.rows, w.rows)
    <2>1. v \in Version /\ v.rows = (c.rows \ {r}) \cup {s}
      BY <1>1, <1>4 DEF Version
    <2>2. IsFiniteSet(c.rows \ {r})
      BY <1>1, FS_RemoveElement
    <2>3. IsFiniteSet(v.rows)
      BY <2>1, <2>2, FS_AddElement
    <2>4. Distinct(v.rows)
      BY <1>1, <1>4, <2>1 DEF Distinct
    <2>5. Keeps(c.rows, v.rows)
      BY <1>1, <1>4, <2>1 DEF Keeps
    <2> QED
      BY <1>4, <2>1, <2>3, <2>4, <2>5 DEF Sound
  <1>5. ASSUME NEW r \in Current.rows, Relabel(r)
        PROVE  \E v : /\ Commit(v) /\ Sound(v)
                      /\ query.kind \in KeysetKinds => Keeps(c.rows, v.rows)
    <2>1. PICK l \in Labels :
            Commit([c EXCEPT !.rows = (c.rows \ {r}) \cup {[r EXCEPT !.label = l]}])
      BY <1>1, <1>5 DEF Relabel
    <2>2. PICK s : s = [r EXCEPT !.label = l]
      OBVIOUS
    <2>3. r \in Row /\ r \in c.rows
      BY <1>1, <1>5
    <2>4. s \in Row /\ s.id = r.id /\ s.at = r.at
      BY <2>2, <2>3 DEF Row
    <2> QED
      BY <1>4, <2>1, <2>2, <2>3, <2>4
  <1>6. ASSUME NEW r \in Current.rows, Delete(r)
        PROVE  \E v : /\ Commit(v) /\ Sound(v)
                      /\ query.kind \in KeysetKinds => Keeps(c.rows, v.rows)
    <2>1. r \in Row /\ r \in c.rows
      BY <1>1, <1>6
    <2>2. CASE query.kind \in {"accounts", "users"}
      <3>1. PICK s : s = [r EXCEPT !.active = FALSE]
        OBVIOUS
      <3>2. Commit([c EXCEPT !.rows = (c.rows \ {r}) \cup {s}])
        BY <1>1, <1>6, <2>2, <3>1 DEF Delete
      <3>3. s \in Row /\ s.id = r.id /\ s.at = r.at
        BY <2>1, <3>1 DEF Row
      <3> QED
        BY <1>4, <2>1, <3>2, <3>3
    <2>3. CASE query.kind \in {"roles", "categories", "tags"}
      <3>1. PICK v : v = [c EXCEPT !.rows = c.rows \ {r}]
        OBVIOUS
      <3>2. Commit(v)
        BY <1>1, <1>6, <2>3, <3>1 DEF Delete
      <3>3. v \in Version /\ v.rows = c.rows \ {r}
        BY <1>1, <3>1 DEF Version
      <3>4. IsFiniteSet(v.rows)
        BY <1>1, <3>3, FS_RemoveElement
      <3>5. Distinct(v.rows)
        BY <1>1, <3>3 DEF Distinct
      <3>6. query.kind \notin KeysetKinds
        BY <2>3 DEF KeysetKinds
      <3> QED
        BY <3>2, <3>3, <3>4, <3>5, <3>6 DEF Sound
    <2>4. query.kind # "statements"
      BY <1>6 DEF Delete
    <2>5. query.kind \in Kinds
      BY QueryFacts DEF LogInv
    <2> QED
      BY <2>2, <2>3, <2>4, <2>5 DEF Kinds
  <1>7. CASE CloseAccount
    <2>1. PICK v : v = [c EXCEPT !.open = FALSE]
      OBVIOUS
    <2>2. Commit(v)
      BY <1>1, <1>7, <2>1 DEF CloseAccount
    <2>3. v \in Version /\ v.rows = c.rows
      BY <1>1, <2>1 DEF Version
    <2>4. Keeps(c.rows, v.rows)
      BY <2>3 DEF Keeps
    <2> QED
      BY <1>1, <2>2, <2>3, <2>4 DEF Sound
  <1> QED
    BY <1>3, <1>5, <1>6, <1>7 DEF Writes

-----------------------------------------------------------------------------
(***************************************************************************)
(* The pages.                                                              *)
(***************************************************************************)

WalkedKinds == KeysetKinds \cup {"users", "roles"}

\* Does the client see only itself?
Self == query.kind = "users" /\ query.caller # Trusted

\* Statements are the caller's own.
Own == query.kind = "statements" => query.caller \in {Trusted, HolderOf[query.of]}

Page == [rows : Seq(Row), counted : Nat, selected : Nat, total : Nat]

\* A page is of the version it was selected in, which is not older than the
\* one it was counted in.
PageOK(i) ==
  /\ pages[i].counted \in DOMAIN log /\ pages[i].selected \in DOMAIN log
  /\ pages[i].counted <= pages[i].selected /\ pages[i].selected <= Reader
  /\ Range(pages[i].rows) \subseteq log[pages[i].selected].rows
  /\ Self => /\ Len(pages[i].rows) <= 1 /\ query.caller \in Ids
             /\ \A r \in Range(pages[i].rows) : r.id = query.caller
  /\ ~Self => /\ Range(pages[i].rows) \subseteq Matching(pages[i].selected)
              /\ pages[i].total = Cardinality(Matching(pages[i].counted))
              /\ query.kind \in WalkedKinds => Len(pages[i].rows) <= Limit

\* What was counted for the next page is not older than the last page.
CountOK ==
  /\ counted.at \in DOMAIN log /\ counted.at <= Reader
  /\ counted.total = Cardinality(Matching(counted.at))
  /\ \A i \in DOMAIN pages : pages[i].selected <= counted.at

WalkInv ==
  /\ LogInv
  /\ pc \in {"idle", "count", "select", "done"}
  /\ page \in Nat \ {0}
  /\ cursor \in {None} \cup [at : Times, id : Ids]
  /\ pc # "done" => result = "none"
  /\ result = "ok" => pages # << >>
  /\ pc \in {"count", "select"} => query.kind \in WalkedKinds /\ ~Self /\ Own
  /\ pages # << >> => Own
  /\ pc = "select" => CountOK
  /\ pages \in Seq(Page)
  /\ \A i \in DOMAIN pages : PageOK(i)
  /\ \A i, j \in DOMAIN pages : i < j => pages[i].selected <= pages[j].counted

LEMMA MatchingFacts ==
  ASSUME LogInv, NEW i \in DOMAIN log
  PROVE  /\ Matching(i) \subseteq log[i].rows /\ log[i].rows \subseteq Row
         /\ Distinct(log[i].rows) /\ Distinct(Matching(i))
         /\ IsFiniteSet(Matching(i)) /\ Cardinality(Matching(i)) \in Nat
  <1>1. Matching(i) \subseteq log[i].rows
    BY DEF Matching
  <1>2. log[i].rows \subseteq Row /\ IsFiniteSet(log[i].rows) /\ Distinct(log[i].rows)
    BY DEF LogInv, Sound, Version
  <1>3. IsFiniteSet(Matching(i))
    BY <1>1, <1>2, FS_Subset
  <1>4. Cardinality(Matching(i)) \in Nat
    BY <1>3, FS_CardinalityType
  <1>5. Distinct(Matching(i))
    BY <1>1, <1>2 DEF Distinct
  <1> QED
    BY <1>1, <1>2, <1>3, <1>4, <1>5

\* What matches does not change, for a version that was there.
LEMMA MatchingKept ==
  ASSUME Advances, NEW i \in DOMAIN log
  PROVE  Matching(i)' = Matching(i)
  <1>1. ASSUME NEW r PROVE Matches(r)' <=> Matches(r)
    BY DEF Advances, Matches, StatementMatches, AccountMatches, UserMatches, RoleMatches,
           CategoryMatches, TagMatches
  <1>2. log'[i] = log[i]
    BY DEF Advances
  <1> QED
    BY <1>1, <1>2 DEF Matching

LEMMA QueryKept ==
  ASSUME query' = query
  PROVE  (Self' <=> Self) /\ (Own' <=> Own) /\ Limit' = Limit
  BY DEF Self, Own, Limit

LEMMA PageKept ==
  ASSUME LogInv, LogInv', Advances, NEW i \in DOMAIN pages, PageOK(i), pages'[i] = pages[i]
  PROVE  PageOK(i)'
  <1>1. /\ query' = query /\ DOMAIN log \subseteq DOMAIN log' /\ Reader <= Reader'
        /\ \A k \in DOMAIN log : log'[k] = log[k]
    BY DEF Advances
  <1>2. /\ pages[i].counted \in DOMAIN log /\ pages[i].selected \in DOMAIN log
        /\ pages[i].counted \in Nat /\ pages[i].selected \in Nat
        /\ Reader \in Nat /\ Reader' \in Nat
    BY LogFacts DEF PageOK, LogInv, Reader
  <1>3. /\ Matching(pages[i].selected)' = Matching(pages[i].selected)
        /\ Matching(pages[i].counted)' = Matching(pages[i].counted)
    <2>1. /\ \A k \in DOMAIN log : Matching(k)' = Matching(k)
      BY MatchingKept
    <2> QED
      BY <1>2, <2>1
  <1>4. /\ pages'[i].counted \in DOMAIN log' /\ pages'[i].selected \in DOMAIN log'
        /\ pages'[i].counted <= pages'[i].selected /\ pages'[i].selected <= Reader'
    BY <1>1, <1>2 DEF PageOK
  <1>5. Range(pages'[i].rows) \subseteq log'[pages'[i].selected].rows
    BY <1>1, <1>2 DEF PageOK
  <1> QED
    BY <1>1, <1>3, <1>4, <1>5, QueryKept DEF PageOK

-----------------------------------------------------------------------------
(***************************************************************************)
(* The steps.                                                              *)
(***************************************************************************)

\* A step that gives the client nothing.
Carries ==
  /\ Advances
  /\ UNCHANGED <<page, cursor, pages>>
  /\ result' \in {"ok", "none"} => result' = result

\* A whole list in one answer.
AnswersAll ==
  /\ pc = "idle"
  /\ \E R : /\ AnswerAll(R)
            /\ \/ Self /\ R # {} /\ R = {r \in log[Reader].rows : r.id = query.caller}
               \/ query.kind \in {"categories", "tags"} /\ R = Matching(Reader)

\* A page of one of the orders of what is asked for.
AnswersPage(R, s, offset) ==
  /\ pc = "select" /\ R \subseteq Matching(Reader)
  /\ s \in SetToSeqs(R) /\ offset \in Nat
  /\ Answer(Cut(s, offset))

LEMMA Carried ==
  ASSUME WalkInv, LogInv', Carries,
         pc' \in {"idle", "count", "select", "done"},
         pc' # "done" => result' = "none",
         pc' \in {"count", "select"} => query.kind \in WalkedKinds /\ ~Self /\ Own,
         pc' = "select" => CountOK'
  PROVE  WalkInv'
  <1>1. \A i \in DOMAIN pages : PageOK(i)'
    BY PageKept DEF WalkInv, Carries
  <1>2. (Self' <=> Self) /\ (Own' <=> Own) /\ query' = query
    BY QueryKept DEF Carries, Advances
  <1> QED
    BY <1>1, <1>2 DEF WalkInv, Carries

\* The count of a page stays what it was when others commit.
LEMMA CountKept ==
  ASSUME WalkInv, LogInv', Advances, CountOK, UNCHANGED <<counted, pages>>
  PROVE  CountOK'
  <1>1. Matching(counted.at)' = Matching(counted.at)
    <2>1. \A k \in DOMAIN log : Matching(k)' = Matching(k)
      BY MatchingKept
    <2> QED
      BY <2>1 DEF CountOK
  <1>2. counted.at \in Nat /\ Reader \in Nat /\ Reader' \in Nat /\ Reader <= Reader'
    <2>1. \A k \in DOMAIN log : k \in Nat
      BY LogFacts DEF WalkInv
    <2>2. Reader' \in Nat
      BY LenProperties DEF LogInv, Reader
    <2> QED
      BY <2>1, <2>2, LogFacts DEF WalkInv, CountOK, Advances
  <1> QED
    BY <1>1, <1>2 DEF CountOK, Advances

LEMMA StillReading ==
  ASSUME WalkInv, UNCHANGED <<log, applied, query>>
  PROVE  LogInv' /\ Advances
  BY LogFacts DEF WalkInv, LogInv, Advances, Reader

LEMMA Asked ==
  ASSUME WalkInv, ListStatements \/ ListAccounts \/ ListUsers \/ ListRoles
  PROVE  WalkInv' /\ Carries
  <1>1. \/ Proceed /\ query.kind \in WalkedKinds /\ ~Self /\ Own
        \/ Refuse("ErrStatementNotFound") \/ Refuse("ErrAccountNotFound")
    <2>1. CASE ListStatements
      <3>1. query.kind = "statements"
        BY <2>1 DEF ListStatements, Ask
      <3>2. query.kind \in WalkedKinds /\ ~Self
        BY <3>1 DEF WalkedKinds, KeysetKinds, Self
      <3> QED
        BY <2>1, <3>2 DEF ListStatements, Own
    <2>2. CASE ListAccounts \/ ListUsers \/ ListRoles
      BY <2>2
      DEF ListAccounts, ListUsers, ListRoles, Ask, WalkedKinds, KeysetKinds, Self, Own
    <2> QED
      BY <2>1, <2>2
  <1>2. /\ UNCHANGED <<log, applied, query, page, cursor, counted, pages>>
        /\ \/ /\ pc' = "count" /\ result' = result
              /\ query.kind \in WalkedKinds /\ ~Self /\ Own
           \/ pc' = "done" /\ result' \notin {"ok", "none"}
    BY <1>1 DEF Proceed, Refuse, Stop
  <1>3. pc = "idle"
    BY DEF ListStatements, ListAccounts, ListUsers, ListRoles, Ask
  <1>4. result = "none"
    BY <1>3 DEF WalkInv
  <1>5. LogInv' /\ Advances
    BY <1>2, StillReading
  <1>6. Carries
    BY <1>2, <1>5 DEF Carries
  <1> QED
    BY <1>1, <1>2, <1>4, <1>5, <1>6, Carried

LEMMA Refused ==
  ASSUME WalkInv, NEW answer, answer \notin {"ok", "none"}, Refuse(answer)
  PROVE  WalkInv' /\ Carries
  <1>1. /\ UNCHANGED <<log, applied, query, page, cursor, counted, pages>>
        /\ pc' = "done" /\ result' = answer
    BY DEF Refuse, Stop
  <1>2. LogInv' /\ Advances
    BY <1>1, StillReading
  <1>3. Carries
    BY <1>1, <1>2 DEF Carries
  <1> QED
    BY <1>1, <1>2, <1>3, Carried

LEMMA Counts ==
  ASSUME WalkInv, Count
  PROVE  WalkInv' /\ Carries
  <1>1. /\ UNCHANGED <<log, applied, query, page, cursor, pages, result>>
        /\ pc = "count" /\ pc' = "select"
        /\ counted' = [total |-> Cardinality(Matching(Reader)), at |-> Reader]
    BY DEF Count
  <1>2. LogInv' /\ Advances
    BY <1>1, StillReading
  <1>3. Carries
    BY <1>1, <1>2 DEF Carries
  <1>4. Reader' = Reader /\ Reader \in DOMAIN log /\ Reader \in Nat
    BY <1>1, LogFacts DEF WalkInv, Reader
  <1>5. Matching(Reader)' = Matching(Reader)
    <2>1. \A k \in DOMAIN log : Matching(k)' = Matching(k)
      BY <1>2, MatchingKept
    <2> QED
      BY <1>4, <2>1
  <1>6. CountOK'
    BY <1>1, <1>4, <1>5 DEF CountOK, WalkInv, PageOK
  <1> QED
    BY <1>1, <1>2, <1>3, <1>6, Carried DEF WalkInv

LEMMA Fails ==
  ASSUME WalkInv, Fail
  PROVE  WalkInv' /\ Carries
  <1>1. /\ UNCHANGED <<log, applied, query, page, cursor, counted, pages, result>>
        /\ pc # "done" /\ pc' = "idle"
    BY DEF Fail
  <1>2. LogInv' /\ Advances
    BY <1>1, StillReading
  <1>3. Carries
    BY <1>1, <1>2 DEF Carries
  <1> QED
    BY <1>1, <1>2, <1>3, Carried DEF WalkInv

LEMMA WritesCarry ==
  ASSUME WalkInv, Writes \/ Replicate \/ UNCHANGED vars
  PROVE  WalkInv' /\ Carries
  <1>1. LogInv' /\ Advances /\ UNCHANGED <<pc, page, cursor, counted, pages, result>>
    <2>1. CASE Writes
      BY <2>1, Written DEF WalkInv
    <2>2. CASE Replicate
      BY <2>2, LogFacts DEF WalkInv, LogInv, Advances, Reader, Replicate
    <2>3. CASE UNCHANGED vars
      BY <2>3, StillReading DEF vars
    <2> QED
      BY <2>1, <2>2, <2>3
  <1>2. Carries
    BY <1>1 DEF Carries
  <1>3. pc' = "select" => CountOK'
    BY <1>1, CountKept DEF WalkInv
  <1> QED
    BY <1>1, <1>2, <1>3, Carried DEF WalkInv

\* What the client has after another page.
LEMMA PageAdded ==
  ASSUME pages \in Seq(Page), NEW p \in Page, pages' = Append(pages, p)
  PROVE  /\ Len(pages) \in Nat /\ DOMAIN pages = 1 .. Len(pages)
         /\ pages' \in Seq(Page) /\ Len(pages') = Len(pages) + 1
         /\ DOMAIN pages' = 1 .. (Len(pages) + 1)
         /\ \A i \in 1 .. Len(pages) : pages'[i] = pages[i]
         /\ pages'[Len(pages) + 1] = p
         /\ pages' # << >>
  <1>1. /\ Len(pages) \in Nat /\ DOMAIN pages = 1 .. Len(pages)
        /\ pages' \in Seq(Page) /\ Len(pages') = Len(pages) + 1
        /\ DOMAIN pages' = 1 .. (Len(pages) + 1)
        /\ \A i \in 1 .. Len(pages) : pages'[i] = pages[i]
        /\ pages'[Len(pages) + 1] = p
    BY AppendProperties, LenProperties
  <1>2. Len(pages') # 0
    BY <1>1
  <1> QED
    BY <1>1, <1>2, LenProperties

\* s is all of R, and c is the page of it after offset.
IsCut(R, s, offset, c) ==
  /\ IsFiniteSet(R) /\ R \subseteq Row
  /\ Limit \in Nat /\ 1 <= Limit /\ Limit <= MaxLimit
  /\ c \in Seq(Row) /\ Len(c) \in Nat /\ Len(c) <= Limit /\ DOMAIN c = 1 .. Len(c)
  /\ Range(c) \subseteq R
  /\ Len(s) = Cardinality(R) /\ Len(s) \in Nat /\ DOMAIN s = 1 .. Len(s)
  /\ \A k \in 1 .. Len(s) : s[k] \in R
  /\ \A j, k \in 1 .. Len(s) : j # k => s[j] # s[k]
  /\ \A r \in R : \E k \in 1 .. Len(s) : s[k] = r
  /\ \A k \in 1 .. Len(c) : offset + k \in 1 .. Len(s) /\ c[k] = s[offset + k]
  /\ \A k \in 1 .. Len(s) :
       offset < k /\ k <= offset + Limit => k - offset \in 1 .. Len(c)
  /\ Len(c) < Limit => Len(s) <= offset + Limit

\* What a page is cut from.
LEMMA CutFrom ==
  ASSUME WalkInv, NEW R, NEW s, NEW offset, AnswersPage(R, s, offset)
  PROVE  IsCut(R, s, offset, Cut(s, offset))
  <1>1. PICK c : c = Cut(s, offset)
    OBVIOUS
  <1>2. R \subseteq Matching(Reader) /\ s \in SetToSeqs(R) /\ offset \in Nat
    BY DEF AnswersPage
  <1>3. IsFiniteSet(Matching(Reader)) /\ Matching(Reader) \subseteq Row
    BY MatchingFacts, LogFacts DEF WalkInv
  <1>4. IsFiniteSet(R) /\ R \subseteq Row
    BY <1>2, <1>3, FS_Subset
  <1>5. /\ Cardinality(R) \in Nat /\ Len(s) = Cardinality(R) /\ s \in Seq(R)
        /\ DOMAIN s = 1 .. Len(s)
        /\ \A j, k \in 1 .. Len(s) : j # k => s[j] # s[k]
        /\ \A r \in R : \E k \in 1 .. Len(s) : s[k] = r
    BY <1>2, <1>4, Ordered
  <1>6. Limit \in Nat /\ 1 <= Limit /\ Limit <= MaxLimit
    BY LimitBounds DEF WalkInv, LogInv
  <1>7. /\ c \in Seq(R) /\ Len(c) \in Nat /\ Len(c) <= Limit /\ DOMAIN c = 1 .. Len(c)
        /\ \A k \in 1 .. Len(c) : offset + k \in 1 .. Len(s) /\ c[k] = s[offset + k]
        /\ \A k \in 1 .. Len(s) : offset < k /\ k <= offset + Limit => k - offset \in 1 .. Len(c)
        /\ Len(c) < Limit => Len(s) <= offset + Limit
    <2>1. s \in Seq(R) /\ offset \in Nat /\ Limit \in Nat /\ 1 <= Limit
      BY <1>2, <1>5, <1>6
    <2> QED
      BY ZenonT(40), <1>1, <2>1, CutRows
  <1>8. \A k \in 1 .. Len(s) : s[k] \in R
    BY <1>5, ElementOfSeq
  <1>9. Range(c) \subseteq R
    BY <1>7, <1>8 DEF Range
  <1>10. c \in Seq(Row)
    BY <1>4, <1>7, SeqMonotonic
  <1> QED
    BY <1>1, <1>4, <1>5, <1>6, <1>7, <1>8, <1>9, <1>10 DEF IsCut

\* A page: what Answer does, all but the end.
LEMMA Answers ==
  ASSUME WalkInv, NEW R, NEW s, NEW offset, AnswersPage(R, s, offset),
         NEW p, p = [rows |-> Cut(s, offset), counted |-> counted.at, selected |-> Reader,
                     total |-> counted.total]
  PROVE  /\ WalkInv' /\ Advances /\ UNCHANGED <<log, applied, query>>
         /\ p \in Page /\ pages' = Append(pages, p)
  <1>1. PICK c : c = Cut(s, offset)
    OBVIOUS
  <1>2. /\ pages' = Append(pages, p) /\ UNCHANGED <<log, applied, query, counted>>
        /\ pc = "select" /\ pc' \in {"idle", "done"}
        /\ cursor' \in {cursor, NextCursor(c)} /\ page' \in {page, page + 1}
        /\ pc' # "done" => result' = result
    BY <1>1 DEF AnswersPage, Answer, Stop
  <1>3. /\ R \subseteq Row /\ c \in Seq(Row) /\ Range(c) \subseteq R
        /\ Len(c) \in Nat /\ Len(c) <= Limit /\ Limit \in Nat /\ 1 <= Limit
        /\ R \subseteq Matching(Reader) /\ DOMAIN c = 1 .. Len(c)
    BY <1>1, CutFrom DEF AnswersPage, IsCut
  <1>4. LogInv' /\ Advances
    BY <1>2, StillReading
  <1>5. /\ Own /\ ~Self /\ query.kind \in WalkedKinds /\ CountOK /\ result = "none"
        /\ LogInv /\ pages \in Seq(Page) /\ page \in Nat \ {0}
    BY <1>2 DEF WalkInv
  <1>6. /\ Reader \in DOMAIN log /\ Reader \in Nat /\ Reader' = Reader
        /\ counted.at \in DOMAIN log /\ counted.at \in Nat /\ counted.at <= Reader
        /\ counted.total = Cardinality(Matching(counted.at)) /\ counted.total \in Nat
    BY <1>2, <1>5, LogFacts, MatchingFacts DEF CountOK, Reader
  <1>7. p \in Page
    BY <1>1, <1>3, <1>6 DEF Page
  <1>8. PICK n \in Nat : n = Len(pages)
    BY <1>5, LenProperties
  <1>9. /\ DOMAIN pages = 1 .. n
        /\ pages' \in Seq(Page) /\ DOMAIN pages' = 1 .. (n + 1)
        /\ \A i \in 1 .. n : pages'[i] = pages[i]
        /\ pages'[n + 1] = p /\ pages' # << >>
    BY <1>2, <1>5, <1>7, <1>8, PageAdded
  <1>10. \A i \in DOMAIN pages : PageOK(i)'
    BY <1>4, <1>5, <1>9, PageKept DEF WalkInv
  <1>11. PageOK(n + 1)'
    <2>1. /\ p.rows = c /\ p.counted = counted.at /\ p.selected = Reader
          /\ p.total = counted.total
      BY <1>1
    <2>2. \A k \in DOMAIN log : Matching(k)' = Matching(k)
      BY <1>4, MatchingKept
    <2>3. Matching(Reader) \subseteq log[Reader].rows
      BY DEF Matching
    <2>4. (Self' <=> Self) /\ Limit' = Limit
      BY <1>2, QueryKept
    <2>5. /\ Matching(pages[n + 1].selected)' = Matching(Reader)
          /\ Matching(pages[n + 1].counted)' = Matching(counted.at)
      <3>1. pages'[n + 1].selected = Reader /\ pages'[n + 1].counted = counted.at
        BY <1>9, <2>1
      <3> QED
        BY <1>6, <2>2, <3>1 DEF Matching
    <2> QED
      BY <1>2, <1>3, <1>5, <1>6, <1>9, <2>1, <2>3, <2>4, <2>5 DEF PageOK
  <1>12. \A i \in DOMAIN pages' : PageOK(i)'
    BY <1>9, <1>10, <1>11
  <1>13. ASSUME NEW i \in DOMAIN pages', NEW j \in DOMAIN pages', i < j
         PROVE  pages'[i].selected <= pages'[j].counted
    <2>1. CASE j \in 1 .. n
      <3>1. i \in 1 .. n
        BY <1>9, <1>13, <2>1
      <3> QED
        BY <1>9, <1>13, <2>1, <3>1 DEF WalkInv
    <2>2. CASE j = n + 1
      <3>1. i \in 1 .. n
        BY <1>9, <1>13, <2>2
      <3>2. pages[i].selected <= counted.at
        BY <1>5, <1>9, <3>1 DEF CountOK
      <3> QED
        BY <1>9, <2>2, <3>1, <3>2
    <2> QED
      BY <1>9, <2>1, <2>2
  <1>14. cursor' \in {None} \cup [at : Times, id : Ids]
    <2>1. ASSUME Len(c) = Limit
          PROVE  [at |-> c[Len(c)].at, id |-> c[Len(c)].id] \in [at : Times, id : Ids]
      <3>1. c[Len(c)] \in Row
        BY <1>3, <2>1, ElementOfSeq
      <3> QED
        BY <3>1 DEF Row
    <2>2. NextCursor(c) \in {None} \cup [at : Times, id : Ids]
      BY <2>1 DEF NextCursor
    <2> QED
      BY <1>2, <2>2 DEF WalkInv
  <1>15. page' \in Nat \ {0} /\ (Own' <=> Own)
    BY <1>2, <1>5, QueryKept
  <1> QED
    BY <1>2, <1>4, <1>5, <1>7, <1>9, <1>12, <1>13, <1>14, <1>15 DEF WalkInv

\* A sequence of a finite set has all its elements.
LEMMA SequenceOf ==
  ASSUME NEW R, IsFiniteSet(R)
  PROVE  /\ SetToSeq(R) \in Seq(R) /\ Len(SetToSeq(R)) = Cardinality(R)
         /\ Range(SetToSeq(R)) \subseteq R
  <1>1. PICK n \in Nat : n = Cardinality(R)
    BY FS_CardinalityType
  <1>2. \E f \in [1 .. n -> R] : IsInjective(f)
    BY <1>1, FS_CardinalityType DEF ExistsBijection, Bijection, Injection
  <1>3. SetToSeq(R) \in [1 .. n -> R]
    BY <1>1, <1>2 DEF SetToSeq
  <1>4. SetToSeq(R) \in Seq(R) /\ Len(SetToSeq(R)) = n /\ DOMAIN SetToSeq(R) = 1 .. n
    BY <1>3, LenProperties
  <1> QED
    BY <1>1, <1>3, <1>4 DEF Range

LEMMA AnsweredAll ==
  ASSUME WalkInv, AnswersAll
  PROVE  WalkInv' /\ Advances
  <1>1. PICK R : /\ AnswerAll(R)
                 /\ \/ Self /\ R # {} /\ R = {r \in log[Reader].rows : r.id = query.caller}
                    \/ query.kind \in {"categories", "tags"} /\ R = Matching(Reader)
    BY DEF AnswersAll
  <1>2. PICK p : p = [rows |-> SetToSeq(R), counted |-> Reader, selected |-> Reader,
                      total |-> Cardinality(R)]
    OBVIOUS
  <1>3. /\ pages' = <<p>> /\ pc' = "done" /\ result' = "ok"
        /\ UNCHANGED <<log, applied, query, page, cursor, counted>>
    BY <1>1, <1>2 DEF AnswerAll, Stop
  <1>4. LogInv' /\ Advances
    BY <1>3, StillReading
  <1>5. /\ Reader \in DOMAIN log /\ Reader \in Nat /\ Reader' = Reader /\ LogInv
        /\ Matching(Reader) \subseteq log[Reader].rows /\ log[Reader].rows \subseteq Row
        /\ Distinct(log[Reader].rows) /\ IsFiniteSet(log[Reader].rows)
    BY <1>3, LogFacts, MatchingFacts DEF WalkInv, Reader, Sound
  <1>6. R \subseteq log[Reader].rows /\ R \subseteq Row
    BY <1>1, <1>5
  <1>7. IsFiniteSet(R) /\ Cardinality(R) \in Nat
    BY <1>5, <1>6, FS_Subset, FS_CardinalityType
  <1>8. /\ p.rows \in Seq(Row) /\ Len(p.rows) = Cardinality(R) /\ Range(p.rows) \subseteq R
        /\ p.counted = Reader /\ p.selected = Reader /\ p.total = Cardinality(R)
    BY <1>2, <1>6, <1>7, SequenceOf, SeqMonotonic
  <1>9. p \in Page
    BY <1>2, <1>5, <1>7, <1>8 DEF Page
  <1>10. /\ pages' \in Seq(Page) /\ DOMAIN pages' = {1} /\ pages'[1] = p /\ pages' # << >>
    BY <1>3, <1>9
  <1>11. Self => Cardinality(R) <= 1
    <2>1. CASE R = {}
      BY <2>1, FS_EmptySet
    <2>2. ASSUME NEW r \in R, Self
          PROVE  Cardinality(R) <= 1
      <3>1. query.kind = "users"
        BY <2>2 DEF Self
      <3>2. R = {r}
        BY <1>1, <1>5, <2>2, <3>1 DEF Distinct
      <3> QED
        BY <3>2, FS_Singleton
    <2> QED
      BY <2>1, <2>2
  <1>12. Self => query.caller \in Ids /\ \A r \in R : r.id = query.caller
    BY <1>1, <1>6 DEF Self, Row
  <1>13. ~Self => R = Matching(Reader) /\ query.kind \notin WalkedKinds
    BY <1>1 DEF WalkedKinds, KeysetKinds
  <1>14. PageOK(1)'
    <2>1. \A k \in DOMAIN log : Matching(k)' = Matching(k)
      BY <1>4, MatchingKept
    <2>2. (Self' <=> Self) /\ Limit' = Limit
      BY <1>3, QueryKept
    <2>3. pages'[1].selected = Reader /\ pages'[1].counted = Reader
      BY <1>8, <1>10
    <2>4. /\ Matching(pages[1].selected)' = Matching(Reader)
          /\ Matching(pages[1].counted)' = Matching(Reader)
      BY <1>5, <2>1, <2>3 DEF Matching
    <2> QED
      BY <1>3, <1>5, <1>6, <1>8, <1>10, <1>11, <1>12, <1>13, <2>2, <2>4 DEF PageOK
  <1>15. Own'
    <2>1. query.kind # "statements"
      BY <1>1 DEF Self
    <2> QED
      BY <1>3, <2>1 DEF Own
  <1> QED
    BY <1>3, <1>4, <1>10, <1>14, <1>15 DEF WalkInv

\* Every step gives nothing, the whole list, or a page of an order of it.
LEMMA StepShapes ==
  ASSUME WalkInv, [Next]_vars
  PROVE  /\ WalkInv' /\ Advances
         /\ \/ Carries
            \/ AnswersAll
            \/ /\ query.kind \in KeysetKinds
               /\ LET found == {r \in Matching(Reader) : AfterCursor(r)}
                  IN  \E s \in KeysetOrders(found) :
                        AnswersPage(found, s, IF cursor = None THEN Offset ELSE 0)
            \/ /\ query.kind \in {"users", "roles"}
               /\ \E s \in LooseOrders(Matching(Reader)) :
                    AnswersPage(Matching(Reader), s, Offset)
  <1>1. CASE ListStatements \/ ListAccounts \/ ListUsers \/ ListRoles
    BY <1>1, Asked DEF Carries
  <1>2. CASE ListSelf \/ ListCategories \/ ListTags
    <2>1. AnswersAll \/ Refuse("ErrUserNotFound") \/ Refuse("invalid")
      BY <1>2 DEF ListSelf, ListCategories, ListTags, Ask, AnswersAll, Self
    <2> QED
      BY <2>1, Refused, AnsweredAll DEF Carries
  <1>3. CASE Count \/ Fail
    BY <1>3, Counts, Fails DEF Carries
  <1>4. Offset \in Nat
    <2>1. Limit \in Nat /\ page \in Nat \ {0}
      BY LimitBounds DEF WalkInv, LogInv
    <2>2. \A m, n \in Nat : m * n \in Nat
      OBVIOUS
    <2>3. page - 1 \in Nat
      BY <2>1
    <2> QED
      BY <2>1, <2>2, <2>3 DEF Offset
  <1>5. CASE SelectStatements \/ SelectAccounts
    <2>1. PICK found : found = {r \in Matching(Reader) : AfterCursor(r)}
      OBVIOUS
    <2>2. PICK s \in KeysetOrders(found) :
            Answer(Cut(s, IF cursor = None THEN Offset ELSE 0))
      BY <1>5, <2>1 DEF SelectStatements, SelectAccounts, SelectByKeyset
    <2>3. s \in SetToSeqs(found) /\ (IF cursor = None THEN Offset ELSE 0) \in Nat
      BY <1>4, <2>2 DEF KeysetOrders
    <2>4. pc = "select" /\ query.kind \in KeysetKinds
      BY <1>5 DEF SelectStatements, SelectAccounts, KeysetKinds
    <2>5. AnswersPage(found, s, IF cursor = None THEN Offset ELSE 0)
      BY <2>1, <2>2, <2>3, <2>4 DEF AnswersPage
    <2> QED
      BY <2>1, <2>2, <2>4, <2>5, Answers
  <1>6. CASE SelectUsers \/ SelectRoles
    <2>1. PICK s \in LooseOrders(Matching(Reader)) : Answer(Cut(s, Offset))
      BY <1>6 DEF SelectUsers, SelectRoles, SelectByOffset
    <2>2. s \in SetToSeqs(Matching(Reader))
      BY <2>1 DEF LooseOrders
    <2>3. pc = "select" /\ query.kind \in {"users", "roles"}
      BY <1>6 DEF SelectUsers, SelectRoles
    <2>4. AnswersPage(Matching(Reader), s, Offset)
      BY <1>4, <2>1, <2>2, <2>3 DEF AnswersPage
    <2> QED
      BY <2>1, <2>3, <2>4, Answers
  <1>7. CASE Writes \/ Replicate \/ Quiescent \/ UNCHANGED vars
    BY <1>7, WritesCarry DEF Carries, Quiescent
  <1> QED
    BY <1>1, <1>2, <1>3, <1>5, <1>6, <1>7 DEF Next, Serve, Writes

LEMMA WalkInvariant == Spec => []WalkInv
  <1>1. Init => WalkInv
    <2> SUFFICES ASSUME Init PROVE WalkInv
      OBVIOUS
    <2>1. PICK v : v = [rows |-> Seeds[query.kind], open |-> TRUE]
      OBVIOUS
    <2>2. log = <<v>> /\ query \in Queries /\ query.kind \in Kinds
      BY <2>1, QueryFacts DEF Init
    <2>3. v \in Version /\ Sound(v)
      BY <2>1, <2>2, TablesAssumption DEF Version, Sound, Distinct
    <2>4. log \in Seq(Version) /\ DOMAIN log = {1} /\ log[1] = v
      BY <2>2, <2>3
    <2>5. LogInv
      BY <2>2, <2>3, <2>4 DEF LogInv, Init, Keeps
    <2> QED
      BY <2>5 DEF WalkInv, Init
  <1>2. WalkInv /\ [Next]_vars => WalkInv'
    BY StepShapes
  <1> QED
    BY <1>1, <1>2, PTL DEF Spec

-----------------------------------------------------------------------------
(***************************************************************************)
(* What a client may see.                                                  *)
(***************************************************************************)

\* What matches is of the client's own, or the system's, as it asks for.
LEMMA MatchesScoped ==
  ASSUME query \in Queries, NEW r, Matches(r)
  PROVE  /\ query.kind \in {"statements", "accounts"} => r.owner = query.of
         /\ query.kind \in {"categories", "tags"} =>
              /\ r.owner \in {query.of, None}
              /\ query.scope = "user" => r.owner # None
              /\ query.scope = "system" => r.owner = None
  <1>1. query.of # None /\ query.kind \in Kinds /\ query.scope \in {"any", "system", "user"}
    BY QueryFacts, ValuesAssumption DEF Query
  <1>2. CASE query.kind \in {"statements", "accounts"}
    BY <1>2 DEF Matches, StatementMatches, AccountMatches
  <1>3. CASE query.kind \in {"users", "roles"}
    BY <1>3
  <1>4. CASE query.kind = "categories"
    BY <1>1, <1>4 DEF Matches, CategoryMatches
  <1>5. CASE query.kind = "tags"
    BY <1>1, <1>5 DEF Matches, TagMatches
  <1> QED
    BY <1>1, <1>2, <1>3, <1>4, <1>5 DEF Kinds

\* Whatever is asked for, and committed meanwhile, nobody gets rows of others,
\* rows out of the scope, or a page beyond the greatest limit (filter.go:35-45,
\* list.go:56-61, handler/user.go:160-178, category.go:142-161).
THEOREM ScopeKept == Spec => []Scoped
  <1>1. WalkInv => Scoped
    <2> SUFFICES ASSUME WalkInv PROVE Scoped
      OBVIOUS
    <2>1. query \in Queries /\ Limit \in Nat /\ Limit <= MaxLimit /\ 1 <= MaxLimit
      BY LimitBounds, LimitsAssumption DEF WalkInv, LogInv
    <2>2. ASSUME NEW r \in Listed
          PROVE  /\ query.kind = "statements" =>
                      /\ r.owner = query.of
                      /\ query.caller \in {Trusted, HolderOf[query.of]}
                 /\ query.kind = "accounts" => r.owner = query.of
                 /\ query.kind \in {"categories", "tags"} =>
                      /\ r.owner \in {query.of, None}
                      /\ query.scope = "user" => r.owner # None
                      /\ query.scope = "system" => r.owner = None
                 /\ query.kind = "users" /\ query.caller # Trusted => r.id = query.caller
      <3>1. PICK i \in DOMAIN pages : r \in Range(pages[i].rows)
        BY <2>2 DEF Listed
      <3>2. PageOK(i) /\ Own
        <4>1. pages # << >>
          BY <3>1
        <4> QED
          BY <3>1, <4>1 DEF WalkInv
      <3>3. CASE Self
        <4>1. query.kind = "users" /\ r.id = query.caller
          BY <3>1, <3>2, <3>3 DEF PageOK, Self
        <4> QED
          BY <4>1
      <3>4. CASE ~Self
        <4>1. Matches(r)
          BY <3>1, <3>2, <3>4 DEF PageOK, Matching
        <4>2. ~(query.kind = "users" /\ query.caller # Trusted)
          BY <3>4 DEF Self
        <4>3. query.kind = "statements" => query.caller \in {Trusted, HolderOf[query.of]}
          BY <3>2 DEF Own
        <4> QED
          BY <2>1, <4>1, <4>2, <4>3, MatchesScoped
      <3> QED
        BY <3>3, <3>4
    <2>3. ASSUME query.kind \notin {"categories", "tags"}, NEW i \in DOMAIN pages
          PROVE  Len(pages[i].rows) <= MaxLimit
      <3>1. PageOK(i) /\ pages[i].rows \in Seq(Row)
        <4>1. pages \in Seq(Page) /\ PageOK(i)
          BY <2>3 DEF WalkInv
        <4>2. pages[i] \in Page
          BY <2>3, <4>1, ElementOfSeq
        <4> QED
          BY <4>1, <4>2 DEF Page
      <3>2. query.kind \in WalkedKinds
        BY <2>1, <2>3, QueryFacts DEF WalkedKinds, KeysetKinds, Kinds
      <3>3. Len(pages[i].rows) \in Nat
        BY <3>1, LenProperties
      <3> QED
        BY <2>1, <3>1, <3>2, <3>3, LimitsAssumption DEF PageOK
    <2> QED
      BY <2>2, <2>3 DEF Scoped
  <1> QED
    BY <1>1, WalkInvariant, PTL

-----------------------------------------------------------------------------
(***************************************************************************)
(* Reading by cursor.                                                      *)
(***************************************************************************)

\* Was id in the list all the time the client has read?
Stayed(id) == \A i \in FirstPage.selected .. LastPage.selected : id \in IdsIn(Matching(i))

\* The cursor is not before what the client has, and what it misses of the rows
\* that stayed comes after it.
CursorInv ==
  query.follow = "cursor" =>
    /\ page = 1
    /\ InOrder
    /\ result = "ok" => cursor = None
    /\ result = "none" => (cursor = None <=> pages = << >>)
    /\ cursor # None => \A r \in Listed : ~Newer(cursor, r)
    /\ pages # << >> =>
         \A id \in Ids : Stayed(id) =>
           \/ id \in IdsIn(Listed)
           \/ /\ cursor # None
              /\ \E r \in log[LastPage.selected].rows : r.id = id /\ Newer(cursor, r)

LEMMA PagesFacts ==
  ASSUME WalkInv
  PROVE  /\ Len(pages) \in Nat /\ DOMAIN pages = 1 .. Len(pages)
         /\ \A i \in DOMAIN pages :
              /\ pages[i] \in Page /\ PageOK(i)
              /\ Range(pages[i].rows) \subseteq Row
              /\ pages[i].selected \in Nat /\ pages[i].selected <= Reader
              /\ pages[i].selected \in DOMAIN log /\ pages[i].counted \in DOMAIN log
              /\ pages[i].counted \in Nat /\ pages[i].counted <= pages[i].selected
         /\ \A i, j \in DOMAIN pages : i <= j => pages[i].selected <= pages[j].selected
         /\ Listed \subseteq Row
         /\ pages # << >> => /\ 1 \in DOMAIN pages /\ Len(pages) \in DOMAIN pages
                             /\ FirstPage.selected <= LastPage.selected
  <1>1. pages \in Seq(Page)
    BY DEF WalkInv
  <1>2. Len(pages) \in Nat /\ DOMAIN pages = 1 .. Len(pages)
    BY <1>1, LenProperties
  <1>3. ASSUME NEW i \in DOMAIN pages
        PROVE  /\ pages[i] \in Page /\ PageOK(i)
               /\ Range(pages[i].rows) \subseteq Row
               /\ pages[i].selected \in Nat /\ pages[i].selected <= Reader
               /\ pages[i].selected \in DOMAIN log /\ pages[i].counted \in DOMAIN log
               /\ pages[i].counted \in Nat /\ pages[i].counted <= pages[i].selected
    <2>1. pages[i] \in Page
      BY <1>1, <1>3, ElementOfSeq
    <2>2. PageOK(i)
      BY <1>3 DEF WalkInv
    <2>3. Range(pages[i].rows) \subseteq Row
      <3>1. log[pages[i].selected].rows \subseteq Row
        BY <2>2, MatchingFacts DEF PageOK, WalkInv
      <3> QED
        BY <2>2, <3>1 DEF PageOK
    <2> QED
      BY <2>1, <2>2, <2>3 DEF Page, PageOK
  <1>4. ASSUME NEW i \in DOMAIN pages, NEW j \in DOMAIN pages, i <= j
        PROVE  pages[i].selected <= pages[j].selected
    <2>1. CASE i = j
      BY <1>3, <2>1
    <2>2. CASE i < j
      <3>1. pages[i].selected <= pages[j].counted
        BY <2>2, <1>4 DEF WalkInv
      <3> QED
        BY <1>3, <3>1
    <2> QED
      BY <1>2, <1>4, <2>1, <2>2
  <1>5. Listed \subseteq Row
    BY <1>3 DEF Listed
  <1>6. ASSUME pages # << >>
        PROVE  1 \in DOMAIN pages /\ Len(pages) \in DOMAIN pages
    <2>1. Len(pages) # 0
      BY <1>1, <1>6
    <2> QED
      BY <1>2, <2>1
  <1>7. pages # << >> => FirstPage.selected <= LastPage.selected
    BY <1>2, <1>4, <1>6 DEF FirstPage, LastPage
  <1> QED
    BY <1>2, <1>3, <1>4, <1>5, <1>6, <1>7

\* What stayed is a matter of the versions up to the last page.
LEMMA StayedKept ==
  ASSUME WalkInv, Advances, pages # << >>, UNCHANGED pages
  PROVE  /\ \A id : Stayed(id)' <=> Stayed(id)
         /\ log'[LastPage.selected] = log[LastPage.selected]
         /\ \A i \in FirstPage.selected .. LastPage.selected : Matching(i)' = Matching(i)
  <1>1. PICK f, l : f = FirstPage.selected /\ l = LastPage.selected
    OBVIOUS
  <1>2. f \in DOMAIN log /\ l \in DOMAIN log
    BY <1>1, PagesFacts DEF FirstPage, LastPage
  <1>3. DOMAIN log = 1 .. Len(log) /\ Len(log) \in Nat
    BY LogFacts DEF WalkInv
  <1>4. f .. l \subseteq DOMAIN log
    BY <1>2, <1>3
  <1>5. \A i \in DOMAIN log : Matching(i)' = Matching(i)
    BY MatchingKept
  <1>6. (FirstPage.selected)' = f /\ (LastPage.selected)' = l
    BY <1>1 DEF FirstPage, LastPage
  <1>7. \A i \in f .. l : Matching(i)' = Matching(i)
    BY <1>4, <1>5
  <1>8. log'[l] = log[l]
    BY <1>2 DEF Advances
  <1>9. \A id : Stayed(id)' <=> Stayed(id)
    BY <1>1, <1>6, <1>7 DEF Stayed, IdsIn
  <1> QED
    BY <1>1, <1>7, <1>8, <1>9

LEMMA CursorCarried ==
  ASSUME WalkInv, WalkInv', CursorInv, Carries
  PROVE  CursorInv'
  <1>1. /\ UNCHANGED <<query, page, cursor, pages>>
        /\ result' \in {"ok", "none"} => result' = result
    BY DEF Carries, Advances
  <1>2. Listed' = Listed /\ (InOrder' <=> InOrder)
    BY <1>1 DEF Listed, InOrder
  <1>3. pages # << >> =>
          /\ \A id : Stayed(id)' <=> Stayed(id)
          /\ log'[LastPage.selected] = log[LastPage.selected]
          /\ (LastPage.selected)' = LastPage.selected
    BY <1>1, StayedKept DEF Carries, LastPage
  <1> QED
    BY <1>1, <1>2, <1>3 DEF CursorInv, IdsIn

\* A row that is never removed keeps its time.
LEMMA SameRow ==
  ASSUME LogInv, query.kind \in KeysetKinds, NEW i \in DOMAIN log, NEW j \in DOMAIN log, i <= j,
         NEW r \in log[i].rows, NEW s \in log[j].rows, r.id = s.id
  PROVE  r.at = s.at
  <1>1. PICK t \in log[j].rows : t.id = r.id /\ t.at = r.at
    BY DEF LogInv, Keeps
  <1>2. t = s
    BY <1>1, LogFacts DEF LogInv, Sound, Distinct
  <1> QED
    BY <1>1, <1>2

\* What another page changes: the rows the client has, and the last version.
Receives(c, n) ==
  /\ UNCHANGED <<log, applied, query>>
  /\ n \in Nat /\ n = Len(pages) /\ DOMAIN pages = 1 .. n
  /\ Len(pages') = n + 1 /\ DOMAIN pages' = 1 .. (n + 1)
  /\ \A i \in 1 .. n : pages'[i] = pages[i]
  /\ pages'[n + 1].rows = c /\ pages'[n + 1].selected = Reader
  /\ pages'[n + 1].counted = counted.at /\ pages'[n + 1].total = counted.total
  /\ pages' # << >> /\ Listed' = Listed \cup Range(c)
  /\ (LastPage.selected)' = Reader /\ Reader \in DOMAIN log /\ Reader' = Reader
  /\ pages # << >> => /\ FirstPage' = FirstPage /\ n >= 1
                      /\ LastPage.selected \in DOMAIN log /\ LastPage.selected <= Reader
  /\ pages = << >> => (FirstPage.selected)' = Reader /\ n = 0
  /\ \A i \in DOMAIN log : Matching(i)' = Matching(i)

LEMMA PageReceived ==
  ASSUME WalkInv, NEW R, NEW s, NEW offset, AnswersPage(R, s, offset)
  PROVE  WalkInv' /\ Advances /\ Receives(Cut(s, offset), Len(pages))
  <1>0. PICK c, n : c = Cut(s, offset) /\ n = Len(pages)
    OBVIOUS
  <1>1. PICK p : p = [rows |-> Cut(s, offset), counted |-> counted.at, selected |-> Reader,
                      total |-> counted.total]
    OBVIOUS
  <1>2. /\ WalkInv' /\ Advances /\ UNCHANGED <<log, applied, query>>
        /\ p \in Page /\ pages' = Append(pages, p)
    BY <1>1, Answers
  <1>3. /\ n \in Nat /\ DOMAIN pages = 1 .. n
        /\ Len(pages') = n + 1 /\ DOMAIN pages' = 1 .. (n + 1)
        /\ \A i \in 1 .. n : pages'[i] = pages[i]
        /\ pages'[n + 1] = p /\ pages' # << >> /\ pages \in Seq(Page)
    BY <1>0, <1>2, PageAdded DEF WalkInv
  <1>4. p.rows = c /\ p.selected = Reader /\ p.counted = counted.at /\ p.total = counted.total
    BY <1>0, <1>1
  <1>5. Listed' = Listed \cup Range(c)
    <2>1. Listed' = UNION {Range(pages'[i].rows) : i \in 1 .. (n + 1)}
      BY <1>3 DEF Listed
    <2>2. Listed = UNION {Range(pages[i].rows) : i \in 1 .. n}
      BY <1>3 DEF Listed
    <2>3. ASSUME NEW r \in Listed' PROVE r \in Listed \cup Range(c)
      <3>1. PICK i \in 1 .. (n + 1) : r \in Range(pages'[i].rows)
        BY <2>1, <2>3
      <3>2. CASE i \in 1 .. n
        BY <1>3, <2>2, <3>1, <3>2
      <3>3. CASE i = n + 1
        BY <1>3, <1>4, <3>1, <3>3
      <3> QED
        BY <1>3, <3>2, <3>3
    <2>4. ASSUME NEW r \in Listed PROVE r \in Listed'
      <3>1. PICK i \in 1 .. n : r \in Range(pages[i].rows)
        BY <2>2, <2>4
      <3>2. i \in 1 .. (n + 1) /\ pages'[i] = pages[i]
        BY <1>3, <3>1
      <3> QED
        BY <2>1, <3>1, <3>2
    <2>5. Range(c) \subseteq Listed'
      <3>1. n + 1 \in 1 .. (n + 1)
        BY <1>3
      <3> QED
        BY <1>3, <1>4, <2>1, <3>1
    <2> QED
      BY <2>3, <2>4, <2>5
  <1>6. (LastPage.selected)' = Reader
    BY <1>3, <1>4 DEF LastPage
  <1>7. Reader \in DOMAIN log /\ Reader' = Reader
    BY <1>2, LogFacts DEF WalkInv, Reader
  <1>8. pages # << >> => /\ (FirstPage)' = FirstPage /\ n >= 1
                         /\ LastPage.selected \in DOMAIN log /\ LastPage.selected <= Reader
    BY <1>3, PagesFacts DEF FirstPage, LastPage
  <1>9. pages = << >> => (FirstPage.selected)' = Reader /\ n = 0
    BY <1>3, <1>4 DEF FirstPage
  <1>10. \A i \in DOMAIN log : Matching(i)' = Matching(i)
    BY <1>2, MatchingKept
  <1> QED
    BY <1>0, <1>2, <1>3, <1>4, <1>5, <1>6, <1>7, <1>8, <1>9, <1>10 DEF Receives

\* Rows of one page in order, and after those of the pages before.
LEMMA OrderExtended ==
  ASSUME NEW n \in Nat, DOMAIN pages = 1 .. n, DOMAIN pages' = 1 .. (n + 1),
         \A i \in 1 .. n : pages'[i] = pages[i],
         NEW c, pages'[n + 1].rows = c, InOrder,
         \A j, k \in DOMAIN c : j < k => Newer(c[j], c[k]),
         \A r \in Listed : \A t \in Range(c) : Newer(r, t)
  PROVE  InOrder'
  <1>1. ASSUME NEW i \in 1 .. (n + 1),
               NEW j \in DOMAIN pages'[i].rows, NEW k \in DOMAIN pages'[i].rows, j < k
        PROVE  Newer(pages'[i].rows[j], pages'[i].rows[k])
    <2>1. CASE i \in 1 .. n
      BY <1>1, <2>1 DEF InOrder
    <2>2. CASE i = n + 1
      BY <1>1, <2>2
    <2> QED
      BY <2>1, <2>2
  <1>2. ASSUME NEW i \in 1 .. (n + 1), NEW j \in 1 .. (n + 1), i < j,
               NEW r \in Range(pages'[i].rows), NEW t \in Range(pages'[j].rows)
        PROVE  Newer(r, t)
    <2>1. i \in 1 .. n
      BY <1>2
    <2>2. r \in Range(pages[i].rows)
      BY <1>2, <2>1
    <2>3. CASE j \in 1 .. n
      <3>1. t \in Range(pages[j].rows)
        BY <1>2, <2>3
      <3> QED
        BY <1>2, <2>1, <2>2, <2>3, <3>1 DEF InOrder
    <2>4. CASE j = n + 1
      <3>1. r \in Listed
        BY <2>1, <2>2 DEF Listed
      <3> QED
        BY <1>2, <2>4, <3>1
    <2> QED
      BY <2>3, <2>4
  <1> QED
    BY <1>1, <1>2 DEF InOrder

\* The next page by cursor goes on after the last, and misses nothing between.
LEMMA CursorPage ==
  ASSUME WalkInv, CursorInv, query.follow = "cursor", query.kind \in KeysetKinds,
         NEW found, found = {r \in Matching(Reader) : AfterCursor(r)},
         NEW s \in KeysetOrders(found),
         AnswersPage(found, s, IF cursor = None THEN Offset ELSE 0)
  PROVE  CursorInv'
  <1>1. PICK c, n : c = Cut(s, 0) /\ n = Len(pages)
    OBVIOUS
  <1>2. (IF cursor = None THEN Offset ELSE 0) = 0
    <2>1. page = 1 /\ Limit \in Nat
      BY LimitBounds DEF CursorInv, WalkInv, LogInv
    <2> QED
      BY <2>1 DEF Offset
  <1>3. AnswersPage(found, s, 0)
    BY <1>2
  <1>4. /\ pc = "select" /\ result = "none" /\ page' = page
        /\ cursor' = NextCursor(c)
        /\ cursor' = None => result' = "ok"
        /\ cursor' # None => result' = result
    BY <1>1, <1>3 DEF AnswersPage, Answer, Stop, WalkInv
  <1>5. cursor = None <=> pages = << >>
    BY <1>4 DEF CursorInv
  <1>6. /\ Limit \in Nat /\ 1 <= Limit
        /\ Len(c) \in Nat /\ DOMAIN c = 1 .. Len(c) /\ Range(c) \subseteq found
        /\ found \subseteq Row
        /\ Len(s) \in Nat /\ DOMAIN s = 1 .. Len(s)
        /\ \A r \in found : \E k \in 1 .. Len(s) : s[k] = r
        /\ \A k \in 1 .. Len(c) : k \in 1 .. Len(s) /\ c[k] = s[k]
        /\ \A k \in 1 .. Len(s) : k <= Limit => k \in 1 .. Len(c)
        /\ Len(c) <= Limit
        /\ Len(c) < Limit => Len(s) <= Limit
    <2>1. PICK z : z = 0
      OBVIOUS
    <2>2. IsCut(found, s, z, c)
      BY <1>1, <1>3, <2>1, CutFrom
    <2>3. /\ \A k \in 1 .. Len(c) : z + k \in 1 .. Len(s) /\ c[k] = s[z + k]
          /\ \A k \in 1 .. Len(s) : z < k /\ k <= z + Limit => k - z \in 1 .. Len(c)
          /\ Len(c) < Limit => Len(s) <= z + Limit
          /\ Limit \in Nat /\ Len(c) \in Nat /\ Len(s) \in Nat
      BY <2>2 DEF IsCut
    <2>4. /\ \A k \in 1 .. Len(c) : k \in 1 .. Len(s) /\ c[k] = s[k]
          /\ \A k \in 1 .. Len(s) : k <= Limit => k \in 1 .. Len(c)
          /\ Len(c) < Limit => Len(s) <= Limit
      BY <2>1, <2>3
    <2> QED
      BY <2>2, <2>4 DEF IsCut
  <1>len. /\ Len(c) \in Nat /\ Len(s) \in Nat /\ Limit \in Nat /\ Len(c) <= Limit
          /\ Len(c) < Limit => Len(s) <= Limit
    BY <1>6
  <1>7. \A j, k \in 1 .. Len(s) : j < k => Newer(s[j], s[k])
    BY <1>6 DEF KeysetOrders
  <1>8. \A r \in Listed \cup found : Stamped(r)
    BY <1>6, PagesFacts, RowStamped
  <1>9. \A r \in Listed : \A t \in found : Newer(r, t)
    <2> SUFFICES ASSUME NEW r \in Listed, NEW t \in found PROVE Newer(r, t)
      OBVIOUS
    <2>1. pages # << >>
      BY PagesFacts DEF Listed
    <2>2. cursor # None /\ ~Newer(cursor, r)
      BY <1>5, <2>1 DEF CursorInv
    <2>3. Newer(cursor, t)
      BY <2>2 DEF AfterCursor
    <2>4. Stamped(cursor)
      BY <2>2, RowStamped DEF WalkInv
    <2> QED
      BY <1>8, <2>2, <2>3, <2>4, NewerOrder
  <1>10. /\ WalkInv' /\ Advances /\ UNCHANGED <<log, applied, query>>
         /\ n \in Nat /\ DOMAIN pages = 1 .. n /\ DOMAIN pages' = 1 .. (n + 1)
         /\ \A i \in 1 .. n : pages'[i] = pages[i]
         /\ pages'[n + 1].rows = c
         /\ pages' # << >> /\ Listed' = Listed \cup Range(c)
         /\ (LastPage.selected)' = Reader /\ Reader \in DOMAIN log
         /\ pages # << >> => /\ (FirstPage)' = FirstPage
                             /\ LastPage.selected \in DOMAIN log /\ LastPage.selected <= Reader
         /\ pages = << >> => (FirstPage.selected)' = Reader
         /\ \A i \in DOMAIN log : Matching(i)' = Matching(i)
    BY <1>1, <1>3, PageReceived DEF Receives
  <1>11. InOrder'
    <2>1. InOrder
      BY DEF CursorInv
    <2>2. \A j, k \in DOMAIN c : j < k => Newer(c[j], c[k])
      BY <1>6, <1>7
    <2>3. \A r \in Listed : \A t \in Range(c) : Newer(r, t)
      BY <1>6, <1>9
    <2> QED
      BY <1>10, <2>1, <2>2, <2>3, OrderExtended
  <1>12. ASSUME Len(c) = Limit
         PROVE  /\ cursor' = [at |-> c[Len(c)].at, id |-> c[Len(c)].id]
                /\ cursor' # None
                /\ c[Len(c)] \in Range(c)
                /\ \A r : Newer(cursor', r) <=> Newer(c[Len(c)], r)
    <2>1. Len(c) \in DOMAIN c
      BY <1>6, <1>12
    <2>2. c[Len(c)] \in Range(c) /\ c[Len(c)] \in Row
      BY <1>6, <2>1 DEF Range
    <2>3. cursor' = [at |-> c[Len(c)].at, id |-> c[Len(c)].id]
      BY <1>4, <1>12 DEF NextCursor
    <2>4. cursor' \in [at : Times, id : Ids]
      BY <2>2, <2>3 DEF Row
    <2>5. cursor'.at = c[Len(c)].at /\ cursor'.id = c[Len(c)].id
      BY <2>3
    <2> QED
      BY <2>2, <2>3, <2>4, <2>5, ValuesAssumption DEF Newer
  <1>13. Len(c) # Limit => cursor' = None
    BY <1>4 DEF NextCursor
  <1>14. ASSUME cursor' # None, NEW r \in Listed'
         PROVE  ~Newer(cursor', r)
    <2>1. Len(c) = Limit
      BY <1>13, <1>14
    <2>2. c[Len(c)] \in Range(c) /\ (Newer(cursor', r) <=> Newer(c[Len(c)], r))
      BY <1>12, <2>1
    <2>3. Stamped(c[Len(c)])
      BY <1>6, <1>8, <2>2
    <2>4. CASE r \in Listed
      <3>1. Newer(r, c[Len(c)]) /\ Stamped(r)
        BY <1>6, <1>8, <1>9, <2>2, <2>4
      <3> QED
        BY <2>2, <2>3, <3>1, NewerOrder
    <2>5. CASE r \in Range(c)
      <3>1. PICK k \in 1 .. Len(c) : r = c[k]
        BY <1>6, <2>5 DEF Range
      <3>2. Stamped(r)
        BY <1>6, <1>8, <2>5
      <3>3. CASE k = Len(c)
        BY <2>2, <2>3, <3>1, <3>3, NewerOrder
      <3>4. CASE k < Len(c)
        <4>1. Newer(r, c[Len(c)])
          BY <1>6, <1>7, <3>1, <3>4
        <4> QED
          BY <2>2, <2>3, <3>2, <4>1, NewerOrder
      <3> QED
        BY <1>len, <3>1, <3>3, <3>4
    <2> QED
      BY <1>10, <1>14, <2>4, <2>5
  <1>15. ASSUME NEW id \in Ids, Stayed(id)'
         PROVE  \/ id \in IdsIn(Listed)'
                \/ /\ cursor' # None
                   /\ \E r \in log'[(LastPage.selected)'].rows : r.id = id /\ Newer(cursor', r)
    <2>0. PICK v : v = Reader
      OBVIOUS
    <2>1. v \in DOMAIN log /\ v \in Nat /\ (LastPage.selected)' = v
      BY <1>10, <2>0, LogFacts DEF WalkInv
    <2>2. id \in IdsIn(Matching(v))
      <3>1. (FirstPage.selected)' <= v /\ (FirstPage.selected)' \in Nat
        <4>1. CASE pages = << >>
          BY <1>10, <2>0, <2>1, <4>1
        <4>2. CASE pages # << >>
          <5>1. (FirstPage.selected)' = FirstPage.selected
            BY <1>10, <4>2
          <5>2. FirstPage.selected \in Nat /\ FirstPage.selected <= Reader
            BY <4>2, PagesFacts DEF FirstPage
          <5> QED
            BY <2>0, <5>1, <5>2
        <4> QED
          BY <4>1, <4>2
      <3>2. v \in (FirstPage.selected)' .. (LastPage.selected)'
        BY <2>1, <3>1
      <3>3. id \in (IdsIn(Matching(v)))'
        BY <1>15, <3>2 DEF Stayed
      <3> QED
        BY <1>10, <2>1, <3>3 DEF IdsIn
    <2>3. PICK r \in Matching(v) : r.id = id
      BY <2>2 DEF IdsIn
    <2>4. r \in log[v].rows
      BY <2>3 DEF Matching
    <2>5. CASE id \in IdsIn(Listed)
      BY <1>10, <2>5 DEF IdsIn
    <2>6. CASE AfterCursor(r)
      <3>1. PICK k \in 1 .. Len(s) : s[k] = r
        BY <1>6, <2>0, <2>3, <2>6
      <3>2. CASE k <= Limit
        <4>1. k \in 1 .. Len(c) /\ c[k] = r
          BY <1>6, <3>1, <3>2
        <4>2. r \in Range(c)
          BY <1>6, <4>1 DEF Range
        <4> QED
          BY <1>10, <2>3, <4>2 DEF IdsIn
      <3>3. CASE ~(k <= Limit)
        <4>1. Len(c) = Limit
          <5>1. ~(Len(s) <= Limit)
            BY <1>len, <3>1, <3>3
          <5> QED
            BY <1>len, <5>1
        <4>2. Len(c) \in 1 .. Len(s) /\ c[Len(c)] = s[Len(c)] /\ Len(c) < k
          BY <1>6, <3>1, <3>3, <4>1
        <4>3. Newer(c[Len(c)], r)
          BY <1>7, <3>1, <4>2
        <4>4. cursor' # None /\ Newer(cursor', r)
          BY <1>12, <4>1, <4>3
        <4>5. log'[(LastPage.selected)'] = log[v]
          BY <1>10, <2>1
        <4> QED
          BY SMTT(30), <2>3, <2>4, <4>4, <4>5
      <3> QED
        BY <3>2, <3>3
    <2>7. CASE id \notin IdsIn(Listed) /\ ~AfterCursor(r)
      <3>1. cursor # None /\ pages # << >>
        BY <1>5, <2>7 DEF AfterCursor
      <3>2. PICK l : l = LastPage.selected
        OBVIOUS
      <3>3. l \in DOMAIN log /\ l <= v /\ l \in Nat
        BY <1>10, <2>0, <3>1, <3>2, LogFacts DEF WalkInv
      <3>4. Stayed(id)
        <4>1. PICK f : f = FirstPage.selected
          OBVIOUS
        <4>2. f \in Nat /\ (FirstPage.selected)' = f
          BY <1>10, <3>1, <4>1, PagesFacts DEF FirstPage
        <4>3. ASSUME NEW i \in f .. l PROVE id \in IdsIn(Matching(i))
          <5>1. i \in f .. v
            BY <2>1, <3>3, <4>2, <4>3
          <5>2. i \in DOMAIN log
            <6>1. f \in DOMAIN log
              BY <3>1, <4>1, PagesFacts DEF FirstPage
            <6>2. DOMAIN log = 1 .. Len(log) /\ Len(log) \in Nat
              BY LogFacts DEF WalkInv
            <6> QED
              BY <3>3, <4>3, <6>1, <6>2
          <5>3. id \in (IdsIn(Matching(i)))'
            BY <1>15, <2>1, <4>2, <5>1 DEF Stayed
          <5> QED
            BY <1>10, <5>2, <5>3 DEF IdsIn
        <4> QED
          BY <3>2, <4>1, <4>3 DEF Stayed
      <3>5. PICK q \in log[l].rows : q.id = id /\ Newer(cursor, q)
        BY <2>7, <3>1, <3>2, <3>4 DEF CursorInv
      <3>6. q.at = r.at
        BY <2>1, <2>3, <2>4, <3>3, <3>5, SameRow DEF WalkInv
      <3>7. Newer(cursor, r)
        BY <2>3, <3>5, <3>6 DEF Newer
      <3> QED
        BY <2>7, <3>7 DEF AfterCursor
    <2> QED
      BY <2>5, <2>6, <2>7
  <1>16. page' = 1
    BY <1>4 DEF CursorInv
  <1> QED
    BY <1>4, <1>10, <1>11, <1>14, <1>15, <1>16 DEF CursorInv

LEMMA CursorInvariant == Spec => [](WalkInv /\ CursorInv)
  <1>1. Init => CursorInv
    BY DEF Init, CursorInv, InOrder, Listed
  <1>2. ASSUME WalkInv, CursorInv, [Next]_vars
        PROVE  CursorInv'
    <2>1. query' = query /\ WalkInv'
      BY <1>2, StepShapes DEF Advances
    <2>2. CASE query.follow # "cursor"
      BY <2>1, <2>2 DEF CursorInv
    <2>3. CASE query.follow = "cursor"
      <3>1. query.kind \in KeysetKinds
        BY <1>2, <2>3, QueryFacts DEF WalkInv, LogInv
      <3>2. query.kind \notin {"users", "roles", "categories", "tags"}
        BY <3>1 DEF KeysetKinds
      <3>3. CASE Carries
        BY <1>2, <2>1, <3>3, CursorCarried
      <3>4. ~AnswersAll
        BY <3>2 DEF AnswersAll, Self
      <3>5. CASE LET found == {r \in Matching(Reader) : AfterCursor(r)}
                 IN  \E s \in KeysetOrders(found) :
                       AnswersPage(found, s, IF cursor = None THEN Offset ELSE 0)
        BY <1>2, <2>3, <3>1, <3>5, CursorPage
      <3> QED
        BY <1>2, <3>2, <3>3, <3>4, <3>5, StepShapes
    <2> QED
      BY <2>2, <2>3
  <1> QED
    BY <1>1, <1>2, WalkInvariant, PTL DEF Spec

\* By cursor a client gets every row that stayed in its list, once and in order,
\* whatever is inserted, changed and repeated between its pages, and whichever
\* versions of the table they are cut from (statement.go:322-374).
THEOREM CursorWalkKept == Spec => []CursorWalkExact
  <1>1. WalkInv /\ CursorInv => CursorWalkOrdered
    BY DEF CursorInv, CursorWalkOrdered
  <1>2. WalkInv /\ CursorInv => CursorWalkComplete
    <2> SUFFICES ASSUME WalkInv, CursorInv, HasRead("cursor"), NEW id \in Ids, Stayed(id)
                 PROVE  id \in IdsIn(Listed)
      BY DEF CursorWalkComplete, Stayed
    <2>1. result = "ok" /\ query.follow = "cursor" /\ cursor = None /\ pages # << >>
      BY DEF HasRead, CursorInv, WalkInv
    <2> QED
      BY <2>1 DEF CursorInv
  <1>3. WalkInv /\ CursorInv => CursorWalkExact
    BY <1>1, <1>2 DEF CursorWalkExact
  <1> QED
    BY <1>3, CursorInvariant, PTL

-----------------------------------------------------------------------------
(***************************************************************************)
(* Reading by page number.                                                 *)
(***************************************************************************)

\* Page p is the last if all t rows are on the pages up to it.
LEMMA LastNumber ==
  ASSUME NEW t \in Nat, NEW l \in Nat, 1 <= l, NEW p \in Nat, ~(p < (t + l - 1) \div l)
  PROVE  t <= p * l
  <1>1. PICK a \in Nat : a = t + l - 1
    OBVIOUS
  <1>2. PICK q \in Nat, m \in Nat : q = a \div l /\ a = l * q + m /\ m < l
    <2>1. a \div l \in Nat /\ a % l \in 0 .. (l - 1) /\ a = l * (a \div l) + (a % l)
      OBVIOUS
    <2> QED
      BY <2>1
  <1>3. t <= l * q
    <2>1. PICK x \in Int : x = l * q
      OBVIOUS
    <2> QED
      BY <1>1, <1>2, <2>1
  <1>4. q <= p
    BY <1>1, <1>2
  <1>5. \A x, y, z \in Nat : x <= y => z * x <= y * z
    OBVIOUS
  <1>6. l * q <= p * l
    BY <1>4, <1>5
  <1> QED
    BY <1>3, <1>6

\* The ids of the rows before r.
Ahead(r, i) == IdsIn({s \in Matching(i) : Newer(s, r)})

Sorted(s) == \A j, k \in 1 .. Len(s) : j < k => Newer(s[j], s[k])

\* The k-th row of an order has k - 1 rows before it.
LEMMA AheadOf ==
  ASSUME LogInv, NEW i \in DOMAIN log, NEW s \in SetToSeqs(Matching(i)), Sorted(s),
         NEW k \in 1 .. Len(s)
  PROVE  IsFiniteSet(Ahead(s[k], i)) /\ Cardinality(Ahead(s[k], i)) = k - 1
  <1>1. PICK R, n : R = Matching(i) /\ n = Len(s)
    OBVIOUS
  <1>2. R \subseteq Row /\ IsFiniteSet(R) /\ Distinct(R)
    BY <1>1, MatchingFacts
  <1>3. /\ n \in Nat /\ s \in Seq(R) /\ k \in 1 .. n
        /\ \A j, m \in 1 .. n : j # m => s[j] # s[m]
        /\ \A r \in R : \E m \in 1 .. n : s[m] = r
    BY <1>1, <1>2, Ordered
  <1>4. \A j \in 1 .. n : s[j] \in R /\ Stamped(s[j])
    BY <1>1, <1>2, <1>3, ElementOfSeq, RowStamped
  <1>5. PICK f : f = [j \in 1 .. (k - 1) |-> s[j].id]
    OBVIOUS
  <1>6. \A j \in 1 .. (k - 1) : j \in 1 .. n /\ j < k
    BY <1>3
  <1>7. ASSUME NEW j \in 1 .. (k - 1) PROVE f[j] \in Ahead(s[k], i)
    <2>1. j \in 1 .. n /\ s[j] \in R /\ Newer(s[j], s[k])
      BY <1>1, <1>3, <1>4, <1>6, <1>7 DEF Sorted
    <2> QED
      BY <1>1, <1>5, <1>7, <2>1 DEF Ahead, IdsIn
  <1>8. ASSUME NEW j \in 1 .. (k - 1), NEW m \in 1 .. (k - 1), f[j] = f[m] PROVE j = m
    <2>1. s[j].id = s[m].id /\ s[j] \in R /\ s[m] \in R
      BY <1>4, <1>5, <1>6, <1>8
    <2> QED
      BY <1>2, <1>3, <1>6, <1>8, <2>1 DEF Distinct
  <1>9. ASSUME NEW id \in Ahead(s[k], i) PROVE \E j \in 1 .. (k - 1) : f[j] = id
    <2>1. PICK t \in R : t.id = id /\ Newer(t, s[k])
      BY <1>1, <1>9 DEF Ahead, IdsIn
    <2>2. PICK j \in 1 .. n : s[j] = t
      BY <1>3, <2>1
    <2>3. j < k
      <3>1. CASE j = k
        BY <1>3, <1>4, <2>1, <2>2, <3>1, NewerOrder
      <3>2. CASE j > k
        <4>1. Newer(s[k], s[j])
          BY <1>1, <1>3, <3>2 DEF Sorted
        <4> QED
          BY <1>3, <1>4, <2>1, <2>2, <4>1, NewerOrder
      <3> QED
        BY <1>3, <3>1, <3>2
    <2>4. j \in 1 .. (k - 1)
      BY <1>3, <2>3
    <2> QED
      BY <1>5, <2>1, <2>2, <2>4
  <1>10. f \in Bijection(1 .. (k - 1), Ahead(s[k], i))
    <2>1. f \in [1 .. (k - 1) -> Ahead(s[k], i)]
      BY <1>5, <1>7
    <2>2. f \in Injection(1 .. (k - 1), Ahead(s[k], i))
      BY <1>8, <2>1 DEF Injection, IsInjective
    <2>3. f \in Surjection(1 .. (k - 1), Ahead(s[k], i))
      BY <1>9, <2>1 DEF Surjection
    <2> QED
      BY <2>2, <2>3 DEF Bijection
  <1>11. IsFiniteSet(1 .. (k - 1)) /\ Cardinality(1 .. (k - 1)) = k - 1
    <2>1. k - 1 \in Nat
      BY <1>3
    <2>2. \A m \in Nat : IsFiniteSet(1 .. m) /\ Cardinality(1 .. m) = m
      BY FS_Interval
    <2> QED
      BY <2>1, <2>2
  <1> QED
    BY <1>10, <1>11, FS_Bijection DEF ExistsBijection

\* The page number is the number of the page that is asked for.
NumberInv ==
  query.follow = "page" => cursor = None /\ (result = "none" => page = Len(pages) + 1)

\* A page by number.
LEMMA PageTurned ==
  ASSUME WalkInv, NumberInv, query.follow = "page",
         NEW s, AnswersPage(Matching(Reader), s, Offset),
         NEW n, n = Len(pages), NEW c, c = Cut(s, Offset)
  PROVE  /\ WalkInv' /\ Advances /\ NumberInv'
         /\ IsCut(Matching(Reader), s, n * Limit, c) /\ Receives(c, n)
         /\ CountOK /\ n \in Nat /\ Limit \in Nat /\ 1 <= Limit
         /\ result' = "ok" => counted.total <= (n + 1) * Limit
  <1>1. pc = "select" /\ CountOK /\ page = n + 1 /\ cursor = None /\ n \in Nat
    BY PagesFacts DEF AnswersPage, WalkInv, NumberInv
  <1>2. WalkInv' /\ Advances /\ Receives(c, n) /\ IsCut(Matching(Reader), s, Offset, c)
    BY PageReceived, CutFrom
  <1>3. Limit \in Nat /\ 1 <= Limit
    BY LimitBounds DEF WalkInv, LogInv
  <1>4. Offset = n * Limit
    <2>1. page - 1 = n
      BY <1>1
    <2> QED
      BY <2>1 DEF Offset
  <1>5. /\ cursor' = cursor /\ query' = query
        /\ \/ page' = page + 1 /\ result' = result
           \/ result' = "ok" /\ ~(page < TotalPages(counted.total))
    BY <1>1 DEF AnswersPage, Answer, Stop
  <1>6. Len(pages') = n + 1
    BY <1>2 DEF Receives
  <1>7. NumberInv'
    <2>1. result' = "none" => page' = Len(pages') + 1
      BY <1>1, <1>5, <1>6
    <2> QED
      BY <1>1, <1>5, <2>1 DEF NumberInv
  <1>8. counted.total \in Nat
    BY <1>1, MatchingFacts DEF CountOK, WalkInv
  <1>9. ASSUME result' = "ok" PROVE counted.total <= (n + 1) * Limit
    <2>1. result = "none"
      BY <1>1 DEF WalkInv
    <2>2. ~(n + 1 < (counted.total + Limit - 1) \div Limit)
      BY <1>1, <1>5, <1>9, <2>1 DEF TotalPages
    <2>3. n + 1 \in Nat
      BY <1>1
    <2> QED
      BY <1>3, <1>8, <2>2, <2>3, LastNumber
  <1> QED
    BY <1>1, <1>2, <1>3, <1>4, <1>7, <1>9

\* A row that was not before the page is on it, or after it, and if nothing was
\* committed since the count, the page is not taken for the last one then.
LEMMA OnPageOrAfter ==
  ASSUME WalkInv, NumberInv, query.follow = "page",
         NEW s, AnswersPage(Matching(Reader), s, Offset), Sorted(s),
         NEW n, n = Len(pages), NEW c, c = Cut(s, Offset),
         NEW r \in Matching(Reader), n * Limit <= Cardinality(Ahead(r, Reader))
  PROVE  \/ r \in Range(c)
         \/ /\ (n + 1) * Limit <= Cardinality(Ahead(r, Reader))
            /\ counted.at = Reader => result' # "ok"
  <1>1. /\ IsCut(Matching(Reader), s, n * Limit, c)
        /\ CountOK /\ n \in Nat /\ Limit \in Nat /\ 1 <= Limit
        /\ result' = "ok" => counted.total <= (n + 1) * Limit
    BY PageTurned
  <1>2. s \in SetToSeqs(Matching(Reader)) /\ Reader \in DOMAIN log /\ LogInv
    BY LogFacts DEF AnswersPage, WalkInv
  <1>3. PICK x \in Nat : x = n * Limit
    BY <1>1
  <1>4. (n + 1) * Limit = x + Limit
    BY <1>1, <1>3
  <1>5. PICK k \in 1 .. Len(s) : s[k] = r
    BY <1>1 DEF IsCut
  <1>6. k \in Nat /\ Cardinality(Ahead(r, Reader)) = k - 1 /\ x <= k - 1
    BY SMTT(30), <1>1, <1>2, <1>3, <1>5, AheadOf DEF IsCut
  <1>7. CASE k <= x + Limit
    <2>1. k - x \in 1 .. Len(c)
      BY <1>1, <1>3, <1>5, <1>6, <1>7 DEF IsCut
    <2>2. c[k - x] = s[x + (k - x)] /\ x + (k - x) = k
      BY <1>1, <1>3, <1>6, <2>1 DEF IsCut
    <2>3. k - x \in DOMAIN c /\ c[k - x] = r
      BY <1>1, <1>5, <2>1, <2>2 DEF IsCut
    <2> QED
      BY <2>3 DEF Range
  <1>8. CASE ~(k <= x + Limit)
    <2>1. x + Limit <= k - 1
      BY <1>1, <1>6, <1>8
    <2>2. ASSUME counted.at = Reader, result' = "ok" PROVE FALSE
      <3>1. counted.total = Len(s) /\ Len(s) \in Nat
        BY <1>1, <2>2 DEF CountOK, IsCut
      <3>2. Len(s) <= x + Limit
        BY <1>1, <1>4, <2>2, <3>1
      <3> QED
        BY <1>1, <1>5, <1>8, <3>1, <3>2
    <2> QED
      BY <1>4, <1>6, <2>1, <2>2
  <1> QED
    BY <1>7, <1>8

LEMMA AheadFinite ==
  ASSUME LogInv, NEW i \in DOMAIN log, NEW r
  PROVE  IsFiniteSet(Ahead(r, i)) /\ Cardinality(Ahead(r, i)) \in Nat
  <1>1. PICK S : S = {s \in Matching(i) : Newer(s, r)}
    OBVIOUS
  <1>2. IsFiniteSet(S)
    BY <1>1, MatchingFacts, FS_Subset
  <1>3. PICK f : f = [s \in S |-> s.id]
    OBVIOUS
  <1>4. f \in Surjection(S, Ahead(r, i))
    BY <1>1, <1>3 DEF Surjection, Ahead, IdsIn
  <1> QED
    BY <1>2, <1>4, FS_Surjection, FS_CardinalityType

\* A row with fewer rows before it comes first.
LEMMA AheadOrders ==
  ASSUME LogInv, NEW i \in DOMAIN log, NEW r \in Matching(i), NEW t \in Matching(i),
         Cardinality(Ahead(r, i)) < Cardinality(Ahead(t, i))
  PROVE  Newer(r, t)
  <1>1. Distinct(Matching(i)) /\ \A s \in Matching(i) : Stamped(s)
    BY MatchingFacts, RowStamped
  <1>2. r.id # t.id
    <2>1. r = t => FALSE
      BY AheadFinite
    <2> QED
      BY <1>1, <2>1 DEF Distinct
  <1>3. CASE Newer(t, r)
    <2>1. Ahead(t, i) \subseteq Ahead(r, i)
      BY <1>1, <1>3, NewerOrder DEF Ahead, IdsIn
    <2>2. Cardinality(Ahead(t, i)) <= Cardinality(Ahead(r, i))
      BY <2>1, AheadFinite, FS_Subset
    <2> QED
      BY <2>2, AheadFinite
  <1> QED
    BY <1>1, <1>2, <1>3, NewerOrder

\* The rows before one are never less than they were, if none has left the list.
LEMMA AheadGrows ==
  ASSUME LogInv, query.kind \in KeysetKinds, NEW i \in DOMAIN log, NEW j \in DOMAIN log, i <= j,
         IdsIn(Matching(i)) \subseteq IdsIn(Matching(j)),
         NEW r \in Matching(i), NEW q \in Matching(j), r.id = q.id
  PROVE  /\ Cardinality(Ahead(r, i)) \in Nat /\ Cardinality(Ahead(q, j)) \in Nat
         /\ Cardinality(Ahead(r, i)) <= Cardinality(Ahead(q, j))
  <1>1. /\ Matching(i) \subseteq log[i].rows /\ Matching(j) \subseteq log[j].rows
        /\ IsFiniteSet(Matching(j))
    BY MatchingFacts
  <1>2. r.at = q.at
    BY <1>1, SameRow
  <1>3. Ahead(r, i) \subseteq Ahead(q, j)
    <2> SUFFICES ASSUME NEW s \in Matching(i), Newer(s, r)
                 PROVE  s.id \in Ahead(q, j)
      BY DEF Ahead, IdsIn
    <2>1. PICK t \in Matching(j) : t.id = s.id
      BY DEF IdsIn
    <2>2. t.at = s.at
      BY <1>1, <2>1, SameRow
    <2>3. Newer(t, q)
      BY <1>2, <2>1, <2>2 DEF Newer
    <2> QED
      BY <2>1, <2>3 DEF Ahead, IdsIn
  <1> QED
    BY <1>3, AheadFinite, FS_Subset

LEMMA NumberKept ==
  ASSUME WalkInv, NumberInv, [Next]_vars
  PROVE  NumberInv'
  <1>1. query' = query
    BY StepShapes DEF Advances
  <1>2. CASE query.follow # "page"
    BY <1>1, <1>2 DEF NumberInv
  <1>3. CASE query.follow = "page"
    <2>1. CASE Carries
      BY <1>1, <2>1 DEF Carries, NumberInv
    <2>2. CASE AnswersAll
      BY <1>1, <2>2 DEF AnswersAll, AnswerAll, Stop, NumberInv
    <2>3. cursor = None /\ {r \in Matching(Reader) : AfterCursor(r)} = Matching(Reader)
      BY <1>3 DEF NumberInv, AfterCursor
    <2>4. CASE \E s : AnswersPage(Matching(Reader), s, Offset)
      BY <1>3, <2>4, PageTurned
    <2> QED
      BY <2>1, <2>2, <2>3, <2>4, StepShapes
  <1> QED
    BY <1>2, <1>3

\* While the client reads, nothing leaves the list,
Grew ==
  \A i, j \in FirstPage.selected .. LastPage.selected :
    i <= j => IdsIn(Matching(i)) \subseteq IdsIn(Matching(j))

\* and nothing is committed between the COUNT and the SELECT of a page.
Undisturbed == \A i \in DOMAIN pages : pages[i].counted = pages[i].selected

\* id is in the list, after as many rows as there are on the pages so far.
Awaited(id, i) ==
  \E r \in Matching(i) : r.id = id /\ Len(pages) * Limit <= Cardinality(Ahead(r, i))

\* Of what was in the list at first, the client has a row or reads on to it.
KeepInv ==
  query.follow = "page" /\ query.kind \in KeysetKinds /\ pages # << >> /\ Grew /\ Undisturbed =>
    \A id \in IdsIn(Matching(FirstPage.selected)) :
      id \in IdsIn(Listed) \/ (result # "ok" /\ Awaited(id, LastPage.selected))

LEMMA KeepCarried ==
  ASSUME WalkInv, KeepInv, Carries
  PROVE  KeepInv'
  <1>1. /\ UNCHANGED <<query, pages>> /\ Listed' = Listed /\ (Undisturbed' <=> Undisturbed)
        /\ Limit' = Limit /\ (result' = "ok" => result = "ok")
    BY QueryKept DEF Carries, Advances, Listed, Undisturbed
  <1>2. CASE pages = << >>
    BY <1>1, <1>2 DEF KeepInv
  <1>3. CASE pages # << >>
    <2>1. PICK f, l : f = FirstPage.selected /\ l = LastPage.selected
      OBVIOUS
    <2>2. (FirstPage.selected)' = f /\ (LastPage.selected)' = l
      BY <1>1, <2>1 DEF FirstPage, LastPage
    <2>3. \A i \in f .. l : Matching(i)' = Matching(i)
      BY <1>1, <1>3, <2>1, StayedKept DEF Carries
    <2>4. f \in f .. l /\ l \in f .. l
      BY <1>3, <2>1, PagesFacts DEF FirstPage, LastPage
    <2>5. Grew' <=> Grew
      BY <2>1, <2>2, <2>3 DEF Grew, IdsIn
    <2>6. Matching(LastPage.selected)' = Matching(l) /\ Matching(FirstPage.selected)' = Matching(f)
      BY <2>2, <2>3, <2>4 DEF Matching
    <2>7. \A r : Ahead(r, LastPage.selected)' = Ahead(r, l)
      BY <2>6 DEF Ahead, IdsIn
    <2>8. \A id : Awaited(id, LastPage.selected)' <=> Awaited(id, l)
      BY <1>1, <2>6, <2>7 DEF Awaited
    <2> QED
      BY <1>1, <2>1, <2>5, <2>6, <2>8 DEF KeepInv, IdsIn
  <1> QED
    BY <1>2, <1>3

\* The next page has the rows that follow those before it, or they are awaited.
LEMMA KeepPage ==
  ASSUME WalkInv, NumberInv, KeepInv, query.follow = "page", query.kind \in KeysetKinds,
         NEW s, AnswersPage(Matching(Reader), s, Offset), Sorted(s)
  PROVE  KeepInv'
  <1>1. PICK c, n : c = Cut(s, Offset) /\ n = Len(pages)
    OBVIOUS
  <1>2. Receives(c, n) /\ CountOK /\ n \in Nat /\ Limit \in Nat /\ 1 <= Limit
    BY <1>1, PageTurned
  <1>3. PICK f, l : f = (FirstPage.selected)' /\ l = Reader
    OBVIOUS
  <1>4. LogInv /\ DOMAIN log = 1 .. Len(log) /\ Len(log) \in Nat
    BY LogFacts DEF WalkInv
  <1>5. /\ f \in DOMAIN log /\ l \in DOMAIN log /\ f <= l
        /\ pages # << >> => f = FirstPage.selected
    BY <1>2, <1>3, <1>4, PagesFacts DEF Receives, FirstPage
  <1>6. f .. l \subseteq DOMAIN log /\ f \in f .. l /\ l \in f .. l
    BY <1>4, <1>5
  <1>7. \A i \in f .. l : Matching(i)' = Matching(i)
    BY <1>2, <1>6 DEF Receives
  <1>8. /\ Limit' = Limit /\ Matching(LastPage.selected)' = Matching(l)
        /\ Matching(FirstPage.selected)' = Matching(f)
        /\ (LastPage.selected)' = l /\ Len(pages') = n + 1 /\ Listed' = Listed \cup Range(c)
    BY <1>2, <1>3, <1>6, <1>7, QueryKept DEF Receives, Matching
  <1>9. \A r : Ahead(r, LastPage.selected)' = Ahead(r, l)
    BY <1>8 DEF Ahead, IdsIn
  <1>10. SUFFICES ASSUME Grew', Undisturbed', NEW id \in IdsIn(Matching(f))
                  PROVE  \/ id \in IdsIn(Listed \cup Range(c))
                         \/ /\ result' # "ok"
                            /\ \E r \in Matching(l) :
                                 r.id = id /\ (n + 1) * Limit <= Cardinality(Ahead(r, l))
    <2>1. \A id : Awaited(id, LastPage.selected)' <=>
                    \E r \in Matching(l) :
                      r.id = id /\ (n + 1) * Limit <= Cardinality(Ahead(r, l))
      BY <1>8, <1>9 DEF Awaited
    <2>2. \A id : id \in IdsIn(Listed)' <=> id \in IdsIn(Listed \cup Range(c))
      BY <1>8 DEF IdsIn
    <2>3. \A id : id \in IdsIn(Matching(FirstPage.selected))' <=> id \in IdsIn(Matching(f))
      BY <1>8 DEF IdsIn
    <2> QED
      BY <2>1, <2>2, <2>3 DEF KeepInv
  <1>11. \A i, j \in f .. l : i <= j => IdsIn(Matching(i)) \subseteq IdsIn(Matching(j))
    BY <1>3, <1>7, <1>8, <1>10 DEF Grew, IdsIn
  <1>12. counted.at = Reader
    <2>1. n + 1 \in DOMAIN pages'
      BY <1>2 DEF Receives
    <2> QED
      BY <1>2, <1>10, <2>1 DEF Receives, Undisturbed
  <1>13. \/ id \in IdsIn(Listed)
         \/ \E r \in Matching(l) : r.id = id /\ n * Limit <= Cardinality(Ahead(r, l))
    <2>1. PICK r \in Matching(l) : r.id = id
      <3>1. IdsIn(Matching(f)) \subseteq IdsIn(Matching(l))
        BY <1>5, <1>6, <1>11
      <3> QED
        BY <1>10, <3>1 DEF IdsIn
    <2>2. CASE pages = << >>
      <3>1. Cardinality(Ahead(r, l)) \in Nat
        BY <1>4, <1>5, <2>1, AheadGrows
      <3>2. n * Limit = 0
        BY <1>2, <2>2 DEF Receives
      <3> QED
        BY <2>1, <3>1, <3>2
    <2>3. CASE pages # << >>
      <3>1. PICK m : m = LastPage.selected
        OBVIOUS
      <3>2. m \in f .. l /\ FirstPage.selected = f /\ m \in DOMAIN log
        BY <1>3, <1>5, <2>3, <3>1, PagesFacts DEF FirstPage, LastPage
      <3>3. Grew
        BY <1>4, <1>5, <1>11, <3>1, <3>2 DEF Grew
      <3>4. Undisturbed
        BY <1>2, <1>10 DEF Receives, Undisturbed
      <3>5. CASE id \in IdsIn(Listed)
        BY <3>5
      <3>6. CASE id \notin IdsIn(Listed)
        <4>1. PICK q \in Matching(m) :
                q.id = id /\ n * Limit <= Cardinality(Ahead(q, m))
          BY <1>1, <1>10, <2>3, <3>1, <3>2, <3>3, <3>4, <3>6 DEF KeepInv, Awaited
        <4>2. /\ Cardinality(Ahead(q, m)) \in Nat /\ Cardinality(Ahead(r, l)) \in Nat
              /\ Cardinality(Ahead(q, m)) <= Cardinality(Ahead(r, l))
          <5>1. m <= l /\ IdsIn(Matching(m)) \subseteq IdsIn(Matching(l))
            BY <1>4, <1>5, <1>6, <1>11, <3>2
          <5> QED
            BY <1>4, <1>5, <2>1, <3>2, <4>1, <5>1, AheadGrows
        <4>3. n * Limit \in Nat
          BY <1>2
        <4> QED
          BY <2>1, <4>1, <4>2, <4>3
      <3> QED
        BY <3>5, <3>6
    <2> QED
      BY <2>2, <2>3
  <1>14. CASE id \in IdsIn(Listed)
    BY <1>14 DEF IdsIn
  <1>15. ASSUME NEW r \in Matching(l), r.id = id, n * Limit <= Cardinality(Ahead(r, l))
         PROVE  \/ id \in IdsIn(Listed \cup Range(c))
                \/ result' # "ok" /\ (n + 1) * Limit <= Cardinality(Ahead(r, l))
    <2>1. \/ r \in Range(c)
          \/ result' # "ok" /\ (n + 1) * Limit <= Cardinality(Ahead(r, l))
      BY <1>1, <1>3, <1>12, <1>15, OnPageOrAfter
    <2> QED
      BY <1>15, <2>1 DEF IdsIn
  <1> QED
    BY <1>13, <1>14, <1>15

LEMMA KeepInvariant == Spec => [](WalkInv /\ NumberInv /\ KeepInv)
  <1>1. Init => NumberInv /\ KeepInv
    BY DEF Init, NumberInv, KeepInv
  <1>2. ASSUME WalkInv, NumberInv, KeepInv, [Next]_vars
        PROVE  KeepInv'
    <2>1. query' = query
      BY <1>2, StepShapes DEF Advances
    <2>2. CASE ~(query.follow = "page" /\ query.kind \in KeysetKinds)
      BY <2>1, <2>2 DEF KeepInv
    <2>3. CASE query.follow = "page" /\ query.kind \in KeysetKinds
      <3>1. CASE Carries
        BY <1>2, <3>1, KeepCarried
      <3>2. query.kind \notin {"users", "roles", "categories", "tags"} /\ ~AnswersAll
        BY <2>3 DEF KeysetKinds, AnswersAll, Self
      <3>3. cursor = None /\ {r \in Matching(Reader) : AfterCursor(r)} = Matching(Reader)
        BY <1>2, <2>3 DEF NumberInv, AfterCursor
      <3>4. ASSUME NEW s \in KeysetOrders(Matching(Reader)), AnswersPage(Matching(Reader), s, Offset)
            PROVE  KeepInv'
        <4>1. Sorted(s)
          <5>1. IsFiniteSet(Matching(Reader)) /\ s \in SetToSeqs(Matching(Reader))
            BY <1>2, <3>4, LogFacts, MatchingFacts DEF WalkInv, KeysetOrders
          <5> QED
            BY <3>4, <5>1, Ordered DEF KeysetOrders, Sorted
        <4> QED
          BY <1>2, <2>3, <3>4, <4>1, KeepPage
      <3> QED
        BY <1>2, <3>1, <3>2, <3>3, <3>4, StepShapes
    <2> QED
      BY <2>2, <2>3
  <1> QED
    BY <1>1, <1>2, NumberKept, WalkInvariant, PTL DEF Spec

\* By number a client misses no row that stays in its list, however many are put
\* before it between the pages, if nothing is committed between the COUNT and
\* the SELECT of one (account.go:157-162).
THEOREM PageWalkKept == Spec => []PageWalkKeeps
  <1>1. ASSUME WalkInv, KeepInv, HasRead("page"), query.kind \in KeysetKinds, Grew, Undisturbed
        PROVE  IdsIn(Matching(FirstPage.selected)) \subseteq IdsIn(Listed)
    BY <1>1 DEF HasRead, WalkInv, KeepInv
  <1>2. WalkInv /\ KeepInv => PageWalkKeeps
    BY <1>1 DEF PageWalkKeeps, Grew, Undisturbed
  <1> QED
    BY <1>2, KeepInvariant, PTL

\* One version, in which the order of the list is total.
Orderly(i) == query.kind \in KeysetKinds \/ \A r, s \in Matching(i) : r.at = s.at => r = s

Quiet == /\ pages # << >> /\ FirstPage.counted = LastPage.selected
         /\ Orderly(LastPage.selected)

\* r has fewer rows before it than there are on the pages so far.
Passed(r, i) == Cardinality(Ahead(r, i)) < Len(pages) * Limit

\* Of one version, the client has the rows that come first, in order.
QuietInv ==
  query.follow = "page" /\ query.kind \in WalkedKinds /\ ~Self /\ Quiet =>
    /\ InOrder
    /\ \A r \in Listed : Passed(r, LastPage.selected)
    /\ \A r \in Matching(LastPage.selected) :
         r \in Listed \/ (result # "ok" /\ ~Passed(r, LastPage.selected))

LEMMA QuietCarried ==
  ASSUME WalkInv, QuietInv, Carries
  PROVE  QuietInv'
  <1>1. /\ UNCHANGED <<query, pages>> /\ Listed' = Listed /\ (InOrder' <=> InOrder)
        /\ Limit' = Limit /\ (result' = "ok" => result = "ok") /\ (Self' <=> Self)
    BY QueryKept DEF Carries, Advances, Listed, InOrder
  <1>2. CASE pages = << >>
    BY <1>1, <1>2 DEF QuietInv, Quiet
  <1>3. CASE pages # << >>
    <2>1. PICK l : l = LastPage.selected
      OBVIOUS
    <2>2. (LastPage.selected)' = l /\ FirstPage' = FirstPage
      BY <1>1, <2>1 DEF FirstPage, LastPage
    <2>3. Matching(l)' = Matching(l)
      <3>1. l \in DOMAIN log
        BY <1>3, <2>1, PagesFacts DEF LastPage
      <3> QED
        BY <3>1, MatchingKept DEF Carries
    <2>4. Matching(LastPage.selected)' = Matching(l)
      BY <2>2, <2>3 DEF Matching
    <2>5. Quiet' <=> Quiet
      BY <1>1, <2>1, <2>2, <2>4 DEF Quiet, Orderly
    <2>6. \A r : Passed(r, LastPage.selected)' <=> Passed(r, l)
      BY <1>1, <2>4 DEF Passed, Ahead, IdsIn
    <2> QED
      BY <1>1, <2>1, <2>4, <2>5, <2>6 DEF QuietInv
  <1> QED
    BY <1>2, <1>3

\* An order by time alone is the one order if all times differ.
LEMMA LooseSorted ==
  ASSUME LogInv, NEW i \in DOMAIN log, Orderly(i),
         NEW s, \/ query.kind \in KeysetKinds /\ s \in KeysetOrders(Matching(i))
                \/ query.kind \in {"users", "roles"} /\ s \in LooseOrders(Matching(i))
  PROVE  s \in SetToSeqs(Matching(i)) /\ Sorted(s)
  <1>1. s \in SetToSeqs(Matching(i))
    BY DEF KeysetOrders, LooseOrders
  <1>2. /\ s \in Seq(Matching(i)) /\ DOMAIN s = 1 .. Len(s)
        /\ \A j, k \in 1 .. Len(s) : j # k => s[j] # s[k]
    BY <1>1, MatchingFacts, Ordered
  <1>3. CASE s \in KeysetOrders(Matching(i))
    BY <1>2, <1>3 DEF KeysetOrders, Sorted
  <1>4. CASE query.kind \in {"users", "roles"} /\ s \in LooseOrders(Matching(i))
    <2> SUFFICES ASSUME NEW j \in 1 .. Len(s), NEW k \in 1 .. Len(s), j < k
                 PROVE  Newer(s[j], s[k])
      BY <1>1 DEF Sorted
    <2>1. s[j] \in Matching(i) /\ s[k] \in Matching(i) /\ s[j] # s[k] /\ s[j].at >= s[k].at
      BY <1>2, <1>4, ElementOfSeq DEF LooseOrders
    <2>2. s[j].at # s[k].at
      BY <1>4, <2>1 DEF Orderly, KeysetKinds
    <2>3. Stamped(s[j]) /\ Stamped(s[k])
      BY <2>1, MatchingFacts, RowStamped
    <2> QED
      BY <2>1, <2>2, <2>3 DEF Newer, Stamped
  <1> QED
    BY <1>1, <1>3, <1>4

\* Pages of one version are counted and selected in it.
LEMMA OneVersion ==
  ASSUME WalkInv, ~Self, pages # << >>, FirstPage.counted = LastPage.selected
  PROVE  /\ FirstPage.selected = LastPage.selected /\ LastPage.selected \in DOMAIN log
         /\ Listed \subseteq Matching(LastPage.selected)
         /\ \A i \in DOMAIN pages : pages[i].total = Cardinality(Matching(LastPage.selected))
  <1>1. PICK l : l = LastPage.selected
    OBVIOUS
  <1>2. /\ 1 \in DOMAIN pages /\ Len(pages) \in DOMAIN pages /\ l \in Nat
        /\ DOMAIN pages = 1 .. Len(pages) /\ Len(pages) \in Nat /\ l \in DOMAIN log
        /\ pages[1].counted = l /\ pages[Len(pages)].selected = l
    BY <1>1, PagesFacts DEF FirstPage, LastPage
  <1>3. ASSUME NEW i \in DOMAIN pages
        PROVE  pages[i].counted = l /\ pages[i].selected = l
    <2>1. /\ pages[1].counted <= pages[1].selected /\ pages[1].counted <= pages[i].counted
          /\ pages[i].counted <= pages[i].selected /\ pages[i].selected <= l
          /\ pages[i].selected \in Nat /\ pages[i].counted \in Nat
      <3>1. CASE i = 1
        BY <1>2, <3>1, PagesFacts
      <3>2. CASE i # 1
        <4>1. 1 < i /\ i <= Len(pages)
          BY <1>2, <3>2
        <4>2. pages[1].selected <= pages[i].counted
          BY <1>2, <4>1 DEF WalkInv
        <4>3. pages[1].counted <= pages[1].selected /\ pages[i].selected <= l
          BY <1>2, <4>1, PagesFacts
        <4> QED
          BY <1>2, <4>2, <4>3, PagesFacts
      <3> QED
        BY <3>1, <3>2
    <2> QED
      BY <1>2, <2>1
  <1>4. \A i \in DOMAIN pages : /\ Range(pages[i].rows) \subseteq Matching(l)
                               /\ pages[i].total = Cardinality(Matching(l))
    BY <1>3, PagesFacts DEF PageOK
  <1>5. Listed \subseteq Matching(l)
    BY <1>4 DEF Listed
  <1> QED
    BY <1>1, <1>2, <1>3, <1>4, <1>5 DEF FirstPage

\* The next page of the same version goes on where the last one ended.
LEMMA QuietPage ==
  ASSUME WalkInv, NumberInv, QuietInv, query.follow = "page", query.kind \in WalkedKinds, ~Self,
         NEW s, AnswersPage(Matching(Reader), s, Offset), Orderly(Reader) => Sorted(s)
  PROVE  QuietInv'
  <1>1. PICK c, n, l : c = Cut(s, Offset) /\ n = Len(pages) /\ l = Reader
    OBVIOUS
  <1>2. /\ Receives(c, n) /\ CountOK /\ n \in Nat /\ Limit \in Nat /\ 1 <= Limit
        /\ IsCut(Matching(Reader), s, n * Limit, c)
    BY <1>1, PageTurned
  <1>3. /\ LogInv /\ l \in DOMAIN log /\ l \in Nat /\ DOMAIN log = 1 .. Len(log)
        /\ s \in SetToSeqs(Matching(l))
    BY <1>1, LogFacts DEF WalkInv, AnswersPage
  <1>4. /\ Limit' = Limit /\ query' = query /\ (LastPage.selected)' = l
        /\ Len(pages') = n + 1 /\ Listed' = Listed \cup Range(c) /\ Matching(l)' = Matching(l)
    BY <1>1, <1>2, <1>3, QueryKept DEF Receives
  <1>5. Matching(LastPage.selected)' = Matching(l)
    BY <1>4 DEF Matching
  <1>6. \A r : Passed(r, LastPage.selected)' <=> Cardinality(Ahead(r, l)) < (n + 1) * Limit
    BY <1>4, <1>5 DEF Passed, Ahead, IdsIn
  <1>7. Orderly(LastPage.selected)' <=> Orderly(l)
    BY <1>4, <1>5 DEF Orderly
  <1>8. SUFFICES ASSUME Orderly(l), (FirstPage.counted)' = l
                 PROVE  /\ InOrder'
                        /\ \A r \in Listed \cup Range(c) :
                             Cardinality(Ahead(r, l)) < (n + 1) * Limit
                        /\ \A r \in Matching(l) :
                             \/ r \in Listed \cup Range(c)
                             \/ /\ result' # "ok"
                                /\ (n + 1) * Limit <= Cardinality(Ahead(r, l))
    <2>1. \A r : Cardinality(Ahead(r, l)) \in Nat
      BY <1>3, AheadFinite
    <2>2. (n + 1) * Limit \in Nat
      BY <1>2
    <2>3. \A r : (n + 1) * Limit <= Cardinality(Ahead(r, l)) <=>
                   ~(Cardinality(Ahead(r, l)) < (n + 1) * Limit)
      BY <2>1, <2>2
    <2> QED
      BY <1>4, <1>5, <1>6, <1>7, <2>3 DEF QuietInv, Quiet
  <1>9. Sorted(s)
    BY <1>1, <1>8
  <1>10. counted.at = l /\ (pages # << >> => Quiet /\ LastPage.selected = l)
    <2>1. CASE pages = << >>
      BY <1>2, <1>8, <2>1 DEF Receives, FirstPage
    <2>2. CASE pages # << >>
      <3>1. /\ FirstPage.counted = l
            /\ FirstPage.counted <= FirstPage.selected
            /\ FirstPage.selected <= LastPage.selected
            /\ LastPage.selected <= counted.at /\ counted.at <= l
            /\ FirstPage.selected \in Nat /\ LastPage.selected \in Nat /\ counted.at \in Nat
        BY <1>1, <1>2, <1>3, <1>8, <2>2, PagesFacts DEF Receives, CountOK, FirstPage, LastPage
      <3>2. LastPage.selected = l /\ counted.at = l
        BY <1>3, <3>1
      <3> QED
        BY <1>8, <2>2, <3>1, <3>2 DEF Quiet
    <2> QED
      BY <2>1, <2>2
  <1>11. PICK x \in Nat : x = n * Limit /\ (n + 1) * Limit = x + Limit
    BY <1>2
  <1>12. /\ pages = << >> => Listed = {} /\ x = 0
         /\ InOrder
         /\ \A r \in Listed : r \in Matching(l) /\ Cardinality(Ahead(r, l)) < x
         /\ \A r \in Matching(l) : r \in Listed \/ x <= Cardinality(Ahead(r, l))
    <2>1. \A r : Cardinality(Ahead(r, l)) \in Nat
      BY <1>3, AheadFinite
    <2>2. CASE pages = << >>
      <3>1. Listed = {} /\ InOrder /\ x = 0
        BY <1>2, <1>11, <2>2 DEF Listed, InOrder, Receives
      <3> QED
        BY <2>1, <3>1
    <2>3. CASE pages # << >>
      <3>1. InOrder /\ \A r \in Listed : Passed(r, l)
        BY <1>10, <2>3 DEF QuietInv
      <3>2. \A r \in Matching(l) : r \in Listed \/ ~Passed(r, l)
        BY <1>10, <2>3 DEF QuietInv
      <3>3. Listed \subseteq Matching(l)
        BY <1>10, <2>3, OneVersion DEF Quiet
      <3> QED
        BY <1>1, <1>11, <2>1, <2>3, <3>1, <3>2, <3>3 DEF Passed
    <2> QED
      BY <2>2, <2>3
  <1>13. ASSUME NEW k \in DOMAIN c
         PROVE  /\ c[k] \in Matching(l) /\ k \in Nat /\ x + k \in 1 .. Len(s) /\ c[k] = s[x + k]
                /\ x <= Cardinality(Ahead(c[k], l))
                /\ Cardinality(Ahead(c[k], l)) < x + Limit
    <2>1. /\ k \in 1 .. Len(c) /\ Len(c) \in Nat /\ Len(c) <= Limit
          /\ x + k \in 1 .. Len(s) /\ c[k] = s[x + k] /\ s[x + k] \in Matching(l)
      BY <1>1, <1>2, <1>11, <1>13 DEF IsCut
    <2>2. Cardinality(Ahead(s[x + k], l)) = (x + k) - 1
      BY <1>3, <1>9, <2>1, AheadOf
    <2> QED
      BY <1>2, <2>1, <2>2
  <1>14. InOrder'
    <2>1. \A j, k \in DOMAIN c : j < k => Newer(c[j], c[k])
      BY <1>9, <1>13 DEF Sorted
    <2>2. ASSUME NEW r \in Listed, NEW t \in Range(c) PROVE Newer(r, t)
      <3>1. t \in Matching(l) /\ x <= Cardinality(Ahead(t, l))
        BY <1>13, <2>2 DEF Range
      <3>2. r \in Matching(l) /\ Cardinality(Ahead(r, l)) < x
        BY <1>12
      <3>3. Cardinality(Ahead(r, l)) < Cardinality(Ahead(t, l))
        BY <1>3, <3>1, <3>2, AheadFinite
      <3> QED
        BY <1>3, <3>1, <3>2, <3>3, AheadOrders
    <2>3. /\ DOMAIN pages = 1 .. n /\ DOMAIN pages' = 1 .. (n + 1)
          /\ (\A i \in 1 .. n : pages'[i] = pages[i]) /\ pages'[n + 1].rows = c
      BY <1>2 DEF Receives
    <2> QED
      BY <1>2, <1>12, <2>1, <2>2, <2>3, OrderExtended
  <1>15. \A r \in Listed \cup Range(c) : Cardinality(Ahead(r, l)) < (n + 1) * Limit
    <2>1. \A r \in Range(c) : Cardinality(Ahead(r, l)) < x + Limit
      BY <1>13 DEF Range
    <2>2. \A r \in Listed : Cardinality(Ahead(r, l)) < x + Limit
      BY <1>2, <1>3, <1>12, AheadFinite
    <2> QED
      BY <1>11, <2>1, <2>2
  <1>16. ASSUME NEW r \in Matching(l), r \notin Listed
         PROVE  r \in Range(c) \/ (result' # "ok" /\ (n + 1) * Limit <= Cardinality(Ahead(r, l)))
    <2>1. n * Limit <= Cardinality(Ahead(r, Reader))
      BY <1>1, <1>11, <1>12, <1>16
    <2> QED
      BY <1>1, <1>9, <1>10, <1>16, <2>1, OnPageOrAfter
  <1> QED
    BY <1>14, <1>15, <1>16

LEMMA QuietInvariant == Spec => [](WalkInv /\ NumberInv /\ QuietInv)
  <1>1. Init => NumberInv /\ QuietInv
    BY DEF Init, NumberInv, QuietInv, Quiet
  <1>2. ASSUME WalkInv, NumberInv, QuietInv, [Next]_vars
        PROVE  QuietInv'
    <2>1. query' = query /\ (Self' <=> Self)
      BY <1>2, StepShapes, QueryKept DEF Advances
    <2>2. CASE ~(query.follow = "page" /\ query.kind \in WalkedKinds /\ ~Self)
      BY <2>1, <2>2 DEF QuietInv
    <2>3. CASE query.follow = "page" /\ query.kind \in WalkedKinds /\ ~Self
      <3>1. CASE Carries
        BY <1>2, <3>1, QuietCarried
      <3>2. ~AnswersAll
        BY <2>3 DEF WalkedKinds, KeysetKinds, AnswersAll
      <3>3. cursor = None /\ {r \in Matching(Reader) : AfterCursor(r)} = Matching(Reader)
        BY <1>2, <2>3 DEF NumberInv, AfterCursor
      <3>4. ASSUME NEW s, AnswersPage(Matching(Reader), s, Offset),
                   \/ query.kind \in KeysetKinds /\ s \in KeysetOrders(Matching(Reader))
                   \/ query.kind \in {"users", "roles"} /\ s \in LooseOrders(Matching(Reader))
            PROVE  QuietInv'
        <4>1. Orderly(Reader) => Sorted(s)
          BY <1>2, <3>4, LogFacts, LooseSorted DEF WalkInv
        <4> QED
          BY <1>2, <2>3, <3>4, <4>1, QuietPage
      <3> QED
        BY <1>2, <3>1, <3>2, <3>3, <3>4, StepShapes
    <2> QED
      BY <2>2, <2>3
  <1> QED
    BY <1>1, <1>2, NumberKept, WalkInvariant, PTL DEF Spec

\* While nothing changes the pages are the list, cut: every row once and in
\* order, with the total in each, by cursor or by number; lists ordered by
\* created_at alone need different times for it (user.go:196, role.go:143).
THEOREM QuietWalkKept == Spec => []QuietWalkExact
  <1>1. ASSUME WalkInv, CursorInv, QuietInv, result = "ok", query.kind \in WalkedKinds,
               query.caller \notin Ids, Quiet
        PROVE  /\ InOrder /\ Listed = Matching(LastPage.selected)
               /\ \A i \in DOMAIN pages :
                    pages[i].total = Cardinality(Matching(LastPage.selected))
    <2>1. PICK l : l = LastPage.selected
      OBVIOUS
    <2>2. pages # << >> /\ FirstPage.counted = l
      BY <1>1, <2>1 DEF Quiet
    <2>3. ~Self
      BY <1>1, <2>2, PagesFacts DEF PageOK
    <2>4. /\ FirstPage.selected = l /\ l \in DOMAIN log /\ Listed \subseteq Matching(l)
          /\ \A i \in DOMAIN pages : pages[i].total = Cardinality(Matching(l))
      BY <1>1, <2>1, <2>2, <2>3, OneVersion
    <2>5. CASE query.follow = "page"
      <3>1. InOrder /\ \A r \in Matching(l) : r \in Listed
        BY <1>1, <2>1, <2>3, <2>5 DEF QuietInv
      <3> QED
        BY <2>1, <2>4, <3>1
    <2>6. CASE query.follow = "cursor"
      <3>1. InOrder /\ cursor = None
        BY <1>1, <2>6 DEF CursorInv
      <3>2. ASSUME NEW r \in Matching(l) PROVE r \in Listed
        <4>1. r.id \in Ids /\ l \in Nat /\ Distinct(Matching(l))
          BY <1>1, <2>4, <3>2, MatchingFacts, LogFacts DEF WalkInv, Row
        <4>2. Stayed(r.id)
          <5>1. l .. l = {l}
            BY <4>1
          <5> QED
            BY <2>1, <2>4, <3>2, <5>1 DEF Stayed, IdsIn
        <4>3. PICK t \in Listed : t.id = r.id
          BY <1>1, <2>2, <2>6, <3>1, <4>1, <4>2 DEF CursorInv, IdsIn
        <4> QED
          BY <2>4, <3>2, <4>1, <4>3 DEF Distinct
      <3> QED
        BY <2>1, <2>4, <3>1, <3>2
    <2> QED
      BY <1>1, <2>5, <2>6, QueryFacts DEF WalkInv, LogInv
  <1>2. WalkInv /\ CursorInv /\ QuietInv => QuietWalkExact
    BY <1>1 DEF QuietWalkExact, Quiet, Orderly, WalkedKinds, WalkInv
  <1> QED
    BY <1>2, CursorInvariant, QuietInvariant, PTL

===============================================================================
