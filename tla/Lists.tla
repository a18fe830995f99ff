--------------------------------- MODULE Lists ---------------------------------
(***************************************************************************)
(* The lists: statements and accounts by cursor or page number, users and  *)
(* roles by page number, categories and tags whole.                        *)
(*                                                                         *)
(* A page is made by a COUNT and a SELECT in one READ COMMITTED            *)
(* transaction on the reader, so that each sees what is committed and      *)
(* replicated when it starts.  A behaviour is one client that reads a list *)
(* to its end, page after page, while other requests change the table.     *)
(***************************************************************************)
EXTENDS Integers, Sequences, FiniteSets, SequencesExt

CONSTANTS
  Ids,           \* UUIDs, in their order
  Times,         \* posted_at and created_at
  Owners,        \* the account of a statement, the user of anything else
  Types,         \* credit, debit; the type of an account
  Labels,        \* what can be changed and filtered on: a name, a category
  Trusted,       \* an admin, or a caller with a service key
  None,          \* no filter, no owner, no cursor
  HolderOf,      \* HolderOf[a]: the user who owns account a
  Seeds,         \* Seeds[k]: the rows of list k at first
  Additions,     \* Additions[k]: the rows other requests may add to it
  Queries,       \* what the client may ask for
  DefaultLimit,  \* the limit of a query that names none
  MaxLimit,      \* the greatest limit
  MaxChanges,    \* bound on the commits while the client reads
  HasReplica     \* is a reader DSN configured

Kinds == {"statements", "accounts", "users", "roles", "categories", "tags"}

\* Lists whose order ends with the id, and which can be read by cursor.
KeysetKinds == {"statements", "accounts"}

\* Lists with a filter on the type.
TypedKinds == {"statements", "accounts", "categories"}

Row == [id : Ids, at : Times, owner : Owners \cup {None}, type : Types,
        label : Labels, active : BOOLEAN]

\* of: the account in the path or the user of the token; malformed: a filter or
\* the cursor does not parse; follow: what the client reads on with.
Query == [kind : Kinds, of : Owners, caller : Owners \cup Ids \cup {Trusted},
          scope : {"any", "system", "user"}, type : Types \cup {None},
          label : Labels \cup {None}, dates : SUBSET Times, activeOnly : BOOLEAN,
          malformed : BOOLEAN, limit : Int, follow : {"cursor", "page"}]

ASSUME LimitsAssumption ==
  DefaultLimit \in 1 .. MaxLimit /\ MaxLimit \in Nat /\ MaxChanges \in Nat
ASSUME ValuesAssumption ==
  /\ Ids \subseteq Nat /\ Times \subseteq Nat
  /\ None \notin Owners \cup Types \cup Labels \cup [at : Times, id : Ids]
  /\ Trusted \notin Owners
  /\ HasReplica \in BOOLEAN
ASSUME TablesAssumption ==
  /\ \A k \in Kinds :
       /\ Seeds[k] \subseteq Row /\ Additions[k] \subseteq Row
       /\ IsFiniteSet(Seeds[k])
       /\ \A r, s \in Seeds[k] : r.id = s.id => r = s
  /\ Queries \subseteq Query
  /\ \A q \in Queries :
       /\ q.follow = "cursor" => q.kind \in KeysetKinds
       /\ q.type # None => q.kind \in TypedKinds

VARIABLES
  log,      \* the committed versions: the rows, and is the account open
  applied,  \* the version the replica has reached
  query,    \* what the client asks for
  pc,       \* the next step of its current request
  page,     \* the page number of that request,
  cursor,   \* and its cursor, which overrides the number
  counted,  \* the total of that request and the version it was counted in
  pages,    \* the pages the client has got
  result    \* how its reading ended

vars == <<log, applied, query, pc, page, cursor, counted, pages, result>>

Current == log[Len(log)]
Reader == IF HasReplica THEN applied ELSE Len(log)
-----------------------------------------------------------------------------
(***************************************************************************)
(* What is in a list: the WHERE clauses.                                   *)
(***************************************************************************)

StatementMatches(r) ==
  /\ r.owner = query.of
  /\ query.type \in {None, r.type}
  /\ query.label \in {None, r.label}
  /\ r.at \in query.dates

AccountMatches(r) ==
  /\ r.owner = query.of
  /\ query.activeOnly => r.active
  /\ query.type \in {None, r.type}
  /\ query.label \in {None, r.label}

UserMatches(r) ==
  /\ query.activeOnly => r.active
  /\ query.label \in {None, r.label}

RoleMatches(r) == query.label \in {None, r.label}

\* The user's own, the system's, or both.
TagMatches(r) ==
  CASE query.scope = "system" -> r.owner = None
    [] query.scope = "user" -> r.owner = query.of
    [] OTHER -> r.owner \in {query.of, None}

\* Faulty: the users' own categories are in every list.
CategoryMatchesAnyOwner(r) == query.scope = "user" \/ r.owner \in {query.of, None}

\* "AND type" is appended to the clause of the scope, and binds closer than
\* the OR in the clause of both.
CategoryMatches(r) ==
  LET typed == query.type \in {None, r.type}
  IN  CASE query.scope = "system" -> r.owner = None /\ typed
        [] query.scope = "user" -> r.owner = query.of /\ typed
        [] OTHER -> r.owner = query.of \/ (r.owner = None /\ typed)

Matches(r) ==
  CASE query.kind = "statements" -> StatementMatches(r)
    [] query.kind = "accounts" -> AccountMatches(r)
    [] query.kind = "users" -> UserMatches(r)
    [] query.kind = "roles" -> RoleMatches(r)
    [] query.kind = "categories" -> CategoryMatches(r)
    [] query.kind = "tags" -> TagMatches(r)

Matching(i) == {r \in log[i].rows : Matches(r)}
-----------------------------------------------------------------------------
(***************************************************************************)
(* Normalize, ORDER BY, OFFSET and the cursor.                             *)
(***************************************************************************)

\* Faulty: the limit has no upper bound.
UnboundedLimit(n) == IF n < 1 THEN DefaultLimit ELSE n

\* Statements and accounts cut a limit that is too great,
CappedLimit(n) == IF n < 1 THEN DefaultLimit ELSE IF n > MaxLimit THEN MaxLimit ELSE n

\* users and roles replace it.
ReplacedLimit(n) == IF n < 1 \/ n > MaxLimit THEN DefaultLimit ELSE n

Limit == IF query.kind \in KeysetKinds THEN CappedLimit(query.limit)
         ELSE ReplacedLimit(query.limit)

Newer(r, s) == r.at > s.at \/ (r.at = s.at /\ r.id > s.id)

\* ORDER BY posted_at DESC, id DESC; created_at DESC, id DESC: one order.
KeysetOrders(rows) ==
  {s \in SetToSeqs(rows) : \A i, j \in DOMAIN s : i < j => Newer(s[i], s[j])}

\* ORDER BY created_at DESC: rows of one time come in any order.
LooseOrders(rows) ==
  {s \in SetToSeqs(rows) : \A i, j \in DOMAIN s : i < j => s[i].at >= s[j].at}

\* Faulty: the row the cursor names is in the next page, too.
AfterCursorInclusive(r) == cursor = None \/ r.id = cursor.id \/ Newer(cursor, r)

\* Faulty: only the times are compared.
AfterCursorByTime(r) == IF cursor = None THEN TRUE ELSE cursor.at > r.at

\* (posted_at, id) < (:cursor_posted_at, :cursor_id), if there is a cursor.
AfterCursor(r) == IF cursor = None THEN TRUE ELSE Newer(cursor, r)

\* The cursor in an answer: the time and id of its last row, if the page is
\* full.  What decodeCursor gets back is what was encoded.
NextCursor(rows) ==
  IF Len(rows) = Limit THEN [at |-> rows[Len(rows)].at, id |-> rows[Len(rows)].id] ELSE None

\* Faulty: page numbers start at 0.
OffsetFromZero == page * Limit

Offset == (page - 1) * Limit

TotalPages(total) == (total + Limit - 1) \div Limit
-----------------------------------------------------------------------------
Init ==
  /\ query   \in Queries
  /\ log     = <<[rows |-> Seeds[query.kind], open |-> TRUE]>>
  /\ applied = 1
  /\ pc      = "idle"
  /\ page    = 1
  /\ cursor  = None
  /\ counted = [total |-> 0, at |-> 1]
  /\ pages   = << >>
  /\ result  = "none"

Stop(answer) == pc' = "done" /\ result' = answer

\* The client gets a page, and asks for the next one or has read the list.
Answer(rows) ==
  /\ pages' = Append(pages, [rows |-> rows, counted |-> counted.at, selected |-> Reader,
                             total |-> counted.total])
  /\ IF query.follow = "cursor"
     THEN /\ cursor' = NextCursor(rows)
          /\ IF NextCursor(rows) = None THEN Stop("ok") ELSE pc' = "idle" /\ UNCHANGED result
          /\ UNCHANGED page
     ELSE /\ IF page < TotalPages(counted.total)
             THEN page' = page + 1 /\ pc' = "idle" /\ UNCHANGED result
             ELSE Stop("ok") /\ UNCHANGED page
          /\ UNCHANGED cursor
  /\ UNCHANGED <<log, applied, query, counted>>

\* A whole list in one answer.
AnswerAll(rows) ==
  /\ pages' = <<[rows |-> SetToSeq(rows), counted |-> Reader, selected |-> Reader,
                 total |-> Cardinality(rows)]>>
  /\ Stop("ok")
  /\ UNCHANGED <<log, applied, query, page, cursor, counted>>
-----------------------------------------------------------------------------
(***************************************************************************)
(* The use cases.                                                          *)
(***************************************************************************)

Ask(kind) == pc = "idle" /\ query.kind = kind

Refuse(answer) ==
  /\ Stop(answer)
  /\ UNCHANGED <<log, applied, query, page, cursor, counted, pages>>

Proceed ==
  \/ /\ ~query.malformed
     /\ pc' = "count"
     /\ UNCHANGED <<log, applied, query, page, cursor, counted, pages, result>>
  \/ query.malformed /\ Refuse("invalid")

\* Faulty: whose the account is is not looked at.
ListStatementsOfAll == Ask("statements") /\ Proceed

\* The account must be active on the reader and the caller's own.
ListStatements ==
  LET own == query.caller \in {Trusted, HolderOf[query.of]}
  IN  /\ Ask("statements")
      /\ \/ log[Reader].open /\ own /\ Proceed
         \/ log[Reader].open /\ ~own /\ Refuse("ErrStatementNotFound")
         \/ ~log[Reader].open /\ Refuse("ErrAccountNotFound")

ListAccounts == Ask("accounts") /\ Proceed
ListRoles == Ask("roles") /\ Proceed

\* Others than admins see themselves only, by GetUseCase.
ListUsers ==
  /\ Ask("users")
  /\ query.caller = Trusted
  /\ Proceed

ListSelf ==
  LET self == {r \in log[Reader].rows : r.id = query.caller}
  IN  /\ Ask("users")
      /\ query.caller # Trusted
      /\ \/ self # {} /\ AnswerAll(self)
         \/ self = {} /\ Refuse("ErrUserNotFound")

ListCategories ==
  /\ Ask("categories")
  /\ \/ ~query.malformed /\ AnswerAll(Matching(Reader))
     \/ query.malformed /\ Refuse("invalid")

ListTags == Ask("tags") /\ AnswerAll(Matching(Reader))

\* Faulty: the total of the first page is kept for the others.
CountOnFirstPage ==
  /\ pc = "count"
  /\ counted' = [total |-> IF page = 1 THEN Cardinality(Matching(Reader)) ELSE counted.total,
                 at |-> Reader]
  /\ pc' = "select"
  /\ UNCHANGED <<log, applied, query, page, cursor, pages, result>>

\* SELECT COUNT(*), with the filters and without the cursor.
Count ==
  /\ pc = "count"
  /\ counted' = [total |-> Cardinality(Matching(Reader)), at |-> Reader]
  /\ pc' = "select"
  /\ UNCHANGED <<log, applied, query, page, cursor, pages, result>>

\* The rows of sequence s from offset on.
Cut(s, offset) ==
  LET size == IF offset + Limit < Len(s) THEN Limit ELSE Len(s) - offset
  IN  [k \in 1 .. size |-> s[offset + k]]

SelectByKeyset ==
  \E s \in KeysetOrders({r \in Matching(Reader) : AfterCursor(r)}) :
    Answer(Cut(s, IF cursor = None THEN Offset ELSE 0))

SelectByOffset == \E s \in LooseOrders(Matching(Reader)) : Answer(Cut(s, Offset))

SelectStatements == pc = "select" /\ query.kind = "statements" /\ SelectByKeyset
SelectAccounts   == pc = "select" /\ query.kind = "accounts" /\ SelectByKeyset
SelectUsers      == pc = "select" /\ query.kind = "users" /\ SelectByOffset
SelectRoles      == pc = "select" /\ query.kind = "roles" /\ SelectByOffset

\* A request fails; the client asks for the same page again.
Fail ==
  /\ pc \in {"count", "select"}
  /\ pc' = "idle"
  /\ UNCHANGED <<log, applied, query, page, cursor, counted, pages, result>>
-----------------------------------------------------------------------------
(***************************************************************************)
(* What other requests commit meanwhile.                                   *)
(***************************************************************************)

Commit(version) ==
  /\ Len(log) <= MaxChanges
  /\ pc # "done"
  /\ log' = Append(log, version)
  /\ UNCHANGED <<applied, query, pc, page, cursor, counted, pages, result>>

\* An import posts with the dates of its file, and the times and ids of
\* concurrent requests are drawn before they commit.
Insert(row) ==
  /\ \A r \in Current.rows : r.id # row.id
  /\ Commit([Current EXCEPT !.rows = @ \cup {row}])

\* A name, or the category and tags of a statement, change.
Relabel(r) ==
  \E l \in Labels \ {r.label} :
    Commit([Current EXCEPT !.rows = (@ \ {r}) \cup {[r EXCEPT !.label = l]}])

\* Accounts and users are deactivated; roles, categories and tags deleted.
Delete(r) ==
  CASE query.kind \in {"accounts", "users"} ->
         /\ r.active
         /\ Commit([Current EXCEPT !.rows = (@ \ {r}) \cup {[r EXCEPT !.active = FALSE]}])
    [] query.kind \in {"roles", "categories", "tags"} ->
         Commit([Current EXCEPT !.rows = @ \ {r}])
    [] query.kind = "statements" -> FALSE

CloseAccount ==
  /\ query.kind = "statements"
  /\ Current.open
  /\ Commit([Current EXCEPT !.open = FALSE])

Replicate ==
  /\ HasReplica
  /\ applied < Len(log)
  /\ pc # "done"
  /\ applied' = applied + 1
  /\ UNCHANGED <<log, query, pc, page, cursor, counted, pages, result>>

Quiescent == pc = "done" /\ UNCHANGED vars

Serve ==
  \/ ListStatements \/ ListAccounts \/ ListUsers \/ ListSelf \/ ListRoles
  \/ ListCategories \/ ListTags
  \/ Count \/ SelectStatements \/ SelectAccounts \/ SelectUsers \/ SelectRoles

Next ==
  \/ Serve
  \/ Fail
  \/ \E row \in Additions[query.kind] : Insert(row)
  \/ \E r \in Current.rows : Relabel(r) \/ Delete(r)
  \/ CloseAccount
  \/ Replicate
  \/ Quiescent

Spec == Init /\ [][Next]_vars
-----------------------------------------------------------------------------
(***************************************************************************)
(* Properties.                                                             *)
(***************************************************************************)

Listed == UNION {Range(pages[i].rows) : i \in DOMAIN pages}

\* The rows come in the order of the list, and so none of them twice.
InOrder ==
  /\ \A i \in DOMAIN pages :
       \A j, k \in DOMAIN pages[i].rows :
         j < k => Newer(pages[i].rows[j], pages[i].rows[k])
  /\ \A i, j \in DOMAIN pages :
       i < j => \A r \in Range(pages[i].rows), s \in Range(pages[j].rows) : Newer(r, s)

HasRead(follow) == result = "ok" /\ query.follow = follow

FirstPage == pages[1]
LastPage == pages[Len(pages)]

IdsIn(rows) == {r.id : r \in rows}

\* By cursor the client never gets a row twice or out of order, across all
\* pages, however rows are inserted before and after the cursor, filtered
\* columns change and requests are repeated (statement.go:322-341).
CursorWalkOrdered == query.follow = "cursor" => InOrder

\* By cursor the client misses no row that was in the list all the time it
\* read, rows of one timestamp that fall on two pages included
\* (statement.go:323, 356-361).
CursorWalkComplete ==
  HasRead("cursor") =>
    \A id \in Ids :
      (\A i \in FirstPage.selected .. LastPage.selected : id \in IdsIn(Matching(i)))
        => id \in IdsIn(Listed)

\* A list read by cursor is what stayed in it, once and in order, although its
\* pages are cut from different states of the table.
CursorWalkExact == CursorWalkOrdered /\ CursorWalkComplete

\* While nothing changes, the pages are the list, cut: every row once and in
\* order, with the total in each, by cursor or by number.  Lists ordered by
\* created_at alone need different times for it (user.go:196, role.go:143).
QuietWalkExact ==
  result = "ok" /\ query.kind \in KeysetKinds \cup {"users", "roles"} /\ query.caller \notin Ids =>
    LET here == Matching(LastPage.selected)
        ordered == query.kind \in KeysetKinds \/ \A r, s \in here : r.at = s.at => r = s
    IN  FirstPage.counted = LastPage.selected /\ ordered =>
          /\ InOrder /\ Listed = here
          /\ \A i \in DOMAIN pages : pages[i].total = Cardinality(here)

\* By number the client may get rows twice when others are inserted, but it
\* misses none that stays in the list, provided nothing is committed between
\* the COUNT and the SELECT of a page: the transaction around them does not
\* see to that (account.go:157-162), and a total that is too small ends the
\* reading a page early.
PageWalkKeeps ==
  HasRead("page") /\ query.kind \in KeysetKinds =>
    LET grew == \A i, j \in FirstPage.selected .. LastPage.selected :
                  i <= j => IdsIn(Matching(i)) \subseteq IdsIn(Matching(j))
        undisturbed == \A i \in DOMAIN pages : pages[i].counted = pages[i].selected
    IN  grew /\ undisturbed => IdsIn(Matching(FirstPage.selected)) \subseteq IdsIn(Listed)

\* Whatever is asked for and committed meanwhile, the client gets rows of its
\* own account, its own and the system's rows, only one of the two when it asks
\* for a scope, or itself; and no page is longer than the greatest limit,
\* whatever limit it asks for (filter.go:35-45, list.go:56-61,
\* handler/user.go:160-178, category.go:142-161).
Scoped ==
  /\ \A r \in Listed :
       /\ query.kind = "statements" =>
            /\ r.owner = query.of
            /\ query.caller \in {Trusted, HolderOf[query.of]}
       /\ query.kind = "accounts" => r.owner = query.of
       /\ query.kind \in {"categories", "tags"} =>
            /\ r.owner \in {query.of, None}
            /\ query.scope = "user" => r.owner # None
            /\ query.scope = "system" => r.owner = None
       /\ query.kind = "users" /\ query.caller # Trusted => r.id = query.caller
  /\ query.kind \notin {"categories", "tags"} =>
       \A i \in DOMAIN pages : Len(pages[i].rows) <= MaxLimit

\* A list by type has rows of that type only, whatever else is asked for
\* (handler/category.go:84, 87, domain/category/filter.go:24).  It does not hold:
\* in the list of both scopes the type is asked of the system's categories only.
TypeFilter == \A r \in Listed : query.type \in {None, r.type}
===============================================================================
