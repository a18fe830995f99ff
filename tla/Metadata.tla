------------------------------- MODULE Metadata -------------------------------
(***************************************************************************)
(* What statements are filed under: POST, PATCH and DELETE of /categories  *)
(* and /tags, PATCH /statements/:id/category, PUT /statements/:id/tags and *)
(* the category and tags of a new statement or reversal.                   *)
(*                                                                         *)
(* Every check of a use case reads the READER, before and outside the      *)
(* statement or transaction that writes on the WRITER; the foreign keys    *)
(* (RESTRICT from statements to categories, CASCADE from statement_tags)   *)
(* and unique indexes decide what the checks could not.  Amounts and       *)
(* balances of the same statements are the business of module Ledger.      *)
(***************************************************************************)
EXTENDS Naturals, Sequences, FiniteSets

CONSTANTS
  Requests,       \* the requests of one behaviour; each is served once
  Users,          \* users.id
  NoUser,         \* RequestingUserID = "": admins and service-key callers
  Names,          \* names of categories and tags, up to LOWER
  Blank,          \* a name that is empty once trimmed
  None,           \* SQL NULL, and a field the body leaves out
  MaxTags,        \* MaxTagsPerStatement
  SeedCategories, \* SeedCategories[c]: the categories that exist initially
  SeedTags,       \* SeedTags[t]: the tags that exist initially
  SeedStatements, \* SeedStatements[s]: the statements that exist initially
  SeedLinks,      \* <<s, t>>: statement s has tag t initially
  EstornoCredit,  \* SystemCategoryEstornoCreditID
  EstornoDebit,   \* SystemCategoryEstornoDebitID
  HasReplica,     \* is a reader DSN configured
  Inputs          \* the request bodies clients may send

\* What a request creates gets the request's own UUID.
CategoryIDs  == Requests \cup DOMAIN SeedCategories
TagIDs       == Requests \cup DOMAIN SeedTags
StatementIDs == Requests \cup DOMAIN SeedStatements

Types == {"credit", "debit"}
Opposite(t) == IF t = "credit" THEN "debit" ELSE "credit"

\* user = None: a system default, visible to everybody and read-only.
Category  == [user : Users \cup {None}, name : Names, type : Types]
Tag       == [user : Users \cup {None}, name : Names]
Statement == [owner : Users, type : Types, category : CategoryIDs \cup {None},
              ref : StatementIDs \cup {None}]

CategoryInput ==
       [op : {"createCategory"}, user : Users, name : Names \cup {Blank}, type : STRING]
  \cup [op : {"renameCategory"}, user : Users, id : CategoryIDs, name : Names \cup {Blank}]
  \cup [op : {"deleteCategory"}, user : Users, id : CategoryIDs]

TagInput ==
       [op : {"createTag"}, user : Users, name : Names \cup {Blank}]
  \cup [op : {"renameTag"}, user : Users, id : TagIDs, name : Names \cup {Blank}]
  \cup [op : {"deleteTag"}, user : Users, id : TagIDs]

\* A create names the owner of its account, which visibility is decided by,
\* whoever sends the request.
StatementInput ==
       [op : {"create"}, owner : Users, type : Types,
        category : CategoryIDs \cup {None}, tags : Seq(TagIDs)]
  \cup [op : {"reverse"}, user : Users \cup {NoUser}, id : StatementIDs]
  \cup [op : {"setCategory"}, user : Users \cup {NoUser}, id : StatementIDs,
        category : CategoryIDs \cup {None}]
  \cup [op : {"setTags"}, user : Users \cup {NoUser}, id : StatementIDs, tags : Seq(TagIDs)]

Input == CategoryInput \cup TagInput \cup StatementInput

Visible(row, u) == row # None /\ row.user \in {None, u}

\* The unique indexes on (scope, lower(name), type) and (scope, lower(name)).
Taken(table, id, row) == \E other \in (DOMAIN table) \ {id} : table[other] = row

ASSUME MaxTagsAssumption == MaxTags \in Nat \ {0}
ASSUME NamedApart ==
  /\ NoUser \notin Users /\ None \notin Users /\ Blank \notin Names
  /\ None \notin Requests \cup CategoryIDs \cup TagIDs \cup StatementIDs
  /\ None \notin Category \cup Tag \cup Statement
  /\ \A table \in {SeedCategories, SeedTags, SeedStatements} :
       (DOMAIN table) \cap Requests = {}
ASSUME SeedsAssumption ==
  /\ SeedCategories \in [DOMAIN SeedCategories -> Category]
  /\ SeedTags \in [DOMAIN SeedTags -> Tag]
  /\ SeedStatements \in [DOMAIN SeedStatements -> Statement]
  /\ SeedLinks \subseteq (DOMAIN SeedStatements) \X (DOMAIN SeedTags)
  /\ \A s \in DOMAIN SeedStatements :
       LET c == SeedStatements[s].category
       IN  c # None => /\ c \in DOMAIN SeedCategories
                       /\ SeedCategories[c].type = SeedStatements[s].type
                       /\ Visible(SeedCategories[c], SeedStatements[s].owner)
  /\ \A l \in SeedLinks : Visible(SeedTags[l[2]], SeedStatements[l[1]].owner)
ASSUME EstornoAssumption ==
  \A t \in Types :
    LET c == IF t = "credit" THEN EstornoCredit ELSE EstornoDebit
    IN  /\ c \in DOMAIN SeedCategories
        /\ SeedCategories[c].user = None
        /\ SeedCategories[c].type = t
ASSUME HasReplicaAssumption == HasReplica \in BOOLEAN
ASSUME InputsAssumption == Inputs \subseteq Input

VARIABLES
  categories,  \* the tables on the writer; None where there is no row
  tags,
  statements,
  links,       \* statement_tags: statement, tag and the request that inserted
               \* the row, since one deleted and inserted again is another row
  wal,         \* committed tables the replica has not reached yet
  replica,     \* the tables on the replica
  pc,          \* the next step of each request
  req,         \* the input of each request
  seen,        \* the rows a ReplaceTags saw when its DELETE began
  removed,     \* the rows it has deleted, and keeps locked, in its transaction
  result       \* the answer of each request

vars == <<categories, tags, statements, links, wal, replica, pc, req, seen, removed, result>>
tables == <<categories, tags, statements, links, wal>>
-----------------------------------------------------------------------------
Padded(table, ids) == [i \in ids |-> IF i \in DOMAIN table THEN table[i] ELSE None]

Init ==
  /\ categories = Padded(SeedCategories, CategoryIDs)
  /\ tags       = Padded(SeedTags, TagIDs)
  /\ statements = Padded(SeedStatements, StatementIDs)
  /\ links      = {<<l[1], l[2], None>> : l \in SeedLinks}
  /\ wal        = << >>
  /\ replica    = [categories |-> categories, tags |-> tags, statements |-> statements]
  /\ pc         = [p \in Requests |-> "idle"]
  /\ req        \in [Requests -> Inputs]
  /\ seen       = [p \in Requests |-> {}]
  /\ removed    = [p \in Requests |-> {}]
  /\ result     = [p \in Requests |-> "none"]

Goto(p, step) == pc' = [pc EXCEPT ![p] = step] /\ UNCHANGED result

Reply(p, answer) ==
  /\ pc' = [pc EXCEPT ![p] = "done"]
  /\ result' = [result EXCEPT ![p] = answer]

\* The writer has executed the request; its answer may be lost on the way.
Executed(p) == \E answer \in {"ok", "ErrInternal"} : Reply(p, answer)

\* Committed tables enter the replication stream; links are never read there.
Commit(cs, ts, ss) ==
  /\ categories' = cs
  /\ tags' = ts
  /\ statements' = ss
  /\ wal' = IF HasReplica
            THEN Append(wal, [categories |-> cs, tags |-> ts, statements |-> ss])
            ELSE wal

Reader == IF HasReplica THEN replica
          ELSE [categories |-> categories, tags |-> tags, statements |-> statements]

\* dedupTagIDs.
Wanted(p) == {req[p].tags[i] : i \in DOMAIN req[p].tags}

Using(table, c) == {s \in DOMAIN table : table[s] # None /\ table[s].category = c}

TagsOf(s) == {l[2] : l \in {k \in links : k[1] = s}}
-----------------------------------------------------------------------------
(***************************************************************************)
(* Categories.                                                             *)
(***************************************************************************)

\* Validation of a category request, before the first database call.
CheckCategory(p) ==
  LET in == req[p]
      named == in.op \in {"createCategory", "renameCategory"}
  IN  /\ pc[p] = "idle"
      /\ in \in CategoryInput
      /\ \/ /\ named /\ in.name = Blank
            /\ Reply(p, "ErrCategoryInvalidName")
         \/ /\ in.op = "createCategory" /\ in.name # Blank /\ in.type \notin Types
            /\ Reply(p, "ErrInvalidCategoryType")
         \/ /\ in.op = "createCategory" /\ in.name # Blank /\ in.type \in Types
            /\ Goto(p, "insert")
         \/ /\ in.op = "deleteCategory" \/ (in.op = "renameCategory" /\ in.name # Blank)
            /\ Goto(p, "find")
      /\ UNCHANGED <<tables, replica, req, seen, removed>>

\* CategoryRepository.Create.
InsertCategory(p) ==
  LET row == [user |-> req[p].user, name |-> req[p].name, type |-> req[p].type]
  IN  /\ pc[p] = "insert"
      /\ req[p].op = "createCategory"
      /\ \/ /\ Taken(categories, p, row)
            /\ Reply(p, "ErrCategoryDuplicate")
            /\ UNCHANGED <<categories, tags, statements, wal>>
         \/ /\ ~Taken(categories, p, row)
            /\ Commit([categories EXCEPT ![p] = row], tags, statements)
            /\ Executed(p)
      /\ UNCHANGED <<links, replica, req, seen, removed>>

\* Faulty: defaults are treated like rows of the requester.
FindAnyCategory(p) ==
  LET row == Reader.categories[req[p].id]
  IN  /\ pc[p] = "find"
      /\ req[p].op \in {"renameCategory", "deleteCategory"}
      /\ Visible(row, req[p].user)
      /\ Goto(p, IF req[p].op = "renameCategory" THEN "rename" ELSE "count")
      /\ UNCHANGED <<tables, replica, req, seen, removed>>

\* FindByID on the reader; defaults are read-only, foreign rows do not exist.
FindCategory(p) ==
  LET row == Reader.categories[req[p].id]
  IN  /\ pc[p] = "find"
      /\ req[p].op \in {"renameCategory", "deleteCategory"}
      /\ \/ /\ row = None \/ (row # None /\ row.user \notin {None, req[p].user})
            /\ Reply(p, "ErrCategoryNotFound")
         \/ /\ row # None /\ row.user = None
            /\ Reply(p, "ErrCategoryReadOnly")
         \/ /\ row # None /\ row.user = req[p].user
            /\ Goto(p, IF req[p].op = "renameCategory" THEN "rename" ELSE "count")
      /\ UNCHANGED <<tables, replica, req, seen, removed>>

\* CategoryRepository.Update: the name only, WHERE id = $3.
RenameCategory(p) ==
  LET c == req[p].id
      row == [categories[c] EXCEPT !.name = req[p].name]
  IN  /\ pc[p] = "rename"
      /\ req[p].op = "renameCategory"
      /\ \/ /\ categories[c] = None
            /\ Reply(p, "ErrCategoryNotFound")
            /\ UNCHANGED <<categories, tags, statements, wal>>
         \/ /\ categories[c] # None /\ Taken(categories, c, row)
            /\ Reply(p, "ErrCategoryDuplicate")
            /\ UNCHANGED <<categories, tags, statements, wal>>
         \/ /\ categories[c] # None /\ ~Taken(categories, c, row)
            /\ Commit([categories EXCEPT ![c] = row], tags, statements)
            /\ Executed(p)
      /\ UNCHANGED <<links, replica, req, seen, removed>>

\* CountStatementsUsing on the reader.
CountStatements(p) ==
  /\ pc[p] = "count"
  /\ IF Using(Reader.statements, req[p].id) # {}
     THEN Reply(p, "ErrCategoryInUse")
     ELSE Goto(p, "delete")
  /\ UNCHANGED <<tables, replica, req, seen, removed>>

\* Faulty: no RESTRICT, the count decides.
DeleteCounted(p) ==
  /\ pc[p] = "delete"
  /\ req[p].op = "deleteCategory"
  /\ categories[req[p].id] # None
  /\ Commit([categories EXCEPT ![req[p].id] = None], tags, statements)
  /\ Executed(p)
  /\ UNCHANGED <<links, replica, req, seen, removed>>

\* CategoryRepository.Delete under ON DELETE RESTRICT.
DeleteCategory(p) ==
  LET c == req[p].id
  IN  /\ pc[p] = "delete"
      /\ req[p].op = "deleteCategory"
      /\ \/ /\ categories[c] = None
            /\ Reply(p, "ErrCategoryNotFound")
            /\ UNCHANGED <<categories, tags, statements, wal>>
         \/ /\ categories[c] # None /\ Using(statements, c) # {}
            /\ Reply(p, "ErrCategoryInUse")
            /\ UNCHANGED <<categories, tags, statements, wal>>
         \/ /\ categories[c] # None /\ Using(statements, c) = {}
            /\ Commit([categories EXCEPT ![c] = None], tags, statements)
            /\ Executed(p)
      /\ UNCHANGED <<links, replica, req, seen, removed>>

-----------------------------------------------------------------------------
(***************************************************************************)
(* Tags.                                                                   *)
(***************************************************************************)

CheckTag(p) ==
  LET in == req[p]
  IN  /\ pc[p] = "idle"
      /\ in \in TagInput
      /\ \/ /\ in.op # "deleteTag" /\ in.name = Blank
            /\ Reply(p, "ErrTagInvalidName")
         \/ /\ in.op = "createTag" /\ in.name # Blank
            /\ Goto(p, "insert")
         \/ /\ in.op = "deleteTag" \/ (in.op = "renameTag" /\ in.name # Blank)
            /\ Goto(p, "find")
      /\ UNCHANGED <<tables, replica, req, seen, removed>>

\* TagRepository.Create.
InsertTag(p) ==
  LET row == [user |-> req[p].user, name |-> req[p].name]
  IN  /\ pc[p] = "insert"
      /\ req[p].op = "createTag"
      /\ \/ /\ Taken(tags, p, row)
            /\ Reply(p, "ErrTagDuplicate")
            /\ UNCHANGED <<categories, tags, statements, wal>>
         \/ /\ ~Taken(tags, p, row)
            /\ Commit(categories, [tags EXCEPT ![p] = row], statements)
            /\ Executed(p)
      /\ UNCHANGED <<links, replica, req, seen, removed>>

\* FindByID on the reader; defaults are read-only, foreign rows do not exist.
FindTag(p) ==
  LET row == Reader.tags[req[p].id]
  IN  /\ pc[p] = "find"
      /\ req[p].op \in {"renameTag", "deleteTag"}
      /\ \/ /\ row = None \/ (row # None /\ row.user \notin {None, req[p].user})
            /\ Reply(p, "ErrTagNotFound")
         \/ /\ row # None /\ row.user = None
            /\ Reply(p, "ErrTagReadOnly")
         \/ /\ row # None /\ row.user = req[p].user
            /\ Goto(p, IF req[p].op = "renameTag" THEN "rename" ELSE "delete")
      /\ UNCHANGED <<tables, replica, req, seen, removed>>

\* TagRepository.Update.
RenameTag(p) ==
  LET t == req[p].id
      row == [tags[t] EXCEPT !.name = req[p].name]
  IN  /\ pc[p] = "rename"
      /\ req[p].op = "renameTag"
      /\ \/ /\ tags[t] = None
            /\ Reply(p, "ErrTagNotFound")
            /\ UNCHANGED <<categories, tags, statements, wal>>
         \/ /\ tags[t] # None /\ Taken(tags, t, row)
            /\ Reply(p, "ErrTagDuplicate")
            /\ UNCHANGED <<categories, tags, statements, wal>>
         \/ /\ tags[t] # None /\ ~Taken(tags, t, row)
            /\ Commit(categories, [tags EXCEPT ![t] = row], statements)
            /\ Executed(p)
      /\ UNCHANGED <<links, replica, req, seen, removed>>

\* An open ReplaceTags keeps t from being deleted: it has inserted a row that
\* refers to t (KEY SHARE), or deleted one that the cascade would delete.
HoldsTag(q, t) ==
  \/ pc[q] = "commit" /\ t \in Wanted(q)
  \/ \E l \in removed[q] : l[2] = t

\* TagRepository.Delete; ON DELETE CASCADE takes the rows of statement_tags.
DeleteTag(p) ==
  LET t == req[p].id
  IN  /\ pc[p] = "delete"
      /\ req[p].op = "deleteTag"
      /\ ~\E q \in Requests : HoldsTag(q, t)
      /\ \/ /\ tags[t] = None
            /\ Reply(p, "ErrTagNotFound")
            /\ UNCHANGED <<categories, tags, statements, links, wal>>
         \/ /\ tags[t] # None
            /\ Commit(categories, [tags EXCEPT ![t] = None], statements)
            /\ links' = {l \in links : l[2] # t}
            /\ Executed(p)
      /\ UNCHANGED <<replica, req, seen, removed>>

-----------------------------------------------------------------------------
(***************************************************************************)
(* Statements.  That the account of a create is active and the caller's is *)
(* decided in module Ledger; here either check may end a request (Fail).   *)
(***************************************************************************)

StartStatement(p) ==
  /\ pc[p] = "idle"
  /\ req[p] \in StatementInput
  /\ Goto(p, IF req[p].op = "create" THEN "category" ELSE "find")
  /\ UNCHANGED <<tables, replica, req, seen, removed>>

\* FindByID on the reader and the owner of the statement's account.
FindStatement(p) ==
  LET in == req[p]
      row == Reader.statements[in.id]
  IN  /\ pc[p] = "find"
      /\ in.op \in {"reverse", "setCategory", "setTags"}
      /\ \/ /\ row = None \/ (row # None /\ in.user \notin {NoUser, row.owner})
            /\ Reply(p, "ErrStatementNotFound")
         \/ /\ row # None /\ in.user \in {NoUser, row.owner}
            /\ Goto(p, CASE in.op = "reverse"     -> "reversal"
                         [] in.op = "setCategory" -> "category"
                         [] in.op = "setTags"     -> "tags")
      /\ UNCHANGED <<tables, replica, req, seen, removed>>

\* The owner whose categories and tags a statement request may use, and the type
\* of the statement; neither ever changes once the statement is found.
OwnerOf(p) == IF req[p].op = "create" THEN req[p].owner ELSE statements[req[p].id].owner
TypeOf(p)  == IF req[p].op = "create" THEN req[p].type ELSE statements[req[p].id].type

AfterCategory(p) == IF req[p].op = "create" THEN "tags" ELSE "update"

\* Faulty: a visible category of any type will do.
ResolveVisible(p) ==
  /\ pc[p] = "category"
  /\ req[p].category # None => Visible(Reader.categories[req[p].category], OwnerOf(p))
  /\ Goto(p, AfterCategory(p))
  /\ UNCHANGED <<tables, replica, req, seen, removed>>

\* resolveCategory: no category, or a visible one (on the reader) of the type.
ResolveCategory(p) ==
  LET c == req[p].category
      visible == c # None /\ Visible(Reader.categories[c], OwnerOf(p))
      fits == visible /\ Reader.categories[c].type = TypeOf(p)
  IN  /\ pc[p] = "category"
      /\ \/ /\ c # None /\ ~visible
            /\ Reply(p, "ErrCategoryNotVisible")
         \/ /\ visible /\ ~fits
            /\ Reply(p, "ErrCategoryTypeMismatch")
         \/ /\ c = None \/ fits
            /\ Goto(p, AfterCategory(p))
      /\ UNCHANGED <<tables, replica, req, seen, removed>>

AfterTags(p) == IF req[p].op = "create" THEN "post" ELSE "replace"

\* Faulty: it is enough that one of the tags is found.
ResolveSomeTag(p) ==
  /\ pc[p] = "tags"
  /\ Cardinality(Wanted(p)) =< MaxTags
  /\ Wanted(p) = {} \/ \E t \in Wanted(p) : Visible(Reader.tags[t], OwnerOf(p))
  /\ Goto(p, AfterTags(p))
  /\ UNCHANGED <<tables, replica, req, seen, removed>>

\* resolveTags: dedup, then the limit, then visibility on the reader.
ResolveTags(p) ==
  LET found == {t \in Wanted(p) : Visible(Reader.tags[t], OwnerOf(p))}
  IN  /\ pc[p] = "tags"
      /\ \/ /\ Cardinality(Wanted(p)) > MaxTags
            /\ Reply(p, "ErrTagLimitExceeded")
         \/ /\ Cardinality(Wanted(p)) =< MaxTags /\ found # Wanted(p)
            /\ Reply(p, "ErrTagNotVisible")
         \/ /\ Cardinality(Wanted(p)) =< MaxTags /\ found = Wanted(p)
            /\ Goto(p, AfterTags(p))
      /\ UNCHANGED <<tables, replica, req, seen, removed>>

\* reference_id of the statements of the writer.
Reversed == {statements[s].ref : s \in {i \in StatementIDs : statements[i] # None}}

\* HasReversal on the writer.
CheckReversal(p) ==
  /\ pc[p] = "reversal"
  /\ IF req[p].id \in Reversed
     THEN Reply(p, "ErrAlreadyReversed")
     ELSE Goto(p, "post")
  /\ UNCHANGED <<tables, replica, req, seen, removed>>

\* Faulty: the category follows the type of the original.
EstornoOfOriginal(t) == IF t = "credit" THEN EstornoDebit ELSE EstornoCredit

\* defaultEstornoCategoryID.
EstornoOf(t) == IF t = "credit" THEN EstornoCredit ELSE EstornoDebit

\* The row a create or a reversal inserts.
NewStatement(p) ==
  IF req[p].op = "create"
  THEN [owner |-> req[p].owner, type |-> req[p].type, category |-> req[p].category, ref |-> None]
  ELSE LET type == Opposite(statements[req[p].id].type)
       IN  [owner |-> statements[req[p].id].owner, type |-> type,
            category |-> EstornoOf(type), ref |-> req[p].id]

\* StatementRepository.Create: the row and its tags in one transaction, which
\* the foreign keys and the unique index on reference_id may refuse as a whole.
InsertStatement(p) ==
  LET row == NewStatement(p)
      new == IF req[p].op = "create" THEN Wanted(p) ELSE {}
      accepted == /\ row.category # None => categories[row.category] # None
                  /\ \A t \in new : tags[t] # None
                  /\ row.ref # None => row.ref \notin Reversed
  IN  /\ pc[p] = "post"
      /\ \/ /\ ~accepted
            /\ Reply(p, "ErrInternal")
            /\ UNCHANGED <<categories, tags, statements, links, wal>>
         \/ /\ accepted
            /\ Commit(categories, tags, [statements EXCEPT ![p] = row])
            /\ links' = links \cup {<<p, t, p>> : t \in new}
            /\ Executed(p)
      /\ UNCHANGED <<replica, req, seen, removed>>

\* StatementRepository.UpdateCategory.  A category deleted since it was resolved
\* violates the foreign key.  Statements are never deleted, so a row is updated.
UpdateCategory(p) ==
  LET s == req[p].id
      c == req[p].category
  IN  /\ pc[p] = "update"
      /\ \/ /\ c # None /\ categories[c] = None
            /\ Reply(p, "ErrStatementNotFound")
            /\ UNCHANGED <<categories, tags, statements, wal>>
         \/ /\ c # None => categories[c] # None
            /\ Commit(categories, tags, [statements EXCEPT ![s].category = c])
            /\ Executed(p)
      /\ UNCHANGED <<links, replica, req, seen, removed>>

-----------------------------------------------------------------------------
(***************************************************************************)
(* StatementRepository.ReplaceTags: a READ COMMITTED transaction that      *)
(* locks nothing but the rows it deletes.                                  *)
(***************************************************************************)

\* BEGIN; EXISTS, which holds as statements are never deleted; the DELETE takes
\* its snapshot.
BeginReplace(p) ==
  /\ pc[p] = "replace"
  /\ seen' = [seen EXCEPT ![p] = {l \in links : l[1] = req[p].id}]
  /\ Goto(p, "remove")
  /\ UNCHANGED <<tables, replica, req, removed>>

\* Faulty: the DELETE is not part of the transaction.
RemoveAtOnce(p) ==
  /\ pc[p] = "remove"
  /\ links' = links \ seen[p]
  /\ Goto(p, "link")
  /\ UNCHANGED <<categories, tags, statements, wal, replica, req, seen, removed>>

\* The DELETE: it waits for transactions that have deleted a row it saw, and
\* skips the rows that are gone then.
RemoveLinks(p) ==
  /\ pc[p] = "remove"
  /\ \A q \in Requests \ {p} : removed[q] \cap seen[p] = {}
  /\ removed' = [removed EXCEPT ![p] = seen[p] \cap links]
  /\ Goto(p, "link")
  /\ UNCHANGED <<tables, replica, req, seen>>

\* The rows a request inserts.
NewLinks(p) == {<<req[p].id, t, p>> : t \in Wanted(p)}

SameKey(k, l) == k[1] = l[1] /\ k[2] = l[2]

\* The rows of q's open transaction: inserted or deleted, and not yet committed.
Uncommitted(q) == removed[q] \cup IF pc[q] = "commit" THEN NewLinks(q) ELSE {}

\* insertStatementTagsTx: it waits for open transactions with rows of the same
\* key; a tag that is gone or a row of the same key ends the transaction.
InsertLinks(p) ==
  LET accepted == /\ \A t \in Wanted(p) : tags[t] # None
                  /\ \A k \in NewLinks(p), l \in links \ removed[p] : ~SameKey(k, l)
  IN  /\ pc[p] = "link"
      /\ \A q \in Requests \ {p} :
           \A k \in NewLinks(p), l \in Uncommitted(q) : ~SameKey(k, l)
      /\ \/ /\ ~accepted
            /\ removed' = [removed EXCEPT ![p] = {}]
            /\ Reply(p, "ErrInternal")
         \/ /\ accepted
            /\ Goto(p, "commit")
            /\ UNCHANGED removed
      /\ UNCHANGED <<tables, replica, req, seen>>

\* COMMIT.
CommitLinks(p) ==
  /\ pc[p] = "commit"
  /\ links' = (links \ removed[p]) \cup NewLinks(p)
  /\ removed' = [removed EXCEPT ![p] = {}]
  /\ Executed(p)
  /\ UNCHANGED <<categories, tags, statements, wal, replica, req, seen>>

-----------------------------------------------------------------------------
\* A database call fails, a deadlock is broken, the account is gone or the
\* client leaves: the transaction, if one is open, is rolled back.
Fail(p) ==
  /\ pc[p] \notin {"idle", "done"}
  /\ removed' = [removed EXCEPT ![p] = {}]
  /\ Reply(p, "ErrInternal")
  /\ UNCHANGED <<tables, replica, req, seen>>

\* The replica applies the next commit of the stream.
Replicate ==
  /\ wal # << >>
  /\ replica' = Head(wal)
  /\ wal' = Tail(wal)
  /\ UNCHANGED <<categories, tags, statements, links, pc, req, seen, removed, result>>

Quiescent ==
  /\ \A p \in Requests : pc[p] = "done"
  /\ wal = << >>
  /\ UNCHANGED vars

CategoryStep(p) ==
  \/ CheckCategory(p) \/ InsertCategory(p) \/ FindCategory(p)
  \/ RenameCategory(p) \/ CountStatements(p) \/ DeleteCategory(p)

TagStep(p) ==
  CheckTag(p) \/ InsertTag(p) \/ FindTag(p) \/ RenameTag(p) \/ DeleteTag(p)

StatementStep(p) ==
  \/ StartStatement(p) \/ FindStatement(p) \/ ResolveCategory(p) \/ ResolveTags(p)
  \/ CheckReversal(p) \/ InsertStatement(p) \/ UpdateCategory(p)
  \/ BeginReplace(p) \/ RemoveLinks(p) \/ InsertLinks(p) \/ CommitLinks(p)

Next ==
  \/ \E p \in Requests : CategoryStep(p) \/ TagStep(p) \/ StatementStep(p) \/ Fail(p)
  \/ Replicate
  \/ Quiescent

Spec == Init /\ [][Next]_vars

-----------------------------------------------------------------------------
(***************************************************************************)
(* Properties.                                                             *)
(***************************************************************************)

\* Whatever races, the category of a statement exists, has the statement's type
\* and is the owner's or a default, although all of it was checked on a replica
\* before the write and the category may be deleted in between; that of a reversal
\* is chosen without any check (resolveCategory, metadata.go:33-66; UpdateCategory,
\* statement.go:516-551; reverse.go:117-121).
CategoryFits ==
  \A s \in StatementIDs :
    statements[s] # None /\ statements[s].category # None =>
      LET row == categories[statements[s].category]
      IN  /\ Visible(row, statements[s].owner)
          /\ row.type = statements[s].type

\* The tags of a statement exist and are the owner's or defaults, although they
\* were resolved before the transaction and may be deleted while it runs
\* (resolveTags, metadata.go:68-107; statement.go:558-599).
TagsFit ==
  \A l \in links : statements[l[1]] # None /\ Visible(tags[l[2]], statements[l[1]].owner)

\* Both: what a statement refers to is there and may be referred to.
MetadataFits == CategoryFits /\ TagsFit

\* What changes in a table is changed by a request of the row's owner that ends.
OwnersChange(table, next) ==
  \A i \in DOMAIN table :
    table[i] # None /\ next[i] # table[i] =>
      \E p \in Requests : /\ pc[p] # "done" /\ pc'[p] = "done"
                          /\ req[p].user = table[i].user

\* A category or tag changes or goes only in a step of a request of its owner,
\* and a default never does, although owner and scope were read on the reader
\* earlier (category/update.go:55-73, tag/delete.go:53-67).
OwnerOnly == [][OwnersChange(categories, categories') /\ OwnersChange(tags, tags')]_vars

\* The tags of a statement change as a whole: to a set that has all the tags of
\* the request that committed and none of the rows it found when it began, or by
\* the one tag that was deleted.  A request that is
\* refused, or fails before its COMMIT, leaves the old set (statement.go:553-557).
TagsChangeWhole ==
  [][\A s \in StatementIDs :
       TagsOf(s)' # TagsOf(s) =>
         \/ \E p \in Requests :
              /\ pc[p] \in {"post", "commit"} /\ pc'[p] = "done"
              /\ req[p].op \in {"create", "setTags"}
              /\ Wanted(p) \subseteq TagsOf(s)'
              /\ seen[p] \cap links' = {}
         \/ \E t \in TagIDs : tags'[t] = None /\ TagsOf(s)' = TagsOf(s) \ {t}]_vars

\* "MaxTagsPerStatement is the cap on unique tags per statement" (tag/entity.go:9).
TagCap == \A s \in StatementIDs : Cardinality(TagsOf(s)) =< MaxTags
===============================================================================
