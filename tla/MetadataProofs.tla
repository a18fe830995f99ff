---------------------------- MODULE MetadataProofs ----------------------------
(***************************************************************************)
(* What statements are filed under, proved for any number of requests,     *)
(* categories, tags and statements, with or without a replica: categories  *)
(* and tags of a statement are there and may be used, only owners change   *)
(* them, and a set of tags changes as a whole.                             *)
(***************************************************************************)
EXTENDS Metadata, SequenceTheorems, TLAPS

-----------------------------------------------------------------------------
(***************************************************************************)
(* The inductive invariant.                                                *)
(***************************************************************************)

Link == StatementIDs \X TagIDs \X (Requests \cup {None})

DB == [categories : [CategoryIDs -> Category \cup {None}],
       tags       : [TagIDs -> Tag \cup {None}],
       statements : [StatementIDs -> Statement \cup {None}]]

Writer == [categories |-> categories, tags |-> tags, statements |-> statements]

PCs == {"idle", "insert", "find", "rename", "count", "delete", "category", "tags", "reversal",
        "post", "update", "replace", "remove", "link", "commit", "done"}

\* Tables, requests and links are of their types.
Frames ==
  /\ Writer \in DB
  /\ replica \in DB
  /\ wal \in Seq(DB)
  /\ links \subseteq Link
  /\ pc \in [Requests -> PCs]
  /\ req \in [Requests -> Inputs]
  /\ seen \in [Requests -> SUBSET Link]
  /\ removed \in [Requests -> SUBSET Link]

\* The row a request creates is not there before the request is done with it.
Unborn(id, ops) == id \in Requests /\ req[id].op \in ops /\ pc[id] # "done"

UnbornCategory(c)  == Unborn(c, {"createCategory"})
UnbornTag(t)       == Unborn(t, {"createTag"})
UnbornStatement(s) == Unborn(s, {"create", "reverse"})

\* Whatever state of the tables a request reads: owner and type of a row are
\* what they are on the writer, unless the row is gone there, and no row is there
\* before it is created.
Agrees(db) ==
  /\ \A c \in CategoryIDs : db.categories[c] # None =>
       /\ ~UnbornCategory(c)
       /\ categories[c] # None => /\ categories[c].user = db.categories[c].user
                                  /\ categories[c].type = db.categories[c].type
  /\ \A t \in TagIDs : db.tags[t] # None =>
       /\ ~UnbornTag(t)
       /\ tags[t] # None => tags[t].user = db.tags[t].user
  /\ \A s \in StatementIDs : db.statements[s] # None =>
       /\ ~UnbornStatement(s)
       /\ statements[s] # None
       /\ statements[s].owner = db.statements[s].owner
       /\ statements[s].type = db.statements[s].type

Past ==
  /\ Agrees(Writer)
  /\ Agrees(replica)
  /\ \A i \in 1 .. Len(wal) : Agrees(wal[i])

\* The defaults stay: they are nobody's.
Defaults ==
  \A c \in DOMAIN SeedCategories : SeedCategories[c].user = None =>
    /\ categories[c] # None
    /\ categories[c].user = None
    /\ categories[c].type = SeedCategories[c].type

\* A category or tag is p's, if it is still there,
OwnCategory(p) ==
  /\ ~UnbornCategory(req[p].id)
  /\ categories[req[p].id] # None => categories[req[p].id].user = req[p].user

OwnTag(p) ==
  /\ ~UnbornTag(req[p].id)
  /\ tags[req[p].id] # None => tags[req[p].id].user = req[p].user

\* or may be used by p's statement, if it is still there.
CategoryResolved(p) ==
  LET c == req[p].category
  IN  c # None =>
        /\ ~UnbornCategory(c)
        /\ categories[c] # None => /\ Visible(categories[c], OwnerOf(p))
                                   /\ categories[c].type = TypeOf(p)

TagsResolved(p) ==
  \A t \in Wanted(p) :
    /\ ~UnbornTag(t)
    /\ tags[t] # None => Visible(tags[t], OwnerOf(p))

Replacing == {"replace", "remove", "link", "commit"}

NamedOps == {"createCategory", "renameCategory", "createTag", "renameTag"}

\* What a request at a step has checked and knows.
StageOf(p) ==
  LET in == req[p]
  IN  /\ pc[p] \in {"rename", "count", "delete"} =>
           /\ in.op \in {"renameCategory", "deleteCategory", "renameTag", "deleteTag"}
           /\ in.op \in {"renameCategory", "deleteCategory"} => OwnCategory(p)
           /\ in.op \in {"renameTag", "deleteTag"} => OwnTag(p)
      /\ pc[p] = "reversal" => in.op = "reverse"
      /\ pc[p] = "category" => in.op \in {"create", "setCategory"}
      /\ pc[p] = "tags" => in.op \in {"create", "setTags"}
      /\ pc[p] = "update" => in.op = "setCategory"
      /\ pc[p] = "post" => in.op \in {"create", "reverse"}
      /\ pc[p] \in Replacing => in.op = "setTags"
      /\ pc[p] \in {"reversal", "category", "tags", "update", "post"} \cup Replacing
           /\ in.op # "create" => statements[in.id] # None
      /\ pc[p] = "update" \/ (pc[p] \in {"tags", "post"} /\ in.op = "create") =>
           CategoryResolved(p)
      /\ pc[p] \in Replacing \/ (pc[p] = "post" /\ in.op = "create") => TagsResolved(p)
      /\ pc[p] = "commit" => \A t \in Wanted(p) : tags[t] # None
      /\ pc[p] \in {"find", "insert", "rename"} /\ in.op \in NamedOps => in.name # Blank
      /\ pc[p] = "insert" /\ in.op = "createCategory" => in.type \in Types

Stages == \A p \in Requests : StageOf(p)

\* A row of statement_tags is inserted once, when its request commits, so what
\* a replacement has seen does not come back.
Done(l) == l[3] \in Requests => pc[l[3]] = "done"

ReplaceOf(p) ==
  /\ req[p].op # "setTags" \/ pc[p] \in {"idle", "find", "tags", "replace"} => seen[p] = {}
  /\ \A l \in seen[p] : l[1] = req[p].id /\ Done(l)
  /\ removed[p] \subseteq seen[p]
  /\ pc[p] \in {"link", "commit"} => seen[p] \cap links \subseteq removed[p]

Replaces ==
  /\ \A l \in links : Done(l)
  /\ \A p \in Requests : ReplaceOf(p)

-----------------------------------------------------------------------------
(***************************************************************************)
(* Inputs and the reader.                                                  *)
(***************************************************************************)

CategoryOps  == {"createCategory", "renameCategory", "deleteCategory"}
TagOps       == {"createTag", "renameTag", "deleteTag"}
StatementOps == {"create", "reverse", "setCategory", "setTags"}

\* What the fields of an input are, by operation.
LEMMA InputFields ==
  ASSUME Frames, NEW p \in Requests
  PROVE  /\ p \in CategoryIDs /\ p \in TagIDs /\ p \in StatementIDs
         /\ req[p].op \in CategoryOps \cup TagOps \cup StatementOps
         /\ req[p] \in CategoryInput <=> req[p].op \in CategoryOps
         /\ req[p] \in TagInput <=> req[p].op \in TagOps
         /\ req[p] \in StatementInput <=> req[p].op \in StatementOps
         /\ req[p].op \in CategoryOps \cup TagOps =>
              req[p].user \in Users
         /\ req[p].op \in NamedOps =>
              req[p].name \in Names \cup {Blank}
         /\ req[p].op \in {"renameCategory", "deleteCategory"} => req[p].id \in CategoryIDs
         /\ req[p].op \in {"renameTag", "deleteTag"} => req[p].id \in TagIDs
         /\ req[p].op = "create" => req[p].owner \in Users /\ req[p].type \in Types
         /\ req[p].op \in StatementOps \ {"create"} => req[p].id \in StatementIDs
         /\ req[p].op \in {"create", "setCategory"} =>
              req[p].category \in CategoryIDs \cup {None}
         /\ req[p].op \in {"create", "setTags"} => req[p].tags \in Seq(TagIDs)
  <1>1. req[p] \in Input
    BY InputsAssumption DEF Frames
  <1>2. CASE req[p] \in CategoryInput
    BY <1>2 DEF CategoryInput, TagInput, StatementInput, CategoryOps, TagOps, StatementOps,
                NamedOps, CategoryIDs, TagIDs, StatementIDs
  <1>3. CASE req[p] \in TagInput
    BY <1>3 DEF CategoryInput, TagInput, StatementInput, CategoryOps, TagOps, StatementOps,
                NamedOps, CategoryIDs, TagIDs, StatementIDs
  <1>4. CASE req[p] \in StatementInput
    BY <1>4 DEF CategoryInput, TagInput, StatementInput, CategoryOps, TagOps, StatementOps,
                NamedOps, CategoryIDs, TagIDs, StatementIDs
  <1> QED
    BY <1>1, <1>2, <1>3, <1>4 DEF Input

\* The tags a request names.
LEMMA WantedType ==
  ASSUME Frames, NEW p \in Requests, req[p].op \in {"create", "setTags"}
  PROVE  Wanted(p) \subseteq TagIDs
  <1>1. req[p].tags \in Seq(TagIDs)
    BY InputFields
  <1> QED
    BY <1>1, ElementOfSeq DEF Wanted

\* The reader is one of the states that agree with the writer.
LEMMA ReaderAgrees ==
  ASSUME Frames, Past
  PROVE  Reader \in DB /\ Agrees(Reader)
  BY HasReplicaAssumption DEF Reader, Frames, Past, Writer

\* The tables of the writer by themselves.
LEMMA WriterTables ==
  ASSUME Frames
  PROVE  /\ categories \in [CategoryIDs -> Category \cup {None}]
         /\ tags \in [TagIDs -> Tag \cup {None}]
         /\ statements \in [StatementIDs -> Statement \cup {None}]
  BY DEF Frames, Writer, DB

-----------------------------------------------------------------------------
(***************************************************************************)
(* What a step may change.                                                 *)
(***************************************************************************)

StepOf(p) == CategoryStep(p) \/ TagStep(p) \/ StatementStep(p) \/ Fail(p)

\* Steps that only look and decide where to go,
Looks(p) ==
  \/ CheckCategory(p) \/ FindCategory(p) \/ CountStatements(p)
  \/ CheckTag(p) \/ FindTag(p)
  \/ StartStatement(p) \/ FindStatement(p) \/ ResolveCategory(p) \/ ResolveTags(p)
  \/ CheckReversal(p)

\* steps that write in one statement, and the steps of a replacement.
WritesRow(p) ==
  \/ InsertCategory(p) \/ RenameCategory(p) \/ DeleteCategory(p)
  \/ InsertTag(p) \/ RenameTag(p) \/ DeleteTag(p)
  \/ InsertStatement(p) \/ UpdateCategory(p)

ReplaceStep(p) == BeginReplace(p) \/ RemoveLinks(p) \/ InsertLinks(p) \/ CommitLinks(p)

\* The cases of a step of a request.
LEMMA StepCases ==
  ASSUME NEW p \in Requests, StepOf(p)
  PROVE  Looks(p) \/ WritesRow(p) \/ ReplaceStep(p) \/ Fail(p)
  BY Zenon DEF StepOf, CategoryStep, TagStep, StatementStep, Looks, WritesRow, ReplaceStep

\* The variables a kind of step leaves alone.
LEMMA Frame ==
  ASSUME NEW p \in Requests
  PROVE  /\ Looks(p) => UNCHANGED <<tables, replica, req, seen, removed>>
         /\ WritesRow(p) => UNCHANGED <<replica, req, seen, removed>>
         /\ ReplaceStep(p) => UNCHANGED <<categories, tags, statements, wal, replica, req>>
         /\ Fail(p) => UNCHANGED <<tables, replica, req, seen>>
  <1>1. Looks(p) => UNCHANGED <<tables, replica, req, seen, removed>>
    BY DEF Looks, CheckCategory, FindCategory, CountStatements, CheckTag, FindTag,
           StartStatement, FindStatement, ResolveCategory, ResolveTags, CheckReversal
  <1>2. WritesRow(p) => UNCHANGED <<replica, req, seen, removed>>
    BY DEF WritesRow, InsertCategory, RenameCategory, DeleteCategory, InsertTag, RenameTag,
           DeleteTag, InsertStatement, UpdateCategory
  <1>3. ReplaceStep(p) => UNCHANGED <<categories, tags, statements, wal, replica, req>>
    BY DEF ReplaceStep, BeginReplace, RemoveLinks, InsertLinks, CommitLinks, tables
  <1>4. Fail(p) => UNCHANGED <<tables, replica, req, seen>>
    BY DEF Fail
  <1> QED
    BY <1>1, <1>2, <1>3, <1>4

\* A request moves from one step to the next or to its answer.
LEMMA Moves ==
  ASSUME Frames, NEW p \in Requests, StepOf(p)
  PROVE  /\ pc' \in [Requests -> PCs]
         /\ pc[p] # "done"
         /\ \A q \in Requests \ {p} : pc'[q] = pc[q]
  <1>0. pc \in [Requests -> PCs]
    BY DEF Frames
  <1>1. /\ \A st \in PCs : Goto(p, st) =>
             pc' \in [Requests -> PCs] /\ \A q \in Requests \ {p} : pc'[q] = pc[q]
        /\ \A w : Reply(p, w) =>
             pc' \in [Requests -> PCs] /\ \A q \in Requests \ {p} : pc'[q] = pc[q]
        /\ Executed(p) =>
             pc' \in [Requests -> PCs] /\ \A q \in Requests \ {p} : pc'[q] = pc[q]
    BY <1>0 DEF Goto, Reply, Executed, PCs
  <1>2. {"insert", "find", "rename", "count", "delete", "category", "tags", "reversal",
         "post", "update", "replace", "remove", "link", "commit"} \subseteq PCs
    BY DEF PCs
  <1>3. CASE CheckCategory(p) \/ FindCategory(p) \/ CountStatements(p) \/ CheckTag(p) \/ FindTag(p)
    BY <1>1, <1>2, <1>3 DEF CheckCategory, FindCategory, CountStatements, CheckTag, FindTag
  <1>4. CASE StartStatement(p) \/ ResolveCategory(p) \/ ResolveTags(p) \/ CheckReversal(p)
    BY <1>1, <1>2, <1>4 DEF StartStatement, ResolveCategory, ResolveTags, CheckReversal,
                            AfterCategory, AfterTags
  <1>5. CASE FindStatement(p)
    BY <1>1, <1>2, <1>5 DEF FindStatement
  <1>6. CASE WritesRow(p)
    BY <1>1, <1>6 DEF WritesRow, InsertCategory, RenameCategory, DeleteCategory, InsertTag,
                      RenameTag, DeleteTag, InsertStatement, UpdateCategory
  <1>7. CASE ReplaceStep(p) \/ Fail(p)
    BY <1>1, <1>2, <1>7 DEF ReplaceStep, BeginReplace, RemoveLinks, InsertLinks, CommitLinks,
                            Fail
  <1> QED
    BY <1>3, <1>4, <1>5, <1>6, <1>7, StepCases DEF Looks

\* What is written enters the stream as a whole.
WalGrows == wal' = IF HasReplica THEN Append(wal, Writer') ELSE wal

\* A category is created, renamed, or deleted when no statement has it;
ChangeCategory(p) ==
  \E c \in CategoryIDs, row \in Category \cup {None} :
    /\ categories' = [categories EXCEPT ![c] = row]
    /\ UNCHANGED <<tags, statements, links>>
    /\ \/ c = p /\ UnbornCategory(p) /\ row # None
       \/ /\ categories[c] # None
          /\ req[p].user \in Users /\ categories[c].user = req[p].user
          /\ row # None =>
               row.user = categories[c].user /\ row.type = categories[c].type
          /\ row = None =>
               \A s \in StatementIDs : statements[s] # None => statements[s].category # c

\* a tag is created, renamed, or deleted with its links when no open replacement
\* needs it;
ChangeTag(p) ==
  \E t \in TagIDs, row \in Tag \cup {None} :
    /\ tags' = [tags EXCEPT ![t] = row]
    /\ UNCHANGED <<categories, statements>>
    /\ \/ t = p /\ UnbornTag(p) /\ row # None /\ links' = links
       \/ /\ tags[t] # None
          /\ req[p].user \in Users /\ tags[t].user = req[p].user
          /\ row # None => row.user = tags[t].user /\ links' = links
          /\ row = None => /\ links' = {l \in links : l[2] # t}
                           /\ ~\E q \in Requests : HoldsTag(q, t)

\* a statement is created with its tags, or gets another category.
ChangeStatement(p) ==
  \E s \in StatementIDs, row \in Statement :
    /\ statements' = [statements EXCEPT ![s] = row]
    /\ UNCHANGED <<categories, tags>>
    /\ row.category # None => /\ Visible(categories[row.category], row.owner)
                              /\ categories[row.category].type = row.type
    /\ \/ /\ s = p /\ UnbornStatement(p)
          /\ \E new \in SUBSET TagIDs :
               /\ links' = links \cup {<<p, t, p>> : t \in new}
               /\ \A t \in new : Visible(tags[t], row.owner)
               /\ new # {} => req[p].op = "create" /\ pc[p] = "post" /\ new = Wanted(p)
       \/ /\ statements[s] # None
          /\ row.owner = statements[s].owner /\ row.type = statements[s].type
          /\ links' = links


\* The default category of a reversal is there, is a default and has its type.
LEMMA EstornoFits ==
  ASSUME Defaults, NEW type \in Types
  PROVE  /\ EstornoOf(type) \in CategoryIDs
         /\ categories[EstornoOf(type)] # None
         /\ categories[EstornoOf(type)].user = None
         /\ categories[EstornoOf(type)].type = type
  <1>1. /\ EstornoOf(type) \in DOMAIN SeedCategories
        /\ SeedCategories[EstornoOf(type)].user = None
        /\ SeedCategories[EstornoOf(type)].type = type
    BY EstornoAssumption DEF EstornoOf, Types
  <1> QED
    BY <1>1 DEF Defaults, CategoryIDs

\* A write of one request ends it; it changes nothing or what the request may.
LEMMA Writes ==
  ASSUME Frames, Defaults, NEW p \in Requests, StageOf(p), WritesRow(p)
  PROVE  /\ pc[p] # "done" /\ pc'[p] = "done"
         /\ \/ UNCHANGED tables
            \/ WalGrows /\ (ChangeCategory(p) \/ ChangeTag(p) \/ ChangeStatement(p))
  <1> DEFINE in == req[p]
  <1>0. pc \in [Requests -> PCs]
    BY DEF Frames
  <1>1. pc[p] # "done" /\ pc'[p] = "done"
    BY <1>0 DEF WritesRow, InsertCategory, RenameCategory, DeleteCategory, InsertTag, RenameTag,
                DeleteTag, InsertStatement, UpdateCategory, Reply, Executed
  <1>2. ASSUME NEW cs, NEW ts, NEW ss, Commit(cs, ts, ss)
        PROVE  WalGrows
    BY <1>2 DEF Commit, WalGrows, Writer
  <1>3. CASE InsertCategory(p)
    <2> DEFINE row == [user |-> in.user, name |-> in.name, type |-> in.type]
    <2>1. in.op = "createCategory" /\ pc[p] = "insert" /\ UNCHANGED links
      BY <1>3 DEF InsertCategory
    <2>2. row \in Category /\ p \in CategoryIDs
      <3>1. in.user \in Users /\ in.name \in Names \cup {Blank} /\ p \in CategoryIDs
        BY <2>1, InputFields DEF CategoryOps, NamedOps
      <3>2. in.name # Blank /\ in.type \in Types
        BY <2>1 DEF StageOf, NamedOps
      <3> QED
        BY <3>1, <3>2 DEF Category
    <2>3. UnbornCategory(p) /\ row # None
      BY <2>1, <2>2, NamedApart DEF UnbornCategory, Unborn
    <2>4. \/ UNCHANGED <<categories, tags, statements, wal>>
          \/ Commit([categories EXCEPT ![p] = row], tags, statements)
      BY <1>3 DEF InsertCategory
    <2>5. CASE Commit([categories EXCEPT ![p] = row], tags, statements)
      <3>1. categories' = [categories EXCEPT ![p] = row] /\ UNCHANGED <<tags, statements, links>>
        BY <2>5, <2>1 DEF Commit
      <3> HIDE DEF row
      <3>2. ChangeCategory(p)
        BY <3>1, <2>2, <2>3 DEF ChangeCategory
      <3> QED
        BY <3>2, <2>5, <1>1, <1>2
    <2> QED
      BY <2>4, <2>5, <2>1, <1>1 DEF tables
  <1>4. CASE RenameCategory(p)
    <2> DEFINE c == in.id
               row == [categories[c] EXCEPT !.name = in.name]
    <2>1. in.op = "renameCategory" /\ pc[p] = "rename" /\ UNCHANGED links
      BY <1>4 DEF RenameCategory
    <2>2. \/ UNCHANGED <<categories, tags, statements, wal>>
          \/ categories[c] # None /\ Commit([categories EXCEPT ![c] = row], tags, statements)
      BY <1>4 DEF RenameCategory
    <2>3. CASE categories[c] # None /\ Commit([categories EXCEPT ![c] = row], tags, statements)
      <3>1. categories' = [categories EXCEPT ![c] = row] /\ UNCHANGED <<tags, statements, links>>
        BY <2>3, <2>1 DEF Commit
      <3>2. c \in CategoryIDs /\ in.name \in Names /\ in.user \in Users
        BY <2>1, InputFields DEF StageOf, NamedOps, CategoryOps
      <3>3. categories[c].user = in.user
        BY <2>1, <2>3 DEF StageOf, OwnCategory
      <3>4. categories[c] \in Category
        BY <3>2, <2>3, WriterTables
      <3>5. row \in Category /\ row.user = categories[c].user /\ row.type = categories[c].type
        BY <3>4, <3>2 DEF Category
      <3> HIDE DEF row
      <3>6. row # None
        BY <3>5, NamedApart
      <3>7. ChangeCategory(p)
        BY <3>1, <3>2, <3>3, <3>5, <3>6, <2>3 DEF ChangeCategory
      <3> QED
        BY <3>7, <2>3, <1>1, <1>2
    <2> QED
      BY <2>2, <2>3, <2>1, <1>1 DEF tables
  <1>5. CASE DeleteCategory(p)
    <2> DEFINE c == in.id
    <2>1. in.op = "deleteCategory" /\ pc[p] = "delete" /\ UNCHANGED links
      BY <1>5 DEF DeleteCategory
    <2>2. \/ UNCHANGED <<categories, tags, statements, wal>>
          \/ /\ categories[c] # None
             /\ Using(statements, c) = {}
             /\ Commit([categories EXCEPT ![c] = None], tags, statements)
      BY <1>5 DEF DeleteCategory
    <2>3. CASE /\ categories[c] # None
               /\ Using(statements, c) = {}
               /\ Commit([categories EXCEPT ![c] = None], tags, statements)
      <3>1. categories' = [categories EXCEPT ![c] = None] /\ UNCHANGED <<tags, statements, links>>
        BY <2>3, <2>1 DEF Commit
      <3>2. c \in CategoryIDs /\ in.user \in Users
        BY <2>1, InputFields DEF CategoryOps
      <3>3. categories[c].user = in.user
        BY <2>1, <2>3 DEF StageOf, OwnCategory
      <3>4. \A s \in StatementIDs : statements[s] # None => statements[s].category # c
        BY <2>3, WriterTables DEF Using
      <3>5. ChangeCategory(p)
        BY <3>1, <3>2, <3>3, <3>4, <2>3 DEF ChangeCategory
      <3> QED
        BY <3>5, <2>3, <1>1, <1>2
    <2> QED
      BY <2>2, <2>3, <2>1, <1>1 DEF tables
  <1>6. CASE InsertTag(p)
    <2> DEFINE row == [user |-> in.user, name |-> in.name]
    <2>1. in.op = "createTag" /\ pc[p] = "insert" /\ UNCHANGED links
      BY <1>6 DEF InsertTag
    <2>2. row \in Tag /\ p \in TagIDs
      <3>1. in.user \in Users /\ in.name \in Names \cup {Blank} /\ p \in TagIDs
        BY <2>1, InputFields DEF TagOps, NamedOps
      <3>2. in.name # Blank
        BY <2>1 DEF StageOf, NamedOps
      <3> QED
        BY <3>1, <3>2 DEF Tag
    <2>3. UnbornTag(p) /\ row # None
      BY <2>1, <2>2, NamedApart DEF UnbornTag, Unborn
    <2>4. \/ UNCHANGED <<categories, tags, statements, wal>>
          \/ Commit(categories, [tags EXCEPT ![p] = row], statements)
      BY <1>6 DEF InsertTag
    <2>5. CASE Commit(categories, [tags EXCEPT ![p] = row], statements)
      <3>1. tags' = [tags EXCEPT ![p] = row] /\ UNCHANGED <<categories, statements, links>>
        BY <2>5, <2>1 DEF Commit
      <3> HIDE DEF row
      <3>2. row \in Tag \cup {None} /\ links' = links
        BY <3>1, <2>2
      <3>3. ChangeTag(p)
        <4>1. /\ tags' = [tags EXCEPT ![p] = row]
              /\ UNCHANGED <<categories, statements>>
              /\ p = p /\ UnbornTag(p) /\ row # None /\ links' = links
          BY <3>1, <3>2, <2>3
        <4> QED
          BY <4>1, <3>2, <2>2, Zenon DEF ChangeTag
      <3> QED
        BY <3>3, <2>5, <1>1, <1>2
    <2> QED
      BY <2>4, <2>5, <2>1, <1>1 DEF tables
  <1>7. CASE RenameTag(p)
    <2> DEFINE t == in.id
               row == [tags[t] EXCEPT !.name = in.name]
    <2>1. in.op = "renameTag" /\ pc[p] = "rename" /\ UNCHANGED links
      BY <1>7 DEF RenameTag
    <2>2. \/ UNCHANGED <<categories, tags, statements, wal>>
          \/ tags[t] # None /\ Commit(categories, [tags EXCEPT ![t] = row], statements)
      BY <1>7 DEF RenameTag
    <2>3. CASE tags[t] # None /\ Commit(categories, [tags EXCEPT ![t] = row], statements)
      <3>1. tags' = [tags EXCEPT ![t] = row] /\ UNCHANGED <<categories, statements, links>>
        BY <2>3, <2>1 DEF Commit
      <3>2. t \in TagIDs /\ in.name \in Names /\ in.user \in Users
        BY <2>1, InputFields DEF StageOf, NamedOps, TagOps
      <3>3. tags[t].user = in.user
        BY <2>1, <2>3 DEF StageOf, OwnTag
      <3>4. tags[t] \in Tag
        BY <3>2, <2>3, WriterTables
      <3>5. row \in Tag /\ row.user = tags[t].user
        BY <3>4, <3>2 DEF Tag
      <3> HIDE DEF row
      <3>6. row # None
        BY <3>5, NamedApart
      <3>7. ChangeTag(p)
        BY <3>1, <3>2, <3>3, <3>5, <3>6, <2>3 DEF ChangeTag
      <3> QED
        BY <3>7, <2>3, <1>1, <1>2
    <2> QED
      BY <2>2, <2>3, <2>1, <1>1 DEF tables
  <1>8. CASE DeleteTag(p)
    <2> DEFINE t == in.id
    <2>1. in.op = "deleteTag" /\ pc[p] = "delete" /\ ~\E q \in Requests : HoldsTag(q, t)
      BY <1>8 DEF DeleteTag
    <2>2. \/ UNCHANGED <<categories, tags, statements, links, wal>>
          \/ /\ tags[t] # None
             /\ Commit(categories, [tags EXCEPT ![t] = None], statements)
             /\ links' = {l \in links : l[2] # t}
      BY <1>8 DEF DeleteTag
    <2>3. CASE /\ tags[t] # None
               /\ Commit(categories, [tags EXCEPT ![t] = None], statements)
               /\ links' = {l \in links : l[2] # t}
      <3>1. tags' = [tags EXCEPT ![t] = None] /\ UNCHANGED <<categories, statements>>
        BY <2>3 DEF Commit
      <3>2. t \in TagIDs /\ in.user \in Users
        BY <2>1, InputFields DEF TagOps
      <3>3. tags[t].user = in.user
        BY <2>1, <2>3 DEF StageOf, OwnTag
      <3>5. ChangeTag(p)
        BY <3>1, <3>2, <3>3, <2>1, <2>3 DEF ChangeTag
      <3> QED
        BY <3>5, <2>3, <1>1, <1>2
    <2> QED
      BY <2>2, <2>3, <1>1 DEF tables
  <1>9. CASE InsertStatement(p)
    <2> DEFINE row == NewStatement(p)
               new == IF in.op = "create" THEN Wanted(p) ELSE {}
    <2>1. pc[p] = "post"
      BY <1>9 DEF InsertStatement
    <2>2. \/ UNCHANGED <<categories, tags, statements, links, wal>>
          \/ /\ row.category # None => categories[row.category] # None
             /\ \A t \in new : tags[t] # None
             /\ Commit(categories, tags, [statements EXCEPT ![p] = row])
             /\ links' = links \cup {<<p, t, p>> : t \in new}
      BY <1>9 DEF InsertStatement
    <2>3. CASE /\ row.category # None => categories[row.category] # None
               /\ \A t \in new : tags[t] # None
               /\ Commit(categories, tags, [statements EXCEPT ![p] = row])
               /\ links' = links \cup {<<p, t, p>> : t \in new}
      <3>1. statements' = [statements EXCEPT ![p] = row] /\ UNCHANGED <<categories, tags>>
        BY <2>3 DEF Commit
      <3>2. in.op \in {"create", "reverse"} /\ p \in StatementIDs /\ UnbornStatement(p)
        BY <2>1, InputFields DEF StageOf, UnbornStatement, Unborn
      <3>3. CASE in.op = "create"
        <4>1. /\ in.owner \in Users /\ in.type \in Types
              /\ in.category \in CategoryIDs \cup {None}
              /\ Wanted(p) \subseteq TagIDs
          BY <3>3, InputFields, WantedType
        <4>2. row = [owner |-> in.owner, type |-> in.type, category |-> in.category, ref |-> None]
          BY <3>3 DEF NewStatement
        <4>3. CategoryResolved(p) /\ TagsResolved(p)
          BY <3>3, <2>1 DEF StageOf
        <4>4. row \in Statement
          BY <4>1, <4>2 DEF Statement
        <4>5. row.category # None => /\ Visible(categories[row.category], row.owner)
                                     /\ categories[row.category].type = row.type
          BY <4>2, <4>3, <3>3, <2>3 DEF CategoryResolved, OwnerOf, TypeOf
        <4>6. \A t \in Wanted(p) : Visible(tags[t], row.owner)
          BY <4>2, <4>3, <3>3, <2>3 DEF TagsResolved, OwnerOf
        <4>7. Wanted(p) \in SUBSET TagIDs /\ links' = links \cup {<<p, t, p>> : t \in Wanted(p)}
          BY <4>1, <3>3, <2>3
        <4> HIDE DEF row
        <4>8. ChangeStatement(p)
          BY <4>4, <4>5, <4>6, <4>7, <3>1, <3>2, <3>3, <2>1 DEF ChangeStatement
        <4> QED
          BY <4>8, <2>3, <1>1, <1>2
      <3>4. CASE in.op = "reverse"
        <4>1. in.id \in StatementIDs /\ statements[in.id] # None
          BY <3>4, <2>1, InputFields DEF StageOf, StatementOps
        <4> DEFINE orig == statements[in.id]
                   type == Opposite(orig.type)
        <4>2. orig \in Statement
          BY <4>1, WriterTables
        <4>3. type \in Types /\ orig.owner \in Users
          BY <4>2 DEF Opposite, Types, Statement
        <4>4. row = [owner |-> orig.owner, type |-> type, category |-> EstornoOf(type),
                     ref |-> in.id]
          BY <3>4 DEF NewStatement
        <4> HIDE DEF type, orig
        <4>5. /\ EstornoOf(type) \in CategoryIDs
              /\ categories[EstornoOf(type)] # None
              /\ categories[EstornoOf(type)].user = None
              /\ categories[EstornoOf(type)].type = type
          BY <4>3, EstornoFits
        <4>6. row \in Statement
          BY <4>1, <4>3, <4>4, <4>5 DEF Statement
        <4>7. /\ Visible(categories[row.category], row.owner)
              /\ categories[row.category].type = row.type
          BY <4>4, <4>5 DEF Visible
        <4>8. links' = links \cup {<<p, t, p>> : t \in {}}
          BY <3>4, <2>3
        <4> HIDE DEF row
        <4>9. ChangeStatement(p)
          BY <4>6, <4>7, <4>8, <3>1, <3>2 DEF ChangeStatement
        <4> QED
          BY <4>9, <2>3, <1>1, <1>2
      <3> QED
        BY <3>2, <3>3, <3>4
    <2> QED
      BY <2>2, <2>3, <1>1 DEF tables
  <1>10. CASE UpdateCategory(p)
    <2> DEFINE s == in.id
               row == [statements[s] EXCEPT !.category = in.category]
    <2>1. pc[p] = "update" /\ UNCHANGED links
      BY <1>10 DEF UpdateCategory
    <2>2. \/ UNCHANGED <<categories, tags, statements, wal>>
          \/ /\ in.category # None => categories[in.category] # None
             /\ Commit(categories, tags, [statements EXCEPT ![s].category = in.category])
      BY <1>10 DEF UpdateCategory
    <2>3. CASE /\ in.category # None => categories[in.category] # None
               /\ Commit(categories, tags, [statements EXCEPT ![s].category = in.category])
      <3>1. in.op = "setCategory" /\ statements[s] # None /\ CategoryResolved(p)
        BY <2>1 DEF StageOf
      <3>2. s \in StatementIDs /\ in.category \in CategoryIDs \cup {None}
        BY <3>1, InputFields DEF StatementOps
      <3>3. statements[s] \in Statement
        BY <3>1, <3>2, WriterTables
      <3>4. /\ row \in Statement
            /\ row.owner = statements[s].owner /\ row.type = statements[s].type
            /\ row.category = in.category
        BY <3>2, <3>3 DEF Statement
      <3>5. statements' = [statements EXCEPT ![s] = row] /\ UNCHANGED <<categories, tags>>
        BY <2>3, <3>2, WriterTables DEF Commit
      <3>6. row.category # None => /\ Visible(categories[row.category], row.owner)
                                   /\ categories[row.category].type = row.type
        BY <3>1, <3>4, <2>3 DEF CategoryResolved, OwnerOf, TypeOf
      <3> HIDE DEF row
      <3>7. ChangeStatement(p)
        BY <3>1, <3>2, <3>4, <3>5, <3>6, <2>1 DEF ChangeStatement
      <3> QED
        BY <3>7, <2>3, <1>1, <1>2
    <2> QED
      BY <2>2, <2>3, <2>1, <1>1 DEF tables
  <1> QED
    BY <1>3, <1>4, <1>5, <1>6, <1>7, <1>8, <1>9, <1>10 DEF WritesRow

-----------------------------------------------------------------------------
(***************************************************************************)
(* What no step changes.                                                   *)
(***************************************************************************)

\* The cases of a step of the system.
LEMMA NextCases ==
  ASSUME [Next]_vars
  PROVE  (\E p \in Requests : StepOf(p)) \/ Replicate \/ UNCHANGED vars
  BY Zenon DEF Next, StepOf, Quiescent

\* Steps that do not write the rows.
LEMMA Others ==
  ASSUME Replicate \/ UNCHANGED vars
  PROVE  UNCHANGED <<categories, tags, statements, links, pc, req, seen, removed>>
  BY DEF Replicate, vars

\* Inputs are never changed.
LEMMA InputsStay ==
  ASSUME [Next]_vars
  PROVE  req' = req
  <1>1. ASSUME NEW p \in Requests, StepOf(p) PROVE req' = req
    BY <1>1, StepCases, Frame
  <1> QED
    BY <1>1, NextCases, Others

\* A request that has answered does nothing more.
LEMMA DoneStays ==
  ASSUME Frames, [Next]_vars, NEW q \in Requests, pc[q] = "done"
  PROVE  pc'[q] = "done"
  <1>1. ASSUME NEW p \in Requests, StepOf(p) PROVE pc'[q] = "done"
    BY <1>1, Moves
  <1> QED
    BY <1>1, NextCases, Others

\* What has been created has been.
LEMMA BornStays ==
  ASSUME Frames, [Next]_vars, NEW id
  PROVE  /\ ~UnbornCategory(id) => ~UnbornCategory(id)'
         /\ ~UnbornTag(id) => ~UnbornTag(id)'
         /\ ~UnbornStatement(id) => ~UnbornStatement(id)'
  BY DoneStays, InputsStay DEF UnbornCategory, UnbornTag, UnbornStatement, Unborn

\* Rows are created by their own request, keep owner and type, and stay if they
\* are defaults, statements, or tags an open replacement needs.
CategoriesKeep ==
  \A c \in CategoryIDs :
    /\ categories[c] = None /\ categories'[c] # None =>
         UnbornCategory(c) /\ ~UnbornCategory(c)'
    /\ categories[c] # None /\ categories'[c] # None =>
         /\ categories'[c].user = categories[c].user
         /\ categories'[c].type = categories[c].type
    /\ categories[c] # None /\ categories[c].user = None => categories'[c] # None

TagsKeep ==
  \A t \in TagIDs :
    /\ tags[t] = None /\ tags'[t] # None => UnbornTag(t) /\ ~UnbornTag(t)'
    /\ tags[t] # None /\ tags'[t] # None => tags'[t].user = tags[t].user
    /\ tags[t] # None /\ tags'[t] = None => ~\E q \in Requests : HoldsTag(q, t)

StatementsKeep ==
  \A s \in StatementIDs :
    /\ statements[s] = None /\ statements'[s] # None =>
         UnbornStatement(s) /\ ~UnbornStatement(s)'
    /\ statements[s] # None => /\ statements'[s] # None
                               /\ statements'[s].owner = statements[s].owner
                               /\ statements'[s].type = statements[s].type

\* The rows keep it in a step that writes,
LEMMA WritesKeep ==
  ASSUME Frames, Past, Defaults, NEW p \in Requests, StageOf(p), WritesRow(p)
  PROVE  CategoriesKeep /\ TagsKeep /\ StatementsKeep
  <1>0. /\ categories \in [CategoryIDs -> Category \cup {None}]
        /\ tags \in [TagIDs -> Tag \cup {None}]
        /\ statements \in [StatementIDs -> Statement \cup {None}]
    BY WriterTables
  <1>1. pc'[p] = "done" /\ (UNCHANGED tables \/ ChangeCategory(p) \/ ChangeTag(p) \/ ChangeStatement(p))
    BY Writes
  <1>2. ~UnbornCategory(p)' /\ ~UnbornTag(p)' /\ ~UnbornStatement(p)'
    BY <1>1 DEF UnbornCategory, UnbornTag, UnbornStatement, Unborn
  <1>3. /\ UnbornCategory(p) => categories[p] = None
        /\ UnbornTag(p) => tags[p] = None
        /\ UnbornStatement(p) => statements[p] = None
    BY InputFields DEF Past, Agrees, Writer
  <1>4. CASE UNCHANGED tables
    BY <1>4 DEF tables, CategoriesKeep, TagsKeep, StatementsKeep
  <1>5. CASE ChangeCategory(p)
    <2>1. UNCHANGED <<tags, statements>>
      BY <1>5 DEF ChangeCategory
    <2>2. TagsKeep /\ StatementsKeep
      BY <2>1 DEF TagsKeep, StatementsKeep
    <2>3. PICK c \in CategoryIDs, row \in Category \cup {None} :
            /\ categories' = [categories EXCEPT ![c] = row]
            /\ \/ c = p /\ UnbornCategory(p) /\ row # None
               \/ /\ categories[c] # None
                  /\ req[p].user \in Users /\ categories[c].user = req[p].user
                  /\ row # None =>
                       row.user = categories[c].user /\ row.type = categories[c].type
      BY <1>5, Zenon DEF ChangeCategory
    <2>4. CategoriesKeep
      <3>1. categories'[c] = row /\ \A d \in CategoryIDs \ {c} : categories'[d] = categories[d]
        BY <1>0, <2>3
      <3>2. CASE c = p /\ UnbornCategory(p) /\ row # None
        <4>1. categories[c] = None /\ UnbornCategory(c)
          BY <3>2, <1>3 DEF UnbornCategory, Unborn
        <4>2. ~UnbornCategory(c)'
          BY <3>2, <1>1 DEF UnbornCategory, Unborn
        <4> QED
          BY <3>1, <4>1, <4>2 DEF CategoriesKeep
      <3>3. CASE /\ categories[c] # None
                 /\ req[p].user \in Users /\ categories[c].user = req[p].user
                 /\ row # None =>
                      row.user = categories[c].user /\ row.type = categories[c].type
        BY <3>1, <3>3, NamedApart DEF CategoriesKeep
      <3> QED
        BY <2>3, <3>2, <3>3
    <2> QED
      BY <2>2, <2>4
  <1>6. CASE ChangeTag(p)
    <2>1. UNCHANGED <<categories, statements>>
      BY <1>6 DEF ChangeTag
    <2>2. CategoriesKeep /\ StatementsKeep
      BY <2>1 DEF CategoriesKeep, StatementsKeep
    <2>3. PICK t \in TagIDs, row \in Tag \cup {None} :
            /\ tags' = [tags EXCEPT ![t] = row]
            /\ \/ t = p /\ UnbornTag(p) /\ row # None
               \/ /\ tags[t] # None
                  /\ row # None => row.user = tags[t].user
                  /\ row = None => ~\E q \in Requests : HoldsTag(q, t)
      BY <1>6, Zenon DEF ChangeTag
    <2>4. tags'[t] = row /\ \A u \in TagIDs \ {t} : tags'[u] = tags[u]
      BY <1>0, <2>3
    <2>5. CASE t = p /\ UnbornTag(p) /\ row # None
      <3>1. tags[t] = None /\ UnbornTag(t)
        BY <2>5, <1>3
      <3>2. ~UnbornTag(t)'
        BY <2>5, <1>1 DEF UnbornTag, Unborn
      <3> QED
        BY <2>2, <2>4, <3>1, <3>2 DEF TagsKeep
    <2>6. CASE /\ tags[t] # None
               /\ row # None => row.user = tags[t].user
               /\ row = None => ~\E q \in Requests : HoldsTag(q, t)
      <3>1. ASSUME row = None, NEW q \in Requests PROVE ~HoldsTag(q, t)
        BY <2>6, <3>1
      <3>2. ASSUME NEW u \in TagIDs, tags[u] # None, tags'[u] = None, NEW q \in Requests
            PROVE  ~HoldsTag(q, u)
        BY <2>4, <3>1, <3>2 DEF HoldsTag
      <3> QED
        BY <2>2, <2>4, <2>6, <3>2 DEF TagsKeep
    <2> QED
      BY <2>3, <2>5, <2>6
  <1>7. CASE ChangeStatement(p)
    <2>1. UNCHANGED <<categories, tags>>
      BY <1>7 DEF ChangeStatement
    <2>2. CategoriesKeep /\ TagsKeep
      BY <2>1 DEF CategoriesKeep, TagsKeep
    <2>3. PICK s \in StatementIDs, row \in Statement :
            /\ statements' = [statements EXCEPT ![s] = row]
            /\ \/ s = p /\ UnbornStatement(p)
               \/ /\ statements[s] # None
                  /\ row.owner = statements[s].owner /\ row.type = statements[s].type
      BY <1>7, Zenon DEF ChangeStatement
    <2>4. /\ statements'[s] = row /\ row # None
          /\ \A i \in StatementIDs \ {s} : statements'[i] = statements[i]
      BY <1>0, <2>3, NamedApart
    <2>5. CASE s = p /\ UnbornStatement(p)
      <3>1. statements[s] = None /\ UnbornStatement(s)
        BY <2>5, <1>3 DEF UnbornStatement, Unborn
      <3>2. ~UnbornStatement(s)'
        BY <2>5, <1>1 DEF UnbornStatement, Unborn
      <3> QED
        BY <2>2, <2>4, <3>1, <3>2 DEF StatementsKeep
    <2>6. CASE /\ statements[s] # None
               /\ row.owner = statements[s].owner /\ row.type = statements[s].type
      BY <2>2, <2>4, <2>6 DEF StatementsKeep
    <2> QED
      BY <2>3, <2>5, <2>6
  <1> QED
    BY <1>1, <1>4, <1>5, <1>6, <1>7

\* and in every other one.
LEMMA RowsKeep ==
  ASSUME Frames, Past, Defaults, Stages, [Next]_vars
  PROVE  CategoriesKeep /\ TagsKeep /\ StatementsKeep
  <1>1. ASSUME UNCHANGED <<categories, tags, statements>>
        PROVE  CategoriesKeep /\ TagsKeep /\ StatementsKeep
    BY <1>1 DEF CategoriesKeep, TagsKeep, StatementsKeep
  <1>2. ASSUME NEW p \in Requests, StepOf(p)
        PROVE  WritesRow(p) \/ UNCHANGED <<categories, tags, statements>>
    BY <1>2, StepCases, Frame DEF tables
  <1>3. ASSUME NEW p \in Requests, WritesRow(p)
        PROVE  CategoriesKeep /\ TagsKeep /\ StatementsKeep
    BY <1>3, WritesKeep DEF Stages
  <1> QED
    BY <1>1, <1>2, <1>3, NextCases, Others

\* What the tables have been still agrees with them.
LEMMA AgreesStays ==
  ASSUME Frames, CategoriesKeep, TagsKeep, StatementsKeep, [Next]_vars,
         NEW db, db \in DB, Agrees(db)
  PROVE  Agrees(db)'
  <1>1. ASSUME NEW c \in CategoryIDs, db.categories[c] # None
        PROVE  /\ ~UnbornCategory(c)'
               /\ categories'[c] # None => /\ categories'[c].user = db.categories[c].user
                                           /\ categories'[c].type = db.categories[c].type
    <2>1. /\ ~UnbornCategory(c)
          /\ categories[c] # None => /\ categories[c].user = db.categories[c].user
                                     /\ categories[c].type = db.categories[c].type
      BY <1>1 DEF Agrees
    <2> QED
      BY <2>1, BornStays DEF CategoriesKeep
  <1>2. ASSUME NEW t \in TagIDs, db.tags[t] # None
        PROVE  /\ ~UnbornTag(t)'
               /\ tags'[t] # None => tags'[t].user = db.tags[t].user
    <2>1. /\ ~UnbornTag(t)
          /\ tags[t] # None => tags[t].user = db.tags[t].user
      BY <1>2 DEF Agrees
    <2> QED
      BY <2>1, BornStays DEF TagsKeep
  <1>3. ASSUME NEW s \in StatementIDs, db.statements[s] # None
        PROVE  /\ ~UnbornStatement(s)'
               /\ statements'[s] # None
               /\ statements'[s].owner = db.statements[s].owner
               /\ statements'[s].type = db.statements[s].type
    <2>1. /\ ~UnbornStatement(s)
          /\ statements[s] # None
          /\ statements[s].owner = db.statements[s].owner
          /\ statements[s].type = db.statements[s].type
      BY <1>3 DEF Agrees
    <2> QED
      BY <2>1, BornStays DEF StatementsKeep
  <1> QED
    BY <1>1, <1>2, <1>3 DEF Agrees

\* The defaults stay.
LEMMA NextDefaults ==
  ASSUME Defaults, CategoriesKeep
  PROVE  Defaults'
  BY DEF Defaults, CategoriesKeep, CategoryIDs

\* The tables keep their types in a step that writes.
LEMMA WritesTables ==
  ASSUME Frames, Defaults, NEW p \in Requests, StageOf(p), WritesRow(p)
  PROVE  Writer' \in DB /\ links' \subseteq Link
  <1>0. /\ categories \in [CategoryIDs -> Category \cup {None}]
        /\ tags \in [TagIDs -> Tag \cup {None}]
        /\ statements \in [StatementIDs -> Statement \cup {None}]
        /\ links \subseteq Link
    BY WriterTables DEF Frames
  <1>1. SUFFICES /\ categories' \in [CategoryIDs -> Category \cup {None}]
                 /\ tags' \in [TagIDs -> Tag \cup {None}]
                 /\ statements' \in [StatementIDs -> Statement \cup {None}]
                 /\ links' \subseteq Link
    BY DEF Writer, DB
  <1>2. CASE UNCHANGED tables
    BY <1>0, <1>2 DEF tables
  <1>3. CASE ChangeCategory(p)
    BY <1>0, <1>3 DEF ChangeCategory
  <1>4. CASE ChangeTag(p)
    BY <1>0, <1>4 DEF ChangeTag
  <1>5. CASE ChangeStatement(p)
    <2>1. PICK s \in StatementIDs, row \in Statement :
            /\ statements' = [statements EXCEPT ![s] = row]
            /\ UNCHANGED <<categories, tags>>
            /\ \/ \E new \in SUBSET TagIDs : links' = links \cup {<<p, t, p>> : t \in new}
               \/ links' = links
      BY <1>5, Zenon DEF ChangeStatement
    <2>2. links' \subseteq Link
      BY <1>0, <2>1 DEF Link, StatementIDs
    <2> QED
      BY <1>0, <2>1, <2>2
  <1> QED
    BY <1>2, <1>3, <1>4, <1>5, Writes

\* What was committed and has yet to be applied.
LEMMA NextStream ==
  ASSUME Frames, Past, Defaults, Stages, [Next]_vars, Writer' \in DB
  PROVE  /\ wal' \in Seq(DB) /\ replica' \in DB
         /\ \A i \in 1 .. Len(wal') :
              wal'[i] = Writer' \/ \E j \in 1 .. Len(wal) : wal'[i] = wal[j]
         /\ replica' = replica \/ \E j \in 1 .. Len(wal) : replica' = wal[j]
  <1>0. wal \in Seq(DB) /\ replica \in DB
    BY DEF Frames
  <1>1. CASE wal' = wal /\ replica' = replica
    BY <1>0, <1>1
  <1>2. CASE WalGrows /\ replica' = replica
    <2>1. PICK w : w = Writer'
      OBVIOUS
    <2>2. wal' = wal \/ wal' = Append(wal, w)
      BY <1>2, <2>1 DEF WalGrows
    <2>3. CASE wal' = Append(wal, w)
      BY <1>0, <1>2, <2>1, <2>3, AppendProperties
    <2> QED
      BY <1>1, <1>2, <2>2, <2>3
  <1>3. CASE Replicate
    <2>1. wal # << >> /\ replica' = Head(wal) /\ wal' = Tail(wal)
      BY <1>3 DEF Replicate
    <2>2. /\ Head(wal) \in DB /\ Head(wal) = wal[1] /\ 1 \in 1 .. Len(wal)
          /\ Tail(wal) \in Seq(DB)
          /\ Len(Tail(wal)) = Len(wal) - 1
          /\ \A i \in 1 .. Len(Tail(wal)) : Tail(wal)[i] = wal[i + 1]
      BY <1>0, <2>1, HeadTailProperties, EmptySeq
    <2>3. \A i \in 1 .. Len(wal') : i + 1 \in 1 .. Len(wal) /\ wal'[i] = wal[i + 1]
      BY <1>0, <2>1, <2>2
    <2> QED
      BY <2>1, <2>2, <2>3
  <1>4. ASSUME NEW p \in Requests, StepOf(p)
        PROVE  replica' = replica /\ (wal' = wal \/ WalGrows)
    <2>1. CASE WritesRow(p)
      BY <2>1, Writes, Frame DEF Stages, tables
    <2> QED
      BY <1>4, <2>1, StepCases, Frame DEF tables
  <1> QED
    BY <1>1, <1>2, <1>3, <1>4, NextCases DEF vars

\* Every state the reader can show still agrees with the writer.
LEMMA NextPast ==
  ASSUME Frames, Past, Defaults, Stages, [Next]_vars, Writer' \in DB
  PROVE  Past'
  <1>1. CategoriesKeep /\ TagsKeep /\ StatementsKeep
    BY RowsKeep
  <1>2. ASSUME NEW db, db \in DB, Agrees(db) PROVE Agrees(db)'
    BY <1>1, <1>2, AgreesStays
  <1>3. Agrees(Writer)'
    <2>1. Agrees(Writer)
      BY DEF Past
    <2>2. ASSUME NEW c \in CategoryIDs, categories'[c] # None PROVE ~UnbornCategory(c)'
      BY <1>1, <2>1, <2>2, BornStays DEF CategoriesKeep, Agrees, Writer
    <2>3. ASSUME NEW t \in TagIDs, tags'[t] # None PROVE ~UnbornTag(t)'
      BY <1>1, <2>1, <2>3, BornStays DEF TagsKeep, Agrees, Writer
    <2>4. ASSUME NEW s \in StatementIDs, statements'[s] # None PROVE ~UnbornStatement(s)'
      BY <1>1, <2>1, <2>4, BornStays DEF StatementsKeep, Agrees, Writer
    <2> QED
      BY <2>2, <2>3, <2>4 DEF Agrees, Writer
  <1>4. ASSUME NEW j \in 1 .. Len(wal), NEW db, db = wal[j] PROVE Agrees(db)'
    BY <1>2, <1>4, ElementOfSeq DEF Past, Frames
  <1>5. Agrees(replica)'
    <2>1. PICK db : db = replica'
      OBVIOUS
    <2>2. db = replica \/ \E j \in 1 .. Len(wal) : db = wal[j]
      BY <2>1, NextStream
    <2>3. Agrees(db)'
      BY <1>2, <1>4, <2>2 DEF Past, Frames
    <2> QED
      BY <2>1, <2>3 DEF Agrees
  <1>6. \A i \in 1 .. Len(wal') : Agrees(wal[i])'
    <2> SUFFICES ASSUME NEW i \in 1 .. Len(wal') PROVE Agrees(wal[i])'
      OBVIOUS
    <2>1. PICK db : db = wal'[i]
      OBVIOUS
    <2>2. db = Writer' \/ \E j \in 1 .. Len(wal) : db = wal[j]
      BY <2>1, NextStream
    <2>3. CASE db = Writer'
      BY <1>3, <2>1, <2>3 DEF Agrees
    <2>4. CASE \E j \in 1 .. Len(wal) : db = wal[j]
      <3>1. Agrees(db)'
        BY <1>4, <2>4
      <3> QED
        BY <2>1, <3>1 DEF Agrees
    <2> QED
      BY <2>2, <2>3, <2>4
  <1> QED
    BY <1>3, <1>5, <1>6 DEF Past

-----------------------------------------------------------------------------
(***************************************************************************)
(* What requests know stays true.                                          *)
(***************************************************************************)

LEMMA KnownStays ==
  ASSUME Frames, Past, Defaults, Stages, [Next]_vars, NEW q \in Requests
  PROVE  /\ req[q].op \in {"renameCategory", "deleteCategory"} /\ OwnCategory(q) => OwnCategory(q)'
         /\ req[q].op \in {"renameTag", "deleteTag"} /\ OwnTag(q) => OwnTag(q)'
         /\ req[q].op \in StatementOps \ {"create"} /\ statements[req[q].id] # None =>
              statements'[req[q].id] # None
         /\ /\ req[q].op \in {"create", "setCategory"} /\ CategoryResolved(q)
            /\ req[q].op # "create" => statements[req[q].id] # None
            => CategoryResolved(q)'
         /\ /\ req[q].op \in {"create", "setTags"} /\ TagsResolved(q)
            /\ req[q].op # "create" => statements[req[q].id] # None
            => TagsResolved(q)'
  <1>1. CategoriesKeep /\ TagsKeep /\ StatementsKeep /\ req' = req
    BY RowsKeep, InputsStay
  <1>2. ASSUME req[q].op \in {"renameCategory", "deleteCategory"}, OwnCategory(q)
        PROVE  OwnCategory(q)'
    <2>1. PICK c \in CategoryIDs : c = req[q].id
      BY <1>2, InputFields
    <2>2. ~UnbornCategory(c)
      BY <1>2, <2>1 DEF OwnCategory, UnbornCategory, Unborn
    <2>3. ~UnbornCategory(c)'
      BY <2>2, BornStays
    <2>4. ~UnbornCategory(req[q].id)'
      BY <1>1, <2>1, <2>3 DEF UnbornCategory, Unborn
    <2> QED
      BY <1>1, <1>2, <2>1, <2>2, <2>4 DEF OwnCategory, CategoriesKeep
  <1>3. ASSUME req[q].op \in {"renameTag", "deleteTag"}, OwnTag(q)
        PROVE  OwnTag(q)'
    <2>1. PICK t \in TagIDs : t = req[q].id
      BY <1>3, InputFields
    <2>2. ~UnbornTag(t)
      BY <1>3, <2>1 DEF OwnTag, UnbornTag, Unborn
    <2>3. ~UnbornTag(t)'
      BY <2>2, BornStays
    <2>4. ~UnbornTag(req[q].id)'
      BY <1>1, <2>1, <2>3 DEF UnbornTag, Unborn
    <2> QED
      BY <1>1, <1>3, <2>1, <2>2, <2>4 DEF OwnTag, TagsKeep
  <1>4. ASSUME req[q].op \in StatementOps \ {"create"}, statements[req[q].id] # None
        PROVE  /\ statements'[req[q].id] # None
               /\ OwnerOf(q)' = OwnerOf(q) /\ TypeOf(q)' = TypeOf(q)
    <2>1. req[q].id \in StatementIDs
      BY <1>4, InputFields
    <2> QED
      BY <1>1, <1>4, <2>1 DEF StatementsKeep, OwnerOf, TypeOf, StatementOps
  <1>5. ASSUME req[q].op = "create"
        PROVE  OwnerOf(q)' = OwnerOf(q) /\ TypeOf(q)' = TypeOf(q)
    BY <1>1, <1>5 DEF OwnerOf, TypeOf
  <1>6. ASSUME /\ req[q].op \in {"create", "setCategory"} /\ CategoryResolved(q)
               /\ req[q].op # "create" => statements[req[q].id] # None
        PROVE  CategoryResolved(q)'
    <2>1. CASE req[q].category = None
      BY <1>1, <2>1 DEF CategoryResolved
    <2>2. CASE req[q].category # None
      <3>1. PICK c \in CategoryIDs : c = req[q].category
        BY <1>6, <2>2, InputFields
      <3>2. /\ ~UnbornCategory(c)
            /\ categories[c] # None => /\ Visible(categories[c], OwnerOf(q))
                                       /\ categories[c].type = TypeOf(q)
        BY <1>6, <2>2, <3>1 DEF CategoryResolved, UnbornCategory, Unborn
      <3>3. ~UnbornCategory(c)'
        BY <3>2, BornStays
      <3>4. OwnerOf(q)' = OwnerOf(q) /\ TypeOf(q)' = TypeOf(q)
        BY <1>4, <1>5, <1>6 DEF StatementOps
      <3>5. categories'[c] # None => /\ Visible(categories'[c], OwnerOf(q))
                                     /\ categories'[c].type = TypeOf(q)
        BY <1>1, <3>2 DEF CategoriesKeep, Visible
      <3>6. ~UnbornCategory(req[q].category)'
        BY <1>1, <3>1, <3>3 DEF UnbornCategory, Unborn
      <3> QED
        BY <1>1, <3>1, <3>4, <3>5, <3>6 DEF CategoryResolved, Visible
    <2> QED
      BY <2>1, <2>2
  <1>7. ASSUME /\ req[q].op \in {"create", "setTags"} /\ TagsResolved(q)
               /\ req[q].op # "create" => statements[req[q].id] # None
        PROVE  TagsResolved(q)'
    <2>1. Wanted(q)' = Wanted(q) /\ Wanted(q) \subseteq TagIDs
      BY <1>1, <1>7, WantedType DEF Wanted
    <2>2. OwnerOf(q)' = OwnerOf(q)
      BY <1>4, <1>5, <1>7 DEF StatementOps
    <2>3. ASSUME NEW t \in Wanted(q)
          PROVE  /\ ~UnbornTag(t)'
                 /\ tags'[t] # None => Visible(tags'[t], OwnerOf(q))
      <3>1. ~UnbornTag(t) /\ (tags[t] # None => Visible(tags[t], OwnerOf(q)))
        BY <1>7, <2>3 DEF TagsResolved
      <3> QED
        BY <1>1, <2>1, <3>1, BornStays DEF TagsKeep, Visible
    <2> QED
      BY <2>1, <2>2, <2>3 DEF TagsResolved, Visible
  <1> QED
    BY <1>2, <1>3, <1>4, <1>6, <1>7

\* A request that does not move knows what it knew.
LEMMA StageStays ==
  ASSUME Frames, Past, Defaults, Stages, [Next]_vars, NEW q \in Requests, pc'[q] = pc[q]
  PROVE  StageOf(q)'
  <1>1. StageOf(q) /\ req' = req /\ TagsKeep
    BY InputsStay, RowsKeep DEF Stages
  <1> DEFINE in == req[q]
  <1>2. pc[q] \in {"rename", "count", "delete"} =>
          /\ in.op \in {"renameCategory", "deleteCategory", "renameTag", "deleteTag"}
          /\ in.op \in {"renameCategory", "deleteCategory"} => OwnCategory(q)'
          /\ in.op \in {"renameTag", "deleteTag"} => OwnTag(q)'
    BY <1>1, KnownStays DEF StageOf
  <1>3. /\ pc[q] = "reversal" => in.op = "reverse"
        /\ pc[q] = "category" => in.op \in {"create", "setCategory"}
        /\ pc[q] = "tags" => in.op \in {"create", "setTags"}
        /\ pc[q] = "update" => in.op = "setCategory"
        /\ pc[q] = "post" => in.op \in {"create", "reverse"}
        /\ pc[q] \in Replacing => in.op = "setTags"
        /\ pc[q] \in {"find", "insert", "rename"} /\ in.op \in NamedOps => in.name # Blank
        /\ pc[q] = "insert" /\ in.op = "createCategory" => in.type \in Types
    BY <1>1 DEF StageOf
  <1>4. ASSUME pc[q] \in {"reversal", "category", "tags", "update", "post"} \cup Replacing
        PROVE  /\ in.op \in StatementOps
               /\ in.op # "create" => statements[in.id] # None
               /\ in.op # "create" => statements'[in.id] # None
    <2>1. in.op \in StatementOps /\ (in.op # "create" => statements[in.id] # None)
      BY <1>1, <1>3, <1>4 DEF StageOf, StatementOps
    <2> QED
      BY <2>1, KnownStays
  <1>5. pc[q] = "update" \/ (pc[q] \in {"tags", "post"} /\ in.op = "create") =>
          CategoryResolved(q)'
    BY <1>1, <1>3, <1>4, KnownStays DEF StageOf
  <1>6. pc[q] \in Replacing \/ (pc[q] = "post" /\ in.op = "create") => TagsResolved(q)'
    BY <1>1, <1>3, <1>4, KnownStays DEF StageOf
  <1>7. pc[q] = "commit" => \A t \in Wanted(q) : tags'[t] # None
    <2> SUFFICES ASSUME pc[q] = "commit", NEW t \in Wanted(q) PROVE tags'[t] # None
      OBVIOUS
    <2>1. tags[t] # None /\ HoldsTag(q, t)
      BY <1>1 DEF StageOf, HoldsTag
    <2>2. t \in TagIDs
      BY <1>3, WantedType DEF Replacing
    <2> QED
      BY <1>1, <2>1, <2>2 DEF TagsKeep
  <1>8. Wanted(q)' = Wanted(q)
    BY <1>1 DEF Wanted
  <1> QED
    BY <1>1, <1>2, <1>3, <1>4, <1>5, <1>6, <1>7, <1>8 DEF StageOf

\* What a step that only looks has checked.
LEMMA LooksStage ==
  ASSUME Frames, Past, Defaults, Stages, NEW p \in Requests, Looks(p), [Next]_vars
  PROVE  StageOf(p)'
  <1> DEFINE in == req[p]
  <1>1. UNCHANGED <<tables, replica, req, seen, removed>> /\ StageOf(p)
    BY Frame DEF Stages
  <1>2. /\ UNCHANGED <<categories, tags, statements>>
        /\ Wanted(p)' = Wanted(p) /\ OwnerOf(p)' = OwnerOf(p) /\ TypeOf(p)' = TypeOf(p)
    BY <1>1 DEF tables, Wanted, OwnerOf, TypeOf
  <1>3. pc \in [Requests -> PCs] /\ Reader \in DB /\ Agrees(Reader)
    BY ReaderAgrees DEF Frames
  <1>4. /\ \A st \in PCs : Goto(p, st) => pc'[p] = st
        /\ \A w : Reply(p, w) => pc'[p] = "done"
    BY <1>3 DEF Goto, Reply
  <1>5. {"insert", "find", "rename", "count", "delete", "category", "tags", "reversal",
         "post", "update", "replace"} \subseteq PCs
    BY DEF PCs
  <1>6. CASE pc'[p] = "done"
    BY <1>6 DEF StageOf, Replacing
  <1>7. CASE CheckCategory(p)
    <2>1. in.op \in CategoryOps
      BY <1>7, InputFields DEF CheckCategory
    <2>2. \/ pc'[p] = "done"
          \/ in.op = "createCategory" /\ pc'[p] = "insert" /\ in.name # Blank /\ in.type \in Types
          \/ pc'[p] = "find" /\ (in.op = "deleteCategory" \/ in.name # Blank)
      BY <1>4, <1>5, <1>7 DEF CheckCategory
    <2> QED
      BY <1>1, <1>6, <2>1, <2>2 DEF StageOf, Replacing, NamedOps, CategoryOps
  <1>8. CASE CheckTag(p)
    <2>1. in.op \in TagOps
      BY <1>8, InputFields DEF CheckTag
    <2>2. \/ pc'[p] = "done"
          \/ in.op = "createTag" /\ pc'[p] = "insert" /\ in.name # Blank
          \/ pc'[p] = "find" /\ (in.op = "deleteTag" \/ in.name # Blank)
      BY <1>4, <1>5, <1>8 DEF CheckTag
    <2> QED
      BY <1>1, <1>6, <2>1, <2>2 DEF StageOf, Replacing, NamedOps, TagOps
  <1>9. CASE StartStatement(p)
    <2>1. in.op \in StatementOps
      BY <1>9, InputFields DEF StartStatement
    <2>2. pc'[p] = IF in.op = "create" THEN "category" ELSE "find"
      BY <1>4, <1>5, <1>9 DEF StartStatement
    <2> QED
      BY <1>1, <2>1, <2>2 DEF StageOf, Replacing, NamedOps, StatementOps
  <1>10. CASE FindCategory(p)
    <2>1. pc[p] = "find" /\ in.op \in {"renameCategory", "deleteCategory"}
      BY <1>10 DEF FindCategory
    <2>2. PICK c \in CategoryIDs : c = in.id
      BY <2>1, InputFields
    <2>3. \/ pc'[p] = "done"
          \/ /\ pc'[p] = IF in.op = "renameCategory" THEN "rename" ELSE "count"
             /\ Reader.categories[c] # None /\ Reader.categories[c].user = in.user
      BY <1>4, <1>5, <1>10, <2>2 DEF FindCategory
    <2>4. ASSUME Reader.categories[c] # None, Reader.categories[c].user = in.user
          PROVE  OwnCategory(p)'
      <3>1. /\ ~UnbornCategory(c)
            /\ categories[c] # None => categories[c].user = in.user
        BY <1>3, <2>4 DEF Agrees
      <3>2. OwnCategory(p)
        BY <2>2, <3>1 DEF OwnCategory, UnbornCategory, Unborn
      <3> QED
        BY <2>1, <3>2, KnownStays
    <2> QED
      BY <1>1, <1>6, <2>1, <2>3, <2>4 DEF StageOf, Replacing, NamedOps, OwnCategory
  <1>11. CASE CountStatements(p)
    <2>1. pc[p] = "count" /\ pc'[p] \in {"done", "delete"}
      BY <1>4, <1>5, <1>11 DEF CountStatements
    <2>2. /\ in.op \in {"renameCategory", "deleteCategory", "renameTag", "deleteTag"}
          /\ in.op \in {"renameCategory", "deleteCategory"} => OwnCategory(p)'
          /\ in.op \in {"renameTag", "deleteTag"} => OwnTag(p)'
      BY <1>1, <2>1, KnownStays DEF StageOf
    <2> QED
      BY <1>1, <1>6, <2>1, <2>2 DEF StageOf, Replacing
  <1>12. CASE FindTag(p)
    <2>1. pc[p] = "find" /\ in.op \in {"renameTag", "deleteTag"}
      BY <1>12 DEF FindTag
    <2>2. PICK t \in TagIDs : t = in.id
      BY <2>1, InputFields
    <2>3. \/ pc'[p] = "done"
          \/ /\ pc'[p] = IF in.op = "renameTag" THEN "rename" ELSE "delete"
             /\ Reader.tags[t] # None /\ Reader.tags[t].user = in.user
      BY <1>4, <1>5, <1>12, <2>2 DEF FindTag
    <2>4. ASSUME Reader.tags[t] # None, Reader.tags[t].user = in.user
          PROVE  OwnTag(p)'
      <3>1. /\ ~UnbornTag(t)
            /\ tags[t] # None => tags[t].user = in.user
        BY <1>3, <2>4 DEF Agrees
      <3>2. OwnTag(p)
        BY <2>2, <3>1 DEF OwnTag, UnbornTag, Unborn
      <3> QED
        BY <2>1, <3>2, KnownStays
    <2> QED
      BY <1>1, <1>6, <2>1, <2>3, <2>4 DEF StageOf, Replacing, NamedOps, OwnTag
  <1>13. CASE FindStatement(p)
    <2>1. pc[p] = "find" /\ in.op \in {"reverse", "setCategory", "setTags"}
      BY <1>13 DEF FindStatement
    <2>2. PICK s \in StatementIDs : s = in.id
      BY <2>1, InputFields DEF StatementOps
    <2>3. \/ pc'[p] = "done"
          \/ /\ Reader.statements[s] # None
             /\ \/ pc'[p] = "reversal" /\ in.op = "reverse"
                \/ pc'[p] = "category" /\ in.op = "setCategory"
                \/ pc'[p] = "tags" /\ in.op = "setTags"
      <3>1. \/ Reply(p, "ErrStatementNotFound")
            \/ /\ Reader.statements[s] # None
               /\ Goto(p, CASE in.op = "reverse"     -> "reversal"
                            [] in.op = "setCategory" -> "category"
                            [] in.op = "setTags"     -> "tags")
        BY <1>13, <2>2 DEF FindStatement
      <3> QED
        BY <1>4, <1>5, <2>1, <3>1
    <2>4. Reader.statements[s] # None => statements[s] # None
      BY <1>3 DEF Agrees
    <2> QED
      BY <1>1, <1>2, <1>6, <2>2, <2>3, <2>4 DEF StageOf, Replacing
  <1>14. CASE ResolveCategory(p)
    <2>1. /\ pc[p] = "category" /\ in.op \in {"create", "setCategory"}
          /\ in.op # "create" => statements[in.id] # None
      BY <1>1, <1>14 DEF ResolveCategory, StageOf
    <2>2. \/ pc'[p] = "done"
          \/ /\ pc'[p] = IF in.op = "create" THEN "tags" ELSE "update"
             /\ in.category # None =>
                  /\ Visible(Reader.categories[in.category], OwnerOf(p))
                  /\ Reader.categories[in.category].type = TypeOf(p)
      BY <1>4, <1>5, <1>14 DEF ResolveCategory, AfterCategory
    <2>3. ASSUME in.category # None =>
                   /\ Visible(Reader.categories[in.category], OwnerOf(p))
                   /\ Reader.categories[in.category].type = TypeOf(p)
          PROVE  CategoryResolved(p)'
      <3>1. ASSUME in.category = None PROVE CategoryResolved(p)
        BY <3>1 DEF CategoryResolved
      <3>2. ASSUME in.category # None PROVE CategoryResolved(p)
        <4>1. PICK c \in CategoryIDs : c = in.category
          BY <2>1, <3>2, InputFields
        <4>2. /\ ~UnbornCategory(c)
              /\ categories[c] # None => /\ Visible(categories[c], OwnerOf(p))
                                         /\ categories[c].type = TypeOf(p)
          BY <1>3, <2>3, <3>2, <4>1 DEF Agrees, Visible
        <4> QED
          BY <4>1, <4>2 DEF CategoryResolved, UnbornCategory, Unborn
      <3>3. CategoryResolved(p)
        BY <3>1, <3>2
      <3> QED
        BY <2>1, <3>3, KnownStays
    <2> QED
      BY <1>1, <1>2, <1>6, <2>1, <2>2, <2>3 DEF StageOf, Replacing
  <1>15. CASE ResolveTags(p)
    <2>1. /\ pc[p] = "tags" /\ in.op \in {"create", "setTags"}
          /\ in.op # "create" => statements[in.id] # None
          /\ in.op = "create" => CategoryResolved(p)
      BY <1>1, <1>15 DEF ResolveTags, StageOf
    <2>2. \/ pc'[p] = "done"
          \/ /\ pc'[p] = IF in.op = "create" THEN "post" ELSE "replace"
             /\ \A t \in Wanted(p) : Visible(Reader.tags[t], OwnerOf(p))
      BY <1>4, <1>5, <1>15 DEF ResolveTags, AfterTags
    <2>3. ASSUME \A t \in Wanted(p) : Visible(Reader.tags[t], OwnerOf(p))
          PROVE  TagsResolved(p)'
      <3>1. Wanted(p) \subseteq TagIDs
        BY <2>1, WantedType
      <3>2. TagsResolved(p)
        BY <1>3, <2>3, <3>1 DEF TagsResolved, Agrees, Visible
      <3> QED
        BY <2>1, <3>2, KnownStays
    <2>4. in.op = "create" => CategoryResolved(p)'
      BY <2>1, KnownStays
    <2> QED
      BY <1>1, <1>2, <1>6, <2>1, <2>2, <2>3, <2>4 DEF StageOf, Replacing
  <1>16. CASE CheckReversal(p)
    <2>1. /\ pc[p] = "reversal" /\ in.op = "reverse" /\ statements[in.id] # None
          /\ pc'[p] \in {"done", "post"}
      BY <1>1, <1>4, <1>5, <1>16 DEF CheckReversal, StageOf
    <2> QED
      BY <1>1, <1>2, <1>6, <2>1 DEF StageOf, Replacing
  <1> QED
    BY <1>7, <1>8, <1>9, <1>10, <1>11, <1>12, <1>13, <1>14, <1>15, <1>16 DEF Looks

\* The steps of a replacement keep what it resolved.
LEMMA ReplaceStage ==
  ASSUME Frames, Past, Defaults, Stages, NEW p \in Requests, ReplaceStep(p), [Next]_vars
  PROVE  StageOf(p)'
  <1>1. /\ UNCHANGED <<categories, tags, statements, req>>
        /\ StageOf(p) /\ pc \in [Requests -> PCs]
    BY Frame DEF Stages, Frames
  <1>2. /\ pc[p] \in Replacing /\ pc'[p] \in {"remove", "link", "commit", "done"}
        /\ pc'[p] = "commit" => \A t \in Wanted(p) : tags[t] # None
    BY <1>1 DEF ReplaceStep, BeginReplace, RemoveLinks, InsertLinks, CommitLinks, Goto, Reply,
                Executed, Replacing
  <1>3. CASE pc'[p] = "done"
    BY <1>3 DEF StageOf, Replacing
  <1>4. req[p].op = "setTags" /\ statements[req[p].id] # None /\ TagsResolved(p)
    BY <1>1, <1>2 DEF StageOf
  <1>5. TagsResolved(p)'
    BY <1>4, KnownStays
  <1>6. Wanted(p)' = Wanted(p)
    BY <1>1 DEF Wanted
  <1> QED
    BY <1>1, <1>2, <1>3, <1>4, <1>5, <1>6 DEF StageOf, Replacing

\* Every request knows what it should.
LEMMA NextStages ==
  ASSUME Frames, Past, Defaults, Stages, [Next]_vars
  PROVE  Stages'
  <1>1. ASSUME NEW q \in Requests, NEW p \in Requests, StepOf(p) PROVE StageOf(q)'
    <2>1. CASE q # p
      <3>1. pc'[q] = pc[q]
        BY <1>1, <2>1, Moves
      <3> QED
        BY <3>1, StageStays
    <2>2. CASE q = p
      <3>1. pc'[q] = "done" => StageOf(q)'
        BY DEF StageOf, Replacing
      <3>2. WritesRow(q) \/ Fail(q) => pc'[q] = "done"
        BY Writes DEF Stages, Fail, Reply, Frames
      <3>3. StepOf(q)
        BY <1>1, <2>2
      <3> QED
        BY <3>1, <3>2, <3>3, StepCases, LooksStage, ReplaceStage
    <2> QED
      BY <2>1, <2>2
  <1>2. ASSUME Replicate \/ UNCHANGED vars, NEW q \in Requests PROVE StageOf(q)'
    BY <1>2, Others, StageStays
  <1> QED
    BY <1>1, <1>2, NextCases DEF Stages

-----------------------------------------------------------------------------
(***************************************************************************)
(* Links and replacements.                                                 *)
(***************************************************************************)

\* What a request inserts when it commits a replacement.
LEMMA NewLinksType ==
  ASSUME Frames, NEW p \in Requests, req[p].op = "setTags"
  PROVE  /\ NewLinks(p) \subseteq Link
         /\ \A l \in NewLinks(p) : l[1] = req[p].id /\ l[2] \in Wanted(p) /\ l[3] = p
  <1>1. req[p].id \in StatementIDs /\ Wanted(p) \subseteq TagIDs
    BY InputFields, WantedType DEF StatementOps
  <1> QED
    BY <1>1 DEF NewLinks, Link

\* A link is new only when its request ends.
LEMMA LinksGrow ==
  ASSUME Frames, Defaults, Stages, NEW p \in Requests, StepOf(p)
  PROVE  /\ links' \subseteq Link
         /\ \A l \in links' \ links : l[3] = p /\ pc'[p] = "done"
  <1>0. links \subseteq Link /\ pc \in [Requests -> PCs] /\ StageOf(p)
    BY DEF Frames, Stages
  <1>1. CASE links' = links
    BY <1>0, <1>1
  <1>2. CASE WritesRow(p)
    <2>1. links' \subseteq Link /\ pc'[p] = "done"
      BY <1>0, <1>2, Writes, WritesTables
    <2>2. CASE UNCHANGED tables \/ ChangeCategory(p)
      BY <1>1, <2>2 DEF tables, ChangeCategory
    <2>3. CASE ChangeTag(p)
      BY <2>1, <2>3 DEF ChangeTag
    <2>4. CASE ChangeStatement(p)
      <3>1. links' = links \/ \E new \in SUBSET TagIDs : links' = links \cup {<<p, t, p>> : t \in new}
        BY <2>4, Zenon DEF ChangeStatement
      <3> QED
        BY <2>1, <3>1
    <2> QED
      BY <1>0, <1>2, <2>2, <2>3, <2>4, Writes
  <1>3. CASE CommitLinks(p)
    <2>1. pc[p] = "commit" /\ pc'[p] = "done" /\ links' = (links \ removed[p]) \cup NewLinks(p)
      BY <1>0, <1>3 DEF CommitLinks, Executed, Reply
    <2>2. req[p].op = "setTags"
      BY <1>0, <2>1 DEF StageOf, Replacing
    <2> QED
      BY <1>0, <2>1, <2>2, NewLinksType
  <1>4. CASE BeginReplace(p) \/ RemoveLinks(p) \/ InsertLinks(p)
    BY <1>1, <1>4 DEF BeginReplace, RemoveLinks, InsertLinks, tables
  <1> QED
    BY <1>1, <1>2, <1>3, <1>4, StepCases, Frame DEF tables, ReplaceStep

\* Tables, requests and links stay of their types.
LEMMA NextFrames ==
  ASSUME Frames, Past, Defaults, Stages, [Next]_vars
  PROVE  Frames'
  <1>0. /\ Writer \in DB /\ links \subseteq Link /\ pc \in [Requests -> PCs]
        /\ seen \in [Requests -> SUBSET Link] /\ removed \in [Requests -> SUBSET Link]
    BY DEF Frames
  <1>1. ASSUME NEW p \in Requests, StepOf(p)
        PROVE  /\ Writer' \in DB /\ links' \subseteq Link /\ pc' \in [Requests -> PCs]
               /\ seen' \in [Requests -> SUBSET Link] /\ removed' \in [Requests -> SUBSET Link]
    <2>1. Writer' \in DB
      <3>1. CASE WritesRow(p)
        BY <3>1, WritesTables DEF Stages
      <3>2. CASE UNCHANGED <<categories, tags, statements>>
        BY <1>0, <3>2 DEF Writer
      <3> QED
        BY <1>1, <3>1, <3>2, StepCases, Frame DEF tables
    <2>2. seen' \in [Requests -> SUBSET Link] /\ removed' \in [Requests -> SUBSET Link]
      <3>1. CASE ReplaceStep(p)
        BY <1>0, <3>1 DEF ReplaceStep, BeginReplace, RemoveLinks, InsertLinks, CommitLinks
      <3>2. CASE Fail(p)
        BY <1>0, <3>2 DEF Fail
      <3> QED
        BY <1>0, <1>1, <3>1, <3>2, StepCases, Frame
    <2> QED
      BY <1>1, <2>1, <2>2, LinksGrow, Moves
  <1>2. /\ Writer' \in DB /\ links' \subseteq Link /\ pc' \in [Requests -> PCs]
        /\ seen' \in [Requests -> SUBSET Link] /\ removed' \in [Requests -> SUBSET Link]
    BY <1>0, <1>1, NextCases, Others DEF Writer
  <1>3. wal' \in Seq(DB) /\ replica' \in DB
    BY <1>2, NextStream
  <1>4. req' \in [Requests -> Inputs]
    BY InputsStay DEF Frames
  <1> QED
    BY <1>2, <1>3, <1>4 DEF Frames

\* A replacement of one request is left alone by the steps of others, and keeps
\* track of the rows it saw in its own.
LEMMA NextReplaces ==
  ASSUME Frames, Past, Defaults, Stages, Replaces, [Next]_vars
  PROVE  Replaces'
  <1>0. /\ links \subseteq Link /\ pc \in [Requests -> PCs]
        /\ seen \in [Requests -> SUBSET Link] /\ removed \in [Requests -> SUBSET Link]
    BY DEF Frames
  <1>1. req' = req
    BY InputsStay
  <1>2. ASSUME NEW l, Done(l) PROVE Done(l)'
    BY <1>2, DoneStays DEF Done
  <1>3. CASE UNCHANGED <<links, pc, seen, removed>>
    BY <1>1, <1>3 DEF Replaces, ReplaceOf, Done
  <1>4. ASSUME NEW p \in Requests, StepOf(p) PROVE Replaces'
    <2>1. \A l \in links' : Done(l)'
      BY <1>2, <1>4, LinksGrow DEF Replaces, Done
    <2>2. ASSUME NEW q \in Requests
          PROVE  /\ req[q].op # "setTags" \/ pc[q] \in {"idle", "find", "tags", "replace"} => seen[q] = {}
                 /\ \A l \in seen[q] : l[1] = req[q].id /\ Done(l) /\ Done(l)'
                 /\ removed[q] \subseteq seen[q]
                 /\ pc[q] \in {"link", "commit"} => seen[q] \cap links \subseteq removed[q]
      BY <1>2 DEF Replaces, ReplaceOf
    <2>3. pc[p] # "done" /\ \A q \in Requests \ {p} : pc'[q] = pc[q]
      BY <1>4, Moves
    <2>4. ASSUME NEW q \in Requests \ {p} PROVE ReplaceOf(q)'
      <3>1. seen'[q] = seen[q] /\ removed'[q] = removed[q]
        <4>1. CASE ReplaceStep(p) \/ Fail(p)
          BY <1>0, <4>1 DEF ReplaceStep, BeginReplace, RemoveLinks, InsertLinks, CommitLinks, Fail
        <4> QED
          BY <1>4, <4>1, StepCases, Frame
      <3>2. \A l \in seen[q] : l[3] # p
        BY <2>2, <2>3 DEF Done
      <3>3. seen[q] \cap links' \subseteq seen[q] \cap links
        BY <1>4, <3>2, LinksGrow
      <3> QED
        BY <1>1, <2>2, <2>3, <3>1, <3>3 DEF ReplaceOf
    <2>5. ASSUME pc'[p] = "done", seen' = seen, removed'[p] \subseteq removed[p]
          PROVE  ReplaceOf(p)'
      BY <1>1, <2>2, <2>5 DEF ReplaceOf
    <2>6. ASSUME Looks(p) PROVE ReplaceOf(p)'
      <3>1. UNCHANGED <<tables, seen, removed>>
        BY <2>6, Frame
      <3>2. seen[p] = {}
        <4>1. \/ pc[p] \in {"idle", "find", "tags"}
              \/ pc[p] \in {"count", "category", "reversal"} /\ StageOf(p)
          BY <2>6 DEF Looks, CheckCategory, FindCategory, CountStatements, CheckTag, FindTag,
                      StartStatement, FindStatement, ResolveCategory, ResolveTags, CheckReversal,
                      Stages
        <4> QED
          BY <2>2, <4>1 DEF StageOf
      <3> QED
        BY <1>1, <2>2, <3>1, <3>2 DEF ReplaceOf
    <2>7. ASSUME WritesRow(p) \/ Fail(p) PROVE ReplaceOf(p)'
      <3>1. pc'[p] = "done" /\ seen' = seen
        BY <1>0, <2>7, Writes, Frame DEF Stages, Fail, Reply
      <3>2. removed'[p] \subseteq removed[p]
        BY <1>0, <2>7, Frame DEF Fail
      <3> QED
        BY <2>5, <3>1, <3>2
    <2>8. ASSUME ReplaceStep(p) PROVE ReplaceOf(p)'
      <3>1. pc[p] \in Replacing => req[p].op = "setTags"
        BY DEF Stages, StageOf
      <3>2. CASE BeginReplace(p)
        <4>1. /\ pc[p] = "replace" /\ pc'[p] = "remove" /\ removed' = removed
              /\ seen'[p] = {l \in links : l[1] = req[p].id}
          BY <1>0, <3>2 DEF BeginReplace, Goto
        <4>2. \A l \in links : Done(l)'
          BY <1>2 DEF Replaces
        <4> QED
          BY <1>1, <2>2, <3>1, <4>1, <4>2 DEF ReplaceOf, Replacing
      <3>3. CASE RemoveLinks(p)
        <4>1. /\ pc[p] = "remove" /\ pc'[p] = "link" /\ seen' = seen /\ links' = links
              /\ removed'[p] = seen[p] \cap links
          BY <1>0, <3>3 DEF RemoveLinks, Goto, tables
        <4> QED
          BY <1>1, <2>2, <3>1, <4>1 DEF ReplaceOf, Replacing
      <3>4. CASE InsertLinks(p)
        <4>1. /\ pc[p] = "link" /\ seen' = seen /\ links' = links
              /\ \/ pc'[p] = "done" /\ removed'[p] \subseteq removed[p]
                 \/ pc'[p] = "commit" /\ removed' = removed
          BY <1>0, <3>4 DEF InsertLinks, Goto, Reply, tables
        <4> QED
          BY <1>1, <2>2, <2>5, <3>1, <4>1 DEF ReplaceOf, Replacing
      <3>5. CASE CommitLinks(p)
        BY <1>0, <2>5, <3>5 DEF CommitLinks, Executed, Reply
      <3> QED
        BY <2>8, <3>2, <3>3, <3>4, <3>5 DEF ReplaceStep
    <2>9. ReplaceOf(p)'
      BY <1>4, <2>6, <2>7, <2>8, StepCases
    <2> QED
      BY <2>1, <2>4, <2>9 DEF Replaces
  <1> QED
    BY <1>3, <1>4, NextCases, Others

\* What a statement refers to is there and fits, after a step as before it.
LEMMA NextFits ==
  ASSUME Frames, Past, Defaults, Stages, Replaces, MetadataFits, [Next]_vars
  PROVE  MetadataFits'
  <1>0. /\ categories \in [CategoryIDs -> Category \cup {None}]
        /\ tags \in [TagIDs -> Tag \cup {None}]
        /\ statements \in [StatementIDs -> Statement \cup {None}]
        /\ links \subseteq Link
    BY WriterTables DEF Frames
  <1>1. CASE UNCHANGED <<categories, tags, statements, links>>
    BY <1>1 DEF MetadataFits, CategoryFits, TagsFit
  <1>2. ASSUME NEW s \in StatementIDs, statements[s] # None, statements[s].category # None
        PROVE  /\ statements[s].category \in CategoryIDs
               /\ categories[statements[s].category] # None
    BY <1>0, <1>2 DEF MetadataFits, CategoryFits, Visible, Statement
  <1>3. ASSUME NEW l \in links
        PROVE  /\ l[1] \in StatementIDs /\ l[2] \in TagIDs
               /\ statements[l[1]] # None /\ tags[l[2]] # None
               /\ Visible(tags[l[2]], statements[l[1]].owner)
    BY <1>0, <1>3 DEF MetadataFits, TagsFit, Visible, Link
  <1>4. ASSUME NEW p \in Requests
        PROVE  /\ UnbornCategory(p) => categories[p] = None
               /\ UnbornTag(p) => tags[p] = None
               /\ UnbornStatement(p) => statements[p] = None
    BY InputFields DEF Past, Agrees, Writer
  <1>5. ASSUME NEW p \in Requests, ChangeCategory(p) PROVE MetadataFits'
    <2>1. UNCHANGED <<tags, statements, links>>
      BY <1>5 DEF ChangeCategory
    <2>2. PICK c \in CategoryIDs, row \in Category \cup {None} :
            /\ categories' = [categories EXCEPT ![c] = row]
            /\ \/ c = p /\ UnbornCategory(p)
               \/ /\ row # None =>
                       row.user = categories[c].user /\ row.type = categories[c].type
                  /\ row = None =>
                       \A s \in StatementIDs : statements[s] # None => statements[s].category # c
      BY <1>5, Zenon DEF ChangeCategory
    <2>3. categories'[c] = row /\ \A d \in CategoryIDs \ {c} : categories'[d] = categories[d]
      BY <1>0, <2>2
    <2>4. TagsFit'
      BY <2>1 DEF MetadataFits, TagsFit
    <2>5. ASSUME NEW s \in StatementIDs, statements[s] # None, statements[s].category # None
          PROVE  LET new == categories'[statements[s].category]
                 IN  Visible(new, statements[s].owner) /\ new.type = statements[s].type
      <3>1. /\ Visible(categories[statements[s].category], statements[s].owner)
            /\ categories[statements[s].category].type = statements[s].type
        BY <2>5 DEF MetadataFits, CategoryFits
      <3>2. CASE statements[s].category # c
        BY <1>2, <2>3, <2>5, <3>1, <3>2
      <3>3. CASE statements[s].category = c
        <4>1. row # None => row.user = categories[c].user /\ row.type = categories[c].type
          BY <1>2, <1>4, <2>2, <2>5, <3>3
        <4>2. row # None
          BY <1>2, <1>4, <2>2, <2>5, <3>3
        <4> QED
          BY <2>3, <3>1, <3>3, <4>1, <4>2 DEF Visible
      <3> QED
        BY <3>2, <3>3
    <2>6. CategoryFits'
      BY <2>1, <2>5 DEF CategoryFits
    <2> QED
      BY <2>4, <2>6 DEF MetadataFits
  <1>6. ASSUME NEW p \in Requests, ChangeTag(p) PROVE MetadataFits'
    <2>1. UNCHANGED <<categories, statements>>
      BY <1>6 DEF ChangeTag
    <2>2. PICK t \in TagIDs, row \in Tag \cup {None} :
            /\ tags' = [tags EXCEPT ![t] = row]
            /\ \/ t = p /\ UnbornTag(p) /\ links' = links
               \/ row # None /\ row.user = tags[t].user /\ links' = links
               \/ links' = {l \in links : l[2] # t}
      BY <1>6, Zenon DEF ChangeTag
    <2>3. tags'[t] = row /\ \A u \in TagIDs \ {t} : tags'[u] = tags[u]
      BY <1>0, <2>2
    <2>4. CategoryFits'
      BY <2>1 DEF MetadataFits, CategoryFits
    <2>5. ASSUME NEW l \in links' PROVE statements[l[1]] # None /\ Visible(tags'[l[2]], statements[l[1]].owner)
      <3>1. l \in links
        BY <2>2, <2>5
      <3>2. CASE l[2] # t
        BY <1>3, <2>3, <3>1, <3>2
      <3>3. CASE l[2] = t
        <4>1. row # None /\ row.user = tags[t].user
          BY <1>3, <1>4, <2>2, <2>5, <3>1, <3>3
        <4> QED
          BY <1>3, <2>3, <3>1, <3>3, <4>1 DEF Visible
      <3> QED
        BY <3>2, <3>3
    <2>6. TagsFit'
      BY <2>1, <2>5 DEF TagsFit
    <2> QED
      BY <2>4, <2>6 DEF MetadataFits
  <1>7. ASSUME NEW p \in Requests, ChangeStatement(p) PROVE MetadataFits'
    <2>1. UNCHANGED <<categories, tags>>
      BY <1>7 DEF ChangeStatement
    <2>2. PICK s \in StatementIDs, row \in Statement :
            /\ statements' = [statements EXCEPT ![s] = row]
            /\ row.category # None => /\ Visible(categories[row.category], row.owner)
                                      /\ categories[row.category].type = row.type
            /\ \/ /\ s = p /\ UnbornStatement(p)
                  /\ \E new \in SUBSET TagIDs :
                       /\ links' = links \cup {<<p, t, p>> : t \in new}
                       /\ \A t \in new : Visible(tags[t], row.owner)
               \/ row.owner = statements[s].owner /\ links' = links
      BY <1>7, Zenon DEF ChangeStatement
    <2>3. /\ statements'[s] = row /\ row # None
          /\ \A i \in StatementIDs \ {s} : statements'[i] = statements[i]
      BY <1>0, <2>2, NamedApart
    <2>4. ASSUME NEW i \in StatementIDs, statements'[i] # None, statements'[i].category # None
          PROVE  /\ Visible(categories[statements'[i].category], statements'[i].owner)
                 /\ categories[statements'[i].category].type = statements'[i].type
      BY <2>2, <2>3, <2>4 DEF MetadataFits, CategoryFits
    <2>5. CategoryFits'
      BY <2>1, <2>4 DEF CategoryFits
    <2>6. ASSUME NEW l \in links
          PROVE  statements'[l[1]] # None /\ Visible(tags[l[2]], statements'[l[1]].owner)
      <3>1. l[1] = s => row.owner = statements[s].owner
        BY <1>3, <1>4, <2>2
      <3> QED
        BY <1>3, <2>3, <3>1
    <2>7. ASSUME NEW l \in links' \ links
          PROVE  statements'[l[1]] # None /\ Visible(tags[l[2]], statements'[l[1]].owner)
      <3>1. PICK new \in SUBSET TagIDs :
              /\ s = p /\ links' = links \cup {<<p, t, p>> : t \in new}
              /\ \A t \in new : Visible(tags[t], row.owner)
        BY <2>2, <2>7
      <3>2. PICK t \in new : l = <<p, t, p>>
        BY <2>7, <3>1
      <3> QED
        BY <2>3, <3>1, <3>2
    <2>8. TagsFit'
      BY <2>1, <2>6, <2>7 DEF TagsFit
    <2> QED
      BY <2>5, <2>8 DEF MetadataFits
  <1>8. ASSUME NEW p \in Requests, CommitLinks(p) PROVE MetadataFits'
    <2>1. /\ UNCHANGED <<categories, tags, statements>>
          /\ pc[p] = "commit" /\ links' = (links \ removed[p]) \cup NewLinks(p)
      BY <1>8 DEF CommitLinks
    <2>2. /\ req[p].op = "setTags" /\ statements[req[p].id] # None
          /\ TagsResolved(p) /\ \A t \in Wanted(p) : tags[t] # None
      BY <2>1 DEF Stages, StageOf, Replacing
    <2>3. \A t \in Wanted(p) : Visible(tags[t], statements[req[p].id].owner)
      BY <2>2 DEF TagsResolved, OwnerOf
    <2>4. \A l \in links' : statements[l[1]] # None /\ Visible(tags[l[2]], statements[l[1]].owner)
      BY <1>3, <2>1, <2>2, <2>3, NewLinksType
    <2> QED
      BY <2>1, <2>4 DEF MetadataFits, CategoryFits, TagsFit
  <1>9. ASSUME NEW p \in Requests, StepOf(p) PROVE MetadataFits'
    <2>1. CASE WritesRow(p)
      BY <1>1, <1>5, <1>6, <1>7, <2>1, Writes DEF Stages, tables
    <2>2. CASE BeginReplace(p) \/ RemoveLinks(p) \/ InsertLinks(p)
      BY <1>1, <2>2 DEF BeginReplace, RemoveLinks, InsertLinks, tables
    <2> QED
      BY <1>1, <1>8, <1>9, <2>1, <2>2, StepCases, Frame DEF tables, ReplaceStep
  <1> QED
    BY <1>1, <1>9, NextCases, Others

-----------------------------------------------------------------------------
(***************************************************************************)
(* The theorems.                                                           *)
(***************************************************************************)

IInv == Frames /\ Past /\ Defaults /\ Stages /\ Replaces /\ MetadataFits

LEMMA InitIInv == Init => IInv
  <1> SUFFICES ASSUME Init PROVE IInv
    OBVIOUS
  <1>1. /\ categories = Padded(SeedCategories, CategoryIDs)
        /\ tags = Padded(SeedTags, TagIDs)
        /\ statements = Padded(SeedStatements, StatementIDs)
        /\ links = {<<l[1], l[2], None>> : l \in SeedLinks}
        /\ wal = << >> /\ replica = Writer
        /\ pc = [p \in Requests |-> "idle"] /\ req \in [Requests -> Inputs]
        /\ seen = [p \in Requests |-> {}] /\ removed = [p \in Requests |-> {}]
    BY DEF Init, Writer
  <1>2. /\ \A c \in CategoryIDs : categories[c] =
             IF c \in DOMAIN SeedCategories THEN SeedCategories[c] ELSE None
        /\ categories \in [CategoryIDs -> Category \cup {None}]
    BY <1>1, SeedsAssumption DEF Padded
  <1>3. /\ \A t \in TagIDs : tags[t] = IF t \in DOMAIN SeedTags THEN SeedTags[t] ELSE None
        /\ tags \in [TagIDs -> Tag \cup {None}]
    BY <1>1, SeedsAssumption DEF Padded
  <1>4. /\ \A s \in StatementIDs : statements[s] =
             IF s \in DOMAIN SeedStatements THEN SeedStatements[s] ELSE None
        /\ statements \in [StatementIDs -> Statement \cup {None}]
    BY <1>1, SeedsAssumption DEF Padded
  <1>5. /\ \A c \in DOMAIN SeedCategories : c \in CategoryIDs /\ SeedCategories[c] # None
        /\ \A t \in DOMAIN SeedTags : t \in TagIDs /\ SeedTags[t] # None
        /\ \A s \in DOMAIN SeedStatements : s \in StatementIDs /\ SeedStatements[s] # None
    BY SeedsAssumption, NamedApart DEF CategoryIDs, TagIDs, StatementIDs
  <1>6. \A l \in links :
          /\ l \in Link /\ l[3] = None
          /\ l[1] \in DOMAIN SeedStatements /\ l[2] \in DOMAIN SeedTags
          /\ Visible(SeedTags[l[2]], SeedStatements[l[1]].owner)
    BY <1>1, <1>5, SeedsAssumption DEF Link
  <1>7. Frames
    <2>1. Writer \in DB
      BY <1>2, <1>3, <1>4 DEF Writer, DB
    <2>2. links \subseteq Link /\ wal \in Seq(DB)
      BY <1>1, <1>6
    <2> QED
      BY <1>1, <2>1, <2>2 DEF Frames, PCs
  <1>8. Past
    <2>1. \A c \in DOMAIN SeedCategories : c \notin Requests
      BY NamedApart
    <2>2. \A t \in DOMAIN SeedTags : t \notin Requests
      BY NamedApart
    <2>3. \A s \in DOMAIN SeedStatements : s \notin Requests
      BY NamedApart
    <2>4. Agrees(Writer)
      BY <1>2, <1>3, <1>4, <2>1, <2>2, <2>3
      DEF Agrees, Writer, UnbornCategory, UnbornTag, UnbornStatement, Unborn
    <2>5. Agrees(replica)
      BY <1>1, <2>4
    <2> QED
      BY <1>1, <2>4, <2>5 DEF Past
  <1>9. Defaults
    BY <1>2, <1>5 DEF Defaults
  <1>10. Stages
    BY <1>1 DEF Stages, StageOf, Replacing
  <1>11. Replaces
    <2>1. \A l \in links : Done(l)
      BY <1>6, NamedApart DEF Done
    <2> QED
      BY <1>1, <2>1 DEF Replaces, ReplaceOf
  <1>12. CategoryFits
    <2> SUFFICES ASSUME NEW s \in StatementIDs, statements[s] # None,
                        statements[s].category # None
                 PROVE  /\ Visible(categories[statements[s].category], statements[s].owner)
                        /\ categories[statements[s].category].type = statements[s].type
      BY DEF CategoryFits
    <2>1. s \in DOMAIN SeedStatements /\ statements[s] = SeedStatements[s]
      BY <1>4
    <2> DEFINE c == SeedStatements[s].category
    <2>2. /\ c \in DOMAIN SeedCategories
          /\ SeedCategories[c].type = SeedStatements[s].type
          /\ Visible(SeedCategories[c], SeedStatements[s].owner)
      BY <2>1, SeedsAssumption
    <2>3. c \in CategoryIDs /\ categories[c] = SeedCategories[c]
      BY <1>2, <1>5, <2>2
    <2> QED
      BY <2>1, <2>2, <2>3
  <1>13. TagsFit
    BY <1>3, <1>4, <1>5, <1>6 DEF TagsFit
  <1> QED
    BY <1>7, <1>8, <1>9, <1>10, <1>11, <1>12, <1>13 DEF IInv, MetadataFits

LEMMA NextIInv == IInv /\ [Next]_vars => IInv'
  <1> SUFFICES ASSUME IInv, [Next]_vars PROVE IInv'
    OBVIOUS
  <1>1. Frames /\ Past /\ Defaults /\ Stages /\ Replaces /\ MetadataFits
    BY DEF IInv
  <1>2. Frames'
    BY <1>1, NextFrames
  <1>3. Past'
    BY <1>1, <1>2, NextPast DEF Frames
  <1>4. Defaults'
    BY <1>1, RowsKeep, NextDefaults
  <1>5. Stages' /\ Replaces' /\ MetadataFits'
    BY <1>1, NextStages, NextReplaces, NextFits
  <1> QED
    BY <1>2, <1>3, <1>4, <1>5 DEF IInv

LEMMA Invariant == Spec => []IInv
  BY InitIInv, NextIInv, PTL DEF Spec

\* The category and the tags of every statement are there, are the owner's or
\* defaults, and the category has the statement's type, although all of it was
\* checked on a replica before the write (metadata.go:33-107, reverse.go:117-121).
THEOREM StatementsFit == Spec => []MetadataFits
  <1>1. IInv => MetadataFits
    BY DEF IInv
  <1> QED
    BY <1>1, Invariant, PTL

\* Only a request of its owner changes or deletes a category or tag, and nobody a
\* default, although the owner was looked up on the reader
\* (category/update.go:55-73, tag/delete.go:53-67).
THEOREM OwnersOnly == Spec => OwnerOnly
  <1>1. IInv /\ [Next]_vars =>
          [OwnersChange(categories, categories') /\ OwnersChange(tags, tags')]_vars
    <2> SUFFICES ASSUME IInv, [Next]_vars
                 PROVE  OwnersChange(categories, categories') /\ OwnersChange(tags, tags')
      OBVIOUS
    <2>0. Frames /\ Past /\ Defaults /\ Stages
      BY DEF IInv
    <2>1. /\ categories \in [CategoryIDs -> Category \cup {None}]
          /\ tags \in [TagIDs -> Tag \cup {None}]
      BY <2>0, WriterTables
    <2>2. CASE UNCHANGED <<categories, tags>>
      BY <2>2 DEF OwnersChange
    <2>3. ASSUME NEW p \in Requests, WritesRow(p)
          PROVE  OwnersChange(categories, categories') /\ OwnersChange(tags, tags')
      <3>1. pc[p] # "done" /\ pc'[p] = "done"
        BY <2>0, <2>3, Writes DEF Stages
      <3>2. CASE UNCHANGED tables \/ ChangeStatement(p)
        BY <2>2, <3>2 DEF tables, ChangeStatement
      <3>3. CASE ChangeCategory(p)
        <4>1. ASSUME NEW c \in CategoryIDs, categories[c] # None, categories'[c] # categories[c]
              PROVE  req[p].user = categories[c].user
          <5>1. UnbornCategory(p) => categories[p] = None
            BY <2>0, InputFields DEF Past, Agrees, Writer
          <5> QED
            BY <2>1, <3>3, <4>1, <5>1 DEF ChangeCategory
        <4>2. tags' = tags
          BY <3>3 DEF ChangeCategory
        <4> QED
          BY <2>1, <3>1, <4>1, <4>2 DEF OwnersChange
      <3>4. CASE ChangeTag(p)
        <4>1. ASSUME NEW t \in TagIDs, tags[t] # None, tags'[t] # tags[t]
              PROVE  req[p].user = tags[t].user
          <5>1. UnbornTag(p) => tags[p] = None
            BY <2>0, InputFields DEF Past, Agrees, Writer
          <5> QED
            BY <2>1, <3>4, <4>1, <5>1 DEF ChangeTag
        <4>2. categories' = categories
          BY <3>4 DEF ChangeTag
        <4> QED
          BY <2>1, <3>1, <4>1, <4>2 DEF OwnersChange
      <3> QED
        BY <2>0, <2>3, <3>2, <3>3, <3>4, Writes DEF Stages
    <2>4. ASSUME NEW p \in Requests, StepOf(p) PROVE WritesRow(p) \/ UNCHANGED <<categories, tags>>
      BY <2>4, StepCases, Frame DEF tables
    <2> QED
      BY <2>2, <2>3, <2>4, NextCases, Others
  <1> QED
    BY <1>1, Invariant, PTL DEF Spec, OwnerOnly

\* What a committing request, a deletion or a new statement does to the tags of a
\* statement.
TagsChange(s) ==
  \/ \E p \in Requests :
       /\ pc[p] \in {"post", "commit"} /\ pc'[p] = "done"
       /\ req[p].op \in {"create", "setTags"}
       /\ Wanted(p) \subseteq TagsOf(s)'
       /\ seen[p] \cap links' = {}
  \/ \E t \in TagIDs : tags'[t] = None /\ TagsOf(s)' = TagsOf(s) \ {t}

LEMMA TagsChangeSo ==
  ASSUME IInv, [Next]_vars, NEW s \in StatementIDs, TagsOf(s)' # TagsOf(s)
  PROVE  TagsChange(s)
  <1>0. Frames /\ Past /\ Defaults /\ Stages /\ Replaces
    BY DEF IInv
  <1>1. links' # links
    BY DEF TagsOf
  <1>2. ASSUME NEW p \in Requests, ChangeTag(p) PROVE TagsChange(s)
    <2>1. PICK t \in TagIDs : tags' = [tags EXCEPT ![t] = None] /\ links' = {l \in links : l[2] # t}
      BY <1>1, <1>2, Zenon DEF ChangeTag
    <2>2. tags'[t] = None
      BY <1>0, <2>1, WriterTables
    <2>3. TagsOf(s)' = TagsOf(s) \ {t}
      BY <2>1 DEF TagsOf
    <2> QED
      BY <2>2, <2>3 DEF TagsChange
  <1>3. ASSUME NEW p \in Requests, ChangeStatement(p), pc'[p] = "done" PROVE TagsChange(s)
    <2>1. PICK new \in SUBSET TagIDs :
            /\ links' = links \cup {<<p, t, p>> : t \in new}
            /\ new # {} => req[p].op = "create" /\ pc[p] = "post" /\ new = Wanted(p)
      BY <1>1, <1>3, Zenon DEF ChangeStatement
    <2>2. new # {}
      BY <1>1, <2>1
    <2>3. p = s
      <3>1. ASSUME p # s PROVE {l \in links' : l[1] = s} = {l \in links : l[1] = s}
        BY <2>1, <3>1
      <3> QED
        BY <3>1 DEF TagsOf
    <2>4. ASSUME NEW t \in Wanted(p) PROVE t \in TagsOf(s)'
      <3>1. <<s, t, p>> \in links'
        BY <2>1, <2>2, <2>3
      <3> QED
        BY <3>1 DEF TagsOf
    <2>5. seen[p] = {}
      BY <1>0, <2>1, <2>2 DEF Replaces, ReplaceOf
    <2> QED
      BY <1>3, <2>1, <2>2, <2>4, <2>5 DEF TagsChange
  <1>4. ASSUME NEW p \in Requests, CommitLinks(p) PROVE TagsChange(s)
    <2>1. /\ pc[p] = "commit" /\ pc'[p] = "done"
          /\ links' = (links \ removed[p]) \cup NewLinks(p)
      BY <1>0, <1>4 DEF CommitLinks, Executed, Reply, Frames
    <2>2. /\ req[p].op = "setTags"
          /\ \A l \in seen[p] : l[1] = req[p].id /\ l[3] # p
          /\ removed[p] \subseteq seen[p] /\ seen[p] \cap links \subseteq removed[p]
      BY <1>0, <2>1 DEF Stages, StageOf, Replacing, Replaces, ReplaceOf, Done
    <2>3. \A l \in NewLinks(p) : l[1] = req[p].id /\ l[2] \in Wanted(p) /\ l[3] = p
      BY <1>0, <2>2, NewLinksType
    <2>4. s = req[p].id
      BY <2>1, <2>2, <2>3 DEF TagsOf
    <2>5. ASSUME NEW t \in Wanted(p) PROVE t \in TagsOf(s)'
      <3>1. <<s, t, p>> \in links'
        BY <2>1, <2>4 DEF NewLinks
      <3> QED
        BY <3>1 DEF TagsOf
    <2>6. seen[p] \cap links' = {}
      BY <2>1, <2>2, <2>3
    <2> QED
      BY <2>1, <2>2, <2>5, <2>6 DEF TagsChange
  <1>5. ASSUME NEW p \in Requests, StepOf(p)
        PROVE  \/ ChangeTag(p) \/ CommitLinks(p)
               \/ ChangeStatement(p) /\ pc'[p] = "done"
    <2>1. CASE WritesRow(p)
      BY <1>0, <1>1, <2>1, Writes DEF Stages, tables, ChangeCategory
    <2>2. CASE ~WritesRow(p)
      BY <1>1, <1>5, <2>2, StepCases, Frame
      DEF tables, ReplaceStep, BeginReplace, RemoveLinks, InsertLinks
    <2> QED
      BY <2>1, <2>2
  <1> QED
    BY <1>1, <1>2, <1>3, <1>4, <1>5, NextCases, Others

\* The tags of a statement change to a set that has every tag of the request that
\* commits and no row it found when it began, or by a tag that is deleted, whatever
\* replacements run at the same time (statement.go:553-599).
THEOREM TagsWhole == Spec => TagsChangeWhole
  <1>1. IInv /\ [Next]_vars =>
          [\A s \in StatementIDs : TagsOf(s)' # TagsOf(s) => TagsChange(s)]_vars
    BY TagsChangeSo
  <1>2. (\A s \in StatementIDs : TagsOf(s)' # TagsOf(s) => TagsChange(s)) <=>
        (\A s \in StatementIDs :
           TagsOf(s)' # TagsOf(s) =>
             \/ \E p \in Requests :
                  /\ pc[p] \in {"post", "commit"} /\ pc'[p] = "done"
                  /\ req[p].op \in {"create", "setTags"}
                  /\ Wanted(p) \subseteq TagsOf(s)'
                  /\ seen[p] \cap links' = {}
             \/ \E t \in TagIDs : tags'[t] = None /\ TagsOf(s)' = TagsOf(s) \ {t})
    BY Zenon DEF TagsChange
  <1> QED
    BY <1>1, <1>2, Invariant, PTL DEF Spec, TagsChangeWhole
===============================================================================
