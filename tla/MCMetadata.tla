------------------------------ MODULE MCMetadata ------------------------------
(***************************************************************************)
(* Instances of Metadata for TLC.                                          *)
(***************************************************************************)
EXTENDS Metadata, TLC

CONSTANTS sysCredit, sysDebit, mine, sysTag, t1, foreign, stmt, u1, u2, n1, n2

MCCategories ==
  (sysCredit :> [user |-> None, name |-> n1, type |-> "credit"]) @@
  (sysDebit  :> [user |-> None, name |-> n1, type |-> "debit"]) @@
  (mine      :> [user |-> u1, name |-> n1, type |-> "credit"])

MCTags ==
  (sysTag  :> [user |-> None, name |-> n1]) @@
  (t1      :> [user |-> u1, name |-> n1]) @@
  (foreign :> [user |-> u2, name |-> n1])

MCStatements == stmt :> [owner |-> u1, type |-> "credit", category |-> None, ref |-> None]
MCLinks == {<<stmt, t1>>}

Named(op, u, name) == [op |-> op, user |-> u, name |-> name]
NewCategory(u, name, type) == [op |-> "createCategory", user |-> u, name |-> name, type |-> type]
Rename(op, u, i, name) == [op |-> op, user |-> u, id |-> i, name |-> name]
Do(op, u, i) == [op |-> op, user |-> u, id |-> i]
Create(u, type, c, ts) == [op |-> "create", owner |-> u, type |-> type, category |-> c, tags |-> ts]
SetCategory(u, c) == [op |-> "setCategory", user |-> u, id |-> stmt, category |-> c]
SetTags(u, ts) == [op |-> "setTags", user |-> u, id |-> stmt, tags |-> ts]

\* Every operation on the category, the tag and the statement of u1, by u1, by a
\* stranger or an admin, and on defaults; inputs for each way to be refused.
AllInputs ==
  {NewCategory(u1, n2, "credit"), NewCategory(u1, n2, "income"), NewCategory(u1, Blank, "credit"),
   Rename("renameCategory", u1, mine, n2), Rename("renameCategory", u1, sysCredit, n2),
   Do("deleteCategory", u1, mine), Do("deleteCategory", u2, mine),
   Named("createTag", u1, n2), Named("createTag", u1, Blank),
   Rename("renameTag", u1, t1, n2), Rename("renameTag", u1, sysTag, n2),
   Do("deleteTag", u1, t1), Do("deleteTag", u2, t1),
   Create(u1, "credit", mine, <<t1>>), Create(u1, "debit", mine, << >>),
   Create(u2, "credit", mine, << >>),
   Do("reverse", u1, stmt),
   SetCategory(u1, mine), SetCategory(NoUser, None), SetCategory(u2, mine),
   SetTags(u1, <<t1, t1>>), SetTags(u1, <<t1, sysTag>>), SetTags(NoUser, << >>),
   SetTags(u1, <<t1, sysTag, foreign>>), SetTags(u1, <<sysTag, foreign>>)}
  \cup {SetCategory(u1, p) : p \in Requests}
  \cup {Do("deleteCategory", u1, p) : p \in Requests}

\* Replacements of the tags of one statement.
TagInputs == {SetTags(u1, <<t1>>), SetTags(u1, <<sysTag>>)}

Symmetry == Permutations(Requests)
===============================================================================
