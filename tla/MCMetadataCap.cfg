SPECIFICATION Spec
CONSTANTS
  Requests = {r1, r2}
  Users = {u1, u2}
  NoUser = NoUser
  Names = {n1, n2}
  Blank = Blank
  None = None
  MaxTags = 1
  SeedCategories <- MCCategories
  SeedTags <- MCTags
  SeedStatements <- MCStatements
  SeedLinks <- MCLinks
  EstornoCredit = sysCredit
  EstornoDebit = sysDebit
  HasReplica = TRUE
  Inputs <- TagInputs
  sysCredit = sysCredit
  sysDebit = sysDebit
  mine = mine
  sysTag = sysTag
  t1 = t1
  foreign = foreign
  stmt = stmt
  u1 = u1
  u2 = u2
  n1 = n1
  n2 = n2
INVARIANT
  TagCap
