SPECIFICATION Spec
CONSTANTS
  Requests = {r1, r2, r3}
  Users = {u1, u2}
  NoUser = NoUser
  Names = {n1, n2}
  Blank = Blank
  None = None
  MaxTags = 2
  SeedCategories <- MCCategories
  SeedTags <- MCTags
  SeedStatements <- MCStatements
  SeedLinks <- MCLinks
  EstornoCredit = sysCredit
  EstornoDebit = sysDebit
  HasReplica = TRUE
  Inputs <- AllInputs
  sysCredit = sysCredit
  sysDebit = sysDebit
  mine = mine
  sysTag = sysTag
  t1 = t1
  foreign = foreign
  stmt = stmt
  u1 = u1
  u2 = u2
  n1 = n1
  n2 = n2
SYMMETRY Symmetry
INVARIANTS
  MetadataFits
PROPERTIES
  OwnerOnly
  TagsChangeWhole
