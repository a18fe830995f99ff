SPECIFICATION Spec
CONSTANTS
  Ids = {1, 2, 3, 4, 5, 6}
  Times = {1, 2, 3}
  Owners = {a1, a2, u1, u2}
  Types = {t1, t2}
  Labels = {l1, l2}
  Trusted = Trusted
  None = None
  HolderOf <- MCHolderOf
  Seeds <- MCSeeds
  Additions <- MCAdditions
  Queries <- MCQueries
  DefaultLimit = 2
  MaxLimit = 3
  MaxChanges = 2
  HasReplica = TRUE
  a1 = a1
  a2 = a2
  u1 = u1
  u2 = u2
  t1 = t1
  t2 = t2
  l1 = l1
  l2 = l2
INVARIANTS
  CursorWalkExact
  QuietWalkExact
  PageWalkKeeps
  Scoped
