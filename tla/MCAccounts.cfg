SPECIFICATION Spec
CONSTANTS
  Requests = {r1, r2, r3}
  Seeded = {card, bank}
  SeedRow <- MCSeedRow
  Users = {u1, u2}
  Names = {n1, n2}
  MaxLimit = 2
  NoUser = NoUser
  None = None
  HasReplica = TRUE
  Inputs <- AllInputs
  card = card
  bank = bank
  u1 = u1
  u2 = u2
  n1 = n1
  n2 = n2
SYMMETRY Symmetry
INVARIANTS
  TypeOK
  LimitFitsType
  BalanceIsPosted
PROPERTIES
  DeleteIsFinal
