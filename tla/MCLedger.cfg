SPECIFICATION MCSpec
CONSTANTS
  Requests = {r1, r2, r3}
  r1 = r1
  r2 = r2
  r3 = r3
  Accounts = {a1, a2}
  Users = {u1, u2}
  a1 = a1
  a2 = a2
  u1 = u1
  u2 = u2
  f1 = f1
  f2 = f2
  NoUser = NoUser
  None = None
  Owner <- MCOwner
  ExternalIDs = {f1, f2}
  Half = 4
  HasReplica = TRUE
  Inputs <- AllInputs
INVARIANTS
  TypeOK
  BalanceChained
  ReversedOnce
  ReversalMirrorsOriginal
  ImportedOnce
  AllOrNothing
  BalanceIsSum
PROPERTIES
  ImplementsAtomicLedger
  EveryRequestAnswered
  NoPostingAfterDelete
