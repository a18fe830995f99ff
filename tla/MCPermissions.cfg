SPECIFICATION Spec
CONSTANTS
  Requests = {r1, r2, r3}
  Users = {u1, u2}
  Seeded = {admin, user}
  NameOf <- MCNameOf
  PermsOf <- MCPermsOf
  Names = {admin, user, auditor}
  Perms = {read, delete}
  SeedGrants <- MCSeedGrants
  None = None
  HasReplica = TRUE
  CacheFails = TRUE
  Inputs <- AllInputs
  admin = admin
  user = user
  auditor = auditor
  u1 = u1
  u2 = u2
  read = read
  delete = delete
INVARIANTS
  TypeOK
  AllowedWasGranted
  AnswersAddUp
PROPERTIES
  CacheConverges
