SPECIFICATION Spec
CONSTANTS
  Requests = {r1, r2, r3}
  Names = {n1, n2}
  Emails = {e1, e2, e3}
  BadEmail = BadEmail
  Passwords = {w1, w2}
  WeakPassword = WeakPassword
  Trusted = Trusted
  None = None
  SeedUsers <- MCSeedUsers
  HasReplica = TRUE
  Workloads <- MCWorkloads
  r1 = r1
  r2 = r2
  r3 = r3
  u1 = u1
  u2 = u2
  n1 = n1
  n2 = n2
  e1 = e1
  e2 = e2
  e3 = e3
  w1 = w1
  w2 = w2
INVARIANTS
  TypeOK
  PasswordLostOnlyByRace
  RevivedOnlyByRace
  GetWasCommitted
PROPERTIES
  SessionRooted
  CacheConverges
  FlightEnds
