SPECIFICATION Spec
CONSTANTS
  Requests = {r1, r2, r3}
  Clients = {ip}
  Limit = 2
  AuthLimit = 3
  Bodies = {b1, b2}
  Parts = {svc, k1}
  None = None
  Workloads <- MCWorkloads
  Services = {svc}
  ServiceKeysEnabled = TRUE
  Faults = {"store", "lock_expired", "entry_expired", "unknown_commit", "crash"}
  r1 = r1
  r2 = r2
  r3 = r3
  ip = ip
  svc = svc
  k1 = k1
  b1 = b1
  b2 = b2
INVARIANTS
  TypeOK
  AtMostOnce
  ReplayFaithful
  WindowSpent
  AuthCounted
PROPERTIES
  KeyFreed
