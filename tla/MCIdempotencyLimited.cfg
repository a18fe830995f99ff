SPECIFICATION Spec
CONSTANTS
  Requests = {r1, r2, r3}
  Clients = {ip}
  Limit = 1
  AuthLimit = 3
  Bodies = {b1, b2}
  Parts = {svc, k1}
  None = None
  Workloads <- RetryWorkloads
  Services = {svc}
  ServiceKeysEnabled = TRUE
  Faults = {}
  r1 = r1
  r2 = r2
  r3 = r3
  ip = ip
  svc = svc
  k1 = k1
  b1 = b1
  b2 = b2
INVARIANTS
  LimitedOnlyIfRefused
