SPECIFICATION MCSpec
CONSTANTS
  Requests = {q1, q2}
  Listed = {q1}
  Threads = {t1, t2}
  None = None
  MaxParts = 2
  MaxVersion = 2
  Formats = {xlsx, pdf}
  Direct = FALSE
  Keep = FALSE
  CompleteAttempts = 2
  Workbooks = {w1}
  Reports = {p1}
  Executions = {e1}
  Contents = {c1, c2}
  Absent = Absent
  MaxRefs = 3
  Members = {u1, u2}
  Organization = org
  Address = address
  Instances = {i1}
  Store = redis
  UserLimit = 1
  OrganizationLimit = 2
  AddressLimit = 1
  Window = 1
  AuthWindow = 2
  Asking = {r1, r2}
  Processes = {n1, n2, n3}
  Connections = {d1, d2, d3}
  Budget = 2
CHECK_DEADLOCK FALSE
INVARIANTS EveryEndIsReported
