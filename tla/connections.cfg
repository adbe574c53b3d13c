SPECIFICATION MCSpec
CONSTANTS
  Callers = {c1, c2}
  Sessions = {s1, s2}
  None = None
  MaxConfigs = 2
  MaxRetries = 1
  Threshold = 2
  Member = member
  Developer = developer
  Manager = manager
  Users = {member, developer, manager}
  Rights <- ConnectionGrants
CHECK_DEADLOCK FALSE
SYMMETRY Interchangeable
INVARIANTS ConnectionsInv ServedAfreshAlone CredentialsStayPut
PROPERTIES RightsBoundEdits
