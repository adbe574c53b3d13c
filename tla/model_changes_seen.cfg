SPECIFICATION Spec
CONSTANTS
  Cubes = {}
  Processes = {p1, p2}
  Chores = {h1}
  Gone = Gone
  MaxEdits = 1
  MaxRecords = 2
CHECK_DEADLOCK FALSE
INVARIANTS ModelChangesAreSeen
