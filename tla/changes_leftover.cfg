SPECIFICATION SerialSpec
CONSTANTS
  Sessions = {s1}
  Authors = {a1, a2}
  Contents = {c1, c2}
  Absent = Absent
  MaxChanges = 2
  MaxEdits = 0
CHECK_DEADLOCK FALSE
PROPERTIES FailureLeavesNothing
