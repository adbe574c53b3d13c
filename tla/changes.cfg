SPECIFICATION MCSpec
CONSTANTS
  Sessions = {s1, s2}
  Authors = {a1, a2}
  Contents = {c1, c2}
  Absent = Absent
  MaxChanges = 2
  MaxEdits = 1
  Modes = {"readonly", "readwrite"}
  Developer = dev
  Approver = app
  Users = {dev, app}
  Rights <- DeployRights
  Servers = {a1, a2}
  MaxRelabels = 1
  None = None
  Numeric = cell
  Total = total
  Text = text
  MaxCellWrites = 2
CHECK_DEADLOCK FALSE
SYMMETRY Interchangeable
INVARIANTS RunsOnce CellsAreKept
PROPERTIES   PeopleDecide WritesWhatWasAsked
