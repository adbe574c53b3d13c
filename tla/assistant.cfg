SPECIFICATION MCSpec
CONSTANTS
  None = None
  Turns = {x1, x2}
  Conversations = {c1}
  Tools = {a, b}
  Granted = {a}
  NoConv = NoConv
  Limits = {1, 2}
  Reserve = 1
  MaxRounds = 1
  Window = 1
  Tasks = {y1, y2}
  TaskTurns = {x1, x2}
  Changes = {d1}
  Findings = {f1}
  Events = {x1, x2}
  Checks = {y1, y2}
  MaxTime = 4
  MaxValue = 2
  MaxAlerts = 1
  MaxErrors = 2
  Users = {u1, u2}
  Owner = u1
  Items = {y1, y2}
  Sessions = {x1, x2}
  Titles = {y1, y2, t3}
  MaxDocuments = 1
  MaxVersion = 3
  Vouchers = {u1}
  Requests = {x1, x2}
  MaxRows = 3
  Cubes = {c1, c2}
  Processes = {p1, p2}
  MaxSuspects = 2
  Docs = {y1, y2}
  Pages = {z1, z2}
  TopK = 2
  ChunkSize = 6
  Overlap = 1
  Separator = 2
  MaxBlocks = 3
  MaxLength = 13
  Chores = {h1}
  MaxEdits = 2
  MaxRecords = 2
  MaxDepth = 4
  MaxNodes = 5
SYMMETRY MCSymmetry
CHECK_DEADLOCK FALSE
INVARIANTS TurnsAreAccounted TasksAreTrue AlertsAreExact  
   TablesHold
 
