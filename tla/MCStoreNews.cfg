SPECIFICATION Spec
CONSTANTS
  Jobs = {j1, j2}
  Clients = {c1, c2}
  Cells = {x1, x2}
  Keys = {a}
  Values = {v1, v2}
  Commands <- NewsCommands
  MaxCmds = 2
  MaxReqs = 5
  Absent = Absent
  Deleted = Deleted
  NoNews = NoNews
  Lost = Lost
  NoJob = NoJob
  NoCell = NoCell
  NoCmd = NoCmd
  Nobody = Nobody
  a = a
  b = b
  v1 = v1
  v2 = v2
SYMMETRY NewsPerms
INVARIANTS TypeOK UpToDate
PROPERTIES SubscriptionKept
CHECK_DEADLOCK FALSE
