SPECIFICATION Spec
CONSTANTS
  Jobs = {j1, j2}
  Clients = {c1}
  Cells = {x1}
  Keys = {a}
  Values = {v1, v2}
  Commands <- NewsCommands
  MaxCmds = 2
  MaxReqs = 2
  Absent = Absent
  Deleted = Deleted
  NoNews = NoNews
  Lost = Lost
  NoJob = NoJob
  NoCell = NoCell
  NoCmd = NoCmd
  Nobody = Nobody
  a = a
  b = b
  v1 = v1
  v2 = v2
INVARIANTS NoFalseBelief
CHECK_DEADLOCK FALSE
