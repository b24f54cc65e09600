SPECIFICATION Spec
CONSTANTS
  Jobs = {j1}
  Clients = {c1, c2}
  Cells = {x1, x2, x3}
  Keys = {a}
  Values = {v1, v2}
  Commands <- NewsCommands
  MaxCmds = 4
  MaxReqs = 6
  Absent = Absent
  Deleted = Deleted
  NoNews = NoNews
  Lost = Lost
  NoJob = NoJob
  NoCell = NoCell
  NoCmd = NoCmd
  Nobody = Nobody
  a = a
  b = b
  v1 = v1
  v2 = v2
SYMMETRY NewsPerms
INVARIANTS NoFalseBelief
CHECK_DEADLOCK FALSE
