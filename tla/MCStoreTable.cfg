SPECIFICATION Spec
CONSTANTS
  Jobs = {j1, j2}
  Clients = {}
  Cells = {}
  Keys = {a, b}
  Values = {v1, v2}
  Commands <- TableCommands
  MaxCmds = 2
  MaxReqs = 0
  Absent = Absent
  Deleted = Deleted
  NoNews = NoNews
  Lost = Lost
  NoJob = NoJob
  NoCell = NoCell
  NoCmd = NoCmd
  Nobody = Nobody
  a = a
  b = b
  v1 = v1
  v2 = v2
INVARIANTS LockDiscipline TableInv
PROPERTIES Linearizable CommandsEnd
CHECK_DEADLOCK FALSE
