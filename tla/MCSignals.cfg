SPECIFICATION SignalsSpec
CONSTANTS
  Clients = {c1, c2}
  S = 2
  Mortal = {}
  MaxRequests = 0
  MaxSignals = 1
  NoClient = NoClient
SYMMETRY Perms
INVARIANTS SignalsTypeOK SignalEndsSessions
CHECK_DEADLOCK FALSE
