SPECIFICATION SignalsSpec
CONSTANTS
  Clients = {c1, c2}
  S = 1
  Mortal = {}
  MaxRequests = 0
  MaxSignals = 1
  NoClient = NoClient
PROPERTIES KeepsServing
CHECK_DEADLOCK FALSE
