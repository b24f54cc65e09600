SPECIFICATION Spec
CONSTANTS
  Clients = {c1, c2, c3}
  S = 2
  Mortal = {}
  MaxRequests = 0
  NoClient = NoClient
INVARIANTS NeverRefused
CHECK_DEADLOCK FALSE
