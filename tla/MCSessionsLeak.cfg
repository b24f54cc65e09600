SPECIFICATION Spec
CONSTANTS
  Clients = {c1}
  S = 1
  Mortal = {c1}
  MaxRequests = 1
  NoClient = NoClient
PROPERTIES DeathNoticed
CHECK_DEADLOCK FALSE
