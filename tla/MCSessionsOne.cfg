SPECIFICATION Spec
CONSTANTS
  Clients = {c1, c2, c3}
  S = 1
  Mortal = {c1, c2}
  MaxRequests = 1
  NoClient = NoClient
INVARIANTS AnswerMatches
PROPERTIES EveryoneServed IdleDeathNoticed
CHECK_DEADLOCK FALSE
