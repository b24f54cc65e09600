SPECIFICATION MetSpec
CONSTANTS
  Clients = {c1, c2, c3}
  S = 2
  Mortal = {c1, c2, c3}
  MaxRequests = 0
  NoClient = NoClient
SYMMETRY Perms
INVARIANTS TypeOK SlotAvailable SlotExclusive ListRight NobodyRefused
PROPERTIES Admitted
CHECK_DEADLOCK FALSE
