SPECIFICATION Spec
CONSTANTS
  c1 = c1
  NumServers = 2
  Clients <- MCClients
  Capacity = 1
  MaxTime = 2
INVARIANTS
  NothingLeft
  OrphanedByPeer
PROPERTIES
  ReadsRegular
  WaitsEnd
  SecondShown
CHECK_DEADLOCK FALSE
