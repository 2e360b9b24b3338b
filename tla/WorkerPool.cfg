SPECIFICATION FairSpec
CONSTANTS
  w1 = w1
  w2 = w2
  w3 = w3
  N = 1
  K = 2
  Workers <- MCWorkers
  MaxClients = 2
INVARIANTS
  TypeOK
  FreeCountExact
  PoolSizeExact
  PoolWithinBounds
  QueueOwned
  NoWildPointer
  ClientsExclusive
  WakeupKept
PROPERTIES
  MainReturns
  WokenClientTaken
CHECK_DEADLOCK FALSE
