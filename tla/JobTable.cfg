SPECIFICATION TableSpec
CONSTANTS
  Pids <- MCPids
  Ids <- MCIds
  Capacity = 1
  MaxCapacity = 4
INVARIANTS
  TypeOK
PROPERTIES
  JobRefinement
