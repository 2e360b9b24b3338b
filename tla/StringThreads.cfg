SPECIFICATION Spec
CONSTANTS
  Upper <- MCUpper
  Source <- MCSource
INVARIANTS
  CountOfOne
PROPERTIES
  Refinement
  ShownWhole
  RoundEnds
CHECK_DEADLOCK FALSE
