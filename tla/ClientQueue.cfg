SPECIFICATION Spec
CONSTANTS
  Elems <- MCElems
  MaxNodes = 5
INVARIANTS
  ChainOK
PROPERTIES
  LossOnlyByDequeue
  Refinement
CHECK_DEADLOCK FALSE
