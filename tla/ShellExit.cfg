SPECIFICATION Spec
CONSTANTS
  MaxPid = 3
  Lines <- MCLines
PROPERTIES
  ExitStops
CHECK_DEADLOCK FALSE
