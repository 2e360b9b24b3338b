SPECIFICATION Spec
CONSTANTS
  MaxPid = 4
  Lines <- MCLines
INVARIANTS
  TypeOK
  JobsListed
  ReaderAlone
  TerminalOwned
PROPERTIES
  Responsive
CHECK_DEADLOCK FALSE
