SPECIFICATION Spec
CONSTANTS
  Lines <- MCLines
  MaxWords = 7
INVARIANTS
  WordsKept
  PipesPaired
  ParsedAsMeant
  BreaksOnlyBy
CHECK_DEADLOCK FALSE
