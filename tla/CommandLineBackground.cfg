SPECIFICATION Spec
CONSTANTS
  Lines <- MCLines
  MaxWords = 7
INVARIANT
  PipelineInBackground
CHECK_DEADLOCK FALSE
