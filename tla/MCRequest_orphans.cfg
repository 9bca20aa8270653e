CONSTANTS
  Scenarios <- MCScenarios
  None = None
SPECIFICATION Spec
CHECK_DEADLOCK FALSE
INVARIANT NoOrphans
