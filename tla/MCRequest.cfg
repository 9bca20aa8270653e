CONSTANTS
  Scenarios <- MCScenarios
  None = None
SPECIFICATION Spec
CHECK_DEADLOCK FALSE
INVARIANTS
  NamesReported
  OneDecision
  ErrorParentReported
  OutcomeAgrees
  EndedOnce
  StatsWithinDropped
  SpansSettled
