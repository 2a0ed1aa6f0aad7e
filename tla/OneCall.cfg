SPECIFICATION FairSpec
CONSTANTS
  InitialSize = 26
  Scenarios <- MCScenarios
  Clock <- MCClock
INVARIANTS
  TypeOK
  BuffersFit
  TypedResult
  ExactArguments
  NotEarly
  WholeSecondsWait
PROPERTIES
  CallReturns
CHECK_DEADLOCK FALSE
