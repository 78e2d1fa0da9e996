CONSTANTS
  PipeCap = 2
  OutBudget = 3
  ErrBudget = 2
  MayEscape = TRUE
  Cap = 2
  ReadChunk = 2
SPECIFICATION FairSpec
INVARIANTS
  TypeOK
  OutputIsComplete
  StatusIsTheTruth
  TimeoutKillsTheGroup
PROPERTIES
  KillOnlyPastTheDeadline
  ImplementsExecution
  RunReturns
CHECK_DEADLOCK FALSE
