CONSTANTS
  MaxText = 2
  MaxWarnings = 8
  WireCap = 1
  PipeCap = 2
  OutBudget = 4
  ErrBudget = 1
  MayEscape = TRUE
  Cap = 3
  ErrCap = 3
  ReadChunk = 2
  Faults = {"disconnect", "encode"}
SPECIFICATION Spec
INVARIANTS
  TypeOK
  EveryCharacterIsAccounted
  WarningFollowsTheWholePrefix
  CleanResultIsComplete
  KillDiscipline
  RunningChildIsWatched
  KillTakesTheGroup
PROPERTIES
  KillOnlyPastTheDeadline
  FollowsProtocol
  ImplementsExecution
CHECK_DEADLOCK FALSE
