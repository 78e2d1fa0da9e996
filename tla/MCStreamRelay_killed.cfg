CONSTANTS
  MaxText = 1
  MaxWarnings = 8
  WireCap = 1
  PipeCap = 2
  OutBudget = 2
  ErrBudget = 0
  MayEscape = FALSE
  Cap = 1
  ErrCap = 1
  ReadChunk = 1
  Faults = {}
SPECIFICATION Spec
INVARIANT KilledMeansTimeout
CHECK_DEADLOCK FALSE
