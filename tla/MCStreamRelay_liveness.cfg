CONSTANTS
  MaxText = 1
  MaxWarnings = 8
  WireCap = 1
  PipeCap = 1
  OutBudget = 1
  ErrBudget = 1
  MayEscape = TRUE
  Cap = 1
  ErrCap = 1
  ReadChunk = 1
  Faults = {}
SPECIFICATION FairSpec
PROPERTIES
  DeadlineStopsTheChild
  CallReturns
  StderrNeverWedges
CHECK_DEADLOCK FALSE
