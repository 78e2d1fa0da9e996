CONSTANTS
  x = x
  y = y
  Caller = {c1, c2}
  Block = {x, y}
  Eof = Eof
  Pins <- MCPins
  MaxTime = 2
  MaxCalls = 2
SYMMETRY Callers
SPECIFICATION Spec
INVARIANTS
  TypeOK
  SidecarVouchesForTheBytes
  AcceptedBytesArePinned
  OnlyMatchesAreRecorded
PROPERTY
  OnlyAVerifiedCallWrites
CHECK_DEADLOCK FALSE
