CONSTANT Candidates <- MCCandidates
SPECIFICATION Spec
INVARIANTS
  TypeOK
  OneAnswer
  OnlyVerifiedModelsRun
  OkIsEarned
  IdIsEchoed
CHECK_DEADLOCK FALSE
