CONSTANT Candidates <- MCCandidates
SPECIFICATION Spec
INVARIANT EarlyFailureIsAFinal
CHECK_DEADLOCK FALSE
