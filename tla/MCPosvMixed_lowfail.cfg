CONSTANTS
  ITERMAX <- MCItermax
  NRHS <- MCNrhs
  Target = "HostTask"

SPECIFICATION Spec

INVARIANT FailedLowFactorizationFallsBack

CHECK_DEADLOCK FALSE
