CONSTANTS
  ITERMAX <- MCItermax
  NRHS <- MCNrhs
  Target = "HostTask"

SPECIFICATION Spec

INVARIANT FallbackFailurePropagated

CHECK_DEADLOCK FALSE
