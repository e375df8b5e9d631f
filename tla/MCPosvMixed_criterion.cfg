CONSTANTS
  ITERMAX <- MCItermax
  NRHS <- MCNrhs
  Target = "HostTask"

SPECIFICATION Spec

INVARIANT SpecStoppingCriterion

CHECK_DEADLOCK FALSE
