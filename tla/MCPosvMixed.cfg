CONSTANTS
  ITERMAX <- MCItermax
  NRHS <- MCNrhs
  Target = "Devices"

SPECIFICATION Spec

INVARIANT TypeOK
INVARIANT IterContract
PROPERTY ConvergedSolutionKept

CHECK_DEADLOCK FALSE
