CONSTANTS
  NT <- MCNT
  KT <- MCWideKT
  NumDevices <- MCDevices
  Alpha = "minus1"
  Target = "HostTask"
  NoSnap = NoSnap
SPECIFICATION Spec
INVARIANT OffDiagonalResult
CHECK_DEADLOCK FALSE
