CONSTANTS
  NT <- MCNT
  KT <- MCWideKT
  NumDevices <- MCDevices
  Alpha = "other"
  Target = "HostBatch"
  NoSnap = NoSnap
SPECIFICATION Spec
INVARIANT DiagonalResult
CHECK_DEADLOCK FALSE
