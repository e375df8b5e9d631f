CONSTANTS
  NT <- MCNT
  KT <- MCPanelKT
  NumDevices <- MCDevices
  Alpha = "minus1"
  Target = "Devices"
  NoSnap = NoSnap
SPECIFICATION Spec
INVARIANT LifeTicksCounted
CHECK_DEADLOCK FALSE
