CONSTANTS
  NT <- MCDevNT
  KT <- MCPanelKT
  NumDevices <- MCDevices
  Alpha = "minus1"
  Target = "Devices"
  NoSnap = NoSnap
SPECIFICATION Spec
INVARIANTS TypeOK SyrkResult DeviceCopiesEvicted
CHECK_DEADLOCK FALSE
