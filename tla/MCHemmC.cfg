CONSTANTS
  NT <- MCNT
  Lookahead <- MCLookahead
  NThreads <- MCThreads
  Target = "Devices"
  Side = "Left"
  Uplo = "Lower"
  BNT <- MCBNT
  P <- MCP
  Q <- MCQ

SPECIFICATION Spec

INVARIANT TypeOK
INVARIANT GemmReadsBroadcast
INVARIANT CUpdatesSerialInOrder
INVARIANT BcastWindow
INVARIANT ResultDelivered

PROPERTY PipelineRefinement

CHECK_DEADLOCK FALSE
