CONSTANTS
  NT <- MCNT
  Lookahead <- MCSerialLookahead
  NThreads <- MCThreads
  Target = "HostTask"
  Side = "Right"
  Uplo = "Lower"
  BNT <- MCBNT
  P <- MCP
  Q <- MCWideQ

SPECIFICATION Spec

INVARIANT SerializedSweep
INVARIANT GemmReadsBroadcast

CHECK_DEADLOCK FALSE
