CONSTANTS
  NT <- MCNT
  Lookahead <- MCNegativeLookahead
  NThreads <- MCThreads
  Target = "Devices"
  Side = "Left"
  Uplo = "Lower"
  BNT <- MCBNT
  P <- MCP
  Q <- MCQ

SPECIFICATION Spec

INVARIANT GemmReadsBroadcast

CHECK_DEADLOCK FALSE
