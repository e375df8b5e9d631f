CONSTANTS
  NPCOL <- MCNpcol
  NT <- MCNt
  NB <- MCNb
  Garbage = Garbage
SPECIFICATION Spec
INVARIANTS TypeOK ChannelsDrained EigenpairsSorted
PROPERTY Termination
CHECK_DEADLOCK FALSE
