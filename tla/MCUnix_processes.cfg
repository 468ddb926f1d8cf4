CONSTANTS
  Scenes <- ProcessScenes
  FairScenes <- Live
  Programs <- AllPrograms
  MaxProcs = 7
  MaxOut = 12
  MaxLocal = 5
SPECIFICATION Spec
CHECK_DEADLOCK FALSE
INVARIANTS Progress Synchronised Restored TruthTold
PROPERTY AllEnd
