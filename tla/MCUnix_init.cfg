CONSTANTS
  Scenes <- InitScene
  FairScenes <- NoScenes
  Programs <- AllPrograms
  MaxProcs = 7
  MaxOut = 12
  MaxLocal = 5
SPECIFICATION Spec
CHECK_DEADLOCK FALSE
INVARIANT InitIsWoken
