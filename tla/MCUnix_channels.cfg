CONSTANTS
  Scenes <- ChannelScenes
  FairScenes <- NoScenes
  Programs <- AllPrograms
  MaxProcs = 7
  MaxOut = 12
  MaxLocal = 5
SPECIFICATION Spec
CHECK_DEADLOCK FALSE
INVARIANTS Progress NothingLost Exclusive NotificationNotLost Clean
