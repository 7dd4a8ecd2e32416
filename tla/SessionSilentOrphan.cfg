SPECIFICATION FairSpec
CONSTANTS
  Inputs <- LineEnds
  Reads = 1
  ChannelCap = 1
  RoomMayBeLost = TRUE
  Output = 2
  PtyCap = 1
  MaxBatch = 2
  Orphans = {"nobody", "silent"}
  StdoutMayFail = TRUE
  ClaimMayBeLost = TRUE
  DeathSignal = TRUE

PROPERTIES SessionEnds
CHECK_DEADLOCK FALSE
