SPECIFICATION FairSpec
CONSTANTS
  Inputs <- LineEnds
  Reads = 3
  ChannelCap = 1
  RoomMayBeLost = TRUE
  Output = 2
  PtyCap = 1
  MaxBatch = 2
  Orphans = {"nobody", "noisy"}
  StdoutMayFail = TRUE
  ClaimMayBeLost = TRUE
  DeathSignal = TRUE
INVARIANTS TypeOK StdinIsBroadcast EverythingSent TunnelDiesWithUs NoFalseAlarm
PROPERTIES SessionEnds
CHECK_DEADLOCK FALSE
