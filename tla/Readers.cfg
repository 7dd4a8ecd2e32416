SPECIFICATION FairSpec
CONSTANTS
  Keys = {"good", "none", "unusable"}
  Seals = {"mine", "other", "plain"}
  Sessions = 2
  Records = 2
  Departures = 2
  Repeats = 1
  Breaks = 1
  MaxDelay = 1
INVARIANTS PageShowsRoom LogIsWhole BlipIsNotTheEnd
CONSTRAINT AgainOrFailure
CHECK_DEADLOCK FALSE
PROPERTIES PageRecovers AgentEnds
