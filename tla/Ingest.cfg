SPECIFICATION FairSpec
CONSTANTS
  c1 = c1
  c2 = c2
  c3 = c3
  own = own
  other = other
  NoRoom = NoRoom
  Conns <- ThreeConns
  Secrets <- Passwords
  SecretOf <- SharedByTwo
  Deleters <- Passwords
  Frames <- AllFrames
  CliOrder = TRUE
  Mortal <- C1
  Vanishing <- TwoConns
  IdleTimeout = 1
  UpgradeLimit = 1
  Grace = 3
  Ttl = 1
INVARIANTS TypeOK CountIsRight OnlineIsOwned SegmentsBalance SnapshotTruthful
PROPERTIES EvictionSparesBroadcasters ForeignTaskTouchesNothing AbandonedRoomFades
