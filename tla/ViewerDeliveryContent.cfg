SPECIFICATION FairSpec
CONSTANTS
  v1 = v1
  v2 = v2
  w1 = w1
  w2 = w2
  Viewers <- OneViewer
  Writers <- OneWriter
  Items = 2
  Capacity = 2
  MaxBatch = 2
  Overlapping = FALSE
  Stalling <- OneViewer
INVARIANTS TypeOK LiveIsFifo
PROPERTIES StoredIsDelivered
CHECK_DEADLOCK FALSE
