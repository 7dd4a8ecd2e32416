SPECIFICATION Spec
CONSTANTS
  v1 = v1
  v2 = v2
  w1 = w1
  w2 = w2
  Viewers <- TwoViewers
  Writers <- TwoWriters
  Items = 2
  Capacity = 2
  MaxBatch = 2
  Overlapping = FALSE
  Stalling <- Nobody
INVARIANTS CountSettles NoEntryLeaks NothingMissed PageSettles
CHECK_DEADLOCK FALSE
CONSTRAINT OneCrowd
