SPECIFICATION Spec
CONSTANTS
  v1 = v1
  v2 = v2
  w1 = w1
  w2 = w2
  Viewers <- OneViewer
  Writers <- TwoWriters
  Items = 1
  Capacity = 2
  MaxBatch = 2
  Overlapping = TRUE
  Stalling <- Nobody
PROPERTIES SkippedResetAppends
CHECK_DEADLOCK FALSE
