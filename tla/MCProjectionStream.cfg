CONSTANTS
  Items = {i1, i2}
  RingCap = 4
  ChannelCap = 2
  ReplayMax = 2
  MaxRevision = 3
  MaxBatch = 2
  MaxDrops = 1
  WireCap = 2
  Replays = TRUE
  Warm = FALSE
SYMMETRY ItemSymmetry
SPECIFICATION Spec
INVARIANTS
  ConnectionIsOrdered
PROPERTIES
  FlushSkipsNothing
CHECK_DEADLOCK FALSE
