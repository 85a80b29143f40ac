CONSTANTS
  Items = {i1, i2}
  RingCap = 4
  ChannelCap = 2
  ReplayMax = 2
  MaxRevision = 5
  MaxBatch = 1
  MaxDrops = 2
  WireCap = 2
  Replays = FALSE
  Warm = TRUE
SPECIFICATION FairSpec
PROPERTIES
  ImplementsReplica
  EventuallyCurrent
CHECK_DEADLOCK FALSE
