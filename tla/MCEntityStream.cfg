CONSTANTS
  Items = {i1, i2}
  RingCap = 4
  ChannelCap = 2
  ReplayMax = 2
  MaxRevision = 5
  MaxDrops = 1
  WireCap = 2
  Replays = TRUE
SPECIFICATION FairSpec
INVARIANTS
  SnapshotCoversDeltas
  QuietClientIsCurrent
PROPERTIES
  ImplementsReplica
  EventuallyCurrent
CHECK_DEADLOCK FALSE
