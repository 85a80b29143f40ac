CONSTANTS
  Blocks <- ShortBlocks
  Genesis = "g"
  Height <- ShortHeight
  Parent <- ShortParent
  MaxRewinds = 2
  ReorgWindow = 2
  RecentCap = 3
  CatchupThreshold = 1
  ScanLimit = 2
  BootRetries = 1
  MaxFaults = 1
  Boots = {"hydrate", "live", "resume"}
  Saved <- ShortSaved
SPECIFICATION FairSpec
INVARIANTS
  GalaxyHoldsRecent
  GalaxyIsOneBranch
PROPERTIES
  ImplementsFollower
  EventuallySynced
