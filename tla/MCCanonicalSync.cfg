CONSTANTS
  Blocks <- MCBlocks
  Genesis = "g"
  Height <- MCHeight
  Parent <- MCParent
  MaxRewinds = 2
  ReorgWindow = 2
  RecentCap = 4
  CatchupThreshold = 1
  ScanLimit = 2
  BootRetries = 1
  MaxFaults = 1
  Boots = {"hydrate", "live", "resume"}
  Saved <- MCSaved
SPECIFICATION Spec
INVARIANTS
  RecentIsOneBranch
  AnchorsMatchRecent
  EmitsOnlyAbove
  OpenEnvelopeIsResumed
PROPERTIES
  ViewsWereCanonical
