SPECIFICATION FairSpec
CONSTANTS
  p1 = p1
  p2 = p2
  r1 = r1
  r2 = r2
  None = None
  Projections <- MCProjections
  Requests <- MCRequests
  Wants <- MCWants
  Permits = 1
  MaxRevision = 3
  MaxPanics = 1
INVARIANTS
  AnswersMatchRevision
  CacheIsCurrent
  OneBinaryPerRevision
  OthersCarryOn
PROPERTIES
  EveryRequestEnds
CHECK_DEADLOCK FALSE
