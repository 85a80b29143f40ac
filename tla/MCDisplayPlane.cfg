SPECIFICATION Spec
CONSTANTS
  Budget = 3
  ActivityQuota = 1
  TipWindow = 1
  CompBase = 10
  ClassOf <- MCClassOf
  DaoBps = 5000
  TypedBps = 5000
  Old <- MCOld
  New <- MCNew
  Records <- MCRecords
  CorpseHold = 1
  MaxHeight = 2
  MaxReorgs = 1
  MaxRecords = 2
  MaxTxs = 4
INVARIANTS
  PolicyKnowsItsField
  FollowerAgrees
  ResidentsAreUnspent
  CuratedIsAnchored
PROPERTIES
  RatchetHolds
CHECK_DEADLOCK FALSE
