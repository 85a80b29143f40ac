SPECIFICATION Spec
CONSTANTS
  REFRESH_KINDS <- MCKinds
  Clearable <- MCClearable
  Unanchored <- MCUnanchored
  MaxConcurrent = 1
  BurstMaxRounds = 2
  BurstDemand = 0
  OutCapacity = 1
  MaxStalled = 1
  MaxDemand = 1
  MaxReorgs = 1
INVARIANTS
  WithdrawnIsGone
  StageIsCanonical
PROPERTIES
  BurstEnds
  TopUpIsAsked
  LostCompositionIsDue
