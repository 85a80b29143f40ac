CONSTANTS
  Blocks <- MCBlocks
  Genesis = "g"
  Height <- MCHeight
  Parent <- MCParent
  Inputs <- MCInputs
  Outputs <- MCOutputs
  BlockTxs <- MCBlockTxs
  BlockTime <- MCTime
  CellCap = 2
  Window = 2
  CorpseHold = 0
  RecentCap = 3
  MaxTroubles = 2
  MaxSaves = 1
  ScanLimit = 2
  SaveAtRest = TRUE
SPECIFICATION Spec
INVARIANTS
  CellsAreCanonical
  CountersAreCanonical
  SurvivorsKeepIds
  PageShowsGalaxy
  NoGhosts
CHECK_DEADLOCK FALSE
