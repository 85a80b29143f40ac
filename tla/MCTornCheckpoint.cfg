CONSTANTS
  Blocks <- MCBlocks
  Genesis = "g"
  Height <- MCHeight
  Parent <- MCParent
  Inputs <- MCInputs
  Outputs <- MCOutputs
  BlockTxs <- MCBlockTxs
  BlockTime <- MCTime
  CellCap = 2
  Window = 2
  CorpseHold = 0
  RecentCap = 3
  MaxTroubles = 1
  MaxSaves = 1
  ScanLimit = 2
  SaveAtRest = FALSE
SPECIFICATION Spec
INVARIANTS
  NothingIsSkipped
CHECK_DEADLOCK FALSE
