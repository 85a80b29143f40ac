CONSTANTS
  Builds <- MCBuilds
  Hosts = {"cli", "embedder"}
  MaxRevision = 2
  MaxLives = 2
SPECIFICATION Spec
INVARIANTS
  LiveFileIsWhole
  SavedIsKept
PROPERTIES
  ResumesWhatItLoaded
CHECK_DEADLOCK FALSE
