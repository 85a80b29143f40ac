CONSTANTS
  Builds <- MCBuilds
  Hosts = {"cli"}
  MaxRevision = 3
  MaxLives = 2
SPECIFICATION Spec
PROPERTIES
  NewerIsKept
CHECK_DEADLOCK FALSE
