CONSTANTS
  db = db
  Paths <- TwoDirs
  DirPaths <- Above
  FilePaths <- Files
  Sectors <- TwoBytes
  Handles <- OneHandle
  FullAt = 3
  Torn = TRUE
  MaxInodes = 3
  MaxPending = 3
  MaxSteps = 6
  MaxStops = 2
SPECIFICATION DiskSpec
INVARIANTS
  NamesReachInodes
  PendingIsTheRest
  SyncedIsKept
CHECK_DEADLOCK FALSE
