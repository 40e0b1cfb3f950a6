CONSTANTS
  db = db
  Paths <- OneDir
  DirPaths <- AboveOne
  FilePaths <- Either
  Sectors <- OneByte
  Handles <- NoHandle
  FullAt = 3
  Torn = FALSE
  MaxInodes = 3
  MaxPending = 3
  MaxSteps = 7
  MaxStops = 1
SPECIFICATION DiskSpec
INVARIANT
  SyncedIsKept
CHECK_DEADLOCK FALSE
