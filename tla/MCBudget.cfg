CONSTANTS
  Threads <- TwoThreads
  Callers <- OneThread
  Main = 1
  MaxBudgets = 3
  MaxDepth = 3
  MaxRequests = 1
SPECIFICATION FairSpec
INVARIANTS
  OverMeansOverdue
  CallersStopForACause
PROPERTIES
  OverdueCallEnds
CHECK_DEADLOCK FALSE
