CONSTANTS
  Threads <- TwoThreads
  Callers <- TwoThreads
  Main = 1
  MaxBudgets = 2
  MaxDepth = 1
  MaxRequests = 0
SPECIFICATION Spec
INVARIANTS
  OwnBudgets
  OthersPollPast
CHECK_DEADLOCK FALSE
