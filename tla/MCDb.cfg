CONSTANTS
  t1 = t1
  t2 = t2
  t3 = t3
  c1 = c1
  Threads <- TwoThreads
  Cursors <- OneCursor
  MaxCalls = 4
  MaxDepth = 2
SPECIFICATION FairSpec
INVARIANTS
  AllOrNothing
  TransactionsTakeTurns
  SleepersAreWoken
PROPERTIES
  DroppedIsFinished
  EveryTurnComes
CHECK_DEADLOCK FALSE
