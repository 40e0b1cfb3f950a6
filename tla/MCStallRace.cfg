CONSTANTS
  main = main
  s1 = s1
  s2 = s2
  s3 = s3
  c1 = c1
  Threads <- TwoThreads
  Main = main
  Channels <- OneChannel
  Capacity = 1
  Scopes = {}
  MaxWaits = 3
SPECIFICATION Spec
INVARIANTS
  AbortIsDeadlock
CHECK_DEADLOCK FALSE
