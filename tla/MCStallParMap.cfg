CONSTANTS
  main = main
  s1 = s1
  s2 = s2
  s3 = s3
  c1 = c1
  Threads <- FourThreads
  Main = main
  Channels <- OneChannel
  Capacity = 1
  Scopes = {"map"}
  MaxWaits = 2
SPECIFICATION Spec
INVARIANTS
  UnracedAbortIsDeadlock
SYMMETRY Symmetry
CHECK_DEADLOCK FALSE
