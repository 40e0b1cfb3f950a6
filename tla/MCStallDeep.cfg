CONSTANTS
  main = main
  s1 = s1
  s2 = s2
  s3 = s3
  c1 = c1
  Threads <- ThreeThreads
  Main = main
  Channels <- OneChannel
  Capacity = 1
  Scopes = {"for"}
  MaxWaits = 4
SPECIFICATION Spec
INVARIANTS
  CensusExact
  UnracedAbortIsDeadlock
SYMMETRY Symmetry
CHECK_DEADLOCK FALSE
