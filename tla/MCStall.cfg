CONSTANTS
  main = main
  s1 = s1
  s2 = s2
  s3 = s3
  c1 = c1
  Threads <- ThreeThreads
  Main = main
  Channels <- OneChannel
  Capacity = 1
  Scopes = {"for"}
  MaxWaits = 2
SPECIFICATION FairSpec
INVARIANTS
  UnracedAbortIsDeadlock
PROPERTIES
  DeadlockIsReported
CHECK_DEADLOCK FALSE
