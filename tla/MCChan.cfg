CONSTANTS
  t1 = t1
  t2 = t2
  t3 = t3
  m1 = m1
  m2 = m2
  Threads <- ThreeThreads
  Messages <- TwoMessages
  Unbounded = Unbounded
  NoMessage = NoMessage
  Capacities <- ThreeKinds
SPECIFICATION FairSpec
INVARIANTS
  StatsAccounted
PROPERTIES
  ClosedWaitsEnd
  MailboxSpec
