CONSTANTS
  a = a
  k1 = k1
  k2 = k2
  p1 = p1
  n1 = n1
  Servers <- OneServer
  PoolSize = 2
  QueueCap = 1
  MaxRequests = 2
  Conns <- TwoConns
  Topics <- OneTopic
  Notifiers <- OneNotifier
SPECIFICATION FairSpec
INVARIANTS
  OneOwner
  AnsweredOnce
  DrainIsComplete
  OnlyEarlyNotifyLoses
PROPERTIES
  ShutdownEndsServe
CHECK_DEADLOCK FALSE
