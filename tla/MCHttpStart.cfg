CONSTANTS
  a = a
  k1 = k1
  k2 = k2
  p1 = p1
  n1 = n1
  Servers <- OneServer
  PoolSize = 1
  QueueCap = 1
  MaxRequests = 2
  Conns <- OneConn
  Topics <- OneTopic
  Notifiers <- OneNotifier
SPECIFICATION Spec
INVARIANTS
  ShutdownIsHeard
CHECK_DEADLOCK FALSE
