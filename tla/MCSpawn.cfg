CONSTANTS
  k1 = k1
  k2 = k2
  u1 = u1
  u2 = u2
  u3 = u3
  c1 = c1
  c2 = c2
  Tasks <- TwoTasks
  Users <- TwoUsers
  Watchable <- OneChannel
  Drops = TRUE
SPECIFICATION SpawnFairSpec
INVARIANTS
  JoinersAgree
  WatchHonoured
PROPERTIES
  JoinReturns
CHECK_DEADLOCK FALSE
