CONSTANTS
  k1 = k1
  k2 = k2
  u1 = u1
  u2 = u2
  u3 = u3
  c1 = c1
  c2 = c2
  Tasks <- OneTask
  Users <- ThreeUsers
  Watchable <- OneChannel
  Drops = TRUE
SPECIFICATION SpawnSpec
INVARIANTS
  LateWatchCloses
  WatchedDies
CHECK_DEADLOCK FALSE
