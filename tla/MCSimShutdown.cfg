CONSTANTS
  api = api
  c1 = c1
  c2 = c2
  w1 = w1
  Askers <- TwoClients
  Servers <- OneServer
  Workers <- OneWorker
  Capacity = 1
  Latencies <- OneTick
  Timeout = 2
  MaxRequests = 2
  MaxServes = 2
  MaxFaults = 1
SPECIFICATION WireSpec
PROPERTY
  QueuedIsTaken
CHECK_DEADLOCK FALSE
