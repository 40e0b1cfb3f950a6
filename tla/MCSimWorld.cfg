CONSTANTS
  store = store
  client = client
  Programs <- OneProgram
  Clients <- OneClient
  Hooks <- NoHook
  Busy <- OneProgram
  FirstTask <- InOrder
  MaxTasks = 4
  Delays <- OneTick
  Afters <- AtOnceOrLater
  Poll = 1
  Deadline = 2
SPECIFICATION FairSpec
INVARIANTS
  NodeIsItsTasks
  NoLostWake
  PendingComesBack
PROPERTIES
  InstantsAreSeen
  WorldEnds
CHECK_DEADLOCK FALSE
