CONSTANTS
  store = store
  client = client
  Programs <- OneProgram
  Clients <- OneClient
  Hooks <- NoHook
  Busy <- OneProgram
  FirstTask <- InOrder
  MaxTasks = 5
  Delays <- OneTick
  Afters <- OneTick
  Poll = 1
  Deadline = 2
SPECIFICATION Spec
PROPERTY
  RestartIsAsked
CHECK_DEADLOCK FALSE
