CONSTANTS
  Ops <- Evaluating
  MaxRequests = 4
  MaxTasks = 0
  Long <- NoneIsLong
SPECIFICATION Spec
INVARIANT DeclarationsAreHeard
CHECK_DEADLOCK FALSE
