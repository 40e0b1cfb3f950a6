CONSTANTS
  Ops <- Telling
  MaxRequests = 3
  MaxTasks = 1
  Long <- SecondIsLong
SPECIFICATION FairSpec
INVARIANTS
  InterruptStopsWhatWasSent
  OutputIsItsEvaluations
PROPERTIES
  RequestsAreAnswered
  InterruptEndsIt
CHECK_DEADLOCK FALSE
