CONSTANTS
  Faults <- ThreeFaults
  Optional <- OneNode
  RestartDelays <- OneDelay
  Sticks <- FourSticks
  Batches <- OneAndTwo
  Budget = 7
SPECIFICATION ShrinkSpec
INVARIANTS
  JobsAgreeCut
CHECK_DEADLOCK FALSE
