CONSTANTS
  Faults <- SixFaults
  Optional <- OneNode
  RestartDelays <- OneDelay
  Sticks <- FourSticks
  Batches <- OneTwoThree
  Budget = 26
SPECIFICATION ShrinkSpec
INVARIANTS
  OneMinimal
  JobsAgree
CHECK_DEADLOCK FALSE
