CONSTANTS
  p1 = p1
  p2 = p2
  Processes = {p1, p2}
  Keys <- TwoKeys
  Operations <- SomeOperations
  Outputs <- SomeOutputs
  MaxInvokes = 3
  MaxSteps = 12
SPECIFICATION Spec
INVARIANTS
  VerdictIsRight
SYMMETRY Symmetry
CHECK_DEADLOCK FALSE
