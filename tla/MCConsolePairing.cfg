CONSTANTS
  r1 = r1
  r2 = r2
  Requests <- TwoRequests
  MaxSessionTurns = 2
  GuardCapacity = 2
  EagerStart = FALSE
  MaxRedeliveries = 0
  None = None
SYMMETRY RequestSymmetry
SPECIFICATION Spec
CHECK_DEADLOCK FALSE
INVARIANTS
  BoundToItsOwnRequest
