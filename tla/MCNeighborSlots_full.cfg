CONSTANTS
  Points <- FivePoints
  Dist <- MCDist
  Owner = 1
  Cap = 2
  Total = 2
  MaxFound = 3
  NoPoint = NoPoint
  Foreign = Foreign
SPECIFICATION Spec
INVARIANT StaysInRange
CHECK_DEADLOCK FALSE
