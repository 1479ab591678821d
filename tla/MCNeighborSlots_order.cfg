CONSTANTS
  Points <- MCPoints
  Dist <- OneSideDist
  Owner = 1
  Cap = 3
  Total = 5
  MaxFound = 3
  NoPoint = NoPoint
  Foreign = Foreign
SPECIFICATION Spec
INVARIANT ExtendingOrder
CHECK_DEADLOCK FALSE
