CONSTANTS
  Points <- MCPoints
  Dist <- MCDist
  Owner = 1
  Cap = 2
  Total = 4
  MaxFound = 3
  NoPoint = NoPoint
  Foreign = Foreign
SPECIFICATION Spec
INVARIANTS TypeOK Packed OncePerZone StaysInRange
PROPERTY ImplementsList
CHECK_DEADLOCK FALSE
