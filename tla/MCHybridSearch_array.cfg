CONSTANTS
  Points <- MCPoints
  QDist <- MCQDist
  NoPoint = NoPoint
  Graphs <- FullLists
  Filters <- MCFilters
  ParamSets <- AsWide
  M = 1
  M_exp = 2
  efSearch = 3
  k = 2
  FilterCost = 1
  DistCost = 2
  CheckEvery = 2
SPECIFICATION Spec
INVARIANT ArrayFits
CHECK_DEADLOCK FALSE
