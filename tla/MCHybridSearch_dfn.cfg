CONSTANTS
  Points <- MCPoints
  QDist <- MCQDist
  NoPoint = NoPoint
  Graphs <- MCGraphs
  Filters <- MCFilters
  ParamSets <- DfnOnly
  M = 1
  M_exp = 3
  efSearch = 3
  k = 2
  FilterCost = 1
  DistCost = 2
  CheckEvery = 2
SPECIFICATION Spec
INVARIANT ResultsPassFilter
CHECK_DEADLOCK FALSE
