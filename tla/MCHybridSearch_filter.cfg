CONSTANTS
  Points <- MCPoints
  QDist <- MCQDist
  NoPoint = NoPoint
  Graphs <- MCGraphs
  Filters <- MCFilters
  ParamSets <- MCParams
  M = 1
  M_exp = 4
  efSearch = 3
  k = 2
  FilterCost = 1
  DistCost = 2
  CheckEvery = 2
SPECIFICATION FairSpec
INVARIANTS TypeOK ResultsPassFilter PushedOnce BestOfAccepted OverheadBounded YieldBounded
PROPERTY SearchEnds
CHECK_DEADLOCK FALSE
