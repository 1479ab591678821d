CONSTANTS
  Points <- MCPoints
  QDist <- MCQDist
  Graphs <- MCGraphs
  efSearch = 3
  k = 2
SPECIFICATION FairSpec
INVARIANTS ValidInv HeapIsNearest BestOfVisited
PROPERTY SearchEnds
CHECK_DEADLOCK FALSE
