CONSTANTS
  Points <- MCPoints
  QDist <- MCQDist
  Graphs <- MCGraphs
  efSearch = 2
  k = 1
SPECIFICATION Spec
INVARIANT CandidatesExpanded
CHECK_DEADLOCK FALSE
