CONSTANTS
  Points <- MCPoints
  Threads = {t1, t2}
  NoPoint = NoPoint
  NoThread = NoThread
  Level <- TwoHeights
  TopLevel = 2
  Dist <- LineDist
  M = 1
  M_exp = 2
  efConstruction = 2
  efConstructionExp = 1
  use_optimized_building = TRUE
  ParallelMin = 1
  MayInterrupt = TRUE
  TallerLater = TRUE
SPECIFICATION FairSpec
INVARIANTS QuiescentTop IInv
PROPERTY AddEnds
