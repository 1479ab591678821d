CONSTANTS
  Points <- MCPoints
  Threads = {t1, t2}
  NoPoint = NoPoint
  NoThread = NoThread
  Level <- TwoTall
  TopLevel = 1
  Dist <- LineDist
  M = 1
  M_exp = 2
  efConstruction = 2
  efConstructionExp = 1
  use_optimized_building = TRUE
  ParallelMin = 1
  MayInterrupt = FALSE
  TallerLater = TRUE
SPECIFICATION Spec
INVARIANTS AccessInRange
