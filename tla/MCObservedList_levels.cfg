CONSTANTS
  Points <- MCPoints
  Threads = {t1, t2, t3}
  NoPoint = NoPoint
  NoThread = NoThread
  Level <- TwoLevels
  TopLevel = 1
  Dist <- LineDist
  M = 1
  M_exp = 2
  efConstruction = 2
  efConstructionExp = 1
  use_optimized_building = TRUE
  ParallelMin = 1
  MayInterrupt = FALSE
  TallerLater = FALSE
  Owner = 3
  AtLevel = 0
SPECIFICATION ObservedSpec
INVARIANTS TypeOK EntriesPublished FreshLinks NoMutualDiscovery
INVARIANTS AccessInRange NoDeadEnd SlotsSuffice
PROPERTIES ClosestLinkKept IsNeighborList
SYMMETRY ThreadSymmetry
