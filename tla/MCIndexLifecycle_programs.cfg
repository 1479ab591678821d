CONSTANTS
  M = 2
  M_exp = 2
  TopLevel = 1
  NotLinked = NotLinked
  Wrap = 6
  ByteSize = 8
  top_k = 2
  InitEfs = {1, 2}
  MaxRecall = 4
  TargetRecall = 2
  TargetLower = 2
  TargetHigher = 3
  FixedHigher = 3
  MinExp = 1
  MaxExp = 2
  VOSteps = 1
  Rounds = 2
  MaxPoints = 2
  BuildSettings <- MCBuilds
  DefaultSettings <- MCDefault
  Fill = {2}
  CostValues = {0, 2}
  SampleShare = 2
SPECIFICATION FairSpec
INVARIANTS TypeOK ListsTile BoundariesFit GraphUniform BracketHolds
PROPERTIES LoadRestores ImplementsVisitedSet TuningEnds
CHECK_DEADLOCK FALSE
