SPECIFICATION FairSpec
CONSTANTS
  Here = Here
  NoNode = NoNode
  Targets = {t1, t2}
  NoTarget = NoTarget
  MaxUnions = 2
  MaxFaults = 1
  Regimes <- AllRegimes
INVARIANTS TypeOK NeverDeadWhilePublished ReleasedMeansClean
PROPERTIES UnionOutlivesConsumers ImplementsNode PublishCompletes
