SPECIFICATION Spec
CONSTANTS
  e1 = e1
  e2 = e2
  e3 = e3
  e4 = e4
  EndpointId = {e1, e2, e3}
  SysId = {1, 2, 3}
  CompId = {1, 2}
  ShardCount = 1
  MaxRoutes = 3
  MaxSystems = 2
  RefreshAge = 0
  CapacityPruneAge = 0
  Group <- RedundantLink
  SnifferSysids = {}
  Traffic <- TwoHearers
  QueueCapacity = 1
  BatchSize = 2
  PruneTtl = 0
  PruneInterval = 1
  MaxTime = 1
INVARIANTS
  TypeOK
  LearnedRouteForwards
  SystemBackedByComponent
  EntriesCoupled
  CountsExact
PROPERTY
  ForgetsOnlyWhatItMay
