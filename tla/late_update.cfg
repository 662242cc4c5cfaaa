SPECIFICATION Spec
CONSTANTS
  e1 = e1
  e2 = e2
  e3 = e3
  e4 = e4
  EndpointId = {e1, e2}
  SysId = {1}
  CompId = {1, 2}
  ShardCount = 1
  MaxRoutes = 5
  MaxSystems = 5
  RefreshAge = 1
  CapacityPruneAge = 1
  Group <- NoGroup
  SnifferSysids = {}
  Traffic <- OneEach
  QueueCapacity = 2
  BatchSize = 2
  PruneTtl = 1
  PruneInterval = 1
  MaxTime = 2
INVARIANT
  SystemSeenLast
