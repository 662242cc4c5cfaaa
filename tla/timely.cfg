SPECIFICATION TimelySpec
CONSTANTS
  e1 = e1
  e2 = e2
  e3 = e3
  e4 = e4
  EndpointId = {e1, e2, e3, e4}
  SysId = {1, 2}
  CompId = {1}
  ShardCount = 2
  MaxRoutes = 5
  MaxSystems = 5
  RefreshAge = 1
  CapacityPruneAge = 1
  Group <- TwoGroups
  SnifferSysids = {2}
  Traffic <- TwoShards
  QueueCapacity = 2
  BatchSize = 2
  PruneTtl = 1
  PruneInterval = 2
  MaxTime = 6
INVARIANTS
  StaleBound
  ForwardsOnlyToHearers
