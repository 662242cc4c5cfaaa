SPECIFICATION LiveSpec
CONSTANTS
  Endpoint = {1}
  MaxVersion = 2
  MaxSession = 2
  MaxStalls = 1
INVARIANTS
  TypeOK
  EarlierSessionsOver
PROPERTIES
  TermEnds
  HupReloads
  EndpointsComeUp
CHECK_DEADLOCK
  FALSE
