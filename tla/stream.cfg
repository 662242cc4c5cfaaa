SPECIFICATION LiveSpec
CONSTANTS
  e1 = e1
  u = u
  hidden = hidden
  Endpoint = {e1}
  Receiver = {e1}
  Source = {e1, u, hidden}
  Message <- Traffic
  BusCapacity = 2
  BatchLimit = 2
  Filtered <- FilteredAtE1
  MaxSent = 4
  MaxErrors = 1
INVARIANTS
  TypeOK
  CountersAccount
  InOrderOnce
  FlushedBeforeWaiting
PROPERTY
  EveryMessageSettled
