\* TCP: two clients, as many as the server takes, so that a place still held by a dead
\* connection turns one of them away.  The limit is 100 in the code.  The logger's bus
\* keeps two messages of four; the serial endpoint has three rates.
SPECIFICATION PartsSpec
CONSTANTS
  Peer = {p1, p2}
  MaxClients = 2
  Backlog = 1
  MaxErrors = 1
  LogBusCapacity = 2
  LogMessage = {m}
  LogMaxSent = 4
  LogMaxErrors = 1
  NumRates = 3
  MaxStuck = 2
INVARIANTS
  TypesOK
  AtMostMaxClients
  NoOrphans
  LogInOrder
  LagCounted
PROPERTIES
  EveryoneServed
  WrittenInTheEnd
  StopsOnCancel
  EveryRateTried
CHECK_DEADLOCK
  FALSE
