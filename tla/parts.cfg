SPECIFICATION PartsSpec
CONSTANTS
  a1 = a1
  a2 = a2
  configured = configured
  h = h
  k = k
  g = g
  r1 = r1
  r2 = r2
  Address = {a1, a2}
  Target = configured
  Modes = {"server", "client", "broadcast"}
  Receiver = {"udp"}
  Message = {"own", "other"}
  BusCapacity = 2
  CleanupInterval = 2
  CleanupTtl = 2
  BroadcastTimeout = 2
  MaxTime = 4
  MaxSent = 3
  MaxErrors = 1
  Frame <- Sent
  Version <- SentVersion
  FalseStart <- SentFalseStart
  Refused = {r1, r2}
  BufferMax = 4
  Link = {"a", "b", "c", "u"}
  Datagrams = {"u"}
  Carries <- LinkCarries
  Sender <- SentSender
  MsgId <- SentId
  MsgTarget <- SentTarget
  Filters <- LinkFilters
  ReadSize = 3
  MaxFrames = 4
  MaxLapses = 1
  StatsRetention = 3
  LogInterval = 1
  Windows = {1, 2, 5}
  MaxClock = 6
  MaxSamples = 4
  FileContents <- Files
  FragmentContents <- Fragments
  NumFragments = 2
  MaxEdits = 1
INVARIANTS
  TypesOK
  EveryRecipientTried
  PassesThrough
  
  AggregatesWindow
  LoadsByTheRules
PROPERTIES
  RetainsClients
  RevertsToBroadcast
CHECK_DEADLOCK
  FALSE
