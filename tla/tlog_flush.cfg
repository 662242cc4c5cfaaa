SPECIFICATION Spec
CONSTANTS
  Receiver = {"tlog"}
  Message = {"m"}
  BusCapacity = 2
  MaxSent = 3
  MaxErrors = 1
INVARIANT
  FlushedBeforeExit
CHECK_DEADLOCK
  FALSE
