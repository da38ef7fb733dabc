SPECIFICATION Spec
CONSTANTS
  FullBlock = 2
  Operations <- ScanOperations
  WriteMax = 2
  ReadMax = 2
  Present <- DevicesPresent
  Addresses = 2
  MaxCalls = 2
  MaxTimeouts = 1
INVARIANT
  FailureEndsSession
CHECK_DEADLOCK FALSE
