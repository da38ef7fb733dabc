SPECIFICATION Spec
CONSTANTS
  FullBlock = 2
  Operations <- BusOperations
  WriteMax = 2
  ReadMax = 2
  Present <- DevicesPresent
  Addresses = 2
  MaxCalls = 3
  MaxTimeouts = 2
INVARIANTS
  ReportsAreExact
  ReceiptsOweNothing
PROPERTY
  ReconciliationOnlyObserves
CHECK_DEADLOCK FALSE
