SPECIFICATION Spec
CONSTANTS
  Cells = 3
  Operations <- MCOperations
  Faults <- MCFaults
  MaxCalls = 3
  MaxInjected = 2
  None = None
INVARIANTS
  AnswersAreStored
  FaultsAreSpent
CHECK_DEADLOCK FALSE
