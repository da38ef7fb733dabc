SPECIFICATION FairPatchingSpec
CONSTANTS
  Capacity = 8
  Page = 4
  Sector = 4
  WriteLimit = 3
  ReadLimit = 3
  Operations <- MCOperations
  MaxCalls = 3
  PatchLists <- MCPatchLists
  ProtectedSets <- MCProtectedSets
  MaxRanges = 1
INVARIANTS
  CompletedIsProven
  ReadsAreReal
  PatchedAsReviewed
PROPERTIES
  OutsideUntouched
  OperationEnds
CHECK_DEADLOCK FALSE
