SPECIFICATION FairSpec
CONSTANTS
  MaxOps = 4
  Repeats = 2
  MAX_HEAP = 80
  CHUNKSIZE = 32
  Ids = {1, 2}
  Requests = {8, 24}
INVARIANTS EvalTypeOK ReplaysAgree UtilizationRight HeapConsistent NoBlockLost FailsOnlyWhenFull
PROPERTIES ImplementsAllocator MallocReturns
CHECK_DEADLOCK FALSE
