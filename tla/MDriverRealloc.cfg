SPECIFICATION Spec
CONSTANTS
  MAX_HEAP = 80
  CHUNKSIZE = 32
  Ids = {1, 2}
  Requests = {8, 24}
INVARIANTS PreservesData
CHECK_DEADLOCK FALSE
