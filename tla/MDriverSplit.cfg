SPECIFICATION Spec
CONSTANTS
  MAX_HEAP = 80
  CHUNKSIZE = 32
  Ids = {1, 2}
  Requests = {8, 16}
INVARIANTS HeapConsistent
CHECK_DEADLOCK FALSE
