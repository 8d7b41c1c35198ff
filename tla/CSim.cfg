SPECIFICATION Spec
CONSTANTS
  S = 2
  E = 3
  B = 2
  Addresses = {0, 1, 2, 4, 8, 12}
  MaxLines = 6
INVARIANTS TypeOK LinesDistinct CountsMatch
PROPERTIES ImplementsLRU
CHECK_DEADLOCK FALSE
