SPECIFICATION FsecsFairSpec
CONSTANTS
  kbest = 3
  maxsamples = 4
  epsilon = 20
  Word = 32
  NEVENT = 2
  THRESHOLD = 4
  RECORDTHRESH = 8
  Starts = {2, 62}
  Works = {3}
  TickCosts = {7}
  MaxWait = 3
  MaxTicks = 1
  CacheSizes = {16, 32}
INVARIANTS FsecsTypeOK HoldsBest ReturnsLeastElapsed
PROPERTIES Returns
CHECK_DEADLOCK FALSE
