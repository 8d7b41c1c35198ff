SPECIFICATION FairSpec
CONSTANTS
  Misses = {250, 1537, 2999}
INVARIANTS TypeOK VerdictEarned OwnMisses MeasuredIsValid
PROPERTIES DriverEnds
CHECK_DEADLOCK FALSE
