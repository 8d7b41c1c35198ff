SPECIFICATION Spec
CONSTANTS
  MAXJOBS = 2
  Pids = {1, 2}
  Builtins = {"fg", "bg"}
  BlankLines = TRUE
  SelfStop = TRUE
  MaxInt = 1
  MaxTstp = 2
INVARIANTS TypeOK NoStaleEntry NoMissedChild
CHECK_DEADLOCK FALSE
