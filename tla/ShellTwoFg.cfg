SPECIFICATION Spec
CONSTANTS
  MAXJOBS = 2
  Pids = {1, 2}
  Builtins = {"fg"}
  BlankLines = FALSE
  SelfStop = FALSE
  MaxInt = 0
  MaxTstp = 0
INVARIANTS AtMostOneFg
CHECK_DEADLOCK FALSE
