SPECIFICATION FairSpec
CONSTANTS
  MAXJOBS = 1
  Pids = {1}
  Builtins = {}
  BlankLines = FALSE
  SelfStop = FALSE
  MaxInt = 1
  MaxTstp = 0
PROPERTIES CtrlCEndsForeground
CHECK_DEADLOCK FALSE
