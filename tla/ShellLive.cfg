SPECIFICATION FairSpec
CONSTANTS
  MAXJOBS = 2
  Pids = {1, 2}
  Builtins = {"fg"}
  BlankLines = FALSE
  SelfStop = TRUE
  MaxInt = 1
  MaxTstp = 1
PROPERTIES ZombiesReaped WaitfgReturns CtrlZStopsForeground HandlersReturn
CHECK_DEADLOCK FALSE
