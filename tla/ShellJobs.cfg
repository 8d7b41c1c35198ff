SPECIFICATION Spec
CONSTANTS
  MAXJOBS = 2
  Pids = {1, 2, 3}
  Builtins = {"bg"}
  BlankLines = FALSE
  SelfStop = FALSE
  MaxInt = 0
  MaxTstp = 2
INVARIANTS ListConsistent ForegroundIsAwaited StoppedIsListed
PROPERTIES ImplementsJobMap NoForgottenChild LegalTransitions StopsOnlyForeground
CHECK_DEADLOCK FALSE
