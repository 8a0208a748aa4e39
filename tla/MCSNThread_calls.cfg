SPECIFICATION FairSpec
CONSTANTS
  a = a
  b = b
  Inner = Inner
  Free = Free
  Callers = {a, b}
  Ops = {"start", "pause", "tryPause", "stop", "destroy"}
  Returns <- UserFuncResults
  MaxCalls = 3
INVARIANTS TypeOK PausedMeansQuiet StopIsNotOverwritten PauseRequestHasItsCaller
PROPERTY EveryCallReturns
CHECK_DEADLOCK FALSE
