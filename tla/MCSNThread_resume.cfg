SPECIFICATION FairSpec
CONSTANTS
  a = a
  b = b
  Inner = Inner
  Free = Free
  Callers = {a}
  Ops = {"start", "pause"}
  Returns <- UserFuncResults
  MaxCalls = 3
PROPERTY StartWakesThePaused
CHECK_DEADLOCK FALSE
