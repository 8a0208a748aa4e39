SPECIFICATION Spec
CONSTANTS
  Packets <- DatedPackets
  Calls = {"clear"}
  BackwardDurations = {}
  TimePositions = {}
  MaxQueue = 2
INVARIANT NoAbort
CHECK_DEADLOCK FALSE
