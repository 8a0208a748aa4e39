SPECIFICATION Spec
CONSTANTS
  Packets <- DatedPackets
  Calls = {"clear", "clearBefore", "clearAfter", "rewind", "query"}
  BackwardDurations = {1, 3}
  TimePositions = {2, 5}
  MaxQueue = 3
INVARIANT DurationAccounting
PROPERTY ImplementsTape
CHECK_DEADLOCK FALSE
