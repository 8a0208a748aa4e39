SPECIFICATION PlayingSpec
CONSTANTS
  Media <- TwoStreams
  MAX_QUEUE_SIZE = 1
  Ops = {"start", "openStream"}
  Faults = {}
  MaxStops = 0
PROPERTY EndIsReported
CHECK_DEADLOCK FALSE
