SPECIFICATION PlayingSpec
CONSTANTS
  Media <- TwoStreams
  MAX_QUEUE_SIZE = 1
  Ops = {"start", "restart", "stop", "preStop", "openStream", "closeStream"}
  Faults = {"io", "bsf"}
  MaxStops = 2
INVARIANTS TypeOK InFileOrderOnce QueueIsBounded
PROPERTIES StopReturns EverythingIsDelivered
CHECK_DEADLOCK FALSE
