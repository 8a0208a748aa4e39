SPECIFICATION FairSpec
CONSTANTS
  mMaxInQueueSize = 2
  mMaxOutQueueSize = 1
  CodecSize = 1
  Ops = {"prePause", "pause", "holdOn", "flush", "close"}
  MaxPackets = 3
  MaxOps = 2
INVARIANTS TypeOK FramesInOrderOnce CodecIsUsedByOneThread NothingOldAfterFlush
INVARIANTS EndFollowsThePackets CodecStartsWithAKeyFrame
PROPERTY EndIsReached
CHECK_DEADLOCK FALSE
