SPECIFICATION FairPipelineSpec
CONSTANTS
  Packets <- File
  Calls = {}
  BackwardDurations = {}
  TimePositions = {}
  MaxQueue = 4
  VideoLength = 4
  AudioLength = 4
  AudioDuration = 2
  StreamSets <- AnyStreams
  EndAnswers = {"EOS", "ERROR"}
  maxBufferDuration = 3
  startBufferDurations <- StartDurations
  kBufferGap = 1
  kSecond = 1
  GoodSteps = 2
  MiddleSteps = 1
  VIDEO_RENDER_DURATION_DEFAULT = 1
  MAX_INPUT_SIZE = 1
  MAX_OUTPUT_SIZE = 1
  LongestPacket = 3
  MaxSetupFailures = 1
INVARIANTS TypeOK PipelineTypeOK NoFault DurationAccounting VideoInOrderOnce BufferIsBounded
PROPERTIES ImplementsTape EverythingIsDecoded
CHECK_DEADLOCK FALSE
