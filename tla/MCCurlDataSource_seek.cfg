SPECIFICATION FairSpec
CONSTANTS
  mSize = 5
  mBackSize = 1
  c1 = c1
  c2 = c2
  Connections <- TwoConnections
  FileLen = 6
  CURL_READ_BUFFER_SIZE = 1
  MaxTroubles = 0
  Sizes = {1}
  Offsets = {2}
  ShortBufferSize = 3
  IntMax = 127
PROPERTIES ShortSeekReturns
CHECK_DEADLOCK FALSE
