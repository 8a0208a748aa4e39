SPECIFICATION FairSpec
CONSTANTS
  mSize = 5
  mBackSize = 1
  c1 = c1
  c2 = c2
  Connections <- TwoConnections
  FileLen = 6
  CURL_READ_BUFFER_SIZE = 1
  MaxTroubles = 1
  Sizes = {2}
  Offsets = {2, 6}
  ShortBufferSize = 3
  IntMax = 127
INVARIANTS TypeOK BuffersHoldTheFile ReadsTheFile NoLostResume OneTransferAtATime
PROPERTIES EveryCallReturns
\* A failed assertion ends the process.
CHECK_DEADLOCK FALSE
