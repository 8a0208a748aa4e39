SPECIFICATION Spec
CONSTANTS
  Urls <- TwoUrls
  MaxCalls = 3
INVARIANT ReadPacketAssertion
CHECK_DEADLOCK FALSE
