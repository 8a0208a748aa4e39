SPECIFICATION FairSpec
CONSTANTS
  Urls <- TwoUrls
  MaxCalls = 4
INVARIANTS TypeOK MessagesInOrder UrlsFreedOnce ReadsAStartedDemuxer
PROPERTIES SourceIsKept PrepareIsAnswered DestructorReturns
CHECK_DEADLOCK FALSE
