SPECIFICATION FairClientSpec
CONSTANTS
  Frames <- MCFrames
  Bytes <- MCBytes
  maxFrameBytes = 1
  maxBufferedBytes = 2
  IdleClose = FALSE
  MaxId = 2
  maxOutstandingRequests = 1
  maxInboundRequestConcurrency = 1
  maxNotificationHandlerConcurrency = 1
CHECK_DEADLOCK FALSE
INVARIANTS
  IdsUnambiguous
  QuietTransport
  OutputIsOwned
  BudgetExact
PROPERTIES
  WriterSpec
  CloseEnds
  WritesEnd
