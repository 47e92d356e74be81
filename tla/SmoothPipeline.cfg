SPECIFICATION FairSpec
CONSTANTS
  ReopenAfter = 2
  MaxFrames = 5
INVARIANTS
  AiInOrder
  AtMostOneSkipped
  FrameAccounting
  CleanEnd
PROPERTIES
  ResultStream
  SignalEnds
CHECK_DEADLOCK FALSE
