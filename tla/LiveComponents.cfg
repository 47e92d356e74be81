SPECIFICATION Spec
CONSTANTS
  Conns = {1, 2}
  MaxBuffered = 3
  MaxChunk = 3
  MaxSent = 4
  ReopenAfter = 2
  MaxFrames = 4
  MaxStarts = 2
  MaxPublished = 3
  MaxPushed = 4
  MaxRead = 3
  MaxStream = 9
  Bufs = {1, 2, 3}
  MaxOpens = 3
  FusionClasses = {1, 2, 3, 4}
  Faded <- Halved
  Weights = {1, 2}
  Ratio = 13
  SwitchHold = 2
  TableSize = 3
  FusionSteps = {1}
  GiveUpAfter = 2
  Window = 2
  Samples = {1, 2}
  MaxLoopFrames = 3
  MaxAttempts = 2
INVARIANTS
  ImagesAreWhole
  SocketsOwned
  LoggedEvents
  BuffersAccounted
  RunAccounted
  TraceComplete
  ChildrenCared
PROPERTIES
  CaptureContract
  StopEndsCapture
  StreamerStops
  PushesInOrder
  SwitchIsHeld
  SustainedClassWins
  OutputsKept
CHECK_DEADLOCK FALSE
