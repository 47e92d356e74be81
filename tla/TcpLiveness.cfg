SPECIFICATION FairSpec
CONSTANTS
  Conns = {c1}
  NoConn = NoConn
  MaxQueue = 1
  LineLen = 1
  MaxEvents = 2
  MaxCmds = 3
  MaxStarts = 2
PROPERTIES
  CallsReturn
  QueueDrains
CHECK_DEADLOCK FALSE
