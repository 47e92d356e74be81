SPECIFICATION Spec
CONSTANTS
  Conns = {c1, c2}
  NoConn = NoConn
  MaxQueue = 1
  LineLen = 1
  MaxEvents = 2
  MaxCmds = 2
  MaxStarts = 1
SYMMETRY ConnSymmetry
INVARIANT FreshEvents
CHECK_DEADLOCK FALSE
