SPECIFICATION Spec
CONSTANTS
  Conns = {c1, c2}
  NoConn = NoConn
  MaxQueue = 2
  LineLen = 2
  MaxEvents = 4
  MaxCmds = 2
  MaxStarts = 1
SYMMETRY ConnSymmetry
INVARIANTS
  WholeEventLines
  DescriptorsOwned
  Accounting
  AtMostOneStale
PROPERTY
  NoSessionCut
  StreamSpec
CHECK_DEADLOCK FALSE
