SPECIFICATION CamStopSpec
CONSTANTS
  Bufs = {1, 2, 3}
  MaxOpens = 3
INVARIANT
  CopiesFromMapped
CHECK_DEADLOCK FALSE
