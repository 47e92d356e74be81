SPECIFICATION RtspFairSpec
CONSTANTS
  MaxStarts = 2
  MaxPublished = 3
  MaxPushed = 4
PROPERTY
  StopComesBack
CHECK_DEADLOCK FALSE
