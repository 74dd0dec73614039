SPECIFICATION Spec
CONSTANTS
  Latency = 2
  MaxKeys = 1
PROPERTIES
  WfiEnds
CHECK_DEADLOCK FALSE
