SPECIFICATION BusSpec
CONSTANTS
  PageSize = 8
  Pages = 2
  Frames = 2
  MaxAccesses = 2
PROPERTIES
  ReachesItsBytes
CHECK_DEADLOCK FALSE
