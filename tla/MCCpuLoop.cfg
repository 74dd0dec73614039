SPECIFICATION Spec
CONSTANTS
  Latency = 3
  MaxKeys = 3
INVARIANTS
  TypeOK
  NoLostWakeup
  StopsPromptly
PROPERTIES
  StopsUnlessWaiting
  KeyWakesSleeper
  DiskCompletesUnlessWaiting
CHECK_DEADLOCK FALSE
