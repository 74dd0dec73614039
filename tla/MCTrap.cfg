SPECIFICATION Spec
CONSTANTS
  Places = {"a", "b"}
  OddPlaces = {"odd"}
  Configs <- MCConfigs
  MaxSaved = 1
  SieLevels = {0, 1}
  KeepsLevels = TRUE
INVARIANTS
  TypeOK
  VectorLevel
PROPERTIES
  FrameKept
  ResumesContexts
  InterruptsUser
