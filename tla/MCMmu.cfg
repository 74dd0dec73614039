SPECIFICATION Spec
CONSTANTS
  Levels = 2
  Fanout = 4
  TlbSize = 2
  LastPage = 9
  Tables = {1, 2}
  Ptes <- MCPtes
  Used <- MCUsed
  Asids = {0}
  Superpages = FALSE
  MaxEdits = 2
INVARIANTS
  TypeOK
  OneMatch
  SinceLastFence
