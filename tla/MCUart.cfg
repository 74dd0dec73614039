SPECIFICATION Spec
CONSTANTS
  Chars = {a, b}
  Zero = Zero
  Size = 2
  CountMod = 4
  MaxKeys = 3
  Misuse = {"dllRead"}
INVARIANTS
  TypeOK
  RingCoherent
  DataReadyTells
PROPERTIES
  OnlyResetDeceives
  KeepsQueue
  KeysGetIn
CHECK_DEADLOCK FALSE
