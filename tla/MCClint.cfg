SPECIFICATION ClintSpec
CONSTANTS
  Period = 3
  MaxTime = 3
  Base = 16
  Size = 8
  Width = 64
  Registers <- MCRegisters
  TimeAt = 5
INVARIANTS
  ClintTypeOK
  StipLags
PROPERTY DeadlineComes
