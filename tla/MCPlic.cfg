SPECIFICATION Spec
CONSTANTS
  MaxIrqs = 4
  MaxCores = 1
  WordBits = 4
  PrioLevels = 3
  UartIrq = 2
  VirtioIrq = 1
INVARIANTS
  TypeOK
  LineShowsWinner
PROPERTIES
  ClaimTakesPresented
  DeliversAsPromised
