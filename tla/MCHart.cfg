SPECIFICATION HartSpec
CONSTANTS
  ByteBits = 1
  ImmBits = 3
  BranchBits = 4
  JumpBits = 5
  CImmBits = 2
  CJumpBits = 4
  CBranchBits = 3
  SpScale = 2
  MaxSteps = 1
  Regs <- MCRegs
  Ram <- MCRam
  Program <- MCProgram
  Starts <- MCStarts
INVARIANT HartTypeOK
PROPERTIES
  KeepsToIsa
  EffectsConfined
CHECK_DEADLOCK FALSE
