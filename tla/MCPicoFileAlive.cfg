CONSTANTS
  Conns = {c1}
  Blocks = {b1, b2}
  FileSize <- Sizes
  HeaderLen = 1
  GarbageSizes = {1}
  Byte = 2
  SizeMod = 4
  CrcRegs = 2
  None = None
SYMMETRY Symmetry
SPECIFICATION Spec
INVARIANTS AliveWhileRead
CHECK_DEADLOCK FALSE
