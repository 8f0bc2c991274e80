CONSTANTS
  Conns = {c1, c2}
  Blocks = {b1, b2}
  FileSize <- Sizes
  HeaderLen = 2
  GarbageSizes = {1}
  Byte = 2
  SizeMod = 4
  CrcRegs = 2
  None = None
SYMMETRY Symmetry
SPECIFICATION Spec
INVARIANTS BlocksAccounted PublishedIsSent CalmRead AcceptedIsOneFile BrokenByPieces SentIsPublished
CONSTRAINT IdleWhileTwo
CHECK_DEADLOCK FALSE
