CONSTANTS
  Words = 2
  FifoDepth = 1
  Radix = 2
  LbaMod = 4
  CountMax = 3
  Capacity = 2
  Data = {"a"}
  Core1Stalls = FALSE
  Settings <- LiveSettings
SPECIFICATION Spec
PROPERTIES CallReturns
