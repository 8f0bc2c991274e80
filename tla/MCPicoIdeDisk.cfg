CONSTANTS
  Words = 2
  FifoDepth = 1
  Radix = 2
  LbaMod = 4
  CountMax = 3
  Capacity = 2
  Data = {"a", "b"}
  Core1Stalls = FALSE
  Settings <- AllSettings
SPECIFICATION Spec
INVARIANTS ReadCorrect WriteDurable BufferNotShared DrqHasDma BusyHasWorker
PROPERTIES WritesOnlyWhatWasAsked
