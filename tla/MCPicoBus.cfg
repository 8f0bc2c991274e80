CONSTANTS
  FifoDepth = 2
  Other = {1, 21}
  MaxKeys = 3
  MaxCycles = 4
  Tempos = {"slow", "fast"}
SPECIFICATION Spec
INVARIANTS KeysInOrder NoPhantomKeys AtMostOneBehind
PROPERTIES EveryKeyReceived BusAnswered
CHECK_DEADLOCK FALSE
