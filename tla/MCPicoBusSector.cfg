CONSTANTS
  FifoDepth = 4
  Other = {10}
  MaxKeys = 0
  MaxCycles = 1
  Tempos = {"slow"}
SPECIFICATION Spec
PROPERTIES BusAnswered
CHECK_DEADLOCK FALSE
