CONSTANTS
  Bytes = 2
  LbaMod = 8
  Capacity = 3
  PartBase = 1
  GarbageBases = {2}
  MaxCount = 2
SPECIFICATION Spec
INVARIANTS WriteOkWritten
