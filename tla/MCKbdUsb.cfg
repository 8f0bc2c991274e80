CONSTANTS
  FifoDepth = 2
  BufSize = 6
  Frames <- AllFrames
  MaxFrames = 3
  MaxLost = 1
SPECIFICATION Spec
INVARIANTS KeysInOrder BackInStep CapsFollowsPresses ReleasedMeansNoModifier NoExtraKeys
PROPERTIES EveryKeyTyped
CHECK_DEADLOCK FALSE
