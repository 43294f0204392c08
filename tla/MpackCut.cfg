SPECIFICATION Spec
CONSTANTS
  Values <- MCMap
  Foreign = {}
  MaxSent = 1
  Capacity = 36
  Size = 36
  StackSize = 3
  MaxChunk = 1
CHECK_DEADLOCK FALSE
INVARIANT CutMessageIsRejected
