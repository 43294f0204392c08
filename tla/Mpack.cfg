SPECIFICATION Spec
CONSTANTS
  Values <- MCValues
  Foreign <- MCForeign
  MaxSent = 2
  Capacity = 36
  Size = 36
  StackSize = 3
  MaxChunk = 7
CHECK_DEADLOCK FALSE
INVARIANTS ResultnumIsExact PulledInOrder RoundTrip ReceiverGoesOn
