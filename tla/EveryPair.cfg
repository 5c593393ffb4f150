CONSTANTS
  Epoch = 20
  Span = 6
  MaxChunk = 2
  offset = 0
SPECIFICATION Spec
INVARIANT EveryPairCounted
CHECK_DEADLOCK FALSE
