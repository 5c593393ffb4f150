CONSTANTS
  Epoch = 20
  Span = 6
  MaxChunk = 2
  offset = 1
SPECIFICATION Spec
INVARIANTS
  TypeOK
  NothingSpurious
  InHandCounted
  NewestKept
CHECK_DEADLOCK FALSE
