CONSTANTS
  FifoSize = 2
  BufSize = 6
  TsSize = 2
  MaxEvents = 4
  Counts <- MCCounts
SPECIFICATION FairSpec
INVARIANTS
  TypeOK
  BufferInBounds
  NoFalseEof
  NoLostWakeup
  PollHonoured
PROPERTIES
  ImplementsStream
  SleeperReturns
