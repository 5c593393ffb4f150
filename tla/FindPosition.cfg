CONSTANTS
  Times <- MCTimes
  MaxLen = 8
SPECIFICATION FairSpec
INVARIANTS
  TypeOK
  FindsPosition
PROPERTIES
  Halves
  Ends
CHECK_DEADLOCK FALSE
