CONSTANTS
  ByteBufSize = 5
  LineLengths <- MCLengths
  NumLines = 6
SPECIFICATION Spec
INVARIANT LinesIntact
CHECK_DEADLOCK FALSE
