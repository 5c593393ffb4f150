CONSTANTS
  ByteBufSize = 5
  LineLengths <- MCLengths
  NumLines = 6
SPECIFICATION Spec
INVARIANTS
  TypeOK
  NoLineDropped
PROPERTY EndAddsNothing
CHECK_DEADLOCK FALSE
