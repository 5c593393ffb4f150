CONSTANTS
  Procs = {p1, p2}
  MayFail <- IrqFailure
  MaxEvents = 2
  LoadMayFail <- AnyLoadFailure
SPECIFICATION Spec
INVARIANTS
  TypeOK
  RegisteredExactly
  ExitAlone
  
CHECK_DEADLOCK FALSE
