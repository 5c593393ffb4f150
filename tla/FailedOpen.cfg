CONSTANTS
  Procs = {p1, p2}
  MayFail <- IrqFailure
  MaxEvents = 1
SPECIFICATION Spec
INVARIANT TimerOnlyWhileInside
