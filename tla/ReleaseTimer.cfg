CONSTANTS
  Procs = {p1, p2}
  MayFail <- NoFailure
  MaxEvents = 2
SPECIFICATION Spec
INVARIANT TimerOnlyWhileInside
