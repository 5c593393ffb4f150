CONSTANTS
  Callers = {c1, c2}
  MaxServers = 3
SPECIFICATION FairSpec
INVARIANTS
  TypeOK
  DeviceOnlyWhileServing
  RunningIsNamed
PROPERTY ServerComesBack
CHECK_DEADLOCK FALSE
