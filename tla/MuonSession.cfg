CONSTANTS
  Procs = {p1, p2}
  MayFail <- AnyFailure
  MaxEvents = 3
SPECIFICATION FairSpec
INVARIANTS
  TypeOK
  SoleUser
  NothingLeaked
  PinsOutliveUsers
  ResetToCome
  MonitorAlive
  CountersBounded
  QuietUnlessLeftOver
PROPERTIES
  LatchRecovers
