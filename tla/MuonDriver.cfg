CONSTANTS
  Procs = {p1}
  MayFail <- IrqFailure
  MaxEvents = 2
  FifoSize = 1
  BufSize = 6
  TsSize = 2
SPECIFICATION FairSpec
INVARIANTS
  TypeOK
  ExampleNeverFails
  RecordsCounted
PROPERTIES
  ImplementsRead
  PulseAnswered
