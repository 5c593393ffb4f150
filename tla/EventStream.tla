---------------------------- MODULE EventStream ----------------------------
(***************************************************************************)
(* What /dev/muon_timer promises the process that reads it, with nothing   *)
(* about interrupts, tasklets or transfer buffers.  The device is a FIFO   *)
(* of binary struct timespec objects read as a stream of bytes: an         *)
(* interrupt adds one whole record at the end, a read takes bytes from the *)
(* front, and opening the device starts an empty stream.  An event may be  *)
(* dropped, but only the newest one and only while FifoSize whole records  *)
(* are still unread; a record that was once taken in is never lost, never  *)
(* duplicated and never overtaken.                                         *)
(*                                                                         *)
(* MuonRead is shown to implement this module.                             *)
(***************************************************************************)
EXTENDS Integers, Sequences

CONSTANTS FifoSize,  \* records the driver can hold before it may drop one
          TsSize,    \* bytes of a struct timespec
          MaxEvents  \* bound on the number of interrupts

VARIABLES clock,     \* the time of the newest interrupt
          backlog,   \* bytes taken in and not yet returned by a read
          received   \* bytes the reads of this session returned, in order

streamVars == <<clock, backlog, received>>

\* The bytes of the timestamp e: byte b of e is the pair <<e, b>>.
Record(e) == [b \in 1..TsSize |-> <<e, b>>]

StreamInit == clock = 0 /\ backlog = <<>> /\ received = <<>>

\* An interrupt at a new time: its record is taken in, or dropped when the
\* driver may be full.
Event ==
  /\ clock < MaxEvents
  /\ clock' = clock + 1
  /\ \/ backlog' = backlog \o Record(clock')
     \/ Len(backlog) >= FifoSize * TsSize /\ UNCHANGED backlog
  /\ UNCHANGED received

\* A read returns the oldest n bytes and takes them off the backlog.
Read(n) ==
  /\ received' = received \o SubSeq(backlog, 1, n)
  /\ backlog' = SubSeq(backlog, n + 1, Len(backlog))
  /\ UNCHANGED clock

\* A new session starts with an empty stream.
NewSession ==
  /\ backlog' = <<>>
  /\ received' = <<>>
  /\ UNCHANGED clock

StreamNext == Event \/ NewSession \/ \E n \in 1..Len(backlog) : Read(n)

StreamSpec == StreamInit /\ [][StreamNext]_streamVars
=============================================================================
