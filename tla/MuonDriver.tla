----------------------------- MODULE MuonDriver -----------------------------
(***************************************************************************)
(* The whole driver under the example program: control path (MuonSession)  *)
(* and data path (MuonRead) over one handler, one tasklet and one open(),  *)
(* and processes that run c99_example.c.  The program opens the device and *)
(* the sysfs file of the pulse output, which is wired to the input, and    *)
(* then in a loop pulses and reads one record.                             *)
(*                                                                         *)
(* MuonRead takes open and release for single steps and leaves it to the   *)
(* control path when interrupts come.  Here they have the steps of         *)
(* MuonSession, and MuonRead's specification is a property.                *)
(***************************************************************************)
EXTENDS Integers, Sequences

CONSTANTS Procs, MayFail, MaxEvents,  \* as in MuonSession
          FifoSize, BufSize, TsSize   \* as in MuonRead

VARIABLES
  events, latch, edge, handler, scheduled, tasklet, armed, timer, held, at,
  curInts, curMissed, totInts, totMissed, leftover,
  clock, fifo, buffer, readp, reader, call, waiting, received,
  client      \* where the program of the process inside is in main()

Session == INSTANCE MuonSession

\* From the reset of the fifo in open() to free_irq in release() the device is
\* open as far as the data path can tell.
Opened ==
  \E p \in Procs :
    \/ at[p].phase = "open" /\ at[p].step > Len(Session!OpenPlan) + 1
    \/ at[p].phase \in {"in", "dead"}
    \/ at[p] = [phase |-> "release", step |-> 1]

\* Of the tasklet the data path sees what it does up to the wake-up.
Waker == IF tasklet \in {"pulse", "wake"} THEN "wake" ELSE "idle"

\* Of the handler, what it does up to tasklet_schedule.
Putter == IF handler = "schedule" THEN "schedule" ELSE "idle"

\* The program never polls, so there is no answer of poll() to keep.
Polled == call.op = "poll"

Read == INSTANCE MuonRead WITH
          Counts <- {TsSize}, opened <- Opened, handler <- Putter, tasklet <- Waker,
          readable <- Polled

ASSUME DriverAssumption == Session!SessionAssumption /\ Read!ReadAssumption

dataVars == <<clock, fifo, buffer, readp, waiting, received>>
progVars == <<reader, call, client>>
sessionVars == <<events, latch, edge, handler, scheduled, tasklet, armed, timer, held, at,
                 curInts, curMissed, totInts, totMissed, leftover>>
vars == <<sessionVars, dataVars, progVars>>

Init ==
  /\ Session!Init
  /\ Read!Init
  /\ client = "out"

-----------------------------------------------------------------------------
(* The driver.                                                             *)

\* The steps of the control path that neither the data path nor the program
\* has a part in.
Control(p) ==
  /\ \/ Session!OpenLock(p) \/ Session!OpenAcquire(p) \/ Session!OpenIrq(p)
     \/ Session!Unwind(p)
     \/ Session!ReleaseIrq(p) \/ Session!ReleaseTimer(p) \/ Session!ReleaseRest(p)
  /\ UNCHANGED <<dataVars, progVars>>

\* The fifo is not reset by open().
OpenTimerOnly(p) ==
  /\ Session!OpenTimer(p)
  /\ buffer' = <<>> /\ readp' = 0
  /\ received' = <<>>
  /\ UNCHANGED <<clock, fifo, waiting, progVars>>

\* kfifo_reset and the reset of the transfer buffer, when all files are made,
\* and then the timer.  Nobody else looks at fifo or buffer here.
OpenTimer(p) ==
  /\ Session!OpenTimer(p)
  /\ fifo' = <<>> /\ buffer' = <<>> /\ readp' = 0
  /\ received' = <<>>
  /\ UNCHANGED <<clock, waiting, progVars>>

\* open() returns, and the program goes on.
OpenReset(p) ==
  /\ Session!OpenReset(p)
  /\ client' = "start"
  /\ UNCHANGED <<dataVars, reader, call>>

\* A release that does not wait for a read to return.
ReleaseAnyTime(p) ==
  /\ Session!ReleaseStart(p)
  /\ client' = "out"
  /\ UNCHANGED <<dataVars, reader, call>>

\* close(), or the end of the process: the file is released when no call on it
\* is under way.
ReleaseStart(p) ==
  /\ reader = "user"
  /\ Session!ReleaseStart(p)
  /\ client' = "out"
  /\ UNCHANGED <<dataVars, reader, call>>

\* The handler takes the time and puts it in the fifo.
HandlerPut ==
  /\ Session!HandlerPut
  /\ clock' = clock + 1
  /\ Read!Put(clock')
  /\ UNCHANGED <<buffer, readp, waiting, received, progVars>>

\* It schedules the tasklet and counts the interrupt.
HandlerRest ==
  /\ Session!HandlerSchedule \/ Session!HandlerCount \/ Session!HandlerTotal
  /\ UNCHANGED <<dataVars, progVars>>

\* A tasklet that wakes nobody, its pulse being all the hardware needs.
TaskletNoWake == Session!TaskletWake /\ UNCHANGED <<dataVars, progVars>>

TaskletWake ==
  /\ Session!TaskletWake
  /\ waiting' = FALSE
  /\ UNCHANGED <<clock, fifo, buffer, readp, received, progVars>>

TaskletRest ==
  /\ Session!TaskletRun \/ Session!TaskletPulse \/ Session!TaskletRearm
  /\ UNCHANGED <<dataVars, progVars>>

Timer ==
  /\ Session!TimerExpire \/ Session!TimerFunction
  /\ UNCHANGED <<dataVars, progVars>>

\* A muon, or somebody else's pulse or reset.
Outside ==
  /\ Session!LatchSet \/ Session!SysReset
  /\ UNCHANGED <<dataVars, progVars>>

-----------------------------------------------------------------------------
(* The program, c99_example.c.                                             *)

\* open() of the pulse file; exit(2) without one.
OpenPulse ==
  /\ client = "start"
  /\ client' = IF "sysfs_pulse" \in held THEN "pulse" ELSE "failed"
  /\ UNCHANGED <<sessionVars, dataVars, reader, call>>

\* write() of a "1": sys_pulse sets the latch, unless it is still high from the
\* event before; then there is no edge.
WritePulse ==
  /\ client = "pulse"
  /\ client' = "read"
  /\ \/ Session!LatchSet
     \/ latch # "low" /\ UNCHANGED sessionVars
  /\ UNCHANGED <<dataVars, reader, call>>

CallRead ==
  /\ client = "read"
  /\ client' = "reading"
  /\ UNCHANGED <<sessionVars, dataVars>>
  /\ Read!Call([op |-> "read", count |-> TsSize, nonblock |-> FALSE])

\* The process is in the driver's read().
Reading ==
  /\ UNCHANGED <<sessionVars, client>>
  /\ Read!Test \/ Read!Prepare \/ Read!Recheck \/ Read!Woken \/ Read!Fill \/ Read!Drain

\* read() returns; exit(4) unless it is sizets bytes.  The ten turns of the loop
\* are any number here.
ReadReturns ==
  /\ UNCHANGED sessionVars
  /\ Read!Copy
  /\ client' = IF Len(received') = Len(received) + TsSize THEN "pulse" ELSE "failed"

\* A signal ends the wait and the program.
Killed ==
  /\ UNCHANGED sessionVars
  /\ Read!Interrupted
  /\ client' = "killed"

-----------------------------------------------------------------------------
Handler == HandlerPut \/ HandlerRest
Tasklet == TaskletWake \/ TaskletRest
Reader == Reading \/ ReadReturns

Next ==
  \/ \E p \in Procs : Control(p) \/ OpenTimer(p) \/ OpenReset(p) \/ ReleaseStart(p)
  \/ Handler \/ Tasklet \/ Timer \/ Outside
  \/ OpenPulse \/ WritePulse \/ CallRead \/ Reader \/ Killed

\* Of what MuonSession and MuonRead assume, all that a read waits for.
Fairness == WF_vars(Handler) /\ WF_vars(Tasklet) /\ WF_vars(Reader)

Spec == Init /\ [][Next]_vars
FairSpec == Spec /\ Fairness

-----------------------------------------------------------------------------
(* Properties.                                                             *)

\* Both halves have their types, and the program is in main() exactly while a
\* process has the device open.
TypeOK ==
  /\ Session!TypeOK
  /\ Read!TypeOK
  /\ client \in {"out", "start", "pulse", "read", "reading", "failed", "killed"}
  /\ client # "out" <=> \E p \in Procs : Session!IsOpen(p)

\* The data path as MuonRead has it: with all the steps that open, its failures,
\* release and left-over tasklets really take, nothing happens to fifo, buffer
\* and reader that MuonRead does not know of.
ImplementsRead == Read!Spec

\* The program never ends with an error: its sysfs file is there once open()
\* has returned, and a read of sizets bytes returns a whole record, however
\* interrupts and reads fall together (c99_example.c lines 26 and 44).
ExampleNeverFails == client # "failed"

InHandler == IF handler \in {"schedule", "count"} THEN 1 ELSE 0

\* The records of a session are the interrupts it has counted: never more, and
\* none missing as long as they fit in the fifo.  A tasklet, a timer or records
\* of an earlier session change nothing of it (lines 127-136, 234, 282).
RecordsCounted ==
  Opened =>
    LET bytes == Len(received) + Len(Read!Undelivered)
        counted == curInts + InHandler
    IN  /\ bytes <= TsSize * counted
        /\ counted <= FifoSize => bytes = TsSize * counted

\* A pulse that set the latch and raised its interrupt ends the read that waits
\* for it, from the input pin through handler, fifo, tasklet and wait queue to
\* the program (README.md lines 28-34).
PulseAnswered == (latch = "new" /\ reader # "user") ~> (reader = "user")
=============================================================================
