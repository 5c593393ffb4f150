# muon_timer: a verification development

The repository holds a Linux character device driver that timestamps muons
(`src/BBB_Kernel_Driver/muon_timer.c`, and the same program for a Raspberry Pi
in `src/RPI_Kernel_Driver/muon_timer.c`) and the programs that use it
(`src/coincidences`, `src/util`): an HTTP server that streams the timestamps of
one detector, and a counter that reads two such streams and logs coincidences.

This directory models the driver, alone and together with a program that uses
it, the loading and unloading of its module, the event server with its start
script, and the counter's own algorithms in TLA+. It checks the models with TLC,
and proves the safety properties of driver, module and server, the refinement
of an abstract stream by the data path and of the data path by the whole
driver, and the counter's splitting, searching and matching, with TLAPS for
every value of the constants.

## 1. Inventory

### The driver, data path (`muon_timer.c`)

*State*: the kfifo of `struct timespec`, the transfer buffer with `readp` and
`writep`, the wait queue `read_queue`, and whether the tasklet is scheduled.
*Operations*: the interrupt handler (timestamp, `kfifo_put`,
`tasklet_schedule`), the tasklet (`wake_up_interruptible`), `read()` (wait,
drain the fifo into the buffer, `copy_to_user`), `poll()`.
*Interaction*: handler and tasklet run on any processor at any moment; kfifo is
used without a lock because it has one writer and one reader.
*Correct when* a reader is never left asleep with data to read; the bytes it
gets are those of the records, in order, each once, however it splits its
reads; a full fifo loses the newest record and nothing else; the transfer
buffer is never overrun; `poll()` and `read()` agree; a read never returns 0.

### The driver, control path (`muon_timer.c`)

*State*: the mutex, three GPIO pins, three sysfs files, the interrupt line, the
interrupt loss timer, the hardware latch, four counters.
*Operations*: `open()` with seven acquisitions that may fail and a chain of
labels that unwinds them; `release()`; a write to the sysfs file that pulses
the reset; the handler; the tasklet, which resets the latch and puts the timer
off; the timer function, which resets a latch whose interrupt was lost.
*Interaction*: the latch raises no interrupt while it is high, so whoever leaves
it high makes the device deaf. Tasklet and timer function both reset it and
both arm the timer. Handler, tasklet, timer and processes interleave freely.
*Correct when* one process is inside at a time; what `open()` acquired is given
back exactly, wherever it failed; pins outlive their interrupt; a latch that is
high is always reset; the monitor stays alive while the device is open; and the
timer is gone, and stays gone, once it is closed.

### The driver, module load and unload

*State*: the class, the character device, the device and its four counter files
that are registered; where the load or the unload is. *Operations*:
`muon_timer_init` registers in steps and unwinds them on error;
`muon_timer_exit` takes everything back. Hard: the device can be opened before
the load has ended or failed, and exit relies on "no other thread should exist".
*Correct when* everything registered is taken back exactly, exit runs alone,
and the files of a session are on a device that exists. The totals are reset at
the very end, so they lack what sessions counted before; nothing in the
repository says otherwise.

### The driver and its program (`examples/c99/c99_example.c`)

The example opens the device and the sysfs file of the pulse output, wires the
output to the input, and then pulses and reads one record in a loop. It is where
both paths meet: the handler feeds the fifo and the counters, one tasklet resets
the latch and wakes the reader, `open()` resets fifo, buffer and counters at
three different points. *Correct when* the data path does nothing that its own
model does not know of, records and counted interrupts agree, each read is a
whole record, and a pulse is answered.

### The event server and its script (`event_server.py`, `server_start.sh`)

*State*: the server processes, who has the port and the device, the client of
the request that is served; the pidfile, and where each run of the script is.
*Operations*: bind the port, accept one request at a time, send the header, open
`/dev/muon_timer`, read records and write them as lines until a write fails;
`start`, `stop` and `restart`, which test, write and remove the pidfile on
separate lines. Hard: the header leaves before `open()` may fail; a client that
went away is noticed only at a later write; servers end, and scripts are
stopped, between any two lines; two scripts may run at once. *Correct when* the
device is closed for every request that opened it, the server gets back to
accepting, and the pidfile names the server that runs, if one does.

### The coincidence counter (`coincidences/coincidence_counter.py`)

*State*: a list of pending timestamps per stream, the spillover of a chunk that
ended in the middle of a line, the last coincidence. *Operations*: split chunks
into lines, find the position of a time by binary search, match within a
window, trim the lists. Correct when each line is used once, the search returns
what its comment says, and no pair within the window is missed or counted twice.

### The rest

`stream_reader.py` (`Requestor` opens a connection for the counter; no program
starts the threads of `StreamReader`), `counter_start.sh` (starts the counter in
the foreground), `util/timespec.py` (sum, difference and order of timestamps,
imported by no program), `logger.py` (formats lines), `install.sh`, tests and
examples (clients of the device).

## 2. Modules

| module | what it is | code |
| --- | --- | --- |
| `EventStream` | abstract specification: the device as a FIFO of records read as a stream of bytes | README.md lines 33-35 |
| `MuonRead` | data path | BBB driver: handler, tasklet, `has_data`, `poll`, `read`, the resets of `open` |
| `MCMuonRead` | byte counts for TLC | |
| `MuonReadProofs` | type and safety theorems of `MuonRead`, and that it implements `EventStream` | |
| `MuonSession` | control path | RPI driver: `open`, `release`, latch, handler, tasklet, timer, sysfs reset |
| `MCMuonSession` | which acquisitions fail, for TLC | |
| `MuonSessionProofs` | type and safety theorems of `MuonSession` | |
| `MuonDriver`, `MCMuonDriver` | `MuonSession` and `MuonRead` over one handler, tasklet and `open()`, under the example program | RPI driver, `c99_example.c` |
| `MuonDriverProofs` | that `MuonDriver` implements `MuonRead`, what follows, and that the records of a session are the interrupts it counts | |
| `MuonModule`, `MCMuonModule` | load and unload around the sessions of `MuonSession` | RPI driver 459-588 |
| `MuonModuleProofs` | type and safety theorems of `MuonModule` | |
| `EventServer`, `MCEventServer` | server processes, script, pidfile, device, client | `event_server.py`, `server_start.sh` |
| `EventServerProofs` | type and safety theorems of `EventServer` | |
| `LineSplit`, `MCLineSplit` | the counter: chunks of a stream into lines | `coincidence_counter.py` 108-151 |
| `LineSplitProofs` | type and safety theorems of `LineSplit` | |
| `FindPosition`, `MCFindPosition` | the counter: binary search, turn by turn | lines 45-58 |
| `FindPositionProofs` | what the search returns, and how fast | |
| `Positions` | a set in ascending order, and the result of the search as a predicate, shared by the counter's modules | lines 45-58, 162-163 |
| `Coincidence`, `MCCoincidence` | the counter: matching and trimming | lines 60-67, 153-213 |
| `CoincidenceProofs` | type and safety theorems of `Coincidence` | |

The two drivers are the same text, line for line, except for pin numbers, the
file modes of lines 199-200 and line 131 (`kfifo_put` by address on one, by
value on the other). The models apply to both; each is mapped to one.

### MuonRead

| model | code |
| --- | --- |
| `fifo` | `muon_timer_fifo`, `FifoSize` records; records are times, `clock` is the newest |
| `buffer`, `readp` | the bytes between `buffer` and `writep`, and how many of them were returned |
| `handler`, `scheduled`, `tasklet` | where the interrupt handler is, the tasklet's scheduled mark, where it is |
| `reader`, `call` | where the process is in `read()` or `poll()`, and with which arguments |
| `waiting` | it is on `read_queue` and no `wake_up` has taken it off |
| `readable`, `received` | history: what `poll()` promised, what reads returned |

A step ends wherever another processor can see or change shared state.
`wait_event_interruptible` is three steps (join the queue, test again, sleep),
so an interrupt can come between any two of them; the tasklet takes off its
scheduled mark before it runs, so an interrupt during it schedules it again.
`read()` is the loop on `has_data`, the reset of an empty buffer, one step per
record drained and the copy, which may fail with EFAULT. Records are pairs
(time, byte number), so a record may be split between two reads.

`poll()` shares the places of `read()`: both join the queue, test, and sleep.
A read leaves the queue when it finds data and tests once more; a poll reports
it. `Interrupted` is a signal, or the timeout of a poll. `open()` and
`release()` are single steps here; their inner order is `MuonSession`'s.

`EventStream` has an event that adds a record or, only while `FifoSize`
records are unread, drops it; a read that takes bytes from the front; and a new
session. The refinement maps its backlog to `Undelivered`: the rest of the
transfer buffer followed by the bytes of the fifo.

### MuonSession

| model | code |
| --- | --- |
| `held` | mutex, pins, sysfs files and interrupt line acquired |
| `at` | each process: outside, at a step of `open()`, unwinding from a label, inside, at a step of `release()`, or stopped by the kernel |
| `latch`, `edge` | the input pin and the pending interrupt |
| `handler`, `scheduled`, `tasklet` | as above; the handler goes on to `++cur_ints` ("count") and `++tot_ints` ("total"); the tasklet is pulse, wake, re-arm |
| `armed`, `timer` | the timer is pending; the next thing its function does: test, reset pulse, `++cur_missed` ("count"), `++tot_missed` ("total"), re-arm |
| `curInts` ... `totMissed` | the four counters |
| `leftover` | history: a process gave the device up with the timer armed (a failed `request_irq`), or with a tasklet under way that will arm it |

`OpenPlan`, `UnwindPlan`, `UnwindFrom` and `ReleasePlan` are the orders of the
source: the acquisitions, the labels, the label each `goto` names, and the
releases. `free_irq` waits for the handler and `del_timer_sync` for the timer
function, as the kernel's do; nothing in the driver waits for the tasklet.
`add_timer` on a pending timer is the kernel's BUG and stops the process.

`latch` tells more than the pin's level, so that properties can: high with an
interrupt to come ("new"), high and taken ("seen"), high with no interrupt to
come ("missed": the hardware lost it, or it was set while no interrupt was
requested). The code reads only whether it is high.

### MuonDriver

`MuonDriver` instantiates both paths. The variables of `MuonSession` are its
own; of `MuonRead` it has `clock`, `fifo`, `buffer`, `readp`, `reader`, `call`,
`waiting` and `received`, shares `scheduled`, and maps the rest: `opened` is
`Opened` (from the reset of the fifo in `open()` to `free_irq` in `release()`),
`handler` is `Putter` (what the handler does up to `tasklet_schedule`), `tasklet`
is `Waker` (what the tasklet does up to `wake_up`).
`client` is where the program is in `main()`.

Each action conjoins the two halves of one piece of code: `HandlerPut` takes the
interrupt of `MuonSession` and puts the record of `MuonRead`, `OpenTimer` resets
fifo and buffer before it arms the timer, `TaskletWake` takes the reader off the
queue. `HandlerRest` is the rest of the handler, of which the data path sees only
`tasklet_schedule`. `Control` and `Outside` are the steps that the data path has no part in,
`Reading` those that the control path has none in. `ReadReturns` and `OpenPulse`
have the tests of the program's `exit` calls. The pulse is `LatchSet`, or
nothing when the latch is still high. The program's ten turns are any number.

### MuonModule

`load` is where the loader is: out, at a step of `muon_timer_init`, unwinding
from a label, live, at a step of `muon_timer_exit`, or crashed; `registered` is
what the kernel has of the module. `InitPlan`, `UnwindPlan`, `UnwindFrom` and
`ExitPlan` are the orders of the source, as in `MuonSession`, whose steps are
`Sessions` here. A process comes in only while `CanOpen`: after `device_create`,
and not into a module that is being unloaded. `UnloadStart` waits for the
processes because `binary_fops` names its owner; a failed load waits for nobody.
`FreeCode` is the kernel's: what still had to run in the freed code, a session
of a failed load or the timer that `release()` left behind, ends in "crashed".

### EventServer

`server[p]` is none, booting, listening, opening, serving or dead; pids are not
used again. `script[c]` is the word the script was called with, the line it is
at, and its `$PID`. A step of the script ends wherever it has read or written
the pidfile or looked for a process. `NotFound` is the script's comparison: an
empty `$PID` equals the empty answer of `ps`, and so counts as found. `$0 start`
inside a script is the same script going on at `start`. `start-stop-daemon` is
two steps when it starts a server (look at the pidfile, start and write it) and
one when it stops one. `Crash` ends a server and `Interrupted` a script at any
point. `client` has "reset" for a connection whose next write fails.

### LineSplit, FindPosition, Coincidence

One turn of the counter's loop reads a chunk of each stream, splits it into
lines, appends the events to two lists, matches and trims. The top and the
bottom stream go through the same statements, so `LineSplit` has one of them: a
stream of lines of any lengths, the bytes not read yet, the spillover, the lines
split off. Bytes are pairs (line, byte number), so that a piece that shows up in
the wrong place is seen. `read()` of an HTTP response blocks for all the bytes
it was asked for and returns less only at the end of the stream, where
`strTop[-1]` raises an exception if there is no spillover either.

`FindPosition` is the loop of `findPositionAfter`, one step per turn, with the
code's positions from 0; its input is any ascending list that is not empty.
`Coincidence` uses its result, `IsPositionAfter`, which `FindPositionProofs`
proves. A turn of `Coincidence` gets any new events of both detectors, later than
those before, or none of a stream whose chunk held no whole line; it has all of
the loop's statements from the `extend` to the slices. With a list that is still
empty `dataTop[0]` ends the program, and there is no such turn. `sentTop` and `sentBottom` are history. Times are whole
microseconds, the resolution of the boards; the run starts at `Epoch`, far from
0, as times since 1970 do: the code compares times with differences of times.

## 3. Runs

| run | bounds | result |
| --- | --- | --- |
| `read` | fifo of 2 records of 2 bytes, buffer of 6, 4 interrupts, reads of 1, 3 and 8 bytes | passes, 91,853 states |
| `session` | 2 processes, any acquisition fails, 3 events | passes, 530,319 states |
| `failed_open` | 1 event, `request_irq` may fail | `TimerOnlyWhileInside` is violated |
| `release_timer` | 2 events, nothing fails | `TimerOnlyWhileInside` is violated |
| `driver` | 1 process, `request_irq` may fail, 2 events, fifo of 1 record of 2 bytes, buffer of 6 | passes, 315,286 states |
| `module` | 2 processes, `request_irq` may fail, 2 events, any step of a load fails | passes, 1,625,779 states |
| `event_server` | 2 callers, 3 servers in all | passes, 195,361 states |
| `find_position` | ascending lists of 1 to 8 of 4 times | passes, 8,757 states |
| `line_split` | 6 lines of 2 to 4 bytes, chunks of 5 | passes, 3,657 states |
| `lines_intact` | the same | `LinesIntact` is violated |
| `coincidence` | 6 microseconds, chunks of up to 2 events, allowance 1 | passes, 20,992 states |
| `every_pair` | the same with allowance 0 | `EveryPairCounted` is violated |

### What they show

`read` checks, against interrupts at every point:

- `NoLostWakeup`: a process asleep with data to read has a wakeup to come from
  the handler, the scheduled tasklet or the running one;
- `PollHonoured`: what `poll()` reported is there until the process reads;
- `NoFalseEof`: a read that got past its wait returns at least one byte;
- `BufferInBounds`: the drain loop never writes past the transfer buffer;
- `ImplementsStream`: the data path implements `EventStream`; in particular the
  bytes of a session come in order, none twice, only the newest record is ever
  dropped, and no byte of an earlier session reaches a later one;
- `SleeperReturns`: a sleeping reader with data to read returns.

*Bounds.* Four interrupts fill the fifo of two while two more records are in
the buffer, and overflow it. The buffer of 6 bytes has room for two records
under the test `writep + size - buffer >= BUFSIZE`, so the drain stops with
records left in the fifo. A read of 3 bytes splits a record and one of 8 wants
more than there is. The model's reader can be interrupted by a second interrupt
at each of its places, which is all the code's races need.

`session` checks, for every interleaving of two processes and the hardware:

- `SoleUser`: one process is between lock and unlock;
- `NothingLeaked`: with nobody inside nothing is held, whichever of the seven
  acquisitions failed before;
- `PinsOutliveUsers`: the interrupt, and a running handler, have their pins,
  each sysfs file its pin;
- `ResetToCome`: a high latch whose interrupt was not lost has the interrupt,
  the handler or the tasklet still to come;
- `MonitorAlive`: while the device is open the timer is pending or running;
- `CountersBounded`: no event is two interrupts or two missed ones, and no
  session has more than the totals, but for the one that is being added (the
  session's counter goes first), also when a timer left over by the session
  before overwrites the 0 of `open()`;
- `QuietUnlessLeftOver`: disagreements 1 and 2 below are the only ways to leave
  anything running. Unless a `request_irq` failed, or `del_timer_sync` ran with
  a tasklet still under way, a closed device has no timer, handler or tasklet
  left, and no `open()` calls `add_timer` on a pending timer;
- `LatchRecovers`: an open device's high latch is reset.

*Bounds.* Two processes suffice for every conflict over one mutex; a third
could only be a second loser. With three events one can come while the handler,
tasklet or timer of another is under way, and be lost or taken, with a third
before or after. The initial state may have an old event on the latch, which
counts as one of the three.

`driver` checks of the whole driver under the example program:

- `ImplementsRead`: with the steps that `open()`, its failures, `release()` and
  left-over tasklets really take, every step is one of `MuonRead` or none, so
  that what the run `read` and the proofs say of `MuonRead` holds here;
- `RecordsCounted`: the records of a session, read or not, are the interrupts it
  counts, and none is missing that fits in the fifo, whatever a tasklet or timer
  of the session before still does;
- `ExampleNeverFails`: the program never ends with `exit(2)`, for want of the
  pulse file, or `exit(4)`, for a read that is short. An `open()` that fails,
  `exit(1)`, and a write that does, `exit(3)`, are not steps of the model;
- `PulseAnswered`: once the pulse of the program has raised its interrupt, its
  read returns. It says nothing of a pulse on a latch that is still high, or of
  an interrupt that the hardware loses: those raise no interrupt, and the
  program then waits for the next muon.

*Bounds.* With two events one session can leave a tasklet behind and the next
can use it up; the fifo of one record overflows. `request_irq` is the one
acquisition that can fail after the fifo was reset. One process opens and closes
the device again and again: a second one would come in only where the first has
left, as the mutex of the run `session` sees to, and its failed `open()` changes
nothing. `MuonDriverProofs` has any number of them.

`module` checks `RegisteredExactly` (what a failed load or an unload takes back
is exactly what was registered), `ExitAlone` (the comment of lines 570-571: with
no process in the driver, nothing held, and nothing left to run in the memory
that is freed but what a session left over) and `FilesHaveDevice` (a session's
files are made and removed on a device that exists, but for a load that fails).
Events keep their count over loads, so that two are enough for one before and
one after the reset of the totals.

`event_server` checks `DeviceOnlyWhileServing`, `ServerComesBack` (a server
whose client has left gets back to accepting) and `RunningIsNamed`: as long as
no two scripts have run at the same time, every living server is named by the
pidfile. Two scripts at once do break that: both may find no pidfile, and the
later one writes its pid over that of the server that got the port. The
condition `overlapped` keeps that apart, so that the run shows it to be the only
way. Three servers allow one that crashed, one that could not bind, and one
that runs.

`find_position` checks what is returned (`FindsPosition`), that every turn
halves the range (`Halves`) and that the loop ends (`Ends`). Lists of eight take
three turns and have every arrangement of equal items around the one to find.

`line_split` checks `NoLineDropped`: each line that was read to its end is split
off, in order and whole, with at most a piece of one earlier line in front.
Chunks of 5 bytes end at every byte of a line, at line ends too, and several
times in a row. `EndAddsNothing`: when the stream has ended, the turns that go on
over a spillover add no line.

`coincidence` checks that nothing spurious is counted (`NothingSpurious`), that
a pair that is in the lists together is counted whichever list is the absolute
one (`InHandCounted`), and that only the oldest events are trimmed
(`NewestKept`). With two events per chunk one stream can run ahead of the other
and the two lists can take turns in being the absolute one. The code's chunks
have about forty events; the hazards are between neighbouring chunks.

*Deadlock* is checked in the runs `read`, `session`, `driver` and their
violations. A process that the kernel has stopped does not end the others'
steps. It is not checked where the system may stop: a module that has crashed
the kernel, servers and scripts when all pids of the bound are used up, a search
that has returned, a stream that has ended, times of a bounded run that are used
up.

### Disagreements between code and comments

1. *Failed open* (line 311). `open()` arms the timer before `request_irq`. When
   that fails, the labels free files, pins and mutex but never delete the
   timer; the comment says "unwind correctly on error". The timer later pulses
   free pins, and the next `open()` adds a pending timer.
2. *Tasklet after release* (line 343). `release()` frees the interrupt and
   deletes the timer ("remove timer"), but a tasklet that the last interrupt
   scheduled runs after that and arms it again.
3. *Spillover used twice* (`coincidence_counter.py` line 139). The spillover is
   never cleared. After a chunk that ends exactly at a line end, a piece of an
   old line is put in front of a line once more and its time is parsed from the
   two together.
4. *Pairs missed* (line 177). The lists of absolute times are trimmed with a
   time relative to the first coincidence. Every turn with a coincidence thereby
   drops the two oldest events of the absolute list (and keeps most that have
   been matched), also those whose partner is in the next chunk.

The properties that state the comments are `TimerOnlyWhileInside`,
`LinesIntact` and `EveryPairCounted`. The properties of the passing runs hold in
spite of them.

Two smaller ones need no run. The input is also high between the handler and the
tasklet's pulse, so an event may be in both totals, as an interrupt and as
"missed" (line 93); `CountersBounded` says what does hold. And the search never
looks at item 0, so it does not return "the index of the first item LARGER" when
that is item 0; `FindsPosition` says what it returns.

## 4. Fairness

`MuonRead`: weak fairness of the handler's second half, of starting a scheduled
tasklet, of its wake-up, and of the process's own steps inside a system call:
the kernel runs a handler it has entered, a tasklet that was scheduled, and a
runnable process. Handler, tasklet and process have conditions of their own, so
that none borrows the progress of another. Interrupts, calls, signals and
`release()` are never fair.

`MuonSession`: weak fairness of handler, tasklet and timer function, and of the
timer's expiry only while no interrupt is under way (`QuietExpire`): each
tasklet run puts the timer off, so under constant interrupts it need never
expire, and the code relies on no more. Opens, releases, events and sysfs writes
are never fair.

`MuonDriver`: weak fairness of the handler, of the tasklet and of the program's
own steps inside `read()`, each for itself, as in the two halves. The timer, the
program outside of `read()`, pulses and signals are not fair.

`EventServer`: weak fairness of each server's read and write: muons keep coming,
which is what line 39 of `event_server.py` waits for. Requests, clients, scripts
and crashes are not fair.

`MuonModule` has no liveness property: nothing makes anybody load or unload.

`FindPosition`: weak fairness of the loop, which is plain sequential code.
`LineSplit` and `Coincidence` have no liveness property and no fairness.

## 5. Proofs

The assumptions on the constants, all checked by TLC: `ReadAssumption` (a fifo
of at least one record, records of at least one byte, a transfer buffer larger
than a record: with a smaller one no read could return), `SessionAssumption`
(what may fail is an acquisition of `open()`; the number of events is a natural
number), `DriverAssumption` (both), `ModuleAssumption` (what may fail is a step
of `muon_timer_init`), `ServerAssumption` (the number of servers is a natural
number), `FindAssumption` (times are integers), `SplitAssumption` (a chunk holds
any line, as the 1024 bytes of line 91 hold the header and the event lines of
the server; a line is at least one byte and its newline; a stream has a
header) and
`CounterAssumption` (run, chunk and allowance have a length, and times count
from long before the run). Sizes, byte counts, processes and callers are
otherwise arbitrary.

**MuonReadProofs.** `TypeCorrect`, `BufferNeverOverrun`, `ReadNeverEmpty`,
`WakeupNeverLost`, `PollAlwaysHonoured`. The safety invariants are not
inductive. `Inductive` is `TypeOK`, `BufferInBounds` and `Closed` (nobody is inside a closed device, and no
promise of `poll()` outlives it), `PastWait` (from the loop's last test to the
copy, data does not go away, because only this process removes any) and
`WakeupComing` and `PollKept` (`NoLostWakeup` and `PollHonoured` over the code's
own test `has_data` instead of over the stream). `DataUndelivered` shows that `HasData` and
`Undelivered # <<>>` are the same, which carries the invariants over.

`StreamImplemented` is the refinement: `Spec => ImplementsStream`, that is,
each step of the data path is a step of `EventStream` or none. The argument is
one lemma per kind of step: an interrupt appends a record (`BytesAppend`), or
drops it when the fifo alone holds `FifoSize` records; draining moves the first
record of the fifo behind the rest of the buffer (`BytesHead`) and leaves the
backlog as it is; filling changes nothing, since the buffer it resets is read
out; a copy takes a prefix of the rest of the buffer, and is the abstract read
of as many bytes (`SliceOfRest`, `SliceOfConcat`); a copy of nothing stutters.

**MuonSessionProofs.** `TypeCorrect`, `OneUser`, `EverythingGivenBack`,
`PinsAlwaysOutlive`, `ResetAlwaysToCome`, `MonitorNeverDies`,
`CountersNeverExceed`, `ClosedIsQuiet`. The core is
`HeldInv`: `held` is exactly what the place of the one process inside says it
is (a table: what is held before each step of `open()`, of each label and of
`release()`), and a process that is inside owns the mutex. From it all three
statements about resources follow. `HandlerHolds` (a running handler has its
interrupt line, since `free_irq` waits for it), `ResetToCome`, and `TimerKept`
(from `add_timer` until the process starts to release, the timer is pending or
its function is running) complete `Inductive`. `Accounted` is what makes
`CountersBounded` inductive: what is under way is not counted yet, so the
interrupts counted, the one the handler has taken and the pending one are
together no more than the events, and the missed ones with the one a timer
function has seen neither. `QuietInv` is behind `ClosedIsQuiet`: with nothing
left over, either the process that will free the interrupt and delete the timer
is there (`Attended`), or neither timer nor tasklet is under way; only `Attended`
states have the interrupt (`IrqAttended`), so nothing starts in the others.

**MuonDriverProofs.** `DriverImplementsRead`, `TypeCorrect`, `ExampleRunsOn`. The
modules of the two halves' proofs are instantiated, and `SameSession` and
`SameRead` show the instances to be the same formulas. Every step is then a step
of `MuonSession` or none (`SessionSteps`), which carries over its whole
invariant. From that, who is inside and what he holds say whether the data path
sees an open device: `ControlOpened` (only a failed `request_irq` and
`free_irq` close it, both without a running handler) and `IrqOpened` (wherever
the interrupt is requested the device is open) make every step one of
`MuonRead` or none (`ReadSteps`), which is the refinement and carries over the
invariant of `MuonRead`. `ReadsInv` says that the program's reads leave the
transfer buffer at whole records, from which `ExampleRunsOn` follows with
`NoFalseEof`.

`RecordsAlwaysCounted` needs one more invariant, `CountInv`, which adds up the
bytes returned, in the transfer buffer and in the fifo. An interrupt adds one
record, or none when the fifo is full, and then more have been counted than fit
(`PutKeepsCount`); the program's reads only move bytes (`ProgramKeepsTaken`).
`open()` resets the counters at its first step and the fifo at its seventh: in
between nothing is counted, because nobody has the interrupt (`EarlyQuiet`).

**MuonModuleProofs.** `TypeCorrect`, `RegistrationExact`, `ExitRunsAlone`,
`FilesOnDevice`. A table says what is registered before
each step of load, unwinding and unload; what a session holds comes from
`MuonSession`'s invariant, and nobody is inside unless the device was there when
he came in. `ExitRunsAlone` takes from `QuietInv` that nothing is left to run.

**EventServerProofs.** `TypeCorrect`, `DeviceGivenBack`, `ServersCanBeStopped`.
The types include that one server at most has the port, and that somebody is
being answered exactly while there is a client; neither holds without the other
(`PortInv`): whoever ends must not take another's client away. `Serial` is the
invariant of scripts that do not overlap: the one that runs knows, at each line
from which it would start a server or remove the pidfile, that no server lives.

**FindPositionProofs.** `TypeCorrect`, `PositionFound`, `RangeHalves`, for every
list length. The loop invariant `Decided` says that the item at `minInd` is not
larger, unless it is the first, and the item at `maxInd` is, unless it is the
last; with the list in ascending order that decides all items outside of the
two. `Middle` is the arithmetic of the middle of a range.

**LineSplitProofs.** `TypeCorrect`, `LinesNeverDropped`, `NothingAddedAtTheEnd`,
for streams of lines of any lengths and wherever the chunks end. `Start[l]` is
how many bytes are in front of line `l`, which says what byte is at each position
of the stream; the newlines of a chunk are therefore where the next lines start,
one after the other (`ChunkNewlines`), and what the code's split returns is one
event for each of them (`ChunkSplit`). The invariant `Reached` relates the three
parts of the state at each position: `d` lines were read to their end, all but
the header are events, and the spillover is the start of the line that the last
chunk ended in or, when it ended at a line end, a piece of some line before.
The last case is disagreement 3 of section 3, and the reason why
`NoLineDropped` allows a piece in front. What holds for each line is shown
by assuming a first line for which it does not hold (`LeastNatural`, from the
well-founded order of the natural numbers), also that the flattened stream, a
fold in the library, is the one with these bytes (`FlattenIsStream`).

**CoincidenceProofs.** `TypeCorrect`, `CoincidencesAreReal`,
`PairsInHandCounted`, `OldestTrimmed`, for runs, chunks and allowances of any
size. `Pending` says that a list is in strictly ascending order and that all
that arrived and is not in it is older than what is. It is kept by a merge,
because the events of a chunk are newer than all before them, and by the trim,
because that cuts the list at a position, whatever position the search returns;
`IsSuffix` of the sorted events follows (`PendingIsSuffix`). The first half of
the module is about sorting: the position of an element is the number of smaller
ones (`Rank`), so that what a sorted list holds and in which order is a matter of
cardinalities. `InHandCounted` holds because what stays in the lists after a turn
was in both of them when they were searched, and because the test of the window
is the same from either side (`FindsNear`).

**Only model-checked.** The liveness properties `SleeperReturns`,
`LatchRecovers`, `PulseAnswered`, `ServerComesBack` and `Ends`: the prover does
not handle liveness under fairness or ENABLED. Every other property of a passing
run is a theorem. The runs that show a disagreement are TLC's: a proof cannot
show that something is violated.

## 6. Not modelled

- The data behind `getnstimeofday`: two interrupts get different, increasing
  times. A clock that is set back would put records out of order outside the
  driver.
- Two threads that share one open file and read at once: nothing in the driver
  locks the buffer. README.md describes one process with the device.
- The direction of the pins, the validity of their numbers, sysfs reads,
  `printk`. Outside of `MuonDriver`, a write to `sysfs_pulse` is an event of the
  latch like any other.
- The use of the device through files that a failed load has taken away, and
  what runs in freed code: `MuonModule` stops there.
- A pid that is used again by another program: `ps -p` would find it and `start`
  would say "already running". The time between the fork inside
  `start-stop-daemon` and the pidfile it writes. A stop that fails after TERM and
  KILL. The server's configuration, its HEAD and POST answers, its log.
- What of the counter is floating point: line 61 divides nanoseconds by 1000 as
  floats and so rounds up from 875 ns on; with whole microseconds it does not
  matter. The plot, the log, and the files after `LineSplit`'s exception.
- `StreamReader` and its threads and `timespec.py`: no program of the repository
  uses them. `logger.py`, `install.sh` and `counter_start.sh` are input and
  output only.

## 7. Plan

Done: the driver in its two halves, composed, and inside its module; the server
and its script; the algorithms of the counter; the theorems above.

What would come next: the counter and two servers composed, with a server that
restarts in the middle of a stream; two threads on one open file.
