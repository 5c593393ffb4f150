------------------------------ MODULE MuonRead ------------------------------
(***************************************************************************)
(* The data path of the muon_timer driver: the interrupt handler puts a    *)
(* timestamp in the kfifo and schedules a tasklet, the tasklet wakes the   *)
(* sleeping reader, and read() moves records from the kfifo through a      *)
(* transfer buffer to user space, any number of bytes at a time.           *)
(*                                                                         *)
(* Handler, tasklet and reader run on any processor, so every point where  *)
(* another of them can see or change shared state ends a step.  Only the   *)
(* process that opened the device reads it, one call at a time.            *)
(***************************************************************************)
EXTENDS Integers, Sequences

CONSTANTS FifoSize,   \* MUON_TIMER_FIFO_SIZE, in records
          BufSize,    \* BUFSIZE, in bytes
          TsSize,     \* sizeof(struct timespec)
          Counts,     \* byte counts a read may ask for
          MaxEvents   \* bound on the number of interrupts

\* One record must fit below the end of the transfer buffer, or no read could
\* return anything.
ASSUME ReadAssumption ==
  /\ FifoSize \in Nat \ {0}
  /\ TsSize \in Nat \ {0}
  /\ BufSize \in Nat /\ BufSize > TsSize
  /\ Counts \subseteq Nat
  /\ MaxEvents \in Nat

VARIABLES
  clock,      \* getnstimeofday: the time of the newest interrupt
  opened,     \* a process has the device open
  fifo,       \* muon_timer_fifo, a sequence of timestamps
  buffer,     \* the bytes of buffer[0 .. writep)
  readp,      \* bytes of it already returned
  handler,    \* "schedule" between kfifo_put and tasklet_schedule
  scheduled,  \* the tasklet is scheduled
  tasklet,    \* "wake" from the start of the tasklet to wake_up
  reader,     \* where the process is
  call,       \* the system call it is in
  waiting,    \* it is on read_queue and not yet woken
  readable,   \* its last poll reported data it has not read yet
  received    \* bytes its reads have returned in this session

dataVars == <<fifo, buffer, readp>>
irqVars == <<handler, scheduled, tasklet>>
vars == <<clock, opened, dataVars, irqVars, reader, call, waiting, readable, received>>

NoCall == [op |-> "none", count |-> 0, nonblock |-> FALSE]
Calls == [op : {"read", "poll"}, count : Counts, nonblock : BOOLEAN]

\* The bytes of the timestamp e: byte b of e is the pair <<e, b>>.
Record(e) == [b \in 1..TsSize |-> <<e, b>>]

\* has_data() if the buffer were tested with >= instead of >.
HasDataOffByOne == Len(buffer) >= readp \/ fifo # <<>>

\* has_data() if it forgot what an earlier, shorter read left in the buffer.
HasDataFifoOnly == fifo # <<>>

HasData == Len(buffer) > readp \/ fifo # <<>>

Init ==
  /\ clock = 0
  /\ opened = FALSE
  /\ fifo = <<>> /\ buffer = <<>> /\ readp = 0
  /\ handler = "idle" /\ scheduled = FALSE /\ tasklet = "idle"
  /\ reader = "user" /\ call = NoCall
  /\ waiting = FALSE /\ readable = FALSE
  /\ received = <<>>

-----------------------------------------------------------------------------
(* Open and release, as far as the data path goes.  The interrupt is not   *)
(* requested while the fifo is reset, and release waits in free_irq for    *)
(* the handler; the tasklet it may have scheduled is not waited for.       *)

\* open() without `writep = readp = buffer`.
OpenKeepsBuffer ==
  /\ ~opened /\ opened' = TRUE
  /\ fifo' = <<>>
  /\ received' = <<>>
  /\ UNCHANGED <<clock, buffer, readp, irqVars, reader, call, waiting, readable>>

Open ==
  /\ ~opened /\ opened' = TRUE
  /\ fifo' = <<>> /\ buffer' = <<>> /\ readp' = 0
  /\ received' = <<>>
  /\ UNCHANGED <<clock, irqVars, reader, call, waiting, readable>>

Release ==
  /\ opened /\ reader = "user" /\ handler = "idle"
  /\ opened' = FALSE
  /\ readable' = FALSE
  /\ UNCHANGED <<clock, dataVars, irqVars, reader, call, waiting, received>>

-----------------------------------------------------------------------------
(* The interrupt handler and the tasklet.                                  *)

\* kfifo_put without its test for a full ring.
PutUnchecked(e) == fifo' = Append(fifo, e)

\* kfifo_put: a full fifo keeps what it has and the new record is dropped.
Put(e) == fifo' = IF Len(fifo) < FifoSize THEN Append(fifo, e) ELSE fifo

Interrupt ==
  /\ opened /\ handler = "idle" /\ clock < MaxEvents
  /\ clock' = clock + 1
  /\ Put(clock')
  /\ handler' = "schedule"
  /\ UNCHANGED <<opened, buffer, readp, scheduled, tasklet, reader, call, waiting,
                 readable, received>>

\* tasklet_schedule: scheduling a scheduled tasklet changes nothing.
HandlerSchedule ==
  /\ handler = "schedule"
  /\ handler' = "idle"
  /\ scheduled' = TRUE
  /\ UNCHANGED <<clock, opened, dataVars, tasklet, reader, call, waiting, readable,
                 received>>

\* The scheduled mark is taken off before the tasklet runs, so an interrupt
\* from here on schedules it again.
TaskletRun ==
  /\ scheduled /\ tasklet = "idle"
  /\ scheduled' = FALSE
  /\ tasklet' = "wake"
  /\ UNCHANGED <<clock, opened, dataVars, handler, reader, call, waiting, readable,
                 received>>

\* wake_up_interruptible(&read_queue)
TaskletWake ==
  /\ tasklet = "wake"
  /\ tasklet' = "idle"
  /\ waiting' = FALSE
  /\ UNCHANGED <<clock, opened, dataVars, handler, scheduled, reader, call, readable,
                 received>>

-----------------------------------------------------------------------------
(* The reading process.                                                    *)

\* The reader goes from one place to the next and keeps its call.
Goto(from, to) ==
  /\ reader = from
  /\ reader' = to
  /\ UNCHANGED <<clock, opened, irqVars, call>>

\* The call returns to user space.
Return(from) ==
  /\ reader = from
  /\ reader' = "user"
  /\ call' = NoCall
  /\ UNCHANGED <<clock, opened, irqVars>>

\* A process calls read() or poll(); poll goes straight to registering on the
\* wait queue, and with nonblock it has a timeout of zero.
Call(c) ==
  /\ opened /\ reader = "user"
  /\ call' = c
  /\ reader' = IF c.op = "read" THEN "test" ELSE "prepare"
  /\ UNCHANGED <<clock, opened, dataVars, irqVars, waiting, readable, received>>

\* while( !has_data() ): a read goes on with data, fails with EAGAIN when it
\* may not block, and otherwise waits.
Test ==
  /\ \/ HasData /\ Goto("test", "fill")
     \/ ~HasData /\ call.nonblock /\ Return("test")
     \/ ~HasData /\ ~call.nonblock /\ Goto("test", "prepare")
  /\ UNCHANGED <<dataVars, waiting, readable, received>>

\* A wait that joins the queue and sleeps on the strength of the loop's test.
PrepareAsleep ==
  /\ Goto("prepare", "asleep")
  /\ waiting' = TRUE
  /\ UNCHANGED <<dataVars, readable, received>>

\* prepare_to_wait of wait_event_interruptible, and poll_wait: join the queue.
Prepare ==
  /\ Goto("prepare", "recheck")
  /\ waiting' = TRUE
  /\ UNCHANGED <<dataVars, readable, received>>

\* Test the condition again, now on the queue.  With data, a read leaves the
\* queue for the loop's own test and a poll reports POLLIN; without, the
\* process sleeps, unless it polls with no timeout.
Recheck ==
  /\ \/ HasData /\ waiting' = FALSE
        /\ IF call.op = "read" THEN Goto("recheck", "test") /\ UNCHANGED readable
                               ELSE Return("recheck") /\ readable' = TRUE
     \/ ~HasData /\ ~call.nonblock /\ Goto("recheck", "asleep")
        /\ UNCHANGED <<waiting, readable>>
     \/ ~HasData /\ call.nonblock /\ Return("recheck") /\ waiting' = FALSE
        /\ UNCHANGED readable
  /\ UNCHANGED <<dataVars, received>>

\* schedule() returns once the process was woken; it then waits again.
Woken ==
  /\ ~waiting /\ Goto("asleep", "prepare")
  /\ UNCHANGED <<dataVars, waiting, readable, received>>

\* A signal ends the wait with ERESTARTSYS; a poll may also time out.
Interrupted ==
  /\ Return("asleep")
  /\ waiting' = FALSE
  /\ UNCHANGED <<dataVars, readable, received>>

\* A buffer that is read out is reset before it is filled again.
Fill ==
  /\ IF readp = Len(buffer)
     THEN Goto("fill", "drain") /\ buffer' = <<>> /\ readp' = 0
     ELSE Goto("fill", "copy") /\ UNCHANGED <<buffer, readp>>
  /\ UNCHANGED <<fifo, waiting, readable, received>>

\* The overflow test without the size of the record about to be written.
NoRoomStartsOnly == Len(buffer) > BufSize

\* writep + sizeof(struct timespec) - buffer >= BUFSIZE
NoRoom == Len(buffer) + TsSize >= BufSize

\* One turn of the loop that drains the fifo: kfifo_get cannot fail, as
\* nothing but this reader takes records out.
Drain ==
  /\ IF fifo = <<>> \/ NoRoom
     THEN Goto("drain", "copy") /\ UNCHANGED <<fifo, buffer>>
     ELSE /\ reader = "drain"
          /\ buffer' = buffer \o Record(Head(fifo))
          /\ fifo' = Tail(fifo)
          /\ UNCHANGED <<clock, opened, irqVars, reader, call>>
  /\ UNCHANGED <<readp, waiting, readable, received>>

Smaller(m, n) == IF m < n THEN m ELSE n

\* copy_to_user of the next min(count, writep-readp) bytes.
Copy ==
  LET n == Smaller(call.count, Len(buffer) - readp)
  IN  /\ Return("copy")
      /\ readp' = readp + n
      /\ received' = received \o SubSeq(buffer, readp + 1, readp + n)
      /\ readable' = FALSE
      /\ UNCHANGED <<fifo, buffer, waiting>>

\* copy_to_user fails: EFAULT, and readp stays where it was.
CopyFails ==
  /\ Return("copy")
  /\ UNCHANGED <<dataVars, waiting, readable, received>>

-----------------------------------------------------------------------------
HandlerOrTasklet == HandlerSchedule \/ TaskletRun \/ TaskletWake

\* The steps a process in a system call takes by itself.
ReaderStep == Test \/ Prepare \/ Recheck \/ Woken \/ Fill \/ Drain \/ Copy \/ CopyFails

Next ==
  \/ Open \/ Release
  \/ Interrupt \/ HandlerOrTasklet
  \/ \E c \in Calls : Call(c)
  \/ ReaderStep \/ Interrupted

Spec == Init /\ [][Next]_vars

\* The kernel runs a handler it has entered, a tasklet it has scheduled and a
\* runnable process.  Nothing makes an interrupt, a call or a signal happen.
Fairness ==
  /\ WF_vars(HandlerSchedule)
  /\ WF_vars(TaskletRun)
  /\ WF_vars(TaskletWake)
  /\ WF_vars(ReaderStep)

FairSpec == Spec /\ Fairness

-----------------------------------------------------------------------------
(* Properties.                                                             *)

\* The bytes of the records of s, one record after the other.
Bytes(s) ==
  [k \in 1..(TsSize * Len(s)) |-> <<s[(k - 1) \div TsSize + 1], ((k - 1) % TsSize) + 1>>]

\* What has been taken in and not yet returned: the rest of the transfer
\* buffer and then the fifo.
Undelivered == SubSeq(buffer, readp + 1, Len(buffer)) \o Bytes(fifo)

\* Every variable has its type and the fifo its bound.
TypeOK ==
  /\ clock \in 0..MaxEvents
  /\ opened \in BOOLEAN
  /\ fifo \in Seq(1..MaxEvents) /\ Len(fifo) <= FifoSize
  /\ buffer \in Seq((1..MaxEvents) \X (1..TsSize))
  /\ readp \in 0..Len(buffer)
  /\ handler \in {"idle", "schedule"}
  /\ scheduled \in BOOLEAN
  /\ tasklet \in {"idle", "wake"}
  /\ reader \in {"user", "test", "prepare", "recheck", "asleep", "fill", "drain", "copy"}
  /\ call \in Calls \cup {NoCall}
  /\ waiting \in BOOLEAN
  /\ readable \in BOOLEAN
  /\ received \in Seq((1..MaxEvents) \X (1..TsSize))

\* The drain loop never writes a record across the end of the transfer buffer
\* (lines 422-438), however many records arrive while it runs.
BufferInBounds == Len(buffer) <= BufSize

\* A read that got past its wait has at least one byte to return (lines
\* 412-456): it can never return 0, which its callers take for end of file.
NoFalseEof == reader = "copy" => Len(buffer) > readp

\* A process sleeps on read_queue with data to read only while a wake_up is
\* still to come: from the handler that is about to schedule the tasklet, from
\* the scheduled tasklet, or from the running one (lines 105-141, 404).
NoLostWakeup ==
  reader = "asleep" /\ waiting /\ Undelivered # <<>> =>
    handler = "schedule" \/ scheduled \/ tasklet = "wake"

\* Once poll() has reported the device readable, it stays readable until the
\* process reads: the read that follows neither blocks nor fails with EAGAIN
\* (lines 371-385).
PollHonoured == readable => Undelivered # <<>>

Stream == INSTANCE EventStream WITH backlog <- Undelivered

\* The data path implements the abstract stream: records enter whole and only
\* at the end, may be dropped only while FifoSize of them are unread, and a
\* read returns exactly the next bytes (README.md lines 33-34: "a FIFO of
\* binary struct timespec objects").
ImplementsStream == Stream!StreamSpec

\* A sleeping reader for whom there is data returns to user space.
SleeperReturns == (reader = "asleep" /\ Undelivered # <<>>) ~> (reader = "user")
=============================================================================
