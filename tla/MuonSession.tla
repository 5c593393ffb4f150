---------------------------- MODULE MuonSession ----------------------------
(***************************************************************************)
(* The control path of the muon_timer driver: opening and releasing the    *)
(* device, the input latch and its interrupt, the tasklet that resets the  *)
(* latch, and the timer that watches for lost interrupts.                  *)
(*                                                                         *)
(* Handler, tasklet, timer and process interleave as they do on a board    *)
(* with several processors.  What the timestamps and the read queue do is  *)
(* in MuonRead.                                                            *)
(***************************************************************************)
EXTENDS Integers, Sequences

CONSTANTS Procs,     \* processes that may open the device
          MayFail,   \* the acquisitions of open() that may fail
          MaxEvents  \* bound on the number of times the latch is set

Pins == {"gpio_reset", "gpio_pulse", "gpio_input"}
Files == {"sysfs_reset", "sysfs_pulse", "sysfs_input"}
Resources == {"mutex", "irq"} \cup Pins \cup Files

\* What open() acquires between locking the mutex and arming the timer.
OpenPlan == <<"gpio_reset", "gpio_pulse", "gpio_input",
              "sysfs_reset", "sysfs_pulse", "sysfs_input">>

\* What the chain of labels at the end of open() gives back, in its order.
UnwindPlan == <<"sysfs_input", "sysfs_pulse", "sysfs_reset",
                "gpio_input", "gpio_pulse", "gpio_reset", "mutex">>

\* A label too late in the chain for a failed request of gpio_input.
UnwindFromSkipsOne ==
  [irq |-> 1, sysfs_input |-> 2, sysfs_pulse |-> 3, sysfs_reset |-> 4,
   gpio_input |-> 6, gpio_pulse |-> 6, gpio_reset |-> 7]

\* Where the goto of each failed acquisition enters that chain.
UnwindFrom ==
  [irq |-> 1, sysfs_input |-> 2, sysfs_pulse |-> 3, sysfs_reset |-> 4,
   gpio_input |-> 5, gpio_pulse |-> 6, gpio_reset |-> 7]

\* A release() that unlocks the mutex before it frees the pins.
ReleasePlanUnlocksEarly ==
  <<"irq", "timer", "sysfs_input", "sysfs_pulse", "sysfs_reset",
    "mutex", "gpio_input", "gpio_pulse", "gpio_reset">>

\* A release() that frees the pins while their interrupt is still requested.
ReleasePlanIrqLast ==
  <<"timer", "sysfs_input", "sysfs_pulse", "sysfs_reset",
    "gpio_input", "gpio_pulse", "gpio_reset", "irq", "mutex">>

\* What release() gives back, in its order.
ReleasePlan ==
  <<"irq", "timer", "sysfs_input", "sysfs_pulse", "sysfs_reset",
    "gpio_input", "gpio_pulse", "gpio_reset", "mutex">>

ASSUME SessionAssumption == MayFail \subseteq DOMAIN UnwindFrom /\ MaxEvents \in Nat

VARIABLES
  events,     \* how often the latch was set
  latch,      \* the input: "low", or high with its interrupt still to come
              \* ("new"), taken by the handler ("seen") or never coming ("missed")
  edge,       \* the interrupt controller has the interrupt pending
  handler,    \* the next thing the running handler does after its kfifo_put
  scheduled,  \* the tasklet is scheduled
  tasklet,    \* the next thing the running tasklet does
  armed,      \* the timer is pending
  timer,      \* the next thing the running timer function does
  held,       \* resources acquired
  at,         \* where each process is in open() or release()
  curInts, curMissed, totInts, totMissed,
  leftover    \* history: a process gave the device up with the timer armed, or
              \* with a tasklet under way that will arm it

latchVars == <<events, latch, edge>>
softVars == <<handler, scheduled, tasklet>>
timerVars == <<armed, timer, leftover>>
counters == <<curInts, curMissed, totInts, totMissed>>
vars == <<latchVars, softVars, timerVars, held, at, counters>>

Out == [phase |-> "out", step |-> 1]
Inside(p) == at[p].phase # "out"
IsOpen(p) == at[p].phase = "in"
Move(p, phase, step) == at' = [at EXCEPT ![p] = [phase |-> phase, step |-> step]]
Advance(p) == Move(p, at[p].phase, at[p].step + 1)

\* A handler or a tasklet is under way, or is to come.
SoftWork == handler # "idle" \/ scheduled \/ tasklet # "idle"

\* When the module is loaded the latch may hold an old event, which raised no
\* interrupt.
Init ==
  /\ events \in {0, 1} \cap 0..MaxEvents
  /\ latch = IF events = 0 THEN "low" ELSE "missed"
  /\ edge = FALSE
  /\ handler = "idle" /\ scheduled = FALSE /\ tasklet = "idle"
  /\ armed = FALSE /\ timer = "idle"
  /\ held = {}
  /\ at = [p \in Procs |-> Out]
  /\ curInts = 0 /\ curMissed = 0 /\ totInts = 0 /\ totMissed = 0
  /\ leftover = FALSE

-----------------------------------------------------------------------------
(* open(): one step per acquisition.  An open for writing, or while another *)
(* process holds the mutex, fails and changes nothing.                      *)

\* mutex_trylock, and the accounting of the session starts at 0.  A timer left
\* over by the session before may be incrementing cur_missed meanwhile, and then
\* overwrites the 0 with what it read.
OpenLock(p) ==
  /\ ~Inside(p) /\ "mutex" \notin held
  /\ held' = held \cup {"mutex"}
  /\ Move(p, "open", 1)
  /\ curInts' = 0
  /\ \/ curMissed' = 0
     \/ timer = "count" /\ UNCHANGED curMissed
  /\ UNCHANGED <<latchVars, softVars, timerVars, totInts, totMissed>>

\* A failed acquisition jumps into the chain of labels.
Fail(p, r) ==
  /\ r \in MayFail
  /\ Move(p, "unwind", UnwindFrom[r])
  /\ UNCHANGED held

\* gpio_request or device_create_file.
OpenAcquire(p) ==
  /\ at[p].phase = "open" /\ at[p].step \in DOMAIN OpenPlan
  /\ LET r == OpenPlan[at[p].step]
     IN  \/ held' = held \cup {r} /\ Advance(p)
         \/ Fail(p, r)
  /\ UNCHANGED <<latchVars, softVars, timerVars, counters>>

\* add_timer.  The kernel stops the process, mutex and all, when the timer is
\* already pending.
OpenTimer(p) ==
  /\ at[p] = [phase |-> "open", step |-> Len(OpenPlan) + 1]
  /\ armed' = TRUE
  /\ IF armed THEN Move(p, "dead", 1) ELSE Advance(p)
  /\ UNCHANGED <<latchVars, softVars, timer, leftover, held, counters>>

\* request_irq: a latch that is already high raises no edge.  No label deletes
\* the timer when it fails.
OpenIrq(p) ==
  /\ at[p] = [phase |-> "open", step |-> Len(OpenPlan) + 2]
  /\ \/ held' = held \cup {"irq"} /\ Advance(p) /\ UNCHANGED leftover
     \/ Fail(p, "irq") /\ leftover' = TRUE
  /\ UNCHANGED <<latchVars, softVars, armed, timer, counters>>

\* The initial reset, and open() returns 0.
OpenReset(p) ==
  /\ at[p] = [phase |-> "open", step |-> Len(OpenPlan) + 3]
  /\ latch' = "low"
  /\ Move(p, "in", 1)
  /\ UNCHANGED <<events, edge, softVars, timerVars, held, counters>>

\* The chain of labels without the return at its end.
UnwindRunsOn(p) ==
  /\ at[p].phase = "unwind"
  /\ held' = held \ {UnwindPlan[at[p].step]}
  /\ Advance(p)
  /\ UNCHANGED <<latchVars, softVars, timerVars, counters>>

\* One label of the chain, which falls through to the next.
Unwind(p) ==
  /\ at[p].phase = "unwind"
  /\ held' = held \ {UnwindPlan[at[p].step]}
  /\ IF at[p].step = Len(UnwindPlan) THEN Move(p, "out", 1) ELSE Advance(p)
  /\ UNCHANGED <<latchVars, softVars, timerVars, counters>>

-----------------------------------------------------------------------------
(* release(): free_irq and del_timer_sync wait for the handler and for the *)
(* timer function; neither waits for the tasklet.                          *)

ReleaseStart(p) ==
  /\ IsOpen(p)
  /\ Move(p, "release", 1)
  /\ UNCHANGED <<latchVars, softVars, timerVars, held, counters>>

Releasing(p, what) ==
  /\ at[p].phase = "release" /\ ReleasePlan[at[p].step] = what
  /\ IF at[p].step = Len(ReleasePlan) THEN Move(p, "out", 1) ELSE Advance(p)

\* free_irq: an interrupt still pending is dropped with the line.
ReleaseIrq(p) ==
  /\ Releasing(p, "irq")
  /\ handler = "idle"
  /\ held' = held \ {"irq"}
  /\ edge' = FALSE
  /\ latch' = IF latch = "new" THEN "missed" ELSE latch
  /\ UNCHANGED <<events, softVars, timerVars, counters>>

\* del_timer, which does not wait for the timer function.
ReleaseTimerAsync(p) ==
  /\ Releasing(p, "timer")
  /\ armed' = FALSE
  /\ leftover' = (scheduled \/ tasklet # "idle")
  /\ UNCHANGED <<latchVars, softVars, timer, held, counters>>

\* del_timer_sync
ReleaseTimer(p) ==
  /\ Releasing(p, "timer")
  /\ timer = "idle"
  /\ armed' = FALSE
  /\ leftover' = (scheduled \/ tasklet # "idle")
  /\ UNCHANGED <<latchVars, softVars, timer, held, counters>>

\* device_remove_file, gpio_free and mutex_unlock.
ReleaseRest(p) ==
  /\ \E r \in Resources \ {"irq"} : Releasing(p, r) /\ held' = held \ {r}
  /\ UNCHANGED <<latchVars, softVars, timerVars, counters>>

-----------------------------------------------------------------------------
(* The latch and the interrupt.                                            *)

\* A muon, or a pulse on the test output wired to the input, sets the latch.
\* With the interrupt requested the rising edge becomes pending; the hardware
\* may lose it, which is what the driver's timer is there for.  A second event
\* on a high latch has no effect and is no step.
LatchSet ==
  /\ latch = "low" /\ events < MaxEvents
  /\ events' = events + 1
  /\ \/ "irq" \in held /\ edge' = TRUE /\ latch' = "new"
     \/ UNCHANGED edge /\ latch' = "missed"
  /\ UNCHANGED <<softVars, timerVars, held, at, counters>>

\* The handler takes the interrupt and its timestamp.
HandlerPut ==
  /\ edge /\ "irq" \in held /\ handler = "idle"
  /\ edge' = FALSE
  /\ latch' = IF latch = "new" THEN "seen" ELSE latch
  /\ handler' = "schedule"
  /\ UNCHANGED <<events, scheduled, tasklet, timerVars, held, at, counters>>

\* A handler that leaves the scheduling to a tasklet that is still running.
HandlerScheduleIdle ==
  /\ handler = "schedule"
  /\ handler' = "count"
  /\ scheduled' = (scheduled \/ tasklet = "idle")
  /\ UNCHANGED <<latchVars, tasklet, timerVars, held, at, counters>>

\* tasklet_schedule
HandlerSchedule ==
  /\ handler = "schedule"
  /\ handler' = "count"
  /\ scheduled' = TRUE
  /\ UNCHANGED <<latchVars, tasklet, timerVars, held, at, counters>>

\* ++cur_ints and ++tot_ints are two statements.
HandlerCount ==
  /\ handler = "count"
  /\ handler' = "total"
  /\ curInts' = curInts + 1
  /\ UNCHANGED <<latchVars, scheduled, tasklet, timerVars, held, at, curMissed, totInts, totMissed>>

HandlerTotal ==
  /\ handler = "total"
  /\ handler' = "idle"
  /\ totInts' = totInts + 1
  /\ UNCHANGED <<latchVars, scheduled, tasklet, timerVars, held, at, curInts, curMissed, totMissed>>

\* sys_reset: the reset line may be pulsed by a write to its sysfs file.
SysReset ==
  /\ "sysfs_reset" \in held
  /\ latch' = "low"
  /\ UNCHANGED <<events, edge, softVars, timerVars, held, at, counters>>

-----------------------------------------------------------------------------
(* The tasklet: reset the latch, wake the reader, put the timer off.       *)

TaskletRun ==
  /\ scheduled /\ tasklet = "idle"
  /\ scheduled' = FALSE
  /\ tasklet' = "pulse"
  /\ UNCHANGED <<latchVars, handler, timerVars, held, at, counters>>

TaskletPulse ==
  /\ tasklet = "pulse"
  /\ tasklet' = "wake"
  /\ latch' = "low"
  /\ UNCHANGED <<events, edge, handler, scheduled, timerVars, held, at, counters>>

TaskletWake ==
  /\ tasklet = "wake"
  /\ tasklet' = "rearm"
  /\ UNCHANGED <<latchVars, handler, scheduled, timerVars, held, at, counters>>

TaskletRearm ==
  /\ tasklet = "rearm"
  /\ tasklet' = "idle"
  /\ armed' = TRUE
  /\ UNCHANGED <<latchVars, handler, scheduled, timer, leftover, held, at, counters>>

-----------------------------------------------------------------------------
(* The timer that watches for lost interrupts.                             *)

TimerExpire ==
  /\ armed /\ timer = "idle"
  /\ armed' = FALSE
  /\ timer' = "test"
  /\ UNCHANGED <<latchVars, softVars, leftover, held, at, counters>>

\* A timer function that returns at once when the input is low.
TimerTestReturns ==
  /\ timer = "test"
  /\ timer' = IF latch = "low" THEN "idle" ELSE "reset"
  /\ UNCHANGED <<latchVars, softVars, armed, leftover, held, at, counters>>

\* gpio_get_value(gpio_input)
TimerTest ==
  /\ timer = "test"
  /\ timer' = IF latch = "low" THEN "rearm" ELSE "reset"
  /\ UNCHANGED <<latchVars, softVars, armed, leftover, held, at, counters>>

\* A timer function that counts and leaves the latch as it is.
TimerResetForgets ==
  /\ timer = "reset"
  /\ timer' = "count"
  /\ UNCHANGED <<latchVars, softVars, armed, leftover, held, at, counters>>

TimerReset ==
  /\ timer = "reset"
  /\ timer' = "count"
  /\ latch' = "low"
  /\ UNCHANGED <<events, edge, softVars, armed, leftover, held, at, counters>>

\* ++cur_missed and ++tot_missed are two statements.
TimerCount ==
  /\ timer = "count"
  /\ timer' = "total"
  /\ curMissed' = curMissed + 1
  /\ UNCHANGED <<latchVars, softVars, armed, leftover, held, at, curInts, totInts, totMissed>>

TimerTotal ==
  /\ timer = "total"
  /\ timer' = "rearm"
  /\ totMissed' = totMissed + 1
  /\ UNCHANGED <<latchVars, softVars, armed, leftover, held, at, curInts, curMissed, totInts>>

TimerRearm ==
  /\ timer = "rearm"
  /\ timer' = "idle"
  /\ armed' = TRUE
  /\ UNCHANGED <<latchVars, softVars, leftover, held, at, counters>>

-----------------------------------------------------------------------------
ProcessStep(p) ==
  \/ OpenLock(p) \/ OpenAcquire(p) \/ OpenTimer(p) \/ OpenIrq(p) \/ OpenReset(p)
  \/ Unwind(p)
  \/ ReleaseStart(p) \/ ReleaseIrq(p) \/ ReleaseTimer(p) \/ ReleaseRest(p)

Tasklet == TaskletRun \/ TaskletPulse \/ TaskletWake \/ TaskletRearm
Handler == HandlerPut \/ HandlerSchedule \/ HandlerCount \/ HandlerTotal
TimerFunction == TimerTest \/ TimerReset \/ TimerCount \/ TimerTotal \/ TimerRearm

Next ==
  \/ \E p \in Procs : ProcessStep(p)
  \/ LatchSet \/ SysReset
  \/ Handler \/ Tasklet \/ TimerExpire \/ TimerFunction

Spec == Init /\ [][Next]_vars

\* Each run of the tasklet puts the timer off, so all the kernel promises is
\* that the timer expires once there are no interrupts for long enough.
QuietExpire == ~edge /\ ~SoftWork /\ TimerExpire

\* Pending interrupts, scheduled tasklets and running functions are served.
\* Nothing makes a process open or release, or an event happen.
Fairness ==
  /\ WF_vars(Handler)
  /\ WF_vars(Tasklet)
  /\ WF_vars(TimerFunction)
  /\ WF_vars(QuietExpire)

FairSpec == Spec /\ Fairness

-----------------------------------------------------------------------------
(* Properties.                                                             *)

\* The places of a process: a phase, and how far it is in the phase's plan.
Places ==
  [phase : {"out", "in", "dead"}, step : {1}]
    \cup [phase : {"open"}, step : 1..(Len(OpenPlan) + 3)]
    \cup [phase : {"unwind"}, step : 1..Len(UnwindPlan)]
    \cup [phase : {"release"}, step : 1..Len(ReleasePlan)]

\* Every variable has its type, and no process runs past the end of its plan.
TypeOK ==
  /\ events \in 0..MaxEvents
  /\ latch \in {"low", "new", "seen", "missed"}
  /\ edge \in BOOLEAN
  /\ handler \in {"idle", "schedule", "count", "total"}
  /\ scheduled \in BOOLEAN
  /\ tasklet \in {"idle", "pulse", "wake", "rearm"}
  /\ armed \in BOOLEAN
  /\ timer \in {"idle", "test", "reset", "count", "total", "rearm"}
  /\ held \subseteq Resources
  /\ at \in [Procs -> Places]
  /\ curInts \in Nat /\ curMissed \in Nat /\ totInts \in Nat /\ totMissed \in Nat
  /\ leftover \in BOOLEAN

\* At most one process is between locking and unlocking the mutex, whatever
\* mixture of opens, failed opens and releases led here (README.md lines 34-35:
\* "Only one process may be accessing the device at any time").
SoleUser == \A p, q \in Procs : Inside(p) /\ Inside(q) => p = q

\* With no process inside, nothing is acquired: open() that failed anywhere
\* gave back exactly what it had, and release() gave back everything.
NothingLeaked == (\A p \in Procs : ~Inside(p)) => held = {}

\* The interrupt, and a handler that is running, are only there while the pins
\* are; the same for each sysfs file and its pin (open and release order).
PinsOutliveUsers ==
  /\ "irq" \in held \/ handler # "idle" => Pins \subseteq held
  /\ "sysfs_reset" \in held => "gpio_reset" \in held
  /\ "sysfs_pulse" \in held => "gpio_pulse" \in held
  /\ "sysfs_input" \in held => "gpio_input" \in held

\* A latch that is high has its reset on the way, unless the hardware lost its
\* interrupt: the interrupt is pending, or the handler that took it, or the
\* tasklet, has yet to run (lines 105-141).  Only a lost interrupt needs the
\* timer.
ResetToCome ==
  /\ latch = "new" => edge /\ "irq" \in held
  /\ latch = "seen" => handler = "schedule" \/ scheduled \/ tasklet = "pulse"

\* While the device is open the interrupt loss monitor never dies: the timer is
\* pending, or its function is running and will make it so.
MonitorAlive == \A p \in Procs : IsOpen(p) => armed \/ timer # "idle"

\* An open device never stays deaf: a latch that is high is reset, even when
\* its interrupt was lost and the latch can raise no other.
LatchRecovers ==
  \A p \in Procs : (IsOpen(p) /\ latch # "low") ~> (latch = "low" \/ ~IsOpen(p))

\* Outside open and release the timer is not pending.  Line 310 says that a
\* failed open will "unwind correctly on error", line 341 that release will
\* "remove timer".
TimerOnlyWhileInside == (\A p \in Procs : ~Inside(p)) => ~armed

\* Nothing of the driver is left to run once it is closed, and no open() ever
\* finds the timer pending, which would stop its process: not after any session
\* that ended without a tasklet under way, nor after any failure of open() but
\* that of request_irq (lines 291-316, 337-343).
QuietUnlessLeftOver ==
  ~leftover =>
    /\ \A p \in Procs : at[p].phase # "dead"
    /\ (\A p \in Procs : ~Inside(p)) => ~(armed \/ timer # "idle" \/ SoftWork)

\* The counters never claim more than there was: no event is two interrupts or
\* two missed ones, whoever else resets the latch between the timer's test and
\* its pulse, and a session has no more than the totals but for the one that is
\* just being added (lines 93-97, 135-136).  One event may well be in both
\* totals: the input is high between the handler and the tasklet's pulse, too.
CountersBounded ==
  /\ curInts <= totInts + (IF handler = "total" THEN 1 ELSE 0) /\ totInts <= events
  /\ curMissed <= totMissed + (IF timer = "total" THEN 1 ELSE 0) /\ totMissed <= events
=============================================================================
