----------------------------- MODULE MuonModule -----------------------------
(***************************************************************************)
(* Loading and unloading the muon_timer module, around the sessions of     *)
(* MuonSession.  The device node is there before muon_timer_init has       *)
(* ended, so processes may be inside while the rest of it runs, or fails.  *)
(* The kernel lets nobody unload a module in use and nobody open a device  *)
(* of a module that is being unloaded, as binary_fops names its owner; a   *)
(* failed load waits for no one.                                           *)
(***************************************************************************)
EXTENDS Integers, Sequences, SequencesExt

CONSTANTS Procs, MayFail, MaxEvents,  \* as in MuonSession
          LoadMayFail                 \* the steps of muon_timer_init that may fail

VARIABLES
  events, latch, edge, handler, scheduled, tasklet, armed, timer, held, at,
  curInts, curMissed, totInts, totMissed, leftover,
  load,        \* where muon_timer_init or muon_timer_exit is
  registered   \* what the module has registered with the kernel

sessionVars == <<events, latch, edge, handler, scheduled, tasklet, armed, timer, held, at,
                 curInts, curMissed, totInts, totMissed, leftover>>
vars == <<sessionVars, load, registered>>

Session == INSTANCE MuonSession

\* What muon_timer_init registers, in its order: class, character device,
\* device, and the files of the four counters.
InitPlan == <<"class", "chrdev", "device",
              "current_interrupts", "current_missed", "total_interrupts", "total_missed">>

\* The labels at the end of muon_timer_init.
UnwindPlan == <<"total_interrupts", "current_missed", "current_interrupts",
                "device", "chrdev", "class">>

\* A failed file goes on with the label of the file before it.
UnwindFromSkipsOne ==
  [total_missed |-> 2, total_interrupts |-> 3, current_missed |-> 4,
   current_interrupts |-> 4, device |-> 5, chrdev |-> 6, class |-> 7]

\* A goto that misses the last label.
UnwindFromPastEnd ==
  [total_missed |-> 1, total_interrupts |-> 2, current_missed |-> 3,
   current_interrupts |-> 4, device |-> 5, chrdev |-> 6, class |-> 8]

\* Where the goto of each failed step enters them; failed_class only returns.
UnwindFrom ==
  [total_missed |-> 1, total_interrupts |-> 2, current_missed |-> 3,
   current_interrupts |-> 4, device |-> 5, chrdev |-> 6, class |-> 7]

\* What muon_timer_exit takes back, in its order.
ExitPlan == <<"total_missed", "total_interrupts", "current_missed", "current_interrupts",
              "device", "class", "chrdev">>

ASSUME ModuleAssumption ==
  Session!SessionAssumption /\ LoadMayFail \subseteq DOMAIN UnwindFrom

At(phase, step) == [phase |-> phase, step |-> step]
Goes(phase, step) == load' = At(phase, step)

Init ==
  /\ Session!Init
  /\ load = At("out", 1)
  /\ registered = {}

-----------------------------------------------------------------------------
(* Load.  Pins with invalid numbers end it before it has done anything.    *)

\* insmod: the module's static data is as new.
LoadStart ==
  /\ load.phase = "out"
  /\ Goes("init", 1)
  /\ curInts' = 0 /\ curMissed' = 0 /\ totInts' = 0 /\ totMissed' = 0
  /\ UNCHANGED <<events, latch, edge, handler, scheduled, tasklet, armed, timer, held, at,
                 leftover, registered>>

\* class_create, register_chrdev, device_create, device_create_file.
Register ==
  /\ load.phase = "init" /\ load.step \in DOMAIN InitPlan
  /\ LET r == InitPlan[load.step]
     IN  \/ registered' = registered \cup {r} /\ Goes("init", load.step + 1)
         \/ /\ r \in LoadMayFail
            /\ Goes("unwind", UnwindFrom[r]) /\ UNCHANGED registered
  /\ UNCHANGED sessionVars

\* tot_ints = tot_missed = 0, and muon_timer_init returns.  A handler or timer
\* of a session that has begun may be adding to them meanwhile, and then what it
\* writes overwrites the 0.
LoadDone ==
  /\ load = At("init", Len(InitPlan) + 1)
  /\ Goes("live", 1)
  /\ totInts' = 0 \/ (handler = "total" /\ UNCHANGED totInts)
  /\ totMissed' = 0 \/ (timer = "total" /\ UNCHANGED totMissed)
  /\ UNCHANGED <<events, latch, edge, handler, scheduled, tasklet, armed, timer, held, at,
                 curInts, curMissed, leftover, registered>>

-----------------------------------------------------------------------------
(* Unload, and the error exit of a load.                                   *)

\* rmmod without a module reference for each open file.
UnloadAnyTime ==
  /\ load.phase = "live"
  /\ Goes("exit", 1)
  /\ UNCHANGED <<sessionVars, registered>>

\* rmmod: refused while a process is inside.
UnloadStart ==
  /\ load.phase = "live"
  /\ \A p \in Procs : ~Session!Inside(p)
  /\ Goes("exit", 1)
  /\ UNCHANGED <<sessionVars, registered>>

TakeBack(phase, plan) ==
  /\ load.phase = phase /\ load.step \in DOMAIN plan
  /\ registered' = registered \ {plan[load.step]}
  /\ Goes(phase, load.step + 1)
  /\ UNCHANGED sessionVars

\* One label, or one line of muon_timer_exit after its kfifo_reset.
LoadUnwind == TakeBack("unwind", UnwindPlan)
Exit == TakeBack("exit", ExitPlan)

\* Something is still to run in the module's code.
CodeInUse ==
  \/ \E p \in Procs : Session!Inside(p)
  \/ handler # "idle" \/ scheduled \/ tasklet # "idle"
  \/ armed \/ timer # "idle"

\* The kernel frees the module's memory.  What still had to run there runs into
\* freed memory and brings the kernel down.
FreeCode ==
  /\ load \in {At("unwind", Len(UnwindPlan) + 1), At("exit", Len(ExitPlan) + 1)}
  /\ IF CodeInUse THEN Goes("crashed", 1) ELSE Goes("out", 1)
  /\ UNCHANGED <<sessionVars, registered>>

Loader ==
  LoadStart \/ Register \/ LoadDone \/ LoadUnwind \/ UnloadStart \/ Exit \/ FreeCode

-----------------------------------------------------------------------------
(* Sessions.                                                               *)

\* A node that leads to the driver before the device is registered.
CanOpenEarly == "chrdev" \in registered /\ load.phase # "exit"

\* The node leads to the driver from device_create to device_destroy, but for a
\* module on its way out; opening it takes a reference to the module.
CanOpen == {"chrdev", "device"} \subseteq registered /\ load.phase # "exit"

\* What runs in the module's code.
Sessions ==
  /\ load.phase \notin {"out", "crashed"}
  /\ \/ \E p \in Procs : (~Session!Inside(p) => CanOpen) /\ Session!ProcessStep(p)
     \/ Session!SysReset \/ Session!Handler \/ Session!Tasklet
     \/ Session!TimerExpire \/ Session!TimerFunction
  /\ UNCHANGED <<load, registered>>

LatchSet == load.phase # "crashed" /\ Session!LatchSet /\ UNCHANGED <<load, registered>>

Next == Loader \/ Sessions \/ LatchSet

Spec == Init /\ [][Next]_vars

-----------------------------------------------------------------------------
(* Properties.                                                             *)

LoadPlaces ==
  {At(phase, 1) : phase \in {"out", "live", "crashed"}}
    \cup {At("init", k) : k \in 1..(Len(InitPlan) + 1)}
    \cup {At("unwind", k) : k \in 1..(Len(UnwindPlan) + 1)}
    \cup {At("exit", k) : k \in 1..(Len(ExitPlan) + 1)}

\* Every variable has its type, sessions under any load included.
TypeOK ==
  /\ Session!TypeOK
  /\ load \in LoadPlaces
  /\ registered \subseteq Range(InitPlan)

\* A module that is not loaded has left nothing in the kernel, wherever its load
\* failed and whatever sessions it had; one that is has everything (lines
\* 549-561 and 574-581).
RegisteredExactly ==
  /\ load.phase = "out" => registered = {} /\ held = {}
  /\ load.phase = "live" => registered = Range(InitPlan)

\* When muon_timer_exit runs there is no process in the driver, no pin, file or
\* interrupt is held, and no handler is running: lines 570-571, "at this point,
\* no other thread should exist with access to muon_timer_fifo".  Nor is anything
\* else of the driver to run in the memory that is then freed, unless a session
\* left its timer or its tasklet behind.
ExitAlone ==
  load.phase = "exit" =>
    /\ \A p \in Procs : ~Session!Inside(p)
    /\ held = {} /\ handler = "idle"
    /\ leftover \/ ~CodeInUse

\* A session's files are made in and removed from a device that exists, opens
\* before the end of muon_timer_init included.  Only a load that fails takes the
\* device away from a session (lines 264-278, 347-349, 556).
FilesHaveDevice ==
  load.phase \in {"init", "live", "exit"} /\ held \cap Session!Files # {} =>
    "device" \in registered
=============================================================================
