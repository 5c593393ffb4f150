-------------------------- MODULE MuonModuleProofs --------------------------
(***************************************************************************)
(* Proofs about loading and unloading, for any number of processes and any *)
(* set of failures.  What a session's steps preserve is taken from         *)
(* MuonSessionProofs, as all of them are steps of MuonSession.             *)
(***************************************************************************)
EXTENDS MuonModule, TLAPS

P == INSTANCE MuonSessionProofs

\* The instance here and the instance in MuonModule are the same formulas.
LEMMA SameSession ==
  /\ P!SessionAssumption <=> Session!SessionAssumption
  /\ P!Init <=> Session!Init
  /\ P!TypeOK <=> Session!TypeOK
  /\ P!Files = Session!Files
  /\ \A p \in Procs : P!Inside(p) <=> Session!Inside(p)
  /\ \A p \in Procs : P!ProcessStep(p) <=> Session!ProcessStep(p)
  /\ P!LatchSet <=> Session!LatchSet
  /\ P!SysReset \/ P!Handler \/ P!Tasklet \/ P!TimerExpire \/ P!TimerFunction
       <=> \/ Session!SysReset \/ Session!Handler \/ Session!Tasklet
           \/ Session!TimerExpire \/ Session!TimerFunction
BY DEF
  P!SessionAssumption, P!Init, P!Out, P!TypeOK, P!Places, P!Resources, P!Pins, P!Files,
  P!OpenPlan, P!UnwindPlan, P!ReleasePlan, P!UnwindFrom, P!Inside, P!IsOpen, P!Move, P!Advance,
  P!Fail, P!OpenLock, P!OpenAcquire, P!OpenTimer, P!OpenIrq, P!OpenReset, P!Unwind,
  P!ReleaseStart, P!Releasing, P!ReleaseIrq, P!ReleaseTimer, P!ReleaseRest, P!ProcessStep,
  P!LatchSet, P!SysReset, P!Handler, P!HandlerPut, P!HandlerSchedule, P!HandlerCount,
  P!HandlerTotal, P!Tasklet, P!TaskletRun, P!TaskletPulse, P!TaskletWake, P!TaskletRearm,
  P!TimerExpire, P!TimerFunction, P!TimerTest, P!TimerReset, P!TimerCount, P!TimerTotal,
  P!TimerRearm, P!latchVars, P!softVars, P!timerVars, P!counters,
  Session!SessionAssumption, Session!Init, Session!Out, Session!TypeOK, Session!Places,
  Session!Resources, Session!Pins, Session!Files, Session!OpenPlan, Session!UnwindPlan,
  Session!ReleasePlan, Session!UnwindFrom, Session!Inside, Session!IsOpen, Session!Move,
  Session!Advance, Session!Fail, Session!OpenLock, Session!OpenAcquire, Session!OpenTimer,
  Session!OpenIrq, Session!OpenReset, Session!Unwind, Session!ReleaseStart, Session!Releasing,
  Session!ReleaseIrq, Session!ReleaseTimer, Session!ReleaseRest, Session!ProcessStep,
  Session!LatchSet, Session!SysReset, Session!Handler, Session!HandlerPut,
  Session!HandlerSchedule, Session!HandlerCount, Session!HandlerTotal, Session!Tasklet,
  Session!TaskletRun, Session!TaskletPulse, Session!TaskletWake, Session!TaskletRearm,
  Session!TimerExpire, Session!TimerFunction, Session!TimerTest, Session!TimerReset,
  Session!TimerCount, Session!TimerTotal, Session!TimerRearm, Session!latchVars,
  Session!softVars, Session!timerVars, Session!counters

LEMMA SessionAssumed == P!SessionAssumption
BY ModuleAssumption, SameSession

\* Every step is one of a session, or of the module.
LEMMA SessionSteps ==
  ASSUME [Next]_vars
  PROVE  (UNCHANGED <<load, registered>> /\ [P!Next]_sessionVars) \/ Loader
<1>1. CASE Sessions
  BY <1>1, SameSession DEF Sessions, P!Next
<1>2. CASE LatchSet
  BY <1>2, SameSession DEF LatchSet, P!Next
<1>3. CASE UNCHANGED vars
  BY <1>3 DEF vars
<1> QED
  BY <1>1, <1>2, <1>3 DEF Next

-----------------------------------------------------------------------------
(* Sessions, whatever is loaded.                                           *)

\* Of the invariant of the sessions, what holds under a module that sets the
\* counters to 0 meanwhile.
SessionInv == P!TypeOK /\ P!HeldInv /\ P!HandlerHolds /\ P!QuietInv

\* The module touches nothing of a session but the counters.
LEMMA LoaderSessions ==
  ASSUME Loader
  PROVE  /\ UNCHANGED <<events, latch, edge, handler, scheduled, tasklet, armed, timer, held, at,
                        leftover>>
         /\ curInts' \in {curInts, 0} /\ curMissed' \in {curMissed, 0}
         /\ totInts' \in {totInts, 0} /\ totMissed' \in {totMissed, 0}
<1>1. LoadStart \/ LoadDone \/ UNCHANGED sessionVars
  BY DEF Loader, Register, LoadUnwind, UnloadStart, Exit, TakeBack, FreeCode
<1>2. CASE LoadStart
  BY <1>2 DEF LoadStart
<1>3. CASE LoadDone
  BY <1>3 DEF LoadDone
<1>4. CASE UNCHANGED sessionVars
  BY <1>4 DEF sessionVars
<1> QED
  BY <1>1, <1>2, <1>3, <1>4

LEMMA NextSessionInv ==
  ASSUME SessionInv, [Next]_vars
  PROVE  SessionInv'
<1>1. CASE [P!Next]_sessionVars
  <2>1. [P!Next]_(P!vars)
    BY <1>1 DEF sessionVars, P!vars, P!latchVars, P!softVars, P!timerVars, P!counters
  <2> QED
    BY <2>1, SessionAssumed, P!NextTypeOK, P!NextHeldInv, P!NextHandlerHolds, P!NextQuietInv
       DEF SessionInv
<1>2. CASE Loader
  <2>1. P!TypeOK'
    BY <1>2, LoaderSessions DEF SessionInv, P!TypeOK
  <2>2. UNCHANGED <<handler, held, at>>
    BY <1>2, LoaderSessions
  <2>3. P!HeldInv' /\ P!HandlerHolds'
    BY <2>2, SessionAssumed, P!OwnerStays DEF SessionInv, P!HandlerHolds
  <2>4. P!QuietInv'
    BY <1>2, LoaderSessions
       DEF SessionInv, P!QuietInv, P!Attended, P!IsOpen, P!Quiet, P!SoftWork
  <2> QED
    BY <2>1, <2>3, <2>4 DEF SessionInv
<1> QED
  BY <1>1, <1>2, SessionSteps

LEMMA InitSessionInv == Init => SessionInv
<1>1. Init => P!TypeOK /\ P!HeldInv
  BY SessionAssumed, SameSession, P!InitTypeOK, P!InitHeldInv DEF Init
<1>2. Init => P!HandlerHolds
  BY SameSession DEF Init, P!Init, P!HandlerHolds
<1>3. Init => P!QuietInv
  BY SameSession DEF Init, P!Init, P!Out, P!QuietInv, P!Quiet, P!SoftWork
<1> QED
  BY <1>1, <1>2, <1>3 DEF SessionInv

-----------------------------------------------------------------------------
(* What is registered.                                                     *)

\* Before the k-th step of a load, of its unwinding and of an unload.
InitHas(k) == {InitPlan[i] : i \in {j \in 1..7 : j < k}}
UnwindHas(k) == {UnwindPlan[i] : i \in {j \in 1..6 : j >= k}}
ExitHas(k) == {ExitPlan[i] : i \in {j \in 1..7 : j >= k}}

LEMMA PlanLengths ==
  /\ Len(InitPlan) = 7 /\ DOMAIN InitPlan = 1..7
  /\ Len(UnwindPlan) = 6 /\ DOMAIN UnwindPlan = 1..6
  /\ Len(ExitPlan) = 7 /\ DOMAIN ExitPlan = 1..7
BY DEF InitPlan, UnwindPlan, ExitPlan

LEMMA Everything == Range(InitPlan) = {InitPlan[i] : i \in 1..7}
BY PlanLengths DEF Range

\* Every step of a load adds what it registers.
LEMMA InitGains ==
  /\ InitHas(1) = {}
  /\ \A k \in 1..7 : InitHas(k + 1) = InitHas(k) \cup {InitPlan[k]}
  /\ InitHas(8) = Range(InitPlan)
  /\ \A k \in 4..8 : "device" \in InitHas(k)
  /\ \A k \in 1..3 : "device" \notin InitHas(k)
<1>1. InitHas(1) = {}
  BY DEF InitHas
<1>2. ASSUME NEW k \in 1..7
      PROVE  InitHas(k + 1) = InitHas(k) \cup {InitPlan[k]}
  <2>1. {j \in 1..7 : j < k + 1} = {j \in 1..7 : j < k} \cup {k}
    OBVIOUS
  <2> QED
    BY <2>1 DEF InitHas
<1>3. {j \in 1..7 : j < 8} = 1..7
  OBVIOUS
<1>4. InitHas(8) = Range(InitPlan)
  BY <1>3, Everything DEF InitHas
<1>5. \A i \in 1..7 : InitPlan[i] = "device" <=> i = 3
  BY DEF InitPlan
<1>6. (\A k \in 4..8 : "device" \in InitHas(k)) /\ (\A k \in 1..3 : "device" \notin InitHas(k))
  BY <1>5 DEF InitHas
<1> QED
  BY <1>1, <1>2, <1>4, <1>6

\* The goto of a failed step enters the labels where they take back exactly what
\* is registered.
LEMMA FailUnwinds ==
  /\ \A k \in 1..7 : InitHas(k) = UnwindHas(UnwindFrom[InitPlan[k]])
  /\ \A k \in 1..7 : UnwindFrom[InitPlan[k]] \in 1..7
<1>1. InitHas(1) = UnwindHas(7)
  BY DEF InitHas, UnwindHas
<1>2. InitHas(2) = UnwindHas(6)
  BY DEF InitHas, UnwindHas, InitPlan, UnwindPlan
<1>3. InitHas(3) = UnwindHas(5)
  BY DEF InitHas, UnwindHas, InitPlan, UnwindPlan
<1>4. InitHas(4) = UnwindHas(4)
  BY DEF InitHas, UnwindHas, InitPlan, UnwindPlan
<1>5. InitHas(5) = UnwindHas(3)
  BY DEF InitHas, UnwindHas, InitPlan, UnwindPlan
<1>6. InitHas(6) = UnwindHas(2)
  BY DEF InitHas, UnwindHas, InitPlan, UnwindPlan
<1>7. InitHas(7) = UnwindHas(1)
  BY DEF InitHas, UnwindHas, InitPlan, UnwindPlan
<1>8. /\ UnwindFrom[InitPlan[1]] = 7 /\ UnwindFrom[InitPlan[2]] = 6
      /\ UnwindFrom[InitPlan[3]] = 5 /\ UnwindFrom[InitPlan[4]] = 4
      /\ UnwindFrom[InitPlan[5]] = 3 /\ UnwindFrom[InitPlan[6]] = 2
      /\ UnwindFrom[InitPlan[7]] = 1
  BY DEF UnwindFrom, InitPlan
<1> QED
  BY <1>1, <1>2, <1>3, <1>4, <1>5, <1>6, <1>7, <1>8

\* Every label, and every line of muon_timer_exit, takes away what it names.
LEMMA UnwindLoses ==
  /\ \A k \in 1..6 : UnwindHas(k + 1) = UnwindHas(k) \ {UnwindPlan[k]}
  /\ UnwindHas(7) = {}
<1>1. \A i, j \in 1..6 : i # j => UnwindPlan[i] # UnwindPlan[j]
  BY DEF UnwindPlan
<1> QED
  BY <1>1 DEF UnwindHas

LEMMA ExitLoses ==
  /\ ExitHas(1) = Range(InitPlan)
  /\ \A k \in 1..7 : ExitHas(k + 1) = ExitHas(k) \ {ExitPlan[k]}
  /\ ExitHas(8) = {}
<1>1. \A i, j \in 1..7 : i # j => ExitPlan[i] # ExitPlan[j]
  BY DEF ExitPlan
<1>2. {ExitPlan[i] : i \in 1..7} = {InitPlan[i] : i \in 1..7}
  BY DEF ExitPlan, InitPlan
<1>3. {j \in 1..7 : j >= 1} = 1..7
  OBVIOUS
<1>4. ExitHas(1) = Range(InitPlan)
  BY <1>2, <1>3, Everything DEF ExitHas
<1> QED
  BY <1>1, <1>4 DEF ExitHas

-----------------------------------------------------------------------------
(* The invariant of the module.                                            *)

Nobody == \A p \in Procs : ~P!Inside(p)

\* What is registered at each place of the loader.
PlaceHas ==
  /\ load.phase = "out" => registered = {}
  /\ load.phase = "init" => registered = InitHas(load.step)
  /\ load.phase = "unwind" => registered = UnwindHas(load.step)
  /\ load.phase = "live" => registered = Range(InitPlan)
  /\ load.phase = "exit" => registered = ExitHas(load.step)

\* Where the node does not lead to the driver yet, or any more, nobody is inside.
EmptyWithoutNode ==
  \/ load.phase \in {"out", "exit"}
  \/ load.phase = "init" /\ load.step \in 1..3
  => Nobody

ModuleInv ==
  /\ load \in LoadPlaces
  /\ registered \subseteq Range(InitPlan)
  /\ PlaceHas
  /\ EmptyWithoutNode

LEMMA LoadPlaceOf ==
  /\ \A l \in LoadPlaces :
       /\ l.phase \in {"out", "init", "live", "unwind", "exit", "crashed"}
       /\ l.phase \in {"init", "exit"} => l.step \in 1..8
       /\ l.phase = "unwind" => l.step \in 1..7
  /\ \A f \in {"out", "live", "crashed"} : At(f, 1) \in LoadPlaces
  /\ \A k \in 1..8 : At("init", k) \in LoadPlaces /\ At("exit", k) \in LoadPlaces
  /\ \A k \in 1..7 : At("unwind", k) \in LoadPlaces
  /\ \A f, k : At(f, k).phase = f /\ At(f, k).step = k
BY PlanLengths DEF LoadPlaces, At

\* A step of a session brings somebody inside only where the node leads there.
LEMMA SessionKeepsModuleInv ==
  ASSUME SessionInv, ModuleInv, Sessions \/ LatchSet
  PROVE  ModuleInv'
<1>1. UNCHANGED <<load, registered>>
  BY DEF Sessions, LatchSet
<1>2. ASSUME Nobody, EmptyWithoutNode, ~Nobody'
      PROVE  CanOpen
  <2>1. UNCHANGED at \/ \E p \in Procs : CanOpen
    <3>1. CASE LatchSet
      BY <3>1 DEF LatchSet, Session!LatchSet
    <3>2. ASSUME NEW p \in Procs, ~Session!Inside(p) => CanOpen
          PROVE  CanOpen
      BY <1>2, <3>2, SameSession DEF Nobody
    <3>3. CASE Sessions
      BY <3>2, <3>3 DEF Sessions, Session!SysReset, Session!Handler, Session!HandlerPut,
         Session!HandlerSchedule, Session!HandlerCount, Session!HandlerTotal, Session!Tasklet,
         Session!TaskletRun, Session!TaskletPulse, Session!TaskletWake, Session!TaskletRearm,
         Session!TimerExpire, Session!TimerFunction, Session!TimerTest, Session!TimerReset,
         Session!TimerCount, Session!TimerTotal, Session!TimerRearm
    <3> QED
      BY <3>1, <3>3
  <2>2. ~UNCHANGED at
    BY <1>2 DEF Nobody, P!Inside
  <2> QED
    BY <2>1, <2>2
<1>3. ASSUME CanOpen
      PROVE  "device" \in registered /\ load.phase # "exit"
  BY <1>3 DEF CanOpen
<1>4. EmptyWithoutNode'
  <2>1. CASE load.phase = "out"
    <3>1. UNCHANGED at
      BY <2>1 DEF Sessions, LatchSet, Session!LatchSet
    <3> QED
      BY <1>1, <2>1, <3>1 DEF ModuleInv, EmptyWithoutNode, Nobody, P!Inside
  <2>2. CASE load.phase = "exit"
    BY <1>1, <1>2, <1>3, <2>2 DEF ModuleInv, EmptyWithoutNode
  <2>3. CASE load.phase = "init" /\ load.step \in 1..3
    <3>1. "device" \notin registered
      BY <2>3, InitGains DEF ModuleInv, PlaceHas
    <3> QED
      BY <1>1, <1>2, <1>3, <2>3, <3>1 DEF ModuleInv, EmptyWithoutNode
  <2> QED
    BY <1>1, <2>1, <2>2, <2>3 DEF EmptyWithoutNode
<1> QED
  BY <1>1, <1>4 DEF ModuleInv, PlaceHas

LEMMA LoaderKeepsModuleInv ==
  ASSUME SessionInv, ModuleInv, Loader
  PROVE  ModuleInv'
<1> DEFINE k == load.step
<1>1. UNCHANGED at
  BY LoaderSessions
<1>2. Nobody' <=> Nobody
  BY <1>1 DEF Nobody, P!Inside
<1>3. load \in LoadPlaces /\ registered \subseteq Range(InitPlan)
  BY DEF ModuleInv
<1> USE LoadPlaceOf, PlanLengths DEF Goes
<1>4. CASE LoadStart
  <2>1. load' = At("init", 1) /\ registered' = InitHas(1) /\ Nobody
    BY <1>4, InitGains DEF LoadStart, ModuleInv, PlaceHas, EmptyWithoutNode
  <2> QED
    BY <1>2, <1>3, <1>4, <2>1 DEF LoadStart, ModuleInv, PlaceHas, EmptyWithoutNode
<1>5. CASE Register
  <2>1. load.phase = "init" /\ k \in 1..7 /\ registered = InitHas(k)
    BY <1>5 DEF Register, ModuleInv, PlaceHas
  <2>2. InitPlan[k] \in Range(InitPlan)
    BY <2>1, Everything
  <2>3. CASE registered' = registered \cup {InitPlan[k]} /\ load' = At("init", k + 1)
    <3>1. registered' = InitHas(k + 1) /\ k + 1 \in 1..8
      BY <2>1, <2>3, InitGains
    <3>2. k + 1 \in 1..3 => Nobody
      BY <2>1 DEF ModuleInv, EmptyWithoutNode
    <3> QED
      BY <1>2, <1>3, <2>2, <2>3, <3>1, <3>2 DEF ModuleInv, PlaceHas, EmptyWithoutNode
  <2>4. CASE registered' = registered /\ load' = At("unwind", UnwindFrom[InitPlan[k]])
    BY <1>3, <2>1, <2>4, FailUnwinds DEF ModuleInv, PlaceHas, EmptyWithoutNode
  <2> QED
    BY <1>5, <2>3, <2>4 DEF Register
<1>6. CASE LoadDone
  <2>1. load.phase = "init" /\ k = 8
    BY <1>6 DEF LoadDone
  <2>2. load' = At("live", 1) /\ registered' = Range(InitPlan)
    BY <1>6, <2>1, InitGains DEF LoadDone, ModuleInv, PlaceHas
  <2> QED
    BY <2>2 DEF ModuleInv, PlaceHas, EmptyWithoutNode
<1>7. CASE UnloadStart
  <2>1. load' = At("exit", 1) /\ registered' = ExitHas(1)
    BY <1>7, ExitLoses DEF UnloadStart, ModuleInv, PlaceHas
  <2>2. Nobody
    BY <1>7, SameSession DEF UnloadStart, Nobody
  <2> QED
    BY <1>2, <1>3, <1>7, <2>1, <2>2 DEF UnloadStart, ModuleInv, PlaceHas, EmptyWithoutNode
<1>8. CASE LoadUnwind
  <2>1. load.phase = "unwind" /\ k \in 1..6 /\ registered = UnwindHas(k)
    BY <1>8 DEF LoadUnwind, TakeBack, ModuleInv, PlaceHas
  <2>2. load' = At("unwind", k + 1) /\ registered' = UnwindHas(k + 1)
    BY <1>8, <2>1, UnwindLoses DEF LoadUnwind, TakeBack
  <2>3. registered' \subseteq registered /\ k + 1 \in 1..7
    BY <2>1, <2>2, UnwindLoses
  <2> QED
    BY <1>3, <2>2, <2>3 DEF ModuleInv, PlaceHas, EmptyWithoutNode
<1>9. CASE Exit
  <2>1. load.phase = "exit" /\ k \in 1..7 /\ registered = ExitHas(k) /\ Nobody
    BY <1>9 DEF Exit, TakeBack, ModuleInv, PlaceHas, EmptyWithoutNode
  <2>2. load' = At("exit", k + 1) /\ registered' = ExitHas(k + 1)
    BY <1>9, <2>1, ExitLoses DEF Exit, TakeBack
  <2>3. registered' \subseteq registered /\ k + 1 \in 1..8
    BY <2>1, <2>2, ExitLoses
  <2> QED
    BY <1>2, <1>3, <2>1, <2>2, <2>3 DEF ModuleInv, PlaceHas, EmptyWithoutNode
<1>10. CASE FreeCode
  <2>1. load = At("unwind", 7) \/ load = At("exit", 8)
    BY <1>10 DEF FreeCode
  <2>2. registered = {} /\ registered' = {}
    BY <1>10, <2>1, UnwindLoses, ExitLoses DEF FreeCode, ModuleInv, PlaceHas
  <2>3. load' = At("crashed", 1) \/ (load' = At("out", 1) /\ Nobody)
    BY <1>10, SameSession DEF FreeCode, CodeInUse, Nobody
  <2> QED
    BY <1>2, <2>2, <2>3 DEF ModuleInv, PlaceHas, EmptyWithoutNode
<1> QED
  BY <1>4, <1>5, <1>6, <1>7, <1>8, <1>9, <1>10 DEF Loader

LEMMA NextModuleInv == SessionInv /\ ModuleInv /\ [Next]_vars => ModuleInv'
<1> SUFFICES ASSUME SessionInv, ModuleInv, [Next]_vars
             PROVE  ModuleInv'
  OBVIOUS
<1>1. CASE UNCHANGED vars
  BY <1>1 DEF vars, sessionVars, ModuleInv, PlaceHas, EmptyWithoutNode, Nobody, P!Inside
<1> QED
  BY <1>1, SessionKeepsModuleInv, LoaderKeepsModuleInv DEF Next

LEMMA InitModuleInv == Init => ModuleInv
<1> SUFFICES ASSUME Init PROVE ModuleInv
  OBVIOUS
<1>1. load = At("out", 1) /\ registered = {}
  BY DEF Init
<1>2. Nobody
  BY SameSession DEF Init, P!Init, P!Inside, P!Out, Nobody
<1> QED
  BY <1>1, <1>2, LoadPlaceOf DEF ModuleInv, PlaceHas, EmptyWithoutNode

Inductive == SessionInv /\ ModuleInv

LEMMA NextInductive == Inductive /\ [Next]_vars => Inductive'
BY NextSessionInv, NextModuleInv DEF Inductive

LEMMA InductiveAlways == Spec => []Inductive
<1>1. Init => Inductive
  BY InitSessionInv, InitModuleInv DEF Inductive
<1> QED
  BY <1>1, NextInductive, PTL DEF Spec

-----------------------------------------------------------------------------
(* The theorems.                                                           *)

\* With nobody inside, a session has given back everything.
LEMMA NobodyHolds ==
  ASSUME SessionInv, Nobody
  PROVE  held = {} /\ handler = "idle"
<1>1. held = {}
  BY DEF SessionInv, P!HeldInv, P!Owner, P!PlaceHolds, P!Inside, Nobody
<1>2. handler = "idle"
  BY <1>1 DEF SessionInv, P!HandlerHolds
<1> QED
  BY <1>1, <1>2

\* Type correctness of the whole: a session keeps its types under any load, and
\* the loader never runs past the end of a plan (lines 467-583).
THEOREM TypeCorrect == Spec => []TypeOK
<1>1. Inductive => TypeOK
  BY SameSession DEF Inductive, SessionInv, ModuleInv, TypeOK
<1> QED
  BY <1>1, InductiveAlways, PTL

\* A load that fails at any step, and an unload, take back exactly what was
\* registered, whatever sessions there were (lines 549-561, 574-581).
THEOREM RegistrationExact == Spec => []RegisteredExactly
<1>1. ASSUME Inductive
      PROVE  RegisteredExactly
  <2>1. load.phase = "out" => held = {}
    BY <1>1, NobodyHolds DEF Inductive, ModuleInv, EmptyWithoutNode
  <2> QED
    BY <1>1, <2>1 DEF Inductive, ModuleInv, PlaceHas, RegisteredExactly
<1> QED
  BY <1>1, InductiveAlways, PTL

\* With nobody inside, nothing of a session is left to run, unless it was left
\* over.
LEMMA NobodyRuns ==
  ASSUME SessionInv, Nobody, ~leftover
  PROVE  ~CodeInUse
<1>1. ~P!Attended
  BY DEF Nobody, P!Attended, P!Inside, P!IsOpen
<1>2. P!Quiet
  BY <1>1 DEF SessionInv, P!QuietInv
<1> QED
  BY <1>2, SameSession DEF Nobody, CodeInUse, P!Quiet, P!SoftWork

\* muon_timer_exit runs with no process in the driver, nothing held, and nothing
\* left to run in the memory it gives back but what a failed request_irq or a
\* release with a tasklet under way left behind (lines 570-571).
THEOREM ExitRunsAlone == Spec => []ExitAlone
<1>1. ASSUME Inductive, load.phase = "exit"
      PROVE  /\ \A p \in Procs : ~Session!Inside(p)
             /\ held = {} /\ handler = "idle"
             /\ leftover \/ ~CodeInUse
  <2>1. Nobody
    BY <1>1 DEF Inductive, ModuleInv, EmptyWithoutNode
  <2>2. held = {} /\ handler = "idle"
    BY <1>1, <2>1, NobodyHolds DEF Inductive
  <2>3. leftover \/ ~CodeInUse
    BY <1>1, <2>1, NobodyRuns DEF Inductive
  <2> QED
    BY <2>1, <2>2, <2>3, SameSession DEF Nobody
<1> QED
  BY <1>1, InductiveAlways, PTL DEF ExitAlone

\* The files of a session are on a device that exists, but for a load that
\* fails with a session open (lines 264-278, 347-349, 556).
THEOREM FilesOnDevice == Spec => []FilesHaveDevice
<1>1. ASSUME Inductive
      PROVE  FilesHaveDevice
  <2>1. Nobody => held = {}
    BY <1>1, NobodyHolds DEF Inductive
  <2>2. "device" \in Range(InitPlan)
    BY InitGains
  <2>3. load.phase = "init" => load.step \in 1..8
    BY <1>1, LoadPlaceOf DEF Inductive, ModuleInv
  <2>4. load.phase = "init" /\ load.step \notin 1..3 => "device" \in registered
    BY <1>1, <2>3, InitGains DEF Inductive, ModuleInv, PlaceHas
  <2> QED
    BY <1>1, <2>1, <2>2, <2>4 DEF Inductive, ModuleInv, PlaceHas, EmptyWithoutNode,
                                  FilesHaveDevice
<1> QED
  BY <1>1, InductiveAlways, PTL
=============================================================================
