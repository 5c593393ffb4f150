-------------------------- MODULE MuonDriverProofs --------------------------
(***************************************************************************)
(* Proofs about the whole driver under the example program, for any number *)
(* of processes, any failures of open(), and every size of fifo, transfer  *)
(* buffer and record.  Its two halves keep the invariants that are proved  *)
(* of them in MuonSessionProofs and MuonReadProofs, once every step is     *)
(* shown to be a step of both.                                             *)
(***************************************************************************)
EXTENDS MuonDriver, SequenceTheorems, TLAPS

P == INSTANCE MuonSessionProofs
R == INSTANCE MuonReadProofs WITH
       Counts <- {TsSize}, opened <- Opened, handler <- Putter, tasklet <- Waker,
       readable <- Polled

-----------------------------------------------------------------------------
(* The halves of MuonDriver are those of the proofs.                        *)

\* The instance of MuonSession here and in MuonDriver are the same formulas.
LEMMA SameSession ==
  /\ P!SessionAssumption <=> Session!SessionAssumption
  /\ P!Init <=> Session!Init
  /\ P!TypeOK <=> Session!TypeOK
  /\ \A p \in Procs : P!IsOpen(p) <=> Session!IsOpen(p)
  /\ \A p \in Procs :
       /\ P!OpenLock(p) <=> Session!OpenLock(p)
       /\ P!OpenAcquire(p) <=> Session!OpenAcquire(p)
       /\ P!OpenTimer(p) <=> Session!OpenTimer(p)
       /\ P!OpenIrq(p) <=> Session!OpenIrq(p)
       /\ P!OpenReset(p) <=> Session!OpenReset(p)
       /\ P!Unwind(p) <=> Session!Unwind(p)
       /\ P!ReleaseStart(p) <=> Session!ReleaseStart(p)
       /\ P!ReleaseIrq(p) <=> Session!ReleaseIrq(p)
       /\ P!ReleaseTimer(p) <=> Session!ReleaseTimer(p)
       /\ P!ReleaseRest(p) <=> Session!ReleaseRest(p)
  /\ P!LatchSet <=> Session!LatchSet
  /\ P!SysReset <=> Session!SysReset
  /\ P!HandlerPut <=> Session!HandlerPut
  /\ P!HandlerSchedule <=> Session!HandlerSchedule
  /\ P!HandlerCount <=> Session!HandlerCount
  /\ P!HandlerTotal <=> Session!HandlerTotal
  /\ P!TaskletRun <=> Session!TaskletRun
  /\ P!TaskletPulse <=> Session!TaskletPulse
  /\ P!TaskletWake <=> Session!TaskletWake
  /\ P!TaskletRearm <=> Session!TaskletRearm
  /\ P!TimerExpire <=> Session!TimerExpire
  /\ P!TimerFunction <=> Session!TimerFunction
BY DEF
  P!SessionAssumption, P!Init, P!Out, P!TypeOK, P!Places, P!Resources, P!Pins, P!Files,
  P!OpenPlan, P!UnwindPlan, P!ReleasePlan, P!UnwindFrom, P!Inside, P!IsOpen, P!Move, P!Advance,
  P!Fail, P!OpenLock, P!OpenAcquire, P!OpenTimer, P!OpenIrq, P!OpenReset, P!Unwind,
  P!ReleaseStart, P!Releasing, P!ReleaseIrq, P!ReleaseTimer, P!ReleaseRest,
  P!LatchSet, P!SysReset, P!HandlerPut, P!HandlerSchedule, P!HandlerCount, P!HandlerTotal,
  P!TaskletRun, P!TaskletPulse, P!TaskletWake, P!TaskletRearm, P!TimerExpire, P!TimerFunction,
  P!TimerTest, P!TimerReset, P!TimerCount, P!TimerTotal, P!TimerRearm, P!latchVars, P!softVars, P!timerVars, P!counters,
  Session!SessionAssumption, Session!Init, Session!Out, Session!TypeOK, Session!Places,
  Session!Resources, Session!Pins, Session!Files, Session!OpenPlan, Session!UnwindPlan,
  Session!ReleasePlan, Session!UnwindFrom, Session!Inside, Session!IsOpen, Session!Move,
  Session!Advance, Session!Fail, Session!OpenLock, Session!OpenAcquire, Session!OpenTimer,
  Session!OpenIrq, Session!OpenReset, Session!Unwind, Session!ReleaseStart, Session!Releasing,
  Session!ReleaseIrq, Session!ReleaseTimer, Session!ReleaseRest,
  Session!LatchSet, Session!SysReset, Session!HandlerPut,
  Session!HandlerSchedule, Session!HandlerCount, Session!HandlerTotal, Session!TaskletRun,
  Session!TaskletPulse, Session!TaskletWake, Session!TaskletRearm, Session!TimerExpire,
  Session!TimerFunction, Session!TimerTest, Session!TimerReset, Session!TimerCount,
  Session!TimerTotal, Session!TimerRearm, Session!latchVars,
  Session!softVars, Session!timerVars, Session!counters

\* The same of MuonRead.
LEMMA SameRead ==
  /\ R!ReadAssumption <=> Read!ReadAssumption
  /\ R!Init <=> Read!Init
  /\ R!Next <=> Read!Next
  /\ R!vars = Read!vars
  /\ R!TypeOK <=> Read!TypeOK
  /\ R!Copy <=> Read!Copy
BY DEF
  R!ReadAssumption, R!Init, R!NoCall, R!Next, R!vars, R!dataVars, R!irqVars, R!TypeOK, R!Calls,
  R!Record, R!HasData, R!Open, R!Release, R!Put, R!Interrupt, R!HandlerSchedule, R!TaskletRun,
  R!TaskletWake, R!Goto, R!Return, R!Call, R!Test, R!Prepare, R!Recheck, R!Woken,
  R!Interrupted, R!Fill, R!NoRoom, R!Drain, R!Smaller, R!Copy, R!CopyFails,
  R!HandlerOrTasklet, R!ReaderStep,
  Read!ReadAssumption, Read!Init, Read!NoCall, Read!Next, Read!vars, Read!dataVars,
  Read!irqVars, Read!TypeOK, Read!Calls, Read!Record, Read!HasData, Read!Open, Read!Release,
  Read!Put, Read!Interrupt, Read!HandlerSchedule, Read!TaskletRun, Read!TaskletWake, Read!Goto,
  Read!Return, Read!Call, Read!Test, Read!Prepare, Read!Recheck, Read!Woken, Read!Interrupted,
  Read!Fill, Read!NoRoom, Read!Drain, Read!Smaller, Read!Copy, Read!CopyFails,
  Read!HandlerOrTasklet, Read!ReaderStep

LEMMA Assumed == P!SessionAssumption /\ R!ReadAssumption
BY DriverAssumption, SameSession, SameRead

-----------------------------------------------------------------------------
(* The control path: every step is one of MuonSession, or none.             *)

LEMMA SessionSteps ==
  ASSUME [Next]_vars
  PROVE  [P!Next]_(P!vars)
<1> USE SameSession DEF P!Next, P!ProcessStep, P!Handler, P!Tasklet
<1>1. ASSUME NEW p \in Procs, Control(p) \/ OpenTimer(p) \/ OpenReset(p) \/ ReleaseStart(p)
      PROVE  P!Next
  BY <1>1 DEF Control, OpenTimer, OpenReset, ReleaseStart
<1>2. CASE Handler \/ Tasklet \/ Timer \/ Outside
  BY <1>2 DEF Handler, HandlerPut, HandlerRest, Tasklet, TaskletWake, TaskletRest, Timer,
              Outside
<1>3. CASE UNCHANGED sessionVars \/ WritePulse
  BY <1>3 DEF WritePulse, sessionVars, P!vars, P!latchVars, P!softVars, P!timerVars, P!counters
<1>4. CASE OpenPulse \/ CallRead \/ Reader \/ Killed \/ UNCHANGED vars
  BY <1>3, <1>4 DEF OpenPulse, CallRead, Reader, Reading, ReadReturns, Killed, vars
<1> QED
  BY <1>1, <1>2, <1>3, <1>4 DEF Next

LEMMA NextSession == P!Inductive /\ [Next]_vars => P!Inductive'
BY SessionSteps, Assumed, P!NextInductive

LEMMA InitSession == Init => P!Inductive
BY SameSession, Assumed, P!InitInductive DEF Init

\* A process that is inside is the only one.
LEMMA Alone ==
  ASSUME P!Inductive, NEW p \in Procs, at[p].phase # "out"
  PROVE  P!Owner(p) /\ \A q \in Procs \ {p} : at[q].phase = "out"
BY Assumed, P!InsideOwns DEF P!Inductive, P!Owner, P!Inside

-----------------------------------------------------------------------------
(* What the data path sees of the control path.                            *)

OpenedAt(l) ==
  \/ l.phase = "open" /\ l.step > 7
  \/ l.phase \in {"in", "dead"}
  \/ l = [phase |-> "release", step |-> 1]

LEMMA OpenedWhere ==
  /\ Opened <=> \E p \in Procs : OpenedAt(at[p])
  /\ Opened' <=> \E p \in Procs : OpenedAt(at'[p])
<1>1. Len(Session!OpenPlan) + 1 = 7
  BY DEF Session!OpenPlan
<1> QED
  BY <1>1 DEF Opened, OpenedAt

-----------------------------------------------------------------------------
(* The program.                                                            *)

TheRead == [op |-> "read", count |-> TsSize, nonblock |-> FALSE]

\* The program is in main() exactly while its process has the device open, and
\* in read() only from CallRead to its return; every interrupt the data path
\* has taken in was an event.
ProgramInv ==
  /\ client \in {"out", "start", "pulse", "read", "reading", "failed", "killed"}
  /\ client # "out" <=> \E p \in Procs : P!IsOpen(p)
  /\ reader # "user" => client = "reading"
  /\ call \in {R!NoCall, TheRead}
  /\ clock \in Nat /\ clock + P!OneIf(edge) <= events

\* Where the process that is inside neither begins nor stops having the device
\* open, neither does the program.
LEMMA OpenUnchanged ==
  ASSUME P!TypeOK, NEW p \in Procs, \A q \in Procs \ {p} : at'[q] = at[q],
         P!IsOpen(p)' <=> P!IsOpen(p)
  PROVE  (\E q \in Procs : P!IsOpen(q))' <=> \E q \in Procs : P!IsOpen(q)
BY DEF P!IsOpen

\* Where a step of one process leads to.
LEMMA ProcessMoves ==
  ASSUME P!Inductive, NEW p \in Procs, P!ProcessStep(p)
  PROVE  /\ \A q \in Procs \ {p} : at[q].phase = "out" /\ at'[q] = at[q]
         /\ at[p] \in P!Places /\ at'[p] \in P!Places
         /\ at[p].phase = "in" <=> P!ReleaseStart(p)
         /\ at'[p].phase = "in" <=> P!OpenReset(p)
<1>1. \A q \in Procs \ {p} : at[q].phase = "out"
  <2>1. CASE P!OpenLock(p)
    BY <2>1, Assumed, P!InsideOwns DEF P!Inductive, P!OpenLock, P!Inside
  <2>2. CASE ~P!OpenLock(p)
    <3>1. at[p].phase # "out"
      BY <2>2 DEF P!ProcessStep, P!OpenAcquire, P!OpenTimer, P!OpenIrq, P!OpenReset, P!Unwind,
         P!ReleaseStart, P!IsOpen, P!ReleaseIrq, P!ReleaseTimer, P!ReleaseRest, P!Releasing
    <3> QED
      BY <3>1, Alone
  <2> QED
    BY <2>1, <2>2
<1>2. at \in [Procs -> P!Places] /\ at' \in [Procs -> P!Places]
  BY Assumed, P!ProcessPlaces DEF P!Inductive, P!TypeOK
<1>3. \A q \in Procs \ {p} : at'[q] = at[q]
  BY <1>2 DEF P!ProcessStep, P!OpenLock, P!OpenAcquire, P!OpenTimer, P!OpenIrq, P!OpenReset,
     P!Fail, P!Unwind, P!ReleaseStart, P!ReleaseIrq, P!ReleaseTimer, P!ReleaseRest,
     P!Releasing, P!Advance, P!Move
<1>4. at[p].phase = "in" <=> P!ReleaseStart(p)
  BY DEF P!ProcessStep, P!OpenLock, P!Inside, P!OpenAcquire, P!OpenTimer, P!OpenIrq,
     P!OpenReset, P!Unwind, P!ReleaseStart, P!IsOpen, P!ReleaseIrq, P!ReleaseTimer,
     P!ReleaseRest, P!Releasing
<1>5. at'[p].phase = "in" <=> P!OpenReset(p)
  <2>1. P!OpenReset(p) => at'[p].phase = "in"
    BY <1>2 DEF P!OpenReset, P!Move
  <2>2. CASE ~P!OpenReset(p)
    <3>1. at'[p].phase \in {"open", "dead", "unwind", "release", "out"}
      BY <1>2, <2>2 DEF P!ProcessStep, P!OpenLock, P!OpenAcquire, P!OpenTimer, P!OpenIrq,
         P!Fail, P!Unwind, P!ReleaseStart, P!ReleaseIrq, P!ReleaseTimer, P!ReleaseRest,
         P!Releasing, P!Advance, P!Move
    <3> QED
      BY <2>2, <3>1
  <2> QED
    BY <2>1, <2>2
<1> QED
  BY <1>1, <1>2, <1>3, <1>4, <1>5

LEMMA NextEvents ==
  ASSUME P!Inductive, ProgramInv, [Next]_vars
  PROVE  clock' \in Nat /\ (clock + P!OneIf(edge) <= events)'
<1> USE DEF P!OneIf, P!latchVars
<1>1. clock \in Nat /\ events \in Nat /\ clock + P!OneIf(edge) <= events
  BY Assumed, P!CounterTypes DEF ProgramInv, P!Inductive
<1>2. ASSUME P!LatchSet, UNCHANGED clock
      PROVE  clock' \in Nat /\ (clock + P!OneIf(edge) <= events)'
  <2>1. events' = events + 1 /\ P!OneIf(edge)' <= P!OneIf(edge) + 1
    BY <1>2 DEF P!LatchSet
  <2> QED
    BY <1>1, <1>2, <2>1
<1>3. ASSUME UNCHANGED <<clock, events>>, edge' = edge \/ edge' = FALSE
      PROVE  clock' \in Nat /\ (clock + P!OneIf(edge) <= events)'
  BY <1>1, <1>3
<1>4. CASE HandlerPut
  <2>1. edge /\ edge' = FALSE /\ clock' = clock + 1 /\ events' = events
    BY <1>4, SameSession DEF HandlerPut, P!HandlerPut
  <2> QED
    BY <1>1, <2>1
<1>5. CASE Outside \/ WritePulse
  <2>1. P!LatchSet \/ P!SysReset \/ UNCHANGED sessionVars
    BY <1>5, SameSession DEF Outside, WritePulse
  <2>2. UNCHANGED clock
    BY <1>5 DEF Outside, WritePulse, dataVars
  <2>3. P!SysReset \/ UNCHANGED sessionVars => UNCHANGED <<events, edge>>
    BY DEF P!SysReset, sessionVars
  <2> QED
    BY <1>2, <1>3, <2>1, <2>2, <2>3
<1>6. ASSUME NEW p \in Procs, Control(p) \/ OpenTimer(p) \/ OpenReset(p) \/ ReleaseStart(p)
      PROVE  UNCHANGED <<clock, events>> /\ (edge' = edge \/ edge' = FALSE)
  BY <1>6, SameSession DEF Control, OpenTimer, OpenReset, ReleaseStart, dataVars, P!OpenLock,
     P!OpenAcquire, P!OpenTimer, P!OpenIrq, P!OpenReset, P!Unwind, P!ReleaseStart, P!ReleaseIrq,
     P!ReleaseTimer, P!ReleaseRest
<1>7. CASE HandlerRest \/ Tasklet \/ Timer
  <2>1. UNCHANGED <<clock, events, edge>>
    BY <1>7, SameSession DEF HandlerRest, Tasklet, TaskletWake, TaskletRest, Timer, dataVars,
       P!HandlerSchedule, P!HandlerCount, P!HandlerTotal, P!TaskletRun, P!TaskletPulse,
       P!TaskletWake, P!TaskletRearm, P!TimerExpire, P!TimerFunction, P!TimerTest,
       P!TimerReset, P!TimerCount, P!TimerTotal, P!TimerRearm
  <2> QED
    BY <1>3, <2>1
<1>8. CASE OpenPulse \/ CallRead \/ Reader \/ Killed \/ UNCHANGED vars
  <2>1. UNCHANGED <<clock, events, edge>>
    <3>1. CASE Reader \/ Killed
      BY <3>1 DEF Reader, Reading, ReadReturns, Killed, sessionVars, Read!Test, Read!Prepare,
         Read!Recheck, Read!Woken, Read!Fill, Read!Drain, Read!Copy, Read!Interrupted, Read!Goto,
         Read!Return
    <3>2. CASE OpenPulse \/ CallRead \/ UNCHANGED vars
      BY <3>2 DEF OpenPulse, CallRead, vars, sessionVars, dataVars
    <3> QED
      BY <1>8, <3>1, <3>2
  <2> QED
    BY <1>3, <2>1
<1> QED
  BY <1>3, <1>4, <1>5, <1>6, <1>7, <1>8 DEF Next, Handler

\* The steps that leave the program where it is.
LEMMA ProgramKept ==
  ASSUME P!Inductive, ProgramInv, [Next]_vars, UNCHANGED progVars,
         UNCHANGED at \/ \E p \in Procs : /\ P!ProcessStep(p)
                                          /\ ~P!OpenReset(p) /\ ~P!ReleaseStart(p)
  PROVE  ProgramInv'
<1>1. (\E q \in Procs : P!IsOpen(q))' <=> \E q \in Procs : P!IsOpen(q)
  <2>1. CASE UNCHANGED at
    BY <2>1 DEF P!IsOpen
  <2>2. ASSUME NEW p \in Procs, P!ProcessStep(p), ~P!OpenReset(p), ~P!ReleaseStart(p)
        PROVE  (\E q \in Procs : P!IsOpen(q))' <=> \E q \in Procs : P!IsOpen(q)
    <3>1. (P!IsOpen(p)' <=> P!IsOpen(p)) /\ \A q \in Procs \ {p} : at'[q] = at[q]
      BY <2>2, ProcessMoves DEF P!IsOpen
    <3> QED
      BY <3>1, OpenUnchanged DEF P!Inductive
  <2> QED
    BY <2>1, <2>2
<1>2. R!NoCall' = R!NoCall
  BY DEF R!NoCall
<1> QED
  BY <1>1, <1>2, NextEvents DEF ProgramInv, progVars

LEMMA NextProgramInv ==
  ASSUME P!Inductive, ProgramInv, [Next]_vars
  PROVE  ProgramInv'
<1>1. ASSUME NEW p \in Procs, Control(p) \/ OpenTimer(p)
      PROVE  ProgramInv'
  <2>1. /\ P!ProcessStep(p) /\ ~P!OpenReset(p) /\ ~P!ReleaseStart(p)
        /\ UNCHANGED progVars
    <3>1. CASE Control(p)
      BY <3>1, SameSession DEF Control, P!ProcessStep, P!OpenLock, P!Inside, P!OpenAcquire,
         P!OpenIrq, P!OpenReset, P!OpenPlan, P!Unwind, P!ReleaseStart, P!IsOpen, P!ReleaseIrq,
         P!ReleaseTimer, P!ReleaseRest, P!Releasing
    <3>2. CASE OpenTimer(p)
      BY <3>2, SameSession DEF OpenTimer, P!ProcessStep, P!OpenTimer, P!OpenReset, P!ReleaseStart,
         P!IsOpen
    <3> QED
      BY <1>1, <3>1, <3>2
  <2> QED
    BY <2>1, ProgramKept
<1>2. ASSUME NEW p \in Procs, OpenReset(p)
      PROVE  ProgramInv'
  <2>1. P!OpenReset(p) /\ client' = "start" /\ UNCHANGED <<reader, call>>
    BY <1>2, SameSession DEF OpenReset
  <2>2. (\E q \in Procs : P!IsOpen(q))'
    BY <2>1, ProcessMoves DEF P!ProcessStep, P!IsOpen
  <2>3. ~\E q \in Procs : P!IsOpen(q)
    BY <2>1, ProcessMoves DEF P!ProcessStep, P!IsOpen, P!OpenReset
  <2>4. reader = "user"
    BY <2>3 DEF ProgramInv
  <2> QED
    BY <2>1, <2>2, <2>4, NextEvents DEF ProgramInv, R!NoCall
<1>3. ASSUME NEW p \in Procs, ReleaseStart(p)
      PROVE  ProgramInv'
  <2>1. P!ReleaseStart(p) /\ reader = "user" /\ client' = "out" /\ UNCHANGED <<reader, call>>
    BY <1>3, SameSession DEF ReleaseStart
  <2>2. ~(\E q \in Procs : P!IsOpen(q))'
    <3>1. at[p].phase = "in" /\ \A q \in Procs \ {p} : at'[q].phase = "out"
      BY <2>1, ProcessMoves DEF P!ProcessStep
    <3>2. at'[p].phase # "in"
      BY <2>1, <3>1, ProcessMoves DEF P!ProcessStep, P!OpenReset
    <3> QED
      BY <3>1, <3>2 DEF P!IsOpen
  <2> QED
    BY <2>1, <2>2, NextEvents DEF ProgramInv, R!NoCall
<1>4. CASE Handler \/ Tasklet \/ Timer \/ Outside
  <2>1. UNCHANGED progVars
    BY <1>4 DEF Handler, HandlerPut, HandlerRest, Tasklet, TaskletWake, TaskletRest, Timer,
       Outside
  <2>2. UNCHANGED at
    BY <1>4, SameSession DEF Handler, HandlerPut, HandlerRest, Tasklet, TaskletWake,
       TaskletRest, Timer, Outside, P!HandlerPut, P!HandlerSchedule, P!HandlerCount,
       P!HandlerTotal, P!TaskletRun, P!TaskletPulse, P!TaskletWake, P!TaskletRearm,
       P!TimerExpire, P!TimerFunction, P!TimerTest, P!TimerReset, P!TimerCount, P!TimerTotal,
       P!TimerRearm, P!LatchSet, P!SysReset
  <2> QED
    BY <2>1, <2>2, ProgramKept
\* The steps of the program itself.
<1>5. ASSUME UNCHANGED at, client # "out", client' # "out",
             client' \in {"pulse", "read", "reading", "failed", "killed"},
             reader' # "user" => client' = "reading",
             call' \in {R!NoCall, TheRead}
      PROVE  ProgramInv'
  BY <1>5, NextEvents DEF ProgramInv, P!IsOpen, R!NoCall, TheRead
<1>6. CASE OpenPulse
  BY <1>5, <1>6 DEF OpenPulse, sessionVars, ProgramInv
<1>7. CASE WritePulse
  <2>1. UNCHANGED at
    BY <1>7, SameSession DEF WritePulse, sessionVars, P!LatchSet
  <2> QED
    BY <1>5, <1>7, <2>1 DEF WritePulse, ProgramInv
<1>8. CASE CallRead
  BY <1>5, <1>8 DEF CallRead, sessionVars, Read!Call, TheRead
<1>9. CASE Reading
  <2>1. reader # "user" /\ call' \in {call, R!NoCall}
    BY <1>9 DEF Reading, Read!Test, Read!Prepare, Read!Recheck, Read!Woken, Read!Fill,
       Read!Drain, Read!Goto, Read!Return, Read!NoCall, R!NoCall
  <2> QED
    BY <1>5, <1>9, <2>1 DEF Reading, sessionVars, ProgramInv
<1>10. CASE ReadReturns \/ Killed
  <2>1. reader # "user" /\ call' = R!NoCall /\ reader' = "user"
    BY <1>10 DEF ReadReturns, Killed, Read!Copy, Read!Interrupted, Read!Return, Read!NoCall,
       R!NoCall
  <2> QED
    BY <1>5, <1>10, <2>1 DEF ReadReturns, Killed, sessionVars, ProgramInv
<1>11. CASE UNCHANGED vars
  BY <1>11, ProgramKept DEF vars, sessionVars, progVars
<1> QED
  BY <1>1, <1>2, <1>3, <1>4, <1>6, <1>7, <1>8, <1>9, <1>10, <1>11 DEF Next, Reader

-----------------------------------------------------------------------------
(* The data path: every step is one of MuonRead, or none.                   *)

LEMMA ReadUnchanged ==
  ASSUME UNCHANGED <<dataVars, reader, call, scheduled>>, Putter' = Putter, Waker' = Waker,
         Opened' = Opened
  PROVE  UNCHANGED (R!vars)
BY DEF R!vars, R!dataVars, R!irqVars, dataVars, Polled

LEMMA OpenedUnchanged == UNCHANGED at => Opened' = Opened
BY DEF Opened

\* Wherever the interrupt is requested, the device is open.
LEMMA IrqOpened ==
  ASSUME P!Inductive, "irq" \in held
  PROVE  Opened
<1>1. PICK p \in Procs : P!Owner(p)
  BY DEF P!Inductive, P!HeldInv
<1>2. at[p] \in P!Places /\ P!PlaceHolds(at[p], held)
  BY <1>1 DEF P!Inductive, P!TypeOK, P!Owner
<1>3. CASE at[p].phase = "open"
  <2>1. held = P!OpenHeld(at[p].step) /\ at[p].step \in 1..9
    BY <1>2, <1>3, Assumed, P!PlaceOf DEF P!PlaceHolds
  <2>2. at[p].step > 7
    BY <2>1, Assumed, P!PlanLengths DEF P!OpenHeld, P!OpenPlan
  <2> QED
    BY <1>3, <2>2, OpenedWhere DEF OpenedAt
<1>4. CASE at[p].phase = "unwind"
  <2>1. held = P!UnwindHeld(at[p].step)
    BY <1>2, <1>4 DEF P!PlaceHolds
  <2>2. "irq" \notin P!UnwindHeld(at[p].step)
    BY Assumed, P!PlanLengths, P!UnwindLoses DEF P!UnwindHeld
  <2> QED
    BY <2>1, <2>2
<1>5. CASE at[p].phase = "release"
  <2>1. held = P!ReleaseHeld(at[p].step) /\ at[p].step \in 1..9
    BY <1>2, <1>5, Assumed, P!PlaceOf DEF P!PlaceHolds
  <2>2. PICK i \in 1..9 : i >= at[p].step /\ P!ReleasePlan[i] = "irq"
    BY <2>1, Assumed, P!PlanLengths DEF P!ReleaseHeld
  <2>3. at[p].step = 1
    BY <2>1, <2>2, Assumed, P!ReleaseLoses
  <2>4. at[p] = [phase |-> "release", step |-> 1]
    BY <1>2, <1>5, <2>3 DEF P!Places
  <2> QED
    BY <2>4, OpenedWhere DEF OpenedAt
<1>6. CASE at[p].phase \in {"in", "dead"}
  BY <1>6, OpenedWhere DEF OpenedAt
<1>7. at[p].phase # "out"
  BY <1>2 DEF P!PlaceHolds
<1> QED
  BY <1>2, <1>3, <1>4, <1>5, <1>6, <1>7, Assumed, P!PlaceOf

\* In a step of a process it is that process that opens or closes the device.
LEMMA OpenedHere ==
  ASSUME P!Inductive, NEW p \in Procs, P!ProcessStep(p)
  PROVE  /\ Opened <=> OpenedAt(at[p])
         /\ Opened' <=> OpenedAt(at'[p])
BY ProcessMoves, OpenedWhere DEF OpenedAt

\* Where the steps of the control path leave the device as open as it was, and
\* where they close it.
LEMMA ControlOpened ==
  ASSUME P!Inductive, NEW p \in Procs, Control(p), P!ProcessStep(p)
  PROVE  \/ Opened' <=> Opened
         \/ Opened /\ ~Opened' /\ handler = "idle"
<1>0. at \in [Procs -> P!Places]
  BY DEF P!Inductive, P!TypeOK
<1>1. /\ Opened <=> OpenedAt(at[p])
      /\ Opened' <=> OpenedAt(at'[p])
      /\ at[p] \in P!Places /\ at'[p] \in P!Places
  BY OpenedHere, ProcessMoves
<1>2. /\ at[p].phase = "open" => at[p].step \in 1..9
      /\ at[p].phase = "release" => at[p].step \in 1..9
      /\ at[p].phase = "unwind" => at[p].step \in 1..7
  BY <1>1, Assumed, P!PlaceOf
<1>3. CASE P!OpenLock(p)
  <2>1. at[p].phase = "out" /\ at'[p] = [phase |-> "open", step |-> 1]
    BY <1>3, <1>0 DEF P!Move, P!OpenLock, P!Inside
  <2> QED
    BY <1>1, <2>1 DEF OpenedAt
<1>4. CASE P!OpenAcquire(p)
  <2>1. at[p].phase = "open" /\ at[p].step \in 1..6
    BY <1>4, Assumed, P!PlanLengths DEF P!OpenAcquire
  <2>2. \/ at'[p] = [phase |-> "open", step |-> at[p].step + 1]
        \/ at'[p].phase = "unwind"
    <3>1. CASE P!Advance(p)
      BY <2>1, <3>1, <1>0 DEF P!Move, P!Advance
    <3>2. CASE P!Fail(p, P!OpenPlan[at[p].step])
      <4>1. P!Move(p, "unwind", P!UnwindFrom[P!OpenPlan[at[p].step]])
        BY <3>2 DEF P!Fail
      <4> QED
        BY <4>1, <1>0 DEF P!Move
    <3> QED
      BY <1>4, <3>1, <3>2 DEF P!OpenAcquire
  <2> QED
    BY <1>1, <2>1, <2>2 DEF OpenedAt
<1>5. CASE P!OpenIrq(p)
  <2>1. at[p].phase = "open" /\ at[p].step = 8
    BY <1>5 DEF P!OpenIrq, P!OpenPlan
  <2>2. CASE P!Advance(p)
    <3>1. at'[p] = [phase |-> "open", step |-> 9]
      BY <2>1, <2>2, <1>0 DEF P!Move, P!Advance
    <3> QED
      BY <1>1, <2>1, <3>1 DEF OpenedAt
  <2>3. CASE P!Fail(p, "irq")
    <3>1. P!Move(p, "unwind", P!UnwindFrom["irq"])
      BY <2>3 DEF P!Fail
    <3>2. at'[p].phase = "unwind"
      BY <3>1, <1>0 DEF P!Move
    <3>3. held = P!OpenHeld(8)
      BY <2>1, Alone DEF P!Owner, P!PlaceHolds
    <3>4. "irq" \notin held
      BY <3>3, Assumed, P!OpenGains
    <3>5. handler = "idle"
      BY <3>4 DEF P!Inductive, P!HandlerHolds, P!TypeOK
    <3> QED
      BY <1>1, <2>1, <3>2, <3>5 DEF OpenedAt
  <2> QED
    BY <1>5, <2>2, <2>3 DEF P!OpenIrq
<1>6. CASE P!Unwind(p)
  <2>1. at[p].phase = "unwind"
    BY <1>6 DEF P!Unwind
  <2>2. at'[p].phase \in {"unwind", "out"}
    <3>1. CASE P!Move(p, "out", 1)
      BY <3>1, <1>0 DEF P!Move
    <3>2. CASE P!Advance(p)
      BY <2>1, <3>2, <1>0 DEF P!Move, P!Advance
    <3> QED
      BY <1>6, <3>1, <3>2 DEF P!Unwind
  <2> QED
    BY <1>1, <2>1, <2>2 DEF OpenedAt
\* Only the first step of release() closes the device.
<1>7. ASSUME NEW r, P!Releasing(p, r)
      PROVE  ~Opened' /\ (Opened => r = "irq")
  <2>1. at[p].phase = "release" /\ at[p].step \in 1..9 /\ P!ReleasePlan[at[p].step] = r
    BY <1>2, <1>7 DEF P!Releasing
  <2>2. at'[p].phase = "out" \/ at'[p] = [phase |-> "release", step |-> at[p].step + 1]
    <3>1. CASE P!Move(p, "out", 1)
      BY <3>1, <1>0 DEF P!Move
    <3>2. CASE P!Advance(p)
      BY <2>1, <3>2, <1>0 DEF P!Move, P!Advance
    <3> QED
      BY <1>7, <3>1, <3>2 DEF P!Releasing
  <2>3. ~Opened'
    BY <1>1, <2>1, <2>2 DEF OpenedAt
  <2>4. Opened => at[p].step = 1
    BY <1>1, <2>1 DEF OpenedAt
  <2> QED
    BY <2>1, <2>3, <2>4, Assumed, P!ReleaseLoses
<1>8. CASE P!ReleaseIrq(p)
  BY <1>7, <1>8 DEF P!ReleaseIrq
<1>9. CASE P!ReleaseTimer(p) \/ P!ReleaseRest(p)
  BY <1>7, <1>9 DEF P!ReleaseTimer, P!ReleaseRest
<1> QED
  BY <1>3, <1>4, <1>5, <1>6, <1>8, <1>9, SameSession DEF Control

LEMMA ControlIsRead ==
  ASSUME P!Inductive, ProgramInv, NEW p \in Procs, Control(p)
  PROVE  [R!Next]_(R!vars)
<1>1. P!ProcessStep(p) /\ ~P!OpenReset(p) /\ ~P!ReleaseStart(p)
  BY SameSession DEF Control, P!ProcessStep, P!OpenLock, P!Inside, P!OpenAcquire,
     P!OpenIrq, P!OpenReset, P!OpenPlan, P!Unwind, P!ReleaseStart, P!IsOpen, P!ReleaseIrq,
     P!ReleaseTimer, P!ReleaseRest, P!Releasing
<1>2. UNCHANGED <<dataVars, progVars>> /\ UNCHANGED <<handler, scheduled, tasklet>>
  BY SameSession DEF Control, P!OpenLock, P!OpenAcquire, P!OpenIrq, P!Unwind, P!ReleaseIrq,
     P!ReleaseTimer, P!ReleaseRest, P!softVars
<1>3. Opened \in BOOLEAN /\ Opened' \in BOOLEAN
  BY DEF Opened
<1>4. CASE Opened' <=> Opened
  BY <1>2, <1>3, <1>4, ReadUnchanged DEF Putter, Waker, progVars
<1>5. CASE Opened /\ ~Opened' /\ handler = "idle"
  <2>1. reader = "user" /\ call.op # "poll"
    BY <1>1, ProcessMoves DEF ProgramInv, P!IsOpen, R!NoCall, TheRead
  <2>2. /\ Opened' = FALSE /\ Putter = "idle"
        /\ UNCHANGED <<clock, fifo, buffer, readp, Putter, scheduled, Waker, reader, call,
                       waiting, received>>
    BY <1>2, <1>3, <1>5 DEF dataVars, progVars, Putter, Waker
  <2>3. Polled' = FALSE
    BY <2>1, <2>2 DEF Polled
  <2> QED
    BY <1>5, <2>1, <2>2, <2>3 DEF R!Next, R!Release, R!dataVars, R!irqVars
<1> QED
  BY <1>1, <1>4, <1>5, ControlOpened

\* kfifo_reset with the reset of the buffer opens the device, for MuonRead.
LEMMA OpenTimerIsRead ==
  ASSUME P!Inductive, NEW p \in Procs, OpenTimer(p)
  PROVE  [R!Next]_(R!vars)
<1>1. P!OpenTimer(p) /\ P!ProcessStep(p)
  BY SameSession DEF OpenTimer, P!ProcessStep
<1>2. at[p] = [phase |-> "open", step |-> 7] /\ at \in [Procs -> P!Places]
  BY <1>1 DEF P!OpenTimer, P!OpenPlan, P!Inductive, P!TypeOK
<1>3. at'[p] = [phase |-> "open", step |-> 8] \/ at'[p].phase = "dead"
  BY <1>1, <1>2 DEF P!OpenTimer, P!Advance, P!Move
<1>4. ~Opened /\ Opened'
  BY <1>1, <1>2, <1>3, OpenedHere DEF OpenedAt
<1>5. Opened' = TRUE
  BY <1>4 DEF Opened
<1>6. UNCHANGED <<Putter, scheduled, Waker>>
  BY <1>1 DEF P!OpenTimer, P!softVars, Putter, Waker
<1> QED
  BY <1>4, <1>5, <1>6 DEF OpenTimer, progVars, R!Next, R!Open, R!irqVars, Polled

\* open() returns, and close() is called, while the device is open.
LEMMA ReturnsAreRead ==
  ASSUME P!Inductive, NEW p \in Procs, OpenReset(p) \/ ReleaseStart(p)
  PROVE  UNCHANGED (R!vars)
<1>1. P!OpenReset(p) \/ P!ReleaseStart(p)
  BY SameSession DEF OpenReset, ReleaseStart
<1>2. P!ProcessStep(p) /\ at \in [Procs -> P!Places]
  BY <1>1 DEF P!ProcessStep, P!Inductive, P!TypeOK
<1>3. OpenedAt(at[p]) /\ OpenedAt(at'[p])
  BY <1>1, <1>2 DEF P!OpenReset, P!OpenPlan, P!ReleaseStart, P!IsOpen, P!Move, OpenedAt
<1>4. Opened' = Opened
  BY <1>2, <1>3, OpenedHere DEF Opened
<1>5. UNCHANGED <<dataVars, reader, call, scheduled>> /\ Putter' = Putter /\ Waker' = Waker
  BY <1>1 DEF OpenReset, ReleaseStart, P!OpenReset, P!ReleaseStart, P!softVars, Putter, Waker
<1> QED
  BY <1>4, <1>5, ReadUnchanged

\* The handler, the tasklet and the timer.
LEMMA InterruptsAreRead ==
  ASSUME P!Inductive, ProgramInv, [Next]_vars, Handler \/ Tasklet \/ Timer \/ Outside
  PROVE  [R!Next]_(R!vars)
<1>1. P!TypeOK
  BY DEF P!Inductive
<1>2. CASE HandlerPut
  <2>1. P!HandlerPut
    BY <1>2, SameSession DEF HandlerPut
  <2>2. Opened
    BY <2>1, IrqOpened DEF P!HandlerPut
  <2>3. clock < MaxEvents
    <3>1. events \in 0..MaxEvents /\ MaxEvents \in Nat /\ clock \in Nat /\ clock + 1 <= events
      BY <1>1, <2>1, Assumed DEF P!TypeOK, P!HandlerPut, P!SessionAssumption, ProgramInv, P!OneIf
    <3> QED
      BY <3>1
  <2>4. Opened' = Opened /\ Waker' = Waker /\ Polled' = Polled /\ UNCHANGED scheduled
    BY <1>2, <2>1, OpenedUnchanged DEF P!HandlerPut, Waker, Polled, HandlerPut, progVars
  <2>5. R!Put(clock')
    BY <1>2 DEF HandlerPut, Read!Put, R!Put
  <2>6. Putter = "idle" /\ Putter' = "schedule"
    BY <2>1 DEF P!HandlerPut, Putter
  <2> QED
    BY <1>2, <2>2, <2>3, <2>4, <2>5, <2>6 DEF HandlerPut, progVars, R!Next, R!Interrupt
<1>3. CASE HandlerRest
  <2>1. Polled' = Polled /\ UNCHANGED <<dataVars, reader, call>>
    BY <1>3 DEF HandlerRest, progVars, Polled
  <2>2. CASE P!HandlerSchedule
    <3>1. Putter = "schedule" /\ Putter' = "idle" /\ scheduled' = TRUE
      BY <2>2 DEF P!HandlerSchedule, Putter
    <3>2. Opened' = Opened /\ Waker' = Waker
      BY <2>2, OpenedUnchanged DEF P!HandlerSchedule, Waker
    <3> QED
      BY <2>1, <3>1, <3>2 DEF dataVars, R!Next, R!HandlerOrTasklet, R!HandlerSchedule,
         R!dataVars
  <2>3. CASE P!HandlerCount \/ P!HandlerTotal
    <3>1. UNCHANGED <<at, scheduled, tasklet>> /\ Putter' = Putter
      BY <2>3 DEF P!HandlerCount, P!HandlerTotal, Putter
    <3> QED
      BY <2>1, <3>1, OpenedUnchanged, ReadUnchanged DEF Waker
  <2> QED
    BY <1>3, <2>2, <2>3, SameSession DEF HandlerRest
<1>4. CASE TaskletWake
  <2>1. P!TaskletWake
    BY <1>4, SameSession DEF TaskletWake
  <2>2. Opened' = Opened /\ Waker = "wake" /\ Waker' = "idle" /\ Polled' = Polled
    BY <1>4, <2>1, OpenedUnchanged DEF P!TaskletWake, Waker, Polled, TaskletWake, progVars
  <2>3. UNCHANGED <<Putter, scheduled>>
    BY <2>1 DEF P!TaskletWake, Putter
  <2> QED
    BY <1>4, <2>2, <2>3 DEF TaskletWake, progVars, R!Next, R!HandlerOrTasklet, R!TaskletWake,
       R!dataVars
<1>5. CASE TaskletRest
  <2>1. /\ Opened' = Opened /\ Polled' = Polled /\ Putter' = Putter
        /\ UNCHANGED <<dataVars, reader, call>>
    BY <1>5, SameSession, OpenedUnchanged DEF TaskletRest, progVars, Polled, Putter,
       P!TaskletRun, P!TaskletPulse, P!TaskletRearm
  <2>2. CASE P!TaskletRun
    <3>1. Waker = "idle" /\ Waker' = "wake"
      BY <2>2 DEF P!TaskletRun, Waker
    <3> QED
      BY <2>1, <2>2, <3>1 DEF P!TaskletRun, dataVars, R!Next, R!HandlerOrTasklet,
         R!TaskletRun, R!dataVars
  <2>3. CASE P!TaskletPulse \/ P!TaskletRearm
    BY <2>1, <2>3, ReadUnchanged DEF P!TaskletPulse, P!TaskletRearm, Waker
  <2> QED
    BY <1>5, <2>2, <2>3, SameSession DEF TaskletRest
<1>6. CASE Timer \/ Outside
  <2>1. /\ Opened' = Opened /\ Putter' = Putter /\ Waker' = Waker
        /\ UNCHANGED <<dataVars, reader, call, scheduled>>
    BY <1>6, SameSession, OpenedUnchanged DEF Timer, Outside, progVars, P!TimerExpire,
       P!TimerFunction, P!TimerTest, P!TimerReset, P!TimerCount, P!TimerTotal, P!TimerRearm,
       P!LatchSet, P!SysReset, P!softVars, Putter, Waker
  <2> QED
    BY <2>1, ReadUnchanged
<1> QED
  BY <1>2, <1>3, <1>4, <1>5, <1>6 DEF Handler, Tasklet

\* The program.
LEMMA ProgramIsRead ==
  ASSUME P!Inductive, ProgramInv, OpenPulse \/ WritePulse \/ CallRead \/ Reader \/ Killed
  PROVE  [R!Next]_(R!vars)
<1>1. CASE OpenPulse \/ WritePulse
  <2>1. UNCHANGED <<at, tasklet, dataVars, reader, call, handler, scheduled>>
    BY <1>1, SameSession DEF OpenPulse, WritePulse, sessionVars, P!LatchSet, P!softVars
  <2> QED
    BY <2>1, OpenedUnchanged, ReadUnchanged DEF Putter, Waker
<1>2. CASE CallRead
  <2>1. Read!Call(TheRead) /\ R!Call(TheRead)
    BY <1>2 DEF CallRead, TheRead, Read!Call, R!Call, Read!dataVars, R!dataVars, Read!irqVars,
       R!irqVars
  <2>2. TheRead \in R!Calls
    BY DEF TheRead, R!Calls
  <2> QED
    BY <2>1, <2>2 DEF R!Next
<1>3. CASE Reader \/ Killed
  <2>1. Read!Next
    BY <1>3 DEF Reader, Reading, ReadReturns, Killed, Read!Next, Read!ReaderStep
  <2> QED
    BY <2>1, SameRead
<1> QED
  BY <1>1, <1>2, <1>3

\* Every step is one of MuonRead, or none.
LEMMA ReadSteps ==
  ASSUME P!Inductive, ProgramInv, [Next]_vars
  PROVE  [R!Next]_(R!vars)
<1>1. CASE UNCHANGED vars
  BY <1>1, ReadUnchanged, OpenedUnchanged DEF vars, sessionVars, progVars, Putter, Waker
<1> QED
  BY <1>1, ControlIsRead, OpenTimerIsRead, ReturnsAreRead, InterruptsAreRead, ProgramIsRead
     DEF Next

-----------------------------------------------------------------------------
(* The program's reads.  The program asks for one record at a time, so the  *)
(* transfer buffer never holds a part of one.                               *)

Whole(n) == \E m \in Nat : n = m * TsSize

ReadsInv ==
  /\ client # "failed"
  /\ reader # "user" => call = TheRead
  /\ Whole(Len(buffer)) /\ Whole(readp)

LEMMA WholeAdds ==
  ASSUME NEW n \in Nat, Whole(n)
  PROVE  Whole(0) /\ Whole(n + TsSize)
<1>1. TsSize \in Nat
  BY Assumed DEF R!ReadAssumption
<1>2. PICK m \in Nat : n = m * TsSize
  BY DEF Whole
<1>3. n + TsSize = (m + 1) * TsSize /\ m + 1 \in Nat
  BY <1>1, <1>2
<1>4. 0 = 0 * TsSize
  BY <1>1
<1> QED
  BY <1>3, <1>4 DEF Whole

\* Between two different whole numbers of records there is at least one.
LEMMA WholeApart ==
  ASSUME NEW m \in Nat, NEW n \in Nat, Whole(m), Whole(n), n < m
  PROVE  n + TsSize <= m
<1>1. TsSize \in Nat
  BY Assumed DEF R!ReadAssumption
<1>2. PICK i \in Nat : m = i * TsSize
  BY DEF Whole
<1>3. PICK j \in Nat : n = j * TsSize
  BY DEF Whole
<1>4. j < i
  <2>1. SUFFICES ASSUME i <= j PROVE FALSE
    OBVIOUS
  <2>2. i * TsSize <= j * TsSize
    BY <1>1, <2>1
  <2> QED
    BY <1>2, <1>3, <2>2
<1>5. (j + 1) * TsSize <= i * TsSize
  BY <1>1, <1>4
<1> QED
  BY <1>1, <1>2, <1>3, <1>5

\* A read returns exactly one record.
LEMMA CopyIsWhole ==
  ASSUME R!Inductive, ReadsInv, Read!Copy
  PROVE  Len(received') = Len(received) + TsSize /\ readp' = readp + TsSize
<1>1. call.count = TsSize
  BY DEF ReadsInv, Read!Copy, Read!Return, TheRead
<1>2. /\ buffer \in Seq(R!Byte) /\ received \in Seq(R!Byte)
      /\ readp \in Nat /\ Len(buffer) \in Nat /\ TsSize \in Nat
  BY Assumed, LenProperties DEF R!Inductive, R!TypeOK, R!Byte, R!ReadAssumption
<1>3. Len(buffer) > readp
  BY DEF R!Inductive, R!PastWait, Read!Copy, Read!Return
<1>4. readp + TsSize <= Len(buffer)
  BY <1>2, <1>3, WholeApart DEF ReadsInv
<1>5. Read!Smaller(call.count, Len(buffer) - readp) = TsSize
  BY <1>1, <1>2, <1>4 DEF Read!Smaller
<1> DEFINE taken == SubSeq(buffer, readp + 1, readp + TsSize)
<1>6. readp' = readp + TsSize /\ received' = received \o taken
  BY <1>5 DEF Read!Copy
<1>7. \A i \in (readp + 1)..(readp + TsSize) : buffer[i] \in R!Byte
  BY <1>2, <1>4, ElementOfSeq
<1>8. taken \in Seq(R!Byte) /\ Len(taken) = TsSize
  BY <1>2, <1>7, SubSeqProperties
<1> QED
  BY <1>2, <1>6, <1>8, ConcatProperties

LEMMA NextReadsInv ==
  ASSUME P!Inductive, ProgramInv, R!Inductive, ReadsInv, [Next]_vars
  PROVE  ReadsInv'
<1>1. /\ buffer \in Seq(R!Byte) /\ fifo \in Seq(1..MaxEvents)
      /\ readp \in Nat /\ Len(buffer) \in Nat /\ TsSize \in Nat
  BY Assumed, LenProperties DEF R!Inductive, R!TypeOK, R!Byte, R!ReadAssumption
<1>2. Whole(0) /\ Whole(readp + TsSize) /\ Whole(Len(buffer) + TsSize)
  BY <1>1, WholeAdds DEF ReadsInv
<1>3. ASSUME UNCHANGED <<buffer, readp>>, client' # "failed",
             reader' # "user" => call' = TheRead
      PROVE  ReadsInv'
  BY <1>3 DEF ReadsInv, Whole
<1>4. ASSUME NEW p \in Procs, OpenTimer(p)
      PROVE  ReadsInv'
  BY <1>2, <1>4 DEF OpenTimer, progVars, ReadsInv, Whole
<1>5. ASSUME NEW p \in Procs, Control(p) \/ OpenReset(p) \/ ReleaseStart(p)
      PROVE  ReadsInv'
  BY <1>3, <1>5 DEF Control, OpenReset, ReleaseStart, dataVars, progVars, ReadsInv
<1>6. CASE Handler \/ Tasklet \/ Timer \/ Outside
  BY <1>3, <1>6 DEF Handler, HandlerPut, HandlerRest, Tasklet, TaskletWake, TaskletRest,
     Timer, Outside, dataVars, progVars, ReadsInv
\* All files are there while the device is open.
<1>7. CASE OpenPulse
  <2>1. PICK p \in Procs : P!IsOpen(p)
    BY <1>7 DEF OpenPulse, ProgramInv
  <2>2. held = P!Resources
    BY <2>1, Alone DEF P!IsOpen, P!Owner, P!PlaceHolds
  <2>3. client' = "pulse"
    BY <1>7, <2>2 DEF OpenPulse, P!Resources, P!Files
  <2> QED
    BY <1>3, <1>7, <2>3 DEF OpenPulse, dataVars, ReadsInv
<1>8. CASE WritePulse
  BY <1>3, <1>8 DEF WritePulse, dataVars, ReadsInv
<1>9. CASE CallRead
  BY <1>3, <1>9 DEF CallRead, dataVars, Read!Call, TheRead
<1>10. CASE Reading
  <2>1. CASE Read!Test \/ Read!Prepare \/ Read!Recheck \/ Read!Woken
    BY <1>3, <1>10, <2>1 DEF Reading, Read!Test, Read!Prepare, Read!Recheck, Read!Woken, Read!Goto,
       Read!Return, Read!dataVars, ReadsInv
  <2>2. reader # "user" /\ UNCHANGED <<call, client>>
        => client' # "failed" /\ call' = TheRead
    BY DEF ReadsInv
  <2>3. CASE Read!Fill
    <3>1. Len(<<>>) = 0
      OBVIOUS
    <3>2. CASE readp = Len(buffer)
      <4>1. buffer' = <<>> /\ readp' = 0
        BY <2>3, <3>2 DEF Read!Fill
      <4> QED
        BY <1>2, <1>10, <2>2, <2>3, <3>1, <4>1 DEF Reading, Read!Fill, Read!Goto, ReadsInv, Whole
    <3>3. CASE readp # Len(buffer)
      BY <1>3, <1>10, <2>2, <2>3, <3>3 DEF Reading, Read!Fill, Read!Goto
    <3> QED
      BY <3>2, <3>3
  <2>4. CASE Read!Drain
    <3>1. reader # "user" /\ UNCHANGED <<call, client, readp>>
      BY <1>10, <2>4 DEF Reading, Read!Drain, Read!Goto
    <3>2. CASE fifo = <<>> \/ Read!NoRoom
      BY <1>3, <2>2, <2>4, <3>1, <3>2 DEF Read!Drain
    <3>3. CASE ~(fifo = <<>> \/ Read!NoRoom)
      <4>1. buffer' = buffer \o R!Record(Head(fifo))
        BY <2>4, <3>3 DEF Read!Drain, Read!Record, R!Record
      <4>2. Head(fifo) \in 1..MaxEvents
        BY <1>1, <3>3, HeadTailProperties
      <4>3. R!Record(Head(fifo)) \in Seq(R!Byte) /\ Len(R!Record(Head(fifo))) = TsSize
        BY <4>2, Assumed, R!RecordType
      <4>4. Len(buffer') = Len(buffer) + TsSize
        BY <1>1, <4>1, <4>3, ConcatProperties
      <4> QED
        BY <1>2, <2>2, <3>1, <4>4 DEF ReadsInv, Whole
    <3> QED
      BY <3>2, <3>3
  <2> QED
    BY <1>10, <2>1, <2>3, <2>4 DEF Reading
<1>11. CASE ReadReturns
  <2>1. Len(received') = Len(received) + TsSize /\ readp' = readp + TsSize
    BY <1>11, CopyIsWhole DEF ReadReturns
  <2>2. client' = "pulse" /\ reader' = "user" /\ UNCHANGED buffer
    BY <1>11, <2>1 DEF ReadReturns, Read!Copy, Read!Return
  <2> QED
    BY <1>2, <2>1, <2>2 DEF ReadsInv, Whole
<1>12. CASE Killed
  BY <1>3, <1>12 DEF Killed, Read!Interrupted, Read!Return, Read!dataVars
<1>13. CASE UNCHANGED vars
  BY <1>3, <1>13 DEF vars, dataVars, progVars, ReadsInv
<1> QED
  BY <1>4, <1>5, <1>6, <1>7, <1>8, <1>9, <1>10, <1>11, <1>12, <1>13 DEF Next, Reader

-----------------------------------------------------------------------------
(* The theorems.                                                           *)

Inductive == P!Inductive /\ ProgramInv /\ R!Inductive /\ ReadsInv

LEMMA InitInductive == Init => Inductive
<1> SUFFICES ASSUME Init PROVE Inductive
  OBVIOUS
<1>1. P!Inductive
  BY InitSession
<1>2. R!Init /\ client = "out"
  BY SameRead DEF Init
<1>3. R!Inductive
  BY <1>2, Assumed, R!InitInductive
<1>4. ProgramInv
  <2>1. reader = "user" /\ call = R!NoCall /\ clock = 0
    BY <1>2 DEF R!Init
  <2>2. ~\E p \in Procs : P!IsOpen(p)
    BY SameSession DEF Init, P!Init, P!Out, P!IsOpen
  <2>3. edge = FALSE /\ events \in Nat
    BY SameSession, Assumed DEF Init, P!Init, P!SessionAssumption
  <2> QED
    BY <1>2, <2>1, <2>2, <2>3 DEF ProgramInv, P!OneIf
<1>5. ReadsInv
  <2>1. TsSize \in Nat /\ 0 = 0 * TsSize /\ Len(<<>>) = 0
    BY Assumed DEF R!ReadAssumption
  <2> QED
    BY <1>2, <2>1 DEF R!Init, ReadsInv, Whole
<1> QED
  BY <1>1, <1>3, <1>4, <1>5 DEF Inductive

LEMMA NextInductive == Inductive /\ [Next]_vars => Inductive'
BY NextSession, NextProgramInv, NextReadsInv, ReadSteps, Assumed, R!NextInductive DEF Inductive

LEMMA InductiveAlways == Spec => []Inductive
BY InitInductive, NextInductive, PTL DEF Spec

\* The whole driver keeps the types of both its halves, and the program is in
\* main() exactly while a process has the device open.
THEOREM TypeCorrect == Spec => []TypeOK
<1>1. Inductive => TypeOK
  BY SameSession, SameRead DEF Inductive, P!Inductive, R!Inductive, ProgramInv, TypeOK
<1> QED
  BY <1>1, InductiveAlways, PTL

\* c99_example.c never exits with an error: whatever interrupts, resets and
\* timers do around its reads, each returns exactly sizets bytes
\* (c99_example.c lines 26 and 44, muon_timer.c lines 388-457).
THEOREM ExampleRunsOn == Spec => []ExampleNeverFails
<1>1. Inductive => ExampleNeverFails
  BY DEF Inductive, ReadsInv, ExampleNeverFails
<1> QED
  BY <1>1, InductiveAlways, PTL

\* With open, its failures, release, left-over tasklets and the program as they
\* are, the data path does nothing that MuonRead does not know of: what is
\* proved and checked of MuonRead holds in the whole driver.
THEOREM DriverImplementsRead == Spec => ImplementsRead
<1>1. Init => Read!Init
  BY DEF Init
<1>2. Inductive /\ [Next]_vars => [Read!Next]_(Read!vars)
  <2>1. UNCHANGED (R!vars) => UNCHANGED (Read!vars)
    BY DEF R!vars, R!dataVars, R!irqVars, Read!vars, Read!dataVars, Read!irqVars
  <2> QED
    BY <2>1, ReadSteps, SameRead DEF Inductive
<1> QED
  BY <1>1, <1>2, InductiveAlways, PTL DEF Spec, ImplementsRead, Read!Spec

-----------------------------------------------------------------------------
(* The records of a session are the interrupts that the session counts.     *)
(*                                                                         *)
(* An interrupt adds a record to the fifo or is dropped by a full one; from *)
(* there the bytes only move, fifo to buffer to program.  The counts of the *)
(* two start at 0 at different steps of open(), with the fifo reset late,  *)
(* so the invariant says also that nothing is counted in between.          *)

\* All the bytes of the session: returned, in the transfer buffer, in the fifo.
Taken == Len(received) + (Len(buffer) - readp) + TsSize * Len(fifo)

Counted == curInts + InHandler

\* From the reset of the counters in open() to that of the fifo.
Early(l) == l.phase = "open" /\ l.step <= 7

CountInv ==
  /\ \A p \in Procs : Early(at[p]) => curInts = 0
  /\ Opened => /\ Taken <= TsSize * Counted
               /\ Counted <= FifoSize => Taken = TsSize * Counted

LEMMA CountTypes ==
  ASSUME Inductive
  PROVE  /\ received \in Seq(R!Byte) /\ buffer \in Seq(R!Byte) /\ fifo \in Seq(1..MaxEvents)
         /\ readp \in Nat /\ readp <= Len(buffer) /\ Len(fifo) <= FifoSize
         /\ Len(received) \in Nat /\ Len(buffer) \in Nat /\ Len(fifo) \in Nat
         /\ TsSize \in Nat \ {0} /\ FifoSize \in Nat
         /\ curInts \in Nat /\ InHandler \in {0, 1}
<1>1. /\ received \in Seq(R!Byte) /\ buffer \in Seq(R!Byte) /\ fifo \in Seq(1..MaxEvents)
      /\ Len(fifo) <= FifoSize /\ readp \in 0..Len(buffer)
  BY DEF Inductive, R!Inductive, R!TypeOK, R!Byte
<1>2. TsSize \in Nat \ {0} /\ FifoSize \in Nat
  BY Assumed DEF R!ReadAssumption
<1>3. curInts \in Nat /\ InHandler \in {0, 1}
  BY DEF Inductive, P!Inductive, P!TypeOK, InHandler
<1> QED
  BY <1>1, <1>2, <1>3, LenProperties

-----------------------------------------------------------------------------
(* The bytes.                                                              *)

\* Every step of the program keeps the bytes of the session together.
LEMMA ProgramKeepsTaken ==
  ASSUME Inductive, OpenPulse \/ WritePulse \/ CallRead \/ Reader \/ Killed
  PROVE  Taken' = Taken
<1>1. CASE OpenPulse \/ WritePulse \/ CallRead \/ Killed
  BY <1>1 DEF OpenPulse, WritePulse, CallRead, Killed, Read!Call, Read!Interrupted, Read!Return,
     dataVars, Read!dataVars, Taken
<1>2. CASE Read!Test \/ Read!Prepare \/ Read!Recheck \/ Read!Woken
  BY <1>2 DEF Read!Test, Read!Prepare, Read!Recheck, Read!Woken, Read!dataVars, Taken
<1>3. CASE Read!Fill
  <2>1. UNCHANGED <<fifo, received>>
    BY <1>3 DEF Read!Fill
  <2>2. CASE readp = Len(buffer)
    <3>1. Len(<<>>) = 0 /\ Len(buffer) - readp = 0
      BY <2>2, CountTypes
    <3>2. buffer' = <<>> /\ readp' = 0
      BY <1>3, <2>2 DEF Read!Fill
    <3> QED
      BY <2>1, <3>1, <3>2 DEF Taken
  <2>3. CASE readp # Len(buffer)
    BY <1>3, <2>1, <2>3 DEF Read!Fill, Taken
  <2> QED
    BY <2>2, <2>3
<1>4. CASE Read!Drain
  <2>1. UNCHANGED <<readp, received>>
    BY <1>4 DEF Read!Drain
  <2>2. CASE fifo = <<>> \/ Read!NoRoom
    BY <1>4, <2>1, <2>2 DEF Read!Drain, Taken
  <2>3. CASE ~(fifo = <<>> \/ Read!NoRoom)
    <3>1. buffer' = buffer \o R!Record(Head(fifo)) /\ fifo' = Tail(fifo)
      BY <1>4, <2>3 DEF Read!Drain, Read!Record, R!Record
    <3>2. Head(fifo) \in 1..MaxEvents /\ Len(Tail(fifo)) = Len(fifo) - 1
      BY <2>3, CountTypes, HeadTailProperties
    <3>3. R!Record(Head(fifo)) \in Seq(R!Byte) /\ Len(R!Record(Head(fifo))) = TsSize
      BY <3>2, Assumed, R!RecordType
    <3>4. Len(buffer') = Len(buffer) + TsSize /\ Len(fifo') = Len(fifo) - 1
      BY <3>1, <3>2, <3>3, CountTypes, ConcatProperties
    <3>5. TsSize * Len(fifo') = TsSize * Len(fifo) - TsSize
      BY <3>4, CountTypes
    <3>6. TsSize * Len(fifo) \in Int
      BY CountTypes
    <3> QED
      BY <2>1, <3>4, <3>5, <3>6, CountTypes DEF Taken
  <2> QED
    BY <2>2, <2>3
<1>5. CASE Read!Copy
  <2>1. Len(received') = Len(received) + TsSize /\ readp' = readp + TsSize
    BY <1>5, CopyIsWhole DEF Inductive
  <2>2. UNCHANGED <<buffer, fifo>>
    BY <1>5 DEF Read!Copy
  <2>3. TsSize * Len(fifo) \in Int
    BY CountTypes
  <2> QED
    BY <2>1, <2>2, <2>3, CountTypes DEF Taken
<1> QED
  BY <1>1, <1>2, <1>3, <1>4, <1>5 DEF Reader, Reading, ReadReturns

\* An interrupt is one more record, unless the fifo is full: then more have
\* been counted than fit.
LEMMA PutKeepsCount ==
  ASSUME Inductive, CountInv, HandlerPut, Opened
  PROVE  /\ Taken' <= TsSize * Counted'
         /\ Counted' <= FifoSize => Taken' = TsSize * Counted'
<1>1. UNCHANGED <<buffer, readp, received>> /\ Read!Put(clock')
  BY DEF HandlerPut
<1>2. handler = "idle" /\ handler' = "schedule" /\ curInts' = curInts
  BY SameSession DEF HandlerPut, P!HandlerPut, P!counters
<1>3. Counted \in Nat /\ Counted' = Counted + 1 /\ TsSize * Counted \in Int
      /\ TsSize * Counted' = TsSize * Counted + TsSize
  BY <1>2, CountTypes DEF Counted, InHandler
<1>4. Taken <= TsSize * Counted /\ (Counted <= FifoSize => Taken = TsSize * Counted)
  BY DEF CountInv
<1>5. Taken \in Int /\ TsSize * Len(fifo) \in Int
  BY CountTypes DEF Taken
<1>6. CASE Len(fifo) < FifoSize
  <2>1. fifo' = Append(fifo, clock') /\ Len(fifo') = Len(fifo) + 1
    BY <1>1, <1>6, CountTypes DEF Read!Put
  <2>2. TsSize * Len(fifo') = TsSize * Len(fifo) + TsSize
    BY <2>1, CountTypes
  <2>3. Taken' = Taken + TsSize
    <3>1. Taken' = Len(received) + (Len(buffer) - readp) + TsSize * Len(fifo')
      BY <1>1 DEF Taken
    <3>2. Taken = Len(received) + (Len(buffer) - readp) + TsSize * Len(fifo)
      BY DEF Taken
    <3> DEFINE m == Len(received) + (Len(buffer) - readp)
               f == TsSize * Len(fifo)
    <3>3. m \in Int /\ f \in Int /\ Taken = m + f /\ Taken' = m + (f + TsSize)
      BY <1>5, <2>2, <3>1, <3>2, CountTypes
    <3> QED
      BY <3>3, CountTypes
  <2> QED
    BY <1>3, <1>4, <1>5, <2>3, CountTypes
<1>7. CASE ~(Len(fifo) < FifoSize)
  <2>1. Taken' = Taken
    BY <1>1, <1>7 DEF Read!Put, Taken
  <2>2. Len(fifo) = FifoSize /\ TsSize * FifoSize <= Taken
    <3>1. Len(fifo) = FifoSize
      BY <1>7, CountTypes
    <3> QED
      BY <1>5, <3>1, CountTypes DEF Taken
  <2>3. ~(Counted < FifoSize)
    <3>1. SUFFICES ASSUME Counted < FifoSize PROVE FALSE
      OBVIOUS
    <3>2. TsSize * Counted < TsSize * FifoSize
      BY <1>3, <3>1, CountTypes
    <3> QED
      BY <1>3, <1>4, <1>5, <2>2, <3>2, CountTypes
  <2> QED
    BY <1>3, <1>4, <1>5, <2>1, <2>3, CountTypes
<1> QED
  BY <1>6, <1>7

-----------------------------------------------------------------------------
(* The counters.                                                           *)

\* The steps of a process that lead between the two resets.
LEMMA EarlySteps ==
  ASSUME P!Inductive, NEW p \in Procs, P!ProcessStep(p), Early(at'[p])
  PROVE  P!OpenLock(p) \/ (Early(at[p]) /\ UNCHANGED curInts)
<1>1. at \in [Procs -> P!Places]
  BY DEF P!Inductive, P!TypeOK
<1>2. CASE P!OpenAcquire(p)
  <2>1. at[p].phase = "open" /\ at[p].step \in 1..6
    BY <1>2, Assumed, P!PlanLengths DEF P!OpenAcquire
  <2> QED
    BY <1>2, <2>1 DEF Early, P!OpenAcquire, P!counters
<1>3. CASE P!OpenTimer(p)
  <2>1. at[p] = [phase |-> "open", step |-> 7]
    BY <1>3 DEF P!OpenTimer, P!OpenPlan
  <2>2. at'[p] = [phase |-> "open", step |-> 8] \/ at'[p].phase = "dead"
    BY <1>1, <1>3, <2>1 DEF P!OpenTimer, P!Advance, P!Move
  <2> QED
    BY <2>2 DEF Early
<1>4. CASE P!OpenIrq(p)
  <2>1. at[p] = [phase |-> "open", step |-> 8]
    BY <1>4 DEF P!OpenIrq, P!OpenPlan
  <2>2. at'[p] = [phase |-> "open", step |-> 9] \/ at'[p].phase = "unwind"
    <3>1. CASE P!Advance(p)
      BY <1>1, <2>1, <3>1 DEF P!Advance, P!Move
    <3>2. CASE P!Fail(p, "irq")
      <4>1. P!Move(p, "unwind", P!UnwindFrom["irq"])
        BY <3>2 DEF P!Fail
      <4> QED
        BY <4>1, <1>1 DEF P!Move
    <3> QED
      BY <1>4, <3>1, <3>2 DEF P!OpenIrq
  <2> QED
    BY <2>2 DEF Early
<1>5. CASE P!OpenReset(p) \/ P!ReleaseStart(p)
  <2>1. at'[p].phase \in {"in", "release"}
    BY <1>1, <1>5 DEF P!OpenReset, P!ReleaseStart, P!Move
  <2> QED
    BY <2>1 DEF Early
<1>6. CASE P!Unwind(p) \/ P!ReleaseIrq(p) \/ P!ReleaseTimer(p) \/ P!ReleaseRest(p)
  <2>1. at'[p].phase \in {"unwind", "release", "out"}
    BY <1>1, <1>6 DEF P!Unwind, P!ReleaseIrq, P!ReleaseTimer, P!ReleaseRest, P!Releasing,
       P!Advance, P!Move
  <2> QED
    BY <2>1 DEF Early
<1> QED
  BY <1>2, <1>3, <1>4, <1>5, <1>6 DEF P!ProcessStep

\* While the fifo has yet to be reset nobody has the interrupt.
LEMMA EarlyQuiet ==
  ASSUME P!Inductive, NEW p \in Procs, Early(at[p])
  PROVE  ~Opened /\ handler = "idle"
<1>1. \A q \in Procs \ {p} : at[q].phase = "out"
  BY Alone DEF Early
<1>2. ~OpenedAt(at[p])
  <2>1. at[p].step \in 1..9
    BY Assumed, P!PlaceOf DEF Early, P!Inductive, P!TypeOK
  <2> QED
    BY <2>1 DEF OpenedAt, Early
<1>3. ~Opened
  BY <1>1, <1>2, OpenedWhere DEF OpenedAt
<1> QED
  BY <1>3, IrqOpened DEF P!Inductive, P!HandlerHolds

LEMMA ProcessKeepsEarly ==
  ASSUME P!Inductive, CountInv, NEW p \in Procs, P!ProcessStep(p)
  PROVE  /\ \A q \in Procs : Early(at'[q]) => curInts' = 0
         /\ UNCHANGED curInts \/ P!OpenLock(p)
<1>1. P!OpenLock(p) => curInts' = 0
  BY DEF P!OpenLock
<1>2. \A q \in Procs \ {p} : ~Early(at'[q])
  BY ProcessMoves DEF Early
<1>3. Early(at'[p]) => curInts' = 0
  BY <1>1, EarlySteps DEF CountInv
<1>4. UNCHANGED curInts \/ P!OpenLock(p)
  BY DEF P!ProcessStep, P!OpenAcquire, P!OpenTimer, P!OpenIrq, P!OpenReset, P!Unwind,
     P!ReleaseStart, P!ReleaseIrq, P!ReleaseTimer, P!ReleaseRest, P!counters
<1> QED
  BY <1>2, <1>3, <1>4

-----------------------------------------------------------------------------
(* The theorem.                                                            *)

LEMMA InitCountInv == Init => CountInv
<1> SUFFICES ASSUME Init PROVE CountInv
  OBVIOUS
<1>1. \A p \in Procs : at[p].phase = "out"
  <2>1. P!Init
    BY SameSession DEF Init
  <2> QED
    BY <2>1 DEF P!Init, P!Out
<1> QED
  BY <1>1, OpenedWhere DEF CountInv, Early, OpenedAt

LEMMA NextCountInv ==
  ASSUME Inductive, CountInv, [Next]_vars
  PROVE  CountInv'
<1> USE DEF Inductive
\* Where neither bytes nor counts change, and the device was open before.
<1>1. ASSUME Taken' = Taken, Counted' = Counted, Opened' => Opened,
             \A p \in Procs : Early(at'[p]) => curInts' = 0
      PROVE  CountInv'
  BY <1>1 DEF CountInv
<1>2. ASSUME UNCHANGED <<at, curInts>>
      PROVE  (\A p \in Procs : Early(at'[p]) => curInts' = 0) /\ Opened' = Opened
  BY <1>2, OpenedUnchanged DEF CountInv
<1>3. ASSUME NEW p \in Procs, Control(p)
      PROVE  CountInv'
  <2>1. P!ProcessStep(p) /\ UNCHANGED <<dataVars, handler>>
    BY <1>3, SameSession DEF Control, P!ProcessStep, P!OpenLock, P!OpenAcquire, P!OpenIrq,
       P!Unwind, P!ReleaseIrq, P!ReleaseTimer, P!ReleaseRest, P!softVars
  <2>2. Taken' = Taken
    BY <2>1 DEF dataVars, Taken
  <2>3. Opened' => Opened
    BY <1>3, <2>1, ControlOpened
  <2>4. CASE UNCHANGED curInts
    BY <1>1, <2>1, <2>2, <2>3, <2>4, ProcessKeepsEarly DEF Counted, InHandler
  <2>5. CASE P!OpenLock(p)
    <3>1. at[p].phase = "out"
      BY <2>5 DEF P!OpenLock, P!Inside
    <3>2. ~Opened'
      BY <2>1, <2>3, <3>1, OpenedHere DEF OpenedAt
    <3> QED
      BY <2>1, <3>2, ProcessKeepsEarly DEF CountInv
  <2> QED
    BY <2>1, <2>4, <2>5, ProcessKeepsEarly
<1>4. ASSUME NEW p \in Procs, OpenTimer(p)
      PROVE  CountInv'
  <2>1. P!OpenTimer(p) /\ P!ProcessStep(p)
    BY <1>4, SameSession DEF OpenTimer, P!ProcessStep
  <2>2. Early(at[p]) /\ UNCHANGED <<handler, curInts>>
    BY <2>1 DEF P!OpenTimer, P!OpenPlan, Early, P!softVars, P!counters
  <2>3. curInts = 0 /\ handler = "idle"
    BY <2>2, EarlyQuiet DEF CountInv
  <2>4. Counted' = 0
    BY <2>2, <2>3 DEF Counted, InHandler
  <2>5. Taken' = 0
    <3>1. fifo' = <<>> /\ buffer' = <<>> /\ readp' = 0 /\ received' = <<>>
      BY <1>4 DEF OpenTimer
    <3>2. Len(<<>>) = 0 /\ TsSize * 0 = 0
      BY CountTypes
    <3> QED
      BY <3>1, <3>2 DEF Taken
  <2>6. TsSize * 0 = 0
    BY CountTypes
  <2> QED
    BY <2>1, <2>4, <2>5, <2>6, ProcessKeepsEarly DEF CountInv
<1>5. ASSUME NEW p \in Procs, OpenReset(p) \/ ReleaseStart(p)
      PROVE  CountInv'
  <2>1. P!ProcessStep(p) /\ ~P!OpenLock(p) /\ UNCHANGED <<dataVars, handler>>
    BY <1>5, SameSession DEF OpenReset, ReleaseStart, P!ProcessStep, P!OpenReset,
       P!ReleaseStart, P!IsOpen, P!OpenLock, P!Inside, P!softVars
  <2>2. Opened' = Opened
    BY <1>5, ReturnsAreRead DEF R!vars
  <2>3. UNCHANGED curInts
    BY <2>1, ProcessKeepsEarly
  <2> QED
    BY <1>1, <2>1, <2>2, <2>3, ProcessKeepsEarly DEF Taken, Counted, InHandler, dataVars
<1>6. CASE HandlerPut
  <2>1. UNCHANGED <<at, curInts>> /\ "irq" \in held
    BY <1>6, SameSession DEF HandlerPut, P!HandlerPut, P!counters
  <2>2. Opened
    BY <2>1, IrqOpened
  <2> QED
    BY <1>2, <1>6, <2>1, <2>2, PutKeepsCount DEF CountInv
\* ++cur_ints takes over what the handler stands for; ++tot_ints counts nothing.
<1>7. CASE HandlerRest
  <2>1. /\ handler # "idle" /\ UNCHANGED <<at, dataVars>>
        /\ \/ handler = "schedule" /\ handler' = "count" /\ curInts' = curInts
           \/ handler = "count" /\ handler' = "total" /\ curInts' = curInts + 1
           \/ handler = "total" /\ handler' = "idle" /\ curInts' = curInts
    BY <1>7, SameSession DEF HandlerRest, P!HandlerSchedule, P!HandlerCount, P!HandlerTotal,
       P!counters
  <2>2. Counted' = Counted
    BY <2>1, CountTypes DEF Counted, InHandler
  <2>3. \A p \in Procs : ~Early(at'[p])
    BY <2>1, EarlyQuiet
  <2> QED
    BY <1>1, <2>1, <2>2, <2>3, OpenedUnchanged DEF Taken, dataVars
<1>8. CASE Tasklet \/ Timer \/ Outside
  <2>1. UNCHANGED <<at, curInts, handler, dataVars>> \/ UNCHANGED <<at, curInts, handler, fifo,
                                                          buffer, readp, received>>
    BY <1>8, SameSession DEF Tasklet, TaskletWake, TaskletRest, Timer, Outside, P!TaskletRun,
       P!TaskletPulse, P!TaskletWake, P!TaskletRearm, P!TimerExpire, P!TimerFunction,
       P!TimerTest, P!TimerReset, P!TimerCount, P!TimerTotal, P!TimerRearm, P!LatchSet,
       P!SysReset, P!softVars, P!counters
  <2> QED
    BY <1>1, <1>2, <2>1 DEF Taken, Counted, InHandler, dataVars
<1>9. CASE OpenPulse \/ WritePulse \/ CallRead \/ Reader \/ Killed
  <2>1. UNCHANGED <<at, curInts, handler>>
    BY <1>9, SameSession DEF OpenPulse, WritePulse, CallRead, Reader, Reading, ReadReturns,
       Killed, sessionVars, P!LatchSet, P!softVars, P!counters
  <2> QED
    BY <1>1, <1>2, <1>9, <2>1, ProgramKeepsTaken DEF Counted, InHandler
<1>10. CASE UNCHANGED vars
  BY <1>1, <1>2, <1>10 DEF vars, sessionVars, dataVars, Taken, Counted, InHandler
<1> QED
  BY <1>3, <1>4, <1>5, <1>6, <1>7, <1>8, <1>9, <1>10 DEF Next, Handler

LEMMA CountInvAlways == Spec => []CountInv
BY InitCountInv, NextCountInv, InductiveAlways, PTL DEF Spec

LEMMA UndeliveredLen ==
  ASSUME Inductive
  PROVE  Len(Read!Undelivered) = (Len(buffer) - readp) + TsSize * Len(fifo)
<1> DEFINE rest == SubSeq(buffer, readp + 1, Len(buffer))
<1>1. Read!Undelivered = rest \o R!Bytes(fifo)
  BY DEF Read!Undelivered, Read!Bytes, R!Bytes
<1>2. rest \in Seq(R!Byte) /\ Len(rest) = Len(buffer) - readp
  <2>1. \A i \in (readp + 1)..Len(buffer) : buffer[i] \in R!Byte
    BY CountTypes, ElementOfSeq
  <2> QED
    BY <2>1, CountTypes, SubSeqProperties
<1>3. R!Bytes(fifo) \in Seq(R!Byte)
  BY CountTypes, Assumed, R!BytesType
<1>4. Len(R!Bytes(fifo)) = TsSize * Len(fifo)
  <2>1. /\ DOMAIN R!Bytes(fifo) = 1..(TsSize * Len(fifo))
        /\ DOMAIN R!Bytes(fifo) = 1..Len(R!Bytes(fifo))
    BY <1>3, LenProperties DEF R!Bytes
  <2>2. TsSize * Len(fifo) \in Nat /\ Len(R!Bytes(fifo)) \in Nat
    BY <1>3, CountTypes, LenProperties
  <2> QED
    BY <2>1, <2>2
<1> QED
  BY <1>1, <1>2, <1>3, <1>4, ConcatProperties

\* In every session, the bytes that were returned or wait to be are the
\* interrupts counted, times the size of a record: never more, and none missing
\* as long as they fit in the fifo, whatever an earlier session left behind
\* (lines 127-136, 234, 282).
THEOREM RecordsAlwaysCounted == Spec => []RecordsCounted
<1>1. Inductive /\ CountInv => RecordsCounted
  <2>1. SUFFICES ASSUME Inductive, CountInv, Opened PROVE RecordsCounted
    BY DEF RecordsCounted
  <2>2. Len(received) + Len(Read!Undelivered) = Taken
    <3>1. TsSize * Len(fifo) \in Int
      BY <2>1, CountTypes
    <3>2. Len(Read!Undelivered) = (Len(buffer) - readp) + TsSize * Len(fifo)
      BY <2>1, UndeliveredLen
    <3> QED
      BY <2>1, <3>1, <3>2, CountTypes DEF Taken
  <2>3. Taken <= TsSize * Counted /\ (Counted <= FifoSize => Taken = TsSize * Counted)
    BY <2>1 DEF CountInv
  <2> QED
    BY <2>2, <2>3 DEF RecordsCounted, Counted
<1> QED
  BY <1>1, InductiveAlways, CountInvAlways, PTL
=============================================================================
