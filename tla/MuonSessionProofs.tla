------------------------- MODULE MuonSessionProofs -------------------------
(***************************************************************************)
(* Proofs about the control path of the driver, for any number of          *)
(* processes, any set of failures and any number of events.                *)
(*                                                                         *)
(* The invariant behind them says what is held at each point of open(), of *)
(* its unwinding and of release(), by the process that is there.           *)
(***************************************************************************)
EXTENDS MuonSession, TLAPS

-----------------------------------------------------------------------------
(* What is held.                                                           *)

\* Before the k-th acquisition of open(); at the end the interrupt, too.
OpenHeld(k) ==
  {"mutex"} \cup {OpenPlan[i] : i \in {j \in DOMAIN OpenPlan : j < k}}
    \cup {r \in {"irq"} : k > Len(OpenPlan) + 2}

\* Before the k-th label of the unwinding, and before the k-th step of release().
UnwindHeld(k) == {UnwindPlan[i] : i \in {j \in DOMAIN UnwindPlan : j >= k}}
ReleaseHeld(k) == {ReleasePlan[i] : i \in {j \in DOMAIN ReleasePlan : j >= k}} \ {"timer"}

LEMMA PlanLengths ==
  /\ Len(OpenPlan) = 6 /\ DOMAIN OpenPlan = 1..6
  /\ Len(UnwindPlan) = 7 /\ DOMAIN UnwindPlan = 1..7
  /\ Len(ReleasePlan) = 9 /\ DOMAIN ReleasePlan = 1..9
BY DEF OpenPlan, UnwindPlan, ReleasePlan

\* Every acquisition of open() adds what it acquires.
LEMMA OpenGains ==
  /\ OpenHeld(1) = {"mutex"}
  /\ \A k \in 1..6 : OpenHeld(k + 1) = OpenHeld(k) \cup {OpenPlan[k]}
  /\ OpenHeld(8) = OpenHeld(7)
  /\ OpenHeld(9) = OpenHeld(8) \cup {"irq"}
  /\ OpenHeld(9) = Resources
  /\ OpenHeld(8) = Resources \ {"irq"}
<1>1. OpenHeld(1) = {"mutex"}
  BY PlanLengths DEF OpenHeld
<1>2. ASSUME NEW k \in 1..6
      PROVE  OpenHeld(k + 1) = OpenHeld(k) \cup {OpenPlan[k]}
  <2>1. {j \in 1..6 : j < k + 1} = {j \in 1..6 : j < k} \cup {k}
    OBVIOUS
  <2>2. ~(k > 8) /\ ~(k + 1 > 8)
    OBVIOUS
  <2> QED
    BY <2>1, <2>2, PlanLengths DEF OpenHeld
<1>3. {j \in 1..6 : j < 8} = 1..6 /\ {j \in 1..6 : j < 7} = 1..6 /\ {j \in 1..6 : j < 9} = 1..6
  OBVIOUS
<1>4. OpenHeld(8) = OpenHeld(7) /\ OpenHeld(9) = OpenHeld(8) \cup {"irq"}
  BY <1>3, PlanLengths DEF OpenHeld
<1>5. OpenHeld(8) = {"mutex"} \cup {OpenPlan[i] : i \in 1..6}
  BY <1>3, PlanLengths DEF OpenHeld
<1>6. {OpenPlan[i] : i \in 1..6} = Pins \cup Files
  BY DEF OpenPlan, Pins, Files
<1>7. OpenHeld(8) = Resources \ {"irq"} /\ OpenHeld(9) = Resources
  BY <1>4, <1>5, <1>6 DEF Resources, Pins, Files
<1> QED
  BY <1>1, <1>2, <1>4, <1>7

\* The goto of a failed acquisition enters the chain at the label that gives
\* back exactly what is held.
LEMMA FailUnwinds ==
  /\ \A k \in 1..6 : OpenHeld(k) = UnwindHeld(UnwindFrom[OpenPlan[k]])
  /\ OpenHeld(8) = UnwindHeld(UnwindFrom["irq"])
  /\ \A r \in DOMAIN UnwindFrom : UnwindFrom[r] \in 1..7
<1>1. OpenHeld(1) = UnwindHeld(7)
  BY PlanLengths DEF OpenHeld, UnwindHeld, UnwindPlan
<1>2. OpenHeld(2) = UnwindHeld(6)
  BY PlanLengths DEF OpenHeld, UnwindHeld, UnwindPlan, OpenPlan
<1>3. OpenHeld(3) = UnwindHeld(5)
  BY PlanLengths DEF OpenHeld, UnwindHeld, UnwindPlan, OpenPlan
<1>4. OpenHeld(4) = UnwindHeld(4)
  BY PlanLengths DEF OpenHeld, UnwindHeld, UnwindPlan, OpenPlan
<1>5. OpenHeld(5) = UnwindHeld(3)
  BY PlanLengths DEF OpenHeld, UnwindHeld, UnwindPlan, OpenPlan
<1>6. OpenHeld(6) = UnwindHeld(2)
  BY PlanLengths DEF OpenHeld, UnwindHeld, UnwindPlan, OpenPlan
<1>7. OpenHeld(8) = UnwindHeld(1)
  BY PlanLengths DEF OpenHeld, UnwindHeld, UnwindPlan, OpenPlan
<1>8. /\ UnwindFrom[OpenPlan[1]] = 7 /\ UnwindFrom[OpenPlan[2]] = 6
      /\ UnwindFrom[OpenPlan[3]] = 5 /\ UnwindFrom[OpenPlan[4]] = 4
      /\ UnwindFrom[OpenPlan[5]] = 3 /\ UnwindFrom[OpenPlan[6]] = 2
      /\ UnwindFrom["irq"] = 1
  BY DEF UnwindFrom, OpenPlan
<1>9. \A r \in DOMAIN UnwindFrom : UnwindFrom[r] \in 1..7
  BY DEF UnwindFrom
<1> QED
  BY <1>1, <1>2, <1>3, <1>4, <1>5, <1>6, <1>7, <1>8, <1>9

\* Every label, and every step of release(), takes away what it gives back.
LEMMA UnwindLoses ==
  /\ \A k \in 1..6 : UnwindHeld(k + 1) = UnwindHeld(k) \ {UnwindPlan[k]}
  /\ UnwindHeld(7) = {UnwindPlan[7]}
  /\ \A k \in 1..7 : UnwindPlan[k] = "mutex" <=> k = 7
  /\ \A k \in 1..7 : UnwindPlan[k] # "irq"
<1>1. \A i, j \in 1..7 : i # j => UnwindPlan[i] # UnwindPlan[j]
  BY DEF UnwindPlan
<1>2. ASSUME NEW k \in 1..6
      PROVE  UnwindHeld(k + 1) = UnwindHeld(k) \ {UnwindPlan[k]}
  BY <1>1, PlanLengths DEF UnwindHeld
<1>3. UnwindHeld(7) = {UnwindPlan[7]}
  BY PlanLengths DEF UnwindHeld
<1>4. \A k \in 1..7 : (UnwindPlan[k] = "mutex" <=> k = 7) /\ UnwindPlan[k] # "irq"
  BY DEF UnwindPlan
<1> QED
  BY <1>2, <1>3, <1>4

LEMMA ReleaseLoses ==
  /\ ReleaseHeld(1) = Resources
  /\ \A k \in 1..8 : ReleaseHeld(k + 1) = ReleaseHeld(k) \ {ReleasePlan[k]}
  /\ ReleaseHeld(9) = {ReleasePlan[9]}
  /\ \A k \in 1..9 : ReleasePlan[k] = "mutex" <=> k = 9
  /\ \A k \in 1..9 : ReleasePlan[k] = "irq" <=> k = 1
  /\ \A k \in 1..9 : "timer" \notin ReleaseHeld(k)
<1>1. \A i, j \in 1..9 : i # j => ReleasePlan[i] # ReleasePlan[j]
  BY DEF ReleasePlan
<1>2. ASSUME NEW k \in 1..8
      PROVE  ReleaseHeld(k + 1) = ReleaseHeld(k) \ {ReleasePlan[k]}
  BY <1>1, PlanLengths DEF ReleaseHeld
<1>3. ReleasePlan[9] = "mutex"
  BY DEF ReleasePlan
<1>4. ReleaseHeld(9) = {ReleasePlan[9]}
  BY <1>3, PlanLengths DEF ReleaseHeld
<1>5. \A k \in 1..9 : (ReleasePlan[k] = "mutex" <=> k = 9) /\ (ReleasePlan[k] = "irq" <=> k = 1)
  BY DEF ReleasePlan
<1>6. ReleaseHeld(1) = {ReleasePlan[i] : i \in 1..9} \ {"timer"}
  BY PlanLengths DEF ReleaseHeld
<1>7. ReleaseHeld(1) = Resources
  BY <1>6 DEF ReleasePlan, Resources, Pins, Files
<1> QED
  BY <1>2, <1>4, <1>5, <1>7 DEF ReleaseHeld
-----------------------------------------------------------------------------
(* Type correctness.                                                       *)

\* The places of a process, phase by phase.
LEMMA PlaceOf ==
  /\ \A l \in Places :
       /\ l.phase \in {"out", "open", "unwind", "in", "release", "dead"}
       /\ l.step \in Nat
       /\ l.phase = "open" => l.step \in 1..9
       /\ l.phase = "unwind" => l.step \in 1..7
       /\ l.phase = "release" => l.step \in 1..9
  /\ \A f \in {"out", "in", "dead"} : [phase |-> f, step |-> 1] \in Places
  /\ \A k \in 1..9 : [phase |-> "open", step |-> k] \in Places
  /\ \A k \in 1..7 : [phase |-> "unwind", step |-> k] \in Places
  /\ \A k \in 1..9 : [phase |-> "release", step |-> k] \in Places
BY PlanLengths DEF Places

\* A move to a place keeps every process at a place.
LEMMA MoveType ==
  ASSUME at \in [Procs -> Places], NEW p \in Procs, NEW f, NEW k,
         [phase |-> f, step |-> k] \in Places, Move(p, f, k)
  PROVE  /\ at' \in [Procs -> Places]
         /\ at'[p] = [phase |-> f, step |-> k]
         /\ \A q \in Procs \ {p} : at'[q] = at[q]
BY DEF Move

\* A process moves only to places of its plan.
LEMMA ProcessPlaces ==
  ASSUME TypeOK, NEW p \in Procs, ProcessStep(p)
  PROVE  at' \in [Procs -> Places]
<1> USE PlanLengths, PlaceOf, FailUnwinds DEF TypeOK, Advance
<1>1. at[p] \in Places
  OBVIOUS
<1>2. CASE OpenLock(p)
  BY <1>2, MoveType DEF OpenLock
<1>3. CASE OpenAcquire(p)
  <2>1. at[p].phase = "open" /\ at[p].step \in 1..6
    BY <1>3 DEF OpenAcquire
  <2>2. Advance(p) => at' \in [Procs -> Places]
    BY <2>1, MoveType
  <2>3. OpenPlan[at[p].step] \in DOMAIN UnwindFrom
    BY <2>1 DEF OpenPlan, UnwindFrom
  <2>4. Fail(p, OpenPlan[at[p].step]) => at' \in [Procs -> Places]
    BY <2>3, MoveType DEF Fail
  <2> QED
    BY <1>3, <2>2, <2>4 DEF OpenAcquire
<1>4. CASE OpenTimer(p)
  <2>1. at[p].phase = "open" /\ at[p].step = 7
    BY <1>4 DEF OpenTimer
  <2>2. Move(p, "dead", 1) => at' \in [Procs -> Places]
    BY MoveType
  <2>3. Advance(p) => at' \in [Procs -> Places]
    BY <2>1, MoveType
  <2> QED
    BY <1>4, <2>2, <2>3 DEF OpenTimer
<1>5. CASE OpenIrq(p)
  <2>1. at[p].phase = "open" /\ at[p].step = 8
    BY <1>5 DEF OpenIrq
  <2>2. Advance(p) => at' \in [Procs -> Places]
    BY <2>1, MoveType
  <2>3. "irq" \in DOMAIN UnwindFrom
    BY DEF UnwindFrom
  <2>4. Fail(p, "irq") => at' \in [Procs -> Places]
    BY <2>3, MoveType DEF Fail
  <2> QED
    BY <1>5, <2>2, <2>4 DEF OpenIrq
<1>6. CASE OpenReset(p)
  BY <1>6, MoveType DEF OpenReset
<1>7. CASE Unwind(p)
  <2>1. at[p].phase = "unwind" /\ at[p].step \in 1..7
    BY <1>1, <1>7 DEF Unwind
  <2>2. Move(p, "out", 1) => at' \in [Procs -> Places]
    BY MoveType
  <2>3. at[p].step # 7 /\ Advance(p) => at' \in [Procs -> Places]
    BY <2>1, MoveType
  <2> QED
    BY <1>7, <2>2, <2>3 DEF Unwind
<1>8. CASE ReleaseStart(p)
  BY <1>8, MoveType DEF ReleaseStart
<1>9. ASSUME NEW r, Releasing(p, r)
      PROVE  at' \in [Procs -> Places]
  <2>1. at[p].phase = "release" /\ at[p].step \in 1..9
    BY <1>1, <1>9 DEF Releasing
  <2>2. Move(p, "out", 1) => at' \in [Procs -> Places]
    BY MoveType
  <2>3. at[p].step # 9 /\ Advance(p) => at' \in [Procs -> Places]
    BY <2>1, MoveType
  <2> QED
    BY <1>9, <2>2, <2>3 DEF Releasing
<1> QED
  BY <1>2, <1>3, <1>4, <1>5, <1>6, <1>7, <1>8, <1>9
     DEF ProcessStep, ReleaseIrq, ReleaseTimer, ReleaseRest
LEMMA InitTypeOK == Init => TypeOK
<1> SUFFICES ASSUME Init PROVE TypeOK
  OBVIOUS
<1>1. at \in [Procs -> Places]
  BY PlaceOf DEF Init, Out
<1>2. events \in 0..MaxEvents /\ latch \in {"low", "new", "seen", "missed"}
  BY DEF Init
<1> QED
  BY <1>1, <1>2 DEF Init, TypeOK

LEMMA NextTypeOK == TypeOK /\ [Next]_vars => TypeOK'
<1> SUFFICES ASSUME TypeOK, [Next]_vars
             PROVE  TypeOK'
  OBVIOUS
<1> USE DEF TypeOK, latchVars, softVars, timerVars, counters
<1>1. ASSUME NEW p \in Procs, ProcessStep(p)
      PROVE  TypeOK'
  <2>1. at' \in [Procs -> Places]
    BY <1>1, ProcessPlaces
  <2>2. held' \subseteq Resources
    <3>1. CASE OpenAcquire(p)
      <4>1. at[p].step \in 1..6 => OpenPlan[at[p].step] \in Resources
        BY DEF OpenPlan, Resources, Pins, Files
      <4> QED
        BY <3>1, <4>1, PlanLengths DEF OpenAcquire, Fail
    <3>2. CASE ~OpenAcquire(p)
      BY <1>1, <3>2 DEF ProcessStep, OpenLock, OpenTimer, OpenIrq, OpenReset, Unwind,
         ReleaseStart, ReleaseIrq, ReleaseTimer, ReleaseRest, Fail, Resources
    <3> QED
      BY <3>1, <3>2
  <2>3. /\ events' \in 0..MaxEvents /\ latch' \in {"low", "new", "seen", "missed"}
        /\ edge' \in BOOLEAN /\ UNCHANGED softVars
        /\ armed' \in BOOLEAN /\ UNCHANGED timer /\ leftover' \in BOOLEAN
    BY <1>1 DEF ProcessStep, OpenLock, OpenAcquire, OpenTimer, OpenIrq, OpenReset, Unwind,
       ReleaseStart, ReleaseIrq, ReleaseTimer, ReleaseRest
  <2>4. curInts' \in Nat /\ curMissed' \in Nat /\ totInts' \in Nat /\ totMissed' \in Nat
    BY <1>1 DEF ProcessStep, OpenLock, OpenAcquire, OpenTimer, OpenIrq, OpenReset, Unwind,
       ReleaseStart, ReleaseIrq, ReleaseTimer, ReleaseRest
  <2> QED
    BY <2>1, <2>2, <2>3, <2>4
<1>2. CASE LatchSet
  <2>1. events' \in 0..MaxEvents
    <3>1. events' = events + 1 /\ events < MaxEvents
      BY <1>2 DEF LatchSet
    <3>2. events \in 0..MaxEvents /\ MaxEvents \in Nat
      BY SessionAssumption
    <3> HIDE DEF TypeOK
    <3> QED
      BY <3>1, <3>2
  <2>2. edge' \in BOOLEAN
    BY <1>2 DEF LatchSet
  <2>3. latch' \in {"low", "new", "seen", "missed"}
    BY <1>2 DEF LatchSet
  <2> QED
    BY <1>2, <2>1, <2>2, <2>3 DEF LatchSet
<1>3. CASE HandlerPut
  BY <1>3 DEF HandlerPut
<1>4. CASE HandlerSchedule \/ HandlerCount \/ HandlerTotal
  <2>1. CASE HandlerSchedule
    BY <2>1 DEF HandlerSchedule
  <2>2. CASE HandlerCount
    BY <2>2 DEF HandlerCount
  <2>3. CASE HandlerTotal
    BY <2>3 DEF HandlerTotal
  <2> QED
    BY <1>4, <2>1, <2>2, <2>3
<1>5. CASE SysReset
  BY <1>5 DEF SysReset
<1>6. CASE Tasklet
  BY <1>6 DEF Tasklet, TaskletRun, TaskletPulse, TaskletWake, TaskletRearm
<1>7. CASE TimerExpire
  BY <1>7 DEF TimerExpire
<1>8. CASE TimerTest \/ TimerRearm \/ TimerReset
  BY <1>8 DEF TimerTest, TimerRearm, TimerReset
<1>9. CASE TimerCount \/ TimerTotal
  BY <1>9 DEF TimerCount, TimerTotal
<1>10. CASE UNCHANGED vars
  BY <1>10 DEF vars
<1> QED
  BY <1>1, <1>2, <1>3, <1>4, <1>5, <1>6, <1>7, <1>8, <1>9, <1>10
     DEF Next, Handler, TimerFunction

\* Type correctness: in particular no process runs past the end of the plan of
\* open(), of its unwinding or of release() (lines 214-364).
THEOREM TypeCorrect == Spec => []TypeOK
<1> QED
  BY InitTypeOK, NextTypeOK, PTL DEF Spec

-----------------------------------------------------------------------------
(* One process at a time, and what it holds.                               *)

\* h is what a process at the place l has acquired and not given back.
PlaceHolds(l, h) ==
  /\ l.phase = "out" => h = {}
  /\ l.phase = "open" => h = OpenHeld(l.step)
  /\ l.phase = "unwind" => h = UnwindHeld(l.step)
  /\ l.phase = "in" => h = Resources
  /\ l.phase = "release" => h = ReleaseHeld(l.step)
  /\ l.phase = "dead" => h = Resources \ {"irq"}

\* p is the only process that may be inside, and holds what its place says.
Owner(p) == PlaceHolds(at[p], held) /\ \A q \in Procs \ {p} : ~Inside(q)

HeldInv ==
  \/ held = {} /\ \A p \in Procs : ~Inside(p)
  \/ \E p \in Procs : Owner(p)

\* A process that is inside is the owner, and has the mutex.
LEMMA InsideOwns ==
  ASSUME TypeOK, HeldInv, NEW p \in Procs, Inside(p)
  PROVE  Owner(p) /\ "mutex" \in held
<1>1. Owner(p)
  BY DEF HeldInv, Owner, Inside
<1>2. at[p] \in Places /\ at[p].phase # "out"
  BY DEF TypeOK, Inside
<1>3. CASE at[p].phase = "open"
  BY <1>1, <1>3 DEF Owner, PlaceHolds, OpenHeld
<1>4. CASE at[p].phase = "unwind"
  <2>1. at[p].step \in 1..7 /\ held = UnwindHeld(at[p].step)
    BY <1>1, <1>2, <1>4, PlaceOf DEF Owner, PlaceHolds
  <2>2. UnwindPlan[7] = "mutex"
    BY UnwindLoses
  <2> QED
    BY <1>1, <2>1, <2>2, PlanLengths DEF UnwindHeld
<1>5. CASE at[p].phase = "release"
  <2>1. at[p].step \in 1..9 /\ held = ReleaseHeld(at[p].step)
    BY <1>1, <1>2, <1>5, PlaceOf DEF Owner, PlaceHolds
  <2>2. ReleasePlan[9] = "mutex"
    BY ReleaseLoses
  <2> QED
    BY <1>1, <2>1, <2>2, PlanLengths DEF ReleaseHeld
<1>6. CASE at[p].phase \in {"in", "dead"}
  BY <1>1, <1>6 DEF Owner, PlaceHolds, Resources
<1> QED
  BY <1>1, <1>2, <1>3, <1>4, <1>5, <1>6, PlaceOf

\* The owner stays the owner when it moves to a place that fits what it holds.
LEMMA OwnerMoves ==
  ASSUME TypeOK, NEW p \in Procs, \A q \in Procs \ {p} : ~Inside(q),
         NEW f, NEW k, [phase |-> f, step |-> k] \in Places, Move(p, f, k),
         PlaceHolds([phase |-> f, step |-> k], held')
  PROVE  HeldInv'
<1>1. at'[p] = [phase |-> f, step |-> k] /\ \A q \in Procs \ {p} : at'[q] = at[q]
  BY MoveType DEF TypeOK
<1>2. \A q \in Procs \ {p} : ~Inside(q)'
  BY <1>1 DEF Inside
<1>3. PlaceHolds(at[p], held)'
  BY <1>1 DEF PlaceHolds
<1> QED
  BY <1>2, <1>3 DEF HeldInv, Owner
\* Nothing else moves a process or acquires anything.
LEMMA OwnerStays ==
  ASSUME HeldInv, UNCHANGED <<at, held>>
  PROVE  HeldInv'
BY DEF HeldInv, Owner, PlaceHolds, Inside

LEMMA InitHeldInv == Init => HeldInv
BY DEF Init, HeldInv, Inside, Out

LEMMA ProcessHeldInv ==
  ASSUME TypeOK, HeldInv, NEW p \in Procs, ProcessStep(p)
  PROVE  HeldInv'
<1> USE PlanLengths, PlaceOf
<1>1. at[p] \in Places
  BY DEF TypeOK
<1>2. CASE OpenLock(p)
  <2>1. held = {} /\ \A q \in Procs : ~Inside(q)
    BY <1>2, InsideOwns DEF OpenLock, HeldInv, Owner, PlaceHolds, Inside
  <2>2. held' = OpenHeld(1) /\ Move(p, "open", 1)
    BY <1>2, <2>1, OpenGains DEF OpenLock
  <2>3. PlaceHolds([phase |-> "open", step |-> 1], held')
    BY <2>2 DEF PlaceHolds
  <2> QED
    BY <2>1, <2>2, <2>3, OwnerMoves
<1>3. CASE ~OpenLock(p)
  <2>1. Inside(p)
    BY <1>1, <1>3, ProcessStep(p)
       DEF ProcessStep, Inside, IsOpen, OpenAcquire, OpenTimer, OpenIrq, OpenReset, Unwind,
           ReleaseStart, ReleaseIrq, ReleaseTimer, ReleaseRest, Releasing
  <2>2. PlaceHolds(at[p], held) /\ \A q \in Procs \ {p} : ~Inside(q)
    BY <2>1, InsideOwns DEF Owner
  <2> DEFINE k == at[p].step
  <2>3. CASE OpenAcquire(p)
    <3>1. at[p].phase = "open" /\ k \in 1..6 /\ held = OpenHeld(k)
      BY <2>2, <2>3 DEF OpenAcquire, PlaceHolds
    <3> HIDE DEF k
    <3>2. CASE held' = held \cup {OpenPlan[k]} /\ Advance(p)
      <4>1. held' = OpenHeld(k + 1) /\ Move(p, "open", k + 1)
        BY <3>1, <3>2, OpenGains DEF Advance, k
      <4>2. PlaceHolds([phase |-> "open", step |-> k + 1], held')
        BY <4>1 DEF PlaceHolds
      <4> QED
        BY <2>2, <3>1, <4>1, <4>2, OwnerMoves
    <3>3. CASE Fail(p, OpenPlan[k])
      <4> DEFINE u == UnwindFrom[OpenPlan[k]]
      <4>1. u \in 1..7 /\ held = UnwindHeld(u)
        <5>1. OpenPlan[k] \in DOMAIN UnwindFrom
          BY <3>1 DEF OpenPlan, UnwindFrom
        <5> QED
          BY <3>1, <5>1, FailUnwinds
      <4>2. Move(p, "unwind", u) /\ held' = held
        BY <3>3 DEF Fail
      <4> HIDE DEF u
      <4>3. PlaceHolds([phase |-> "unwind", step |-> u], held')
        BY <4>1, <4>2 DEF PlaceHolds
      <4> QED
        BY <2>2, <4>1, <4>2, <4>3, OwnerMoves
    <3> QED
      BY <2>3, <3>2, <3>3 DEF OpenAcquire, k
  <2>4. CASE OpenTimer(p)
    <3>1. at[p].phase = "open" /\ k = 7 /\ held' = OpenHeld(8)
      BY <2>2, <2>4, OpenGains DEF OpenTimer, PlaceHolds
    <3>2. CASE Move(p, "dead", 1)
      <4>1. PlaceHolds([phase |-> "dead", step |-> 1], held')
        BY <3>1, OpenGains DEF PlaceHolds
      <4> QED
        BY <2>2, <3>2, <4>1, OwnerMoves
    <3>3. CASE Advance(p)
      <4>1. Move(p, "open", 8)
        BY <3>1, <3>3 DEF Advance
      <4>2. PlaceHolds([phase |-> "open", step |-> 8], held')
        BY <3>1 DEF PlaceHolds
      <4> QED
        BY <2>2, <4>1, <4>2, OwnerMoves
    <3> QED
      BY <2>4, <3>2, <3>3 DEF OpenTimer
  <2>5. CASE OpenIrq(p)
    <3>1. at[p].phase = "open" /\ k = 8 /\ held = OpenHeld(8)
      BY <2>2, <2>5 DEF OpenIrq, PlaceHolds
    <3>2. CASE held' = held \cup {"irq"} /\ Advance(p)
      <4>1. Move(p, "open", 9) /\ held' = OpenHeld(9)
        BY <3>1, <3>2, OpenGains DEF Advance
      <4>2. PlaceHolds([phase |-> "open", step |-> 9], held')
        BY <4>1 DEF PlaceHolds
      <4> QED
        BY <2>2, <4>1, <4>2, OwnerMoves
    <3>3. CASE Fail(p, "irq")
      <4>1. UnwindFrom["irq"] \in 1..7 /\ held = UnwindHeld(UnwindFrom["irq"])
        <5>1. "irq" \in DOMAIN UnwindFrom
          BY DEF UnwindFrom
        <5> QED
          BY <3>1, <5>1, FailUnwinds
      <4>2. Move(p, "unwind", UnwindFrom["irq"]) /\ held' = held
        BY <3>3 DEF Fail
      <4>3. PlaceHolds([phase |-> "unwind", step |-> UnwindFrom["irq"]], held')
        BY <4>1, <4>2 DEF PlaceHolds
      <4> QED
        BY <2>2, <4>1, <4>2, <4>3, OwnerMoves
    <3> QED
      BY <2>5, <3>2, <3>3 DEF OpenIrq
  <2>6. CASE OpenReset(p)
    <3>1. Move(p, "in", 1) /\ held' = Resources
      BY <2>2, <2>6, OpenGains DEF OpenReset, PlaceHolds
    <3>2. PlaceHolds([phase |-> "in", step |-> 1], held')
      BY <3>1 DEF PlaceHolds
    <3> QED
      BY <2>2, <3>1, <3>2, OwnerMoves
  <2>7. CASE Unwind(p)
    <3>1. at[p].phase = "unwind" /\ k \in 1..7 /\ held = UnwindHeld(k)
      BY <1>1, <2>2, <2>7 DEF Unwind, PlaceHolds
    <3> HIDE DEF k
    <3>2. CASE k = 7
      <4>1. Move(p, "out", 1) /\ held' = {}
        BY <2>7, <3>1, <3>2, UnwindLoses DEF Unwind, k
      <4>2. PlaceHolds([phase |-> "out", step |-> 1], held')
        BY <4>1 DEF PlaceHolds
      <4> QED
        BY <2>2, <4>1, <4>2, OwnerMoves
    <3>3. CASE k # 7
      <4>1. Move(p, "unwind", k + 1) /\ held' = UnwindHeld(k + 1)
        BY <2>7, <3>1, <3>3, UnwindLoses DEF Unwind, Advance, k
      <4>2. PlaceHolds([phase |-> "unwind", step |-> k + 1], held')
        BY <4>1 DEF PlaceHolds
      <4> QED
        BY <2>2, <3>1, <3>3, <4>1, <4>2, OwnerMoves
    <3> QED
      BY <3>2, <3>3
  <2>8. CASE ReleaseStart(p)
    <3>1. Move(p, "release", 1) /\ held' = ReleaseHeld(1)
      BY <2>2, <2>8, ReleaseLoses DEF ReleaseStart, IsOpen, PlaceHolds
    <3>2. PlaceHolds([phase |-> "release", step |-> 1], held')
      BY <3>1 DEF PlaceHolds
    <3> QED
      BY <2>2, <3>1, <3>2, OwnerMoves
  <2>9. ASSUME NEW r, Releasing(p, r), held' = held \ {r}
        PROVE  HeldInv'
    <3>1. /\ at[p].phase = "release" /\ k \in 1..9 /\ held = ReleaseHeld(k)
          /\ ReleasePlan[k] = r
      BY <1>1, <2>2, <2>9 DEF Releasing, PlaceHolds
    <3> HIDE DEF k
    <3>2. CASE k = 9
      <4>1. Move(p, "out", 1) /\ held' = {}
        BY <2>9, <3>1, <3>2, ReleaseLoses DEF Releasing, k
      <4>2. PlaceHolds([phase |-> "out", step |-> 1], held')
        BY <4>1 DEF PlaceHolds
      <4> QED
        BY <2>2, <4>1, <4>2, OwnerMoves
    <3>3. CASE k # 9
      <4>1. Move(p, "release", k + 1) /\ held' = ReleaseHeld(k + 1)
        BY <2>9, <3>1, <3>3, ReleaseLoses DEF Releasing, Advance, k
      <4>2. PlaceHolds([phase |-> "release", step |-> k + 1], held')
        BY <4>1 DEF PlaceHolds
      <4> QED
        BY <2>2, <3>1, <3>3, <4>1, <4>2, OwnerMoves
    <3> QED
      BY <3>2, <3>3
  <2>10. ReleaseTimer(p) => held' = held \ {"timer"}
    BY DEF ReleaseTimer, TypeOK, Resources, Pins, Files
  <2> QED
    BY <1>3, <2>3, <2>4, <2>5, <2>6, <2>7, <2>8, <2>9, <2>10
       DEF ProcessStep, ReleaseIrq, ReleaseTimer, ReleaseRest
<1> QED
  BY <1>2, <1>3

-----------------------------------------------------------------------------
(* The interrupt, its handler and the timer, in terms of who holds what.    *)

\* free_irq waits for a handler that is running.
HandlerHolds == handler # "idle" => "irq" \in held

\* From add_timer until the process starts to release the device, the timer is
\* pending, or its function is running and will make it so.
TimerKept ==
  \A p \in Procs : IsOpen(p) \/ (at[p].phase = "open" /\ at[p].step >= 8) =>
    armed \/ timer # "idle"

\* An event is counted once as an interrupt, by way of the pending interrupt and
\* the handler that took it, and once as a missed one, by way of a timer function
\* that has seen the high latch and then has reset it: what is under way is not in
\* the totals yet.
OneIf(b) == IF b THEN 1 ELSE 0
Accounted ==
  /\ curInts <= totInts + OneIf(handler = "total")
  /\ totInts + OneIf(handler # "idle") + OneIf(edge) <= events
  /\ curMissed <= totMissed + OneIf(timer = "total")
  /\ totMissed + OneIf(timer = "reset" \/ latch # "low") + OneIf(timer \in {"count", "total"})
       <= events

\* A process is between add_timer and del_timer_sync.
Attended ==
  \E p \in Procs :
    \/ at[p].phase = "open" /\ at[p].step >= 8
    \/ IsOpen(p)
    \/ at[p].phase = "release" /\ at[p].step <= 2

\* With nothing left over, the timer and the tasklet need such a process.
Quiet == ~armed /\ timer = "idle" /\ ~SoftWork
QuietInv == leftover \/ ((Attended \/ Quiet) /\ \A p \in Procs : at[p].phase # "dead")

Inductive ==
  TypeOK /\ HeldInv /\ HandlerHolds /\ ResetToCome /\ TimerKept /\ Accounted /\ QuietInv

LEMMA NextHeldInv ==
  ASSUME TypeOK, HeldInv, [Next]_vars
  PROVE  HeldInv'
<1>1. (\E p \in Procs : ProcessStep(p)) \/ UNCHANGED <<at, held>>
  BY DEF Next, LatchSet, SysReset, Handler, HandlerPut, HandlerSchedule,
         HandlerCount, HandlerTotal, Tasklet, TaskletRun, TaskletPulse, TaskletWake, TaskletRearm,
         TimerExpire, TimerFunction, TimerTest, TimerReset, TimerCount, TimerTotal, TimerRearm,
         vars
<1> QED
  BY <1>1, ProcessHeldInv, OwnerStays

\* Only free_irq gives back the interrupt.
LEMMA NextIrqHeld ==
  ASSUME TypeOK, [Next]_vars, "irq" \in held
  PROVE  "irq" \in held' \/ \E p \in Procs : ReleaseIrq(p)
<1>1. ASSUME NEW p \in Procs, Unwind(p)
      PROVE  "irq" \in held'
  <2>1. at[p].step \in 1..7
    BY <1>1, PlaceOf DEF TypeOK, Unwind
  <2> QED
    BY <1>1, <2>1, UnwindLoses DEF Unwind
<1>2. ASSUME NEW p \in Procs, ProcessStep(p), ~Unwind(p)
      PROVE  "irq" \in held' \/ ReleaseIrq(p)
  BY <1>2 DEF ProcessStep, OpenLock, OpenAcquire, OpenTimer, OpenIrq, OpenReset, Fail,
              ReleaseStart, ReleaseTimer, ReleaseRest
<1>3. CASE UNCHANGED held
  BY <1>3
<1>4. UNCHANGED held \/ \E p \in Procs : ProcessStep(p)
  BY DEF Next, LatchSet, SysReset, Handler, HandlerPut, HandlerSchedule,
         HandlerCount, HandlerTotal, Tasklet, TaskletRun, TaskletPulse, TaskletWake, TaskletRearm,
         TimerExpire, TimerFunction, TimerTest, TimerReset, TimerCount, TimerTotal, TimerRearm,
         vars
<1> QED
  BY <1>1, <1>2, <1>3, <1>4

LEMMA NextHandlerHolds ==
  ASSUME TypeOK, HandlerHolds, [Next]_vars
  PROVE  HandlerHolds'
<1> USE DEF HandlerHolds, softVars
<1>1. CASE handler' = "idle"
  BY <1>1
<1>2. ASSUME handler' # "idle"
      PROVE  "irq" \in held /\ ~\E p \in Procs : ReleaseIrq(p)
  BY <1>2 DEF Next, ProcessStep, OpenLock, OpenAcquire, OpenTimer, OpenIrq, OpenReset, Unwind,
     ReleaseStart, ReleaseIrq, ReleaseTimer, ReleaseRest, LatchSet, SysReset, Handler,
     HandlerPut, HandlerSchedule, HandlerCount, HandlerTotal, Tasklet, TaskletRun, TaskletPulse,
     TaskletWake, TaskletRearm, TimerExpire, TimerFunction, TimerTest, TimerReset, TimerCount,
     TimerTotal, TimerRearm, vars
<1> QED
  BY <1>1, <1>2, NextIrqHeld

LEMMA NextResetToCome ==
  ASSUME TypeOK, ResetToCome, [Next]_vars
  PROVE  ResetToCome'
<1> USE DEF ResetToCome, latchVars, softVars
<1>1. ASSUME NEW p \in Procs, ReleaseIrq(p)
      PROVE  ResetToCome'
  BY <1>1 DEF ReleaseIrq
<1>2. ASSUME NEW p \in Procs, ProcessStep(p), ~ReleaseIrq(p)
      PROVE  ResetToCome'
  <2>1. UNCHANGED softVars /\ UNCHANGED edge /\ (UNCHANGED latch \/ latch' = "low")
    BY <1>2 DEF ProcessStep, OpenLock, OpenAcquire, OpenTimer, OpenIrq, OpenReset, Unwind,
                ReleaseStart, ReleaseTimer, ReleaseRest
  <2>2. "irq" \in held => "irq" \in held'
    <3>1. ASSUME Unwind(p), "irq" \in held
          PROVE  "irq" \in held'
      <4>1. at[p].step \in 1..7
        BY <3>1, PlaceOf DEF TypeOK, Unwind
      <4> QED
        BY <3>1, <4>1, UnwindLoses DEF Unwind
    <3>2. CASE ~Unwind(p)
      BY <1>2, <3>2 DEF ProcessStep, OpenLock, OpenAcquire, OpenTimer, OpenIrq, OpenReset,
                        Fail, ReleaseStart, ReleaseTimer, ReleaseRest
    <3> QED
      BY <3>1, <3>2
  <2> QED
    BY <2>1, <2>2
<1>3. CASE LatchSet
  BY <1>3 DEF LatchSet
<1>4. CASE HandlerPut
  BY <1>4 DEF HandlerPut
<1>5. CASE HandlerSchedule \/ HandlerCount \/ HandlerTotal
  BY <1>5 DEF HandlerSchedule, HandlerCount, HandlerTotal
<1>6. CASE SysReset
  BY <1>6 DEF SysReset
<1>7. CASE Tasklet
  BY <1>7 DEF Tasklet, TaskletRun, TaskletPulse, TaskletWake, TaskletRearm, TypeOK
<1>8. CASE TimerExpire \/ TimerFunction
  BY <1>8 DEF TimerExpire, TimerFunction, TimerTest, TimerReset, TimerCount, TimerTotal, TimerRearm
<1>9. CASE UNCHANGED vars
  BY <1>9 DEF vars
<1> QED
  BY <1>1, <1>2, <1>3, <1>4, <1>5, <1>6, <1>7, <1>8, <1>9 DEF Next, Handler

\* A step of one process: only OpenTimer arms the timer, and only ReleaseTimer,
\* whose process is then the only one inside, stops it.
LEMMA ProcessTimerKept ==
  ASSUME TypeOK, HeldInv, TimerKept, NEW p \in Procs, ProcessStep(p)
  PROVE  TimerKept'
<1> DEFINE Watched(l) == l.phase = "in" \/ (l.phase = "open" /\ l.step >= 8)
<1>1. \A q \in Procs : Watched(at[q]) => armed \/ timer # "idle"
  BY DEF TimerKept, IsOpen
<1>2. \A q \in Procs \ {p} : at'[q] = at[q]
  BY DEF TypeOK, ProcessStep, OpenLock, OpenAcquire, OpenTimer, OpenIrq, OpenReset, Fail, Unwind,
         ReleaseStart, ReleaseIrq, ReleaseTimer, ReleaseRest, Releasing, Advance, Move
<1>3. SUFFICES ASSUME NEW q \in Procs, Watched(at'[q])
               PROVE  armed' \/ timer' # "idle"
  BY DEF TimerKept, IsOpen
<1>4. CASE ReleaseTimer(p)
  <2>1. at[p] \in Places /\ at[p].phase = "release" /\ Inside(p)
    BY <1>4 DEF ReleaseTimer, Releasing, Inside, TypeOK
  <2>2. \A r \in Procs \ {p} : at[r].phase = "out"
    BY <2>1, InsideOwns DEF Owner, Inside
  <2>3. q = p
    BY <1>2, <1>3, <2>2
  <2>4. at'[p].phase \in {"out", "release"}
    BY <1>4, <2>1 DEF ReleaseTimer, Releasing, Advance, Move, TypeOK
  <2> QED
    BY <1>3, <2>3, <2>4
<1>5. CASE OpenTimer(p)
  BY <1>5 DEF OpenTimer
<1>6. CASE ~ReleaseTimer(p) /\ ~OpenTimer(p)
  <2>1. UNCHANGED <<armed, timer>>
    BY <1>6 DEF timerVars, ProcessStep, OpenLock, OpenAcquire, OpenIrq, OpenReset, Unwind,
                ReleaseStart, ReleaseIrq, ReleaseRest
  <2>2. Watched(at[q])
    <3>1. CASE q # p
      BY <1>2, <1>3, <3>1
    <3>2. CASE q = p
      <4>1. at[p] \in Places /\ at \in [Procs -> Places]
        BY DEF TypeOK
      <4>2. CASE OpenAcquire(p)
        <5>1. at[p].step \in 1..6 /\ at[p].phase = "open"
          BY <4>2, PlanLengths DEF OpenAcquire
        <5>2. at'[p].phase = "unwind" \/ (at'[p].phase = "open" /\ at'[p].step = at[p].step + 1)
          BY <4>1, <4>2, <5>1 DEF OpenAcquire, Fail, Advance, Move
        <5>3. ~Watched(at'[p])
          BY <5>1, <5>2
        <5> QED
          BY <1>3, <3>2, <5>3
      <4>3. CASE OpenIrq(p) \/ OpenReset(p)
        BY <3>2, <4>3, PlanLengths DEF OpenIrq, OpenReset
      <4>4. CASE OpenLock(p)
        <5>1. at'[p] = [phase |-> "open", step |-> 1]
          BY <4>1, <4>4 DEF OpenLock, Move
        <5> QED
          BY <1>3, <3>2, <5>1
      <4>5. CASE ~OpenAcquire(p) /\ ~OpenIrq(p) /\ ~OpenReset(p) /\ ~OpenLock(p)
        <5>1. at'[p].phase \in {"out", "unwind", "release"}
          BY <1>6, <4>1, <4>5 DEF ProcessStep, Unwind, ReleaseStart, ReleaseIrq, ReleaseRest,
                                  Releasing, Advance, Move
        <5> QED
          BY <1>3, <3>2, <5>1
      <4> QED
        BY <4>2, <4>3, <4>4, <4>5
    <3> QED
      BY <3>1, <3>2
  <2> QED
    BY <1>1, <2>1, <2>2
<1> QED
  BY <1>4, <1>5, <1>6

LEMMA NextTimerKept ==
  ASSUME TypeOK, HeldInv, TimerKept, [Next]_vars
  PROVE  TimerKept'
<1> USE DEF TimerKept, IsOpen, timerVars
<1>1. ASSUME NEW p \in Procs, ProcessStep(p)
      PROVE  TimerKept'
  BY <1>1, ProcessTimerKept
<1>2. CASE LatchSet \/ SysReset \/ Handler
  BY <1>2 DEF LatchSet, SysReset, Handler, HandlerPut, HandlerSchedule, HandlerCount,
              HandlerTotal
<1>3. CASE Tasklet
  BY <1>3 DEF Tasklet, TaskletRun, TaskletPulse, TaskletWake, TaskletRearm
<1>4. CASE TimerExpire \/ TimerFunction
  BY <1>4 DEF TimerExpire, TimerFunction, TimerTest, TimerReset, TimerCount, TimerTotal, TimerRearm
<1>5. CASE UNCHANGED vars
  BY <1>5 DEF vars
<1> QED
  BY <1>1, <1>2, <1>3, <1>4, <1>5 DEF Next

\* What the counters need of the types, without the rest of TypeOK.
LEMMA CounterTypes ==
  ASSUME TypeOK
  PROVE  /\ events \in Nat /\ curInts \in Nat /\ totInts \in Nat
         /\ curMissed \in Nat /\ totMissed \in Nat /\ edge \in BOOLEAN
BY SessionAssumption DEF TypeOK

\* A step of one process counts nothing, and at most starts a session at 0.
LEMMA ProcessAccounted ==
  ASSUME TypeOK, Accounted, NEW p \in Procs, ProcessStep(p)
  PROVE  Accounted'
<1> USE CounterTypes DEF Accounted, OneIf, latchVars, softVars, timerVars, counters
<1>1. CASE OpenLock(p)
  BY <1>1 DEF OpenLock
<1>2. CASE OpenReset(p)
  BY <1>2 DEF OpenReset
<1>3. CASE ReleaseIrq(p)
  BY <1>3 DEF ReleaseIrq
<1>4. CASE ~OpenLock(p) /\ ~OpenReset(p) /\ ~ReleaseIrq(p)
  <2>1. UNCHANGED <<events, latch, edge, handler, timer, counters>>
    BY <1>4 DEF ProcessStep, OpenAcquire, OpenTimer, OpenIrq, Unwind, ReleaseStart,
                ReleaseTimer, ReleaseRest
  <2> QED
    BY <2>1
<1> QED
  BY <1>1, <1>2, <1>3, <1>4

LEMMA NextAccounted ==
  ASSUME TypeOK, Accounted, [Next]_vars
  PROVE  Accounted'
<1> USE CounterTypes DEF Accounted, OneIf, latchVars, softVars, timerVars, counters
<1>1. ASSUME NEW p \in Procs, ProcessStep(p)
      PROVE  Accounted'
  BY <1>1, ProcessAccounted
<1>2. CASE LatchSet
  <2>1. events' = events + 1 /\ latch = "low" /\ UNCHANGED <<handler, timer, counters>>
    BY <1>2 DEF LatchSet
  <2>2. OneIf(edge)' <= OneIf(edge) + 1
    OBVIOUS
  <2> QED
    BY <2>1, <2>2
<1>3. CASE HandlerPut
  BY <1>3 DEF HandlerPut
<1>4. CASE HandlerSchedule \/ HandlerCount \/ HandlerTotal
  <2>1. CASE HandlerSchedule
    BY <2>1 DEF HandlerSchedule
  <2>2. CASE HandlerCount
    BY <2>2 DEF HandlerCount
  <2>3. CASE HandlerTotal
    BY <2>3 DEF HandlerTotal
  <2> QED
    BY <1>4, <2>1, <2>2, <2>3
<1>5. CASE SysReset
  BY <1>5 DEF SysReset
<1>6. CASE Tasklet
  <2>1. UNCHANGED <<events, edge, handler, timer, counters>>
    BY <1>6 DEF Tasklet, TaskletRun, TaskletPulse, TaskletWake, TaskletRearm
  <2>2. UNCHANGED latch \/ latch' = "low"
    BY <1>6 DEF Tasklet, TaskletRun, TaskletPulse, TaskletWake, TaskletRearm
  <2> QED
    BY <2>1, <2>2
<1>7. CASE TimerExpire \/ TimerRearm
  BY <1>7 DEF TimerExpire, TimerRearm
<1>8. CASE TimerTest
  BY <1>8 DEF TimerTest
<1>9. CASE TimerReset \/ TimerCount \/ TimerTotal
  <2>1. CASE TimerReset
    BY <2>1 DEF TimerReset
  <2>2. CASE TimerCount
    BY <2>2 DEF TimerCount
  <2>3. CASE TimerTotal
    BY <2>3 DEF TimerTotal
  <2> QED
    BY <1>9, <2>1, <2>2, <2>3
<1>10. CASE UNCHANGED vars
  BY <1>10 DEF vars
<1> QED
  BY <1>1, <1>2, <1>3, <1>4, <1>5, <1>6, <1>7, <1>8, <1>9, <1>10
     DEF Next, Handler, TimerFunction

\* Whoever has the interrupt attends to the timer.
LEMMA IrqAttended ==
  ASSUME TypeOK, HeldInv, "irq" \in held
  PROVE  Attended
<1>1. PICK p \in Procs : Owner(p)
  BY DEF HeldInv
<1>2. at[p] \in Places /\ PlaceHolds(at[p], held)
  BY <1>1 DEF Owner, TypeOK
<1>3. CASE at[p].phase = "open"
  <2>1. at[p].step \in 1..9 /\ "irq" \in OpenHeld(at[p].step)
    BY <1>2, <1>3, PlaceOf DEF PlaceHolds
  <2>2. at[p].step > 8
    BY <2>1, PlanLengths DEF OpenHeld, OpenPlan
  <2> QED
    BY <1>3, <2>1, <2>2 DEF Attended
<1>4. CASE at[p].phase = "release"
  <2>1. at[p].step \in 1..9 /\ "irq" \in ReleaseHeld(at[p].step)
    BY <1>2, <1>4, PlaceOf DEF PlaceHolds
  <2>2. at[p].step = 1
    BY <2>1, ReleaseLoses, PlanLengths DEF ReleaseHeld
  <2> QED
    BY <1>4, <2>2 DEF Attended
<1>5. CASE at[p].phase = "unwind"
  <2>1. at[p].step \in 1..7 /\ "irq" \in UnwindHeld(at[p].step)
    BY <1>2, <1>5, PlaceOf DEF PlaceHolds
  <2> QED
    BY <2>1, UnwindLoses, PlanLengths DEF UnwindHeld
<1>6. CASE at[p].phase \in {"out", "in", "dead"}
  BY <1>2, <1>6 DEF PlaceHolds, Attended, IsOpen
<1> QED
  BY <1>2, <1>3, <1>4, <1>5, <1>6, PlaceOf

\* A step of one process, the only one that is inside.
LEMMA ProcessQuietInv ==
  ASSUME TypeOK, HeldInv, HandlerHolds, QuietInv, NEW p \in Procs, ProcessStep(p)
  PROVE  QuietInv'
<1> USE PlanLengths, PlaceOf
<1>1. at[p] \in Places /\ at \in [Procs -> Places]
  BY DEF TypeOK
<1>2. \A q \in Procs \ {p} : at[q].phase = "out" /\ at'[q] = at[q]
  <2>1. Inside(p) \/ OpenLock(p)
    BY DEF ProcessStep, Inside, IsOpen, OpenAcquire, OpenTimer, OpenIrq, OpenReset, Unwind,
           ReleaseStart, ReleaseIrq, ReleaseTimer, ReleaseRest, Releasing
  <2>2. \A q \in Procs \ {p} : ~Inside(q)
    BY <2>1, InsideOwns DEF OpenLock, Owner
  <2>3. \A q \in Procs \ {p} : at'[q] = at[q]
    BY <1>1 DEF ProcessStep, OpenLock, OpenAcquire, OpenTimer, OpenIrq, OpenReset, Fail, Unwind,
         ReleaseStart, ReleaseIrq, ReleaseTimer, ReleaseRest, Releasing, Advance, Move
  <2> QED
    BY <2>2, <2>3 DEF Inside
<1>3. SUFFICES ASSUME ~leftover'
               PROVE  (Attended' \/ Quiet') /\ at'[p].phase # "dead"
  <2>1. \A q \in Procs \ {p} : at'[q].phase # "dead"
    BY <1>2
  <2> QED
    BY <1>3, <2>1 DEF QuietInv
<1>4. CASE ReleaseTimer(p)
  <2>1. at[p].phase = "release" /\ at[p].step = 2
    BY <1>1, <1>4 DEF ReleaseTimer, Releasing, ReleasePlan
  <2>2. held = ReleaseHeld(2)
    BY <2>1, InsideOwns DEF Inside, Owner, PlaceHolds
  <2>3. "irq" \notin held
    BY <2>2, ReleaseLoses
  <2>4. Quiet'
    BY <1>3, <1>4, <2>3 DEF ReleaseTimer, HandlerHolds, Quiet, SoftWork, softVars
  <2>5. at'[p].phase # "dead"
    BY <1>1, <1>4 DEF ReleaseTimer, Releasing, Advance, Move
  <2> QED
    BY <2>4, <2>5
<1>5. CASE OpenIrq(p) \/ OpenReset(p) \/ ReleaseStart(p) \/ ReleaseIrq(p)
  <2>1. CASE OpenIrq(p)
    BY <1>1, <1>3, <2>1 DEF OpenIrq, Advance, Move, Attended
  <2>2. CASE OpenReset(p) \/ ReleaseStart(p)
    BY <1>1, <2>2 DEF OpenReset, ReleaseStart, Move, Attended, IsOpen
  <2>3. CASE ReleaseIrq(p)
    <3>1. at[p].phase = "release" /\ at[p].step = 1
      BY <1>1, <2>3 DEF ReleaseIrq, Releasing, ReleasePlan
    <3> QED
      BY <1>1, <2>3, <3>1 DEF ReleaseIrq, Releasing, Advance, Move, Attended
  <2> QED
    BY <1>5, <2>1, <2>2, <2>3
<1>6. CASE OpenLock(p) \/ OpenAcquire(p) \/ OpenTimer(p) \/ Unwind(p) \/ ReleaseRest(p)
  <2>1. ~leftover /\ UNCHANGED <<softVars, timer, leftover>>
    BY <1>3, <1>6 DEF OpenLock, OpenAcquire, OpenTimer, Unwind, ReleaseRest, timerVars
  <2>2. ReleaseRest(p) => at[p].phase = "release" /\ at[p].step > 2
    BY <1>1 DEF ReleaseRest, Releasing, ReleasePlan, Resources, Pins, Files
  <2>3. ~Attended
    <3>1. ~(at[p].phase = "open" /\ at[p].step >= 8) /\ at[p].phase # "in"
      BY <1>6, <2>2 DEF OpenLock, OpenAcquire, OpenTimer, Unwind, Inside
    <3>2. ~(at[p].phase = "release" /\ at[p].step <= 2)
      BY <1>1, <1>6, <2>2 DEF OpenLock, OpenAcquire, OpenTimer, Unwind, Inside
    <3> QED
      BY <1>2, <3>1, <3>2 DEF Attended, IsOpen
  <2>4. Quiet
    BY <2>1, <2>3 DEF QuietInv
  <2>5. CASE OpenTimer(p)
    BY <1>1, <2>4, <2>5 DEF OpenTimer, Quiet, Advance, Move, Attended
  <2>6. CASE ~OpenTimer(p)
    <3>1. UNCHANGED armed
      BY <1>6, <2>6 DEF OpenLock, OpenAcquire, Unwind, ReleaseRest, timerVars
    <3>2. at'[p].phase # "dead"
      BY <1>1, <1>6, <2>6
         DEF OpenLock, OpenAcquire, Fail, Unwind, ReleaseRest, Releasing, Advance, Move
    <3> QED
      BY <2>1, <2>4, <3>1, <3>2 DEF Quiet, SoftWork, softVars
  <2> QED
    BY <2>5, <2>6
<1> QED
  BY <1>4, <1>5, <1>6 DEF ProcessStep

LEMMA NextQuietInv ==
  ASSUME TypeOK, HeldInv, HandlerHolds, QuietInv, [Next]_vars
  PROVE  QuietInv'
<1>1. ASSUME NEW p \in Procs, ProcessStep(p)
      PROVE  QuietInv'
  BY <1>1, ProcessQuietInv
<1>2. ASSUME ~\E p \in Procs : ProcessStep(p)
      PROVE  QuietInv'
  <2>1. UNCHANGED <<at, leftover>>
    BY <1>2 DEF Next, LatchSet, SysReset, Handler, HandlerPut, HandlerSchedule, HandlerCount,
         HandlerTotal, Tasklet, TaskletRun, TaskletPulse, TaskletWake, TaskletRearm, TimerExpire,
         TimerFunction, TimerTest, TimerReset, TimerCount, TimerTotal, TimerRearm, vars, timerVars
  <2>2. Attended => Attended'
    BY <2>1 DEF Attended, IsOpen
  <2>3. ASSUME ~Attended, Quiet
        PROVE  Quiet'
    <3>1. ~HandlerPut
      BY <2>3, IrqAttended DEF HandlerPut
    <3> QED
      BY <1>2, <2>3, <3>1
         DEF Quiet, SoftWork, softVars, timerVars, Next, LatchSet, SysReset, Handler,
             HandlerSchedule, HandlerCount, HandlerTotal, Tasklet, TaskletRun, TaskletPulse,
             TaskletWake, TaskletRearm, TimerExpire, TimerFunction, TimerTest, TimerReset,
             TimerCount, TimerTotal, TimerRearm, vars
  <2> QED
    BY <2>1, <2>2, <2>3 DEF QuietInv
<1> QED
  BY <1>1, <1>2

LEMMA InitInductive == Init => Inductive
<1> SUFFICES ASSUME Init PROVE Inductive
  OBVIOUS
<1>1. HandlerHolds /\ ResetToCome /\ TimerKept
  BY DEF Init, Out, HandlerHolds, ResetToCome, TimerKept, IsOpen
<1>2. Accounted
  BY SessionAssumption DEF Init, Accounted, OneIf
<1>3. QuietInv
  BY DEF Init, Out, QuietInv, Quiet, SoftWork
<1> QED
  BY <1>1, <1>2, <1>3, InitTypeOK, InitHeldInv DEF Inductive

LEMMA NextInductive == Inductive /\ [Next]_vars => Inductive'
BY NextTypeOK, NextHeldInv, NextHandlerHolds, NextResetToCome, NextTimerKept, NextAccounted,
   NextQuietInv DEF Inductive

LEMMA InductiveAlways == Spec => []Inductive
BY InitInductive, NextInductive, PTL DEF Spec

-----------------------------------------------------------------------------
(* The theorems.                                                           *)

\* Only one process is ever between locking and unlocking the mutex, whatever
\* opens, failures and releases came before (lines 226-361).
THEOREM OneUser == Spec => []SoleUser
<1>1. Inductive => SoleUser
  BY InsideOwns DEF Inductive, SoleUser, Owner
<1> QED
  BY <1>1, InductiveAlways, PTL

\* open() that fails at any point gives back exactly what it acquired, and
\* release() gives back everything (lines 310-361).
THEOREM EverythingGivenBack == Spec => []NothingLeaked
<1>1. ASSUME Inductive, \A p \in Procs : ~Inside(p)
      PROVE  held = {}
  BY <1>1 DEF Inductive, HeldInv, Owner, PlaceHolds, Inside
<1> QED
  BY <1>1, InductiveAlways, PTL DEF NothingLeaked

\* No resource is held without the pins it uses.
LEMMA PlacePins ==
  ASSUME NEW l \in Places, NEW h, PlaceHolds(l, h)
  PROVE  /\ "irq" \in h => Pins \subseteq h
         /\ "sysfs_reset" \in h => "gpio_reset" \in h
         /\ "sysfs_pulse" \in h => "gpio_pulse" \in h
         /\ "sysfs_input" \in h => "gpio_input" \in h
<1>1. CASE l.phase = "open"
  <2>1. h = OpenHeld(l.step) /\ l.step \in 1..9
    BY <1>1, PlaceOf DEF PlaceHolds
  <2>2. "irq" \in h => h = Resources
    BY <2>1, OpenGains, PlanLengths DEF OpenHeld, OpenPlan
  <2>3. /\ "sysfs_reset" \in h => l.step > 4
        /\ "sysfs_pulse" \in h => l.step > 5
        /\ "sysfs_input" \in h => l.step > 6
    BY <2>1, PlanLengths DEF OpenHeld, OpenPlan
  <2>4. l.step > 3 => Pins \subseteq h
    BY <2>1, PlanLengths DEF OpenHeld, OpenPlan, Pins
  <2> QED
    BY <2>1, <2>2, <2>3, <2>4 DEF Resources, Pins
<1>2. CASE l.phase = "unwind"
  <2>1. h = UnwindHeld(l.step) /\ l.step \in 1..7
    BY <1>2, PlaceOf DEF PlaceHolds
  <2>2. "irq" \notin h
    BY <2>1, UnwindLoses, PlanLengths DEF UnwindHeld
  <2>3. "sysfs_reset" \in h \/ "sysfs_pulse" \in h \/ "sysfs_input" \in h => l.step <= 3
    BY <2>1, PlanLengths DEF UnwindHeld, UnwindPlan
  <2>4. l.step <= 3 => Pins \subseteq h
    BY <2>1, PlanLengths DEF UnwindHeld, UnwindPlan, Pins
  <2> QED
    BY <2>2, <2>3, <2>4 DEF Pins
<1>3. CASE l.phase = "release"
  <2>1. h = ReleaseHeld(l.step) /\ l.step \in 1..9
    BY <1>3, PlaceOf DEF PlaceHolds
  <2>2. /\ "irq" \in h => l.step <= 6
        /\ "sysfs_reset" \in h \/ "sysfs_pulse" \in h \/ "sysfs_input" \in h => l.step <= 6
    BY <2>1, PlanLengths DEF ReleaseHeld, ReleasePlan
  <2>3. l.step <= 6 => Pins \subseteq h
    BY <2>1, PlanLengths DEF ReleaseHeld, ReleasePlan, Pins
  <2> QED
    BY <2>2, <2>3 DEF Pins
<1>4. CASE l.phase \in {"out", "in", "dead"}
  BY <1>4 DEF PlaceHolds, Resources, Pins, Files
<1> QED
  BY <1>1, <1>2, <1>3, <1>4, PlaceOf

\* The interrupt, a running handler and each sysfs file only exist while the
\* pins they use are reserved (lines 236-301, 337-358).
THEOREM PinsAlwaysOutlive == Spec => []PinsOutliveUsers
<1>1. ASSUME Inductive
      PROVE  PinsOutliveUsers
  <2> USE <1>1 DEF Inductive, PinsOutliveUsers
  <2>1. CASE held = {}
    BY <2>1 DEF HandlerHolds
  <2>2. ASSUME NEW p \in Procs, Owner(p)
        PROVE  PinsOutliveUsers
    <3>1. at[p] \in Places /\ PlaceHolds(at[p], held)
      BY <2>2 DEF TypeOK, Owner
    <3> QED
      BY <3>1, PlacePins DEF HandlerHolds
  <2> QED
    BY <2>1, <2>2 DEF HeldInv
<1> QED
  BY <1>1, InductiveAlways, PTL

\* A high latch whose interrupt was not lost has its reset on the way (lines
\* 105-141).
THEOREM ResetAlwaysToCome == Spec => []ResetToCome
<1>1. Inductive => ResetToCome
  BY DEF Inductive
<1> QED
  BY <1>1, InductiveAlways, PTL

\* The interrupt loss monitor of an open device never stops (lines 82-116).
THEOREM MonitorNeverDies == Spec => []MonitorAlive
<1>1. Inductive => MonitorAlive
  BY DEF Inductive, TimerKept, MonitorAlive
<1> QED
  BY <1>1, InductiveAlways, PTL

\* The counters never claim more interrupts, or more missed ones, than there were
\* events, and a session no more than the totals but for the one that is just being
\* added (lines 93-97, 135-136).
THEOREM CountersNeverExceed == Spec => []CountersBounded
<1>1. ASSUME Inductive
      PROVE  CountersBounded
  <2>1. Accounted /\ TypeOK
    BY <1>1 DEF Inductive
  <2> QED
    BY <2>1, CounterTypes DEF Accounted, CountersBounded, OneIf
<1> QED
  BY <1>1, InductiveAlways, PTL

\* A device that is closed is quiet, and no open() finds the timer pending, but
\* after a failed request_irq or a release with a tasklet under way (lines
\* 291-316, 337-343).
THEOREM ClosedIsQuiet == Spec => []QuietUnlessLeftOver
<1>1. Inductive => QuietUnlessLeftOver
  <2>1. (\A p \in Procs : ~Inside(p)) => ~Attended
    BY DEF Attended, Inside, IsOpen
  <2> QED
    BY <2>1 DEF Inductive, QuietInv, QuietUnlessLeftOver, Quiet
<1> QED
  BY <1>1, InductiveAlways, PTL
=============================================================================
