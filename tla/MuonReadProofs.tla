--------------------------- MODULE MuonReadProofs ---------------------------
(***************************************************************************)
(* Proofs about the data path of the driver, for every fifo size, transfer *)
(* buffer, record size and bound on the events.                            *)
(*                                                                         *)
(* Undelivered is a sequence of bytes, with a division in its definition;  *)
(* the invariants only ask whether it is empty, which HasData says without *)
(* one.  The proofs are about HasData, and DataUndelivered joins the two.  *)
(***************************************************************************)
EXTENDS MuonRead, SequenceTheorems, TLAPS

Byte == (1..MaxEvents) \X (1..TsSize)

-----------------------------------------------------------------------------
(* Facts about the data.                                                   *)

\* The record that byte k of a stream of m records belongs to.
LEMMA Quotient ==
  ASSUME NEW n \in Nat \ {0}, NEW m \in Nat, NEW k \in 1..(n * m)
  PROVE  (k - 1) \div n + 1 \in 1..m
<1> DEFINE q == (k - 1) \div n
<1>1. k \in Int /\ k >= 1 /\ k <= n * m /\ n * m \in Nat
  OBVIOUS
<1>2. q \in Int /\ n * q <= k - 1 /\ k - 1 = n * q + ((k - 1) % n)
  BY <1>1
<1>3. n * q < n * m
  BY <1>1, <1>2
<1>4. q < m
  BY <1>2, <1>3
<1>5. q >= 0
  BY <1>1, <1>2
<1> QED
  BY <1>2, <1>4, <1>5

\* The bytes of one timestamp.
LEMMA RecordType ==
  ASSUME NEW e \in 1..MaxEvents
  PROVE  Record(e) \in Seq(Byte) /\ Len(Record(e)) = TsSize
<1>1. TsSize \in Nat
  BY ReadAssumption
<1>2. Record(e) \in [1..TsSize -> Byte]
  BY DEF Record, Byte
<1>3. Record(e) \in Seq(Byte)
  BY <1>1, <1>2, SeqDef
<1>4. Len(Record(e)) = TsSize
  BY <1>1, <1>2, <1>3, LenProperties
<1> QED
  BY <1>3, <1>4

\* The bytes a read returns are bytes of the buffer.
LEMMA SliceType ==
  ASSUME NEW b \in Seq(Byte), NEW m \in Nat, NEW n \in Nat, n <= Len(b)
  PROVE  SubSeq(b, m + 1, n) \in Seq(Byte)
<1>1. \A i \in (m + 1)..n : b[i] \in Byte
  BY ElementOfSeq, LenProperties
<1> QED
  BY <1>1, SubSeqProperties

\* The bytes of a fifo are a sequence of bytes.
LEMMA BytesType ==
  ASSUME NEW s \in Seq(1..MaxEvents)
  PROVE  Bytes(s) \in Seq(Byte)
<1>1. Len(s) \in Nat /\ TsSize \in Nat \ {0}
  BY ReadAssumption, LenProperties
<1>2. TsSize * Len(s) \in Nat
  BY <1>1
<1>3. ASSUME NEW k \in 1..(TsSize * Len(s))
      PROVE  <<s[(k - 1) \div TsSize + 1], ((k - 1) % TsSize) + 1>> \in Byte
  <2>1. (k - 1) \div TsSize + 1 \in 1..Len(s)
    BY <1>1, <1>2, Quotient
  <2>2. ((k - 1) % TsSize) + 1 \in 1..TsSize
    BY <1>1, <1>2
  <2> QED
    BY <2>1, <2>2, ElementOfSeq DEF Byte
<1>4. Bytes(s) \in [1..(TsSize * Len(s)) -> Byte]
  BY <1>3 DEF Bytes
<1> QED
  BY <1>2, <1>4, SeqDef

\* A fifo that holds a record has bytes to deliver.
LEMMA BytesEmpty ==
  ASSUME NEW s \in Seq(1..MaxEvents)
  PROVE  Bytes(s) = <<>> <=> s = <<>>
<1>1. Len(s) \in Nat /\ TsSize \in Nat \ {0} /\ (s # <<>> => Len(s) > 0)
  BY ReadAssumption, LenProperties, EmptySeq
<1>2. DOMAIN Bytes(s) = 1..(TsSize * Len(s))
  BY DEF Bytes
<1>3. CASE s = <<>>
  <2>1. TsSize * Len(s) = 0
    BY <1>1, <1>3
  <2>2. DOMAIN Bytes(s) = {}
    BY <1>2, <2>1
  <2> QED
    BY <1>3, <2>2 DEF Bytes
<1>4. CASE s # <<>>
  <2>1. TsSize * Len(s) \in Nat /\ TsSize * Len(s) >= 1
    BY <1>1, <1>4
  <2>2. 1 \in DOMAIN Bytes(s)
    BY <1>2, <2>1
  <2> QED
    BY <1>4, <2>2
<1> QED
  BY <1>3, <1>4

\* There is something to read exactly when has_data() says so.
LEMMA DataUndelivered ==
  ASSUME TypeOK
  PROVE  HasData <=> Undelivered # <<>>
<1> DEFINE rest == SubSeq(buffer, readp + 1, Len(buffer))
<1>1. /\ buffer \in Seq(Byte) /\ fifo \in Seq(1..MaxEvents)
      /\ readp \in Nat /\ readp <= Len(buffer) /\ Len(buffer) \in Nat
  BY LenProperties DEF TypeOK, Byte
<1>2. rest \in Seq(Byte)
  BY <1>1, SliceType
<1>3. Len(rest) = Len(buffer) - readp
  <2>1. \A i \in (readp + 1)..Len(buffer) : buffer[i] \in Byte
    BY <1>1, ElementOfSeq
  <2> QED
    BY <1>1, <2>1, SubSeqProperties
<1> HIDE DEF rest
<1>4. rest = <<>> <=> Len(buffer) = readp
  <2>1. rest # <<>> => Len(rest) \in Nat \ {0}
    BY <1>2, EmptySeq
  <2>2. Len(<<>>) = 0
    OBVIOUS
  <2> QED
    BY <1>1, <1>3, <2>1, <2>2
<1>5. Bytes(fifo) \in Seq(Byte)
  BY <1>1, BytesType
<1>6. Undelivered = <<>> <=> rest = <<>> /\ Bytes(fifo) = <<>>
  BY <1>2, <1>5, ConcatEqualIffEmpty, ConcatSimplifications, ConcatEmptySeq, EmptySeq
     DEF Undelivered, rest
<1>7. Bytes(fifo) = <<>> <=> fifo = <<>>
  BY <1>1, BytesEmpty
<1> QED
  BY <1>1, <1>4, <1>6, <1>7 DEF HasData
-----------------------------------------------------------------------------
(* The invariants.  Inductive is TypeOK with what the proofs of the four    *)
(* properties need besides: where the reader is says what the buffer and    *)
(* the fifo hold.                                                           *)

\* A closed device has no call in progress and no poll to honour.
Closed == ~opened => reader = "user" /\ ~readable

\* A reader past its wait has data: in the buffer, or in the fifo about to be
\* drained into an empty buffer.
PastWait ==
  /\ reader = "fill" => HasData
  /\ reader = "drain" => readp = 0 /\ HasData
  /\ reader = "copy" => Len(buffer) > readp

\* NoLostWakeup and PollHonoured in terms of has_data().
WakeupComing ==
  reader = "asleep" /\ waiting /\ HasData =>
    handler = "schedule" \/ scheduled \/ tasklet = "wake"
PollKept == readable => HasData

Inductive == TypeOK /\ BufferInBounds /\ Closed /\ PastWait /\ WakeupComing /\ PollKept

-----------------------------------------------------------------------------
(* Type correctness.                                                       *)

LEMMA InitTypeOK == Init => TypeOK
<1>1. FifoSize \in Nat /\ TsSize \in Nat /\ MaxEvents \in Nat
  BY ReadAssumption
<1>2. <<>> \in Seq(1..MaxEvents) /\ <<>> \in Seq((1..MaxEvents) \X (1..TsSize)) /\ Len(<<>>) = 0
  BY EmptySeq
<1> SUFFICES ASSUME Init PROVE TypeOK
  OBVIOUS
<1>3. fifo \in Seq(1..MaxEvents) /\ Len(fifo) <= FifoSize
  BY <1>1, <1>2 DEF Init
<1>4. /\ buffer \in Seq((1..MaxEvents) \X (1..TsSize)) /\ readp \in 0..Len(buffer)
      /\ received \in Seq((1..MaxEvents) \X (1..TsSize))
  BY <1>2 DEF Init
<1>5. clock \in 0..MaxEvents /\ call \in Calls \cup {NoCall}
  BY <1>1 DEF Init
<1>6. /\ opened \in BOOLEAN /\ handler = "idle" /\ scheduled \in BOOLEAN /\ tasklet = "idle"
      /\ reader = "user" /\ waiting \in BOOLEAN /\ readable \in BOOLEAN
  BY DEF Init
<1> QED
  BY <1>3, <1>4, <1>5, <1>6 DEF TypeOK

LEMMA NextTypeOK == TypeOK /\ [Next]_vars => TypeOK'
<1> SUFFICES ASSUME TypeOK, [Next]_vars
             PROVE  TypeOK'
  OBVIOUS
<1> USE ReadAssumption
<1>1. /\ <<>> \in Seq(1..MaxEvents) /\ <<>> \in Seq(Byte) /\ Len(<<>>) = 0
      /\ buffer \in Seq(Byte) /\ Len(buffer) \in Nat
      /\ readp \in Nat /\ readp <= Len(buffer)
      /\ fifo \in Seq(1..MaxEvents) /\ Len(fifo) \in Nat /\ Len(fifo) <= FifoSize
      /\ received \in Seq(Byte)
      /\ FifoSize \in Nat \ {0} /\ TsSize \in Nat \ {0}
  BY EmptySeq, LenProperties DEF TypeOK, Byte
<1>2. CASE Open
  BY <1>1, <1>2 DEF TypeOK, Open, irqVars, Byte
<1>3. CASE Release
  BY <1>3 DEF TypeOK, Release, irqVars, dataVars
<1>4. CASE Interrupt
  <2>1. clock' \in 1..MaxEvents
    BY <1>4 DEF Interrupt, TypeOK
  <2>2. Append(fifo, clock') \in Seq(1..MaxEvents) /\ Len(Append(fifo, clock')) = Len(fifo) + 1
    BY <1>1, <2>1, AppendProperties
  <2>3. fifo' \in Seq(1..MaxEvents) /\ Len(fifo') <= FifoSize
    <3>1. fifo' = IF Len(fifo) < FifoSize THEN Append(fifo, clock') ELSE fifo
      BY <1>4 DEF Interrupt, Put
    <3>2. Len(fifo) \in Nat /\ FifoSize \in Nat /\ Len(fifo) <= FifoSize
      BY <1>1
    <3>3. CASE Len(fifo) < FifoSize
      BY <2>2, <3>1, <3>2, <3>3
    <3>4. CASE ~(Len(fifo) < FifoSize)
      BY <1>1, <3>1, <3>4
    <3> QED
      BY <3>3, <3>4
  <2> QED
    BY <1>4, <2>1, <2>3 DEF Interrupt, TypeOK
<1>5. CASE HandlerOrTasklet
  BY <1>5 DEF TypeOK, HandlerOrTasklet, HandlerSchedule, TaskletRun, TaskletWake, dataVars
<1>6. ASSUME NEW c \in Calls, Call(c)
      PROVE  TypeOK'
  BY <1>6 DEF TypeOK, Call, irqVars, dataVars
<1>7. CASE Test \/ Prepare \/ Recheck \/ Woken \/ Interrupted
  BY <1>7 DEF TypeOK, Test, Prepare, Recheck, Woken, Interrupted, Goto, Return, irqVars, dataVars
<1>8. CASE Fill
  <2>1. CASE readp = Len(buffer)
    <3>1. /\ buffer' = <<>> /\ readp' = 0 /\ reader' = "drain"
          /\ UNCHANGED <<clock, opened, fifo, irqVars, call, waiting, readable, received>>
      BY <1>8, <2>1 DEF Fill, Goto
    <3>2. buffer' \in Seq((1..MaxEvents) \X (1..TsSize)) /\ readp' \in 0..Len(buffer')
      BY <1>1, <3>1 DEF Byte
    <3> QED
      BY <3>1, <3>2 DEF TypeOK, irqVars
  <2>2. CASE readp # Len(buffer)
    BY <1>8, <2>2 DEF TypeOK, Fill, Goto, irqVars
  <2> QED
    BY <2>1, <2>2
<1>9. CASE Drain
  <2>1. CASE fifo = <<>> \/ NoRoom
    BY <1>9, <2>1 DEF TypeOK, Drain, Goto, irqVars
  <2>2. CASE ~(fifo = <<>> \/ NoRoom)
    <3>1. /\ Head(fifo) \in 1..MaxEvents
          /\ Tail(fifo) \in Seq(1..MaxEvents) /\ Len(Tail(fifo)) = Len(fifo) - 1
      BY <1>1, <2>2, HeadTailProperties
    <3>2. /\ buffer \o Record(Head(fifo)) \in Seq(Byte)
          /\ Len(buffer \o Record(Head(fifo))) = Len(buffer) + TsSize
      <4>1. Record(Head(fifo)) \in Seq(Byte) /\ Len(Record(Head(fifo))) = TsSize
        BY <3>1, RecordType
      <4> QED
        BY <1>1, <4>1, ConcatProperties
    <3>3. /\ buffer' = buffer \o Record(Head(fifo)) /\ fifo' = Tail(fifo)
          /\ UNCHANGED <<clock, opened, irqVars, reader, call, readp, waiting, readable,
                         received>>
      BY <1>9, <2>2 DEF Drain
    <3>4. /\ buffer' \in Seq((1..MaxEvents) \X (1..TsSize)) /\ readp' \in 0..Len(buffer')
          /\ fifo' \in Seq(1..MaxEvents) /\ Len(fifo') <= FifoSize
      <4>1. buffer' \in Seq((1..MaxEvents) \X (1..TsSize)) /\ fifo' \in Seq(1..MaxEvents)
        BY <3>1, <3>2, <3>3 DEF Byte
      <4>2. /\ Len(buffer) \in Nat /\ TsSize \in Nat /\ readp \in Nat /\ readp <= Len(buffer)
            /\ Len(fifo) \in Nat /\ Len(fifo) <= FifoSize /\ FifoSize \in Nat
        BY <1>1
      <4>3. readp' = readp /\ Len(buffer') = Len(buffer) + TsSize /\ Len(fifo') = Len(fifo) - 1
        BY <3>1, <3>2, <3>3
      <4>4. readp' \in 0..Len(buffer') /\ Len(fifo') <= FifoSize
        BY <4>2, <4>3
      <4> QED
        BY <4>1, <4>4
    <3> QED
      BY <3>3, <3>4 DEF TypeOK, irqVars
  <2> QED
    BY <2>1, <2>2
<1>10. CASE Copy \/ CopyFails
  <2> DEFINE n == Smaller(call.count, Len(buffer) - readp)
  <2>1. CASE Copy
    <3>1. call.count \in Nat
      <4>1. CASE call \in Calls
        BY <4>1 DEF Calls
      <4>2. CASE call = NoCall
        BY <4>2 DEF NoCall
      <4> QED
        BY <4>1, <4>2 DEF TypeOK
    <3>2. n \in Nat /\ readp + n <= Len(buffer) /\ readp \in Nat
      BY <1>1, <3>1 DEF Smaller, TypeOK
    <3> HIDE DEF n
    <3>3. SubSeq(buffer, readp + 1, readp + n) \in Seq(Byte)
      BY <1>1, <3>2, SliceType
    <3>4. received \o SubSeq(buffer, readp + 1, readp + n) \in Seq(Byte)
      BY <1>1, <3>3, ConcatProperties
    <3>5. /\ readp' = readp + n /\ buffer' = buffer
          /\ received' = received \o SubSeq(buffer, readp + 1, readp + n)
      BY <2>1 DEF Copy, n
    <3>6. readp' \in 0..Len(buffer') /\ received' \in Seq((1..MaxEvents) \X (1..TsSize))
      BY <1>1, <3>2, <3>4, <3>5 DEF Byte
    <3> QED
      BY <2>1, <3>6 DEF TypeOK, Copy, Return, irqVars
  <2>2. CASE CopyFails
    BY <2>2 DEF TypeOK, CopyFails, Return, irqVars, dataVars
  <2> QED
    BY <1>10, <2>1, <2>2
<1>11. CASE UNCHANGED vars
  BY <1>11 DEF TypeOK, vars, irqVars, dataVars
<1> QED
  BY <1>2, <1>3, <1>4, <1>5, <1>6, <1>7, <1>8, <1>9, <1>10, <1>11 DEF Next, ReaderStep

\* Type correctness: no step of the handler, the tasklet or the reader leaves
\* a variable outside its type, and kfifo_put never fills the fifo beyond its
\* size (lines 121-143, 388-457).
THEOREM TypeCorrect == Spec => []TypeOK
<1> QED
  BY InitTypeOK, NextTypeOK, PTL DEF Spec
-----------------------------------------------------------------------------
(* The inductive invariant.                                                *)

LEMMA InitInductive == Init => Inductive
<1> SUFFICES ASSUME Init PROVE Inductive
  OBVIOUS
<1>1. TypeOK
  BY InitTypeOK
<1>2. Len(buffer) = 0 /\ BufSize \in Nat
  BY ReadAssumption DEF Init
<1> QED
  BY <1>1, <1>2 DEF Init, Inductive, BufferInBounds, Closed, PastWait, WakeupComing, PollKept

\* The transfer buffer grows only in Drain, and only while there is room.
LEMMA NextBufferInBounds ==
  ASSUME TypeOK, BufferInBounds, [Next]_vars
  PROVE  BufferInBounds'
<1>1. /\ BufSize \in Nat /\ TsSize \in Nat /\ Len(<<>>) = 0
      /\ Len(buffer) \in Nat /\ Len(buffer) <= BufSize
  BY ReadAssumption, LenProperties DEF TypeOK, BufferInBounds
<1>2. CASE Drain /\ ~(fifo = <<>> \/ NoRoom)
  <2>1. Head(fifo) \in 1..MaxEvents
    BY <1>2, HeadTailProperties DEF TypeOK
  <2>2. Record(Head(fifo)) \in Seq(Byte) /\ Len(Record(Head(fifo))) = TsSize
    BY <2>1, RecordType
  <2>3. buffer \in Seq(Byte)
    BY DEF TypeOK, Byte
  <2>4. Len(buffer \o Record(Head(fifo))) = Len(buffer) + TsSize
    BY <2>2, <2>3, ConcatProperties
  <2>5. Len(buffer') = Len(buffer) + TsSize
    BY <1>2, <2>4 DEF Drain
  <2>6. ~(Len(buffer) + TsSize >= BufSize)
    BY <1>2 DEF NoRoom
  <2> QED
    BY <1>1, <2>5, <2>6 DEF BufferInBounds
<1>3. CASE buffer' = <<>>
  BY <1>1, <1>3 DEF BufferInBounds
<1>4. CASE UNCHANGED buffer
  BY <1>1, <1>4 DEF BufferInBounds
<1>5. buffer' = <<>> \/ UNCHANGED buffer \/ (Drain /\ ~(fifo = <<>> \/ NoRoom))
  BY DEF Next, Open, Release, Interrupt, HandlerOrTasklet, HandlerSchedule, TaskletRun,
         TaskletWake, Call, ReaderStep, Test, Prepare, Recheck, Woken, Interrupted, Fill,
         Drain, Copy, CopyFails, Goto, Return, vars, dataVars
<1> QED
  BY <1>2, <1>3, <1>4, <1>5

\* What each step does to the data, as far as has_data() and the reader's place
\* are concerned.
LEMMA NextData ==
  ASSUME Inductive, [Next]_vars
  PROVE  Closed' /\ PastWait' /\ WakeupComing' /\ PollKept'
<1> USE DEF Closed, PastWait, WakeupComing, PollKept, HasData
<1>1. /\ TypeOK /\ Closed /\ PastWait /\ WakeupComing /\ PollKept
      /\ readp \in Nat /\ Len(buffer) \in Nat /\ readp <= Len(buffer) /\ Len(<<>>) = 0
  BY LenProperties DEF Inductive, TypeOK
<1>2. CASE Open
  BY <1>1, <1>2 DEF Open
<1>3. CASE Release
  BY <1>1, <1>3 DEF Release, dataVars
<1>4. CASE Interrupt
  <2>1. fifo' # <<>> \/ fifo' = fifo
    <3>1. clock' \in 1..MaxEvents /\ fifo \in Seq(1..MaxEvents)
      BY <1>1, <1>4, ReadAssumption DEF Interrupt, TypeOK
    <3>2. Append(fifo, clock') # <<>>
      BY <3>1, AppendProperties
    <3> QED
      BY <1>4, <3>2 DEF Interrupt, Put
  <2> QED
    BY <1>1, <1>4, <2>1 DEF Interrupt
<1>5. CASE HandlerSchedule
  BY <1>1, <1>5 DEF HandlerSchedule, dataVars
<1>6. CASE TaskletRun
  BY <1>1, <1>6 DEF TaskletRun, dataVars
<1>7. CASE TaskletWake
  BY <1>1, <1>7 DEF TaskletWake, dataVars
<1>8. ASSUME NEW c \in Calls, Call(c)
      PROVE  Closed' /\ PastWait' /\ WakeupComing' /\ PollKept'
  BY <1>1, <1>8 DEF Call, dataVars, irqVars
<1>9. CASE Test
  BY <1>1, <1>9 DEF Test, Goto, Return, dataVars, irqVars
<1>10. CASE Prepare
  BY <1>1, <1>10 DEF Prepare, Goto, dataVars, irqVars
<1>11. CASE Recheck
  BY <1>1, <1>11 DEF Recheck, Goto, Return, dataVars, irqVars
<1>12. CASE Woken
  BY <1>1, <1>12 DEF Woken, Goto, dataVars, irqVars
<1>13. CASE Interrupted
  BY <1>1, <1>13 DEF Interrupted, Return, dataVars, irqVars
<1>14. CASE Fill
  BY <1>1, <1>14 DEF Fill, Goto, irqVars
<1>15. CASE Drain
  <2>1. CASE fifo = <<>> \/ NoRoom
    <3>1. Len(buffer) > readp
      BY <1>1, <1>15, <2>1, ReadAssumption DEF Drain, Goto, NoRoom
    <3> QED
      BY <1>1, <1>15, <2>1, <3>1 DEF Drain, Goto, irqVars
  <2>2. CASE ~(fifo = <<>> \/ NoRoom)
    <3>1. /\ reader = "drain" /\ reader' = "drain" /\ readp = 0 /\ readp' = 0
          /\ buffer' = buffer \o Record(Head(fifo))
          /\ UNCHANGED <<opened, handler, scheduled, tasklet, waiting, readable>>
      BY <1>1, <1>15, <2>2 DEF Drain, irqVars
    <3>2. Record(Head(fifo)) \in Seq(Byte) /\ Len(Record(Head(fifo))) = TsSize
      BY <1>1, <2>2, HeadTailProperties, RecordType DEF TypeOK
    <3>3. buffer \in Seq(Byte)
      BY <1>1 DEF TypeOK, Byte
    <3>4. Len(buffer \o Record(Head(fifo))) = Len(buffer) + TsSize
      BY <3>2, <3>3, ConcatProperties
    <3>5. Len(buffer') > readp'
      BY <1>1, <3>1, <3>4, ReadAssumption
    <3> QED
      BY <1>1, <3>1, <3>5
  <2> QED
    BY <2>1, <2>2
<1>16. CASE Copy
  BY <1>1, <1>16 DEF Copy, Return, irqVars
<1>17. CASE CopyFails
  BY <1>1, <1>17 DEF CopyFails, Return, irqVars, dataVars
<1>18. CASE UNCHANGED vars
  BY <1>1, <1>18 DEF vars, irqVars, dataVars
<1> QED
  BY <1>2, <1>3, <1>4, <1>5, <1>6, <1>7, <1>8, <1>9, <1>10, <1>11, <1>12, <1>13, <1>14,
     <1>15, <1>16, <1>17, <1>18 DEF Next, ReaderStep, HandlerOrTasklet

LEMMA NextInductive == Inductive /\ [Next]_vars => Inductive'
  BY NextTypeOK, NextBufferInBounds, NextData DEF Inductive

LEMMA InductiveAlways == Spec => []Inductive
  BY InitInductive, NextInductive, PTL DEF Spec

-----------------------------------------------------------------------------
(* The theorems.                                                           *)

\* The transfer buffer is never written past its end (lines 422-438).
THEOREM BufferNeverOverrun == Spec => []BufferInBounds
<1>1. Inductive => BufferInBounds
  BY DEF Inductive
<1> QED
  BY <1>1, InductiveAlways, PTL

\* No read returns 0 bytes (lines 412-456), as long as it asks for some.
THEOREM ReadNeverEmpty == Spec => []NoFalseEof
<1>1. Inductive => NoFalseEof
  BY DEF Inductive, PastWait, NoFalseEof
<1> QED
  BY <1>1, InductiveAlways, PTL

\* The handler, the tasklet and the wait of the reader never leave it asleep
\* with data and nobody to wake it (lines 105-141, 395-410).
THEOREM WakeupNeverLost == Spec => []NoLostWakeup
<1>1. Inductive => NoLostWakeup
  BY DataUndelivered DEF Inductive, WakeupComing, NoLostWakeup
<1> QED
  BY <1>1, InductiveAlways, PTL

\* Data that poll() has reported stays until it is read (lines 371-385).
THEOREM PollAlwaysHonoured == Spec => []PollHonoured
<1>1. Inductive => PollHonoured
  BY DataUndelivered DEF Inductive, PollKept, PollHonoured
<1> QED
  BY <1>1, InductiveAlways, PTL

-----------------------------------------------------------------------------
(* The data path of the driver implements the abstract byte stream of      *)
(* EventStream.                                                            *)
(*                                                                         *)
(* Under the mapping backlog <- Undelivered, an interrupt that finds room  *)
(* is an Event, a copy_to_user of n bytes is a Read(n), open() starts a    *)
(* NewSession, and every other step, the draining of the fifo among them,  *)
(* leaves the stream as it is.                                             *)

-----------------------------------------------------------------------------
(* The bytes of a fifo.                                                    *)

LEMMA BytesLen ==
  ASSUME NEW s \in Seq(1..MaxEvents)
  PROVE  Len(Bytes(s)) = TsSize * Len(s) /\ TsSize * Len(s) \in Nat
<1>1. TsSize * Len(s) \in Nat
  BY ReadAssumption, LenProperties
<1>2. Bytes(s) \in Seq(Byte)
  BY BytesType
<1>3. DOMAIN Bytes(s) = 1..(TsSize * Len(s)) /\ DOMAIN Bytes(s) = 1..Len(Bytes(s))
  BY <1>2, LenProperties DEF Bytes
<1>4. Len(Bytes(s)) \in Nat
  BY <1>2, LenProperties
<1> QED
  BY <1>1, <1>3, <1>4

\* Byte number k of the bytes of s.
LEMMA BytesAt ==
  ASSUME NEW s, NEW k \in 1..(TsSize * Len(s))
  PROVE  Bytes(s)[k] = <<s[(k - 1) \div TsSize + 1], ((k - 1) % TsSize) + 1>>
BY DEF Bytes

\* How the number of a byte splits into record and byte of the record.
LEMMA Split ==
  ASSUME NEW n \in Nat \ {0}, NEW m \in Nat, NEW r \in 1..n
  PROVE  ((n * m + r) - 1) \div n = m /\ ((n * m + r) - 1) % n = r - 1
<1> DEFINE j == (n * m + r) - 1
<1>1. n * m \in Nat /\ j \in Nat /\ j = n * m + (r - 1) /\ r - 1 \in 0..(n - 1)
  OBVIOUS
<1>2. j \div n \in Int /\ j % n \in 0..(n - 1) /\ j = n * (j \div n) + (j % n)
  BY <1>1
<1> DEFINE d == j \div n
<1> HIDE DEF j, d
<1>3. d \in Int /\ n * d \in Int /\ n * d - n * m < n /\ n * m - n * d < n
  BY <1>1, <1>2 DEF d
<1>4. d < m + 1
  <2>1. CASE d >= m + 1
    <3>1. n * d >= n * (m + 1) /\ n * (m + 1) = n * m + n
      BY <1>3, <2>1
    <3> QED
      BY <1>1, <1>3, <3>1
  <2> QED
    BY <1>3, <2>1
<1>5. m < d + 1
  <2>1. CASE m >= d + 1
    <3>1. n * m >= n * (d + 1) /\ n * (d + 1) = n * d + n
      BY <1>3, <2>1
    <3> QED
      BY <1>1, <1>3, <3>1
  <2> QED
    BY <1>3, <2>1
<1>6. d = m
  BY <1>3, <1>4, <1>5
<1>7. j % n = r - 1
  BY <1>1, <1>2, <1>6 DEF d
<1> QED
  BY <1>6, <1>7 DEF d, j

\* A record put in the fifo is the last of the bytes.
LEMMA BytesAppend ==
  ASSUME NEW s \in Seq(1..MaxEvents), NEW e \in 1..MaxEvents
  PROVE  Bytes(Append(s, e)) = Bytes(s) \o Record(e)
<1> DEFINE t == Append(s, e)
<1>1. /\ t \in Seq(1..MaxEvents) /\ Len(t) = Len(s) + 1 /\ t[Len(s) + 1] = e
      /\ \A i \in 1..Len(s) : t[i] = s[i]
      /\ Len(s) \in Nat /\ TsSize \in Nat \ {0}
  BY ReadAssumption, AppendProperties, LenProperties
<1>2. TsSize * Len(t) = TsSize * Len(s) + TsSize /\ TsSize * Len(s) \in Nat
  BY <1>1
<1>3. /\ Bytes(t) \in Seq(Byte) /\ Len(Bytes(t)) = TsSize * Len(s) + TsSize
      /\ Bytes(s) \in Seq(Byte) /\ Len(Bytes(s)) = TsSize * Len(s)
      /\ Record(e) \in Seq(Byte) /\ Len(Record(e)) = TsSize
  BY <1>1, <1>2, BytesType, BytesLen, RecordType
<1>4. /\ Bytes(s) \o Record(e) \in Seq(Byte)
      /\ Len(Bytes(s) \o Record(e)) = TsSize * Len(s) + TsSize
      /\ \A i \in 1..(TsSize * Len(s) + TsSize) : (Bytes(s) \o Record(e))[i] =
           IF i <= TsSize * Len(s) THEN Bytes(s)[i] ELSE Record(e)[i - TsSize * Len(s)]
  <2>1. /\ Bytes(s) \o Record(e) \in Seq(Byte)
        /\ Len(Bytes(s) \o Record(e)) = Len(Bytes(s)) + Len(Record(e))
        /\ \A i \in 1..(Len(Bytes(s)) + Len(Record(e))) : (Bytes(s) \o Record(e))[i] =
             IF i <= Len(Bytes(s)) THEN Bytes(s)[i] ELSE Record(e)[i - Len(Bytes(s))]
    BY <1>3, ConcatProperties
  <2> QED
    BY <1>3, <2>1
<1>5. ASSUME NEW k \in 1..(TsSize * Len(s) + TsSize)
      PROVE  Bytes(t)[k] = (Bytes(s) \o Record(e))[k]
  <2>1. Bytes(t)[k] = <<t[(k - 1) \div TsSize + 1], ((k - 1) % TsSize) + 1>>
    BY <1>2, BytesAt
  <2>2. CASE k <= TsSize * Len(s)
    <3>1. k \in 1..(TsSize * Len(s))
      BY <1>2, <2>2
    <3>2. (k - 1) \div TsSize + 1 \in 1..Len(s)
      BY <1>1, <3>1, Quotient
    <3>3. Bytes(s)[k] = <<s[(k - 1) \div TsSize + 1], ((k - 1) % TsSize) + 1>>
      BY <3>1, BytesAt
    <3> QED
      BY <1>1, <1>4, <2>1, <2>2, <3>2, <3>3
  <2>3. CASE ~(k <= TsSize * Len(s))
    <3> DEFINE r == k - TsSize * Len(s)
    <3>1. r \in 1..TsSize /\ k = TsSize * Len(s) + r
      BY <1>1, <1>2, <2>3
    <3> HIDE DEF r
    <3>2. (k - 1) \div TsSize = Len(s) /\ (k - 1) % TsSize = r - 1
      <4>1. /\ ((TsSize * Len(s) + r) - 1) \div TsSize = Len(s)
            /\ ((TsSize * Len(s) + r) - 1) % TsSize = r - 1
        BY <1>1, <3>1, Split
      <4> QED
        BY <3>1, <4>1
    <3>3. Bytes(t)[k] = <<e, r>>
      BY <1>1, <2>1, <3>1, <3>2
    <3>4. Record(e)[r] = <<e, r>>
      BY <3>1 DEF Record
    <3> QED
      BY <1>4, <2>3, <3>3, <3>4 DEF r
  <2> QED
    BY <2>2, <2>3
<1> QED
  BY <1>3, <1>4, <1>5, SeqEqual
\* Byte k of the records after the first is byte n + k of all.
LEMMA Shift ==
  ASSUME NEW n \in Nat \ {0}, NEW k \in Nat \ {0}
  PROVE  /\ ((n + k) - 1) \div n = (k - 1) \div n + 1
         /\ ((n + k) - 1) % n = (k - 1) % n
<1> DEFINE q == (k - 1) \div n
           r == ((k - 1) % n) + 1
<1>1. q \in Nat /\ r \in 1..n /\ k = n * q + r
  OBVIOUS
<1> HIDE DEF q, r
<1>2. n + k = n * (q + 1) + r /\ q + 1 \in Nat
  BY <1>1
<1>3. ((n * (q + 1) + r) - 1) \div n = q + 1 /\ ((n * (q + 1) + r) - 1) % n = r - 1
  BY <1>1, <1>2, Split
<1>4. ((n + k) - 1) \div n = q + 1 /\ ((n + k) - 1) % n = r - 1
  BY <1>2, <1>3
<1>5. r - 1 = (k - 1) % n
  BY DEF r
<1> QED
  BY <1>4, <1>5 DEF q

\* The record taken out of the fifo is the first of the bytes.
LEMMA BytesHead ==
  ASSUME NEW s \in Seq(1..MaxEvents), s # <<>>
  PROVE  Bytes(s) = Record(Head(s)) \o Bytes(Tail(s))
<1> DEFINE e == Head(s)
           t == Tail(s)
<1>1. /\ t \in Seq(1..MaxEvents) /\ Len(t) = Len(s) - 1 /\ e \in 1..MaxEvents /\ e = s[1]
      /\ \A i \in 1..Len(t) : t[i] = s[i + 1]
      /\ Len(s) \in Nat /\ TsSize \in Nat \ {0}
  BY ReadAssumption, HeadTailProperties, LenProperties
<1> HIDE DEF e, t
<1>2. TsSize * Len(s) = TsSize + TsSize * Len(t) /\ Len(t) \in Nat
  BY <1>1, LenProperties
<1>3. /\ Bytes(s) \in Seq(Byte) /\ Len(Bytes(s)) = TsSize + TsSize * Len(t)
      /\ Bytes(t) \in Seq(Byte) /\ Len(Bytes(t)) = TsSize * Len(t)
      /\ TsSize * Len(t) \in Nat
      /\ Record(e) \in Seq(Byte) /\ Len(Record(e)) = TsSize
  BY <1>1, <1>2, BytesType, BytesLen, RecordType
<1>4. /\ Record(e) \o Bytes(t) \in Seq(Byte)
      /\ Len(Record(e) \o Bytes(t)) = TsSize + TsSize * Len(t)
      /\ \A i \in 1..(TsSize + TsSize * Len(t)) : (Record(e) \o Bytes(t))[i] =
           IF i <= TsSize THEN Record(e)[i] ELSE Bytes(t)[i - TsSize]
  <2>1. /\ Record(e) \o Bytes(t) \in Seq(Byte)
        /\ Len(Record(e) \o Bytes(t)) = Len(Record(e)) + Len(Bytes(t))
        /\ \A i \in 1..(Len(Record(e)) + Len(Bytes(t))) : (Record(e) \o Bytes(t))[i] =
             IF i <= Len(Record(e)) THEN Record(e)[i] ELSE Bytes(t)[i - Len(Record(e))]
    BY <1>3, ConcatProperties
  <2> QED
    BY <1>3, <2>1
<1>5. ASSUME NEW k \in 1..(TsSize + TsSize * Len(t))
      PROVE  Bytes(s)[k] = (Record(e) \o Bytes(t))[k]
  <2>1. Bytes(s)[k] = <<s[(k - 1) \div TsSize + 1], ((k - 1) % TsSize) + 1>>
    BY <1>2, BytesAt
  <2>2. CASE k <= TsSize
    <3>1. (k - 1) \div TsSize = 0 /\ (k - 1) % TsSize = k - 1 /\ k \in 1..TsSize
      <4>1. k \in 1..TsSize
        BY <1>1, <2>2
      <4>2. /\ ((TsSize * 0 + k) - 1) \div TsSize = 0
            /\ ((TsSize * 0 + k) - 1) % TsSize = k - 1
        BY <1>1, <4>1, Split
      <4>3. TsSize * 0 + k = k
        BY <1>1, <4>1
      <4> QED
        BY <4>1, <4>2, <4>3
    <3>2. Bytes(s)[k] = <<e, k>>
      BY <1>1, <2>1, <3>1
    <3>3. Record(e)[k] = <<e, k>>
      BY <3>1 DEF Record
    <3> QED
      BY <1>4, <2>2, <3>2, <3>3
  <2>3. CASE ~(k <= TsSize)
    <3> DEFINE j == k - TsSize
    <3>1. j \in 1..(TsSize * Len(t)) /\ k = TsSize + j
      BY <1>1, <1>3, <2>3
    <3> HIDE DEF j
    <3>2. /\ (k - 1) \div TsSize = (j - 1) \div TsSize + 1
          /\ (k - 1) % TsSize = (j - 1) % TsSize
      <4>1. TsSize \in Nat \ {0} /\ j \in Nat \ {0}
        BY <1>1, <1>3, <3>1
      <4>2. /\ ((TsSize + j) - 1) \div TsSize = (j - 1) \div TsSize + 1
            /\ ((TsSize + j) - 1) % TsSize = (j - 1) % TsSize
        BY <4>1, Shift
      <4> QED
        BY <3>1, <4>2
    <3>3. (j - 1) \div TsSize + 1 \in 1..Len(t)
      BY <1>1, <1>2, <3>1, Quotient
    <3>4. Bytes(t)[j] = <<t[(j - 1) \div TsSize + 1], ((j - 1) % TsSize) + 1>>
      BY <3>1, BytesAt
    <3>5. Bytes(t)[j] = Bytes(s)[k]
      BY <1>1, <2>1, <3>2, <3>3, <3>4
    <3> QED
      BY <1>4, <2>3, <3>5 DEF j
  <2> QED
    BY <2>2, <2>3
<1>6. Bytes(s) = Record(e) \o Bytes(t)
  BY <1>3, <1>4, <1>5, SeqEqual
<1> QED
  BY <1>6 DEF e, t

-----------------------------------------------------------------------------
(* Undelivered before and after a step.                                    *)

Rest == SubSeq(buffer, readp + 1, Len(buffer))

LEMMA UndeliveredType ==
  ASSUME TypeOK
  PROVE  /\ buffer \in Seq(Byte) /\ received \in Seq(Byte) /\ fifo \in Seq(1..MaxEvents)
         /\ readp \in Nat /\ Len(buffer) \in Nat /\ readp <= Len(buffer)
         /\ Rest \in Seq(Byte) /\ Len(Rest) = Len(buffer) - readp
         /\ Bytes(fifo) \in Seq(Byte)
         /\ Undelivered = Rest \o Bytes(fifo) /\ Undelivered \in Seq(Byte)
         /\ Len(Undelivered) = Len(buffer) - readp + TsSize * Len(fifo)
         /\ TsSize * Len(fifo) \in Nat
<1>1. /\ buffer \in Seq(Byte) /\ received \in Seq(Byte) /\ fifo \in Seq(1..MaxEvents)
      /\ readp \in Nat /\ Len(buffer) \in Nat /\ readp <= Len(buffer)
  BY LenProperties DEF TypeOK, Byte
<1>2. Rest \in Seq(Byte)
  BY <1>1, SliceType DEF Rest
<1>3. Len(Rest) = Len(buffer) - readp
  <2>1. \A i \in (readp + 1)..Len(buffer) : buffer[i] \in Byte
    BY <1>1, ElementOfSeq
  <2> QED
    BY <1>1, <2>1, SubSeqProperties DEF Rest
<1>4. /\ Bytes(fifo) \in Seq(Byte) /\ Len(Bytes(fifo)) = TsSize * Len(fifo)
      /\ TsSize * Len(fifo) \in Nat
  BY <1>1, BytesType, BytesLen
<1>5. Undelivered = Rest \o Bytes(fifo)
  BY DEF Undelivered, Rest
<1>6. Undelivered \in Seq(Byte) /\ Len(Undelivered) = Len(Rest) + Len(Bytes(fifo))
  BY <1>2, <1>4, <1>5, ConcatProperties
<1> QED
  BY <1>1, <1>2, <1>3, <1>4, <1>5, <1>6

-----------------------------------------------------------------------------
(* Each step of the driver is a step of the stream, or leaves it alone.     *)

\* open() starts an empty stream.
LEMMA OpenIsNewSession ==
  ASSUME Open
  PROVE  Stream!NewSession
<1>1. buffer' = <<>> /\ fifo' = <<>> /\ readp' = 0 /\ received' = <<>> /\ clock' = clock
  BY DEF Open
<1>2. Undelivered' = SubSeq(<<>>, 1, 0) \o Bytes(<<>>)
  <2>1. SubSeq(buffer', readp' + 1, Len(buffer')) = SubSeq(<<>>, 1, 0)
    BY <1>1
  <2>2. Bytes(fifo)' = Bytes(<<>>)
    BY <1>1 DEF Bytes
  <2> QED
    BY <2>1, <2>2 DEF Undelivered
<1>3. Bytes(<<>>) = <<>>
  BY BytesEmpty, EmptySeq
<1>4. SubSeq(<<>>, 1, 0) = <<>>
  BY SubSeqEmpty
<1>5. Undelivered' = <<>>
  BY <1>2, <1>3, <1>4, ConcatEmptySeq, EmptySeq
<1> QED
  BY <1>1, <1>5 DEF Stream!NewSession

\* An interrupt puts its record at the end, or drops it if the fifo is full.
LEMMA InterruptIsEvent ==
  ASSUME TypeOK, Interrupt
  PROVE  Stream!Event
<1>1. /\ clock < MaxEvents /\ clock' = clock + 1 /\ clock' \in 1..MaxEvents
      /\ UNCHANGED <<buffer, readp, received>>
  BY ReadAssumption DEF Interrupt, TypeOK
<1>2. Stream!Record(clock') = Record(clock')
  BY DEF Stream!Record, Record
<1>3. CASE Len(fifo) < FifoSize
  <2>1. fifo' = Append(fifo, clock')
    BY <1>3 DEF Interrupt, Put
  <2>2. Bytes(fifo)' = Bytes(fifo) \o Record(clock')
    <3>1. Bytes(Append(fifo, clock')) = Bytes(fifo) \o Record(clock')
      BY <1>1, UndeliveredType, BytesAppend
    <3> QED
      BY <2>1, <3>1 DEF Bytes
  <2>3. Undelivered' = Rest \o (Bytes(fifo) \o Record(clock'))
    BY <1>1, <2>2 DEF Undelivered, Rest
  <2>4. Rest \o (Bytes(fifo) \o Record(clock')) = (Rest \o Bytes(fifo)) \o Record(clock')
    <3>1. /\ Rest \in Seq(Byte) /\ Bytes(fifo) \in Seq(Byte)
          /\ Record(clock') \in Seq(Byte)
      BY <1>1, UndeliveredType, RecordType
    <3> QED
      BY <3>1, ConcatAssociative
  <2>5. Undelivered' = Undelivered \o Stream!Record(clock')
    BY <1>2, <2>3, <2>4, UndeliveredType
  <2> QED
    BY <1>1, <2>5 DEF Stream!Event
<1>4. CASE ~(Len(fifo) < FifoSize)
  <2>1. fifo' = fifo /\ Undelivered' = Undelivered
    BY <1>1, <1>4 DEF Interrupt, Put, Undelivered, Bytes
  <2>2. Len(Undelivered) >= FifoSize * TsSize
    <3>1. /\ Len(fifo) \in Nat /\ FifoSize \in Nat /\ TsSize \in Nat
          /\ readp \in Nat /\ Len(buffer) \in Nat /\ readp <= Len(buffer)
          /\ Len(Undelivered) = Len(buffer) - readp + TsSize * Len(fifo)
      BY ReadAssumption, UndeliveredType, LenProperties
    <3>2. TsSize * Len(fifo) >= FifoSize * TsSize
      BY <1>4, <3>1
    <3> QED
      BY <3>1, <3>2
  <2> QED
    BY <1>1, <2>1, <2>2 DEF Stream!Event
<1> QED
  BY <1>3, <1>4

\* Resetting a buffer that is read out takes nothing away.
LEMMA FillKeepsStream ==
  ASSUME TypeOK, Fill
  PROVE  UNCHANGED Stream!streamVars
<1>1. UNCHANGED <<clock, fifo, received>>
  BY DEF Fill, Goto
<1>2. CASE readp = Len(buffer)
  <2>1. buffer' = <<>> /\ readp' = 0
    BY <1>2 DEF Fill
  <2>2. Rest = <<>>
    BY <1>2, UndeliveredType, SubSeqEmpty DEF Rest
  <2>3. Rest' = <<>>
    BY <2>1, SubSeqEmpty DEF Rest
  <2> QED
    BY <1>1, <2>2, <2>3 DEF Stream!streamVars, Undelivered, Rest, Bytes
<1>3. CASE readp # Len(buffer)
  BY <1>1, <1>3 DEF Fill, Stream!streamVars, Undelivered, Bytes
<1> QED
  BY <1>2, <1>3

\* Draining moves the first record of the fifo behind the bytes of the buffer.
LEMMA DrainKeepsStream ==
  ASSUME TypeOK, PastWait, Drain
  PROVE  UNCHANGED Stream!streamVars
<1>1. CASE fifo = <<>> \/ NoRoom
  BY <1>1 DEF Drain, Goto, Stream!streamVars, Undelivered, Bytes
<1>2. CASE ~(fifo = <<>> \/ NoRoom)
  <2>1. /\ readp = 0 /\ readp' = 0 /\ UNCHANGED <<clock, received>>
        /\ buffer' = buffer \o Record(Head(fifo)) /\ fifo' = Tail(fifo)
    BY <1>2 DEF Drain, PastWait
  <2>2. /\ Head(fifo) \in 1..MaxEvents /\ Tail(fifo) \in Seq(1..MaxEvents)
        /\ Record(Head(fifo)) \in Seq(Byte) /\ Bytes(Tail(fifo)) \in Seq(Byte)
    BY <1>2, UndeliveredType, HeadTailProperties, RecordType, BytesType
  <2>3. Rest = buffer
    BY <2>1, UndeliveredType, SubSeqFull DEF Rest
  <2>4. Undelivered = buffer \o (Record(Head(fifo)) \o Bytes(Tail(fifo)))
    BY <1>2, <2>3, UndeliveredType, BytesHead
  <2>5. Rest' = buffer \o Record(Head(fifo))
    <3>1. buffer \o Record(Head(fifo)) \in Seq(Byte)
      BY <2>2, UndeliveredType, ConcatProperties
    <3> QED
      BY <2>1, <3>1, SubSeqFull DEF Rest
  <2>6. Undelivered' = (buffer \o Record(Head(fifo))) \o Bytes(Tail(fifo))
    BY <2>1, <2>5 DEF Undelivered, Rest, Bytes
  <2>7. Undelivered' = Undelivered
    <3>1. buffer \in Seq(Byte)
      BY UndeliveredType
    <3>2. (buffer \o Record(Head(fifo))) \o Bytes(Tail(fifo))
            = buffer \o (Record(Head(fifo)) \o Bytes(Tail(fifo)))
      BY <2>2, <3>1, ConcatAssociative
    <3> QED
      BY <2>4, <2>6, <3>2
  <2> QED
    BY <2>1, <2>7 DEF Stream!streamVars
<1> QED
  BY <1>1, <1>2

-----------------------------------------------------------------------------
(* Reading.                                                                *)

\* The first n elements of a sequence.
LEMMA TakeProperties ==
  ASSUME NEW S, NEW b \in Seq(S), NEW n \in Nat, n <= Len(b)
  PROVE  /\ SubSeq(b, 1, n) \in Seq(S) /\ Len(SubSeq(b, 1, n)) = n
         /\ \A i \in 1..n : SubSeq(b, 1, n)[i] = b[i]
<1> DEFINE x == SubSeq(b, 1, n)
<1>1. \A i \in 1..n : b[i] \in S
  BY LenProperties, ElementOfSeq
<1>2. /\ x \in Seq(S) /\ Len(x) = IF 1 <= n THEN n - 1 + 1 ELSE 0
      /\ \A i \in 1..(n - 1 + 1) : x[i] = b[1 + i - 1]
  BY <1>1, SubSeqProperties
<1> HIDE DEF x
<1>3. Len(x) = n /\ \A i \in 1..n : x[i] = b[i]
  BY <1>2
<1> QED
  BY <1>2, <1>3 DEF x

\* What follows the first n elements of a sequence.
LEMMA DropProperties ==
  ASSUME NEW S, NEW b \in Seq(S), NEW n \in Nat, n <= Len(b)
  PROVE  /\ SubSeq(b, n + 1, Len(b)) \in Seq(S)
         /\ Len(SubSeq(b, n + 1, Len(b))) = Len(b) - n
         /\ \A i \in 1..(Len(b) - n) : SubSeq(b, n + 1, Len(b))[i] = b[n + i]
<1> DEFINE x == SubSeq(b, n + 1, Len(b))
<1>1. Len(b) \in Nat
  BY LenProperties
<1>2. \A i \in (n + 1)..Len(b) : b[i] \in S
  BY <1>1, ElementOfSeq
<1>3. /\ x \in Seq(S) /\ Len(x) = IF n + 1 <= Len(b) THEN Len(b) - (n + 1) + 1 ELSE 0
      /\ \A i \in 1..(Len(b) - (n + 1) + 1) : x[i] = b[(n + 1) + i - 1]
  BY <1>1, <1>2, SubSeqProperties
<1> HIDE DEF x
<1>4. Len(x) = Len(b) - n /\ \A i \in 1..(Len(b) - n) : x[i] = b[n + i]
  BY <1>1, <1>3
<1> QED
  BY <1>3, <1>4 DEF x

\* The first n elements, and the others, of what follows the first m.
LEMMA SliceOfRest ==
  ASSUME NEW S, NEW b \in Seq(S), NEW m \in Nat, NEW n \in Nat, m + n <= Len(b)
  PROVE  LET r == SubSeq(b, m + 1, Len(b))
         IN  /\ r \in Seq(S) /\ Len(r) = Len(b) - m
             /\ SubSeq(r, 1, n) = SubSeq(b, m + 1, m + n)
             /\ SubSeq(r, n + 1, Len(r)) = SubSeq(b, m + n + 1, Len(b))
<1> DEFINE r == SubSeq(b, m + 1, Len(b))
           first == SubSeq(b, m + 1, m + n)
           others == SubSeq(b, m + n + 1, Len(b))
<1>1. Len(b) \in Nat /\ \A i \in 1..Len(b) : b[i] \in S
  BY LenProperties, ElementOfSeq
<1>2. /\ r \in Seq(S) /\ Len(r) = Len(b) - m
      /\ \A i \in 1..(Len(b) - m) : r[i] = b[m + i]
  BY <1>1, DropProperties
<1>3. /\ first \in Seq(S) /\ Len(first) = n
      /\ \A i \in 1..n : first[i] = b[m + i]
  <2>1. \A i \in (m + 1)..(m + n) : b[i] \in S
    BY <1>1
  <2>2. /\ first \in Seq(S)
        /\ Len(first) = IF m + 1 <= m + n THEN (m + n) - (m + 1) + 1 ELSE 0
        /\ \A i \in 1..((m + n) - (m + 1) + 1) : first[i] = b[(m + 1) + i - 1]
    BY <1>1, <2>1, SubSeqProperties
  <2> HIDE DEF first
  <2> QED
    BY <1>1, <2>2
<1>4. /\ others \in Seq(S) /\ Len(others) = Len(b) - (m + n)
      /\ \A i \in 1..(Len(b) - (m + n)) : others[i] = b[m + n + i]
  BY <1>1, DropProperties
<1> HIDE DEF r, first, others
<1>5. SubSeq(r, 1, n) = first
  <2> DEFINE x == SubSeq(r, 1, n)
  <2>1. /\ x \in Seq(S) /\ Len(x) = n
        /\ \A i \in 1..n : x[i] = r[i]
    BY <1>1, <1>2, TakeProperties
  <2> HIDE DEF x
  <2>2. ASSUME NEW i \in 1..n
        PROVE  x[i] = first[i]
    <3>1. i \in 1..(Len(b) - m)
      BY <1>1
    <3> QED
      BY <1>2, <1>3, <2>1, <3>1
  <2>3. x = first
    BY <1>3, <2>1, <2>2, SeqEqual
  <2> QED
    BY <2>3 DEF x
<1>6. SubSeq(r, n + 1, Len(r)) = others
  <2> DEFINE x == SubSeq(r, n + 1, Len(r))
  <2>1. n <= Len(r)
    BY <1>1, <1>2
  <2>2. /\ x \in Seq(S) /\ Len(x) = Len(r) - n
        /\ \A i \in 1..(Len(r) - n) : x[i] = r[n + i]
    BY <1>2, <2>1, DropProperties
  <2> HIDE DEF x
  <2>3. Len(x) = Len(others)
    BY <1>1, <1>2, <1>4, <2>2
  <2>4. ASSUME NEW i \in 1..Len(x)
        PROVE  x[i] = others[i]
    <3>1. i \in 1..(Len(r) - n) /\ n + i \in 1..(Len(b) - m) /\ i \in 1..(Len(b) - (m + n))
      BY <1>1, <1>2, <2>2
    <3>2. x[i] = b[m + (n + i)] /\ others[i] = b[m + n + i]
      BY <1>2, <1>4, <2>2, <3>1
    <3>3. m + (n + i) = m + n + i
      BY <3>1
    <3> QED
      BY <3>2, <3>3
  <2>5. x = others
    BY <1>4, <2>2, <2>3, <2>4, SeqEqual
  <2> QED
    BY <2>5 DEF x
<1> QED
  BY <1>2, <1>5, <1>6 DEF r, first, others

\* The first n elements, and the others, of a sequence with another behind it.
LEMMA SliceOfConcat ==
  ASSUME NEW S, NEW a \in Seq(S), NEW b \in Seq(S), NEW n \in Nat, n <= Len(a)
  PROVE  /\ SubSeq(a \o b, 1, n) = SubSeq(a, 1, n)
         /\ SubSeq(a \o b, n + 1, Len(a \o b)) = SubSeq(a, n + 1, Len(a)) \o b
<1> DEFINE c == a \o b
<1>1. /\ Len(a) \in Nat /\ Len(b) \in Nat /\ c \in Seq(S) /\ Len(c) = Len(a) + Len(b)
      /\ \A i \in 1..(Len(a) + Len(b)) : c[i] = IF i <= Len(a) THEN a[i] ELSE b[i - Len(a)]
  BY LenProperties, ConcatProperties
<1> HIDE DEF c
<1>2. /\ SubSeq(a, 1, n) \in Seq(S) /\ Len(SubSeq(a, 1, n)) = n
      /\ \A i \in 1..n : SubSeq(a, 1, n)[i] = a[i]
  BY <1>1, TakeProperties
<1>3. /\ SubSeq(c, 1, n) \in Seq(S) /\ Len(SubSeq(c, 1, n)) = n
      /\ \A i \in 1..n : SubSeq(c, 1, n)[i] = c[i]
  BY <1>1, TakeProperties
<1>4. SubSeq(c, 1, n) = SubSeq(a, 1, n)
  <2>1. \A i \in 1..n : SubSeq(c, 1, n)[i] = SubSeq(a, 1, n)[i]
    BY <1>1, <1>2, <1>3
  <2> QED
    BY <1>2, <1>3, <2>1, SeqEqual
<1> DEFINE d == SubSeq(a, n + 1, Len(a))
           x == SubSeq(c, n + 1, Len(c))
<1>5. /\ d \in Seq(S) /\ Len(d) = Len(a) - n
      /\ \A i \in 1..(Len(a) - n) : d[i] = a[n + i]
  BY <1>1, DropProperties
<1>6. /\ x \in Seq(S) /\ Len(x) = Len(c) - n
      /\ \A i \in 1..(Len(c) - n) : x[i] = c[n + i]
  BY <1>1, DropProperties
<1> HIDE DEF d, x
<1>7. /\ d \o b \in Seq(S) /\ Len(d \o b) = Len(d) + Len(b)
      /\ \A i \in 1..(Len(d) + Len(b)) : (d \o b)[i] = IF i <= Len(d) THEN d[i] ELSE b[i - Len(d)]
  BY <1>5, ConcatProperties
<1>8. Len(x) = Len(d \o b)
  BY <1>1, <1>5, <1>6, <1>7
<1>9. ASSUME NEW i \in 1..Len(x)
      PROVE  x[i] = (d \o b)[i]
  <2>1. /\ i \in 1..(Len(c) - n) /\ i \in 1..(Len(d) + Len(b)) /\ n + i \in 1..(Len(a) + Len(b))
    BY <1>1, <1>5, <1>6
  <2>2. x[i] = IF n + i <= Len(a) THEN a[n + i] ELSE b[n + i - Len(a)]
    BY <1>1, <1>6, <2>1
  <2>3. (d \o b)[i] = IF i <= Len(a) - n THEN d[i] ELSE b[i - (Len(a) - n)]
    BY <1>5, <1>7, <2>1
  <2>4. CASE i <= Len(a) - n
    BY <1>1, <1>5, <2>1, <2>2, <2>3, <2>4
  <2>5. CASE ~(i <= Len(a) - n)
    <3>1. n + i - Len(a) = i - (Len(a) - n) /\ ~(n + i <= Len(a))
      BY <1>1, <2>1, <2>5
    <3> QED
      BY <2>2, <2>3, <2>5, <3>1
  <2> QED
    BY <2>4, <2>5
<1>10. x = d \o b
  BY <1>6, <1>7, <1>8, <1>9, SeqEqual
<1> QED
  BY <1>4, <1>10 DEF c, d, x

\* copy_to_user returns the oldest bytes and takes them off the stream.
LEMMA CopyIsRead ==
  ASSUME TypeOK, Copy
  PROVE  (\E n \in 1..Len(Undelivered) : Stream!Read(n)) \/ UNCHANGED Stream!streamVars
<1> DEFINE n == Smaller(call.count, Len(buffer) - readp)
<1>1. /\ buffer \in Seq(Byte) /\ received \in Seq(Byte) /\ readp \in Nat
      /\ Len(buffer) \in Nat /\ readp <= Len(buffer)
      /\ Rest \in Seq(Byte) /\ Len(Rest) = Len(buffer) - readp
      /\ Bytes(fifo) \in Seq(Byte) /\ Undelivered = Rest \o Bytes(fifo)
      /\ Len(Undelivered) = Len(buffer) - readp + TsSize * Len(fifo)
      /\ TsSize * Len(fifo) \in Nat
  BY UndeliveredType
<1>2. n \in Nat /\ n <= Len(Rest)
  <2>1. call.count \in Nat
    <3>1. CASE call \in Calls
      BY <3>1, ReadAssumption DEF Calls
    <3>2. CASE call = NoCall
      BY <3>2 DEF NoCall
    <3> QED
      BY <3>1, <3>2 DEF TypeOK
  <2> QED
    BY <1>1, <2>1 DEF Smaller
<1>3. /\ readp' = readp + n /\ received' = received \o SubSeq(buffer, readp + 1, readp + n)
      /\ UNCHANGED <<clock, fifo, buffer>>
  BY DEF Copy, Return
<1> HIDE DEF n
<1>4. /\ SubSeq(Rest, 1, n) = SubSeq(buffer, readp + 1, readp + n)
      /\ SubSeq(Rest, n + 1, Len(Rest)) = SubSeq(buffer, readp + n + 1, Len(buffer))
  <2>1. readp + n <= Len(buffer)
    BY <1>1, <1>2
  <2> QED
    BY <1>1, <1>2, <2>1, SliceOfRest DEF Rest
<1>5. /\ SubSeq(Undelivered, 1, n) = SubSeq(Rest, 1, n)
      /\ SubSeq(Undelivered, n + 1, Len(Undelivered)) = SubSeq(Rest, n + 1, Len(Rest)) \o Bytes(fifo)
  BY <1>1, <1>2, SliceOfConcat
<1>6. received' = received \o SubSeq(Undelivered, 1, n)
  BY <1>3, <1>4, <1>5
<1>7. Undelivered' = SubSeq(Undelivered, n + 1, Len(Undelivered))
  <2>1. Undelivered' = SubSeq(buffer, readp + n + 1, Len(buffer)) \o Bytes(fifo)
    BY <1>3 DEF Undelivered, Bytes
  <2> QED
    BY <1>4, <1>5, <2>1
<1>8. Stream!Read(n)
  BY <1>3, <1>6, <1>7 DEF Stream!Read
<1>9. CASE n = 0
  <2>1. SubSeq(Undelivered, 1, 0) = <<>> /\ received \o <<>> = received
    BY <1>1, SubSeqEmpty, ConcatEmptySeq
  <2>2. SubSeq(Undelivered, 1, Len(Undelivered)) = Undelivered
    BY UndeliveredType, SubSeqFull
  <2>3. received' = received
    BY <1>6, <1>9, <2>1
  <2>4. Undelivered' = Undelivered
    <3>1. n + 1 = 1
      BY <1>9
    <3> QED
      BY <1>7, <2>2, <3>1
  <2> QED
    BY <1>3, <2>3, <2>4 DEF Stream!streamVars
<1>10. CASE n # 0
  <2>1. n \in 1..Len(Undelivered)
    BY <1>1, <1>2, <1>10
  <2> QED
    BY <1>8, <2>1
<1> QED
  BY <1>9, <1>10

-----------------------------------------------------------------------------
(* The refinement.                                                         *)

LEMMA InitIsStreamInit == Init => Stream!StreamInit
<1> SUFFICES ASSUME Init PROVE Stream!StreamInit
  OBVIOUS
<1>1. buffer = <<>> /\ fifo = <<>> /\ readp = 0 /\ received = <<>> /\ clock = 0
  BY DEF Init
<1>2. TypeOK
  BY InitTypeOK
<1>3. ~HasData
  BY <1>1 DEF HasData
<1>4. Undelivered = <<>>
  BY <1>2, <1>3, DataUndelivered
<1> QED
  BY <1>1, <1>4 DEF Stream!StreamInit

LEMMA NextIsStreamNext ==
  Inductive /\ [Next]_vars => [Stream!StreamNext]_(Stream!streamVars)
<1> SUFFICES ASSUME Inductive, [Next]_vars
             PROVE  Stream!StreamNext \/ UNCHANGED Stream!streamVars
  OBVIOUS
<1>1. TypeOK /\ PastWait
  BY DEF Inductive
<1>2. CASE Open
  BY <1>2, OpenIsNewSession DEF Stream!StreamNext
<1>3. CASE Interrupt
  BY <1>1, <1>3, InterruptIsEvent DEF Stream!StreamNext
<1>4. CASE Fill
  BY <1>1, <1>4, FillKeepsStream
<1>5. CASE Drain
  BY <1>1, <1>5, DrainKeepsStream
<1>6. CASE Copy
  BY <1>1, <1>6, CopyIsRead DEF Stream!StreamNext
<1>7. CASE UNCHANGED <<clock, dataVars, received>>
  BY <1>7 DEF dataVars, Stream!streamVars, Undelivered, Bytes
<1>8. ASSUME NEW c \in Calls, Call(c)
      PROVE  UNCHANGED <<clock, dataVars, received>>
  BY <1>8 DEF Call
<1>9. CASE Release \/ HandlerOrTasklet \/ Test \/ Prepare \/ Recheck \/ Woken \/ CopyFails
           \/ Interrupted \/ UNCHANGED vars
  <2>1. UNCHANGED <<clock, dataVars, received>>
    BY <1>9 DEF Release, HandlerOrTasklet, HandlerSchedule, TaskletRun, TaskletWake, Test,
                Prepare, Recheck, Woken, CopyFails, Interrupted, Goto, Return, vars
  <2> QED
    BY <1>7, <2>1
<1> QED
  BY <1>2, <1>3, <1>4, <1>5, <1>6, <1>7, <1>8, <1>9 DEF Next, ReaderStep

\* The driver implements the stream: no byte of a record that was taken in is
\* lost, duplicated or overtaken between the interrupt handler and the reader,
\* whatever they do at the same time and however few bytes a read asks for
\* (lines 121-143, 388-457).
THEOREM StreamImplemented == Spec => ImplementsStream
BY InitIsStreamInit, NextIsStreamNext, InductiveAlways, PTL
   DEF Spec, ImplementsStream, Stream!StreamSpec
=============================================================================
