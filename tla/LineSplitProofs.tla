-------------------------- MODULE LineSplitProofs --------------------------
(***************************************************************************)
(* Proofs about the splitting of a stream into lines, for every number and *)
(* length of lines and every size of chunk that holds a line.              *)
(*                                                                         *)
(* Start[l] is how many bytes are in front of line l, and ByteAt the byte  *)
(* at a position of the stream.  With them what is unread is the rest of a *)
(* stream that is known at each position, the newlines of a chunk are      *)
(* where the next lines start, and no step needs more than arithmetic.     *)
(* What holds for every line is shown by induction, in the form that there *)
(* is no first line for which it does not hold (LeastNatural).             *)
(***************************************************************************)
EXTENDS LineSplit, FiniteSetTheorems, SequenceTheorems, WellFoundedInduction, TLAPS

LEMMA LeastNatural ==
  ASSUME NEW T \in SUBSET Nat, T # {}
  PROVE  \E m \in T : \A k \in T : m <= k
<1> DEFINE R == OpToRel(<, Nat)
<1>1. IsWellFoundedOn(R, Nat)
  BY NatLessThanWellFounded
<1>2. \A x, y \in Nat : <<y, x>> \in R <=> y < x
  BY DEF OpToRel
<1> HIDE DEF R
<1>3. PICK m \in T : \A k \in T : ~(<<k, m>> \in R)
  BY <1>1, WFMin
<1>4. \A k \in T : m <= k
  <2>1. ASSUME NEW k \in T
        PROVE  m <= k
    <3>1. m \in Nat /\ k \in Nat
      OBVIOUS
    <3>2. ~(k < m)
      BY <1>2, <1>3, <3>1
    <3> QED
      BY <3>1, <3>2
  <2> QED
    BY <2>1
<1> QED
  BY <1>4

-----------------------------------------------------------------------------
(* Where the lines start.                                                  *)

Typed == lengths \in [1..NumLines -> LineLengths]

\* The bytes in front of each of the first n lines.
Starts(n) ==
  {f \in [1..n -> Nat] : \A l \in 1..n : f[l] = IF l = 1 THEN 0 ELSE f[l - 1] + lengths[l - 1]}

Start == CHOOSE f : f \in Starts(NumLines + 1)
Total == Start[NumLines + 1]

LEMMA LengthType ==
  ASSUME Typed, NEW l \in 1..NumLines
  PROVE  lengths[l] \in Nat /\ 2 <= lengths[l] /\ lengths[l] <= ByteBufSize
<1>1. lengths[l] \in 2..ByteBufSize
  BY SplitAssumption DEF Typed
<1> QED
  BY <1>1, SplitAssumption

LEMMA StartsExist ==
  ASSUME Typed
  PROVE  Start \in Starts(NumLines + 1)
<1> USE SplitAssumption
<1> DEFINE T == {n \in Nat : n <= NumLines + 1 /\ Starts(n) = {}}
<1>1. SUFFICES T = {}
  <2>1. NumLines + 1 \in Nat /\ NumLines + 1 <= NumLines + 1
    OBVIOUS
  <2> QED
    BY <1>1, <2>1 DEF Start
<1>2. SUFFICES ASSUME T # {} PROVE FALSE
  OBVIOUS
<1>3. PICK n \in T : \A k \in T : n <= k
  BY <1>2, LeastNatural
<1>4. n \in Nat /\ n <= NumLines + 1 /\ Starts(n) = {}
  BY <1>3
<1>5. n # 0
  <2> DEFINE f == [l \in 1..0 |-> 0]
  <2>1. f \in Starts(0)
    BY DEF Starts
  <2> QED
    BY <1>4, <2>1
<1>6. n - 1 \in Nat /\ n - 1 <= NumLines + 1 /\ n - 1 \notin T
  BY <1>3, <1>4, <1>5
<1>7. PICK f : f \in Starts(n - 1)
  BY <1>6
<1>8. f \in [1..(n - 1) -> Nat]
      /\ \A l \in 1..(n - 1) : f[l] = IF l = 1 THEN 0 ELSE f[l - 1] + lengths[l - 1]
  BY <1>7 DEF Starts
<1> DEFINE last == IF n = 1 THEN 0 ELSE f[n - 1] + lengths[n - 1]
           g == [l \in 1..n |-> IF l = n THEN last ELSE f[l]]
<1>9. last \in Nat
  <2>1. CASE n # 1
    <3>1. n - 1 \in 1..(n - 1) /\ n - 1 \in 1..NumLines
      BY <1>4, <1>5, <2>1
    <3>2. f[n - 1] \in Nat /\ lengths[n - 1] \in Nat
      BY <1>8, <3>1, LengthType
    <3> QED
      BY <3>2
  <2> QED
    BY <2>1
<1> HIDE DEF last
<1>10. \A l \in 1..n : l = n \/ l \in 1..(n - 1)
  BY <1>4
<1>11. g \in [1..n -> Nat]
  BY <1>8, <1>9, <1>10
<1>12. ASSUME NEW l \in 1..n
       PROVE  g[l] = IF l = 1 THEN 0 ELSE g[l - 1] + lengths[l - 1]
  <2>1. CASE l = n /\ n = 1
    BY <2>1 DEF last
  <2>2. CASE l = n /\ n # 1
    <3>1. n - 1 \in 1..n /\ n - 1 # n
      BY <1>4, <2>2
    <3> QED
      BY <2>2, <3>1 DEF last
  <2>3. CASE l # n
    <3>1. l \in 1..(n - 1) /\ g[l] = f[l]
      BY <1>10, <2>3
    <3>2. l # 1 => l - 1 \in 1..n /\ l - 1 # n
      BY <1>4
    <3> QED
      BY <1>8, <3>1, <3>2
  <2> QED
    BY <2>1, <2>2, <2>3
<1>13. g \in Starts(n)
  BY <1>11, <1>12 DEF Starts
<1> QED
  BY <1>4, <1>13

LEMMA StartProperties ==
  ASSUME Typed
  PROVE  /\ \A l \in 1..(NumLines + 1) : Start[l] \in Nat
         /\ Start[1] = 0 /\ Total \in Nat
         /\ \A l \in 1..NumLines : Start[l + 1] = Start[l] + lengths[l]
<1> USE SplitAssumption
<1>1. /\ Start \in [1..(NumLines + 1) -> Nat]
      /\ \A l \in 1..(NumLines + 1) :
           Start[l] = IF l = 1 THEN 0 ELSE Start[l - 1] + lengths[l - 1]
  BY StartsExist DEF Starts
<1>2. Start[1] = 0 /\ NumLines + 1 \in 1..(NumLines + 1)
  BY <1>1
<1>3. ASSUME NEW l \in 1..NumLines
      PROVE  Start[l + 1] = Start[l] + lengths[l]
  <2>1. l + 1 \in 1..(NumLines + 1) /\ l + 1 # 1 /\ (l + 1) - 1 = l
    OBVIOUS
  <2> QED
    BY <1>1, <2>1
<1> QED
  BY <1>1, <1>2, <1>3 DEF Total

\* A line starts where all the lines in front of it have ended.
LEMMA StartMonotonic ==
  ASSUME Typed, NEW l \in 1..NumLines, NEW m \in (l + 1)..(NumLines + 1)
  PROVE  Start[l] + lengths[l] <= Start[m]
<1> USE SplitAssumption
<1> DEFINE T == {k \in (l + 1)..(NumLines + 1) : ~(Start[l] + lengths[l] <= Start[k])}
<1>1. SUFFICES T = {}
  OBVIOUS
<1>2. SUFFICES ASSUME T # {} PROVE FALSE
  OBVIOUS
<1>3. T \in SUBSET Nat
  OBVIOUS
<1>4. PICK k \in T : \A j \in T : k <= j
  BY <1>2, <1>3, LeastNatural
<1>5. k \in (l + 1)..(NumLines + 1) /\ ~(Start[l] + lengths[l] <= Start[k])
  BY <1>4
<1>6. k # l + 1
  <2>1. Start[l + 1] = Start[l] + lengths[l] /\ Start[l] \in Nat /\ lengths[l] \in Nat
    BY StartProperties, LengthType
  <2> QED
    BY <1>5, <2>1
<1>7. k - 1 \in (l + 1)..(NumLines + 1) /\ k - 1 \in 1..NumLines /\ k - 1 < k
  BY <1>5, <1>6
<1>8. Start[l] + lengths[l] <= Start[k - 1]
  <2>1. k - 1 \notin T
    BY <1>4, <1>5, <1>7
  <2> QED
    BY <1>7, <2>1
<1>9. Start[k] = Start[k - 1] + lengths[k - 1]
  <2>1. (k - 1) + 1 = k
    BY <1>5
  <2>2. Start[(k - 1) + 1] = Start[k - 1] + lengths[k - 1]
    BY <1>7, StartProperties
  <2> QED
    BY <2>1, <2>2
<1>10. Start[k - 1] \in Nat /\ lengths[k - 1] \in Nat /\ Start[l] \in Nat /\ lengths[l] \in Nat
  BY <1>7, StartProperties, LengthType
<1> QED
  BY <1>5, <1>8, <1>9, <1>10

\* Every position is behind the start of one line, the next one is behind it.
LEMMA LineAt ==
  ASSUME Typed, NEW pos \in 0..Total
  PROVE  \E d \in 0..NumLines : /\ Start[d + 1] <= pos
                                /\ d < NumLines => pos < Start[d + 2]
<1> USE SplitAssumption
<1> DEFINE T == {l \in 1..NumLines : Start[l + 1] > pos}
<1>0. pos \in Nat /\ pos <= Total
  BY StartProperties
<1>1. CASE T = {}
  <2>1. Start[NumLines + 1] <= pos
    <3>1. NumLines \in 1..NumLines /\ NumLines + 1 \in 1..(NumLines + 1)
      OBVIOUS
    <3>2. ~(Start[NumLines + 1] > pos) /\ Start[NumLines + 1] \in Nat
      BY <1>1, <3>1, StartProperties
    <3> QED
      BY <1>0, <3>2
  <2>2. NumLines \in 0..NumLines /\ ~(NumLines < NumLines)
    OBVIOUS
  <2> QED
    BY <2>1, <2>2
<1>2. CASE T # {}
  <2> T \in SUBSET Nat
    OBVIOUS
  <2>1. PICK l \in T : \A k \in T : l <= k
    BY <1>2, LeastNatural
  <2>2. l \in 1..NumLines /\ Start[l + 1] > pos
    BY <2>1
  <2>3. Start[l] <= pos
    <3>1. CASE l = 1
      BY <1>0, <3>1, StartProperties
    <3>2. CASE l # 1
      <4>1. l - 1 \in 1..NumLines /\ l - 1 < l /\ (l - 1) + 1 = l
        BY <2>2, <3>2
      <4>2. l - 1 \notin T
        BY <2>1, <2>2, <4>1
      <4>3. ~(Start[l] > pos) /\ Start[l] \in Nat
        BY <4>1, <4>2, StartProperties
      <4> QED
        BY <1>0, <4>3
    <3> QED
      BY <3>1, <3>2
  <2>4. l - 1 \in 0..NumLines /\ (l - 1) + 1 = l /\ (l - 1) + 2 = l + 1
    BY <2>2
  <2>5. pos < Start[l + 1]
    <3>1. Start[l + 1] \in Nat
      BY <2>2, StartProperties
    <3> QED
      BY <1>0, <2>2, <3>1
  <2> QED
    BY <2>3, <2>4, <2>5
<1> QED
  BY <1>1, <1>2

-----------------------------------------------------------------------------
(* The stream.                                                             *)

\* The byte at a position, and the line it is of.
LineOf(x) == CHOOSE l \in 1..NumLines : Start[l] < x /\ x <= Start[l + 1]
ByteAt(x) == <<LineOf(x), x - Start[LineOf(x)]>>

LEMMA LineOfPosition ==
  ASSUME Typed, NEW x \in 1..Total
  PROVE  /\ LineOf(x) \in 1..NumLines
         /\ Start[LineOf(x)] < x /\ x <= Start[LineOf(x) + 1]
<1> USE SplitAssumption
<1>1. x - 1 \in 0..Total /\ x \in Nat /\ x <= Total /\ Total \in Nat
  BY StartProperties
<1>2. PICK d \in 0..NumLines : Start[d + 1] <= x - 1 /\ (d < NumLines => x - 1 < Start[d + 2])
  BY <1>1, LineAt
<1>3. d # NumLines
  BY <1>1, <1>2 DEF Total
<1>4. d + 1 \in 1..NumLines /\ (d + 1) + 1 = d + 2 /\ d + 2 \in 1..(NumLines + 1)
  BY <1>2, <1>3
<1>5. Start[d + 1] \in Nat /\ Start[d + 2] \in Nat
  BY <1>4, StartProperties
<1>6. Start[d + 1] < x /\ x <= Start[(d + 1) + 1]
  BY <1>1, <1>2, <1>3, <1>4, <1>5
<1>7. \E l \in 1..NumLines : Start[l] < x /\ x <= Start[l + 1]
  BY <1>4, <1>6
<1> QED
  BY <1>7 DEF LineOf

\* Byte k of line l is the k-th behind the start of the line.
LEMMA ByteAtStart ==
  ASSUME Typed, NEW l \in 1..NumLines, NEW k \in 1..lengths[l]
  PROVE  /\ Start[l] + k \in 1..Total
         /\ LineOf(Start[l] + k) = l /\ ByteAt(Start[l] + k) = <<l, k>>
<1> USE SplitAssumption
<1> DEFINE x == Start[l] + k
           m == LineOf(x)
<1>1. lengths[l] \in Nat /\ Start[l] \in Nat /\ Start[l + 1] = Start[l] + lengths[l]
  BY StartProperties, LengthType
<1>2. x \in 1..Total
  <2>1. NumLines + 1 \in (l + 1)..(NumLines + 1)
    OBVIOUS
  <2>2. Start[l] + lengths[l] <= Total /\ Total \in Nat
    BY <2>1, StartMonotonic, StartProperties DEF Total
  <2> QED
    BY <1>1, <2>2
<1>3. x \in Nat /\ Start[l] < x /\ x <= Start[l] + lengths[l]
  BY <1>1
<1> HIDE DEF x
<1>4. m \in 1..NumLines /\ Start[m] < x /\ x <= Start[m + 1]
  BY <1>2, LineOfPosition
<1> HIDE DEF m
<1>5. Start[m] \in Nat /\ lengths[m] \in Nat /\ Start[m + 1] = Start[m] + lengths[m]
  BY <1>4, StartProperties, LengthType
<1>6. ~(m < l)
  <2>1. m < l => l \in (m + 1)..(NumLines + 1)
    BY <1>4
  <2>2. m < l => Start[m] + lengths[m] <= Start[l]
    BY <1>4, <2>1, StartMonotonic
  <2> QED
    BY <1>1, <1>3, <1>4, <1>5, <2>2
<1>7. ~(l < m)
  <2>1. l < m => m \in (l + 1)..(NumLines + 1)
    BY <1>4
  <2>2. l < m => Start[l] + lengths[l] <= Start[m]
    BY <1>4, <2>1, StartMonotonic
  <2> QED
    BY <1>1, <1>3, <1>4, <1>5, <2>2
<1>8. m = l
  BY <1>4, <1>6, <1>7
<1>9. x - Start[l] = k
  BY <1>1 DEF x
<1> QED
  BY <1>2, <1>8, <1>9 DEF m, x, ByteAt

LEMMA ByteType ==
  ASSUME Typed, NEW x \in 1..Total
  PROVE  /\ ByteAt(x) \in Bytes
         /\ IsNewline(ByteAt(x)) <=> x = Start[LineOf(x) + 1]
<1> USE SplitAssumption
<1> DEFINE l == LineOf(x)
<1>1. l \in 1..NumLines /\ Start[l] < x /\ x <= Start[l + 1]
  BY LineOfPosition
<1>2. ByteAt(x) = <<l, x - Start[l]>>
  BY DEF ByteAt
<1> HIDE DEF l
<1>3. /\ Start[l] \in Nat /\ lengths[l] \in Nat /\ lengths[l] <= ByteBufSize
      /\ Start[l + 1] = Start[l] + lengths[l] /\ x \in Nat
  BY <1>1, StartProperties, LengthType
<1>4. x - Start[l] \in 1..ByteBufSize
  BY <1>1, <1>3
<1>5. x - Start[l] = lengths[l] <=> x = Start[l + 1]
  BY <1>3
<1> QED
  BY <1>1, <1>2, <1>4, <1>5 DEF Bytes, IsNewline, l

Stream == [x \in 1..Total |-> ByteAt(x)]

LEMMA StreamProperties ==
  ASSUME Typed
  PROVE  /\ Stream \in Seq(Bytes) /\ Len(Stream) = Total /\ Total \in Nat
         /\ \A x \in 1..Total : Stream[x] = ByteAt(x)
<1>1. Total \in Nat /\ \A x \in 1..Total : ByteAt(x) \in Bytes
  BY StartProperties, ByteType
<1> HIDE DEF Total
<1> QED
  BY <1>1 DEF Stream

LEMMA TextProperties ==
  ASSUME Typed, NEW l \in 1..NumLines
  PROVE  /\ Text(l) \in Seq(Bytes) /\ Len(Text(l)) = lengths[l] - 1
         /\ \A k \in 1..(lengths[l] - 1) : Text(l)[k] = <<l, k>>
         /\ \A k \in 1..lengths[l] : <<l, k>> \in Bytes
<1>1. lengths[l] \in Nat /\ 2 <= lengths[l] /\ lengths[l] <= ByteBufSize
  BY LengthType
<1>2. \A k \in 1..lengths[l] : <<l, k>> \in Bytes
  <2>1. \A k \in 1..lengths[l] : k \in 1..ByteBufSize
    BY <1>1, SplitAssumption
  <2> QED
    BY <2>1 DEF Bytes
<1>3. lengths[l] - 1 \in Nat /\ \A k \in 1..(lengths[l] - 1) : k \in 1..lengths[l]
  BY <1>1
<1>4. \A k \in 1..(lengths[l] - 1) : <<l, k>> \in Bytes
  BY <1>2, <1>3
<1> QED
  BY <1>2, <1>3, <1>4 DEF Text

LEMMA LineProperties ==
  ASSUME Typed, NEW l \in 1..NumLines
  PROVE  /\ Line(l) \in Seq(Bytes) /\ Len(Line(l)) = lengths[l]
         /\ \A k \in 1..lengths[l] : Line(l)[k] = <<l, k>>
<1>1. lengths[l] \in Nat /\ 2 <= lengths[l]
  BY LengthType
<1>2. <<l, lengths[l]>> \in Bytes
  <2>1. lengths[l] \in 1..lengths[l]
    BY <1>1
  <2> QED
    BY <2>1, TextProperties
<1>3. /\ Line(l) \in Seq(Bytes) /\ Len(Line(l)) = Len(Text(l)) + 1
      /\ \A k \in 1..Len(Text(l)) : Line(l)[k] = Text(l)[k]
      /\ Line(l)[Len(Text(l)) + 1] = <<l, lengths[l]>>
  BY <1>2, TextProperties, AppendProperties DEF Line
<1>4. Len(Text(l)) = lengths[l] - 1 /\ \A k \in 1..(lengths[l] - 1) : Text(l)[k] = <<l, k>>
  BY TextProperties
<1>5. Len(Line(l)) = lengths[l] /\ Line(l)[lengths[l]] = <<l, lengths[l]>>
  BY <1>1, <1>3, <1>4
<1>6. ASSUME NEW k \in 1..lengths[l]
      PROVE  Line(l)[k] = <<l, k>>
  <2>1. k = lengths[l] \/ k \in 1..(lengths[l] - 1)
    BY <1>1
  <2> QED
    BY <1>3, <1>4, <1>5, <2>1
<1> QED
  BY <1>3, <1>5, <1>6

\* The stream up to the end of a line is that line behind the ones before.
LEMMA StreamGrows ==
  ASSUME Typed, NEW i \in 1..NumLines
  PROVE  SubSeq(Stream, 1, Start[i + 1]) = SubSeq(Stream, 1, Start[i]) \o Line(i)
<1> DEFINE a == Start[i]
           b == Start[i + 1]
           s == SubSeq(Stream, 1, a)
           t == SubSeq(Stream, 1, b)
<1>1. a \in Nat /\ lengths[i] \in Nat /\ b = a + lengths[i]
  <2>1. i \in 1..(NumLines + 1)
    BY SplitAssumption
  <2> QED
    BY <2>1, StartProperties, LengthType
<1>2. b <= Total /\ Total \in Nat
  <2>1. NumLines + 1 \in (i + 1)..(NumLines + 1)
    BY SplitAssumption
  <2>2. Start[i] + lengths[i] <= Total
    BY <2>1, StartMonotonic DEF Total
  <2> QED
    BY <1>1, <2>2, StartProperties
<1>3. \A k \in 1..lengths[i] : ByteAt(a + k) = <<i, k>>
  BY ByteAtStart
<1> HIDE DEF a, b
<1>4. /\ Line(i) \in Seq(Bytes) /\ Len(Line(i)) = lengths[i]
      /\ \A k \in 1..lengths[i] : Line(i)[k] = <<i, k>>
  BY LineProperties
<1>5. \A x \in 1..b : x \in 1..Total /\ Stream[x] \in Bytes /\ Stream[x] = ByteAt(x)
  <2>1. \A x \in 1..b : x \in 1..Total
    BY <1>1, <1>2
  <2> QED
    BY <2>1, StreamProperties
<1>6. s \in Seq(Bytes) /\ Len(s) = a /\ \A x \in 1..a : s[x] = ByteAt(x)
  <2>1. \A x \in 1..a : x \in 1..b
    BY <1>1
  <2> QED
    BY <1>1, <1>5, <2>1, SubSeqProperties
<1>7. t \in Seq(Bytes) /\ Len(t) = b /\ \A x \in 1..b : t[x] = ByteAt(x)
  BY <1>1, <1>5, SubSeqProperties
<1> HIDE DEF s, t
<1>8. /\ s \o Line(i) \in Seq(Bytes) /\ Len(s \o Line(i)) = a + lengths[i]
      /\ \A x \in 1..(a + lengths[i]) :
           (s \o Line(i))[x] = IF x <= a THEN s[x] ELSE Line(i)[x - a]
  <2>1. s \in Seq(Bytes) /\ Line(i) \in Seq(Bytes)
    BY <1>4, <1>6
  <2>2. /\ s \o Line(i) \in Seq(Bytes) /\ Len(s \o Line(i)) = Len(s) + Len(Line(i))
        /\ \A x \in 1..(Len(s) + Len(Line(i))) :
             (s \o Line(i))[x] = IF x <= Len(s) THEN s[x] ELSE Line(i)[x - Len(s)]
    BY <2>1, ConcatProperties, Zenon
  <2>3. Len(s) = a /\ Len(Line(i)) = lengths[i]
    BY <1>4, <1>6
  <2> QED
    BY <2>2, <2>3, Zenon
<1>9. ASSUME NEW x \in 1..b
      PROVE  t[x] = (s \o Line(i))[x]
  <2>1. CASE x <= a
    <3>1. x \in 1..a /\ x \in 1..(a + lengths[i])
      BY <1>1, <2>1
    <3> QED
      BY <1>6, <1>7, <1>8, <2>1, <3>1
  <2>2. CASE ~(x <= a)
    <3>1. x - a \in 1..lengths[i] /\ a + (x - a) = x /\ x \in 1..(a + lengths[i])
      BY <1>1, <2>2
    <3>2. t[x] = <<i, x - a>> /\ Line(i)[x - a] = <<i, x - a>>
      BY <1>3, <1>4, <1>7, <3>1
    <3> QED
      BY <1>8, <2>2, <3>1, <3>2
  <2> QED
    BY <2>1, <2>2
<1>10. t = s \o Line(i)
  BY <1>1, <1>7, <1>8, <1>9, SeqEqual
<1> QED
  BY <1>10 DEF s, t, a, b

LEMMA FlattenIsStream ==
  ASSUME Typed
  PROVE  FlattenSeq([l \in 1..NumLines |-> Line(l)]) = Stream
<1> USE SplitAssumption
<1> DEFINE seqs == [l \in 1..NumLines |-> Line(l)]
           IsFlatten(f) ==
             f = [i \in 1..NumLines |-> IF i = 1 THEN seqs[i] ELSE f[i - 1] \o seqs[i]]
           g == [i \in 1..NumLines |-> SubSeq(Stream, 1, Start[i + 1])]
<1>1. seqs \in Seq(Seq(Bytes)) /\ Len(seqs) = NumLines /\ \A i \in 1..NumLines : seqs[i] = Line(i)
  <2>1. \A i \in 1..NumLines : Line(i) \in Seq(Bytes)
    BY LineProperties
  <2> HIDE DEF Line
  <2> QED
    BY <2>1
<1> HIDE DEF seqs
<1>2. g[1] = Line(1)
  <2>1. SubSeq(Stream, 1, Start[1]) = <<>>
    BY StartProperties
  <2>2. 1 \in 1..NumLines
    OBVIOUS
  <2>3. g[1] = SubSeq(Stream, 1, Start[1 + 1])
    BY <2>2
  <2>4. SubSeq(Stream, 1, Start[1 + 1]) = <<>> \o Line(1)
    BY <2>1, <2>2, StreamGrows
  <2> QED
    BY <2>2, <2>3, <2>4, LineProperties, ConcatEmptySeq
<1>3. ASSUME NEW i \in 1..NumLines
      PROVE  g[i] = IF i = 1 THEN seqs[i] ELSE g[i - 1] \o seqs[i]
  <2>1. CASE i = 1
    BY <1>1, <1>2, <2>1
  <2>2. CASE i # 1
    <3>1. i - 1 \in 1..NumLines /\ (i - 1) + 1 = i
      BY <2>2
    <3>2. g[i - 1] = SubSeq(Stream, 1, Start[i])
      BY <3>1
    <3>3. g[i] = SubSeq(Stream, 1, Start[i]) \o Line(i)
      BY StreamGrows
    <3> QED
      BY <1>1, <2>2, <3>2, <3>3
  <2> QED
    BY <2>1, <2>2
<1>4. IsFlatten(g)
  <2>1. \A i \in 1..NumLines : g[i] = SubSeq(Stream, 1, Start[i + 1])
    OBVIOUS
  <2>2. g = [i \in 1..NumLines |-> SubSeq(Stream, 1, Start[i + 1])]
    OBVIOUS
  <2> HIDE DEF g
  <2>3. \A i \in 1..NumLines :
          SubSeq(Stream, 1, Start[i + 1]) = IF i = 1 THEN seqs[i] ELSE g[i - 1] \o seqs[i]
    BY <1>3, <2>1
  <2> QED
    BY <2>2, <2>3
<1> HIDE DEF g
\* There is no other: no first position where another differs.
<1>5. ASSUME NEW f, IsFlatten(f), NEW n \in 1..NumLines
      PROVE  f[n] = g[n]
  <2> DEFINE T == {i \in 1..NumLines : f[i] # g[i]}
  <2>1. SUFFICES ASSUME T # {} PROVE FALSE
    OBVIOUS
  <2>2. T \in SUBSET Nat
    OBVIOUS
  <2>3. PICK i \in T : \A k \in T : i <= k
    BY <2>1, <2>2, LeastNatural
  <2>4. i \in 1..NumLines /\ f[i] # g[i]
    BY <2>3
  <2>5. f[i] = IF i = 1 THEN seqs[i] ELSE f[i - 1] \o seqs[i]
    BY <1>5, <2>4
  <2>6. CASE i # 1
    <3>1. i - 1 \in 1..NumLines /\ i - 1 < i
      BY <2>4, <2>6
    <3>2. i - 1 \notin T
      BY <2>3, <2>4, <3>1
    <3>3. f[i - 1] = g[i - 1]
      BY <3>1, <3>2
    <3> QED
      BY <1>3, <2>4, <2>5, <2>6, <3>3
  <2> QED
    BY <1>3, <2>4, <2>5, <2>6
<1>6. FlattenSeq(seqs) = (CHOOSE f : IsFlatten(f))[NumLines]
  BY <1>1 DEF FlattenSeq
<1> HIDE DEF IsFlatten
<1>7. IsFlatten(CHOOSE f : IsFlatten(f))
  BY <1>4
<1>8. FlattenSeq(seqs) = g[NumLines]
  BY <1>5, <1>6, <1>7
<1>9. g[NumLines] = Stream
  <2>1. g[NumLines] = SubSeq(Stream, 1, Total)
    <3>1. NumLines \in 1..NumLines
      OBVIOUS
    <3> QED
      BY <3>1 DEF g, Total
  <2> QED
    BY <2>1, StreamProperties, SubSeqFull
<1> QED
  BY <1>8, <1>9 DEF seqs

-----------------------------------------------------------------------------
(* The split.                                                              *)

\* A set that is listed in ascending order is sorted already.
LEMMA SortedIsList ==
  ASSUME NEW N \in Nat, NEW e \in [1..N -> Int],
         \A i, j \in 1..N : i < j => e[i] < e[j]
  PROVE  Sorted({e[m] : m \in 1..N}) = e
<1> DEFINE S == {e[m] : m \in 1..N}
           Below(x) == {y \in S : y < x}
<1>1. \A i, j \in 1..N : e[i] = e[j] => i = j
  <2>1. \A i \in 1..N : e[i] \in Int
    OBVIOUS
  <2>2. \A i, j \in 1..N : i < j => e[i] # e[j]
    BY <2>1
  <2> QED
    BY <2>2
<1>2. ASSUME NEW k \in 0..N
      PROVE  Cardinality({e[m] : m \in 1..k}) = k
  <2> DEFINE F == {e[m] : m \in 1..k}
             g == [m \in 1..k |-> e[m]]
  <2>1. \A m \in 1..k : m \in 1..N
    OBVIOUS
  <2>2. g \in [1..k -> F] /\ \A t \in F : \E m \in 1..k : g[m] = t
    OBVIOUS
  <2>3. \A i, j \in 1..k : g[i] = g[j] => i = j
    BY <1>1, <2>1
  <2> HIDE DEF F, g
  <2>4. g \in Bijection(1..k, F)
    BY <2>2, <2>3 DEF Bijection, Injection, Surjection, IsInjective
  <2>5. IsFiniteSet(1..k) /\ Cardinality(1..k) = k
    BY FS_Interval
  <2>6. Cardinality(F) = k
    BY <2>4, <2>5, FS_Bijection DEF ExistsBijection
  <2> QED
    BY <2>6 DEF F
<1>3. Cardinality(S) = N
  <2>1. N \in 0..N
    OBVIOUS
  <2> QED
    BY <1>2, <2>1
<1>4. ASSUME NEW i \in 1..N
      PROVE  Cardinality(Below(e[i])) = i - 1
  <2>1. \A m \in 1..N : e[m] \in Int
    OBVIOUS
  <2>2. \A m \in 1..N : e[m] < e[i] <=> m < i
    <3>1. ASSUME NEW m \in 1..N
          PROVE  e[m] < e[i] <=> m < i
      <4>1. m < i \/ m = i \/ i < m
        OBVIOUS
      <4>2. (m < i => e[m] < e[i]) /\ (i < m => e[i] < e[m])
        OBVIOUS
      <4>3. e[m] \in Int /\ e[i] \in Int
        BY <2>1
      <4> QED
        BY <4>1, <4>2, <4>3
    <3> QED
      BY <3>1
  <2>3. Below(e[i]) = {e[m] : m \in 1..(i - 1)}
    <3>1. ASSUME NEW m \in 1..N
          PROVE  m < i <=> m \in 1..(i - 1)
      OBVIOUS
    <3>2. \A m \in 1..(i - 1) : m \in 1..N /\ m < i
      OBVIOUS
    <3> QED
      BY <2>2, <3>1, <3>2
  <2>4. i - 1 \in 0..N
    OBVIOUS
  <2> QED
    BY <1>2, <2>3, <2>4
<1> HIDE DEF Below
<1>5. ASSUME NEW i \in 1..N
      PROVE  (CHOOSE x \in S : Cardinality(Below(x)) = i - 1) = e[i]
  <2>1. \A x \in S : Cardinality(Below(x)) = i - 1 => x = e[i]
    <3>1. ASSUME NEW x \in S, Cardinality(Below(x)) = i - 1
          PROVE  x = e[i]
      <4>1. PICK m \in 1..N : x = e[m]
        OBVIOUS
      <4>2. m - 1 = i - 1
        BY <1>4, <3>1, <4>1
      <4> QED
        BY <4>1, <4>2
    <3> QED
      BY <3>1
  <2>2. e[i] \in S /\ Cardinality(Below(e[i])) = i - 1
    BY <1>4
  <2> HIDE DEF S
  <2> QED
    BY <2>1, <2>2
<1>6. Sorted(S) = [i \in 1..N |-> CHOOSE x \in S : Cardinality(Below(x)) = i - 1]
  <2> HIDE DEF S
  <2> QED
    BY <1>3 DEF Sorted, Below
<1> HIDE DEF S
<1>7. Sorted(S) = [i \in 1..N |-> e[i]]
  BY <1>5, <1>6
<1> QED
  BY <1>7 DEF S

\* The lines of a text whose newlines are at e[1] .. e[N].
LEMMA SplitAt ==
  ASSUME NEW s \in Seq(Bytes), NEW N \in Nat, NEW e \in [1..N -> 1..Len(s)],
         \A i, j \in 1..N : i < j => e[i] < e[j],
         \A i \in 1..Len(s) : IsNewline(s[i]) <=> \E m \in 1..N : e[m] = i
  PROVE  /\ WholeLines(s) =
              [m \in 1..N |-> SubSeq(s, (IF m = 1 THEN 0 ELSE e[m - 1]) + 1, e[m] - 1)]
         /\ RaggedEnd(s) = SubSeq(s, (IF N = 0 THEN 0 ELSE e[N]) + 1, Len(s))
<1>1. {i \in 1..Len(s) : IsNewline(s[i])} = {e[m] : m \in 1..N}
  <2>1. \A m \in 1..N : e[m] \in 1..Len(s)
    OBVIOUS
  <2> HIDE DEF IsNewline
  <2> QED
    BY <2>1
<1>2. e \in [1..N -> Int] /\ e \in Seq(Nat) /\ Len(e) = N
  OBVIOUS
<1>3. Newlines(s) = e
  <2>1. Sorted({e[m] : m \in 1..N}) = e
    BY <1>2, SortedIsList
  <2> QED
    BY <1>1, <2>1 DEF Newlines
<1> DEFINE z == <<0>> \o e
<1>4. /\ z \in Seq(Nat) /\ Len(z) = N + 1 /\ z[1] = 0
      /\ \A m \in 1..N : z[m + 1] = e[m]
  <2>1. <<0>> \in Seq(Nat) /\ Len(<<0>>) = 1 /\ <<0>>[1] = 0
    OBVIOUS
  <2>2. /\ z \in Seq(Nat) /\ Len(z) = 1 + N
        /\ \A i \in 1..(1 + N) : z[i] = IF i <= 1 THEN <<0>>[i] ELSE e[i - 1]
    BY <1>2, <2>1, ConcatProperties
  <2> HIDE DEF z
  <2> QED
    BY <2>1, <2>2
<1>5. WholeLines(s) = [k \in 1..(Len(z) - 1) |-> SubSeq(s, z[k] + 1, z[k + 1] - 1)]
  BY <1>3 DEF WholeLines
<1>6. RaggedEnd(s) = SubSeq(s, z[Len(z)] + 1, Len(s))
  BY <1>3 DEF RaggedEnd, Last
<1> HIDE DEF z
<1>7. Len(z) - 1 = N
  BY <1>4
<1>8. ASSUME NEW m \in 1..N
      PROVE  z[m] = (IF m = 1 THEN 0 ELSE e[m - 1]) /\ z[m + 1] = e[m]
  <2>1. m # 1 => m - 1 \in 1..N /\ (m - 1) + 1 = m
    OBVIOUS
  <2>2. m # 1 => z[(m - 1) + 1] = e[m - 1]
    BY <1>4, <2>1
  <2> QED
    BY <1>4, <2>1, <2>2
<1>9. z[N + 1] = IF N = 0 THEN 0 ELSE e[N]
  BY <1>4
<1> QED
  BY <1>4, <1>5, <1>6, <1>7, <1>8, <1>9

\* d whole lines end at position x or before it.
Ended(d, x) == d \in 0..NumLines /\ Start[d + 1] <= x /\ (d < NumLines => x < Start[d + 2])

LEMMA StartLess ==
  ASSUME Typed, NEW l \in 1..(NumLines + 1), NEW m \in 1..(NumLines + 1)
  PROVE  /\ l < m => Start[l] < Start[m]
         /\ l <= m <=> Start[l] <= Start[m]
<1> USE SplitAssumption
<1>1. ASSUME NEW i \in 1..(NumLines + 1), NEW j \in 1..(NumLines + 1), i < j
      PROVE  Start[i] < Start[j]
  <2>1. i \in 1..NumLines /\ j \in (i + 1)..(NumLines + 1)
    BY <1>1
  <2>2. Start[i] + lengths[i] <= Start[j]
    BY <2>1, StartMonotonic
  <2>3. Start[i] \in Nat /\ Start[j] \in Nat /\ lengths[i] \in Nat /\ 2 <= lengths[i]
    BY <2>1, StartProperties, LengthType
  <2> QED
    BY <2>2, <2>3
<1>2. Start[l] \in Nat /\ Start[m] \in Nat
  BY StartProperties
<1>3. (l < m => Start[l] < Start[m]) /\ (m < l => Start[m] < Start[l])
  BY <1>1
<1>4. l < m \/ l = m \/ m < l
  OBVIOUS
<1> QED
  BY <1>2, <1>3, <1>4

\* Where a chunk of the stream ends lines: those that end in it.
LEMMA ChunkNewlines ==
  ASSUME Typed, NEW pos \in Nat, NEW c \in Nat, pos + c <= Total,
         NEW d, NEW d2, Ended(d, pos), Ended(d2, pos + c)
  PROVE  /\ d2 - d \in Nat
         /\ \A m \in 1..(d2 - d) : /\ d + m \in 1..NumLines
                                  /\ Start[d + m + 1] - pos \in 1..c
         /\ \A x \in 1..c : IsNewline(ByteAt(pos + x)) <=>
              \E m \in 1..(d2 - d) : x = Start[d + m + 1] - pos
<1> USE SplitAssumption
<1>1. /\ d \in 0..NumLines /\ Start[d + 1] <= pos /\ (d < NumLines => pos < Start[d + 2])
      /\ d2 \in 0..NumLines /\ Start[d2 + 1] <= pos + c
      /\ (d2 < NumLines => pos + c < Start[d2 + 2])
  BY DEF Ended
<1>2. /\ d + 1 \in 1..(NumLines + 1) /\ d2 + 1 \in 1..(NumLines + 1)
      /\ d < NumLines => d + 2 \in 1..(NumLines + 1)
      /\ d2 < NumLines => d2 + 2 \in 1..(NumLines + 1)
  BY <1>1
<1>3. \A l \in 1..(NumLines + 1) : Start[l] \in Nat
  BY StartProperties
<1>4. d <= d2
  <2>1. SUFFICES ASSUME d2 < d PROVE FALSE
    BY <1>1
  <2>2. d2 < NumLines /\ d2 + 2 <= d + 1
    BY <1>1, <2>1
  <2>3. Start[d2 + 2] <= Start[d + 1]
    BY <1>2, <2>2, StartLess
  <2>4. Start[d2 + 2] \in Nat /\ Start[d + 1] \in Nat
    BY <1>2, <1>3, <2>2
  <2> QED
    BY <1>1, <2>2, <2>3, <2>4
<1>5. d2 - d \in Nat
  BY <1>1, <1>4
\* The lines that end in the chunk are those after d, up to d2.
<1>6. ASSUME NEW l \in 1..NumLines
      PROVE  /\ pos < Start[l + 1] <=> d < l
             /\ Start[l + 1] <= pos + c <=> l <= d2
  <2>1. l + 1 \in 1..(NumLines + 1) /\ Start[l + 1] \in Nat
    BY <1>3
  <2>2. l <= d => Start[l + 1] <= Start[d + 1]
    BY <1>1, <1>2, <2>1, StartLess
  <2>3. d < l => d < NumLines /\ Start[d + 2] <= Start[l + 1]
    BY <1>1, <1>2, <2>1, StartLess
  <2>4. l <= d2 => Start[l + 1] <= Start[d2 + 1]
    BY <1>1, <1>2, <2>1, StartLess
  <2>5. d2 < l => d2 < NumLines /\ Start[d2 + 2] <= Start[l + 1]
    BY <1>1, <1>2, <2>1, StartLess
  <2>6. Start[d + 1] \in Nat /\ Start[d2 + 1] \in Nat
    BY <1>2, <1>3
  <2>7. (d < NumLines => Start[d + 2] \in Nat) /\ (d2 < NumLines => Start[d2 + 2] \in Nat)
    BY <1>2, <1>3
  <2>8. pos < Start[l + 1] <=> d < l
    BY <1>1, <2>1, <2>2, <2>3, <2>6, <2>7
  <2>9. Start[l + 1] <= pos + c <=> l <= d2
    BY <1>1, <2>1, <2>4, <2>5, <2>6, <2>7
  <2> QED
    BY <2>8, <2>9
<1>7. ASSUME NEW m \in 1..(d2 - d)
      PROVE  d + m \in 1..NumLines /\ Start[d + m + 1] - pos \in 1..c
  <2>1. d + m \in 1..NumLines /\ d < d + m /\ d + m <= d2
    BY <1>1, <1>5
  <2>2. pos < Start[(d + m) + 1] /\ Start[(d + m) + 1] <= pos + c
    BY <1>6, <2>1
  <2>3. Start[(d + m) + 1] \in Nat
    BY <1>3, <2>1
  <2> QED
    BY <2>1, <2>2, <2>3
<1>8. ASSUME NEW x \in 1..c
      PROVE  IsNewline(ByteAt(pos + x)) <=> \E m \in 1..(d2 - d) : x = Start[d + m + 1] - pos
  <2>1. pos + x \in 1..Total
    BY StartProperties
  <2> DEFINE l == LineOf(pos + x)
  <2>2. l \in 1..NumLines /\ (IsNewline(ByteAt(pos + x)) <=> pos + x = Start[l + 1])
    BY <2>1, LineOfPosition, ByteType
  <2> HIDE DEF l
  <2>3. ASSUME pos + x = Start[l + 1]
        PROVE  \E m \in 1..(d2 - d) : x = Start[d + m + 1] - pos
    <3>1. d < l /\ l <= d2
      BY <1>6, <2>2, <2>3
    <3>2. l - d \in 1..(d2 - d) /\ d + (l - d) + 1 = l + 1
      BY <1>1, <2>2, <3>1
    <3>3. x = Start[l + 1] - pos
      BY <2>3
    <3> QED
      BY <3>2, <3>3
  <2>4. ASSUME NEW m \in 1..(d2 - d), x = Start[d + m + 1] - pos
        PROVE  IsNewline(ByteAt(pos + x))
    <3>1. d + m \in 1..NumLines
      BY <1>7
    <3>2. /\ Start[(d + m) + 1] = Start[d + m] + lengths[d + m]
          /\ Start[(d + m) + 1] \in Nat /\ lengths[d + m] \in Nat /\ 2 <= lengths[d + m]
      BY <1>3, <3>1, StartProperties, LengthType
    <3>3. pos + x = Start[d + m] + lengths[d + m]
      BY <2>4, <3>1, <3>2
    <3>4. lengths[d + m] \in 1..lengths[d + m]
      BY <3>2
    <3>5. ByteAt(pos + x) = <<d + m, lengths[d + m]>>
      BY <3>1, <3>3, <3>4, ByteAtStart
    <3> QED
      BY <3>5 DEF IsNewline
  <2> QED
    BY <2>2, <2>3, <2>4
<1> QED
  BY <1>5, <1>7, <1>8

\* A chunk is the part of the stream from pos + 1 to pos + c.
IsChunk(q, pos, c) ==
  /\ q \in Seq(Bytes) /\ Len(q) = c
  /\ \A x \in 1..c : q[x] = ByteAt(pos + x)

\* From the byte behind position x on, line l + 1 has this left.
LEMMA PartOfLine ==
  ASSUME Typed, NEW q, NEW pos \in Nat, NEW c \in Nat, IsChunk(q, pos, c),
         NEW l \in 1..NumLines, NEW a \in Nat, NEW n \in Nat,
         a + n <= lengths[l] - 1,
         NEW b \in Nat, pos + b = Start[l] + a, b + n <= c
  PROVE  SubSeq(q, b + 1, b + n) = SubSeq(Text(l), a + 1, a + n)
<1>1. /\ Text(l) \in Seq(Bytes) /\ Len(Text(l)) = lengths[l] - 1
      /\ \A k \in 1..(lengths[l] - 1) : Text(l)[k] = <<l, k>>
  BY TextProperties
<1>2. lengths[l] \in Nat /\ Start[l] \in Nat
  <2>1. l \in 1..(NumLines + 1)
    BY SplitAssumption
  <2> QED
    BY <2>1, LengthType, StartProperties
<1>3. q \in Seq(Bytes) /\ Len(q) = c /\ \A x \in 1..c : q[x] = ByteAt(pos + x)
  BY DEF IsChunk
<1> HIDE DEF Text
<1>4. /\ SubSeq(q, b + 1, b + n) \in Seq(Bytes) /\ Len(SubSeq(q, b + 1, b + n)) = n
      /\ \A i \in 1..n : SubSeq(q, b + 1, b + n)[i] = q[b + i]
  <2>1. \A i \in (b + 1)..(b + n) : q[i] \in Bytes
    <3>1. \A i \in (b + 1)..(b + n) : i \in 1..Len(q)
      BY <1>3
    <3> QED
      BY <1>3, <3>1, ElementOfSeq
  <2> QED
    BY <2>1
<1>5. /\ SubSeq(Text(l), a + 1, a + n) \in Seq(Bytes)
      /\ Len(SubSeq(Text(l), a + 1, a + n)) = n
      /\ \A i \in 1..n : SubSeq(Text(l), a + 1, a + n)[i] = Text(l)[a + i]
  <2>1. \A i \in (a + 1)..(a + n) : Text(l)[i] \in Bytes
    <3>1. \A i \in (a + 1)..(a + n) : i \in 1..Len(Text(l))
      BY <1>1, <1>2
    <3> QED
      BY <1>1, <3>1, ElementOfSeq
  <2> QED
    BY <2>1
<1>6. ASSUME NEW i \in 1..n
      PROVE  q[b + i] = Text(l)[a + i]
  <2>1. b + i \in 1..c /\ a + i \in 1..lengths[l] /\ a + i \in 1..(lengths[l] - 1)
    BY <1>2
  <2>2. pos + (b + i) = Start[l] + (a + i)
    BY <1>2
  <2>3. q[b + i] = ByteAt(Start[l] + (a + i))
    BY <1>3, <2>1, <2>2
  <2>4. ByteAt(Start[l] + (a + i)) = <<l, a + i>>
    BY <2>1, ByteAtStart
  <2> QED
    BY <1>1, <2>1, <2>3, <2>4
<1>7. \A i \in 1..n : SubSeq(q, b + 1, b + n)[i] = SubSeq(Text(l), a + 1, a + n)[i]
  BY <1>4, <1>5, <1>6
<1> QED
  BY <1>4, <1>5, <1>7, SeqEqual

\* A piece of a concatenation behind its first part.
LEMMA PieceOfConcat ==
  ASSUME NEW S, NEW p \in Seq(S), NEW q \in Seq(S), NEW a \in Nat, NEW b \in Nat, b <= Len(q)
  PROVE  /\ SubSeq(p \o q, Len(p) + a + 1, Len(p) + b) = SubSeq(q, a + 1, b)
         /\ SubSeq(p \o q, 1, Len(p) + b) = p \o SubSeq(q, 1, b)
<1>1. /\ p \o q \in Seq(S) /\ Len(p \o q) = Len(p) + Len(q)
      /\ \A i \in 1..(Len(p) + Len(q)) :
           (p \o q)[i] = IF i <= Len(p) THEN p[i] ELSE q[i - Len(p)]
  BY ConcatProperties
<1>2. Len(p) \in Nat /\ Len(q) \in Nat
  OBVIOUS
<1>3. SubSeq(p \o q, Len(p) + a + 1, Len(p) + b) = SubSeq(q, a + 1, b)
  <2> DEFINE s == SubSeq(p \o q, Len(p) + a + 1, Len(p) + b)
             t == SubSeq(q, a + 1, b)
             n == IF a + 1 <= b THEN b - a ELSE 0
  <2>1. /\ s \in Seq(S) /\ Len(s) = n
        /\ \A i \in 1..n : s[i] = (p \o q)[Len(p) + a + i]
    <3>1. \A i \in (Len(p) + a + 1)..(Len(p) + b) : i \in 1..Len(p \o q)
      BY <1>1, <1>2
    <3>2. \A i \in (Len(p) + a + 1)..(Len(p) + b) : (p \o q)[i] \in S
      BY <1>1, <3>1, ElementOfSeq
    <3> DEFINE r == p \o q
               lo == Len(p) + a + 1
               hi == Len(p) + b
    <3>3. lo \in Int /\ hi \in Int
      BY <1>2
    <3>4. \A i \in lo..hi : r[i] \in S
      BY <3>2
    <3> HIDE DEF r, lo, hi
    <3>5. /\ SubSeq(r, lo, hi) \in Seq(S)
          /\ Len(SubSeq(r, lo, hi)) = IF lo <= hi THEN hi - lo + 1 ELSE 0
          /\ \A i \in 1..(hi - lo + 1) : SubSeq(r, lo, hi)[i] = r[lo + i - 1]
      BY <3>3, <3>4, SubSeqProperties
    <3>6. s = SubSeq(r, lo, hi)
      BY DEF r, lo, hi
    <3>7. /\ (IF lo <= hi THEN hi - lo + 1 ELSE 0) = n
          /\ \A i \in 1..n : i \in 1..(hi - lo + 1) /\ lo + i - 1 = Len(p) + a + i
      BY <1>2 DEF lo, hi
    <3> HIDE DEF s, n
    <3>8. \A i \in 1..n : s[i] = r[Len(p) + a + i]
      BY <3>5, <3>6, <3>7
    <3> QED
      BY <3>5, <3>6, <3>7, <3>8 DEF r
  <2>2. t \in Seq(S) /\ Len(t) = n /\ \A i \in 1..n : t[i] = q[a + i]
    <3>1. \A i \in (a + 1)..b : i \in 1..Len(q)
      BY <1>2
    <3>2. \A i \in (a + 1)..b : q[i] \in S
      BY <3>1, ElementOfSeq
    <3> QED
      BY <3>2, SubSeqProperties
  <2>3. ASSUME NEW i \in 1..n
        PROVE  s[i] = t[i]
    <3>1. Len(p) + a + i \in 1..(Len(p) + Len(q)) /\ ~(Len(p) + a + i <= Len(p))
          /\ (Len(p) + a + i) - Len(p) = a + i
      BY <1>2
    <3> QED
      BY <1>1, <2>1, <2>2, <3>1
  <2> HIDE DEF s, t, n
  <2>4. s = t
    BY <2>1, <2>2, <2>3, SeqEqual
  <2> QED
    BY <2>4 DEF s, t
<1>4. SubSeq(p \o q, 1, Len(p) + b) = p \o SubSeq(q, 1, b)
  <2> DEFINE s == SubSeq(p \o q, 1, Len(p) + b)
             t == SubSeq(q, 1, b)
  <2>1. /\ s \in Seq(S) /\ Len(s) = Len(p) + b
        /\ \A i \in 1..(Len(p) + b) : s[i] = (p \o q)[i]
    <3>1. \A i \in 1..(Len(p) + b) : i \in 1..Len(p \o q)
      BY <1>1, <1>2
    <3>2. \A i \in 1..(Len(p) + b) : (p \o q)[i] \in S
      BY <1>1, <3>1, ElementOfSeq
    <3> QED
      BY <1>2, <3>2, SubSeqProperties
  <2>2. t \in Seq(S) /\ Len(t) = b /\ \A i \in 1..b : t[i] = q[i]
    <3>1. \A i \in 1..b : q[i] \in S
      BY <1>2
    <3> QED
      BY <3>1, SubSeqProperties
  <2> HIDE DEF s, t
  <2>3. /\ p \o t \in Seq(S) /\ Len(p \o t) = Len(p) + Len(t)
        /\ \A i \in 1..(Len(p) + Len(t)) :
             (p \o t)[i] = IF i <= Len(p) THEN p[i] ELSE t[i - Len(p)]
    BY <2>2, ConcatProperties
  <2>4. ASSUME NEW i \in 1..(Len(p) + b)
        PROVE  s[i] = (p \o t)[i]
    <3>1. i \in 1..(Len(p) + Len(q)) /\ (~(i <= Len(p)) => i - Len(p) \in 1..b)
      BY <1>2
    <3> QED
      BY <1>1, <2>1, <2>2, <2>3, <3>1
  <2>5. s = p \o t
    BY <2>1, <2>2, <2>3, <2>4, SeqEqual
  <2> QED
    BY <2>5 DEF s, t
<1> QED
  BY <1>3, <1>4

\* What can be left over of a chunk: it ends no line.
IsPiece(p) == p \in Seq(Bytes) /\ NoNewline(p)

\* The same fact for any way of writing the bounds, with the equality as a name
\* of its own: an equality of parts is taken to pieces by the solver.
SamePart(s, lo, hi, t, from, to) == SubSeq(s, lo, hi) = SubSeq(t, from, to)

LEMMA PieceOfLine ==
  ASSUME Typed, NEW q, NEW pos \in Nat, NEW c \in Nat, IsChunk(q, pos, c),
         NEW l \in 1..NumLines, NEW lo \in Nat, NEW hi \in Nat, NEW from \in Nat, NEW to \in Nat,
         1 <= lo, hi <= c, 1 <= from, from <= to + 1, to <= lengths[l] - 1,
         pos + lo = Start[l] + from, hi - lo = to - from
  PROVE  SamePart(q, lo, hi, Text(l), from, to)
<1> DEFINE a == from - 1
           b == lo - 1
           n == to - a
           at == Start[l]
           len == lengths[l]
<1>1. at \in Nat /\ len \in Nat
  <2>1. l \in 1..(NumLines + 1)
    BY SplitAssumption
  <2> QED
    BY <2>1, StartProperties, LengthType
<1> HIDE DEF at, len
<1>2. pos + lo = at + from /\ to <= len - 1
  BY DEF at, len
<1>3. /\ a \in Nat /\ b \in Nat /\ n \in Nat /\ a + n <= len - 1 /\ b + n <= c
      /\ pos + b = at + a
      /\ a + 1 = from /\ a + n = to /\ b + 1 = lo /\ b + n = hi
  BY <1>1, <1>2
<1> HIDE DEF a, b, n
<1>4. a + n <= lengths[l] - 1 /\ pos + b = Start[l] + a
  BY <1>3 DEF at, len
<1>5. SubSeq(q, b + 1, b + n) = SubSeq(Text(l), a + 1, a + n)
  BY <1>3, <1>4, PartOfLine
<1> QED
  BY <1>3, <1>5, Zenon DEF SamePart

\* s is a chunk behind the spillover p: its first line ends the line the chunk
\* starts in, with p in front, the others are those of the stream, and what is
\* left over starts the line the chunk ends in.
IsSplit(s, p, pos, c, d, d2) ==
  /\ d2 - d \in Nat
  /\ WholeLines(s) \in Seq(Seq(Bytes)) /\ Len(WholeLines(s)) = d2 - d
  /\ d < d2 => WholeLines(s)[1] =
                 p \o SubSeq(Text(d + 1), pos - Start[d + 1] + 1, lengths[d + 1] - 1)
  /\ \A m \in 2..(d2 - d) : WholeLines(s)[m] = Text(d + m)
  /\ d = d2 => RaggedEnd(s) = s
  /\ d < d2 /\ d2 < NumLines =>
       RaggedEnd(s) = SubSeq(Text(d2 + 1), 1, pos + c - Start[d2 + 1])

LEMMA ChunkSplit ==
  ASSUME Typed, NEW p, IsPiece(p),
         NEW pos \in Nat, NEW c \in Nat, pos + c <= Total,
         NEW q, IsChunk(q, pos, c),
         NEW d, NEW d2, Ended(d, pos), Ended(d2, pos + c)
  PROVE  IsSplit(p \o q, p, pos, c, d, d2)
<1> USE SplitAssumption
<1> DEFINE s == p \o q
           N == d2 - d
           f == [m \in 1..N |-> Start[d + m + 1] - pos]
           e == [m \in 1..N |-> Len(p) + f[m]]
<1>1. /\ q \in Seq(Bytes) /\ Len(q) = c /\ \A x \in 1..c : q[x] = ByteAt(pos + x)
      /\ p \in Seq(Bytes) /\ Len(p) \in Nat /\ \A i \in 1..Len(p) : ~IsNewline(p[i])
  <2>1. q \in Seq(Bytes) /\ Len(q) = c /\ \A x \in 1..c : q[x] = ByteAt(pos + x)
    BY DEF IsChunk
  <2>2. p \in Seq(Bytes) /\ \A i \in 1..Len(p) : ~IsNewline(p[i])
    BY DEF IsPiece, NoNewline
  <2> QED
    BY <2>1, <2>2
<1>2. /\ N \in Nat
      /\ \A m \in 1..N : d + m \in 1..NumLines /\ f[m] \in 1..c
      /\ \A x \in 1..c : IsNewline(ByteAt(pos + x)) <=> \E m \in 1..N : x = f[m]
  <2>1. /\ N \in Nat
        /\ \A m \in 1..N : d + m \in 1..NumLines /\ Start[d + m + 1] - pos \in 1..c
        /\ \A x \in 1..c : IsNewline(ByteAt(pos + x)) <=>
             \E m \in 1..N : x = Start[d + m + 1] - pos
    BY ChunkNewlines
  <2>2. \A m \in 1..N : f[m] = Start[d + m + 1] - pos
    OBVIOUS
  <2> HIDE DEF f, N
  <2> QED
    BY <2>1, <2>2
<1>3. /\ d \in 0..NumLines /\ Start[d + 1] <= pos /\ (d < NumLines => pos < Start[d + 2])
      /\ d2 \in 0..NumLines /\ Start[d2 + 1] <= pos + c
      /\ (d2 < NumLines => pos + c < Start[d2 + 2])
  BY DEF Ended
<1>4. \A l \in 1..(NumLines + 1) : Start[l] \in Nat
  BY StartProperties
<1>5. \A m \in 1..N : f[m] = Start[d + m + 1] - pos
  OBVIOUS
<1> HIDE DEF f
<1>6. \A i, j \in 1..N : i < j => f[i] < f[j]
  <2>1. ASSUME NEW i \in 1..N, NEW j \in 1..N, i < j
        PROVE  f[i] < f[j]
    <3>1. d + i + 1 \in 1..(NumLines + 1) /\ d + j + 1 \in 1..(NumLines + 1)
          /\ d + i + 1 < d + j + 1
      BY <1>2, <1>3, <2>1, SplitAssumption
    <3>2. Start[d + i + 1] < Start[d + j + 1]
      BY <3>1, StartLess
    <3>3. Start[d + i + 1] \in Nat /\ Start[d + j + 1] \in Nat
      BY <1>4, <3>1
    <3>4. f[i] = Start[d + i + 1] - pos /\ f[j] = Start[d + j + 1] - pos
      BY <1>5
    <3> QED
      BY <3>2, <3>3, <3>4
  <2> QED
    BY <2>1
<1>7. /\ s \in Seq(Bytes) /\ Len(s) = Len(p) + c /\ Len(p) \in Nat
      /\ \A i \in 1..Len(p) : s[i] = p[i]
      /\ \A x \in 1..c : s[Len(p) + x] = ByteAt(pos + x)
  <2>1. p \in Seq(Bytes) /\ q \in Seq(Bytes)
    BY <1>1
  <2>2. /\ s \in Seq(Bytes) /\ Len(s) = Len(p) + Len(q)
        /\ \A i \in 1..(Len(p) + Len(q)) :
             s[i] = IF i <= Len(p) THEN p[i] ELSE q[i - Len(p)]
    BY <2>1, ConcatProperties, Zenon
  <2> HIDE DEF s
  <2>3. \A i \in 1..Len(p) : i \in 1..(Len(p) + Len(q)) /\ i <= Len(p)
    BY <1>1
  <2>4. ASSUME NEW x \in 1..c
        PROVE  s[Len(p) + x] = ByteAt(pos + x)
    <3>1. /\ Len(p) + x \in 1..(Len(p) + Len(q))
          /\ ~(Len(p) + x <= Len(p)) /\ (Len(p) + x) - Len(p) = x
      BY <1>1
    <3>2. s[Len(p) + x] = q[x]
      BY <2>2, <3>1
    <3> QED
      BY <1>1, <3>2
  <2> QED
    BY <1>1, <2>2, <2>3, <2>4
<1> HIDE DEF s
<1>8. e \in [1..N -> 1..Len(s)] /\ \A m \in 1..N : e[m] = Len(p) + f[m]
  BY <1>2, <1>7
<1> HIDE DEF e
<1>9. \A i, j \in 1..N : i < j => e[i] < e[j]
  <2>1. ASSUME NEW i \in 1..N, NEW j \in 1..N, i < j
        PROVE  e[i] < e[j]
    <3>1. f[i] \in 1..c /\ f[j] \in 1..c /\ f[i] < f[j]
      BY <1>2, <1>6, <2>1
    <3>2. e[i] = Len(p) + f[i] /\ e[j] = Len(p) + f[j] /\ Len(p) \in Nat
      BY <1>1, <1>8
    <3> QED
      BY <3>1, <3>2
  <2> QED
    BY <2>1
<1>10. \A i \in 1..Len(s) : IsNewline(s[i]) <=> \E m \in 1..N : e[m] = i
  <2>1. ASSUME NEW i \in 1..Len(s), i <= Len(p)
        PROVE  ~IsNewline(s[i]) /\ ~\E m \in 1..N : e[m] = i
    <3>1. i \in 1..Len(p)
      BY <1>7, <2>1
    <3>2. ~IsNewline(s[i])
      BY <1>1, <1>7, <3>1
    <3>3. ASSUME NEW m \in 1..N
          PROVE  e[m] # i
      <4>1. e[m] = Len(p) + f[m] /\ f[m] \in 1..c
        BY <1>2, <1>8
      <4>2. Len(p) \in Nat /\ i \in Int /\ i <= Len(p)
        BY <1>1, <2>1, <3>1
      <4> QED
        BY <4>1, <4>2
    <3> QED
      BY <3>2, <3>3
  <2>2. ASSUME NEW i \in 1..Len(s), ~(i <= Len(p))
        PROVE  IsNewline(s[i]) <=> \E m \in 1..N : e[m] = i
    <3> DEFINE x == i - Len(p)
    <3>1. x \in 1..c /\ i = Len(p) + x
      BY <1>7, <2>2
    <3> HIDE DEF x
    <3>2. IsNewline(s[i]) <=> \E m \in 1..N : x = f[m]
      BY <1>2, <1>7, <3>1
    <3>3. \A m \in 1..N : e[m] = i <=> x = f[m]
      BY <1>2, <1>7, <1>8, <3>1
    <3> QED
      BY <3>2, <3>3
  <2> QED
    BY <2>1, <2>2
<1>11. /\ WholeLines(s) =
            [m \in 1..N |-> SubSeq(s, (IF m = 1 THEN 0 ELSE e[m - 1]) + 1, e[m] - 1)]
       /\ RaggedEnd(s) = SubSeq(s, (IF N = 0 THEN 0 ELSE e[N]) + 1, Len(s))
  BY <1>2, <1>7, <1>8, <1>9, <1>10, SplitAt
<1>12. d < d2 <=> N # 0
  <2>1. d \in Int /\ d2 \in Int
    BY <1>3
  <2> QED
    BY <1>2, <2>1
<1>13. N # 0 => 1 \in 1..N /\ N \in 1..N
  BY <1>2
<1>14. d + N = d2
  BY <1>3
<1> HIDE DEF N
\* A piece of the chunk in s, and a line of the stream in the chunk.
<1>14a. \A x, y \in Nat : y <= c =>
            /\ SubSeq(s, Len(p) + x + 1, Len(p) + y) = SubSeq(q, x + 1, y)
            /\ SubSeq(s, 1, Len(p) + y) = p \o SubSeq(q, 1, y)
  <2>1. p \in Seq(Bytes) /\ q \in Seq(Bytes) /\ Len(q) = c
    BY <1>1
  <2> QED
    BY <2>1, PieceOfConcat DEF s
<1>14b. ASSUME NEW l \in 1..NumLines, NEW lo \in Nat, NEW hi \in Nat,
              NEW from \in Nat, NEW to \in Nat,
              1 <= lo, hi <= c, 1 <= from, from <= to + 1, to <= lengths[l] - 1,
              pos + lo = Start[l] + from, hi - lo = to - from
       PROVE  SamePart(q, lo, hi, Text(l), from, to)
  BY <1>14b, PieceOfLine
\* The first line.
<1>15. ASSUME N # 0
       PROVE  SubSeq(s, 1, e[1] - 1) =
                p \o SubSeq(Text(d + 1), pos - Start[d + 1] + 1, lengths[d + 1] - 1)
  <2>1. e[1] = Len(p) + f[1] /\ f[1] \in 1..c /\ f[1] = Start[d + 2] - pos /\ d + 1 \in 1..NumLines
    <3>1. f[1] = Start[d + 1 + 1] - pos /\ d + 1 + 1 = d + 2
      BY <1>3, <1>5, <1>13, <1>15
    <3> QED
      BY <1>2, <1>8, <1>13, <1>15, <3>1
  <2>2. /\ Start[d + 2] = Start[d + 1] + lengths[d + 1]
        /\ Start[d + 1] \in Nat /\ lengths[d + 1] \in Nat
    <3>1. d + 1 \in 1..(NumLines + 1) /\ (d + 1) + 1 = d + 2
      BY <1>3, <2>1
    <3> QED
      BY <1>4, <2>1, <3>1, StartProperties, LengthType
  <2> DEFINE b == f[1] - 1
             a == pos - Start[d + 1]
             at == Start[d + 1]
             len == lengths[d + 1]
  <2>3. b \in Nat /\ b <= c /\ a \in Nat /\ a + b = len - 1 /\ pos + 0 = at + a
    <3>1. at <= pos /\ at \in Nat /\ len \in Nat /\ Start[d + 2] = at + len
      BY <1>3, <2>2
    <3>2. f[1] = at + len - pos /\ f[1] \in 1..c
      BY <2>1, <3>1
    <3> HIDE DEF at, len
    <3> QED
      BY <3>1, <3>2 DEF at
  <2>4. e[1] - 1 = Len(p) + b
    BY <1>7, <2>1
  <2> HIDE DEF a, b
  <2>5. SubSeq(s, 1, Len(p) + b) = p \o SubSeq(q, 1, b)
    <3>1. b \in Nat /\ b <= Len(q)
      BY <1>1, <2>3
    <3> QED
      BY <1>1, <1>14a, <3>1
  <2>6. SubSeq(q, 0 + 1, 0 + b) = SubSeq(Text(d + 1), a + 1, a + b)
    <3>1. a + b <= lengths[d + 1] - 1 /\ 0 + b <= c
      BY <2>2, <2>3
    <3>2. pos + 0 = Start[d + 1] + a
      BY <2>3
    <3>3. a \in Nat /\ b \in Nat /\ 0 \in Nat
      BY <2>3
    <3> QED
      <4>1. /\ 0 + 1 \in Nat /\ 1 <= 0 + 1 /\ 0 + b \in Nat /\ 0 + b <= c
            /\ a + 1 \in Nat /\ 1 <= a + 1 /\ a + b \in Nat /\ a + 1 <= (a + b) + 1
            /\ (0 + b) - (0 + 1) = (a + b) - (a + 1)
        BY <3>1, <3>3
      <4>2. pos + (0 + 1) = at + (a + 1) /\ a + b <= lengths[d + 1] - 1
        <5>1. at \in Nat
          BY <2>2
        <5> HIDE DEF at
        <5> QED
          BY <2>3, <3>1, <5>1
      <4>3. SamePart(q, 0 + 1, 0 + b, Text(d + 1), a + 1, a + b)
        BY <1>14b, <2>1, <4>1, <4>2 DEF at
      <4> QED
        BY <4>3, Zenon DEF SamePart
  <2>7. 0 + 1 = 1 /\ 0 + b = b
    BY <2>3
  <2> QED
    BY <2>3, <2>4, <2>5, <2>6, <2>7 DEF a
\* The lines after it.
<1>16. ASSUME NEW m \in 2..N
       PROVE  SubSeq(s, e[m - 1] + 1, e[m] - 1) = Text(d + m)
  <2>1. m \in 1..N /\ m - 1 \in 1..N
    BY <1>2
  <2> DEFINE l == d + m
             b == f[m - 1]
             n == lengths[l] - 1
  <2>2. l \in 1..NumLines /\ l \in 1..(NumLines + 1) /\ d + (m - 1) + 1 = l /\ d + m + 1 = l + 1
    BY <1>2, <1>3, <2>1
  <2> HIDE DEF l
  <2>3. /\ Start[l + 1] = Start[l] + lengths[l] /\ Start[l] \in Nat
        /\ lengths[l] \in Nat /\ 2 <= lengths[l]
    BY <1>4, <2>2, StartProperties, LengthType
  <2>4. b = Start[l] - pos /\ f[m] = Start[l + 1] - pos /\ b \in 1..c /\ f[m] \in 1..c
    BY <1>2, <1>5, <2>1, <2>2
  <2>5. e[m - 1] = Len(p) + b /\ e[m] = Len(p) + f[m]
    BY <1>8, <2>1
  <2> DEFINE at == Start[l]
             len == lengths[l]
  <2>6. /\ n \in Nat /\ b \in Nat /\ b + n <= c
        /\ e[m - 1] + 1 = Len(p) + b + 1 /\ e[m] - 1 = Len(p) + (b + n)
        /\ pos + b = at + 0 /\ 0 + n <= len - 1
    <3>1. at \in Nat /\ len \in Nat /\ 2 <= len /\ n = len - 1
      BY <2>3
    <3>2. b = at - pos /\ f[m] = at + len - pos /\ b \in 1..c /\ f[m] \in 1..c
      BY <2>3, <2>4
    <3> HIDE DEF at, len, b, n
    <3>3. n \in Nat /\ b \in Nat /\ b + n <= c /\ pos + b = at + 0 /\ 0 + n <= len - 1
      BY <3>1, <3>2
    <3>4. f[m] = b + n + 1
      BY <3>1, <3>2
    <3> QED
      BY <1>1, <2>5, <3>3, <3>4 DEF b
  <2>7. b + n \in Nat /\ b + n <= Len(q)
    BY <1>1, <2>6
  <2> HIDE DEF b, n
  <2>8. SubSeq(s, Len(p) + b + 1, Len(p) + (b + n)) = SubSeq(q, b + 1, b + n)
    BY <1>1, <1>14a, <2>6, <2>7
  <2>9. SubSeq(q, b + 1, b + n) = SubSeq(Text(l), 0 + 1, 0 + n)
    <3>1. /\ b + 1 \in Nat /\ 1 <= b + 1 /\ b + n \in Nat /\ b + n <= c
          /\ 0 + 1 \in Nat /\ 1 <= 0 + 1 /\ 0 + n \in Nat /\ 0 + 1 <= (0 + n) + 1
          /\ (b + n) - (b + 1) = (0 + n) - (0 + 1)
      BY <2>6
    <3>2. pos + (b + 1) = at + (0 + 1) /\ 0 + n <= len - 1
      <4>1. at \in Nat
        BY <2>3
      <4> HIDE DEF at, len
      <4> QED
        BY <2>6, <4>1
    <3>3. SamePart(q, b + 1, b + n, Text(l), 0 + 1, 0 + n)
      BY <1>14b, <2>2, <3>1, <3>2 DEF at, len
    <3> QED
      BY <3>3, Zenon DEF SamePart
  <2>10. SubSeq(Text(l), 0 + 1, 0 + n) = Text(l)
    <3>1. Text(l) \in Seq(Bytes) /\ Len(Text(l)) = n
      BY <2>2, TextProperties DEF n
    <3>2. 0 + 1 = 1 /\ 0 + n = Len(Text(l))
      BY <2>6, <3>1
    <3> QED
      BY <3>1, <3>2, SubSeqFull
  <2> QED
    BY <2>6, <2>8, <2>9, <2>10 DEF l
<1>17. /\ WholeLines(s) \in Seq(Seq(Bytes)) /\ Len(WholeLines(s)) = N
       /\ N # 0 => WholeLines(s)[1] = SubSeq(s, 1, e[1] - 1)
       /\ \A m \in 2..N : WholeLines(s)[m] = SubSeq(s, e[m - 1] + 1, e[m] - 1)
  <2> DEFINE lo(m) == (IF m = 1 THEN 0 ELSE e[m - 1]) + 1
  <2>1. ASSUME NEW m \in 1..N
        PROVE  SubSeq(s, lo(m), e[m] - 1) \in Seq(Bytes)
    <3>1. e[m] \in 1..Len(s) /\ (m # 1 => e[m - 1] \in 1..Len(s))
      BY <1>2, <1>8
    <3>2. lo(m) \in 1..(Len(s) + 1) /\ e[m] - 1 \in 0..Len(s)
      BY <1>7, <3>1
    <3> HIDE DEF lo
    <3>3. \A i \in lo(m)..(e[m] - 1) : s[i] \in Bytes
      <4>1. \A i \in lo(m)..(e[m] - 1) : i \in 1..Len(s)
        BY <1>7, <3>2
      <4> QED
        BY <1>7, <4>1, ElementOfSeq
    <3>4. lo(m) \in Int /\ e[m] - 1 \in Int
      BY <1>7, <3>2
    <3> QED
      BY <3>3, <3>4, SubSeqProperties
  <2>2. WholeLines(s) = [m \in 1..N |-> SubSeq(s, lo(m), e[m] - 1)]
    BY <1>11
  <2>3. lo(1) = 1 /\ \A m \in 2..N : lo(m) = e[m - 1] + 1 /\ m \in 1..N
    BY <1>2
  <2> HIDE DEF lo
  <2>4. WholeLines(s) \in Seq(Seq(Bytes)) /\ Len(WholeLines(s)) = N
    BY <1>2, <2>1, <2>2
  <2> QED
    BY <1>13, <2>2, <2>3, <2>4
<1>18. N = 0 => RaggedEnd(s) = s
  <2>1. N = 0 => RaggedEnd(s) = SubSeq(s, 0 + 1, Len(s))
    BY <1>11
  <2> QED
    BY <1>7, <2>1, SubSeqFull
<1>19. ASSUME N # 0, d2 < NumLines
       PROVE  RaggedEnd(s) = SubSeq(Text(d2 + 1), 1, pos + c - Start[d2 + 1])
  <2> DEFINE l == d2 + 1
             b == f[N]
             n == c - b
  <2>1. l \in 1..NumLines /\ l \in 1..(NumLines + 1) /\ d + N + 1 = l /\ d2 + 2 = l + 1
    BY <1>2, <1>3, <1>14, <1>19
  <2> HIDE DEF l
  <2>2. /\ Start[l + 1] = Start[l] + lengths[l] /\ Start[l] \in Nat /\ lengths[l] \in Nat
    BY <1>4, <2>1, StartProperties, LengthType
  <2>3. b = Start[l] - pos /\ b \in 1..c /\ e[N] = Len(p) + b
    BY <1>2, <1>5, <1>8, <1>13, <1>19, <2>1
  <2> DEFINE len == lengths[l]
             at == Start[l]
  <2>4. at <= pos + c /\ pos + c < at + len
    BY <1>3, <1>19, <2>1, <2>2 DEF l
  <2>5. at \in Nat /\ len \in Nat /\ b = at - pos /\ b \in 1..c
    BY <2>2, <2>3
  <2> HIDE DEF b, at, len
  <2>6. n \in Nat /\ b + n = c
    BY <2>5
  <2>7. n = pos + c - at /\ 0 + n <= len - 1 /\ pos + b = at + 0
    BY <2>4, <2>5
  <2>8. RaggedEnd(s) = SubSeq(s, Len(p) + b + 1, Len(p) + c)
    BY <1>7, <1>11, <1>19, <2>3
  <2>9. SubSeq(s, Len(p) + b + 1, Len(p) + c) = SubSeq(q, b + 1, c)
    <3>1. b \in Nat /\ c <= Len(q)
      BY <1>1, <2>5
    <3> QED
      BY <1>1, <1>14a, <3>1
  <2> HIDE DEF n
  <2>10. SubSeq(q, b + 1, b + n) = SubSeq(Text(l), 0 + 1, 0 + n)
    <3>1. b \in Nat /\ b + n <= c /\ 0 \in Nat
      BY <2>5, <2>6
    <3>2. 0 + n <= lengths[l] - 1 /\ pos + b = Start[l] + 0
      BY <2>7 DEF len, at
    <3>3. /\ b + 1 \in Nat /\ 1 <= b + 1 /\ b + n \in Nat
          /\ 0 + 1 \in Nat /\ 1 <= 0 + 1 /\ 0 + n \in Nat /\ 0 + 1 <= (0 + n) + 1
          /\ (b + n) - (b + 1) = (0 + n) - (0 + 1)
      BY <2>6, <3>1
    <3>4. pos + (b + 1) = at + (0 + 1)
      BY <2>5, <2>7
    <3>5. SamePart(q, b + 1, b + n, Text(l), 0 + 1, 0 + n)
      BY <1>14b, <2>1, <3>1, <3>2, <3>3, <3>4 DEF at
    <3> QED
      BY <3>5, Zenon DEF SamePart
  <2>11. 0 + 1 = 1 /\ 0 + n = n
    BY <2>6
  <2> QED
    BY <2>6, <2>7, <2>8, <2>9, <2>10, <2>11 DEF l, at
<1> QED
  <2>1. d = d2 => N = 0
    <3>1. d \in Int /\ d2 \in Int
      BY <1>3
    <3> QED
      BY <3>1 DEF N
  <2>2. N \in Nat /\ WholeLines(s) \in Seq(Seq(Bytes)) /\ Len(WholeLines(s)) = N
    BY <1>2, <1>17
  <2>3. d < d2 => WholeLines(s)[1] =
                    p \o SubSeq(Text(d + 1), pos - Start[d + 1] + 1, lengths[d + 1] - 1)
    BY <1>12, <1>15, <1>17, Zenon
  <2>4. \A m \in 2..N : WholeLines(s)[m] = Text(d + m)
    BY <1>16, <1>17, Zenon
  <2>5. d = d2 => RaggedEnd(s) = s
    BY <1>18, <2>1, Zenon
  <2>6. d < d2 /\ d2 < NumLines =>
          RaggedEnd(s) = SubSeq(Text(d2 + 1), 1, pos + c - Start[d2 + 1])
    BY <1>12, <1>19, Zenon
  <2> QED
    BY <2>2, <2>3, <2>4, <2>5, <2>6, Zenon DEF s, N, IsSplit

\* A chunk ends with a newline if it ends where a line ends.
EndsIn(s, x, d) == IsRagged(s) <=> x # Start[d + 1]

LEMMA ChunkEnd ==
  ASSUME Typed, NEW p, IsPiece(p),
         NEW pos \in Nat, NEW c \in Nat, c # 0, pos + c <= Total,
         NEW q, IsChunk(q, pos, c), NEW d2, Ended(d2, pos + c)
  PROVE  EndsIn(p \o q, pos + c, d2)
<1> USE SplitAssumption
<1>1. p \o q # <<>> /\ Last(p \o q) = ByteAt(pos + c)
  <2>1. p \in Seq(Bytes) /\ q \in Seq(Bytes) /\ Len(q) = c /\ q[c] = ByteAt(pos + c)
    <3>1. c \in 1..c
      OBVIOUS
    <3> QED
      BY <3>1 DEF IsPiece, IsChunk
  <2> DEFINE s == p \o q
  <2>2. /\ s \in Seq(Bytes) /\ Len(s) = Len(p) + Len(q)
        /\ \A i \in 1..(Len(p) + Len(q)) :
             s[i] = IF i <= Len(p) THEN p[i] ELSE q[i - Len(p)]
    BY <2>1, ConcatProperties, Zenon
  <2> HIDE DEF s
  <2>3. Len(p) \in Nat
    BY <2>1
  <2>4. Len(s) \in 1..(Len(p) + Len(q)) /\ ~(Len(s) <= Len(p)) /\ Len(s) - Len(p) = c
    BY <2>1, <2>2, <2>3
  <2>5. s[Len(s)] = q[c] /\ s # <<>>
    BY <2>2, <2>4
  <2> QED
    BY <2>1, <2>5 DEF Last, s
<1>2. pos + c \in 1..Total
  BY StartProperties
<1> DEFINE l == LineOf(pos + c)
<1>3. /\ l \in 1..NumLines /\ Start[l] < pos + c /\ pos + c <= Start[l + 1]
      /\ IsNewline(ByteAt(pos + c)) <=> pos + c = Start[l + 1]
  BY <1>2, LineOfPosition, ByteType
<1> HIDE DEF l
<1>4. /\ d2 \in 0..NumLines /\ Start[d2 + 1] <= pos + c
      /\ (d2 < NumLines => pos + c < Start[d2 + 2])
  BY DEF Ended
<1>5. l + 1 \in 1..(NumLines + 1) /\ l \in 1..(NumLines + 1) /\ d2 + 1 \in 1..(NumLines + 1)
  BY <1>3, <1>4
<1>6. Start[l] \in Nat /\ Start[l + 1] \in Nat /\ Start[d2 + 1] \in Nat
  BY <1>5, StartProperties
<1>7. pos + c = Start[l + 1] => pos + c = Start[d2 + 1]
  <2>1. SUFFICES ASSUME pos + c = Start[l + 1], Start[d2 + 1] # pos + c
                 PROVE  FALSE
    OBVIOUS
  <2>2. Start[d2 + 1] < Start[l + 1]
    BY <1>4, <1>6, <2>1
  <2>3. d2 + 1 < l + 1
    BY <1>5, <1>6, <2>2, StartLess
  <2>4. d2 < NumLines /\ d2 + 2 \in 1..(NumLines + 1) /\ d2 + 2 <= l + 1
    BY <1>3, <1>4, <2>3
  <2>5. Start[d2 + 2] <= Start[l + 1] /\ Start[d2 + 2] \in Nat
    BY <1>5, <2>4, StartLess, StartProperties
  <2> QED
    BY <1>4, <1>6, <2>1, <2>4, <2>5
<1>8. pos + c = Start[d2 + 1] => pos + c = Start[l + 1]
  <2>1. SUFFICES ASSUME pos + c = Start[d2 + 1]
                 PROVE  pos + c = Start[l + 1]
    OBVIOUS
  <2>2. l < d2 + 1
    <3>1. ~(Start[d2 + 1] <= Start[l])
      BY <1>3, <1>6, <2>1
    <3>2. ~(d2 + 1 <= l)
      BY <1>5, <3>1, StartLess
    <3> QED
      BY <1>3, <1>4, <3>2
  <2>3. l + 1 <= d2 + 1
    BY <1>3, <1>4, <2>2
  <2>4. Start[l + 1] <= Start[d2 + 1]
    BY <1>5, <2>3, StartLess
  <2> QED
    BY <1>3, <1>6, <2>1, <2>4
<1> QED
  BY <1>1, <1>3, <1>7, <1>8 DEF IsRagged, EndsIn

\* What is taken from the front of a part of the stream, and what is left.
LEMMA ChunkTaken ==
  ASSUME NEW u, NEW pos \in Nat, NEW m \in Nat, IsChunk(u, pos, m), NEW c \in 0..m
  PROVE  /\ IsChunk(SubSeq(u, 1, c), pos, c)
         /\ IsChunk(SubSeq(u, c + 1, m), pos + c, m - c)
<1>1. u \in Seq(Bytes) /\ Len(u) = m /\ \A x \in 1..m : u[x] = ByteAt(pos + x)
  BY DEF IsChunk
<1>2. \A x \in 1..m : u[x] \in Bytes
  BY <1>1, ElementOfSeq
<1>3. IsChunk(SubSeq(u, 1, c), pos, c)
  <2>1. \A x \in 1..c : x \in 1..m
    OBVIOUS
  <2>2. SubSeq(u, 1, c) \in Seq(Bytes) /\ Len(SubSeq(u, 1, c)) = c
        /\ \A x \in 1..c : SubSeq(u, 1, c)[x] = u[x]
    BY <1>2, <2>1, SubSeqProperties
  <2> QED
    BY <1>1, <2>1, <2>2 DEF IsChunk
<1>4. IsChunk(SubSeq(u, c + 1, m), pos + c, m - c)
  <2> DEFINE t == SubSeq(u, c + 1, m)
  <2>1. \A x \in (c + 1)..m : x \in 1..m
    OBVIOUS
  <2>2. /\ t \in Seq(Bytes) /\ Len(t) = m - c
        /\ \A x \in 1..(m - c) : t[x] = u[c + x]
    BY <1>2, <2>1, SubSeqProperties
  <2> HIDE DEF t
  <2>3. ASSUME NEW x \in 1..(m - c)
        PROVE  t[x] = ByteAt((pos + c) + x)
    <3>1. c + x \in 1..m /\ pos + (c + x) = (pos + c) + x
      OBVIOUS
    <3>2. u[c + x] = ByteAt(pos + (c + x))
      BY <1>1, <3>1
    <3> QED
      BY <2>2, <3>1, <3>2
  <2>4. IsChunk(t, pos + c, m - c)
    BY <2>2, <2>3 DEF IsChunk
  <2> QED
    BY <2>4 DEF t
<1> QED
  BY <1>3, <1>4

-----------------------------------------------------------------------------
(* Pieces and lines.                                                       *)

\* x is the first n bytes of line j, and no newline.
Begins(x, j, n) == n \in 0..(lengths[j] - 1) /\ x = SubSeq(Text(j), 1, n)

\* What event k may be, as NoLineDropped says it.
IsLine(x, k) ==
  \E j \in 1..k : \E n \in 0..Len(Text(j)) : x = SubSeq(Text(j), 1, n) \o Text(k + 1)

LEMMA TextIsPiece ==
  ASSUME Typed, NEW l \in 1..NumLines, NEW a \in Nat, NEW n \in Nat, n <= lengths[l] - 1
  PROVE  IsPiece(SubSeq(Text(l), a + 1, n))
<1>1. /\ Text(l) \in Seq(Bytes) /\ Len(Text(l)) = lengths[l] - 1
      /\ \A k \in 1..(lengths[l] - 1) : Text(l)[k] = <<l, k>>
  BY TextProperties
<1>2. lengths[l] \in Nat
  BY LengthType
<1> HIDE DEF Text
<1>3. \A k \in (a + 1)..n : k \in 1..(lengths[l] - 1)
  BY <1>2
<1>4. \A k \in (a + 1)..n : Text(l)[k] \in Bytes
  BY <1>1, <1>3, ElementOfSeq
<1> DEFINE t == SubSeq(Text(l), a + 1, n)
<1>5. /\ t \in Seq(Bytes) /\ Len(t) = (IF a + 1 <= n THEN n - a ELSE 0)
      /\ \A i \in 1..(n - a) : t[i] = Text(l)[a + i]
  BY <1>4, SubSeqProperties
<1> HIDE DEF t
<1>6. ASSUME NEW i \in 1..Len(t)
      PROVE  ~IsNewline(t[i])
  <2>1. i \in 1..(n - a) /\ a + i \in 1..(lengths[l] - 1)
    BY <1>2, <1>5
  <2>2. t[i] = <<l, a + i>>
    BY <1>1, <1>5, <2>1
  <2>3. a + i # lengths[l]
    BY <1>2, <2>1
  <2> QED
    BY <2>2, <2>3 DEF IsNewline
<1>7. IsPiece(t)
  BY <1>5, <1>6 DEF IsPiece, NoNewline
<1> QED
  BY <1>7 DEF t

LEMMA BeginsPiece ==
  ASSUME Typed, NEW x, NEW j \in 1..NumLines, NEW n, Begins(x, j, n)
  PROVE  IsPiece(x)
<1>1. lengths[j] \in Nat /\ n \in 0..(lengths[j] - 1)
  BY LengthType DEF Begins
<1>2. n \in Nat /\ n <= lengths[j] - 1 /\ 0 \in Nat /\ 0 + 1 = 1
  BY <1>1
<1>3. IsPiece(SubSeq(Text(j), 0 + 1, n))
  BY <1>2, TextIsPiece
<1>4. x = SubSeq(Text(j), 0 + 1, n)
  BY <1>2, Zenon DEF Begins
<1> QED
  BY <1>3, <1>4, Zenon

LEMMA ConcatPieces ==
  ASSUME NEW x, IsPiece(x), NEW y, IsPiece(y)
  PROVE  IsPiece(x \o y)
<1> DEFINE s == x \o y
<1>1. /\ x \in Seq(Bytes) /\ \A i \in 1..Len(x) : ~IsNewline(x[i])
      /\ y \in Seq(Bytes) /\ \A i \in 1..Len(y) : ~IsNewline(y[i])
  BY DEF IsPiece, NoNewline
<1>2. /\ s \in Seq(Bytes) /\ Len(s) = Len(x) + Len(y)
      /\ \A i \in 1..(Len(x) + Len(y)) :
           s[i] = IF i <= Len(x) THEN x[i] ELSE y[i - Len(x)]
  BY <1>1, ConcatProperties, Zenon
<1> HIDE DEF s
<1>3. Len(x) \in Nat /\ Len(y) \in Nat
  BY <1>1
<1>4. ASSUME NEW i \in 1..Len(s)
      PROVE  ~IsNewline(s[i])
  <2>1. i \in 1..(Len(x) + Len(y)) /\ (i <= Len(x) => i \in 1..Len(x))
        /\ (~(i <= Len(x)) => i - Len(x) \in 1..Len(y))
    BY <1>2, <1>3
  <2> QED
    BY <1>1, <1>2, <2>1
<1>5. IsPiece(s)
  BY <1>2, <1>4 DEF IsPiece, NoNewline
<1> QED
  BY <1>5 DEF s

\* The start of a line with the rest of it is the line.
LEMMA Completed ==
  ASSUME Typed, NEW l \in 1..NumLines, NEW x, NEW a \in Nat, Begins(x, l, a)
  PROVE  x \o SubSeq(Text(l), a + 1, lengths[l] - 1) = Text(l)
<1> DEFINE len == lengths[l] - 1
           t == Text(l)
<1>1. t \in Seq(Bytes) /\ Len(t) = len /\ len \in Nat
  BY TextProperties, LengthType
<1>2. x = SubSeq(t, 1, a) /\ a <= len
  BY LengthType DEF Begins
<1> HIDE DEF len, t
<1>3. SubSeq(t, 1, a) \o SubSeq(t, a + 1, len) = SubSeq(t, 1, len)
  <2>1. 1 \in 1..(Len(t) + 1) /\ a \in 1 - 1..Len(t) /\ len \in a..Len(t)
    BY <1>1, <1>2
  <2> QED
    BY <1>1, <2>1, ConcatAdjacentSubSeq
<1>4. SubSeq(t, 1, len) = t
  BY <1>1, SubSeqFull
<1> QED
  BY <1>2, <1>3, <1>4, Zenon DEF len, t

LEMMA WholeLineIsLine ==
  ASSUME Typed, NEW k \in 1..NumLines, k + 1 \in 1..NumLines
  PROVE  IsLine(Text(k + 1), k)
<1>1. 1 \in 1..k /\ 0 \in 0..Len(Text(1))
  <2>1. Len(Text(1)) \in Nat
    BY SplitAssumption, TextProperties, LengthType
  <2> QED
    BY <2>1
<1>2. SubSeq(Text(1), 1, 0) = <<>>
  BY SubSeqEmpty
<1>3. <<>> \o Text(k + 1) = Text(k + 1)
  BY TextProperties, ConcatEmptySeq
<1> QED
  BY <1>1, <1>2, <1>3, Zenon DEF IsLine

LEMMA PieceAndLineIsLine ==
  ASSUME Typed, NEW k \in 1..NumLines, k + 1 \in 1..NumLines,
         NEW x, NEW j \in 1..k, NEW n, Begins(x, j, n)
  PROVE  IsLine(x \o Text(k + 1), k)
<1>1. n \in 0..Len(Text(j)) /\ x = SubSeq(Text(j), 1, n)
  <2>1. j \in 1..NumLines
    BY SplitAssumption
  <2> QED
    BY <2>1, TextProperties, Zenon DEF Begins
<1> QED
  BY <1>1, Zenon DEF IsLine

LEMMA LineIsPiece ==
  ASSUME Typed, NEW k \in 1..NumLines, k + 1 \in 1..NumLines, NEW x, IsLine(x, k)
  PROVE  IsPiece(x)
<1>1. PICK j \in 1..k : \E n \in 0..Len(Text(j)) : x = SubSeq(Text(j), 1, n) \o Text(k + 1)
  BY Zenon DEF IsLine
<1>2. PICK n \in 0..Len(Text(j)) : x = SubSeq(Text(j), 1, n) \o Text(k + 1)
  BY <1>1, Zenon
<1>3. j \in 1..NumLines
  BY SplitAssumption
<1>4. IsPiece(SubSeq(Text(j), 1, n))
  <2>1. Begins(SubSeq(Text(j), 1, n), j, n)
    BY <1>3, TextProperties, Zenon DEF Begins
  <2> QED
    BY <1>3, <2>1, BeginsPiece
<1>5. IsPiece(Text(k + 1))
  <2> DEFINE l == k + 1
  <2>1. l \in 1..NumLines /\ Text(l) \in Seq(Bytes) /\ Len(Text(l)) = lengths[l] - 1
    BY TextProperties
  <2>2. lengths[l] \in Nat /\ 2 <= lengths[l]
    BY LengthType
  <2> HIDE DEF l
  <2>3. Text(l) = SubSeq(Text(l), 1, lengths[l] - 1)
    BY <2>1, SubSeqFull
  <2>4. Begins(Text(l), l, lengths[l] - 1)
    <3>1. lengths[l] - 1 \in 0..(lengths[l] - 1)
      BY <2>2
    <3> QED
      BY <2>3, <3>1, Zenon DEF Begins
  <2>5. IsPiece(Text(l))
    BY <2>1, <2>4, BeginsPiece
  <2> QED
    BY <2>5 DEF l
<1> QED
  BY <1>2, <1>4, <1>5, ConcatPieces, Zenon

-----------------------------------------------------------------------------
(* The invariant.                                                          *)

\* The spillover x at position pos: inside a line, the bytes of that line that
\* were read; at the end of one, a piece of some line that has ended.
LeftOver(x, pos, d) ==
  \E j \in 1..NumLines : \E n \in Nat :
    /\ Begins(x, j, n)
    /\ pos > Start[d + 1] => j = d + 1 /\ n = pos - Start[d + 1]
    /\ pos = Start[d + 1] => j <= d \/ (d = 0 /\ j = 1)

\* What is left unread is the rest of the stream, d lines of it were read, and
\* one event was split off for each of them but the header.
Reached(u, x, buf, first, d) ==
  /\ Len(u) \in 0..Total /\ IsChunk(u, Total - Len(u), Len(u))
  /\ Ended(d, Total - Len(u))
  /\ LeftOver(x, Total - Len(u), d)
  /\ buf \in Seq(Seq(Bytes)) /\ Len(buf) = IF first THEN 0 ELSE d - 1
  /\ \A k \in 1..Len(buf) : IsLine(buf[k], k)
  /\ IF first THEN Len(u) = Total ELSE d >= 1

Inductive ==
  /\ Typed /\ firstGo \in BOOLEAN /\ stopped \in BOOLEAN
  /\ \E d \in 0..NumLines : Reached(unread, spillover, evtBuf, firstGo, d)

LEMMA InitInductive ==
  Init => Inductive
<1> USE SplitAssumption
<1> SUFFICES ASSUME Init PROVE Inductive
  OBVIOUS
<1>1. /\ Typed /\ spillover = <<>> /\ evtBuf = <<>> /\ firstGo = TRUE /\ stopped = FALSE
      /\ unread = FlattenSeq([l \in 1..NumLines |-> Line(l)])
  BY DEF Init, Typed
<1>2. unread = Stream
  BY <1>1, FlattenIsStream
<1>3. /\ Stream \in Seq(Bytes) /\ Len(Stream) = Total /\ Total \in Nat
      /\ \A x \in 1..Total : Stream[x] = ByteAt(x)
  BY <1>1, StreamProperties
<1>4. IsChunk(unread, Total - Len(unread), Len(unread)) /\ Len(unread) = Total
  <2>1. Total - Len(unread) = 0 /\ Len(unread) = Total
    BY <1>2, <1>3
  <2>2. \A x \in 1..Total : 0 + x = x
    BY <1>3
  <2>3. IsChunk(Stream, 0, Total)
    BY <1>3, <2>2 DEF IsChunk
  <2> QED
    BY <1>2, <2>1, <2>3, Zenon
<1>5. Ended(0, 0) /\ Start[0 + 1] = 0
  <2>1. 1 \in 1..NumLines /\ 1 + 1 = 0 + 2
    OBVIOUS
  <2>2. Start[1] = 0 /\ Start[1 + 1] = 0 + lengths[1] /\ lengths[1] \in Nat /\ 2 <= lengths[1]
    BY <1>1, <2>1, StartProperties, LengthType
  <2> QED
    BY <2>1, <2>2 DEF Ended
<1>6. LeftOver(spillover, 0, 0)
  <2>1. 1 \in 1..NumLines
    OBVIOUS
  <2>2. 0 \in 0..(lengths[1] - 1)
    BY <1>1, <2>1, LengthType
  <2>3. SubSeq(Text(1), 1, 0) = <<>>
    BY SubSeqEmpty
  <2>4. Begins(spillover, 1, 0)
    BY <1>1, <2>2, <2>3, Zenon DEF Begins
  <2> QED
    BY <1>5, <2>1, <2>4 DEF LeftOver
<1>7. Reached(unread, spillover, evtBuf, firstGo, 0)
  <2>1. Total - Len(unread) = 0 /\ Len(unread) \in 0..Total
    BY <1>3, <1>4
  <2>2. evtBuf \in Seq(Seq(Bytes)) /\ Len(evtBuf) = 0 /\ \A k \in 1..Len(evtBuf) : FALSE
    BY <1>1
  <2> QED
    BY <1>1, <1>4, <1>5, <1>6, <2>1, <2>2 DEF Reached
<1> QED
  BY <1>1, <1>7, 0 \in 0..NumLines DEF Inductive

\* ChunkSize and Chunk of what is unread, and the chunk with the spillover.
Size(u) == IF Len(u) < ByteBufSize THEN Len(u) ELSE ByteBufSize
Taken(u) == SubSeq(u, 1, Size(u))
Behind(x, u) == x \o Taken(u)

\* A turn that reads something: where the chunk ends, the next lines are split
\* off and the piece that is left over starts the line the chunk ends in.
LEMMA TurnStep ==
  ASSUME Typed, NEW u, NEW x, NEW buf, NEW first \in BOOLEAN, NEW d,
         Reached(u, x, buf, first, d), u # <<>>
  PROVE  \E d2 \in 0..NumLines :
           Reached(SubSeq(u, Size(u) + 1, Len(u)),
                   IF IsRagged(Behind(x, u)) THEN RaggedEnd(Behind(x, u)) ELSE x,
                   buf \o IF first THEN Tail(WholeLines(Behind(x, u)))
                                   ELSE WholeLines(Behind(x, u)),
                   FALSE, d2)
<1> USE SplitAssumption
<1> DEFINE len == Len(u)
           pos == Total - len
           c == Size(u)
           q == Taken(u)
           s == Behind(x, u)
           rest == SubSeq(u, c + 1, len)
           W == WholeLines(s)
<1>1. /\ len \in Nat /\ len <= Total /\ Total \in Nat /\ pos \in Nat /\ IsChunk(u, pos, len)
      /\ Ended(d, pos) /\ LeftOver(x, pos, d)
      /\ buf \in Seq(Seq(Bytes)) /\ Len(buf) = (IF first THEN 0 ELSE d - 1)
      /\ \A k \in 1..Len(buf) : IsLine(buf[k], k)
      /\ IF first THEN pos = 0 ELSE d >= 1
  BY StartProperties DEF Reached
<1>2. len # 0
  BY <1>1, EmptySeq DEF IsChunk
<1> HIDE DEF pos
<1>3. pos + len = Total
  BY <1>1 DEF pos
<1> HIDE DEF len
<1>4. c \in 0..len /\ c \in Nat /\ c # 0 /\ pos + c <= Total /\ (c = len \/ c = ByteBufSize)
  <2>1. 1 \in 1..NumLines
    OBVIOUS
  <2>2. ByteBufSize \in Nat /\ ByteBufSize # 0
    BY <2>1, LengthType
  <2> QED
    BY <1>1, <1>2, <1>3, <2>2 DEF len, Size
<1>5. IsChunk(q, pos, c) /\ IsChunk(rest, pos + c, len - c)
  <2>1. q = SubSeq(u, 1, c)
    BY DEF Taken
  <2> HIDE DEF q, c
  <2>2. IsChunk(SubSeq(u, 1, c), pos, c) /\ IsChunk(SubSeq(u, c + 1, len), pos + c, len - c)
    BY <1>1, <1>4, ChunkTaken
  <2> QED
    BY <2>1, <2>2, Zenon
<1>5a. s = x \o q
  BY DEF Behind
<1> HIDE DEF rest, c, q, s
<1>6. Len(rest) = len - c /\ Total - Len(rest) = pos + c /\ Len(rest) \in 0..Total
  <2>1. Len(rest) = len - c
    BY <1>5 DEF IsChunk
  <2>2. len \in Nat /\ Total \in Nat /\ len <= Total /\ pos \in Nat
    BY <1>1
  <2>3. len - c \in 0..Total /\ Total - (len - c) = pos + c
    BY <1>3, <1>4, <2>2
  <2> QED
    BY <2>1, <2>3
<1>7. PICK d2 \in 0..NumLines : Ended(d2, pos + c)
  <2>1. pos + c \in 0..Total
    BY <1>1, <1>4
  <2> QED
    BY <2>1, LineAt DEF Ended
<1>8. /\ d \in 0..NumLines /\ Start[d + 1] <= pos /\ (d < NumLines => pos < Start[d + 2])
      /\ Start[d2 + 1] <= pos + c /\ (d2 < NumLines => pos + c < Start[d2 + 2])
  BY <1>1, <1>7 DEF Ended
<1>9. /\ \A l \in 1..(NumLines + 1) : Start[l] \in Nat
      /\ d + 1 \in 1..(NumLines + 1) /\ d2 + 1 \in 1..(NumLines + 1)
  BY <1>8, StartProperties
\* The chunk ends a line: it is as long as a line can be, or the last one.
<1>10. d < d2
  <2>1. d < NumLines
    <3>1. pos < Total /\ Total = Start[NumLines + 1]
      BY <1>1, <1>2, <1>3 DEF Total
    <3> QED
      BY <1>1, <1>8, <1>9, <3>1
  <2>2. d + 1 \in 1..NumLines /\ (d + 1) + 1 = d + 2 /\ d + 2 \in 1..(NumLines + 1)
    BY <1>8, <2>1
  <2>3. Start[d + 2] = Start[d + 1] + lengths[d + 1] /\ lengths[d + 1] <= ByteBufSize
        /\ lengths[d + 1] \in Nat /\ Start[d + 2] \in Nat
    BY <1>9, <2>2, StartProperties, LengthType
  <2>4. SUFFICES ASSUME ~(d < d2) PROVE FALSE
    OBVIOUS
  <2>5. d2 < NumLines /\ d2 + 2 <= d + 2 /\ d2 + 2 \in 1..(NumLines + 1)
    BY <1>8, <2>1, <2>4
  <2>6. Start[d2 + 2] <= Start[d + 2] /\ Start[d2 + 2] \in Nat
    BY <1>9, <2>2, <2>5, StartLess
  <2>7. pos + c < Start[d + 2]
    BY <1>1, <1>4, <1>8, <2>3, <2>5, <2>6
  <2>8. CASE c = ByteBufSize
    <3>1. pos \in Nat /\ Start[d + 1] \in Nat /\ Start[d + 1] <= pos
      BY <1>1, <1>8, <1>9
    <3>2. Start[d + 2] <= Start[d + 1] + c /\ pos + c < Start[d + 2]
      BY <1>4, <2>3, <2>7, <2>8, <3>1
    <3> QED
      BY <1>4, <2>3, <3>1, <3>2
  <2>9. CASE c = len
    <3>1. Start[d + 2] <= Total
      <4>1. NumLines + 1 \in 1..(NumLines + 1) /\ d + 2 <= NumLines + 1
        BY <2>2
      <4> QED
        BY <2>2, <4>1, StartLess DEF Total
    <3> QED
      BY <1>1, <1>3, <2>3, <2>7, <2>9, <3>1
  <2> QED
    BY <1>4, <2>8, <2>9
<1>11. PICK j \in 1..NumLines, n \in Nat :
         /\ Begins(x, j, n)
         /\ pos > Start[d + 1] => j = d + 1 /\ n = pos - Start[d + 1]
         /\ pos = Start[d + 1] => j <= d \/ (d = 0 /\ j = 1)
  BY <1>1 DEF LeftOver
<1>12. IsPiece(x)
  BY <1>11, BeginsPiece
<1>13. /\ d2 - d \in Nat /\ W \in Seq(Seq(Bytes)) /\ Len(W) = d2 - d
       /\ W[1] = x \o SubSeq(Text(d + 1), pos - Start[d + 1] + 1, lengths[d + 1] - 1)
       /\ \A m \in 2..(d2 - d) : W[m] = Text(d + m)
       /\ d2 < NumLines => RaggedEnd(s) = SubSeq(Text(d2 + 1), 1, pos + c - Start[d2 + 1])
  <2>1. IsChunk(q, pos, c) /\ Ended(d, pos) /\ Ended(d2, pos + c) /\ pos + c <= Total
        /\ pos \in Nat /\ c \in Nat
    BY <1>1, <1>4, <1>5, <1>7
  <2> HIDE DEF W
  <2> QED
    <3>1. IsSplit(s, x, pos, c, d, d2)
      <4>1. IsSplit(x \o q, x, pos, c, d, d2)
        BY <1>12, <2>1, ChunkSplit
      <4> QED
        BY <1>5a, <4>1, Zenon
    <3> QED
      BY <1>10, <3>1, Zenon DEF W, IsSplit
<1> HIDE DEF W
<1>14. IsRagged(s) <=> pos + c # Start[d2 + 1]
  <2>1. EndsIn(x \o q, pos + c, d2)
    <3>1. pos \in Nat /\ c \in Nat /\ c # 0 /\ pos + c <= Total
      BY <1>1, <1>4
    <3>2. IsChunk(q, pos, c) /\ Ended(d2, pos + c)
      BY <1>5, <1>7
    <3> QED
      BY <1>12, <3>1, <3>2, ChunkEnd
  <2> QED
    BY <1>5a, <2>1, Zenon DEF EndsIn
<1> DEFINE x2 == IF IsRagged(s) THEN RaggedEnd(s) ELSE x
           tail == IF first THEN Tail(W) ELSE W
           buf2 == buf \o tail
<1>15. LeftOver(x2, pos + c, d2)
  <2>1. CASE pos + c # Start[d2 + 1]
    <3> DEFINE l == d2 + 1
               m == pos + c - Start[l]
    <3>1. pos + c > Start[l] /\ pos + c \in Nat /\ Start[l] \in Nat
      <4>1. pos \in Nat /\ c \in Nat
        BY <1>1, <1>4
      <4>2. Start[l] \in Nat /\ Start[l] <= pos + c /\ pos + c # Start[l]
        BY <1>8, <1>9, <2>1, Zenon
      <4> HIDE DEF l
      <4> QED
        BY <4>1, <4>2
    <3>2. d2 < NumLines
      <4>1. d2 = NumLines => Start[l] = Total
        BY DEF Total
      <4> QED
        BY <1>1, <1>4, <3>1, <4>1
    <3>3. l \in 1..NumLines /\ l + 1 = d2 + 2
      BY <3>2
    <3> HIDE DEF l
    <3>4. Start[l + 1] = Start[l] + lengths[l] /\ lengths[l] \in Nat /\ pos + c < Start[l + 1]
      BY <1>8, <3>2, <3>3, StartProperties, LengthType
    <3>5. m \in Nat /\ m \in 0..(lengths[l] - 1)
      <4> DEFINE at == Start[l]
                 size == lengths[l]
      <4>1. /\ pos + c > at /\ pos + c \in Nat /\ at \in Nat /\ size \in Nat
            /\ pos + c < at + size /\ m = pos + c - at
        BY <3>1, <3>4
      <4>2. pos \in Nat /\ c \in Nat
        BY <1>1, <1>4
      <4> HIDE DEF at, size, m
      <4>3. m \in Nat /\ m \in 0..(size - 1)
        BY <4>1, <4>2
      <4> QED
        BY <4>3 DEF size
    <3>6. x2 = SubSeq(Text(l), 1, m)
      <4>1. RaggedEnd(s) = SubSeq(Text(d2 + 1), 1, pos + c - Start[d2 + 1])
        BY <1>13, <3>2, Zenon
      <4>2. x2 = RaggedEnd(s)
        BY <1>14, <2>1
      <4> QED
        BY <4>1, <4>2, Zenon DEF l
    <3> HIDE DEF x2
    <3>7. Begins(x2, l, m)
      BY <3>5, <3>6, Zenon DEF Begins
    <3>8. pos + c # Start[d2 + 1] /\ l = d2 + 1 /\ m = pos + c - Start[d2 + 1]
      BY <2>1 DEF l
    <3> HIDE DEF m, l
    <3>9. \E j2 \in 1..NumLines : \E n2 \in Nat :
            /\ Begins(x2, j2, n2)
            /\ pos + c > Start[d2 + 1] => j2 = d2 + 1 /\ n2 = (pos + c) - Start[d2 + 1]
            /\ pos + c = Start[d2 + 1] => j2 <= d2 \/ (d2 = 0 /\ j2 = 1)
      <4>1. /\ Begins(x2, l, m)
            /\ pos + c > Start[d2 + 1] => l = d2 + 1 /\ m = (pos + c) - Start[d2 + 1]
            /\ pos + c = Start[d2 + 1] => l <= d2 \/ (d2 = 0 /\ l = 1)
        <5>1. l = d2 + 1 /\ m = (pos + c) - Start[d2 + 1] /\ ~(pos + c = Start[d2 + 1])
          <6>1. Start[d2 + 1] \in Nat /\ pos \in Nat /\ c \in Nat
            BY <1>1, <1>4, <1>9
          <6> QED
            BY <3>8, <6>1
        <5> QED
          BY <3>7, <5>1, Zenon
      <4> QED
        BY <3>3, <3>5, <4>1, Zenon
    <3> QED
      BY <3>9, Zenon DEF LeftOver
  <2>2. CASE pos + c = Start[d2 + 1]
    <3>1. x2 = x
      BY <1>14, <2>2
    <3> HIDE DEF x2
    <3>2. j <= d2
      <4>1. pos > Start[d + 1] \/ pos = Start[d + 1]
        BY <1>1, <1>8, <1>9
      <4> QED
        BY <1>8, <1>10, <1>11, <4>1
    <3>3. ~(pos + c > Start[d2 + 1])
      BY <1>9, <2>2
    <3> QED
      BY <1>11, <3>1, <3>2, <3>3 DEF LeftOver
  <2> QED
    BY <2>1, <2>2
<1>16. ASSUME NEW m \in 1..(d2 - d), d + m >= 2
       PROVE  IsLine(W[m], d + m - 1)
  <2> DEFINE k == d + m - 1
  <2>1. k \in 1..NumLines /\ k + 1 = d + m /\ k + 1 \in 1..NumLines
    BY <1>8, <1>13, <1>16
  <2>2. CASE m # 1
    <3>1. W[m] = Text(k + 1)
      <4>1. m \in 2..(d2 - d)
        BY <1>13, <2>2
      <4> HIDE DEF k
      <4>2. W[m] = Text(d + m)
        BY <1>13, <4>1, Zenon
      <4> QED
        BY <2>1, <4>2, Zenon
    <3> HIDE DEF k
    <3>2. IsLine(Text(k + 1), k)
      BY <2>1, WholeLineIsLine
    <3>3. IsLine(W[m], k)
      BY <3>1, <3>2, Zenon
    <3> QED
      BY <3>3 DEF k
  <2>3. CASE m = 1
    <3>1. k = d /\ d \in 1..NumLines /\ d + 1 \in 1..NumLines
      BY <1>8, <2>1, <2>3
    <3> DEFINE a == pos - Start[d + 1]
               y == SubSeq(Text(d + 1), a + 1, lengths[d + 1] - 1)
    <3>2. W[m] = x \o y
      BY <1>13, <2>3, Zenon
    <3> HIDE DEF y
    <3>3. CASE pos > Start[d + 1]
      <4>1. j = d + 1 /\ n = a
        BY <1>11, <3>3
      <4>2. Begins(x, d + 1, a) /\ a \in Nat
        BY <1>11, <4>1
      <4> HIDE DEF a
      <4>3. x \o SubSeq(Text(d + 1), a + 1, lengths[d + 1] - 1) = Text(d + 1)
        BY <3>1, <4>2, Completed
      <4>4. W[m] = Text(d + 1)
        BY <3>2, <4>3, Zenon DEF y
      <4>5. IsLine(Text(d + 1), d)
        BY <3>1, WholeLineIsLine
      <4> QED
        BY <3>1, <4>4, <4>5, Zenon
    <3>4. CASE pos = Start[d + 1]
      <4>1. a = 0 /\ a + 1 = 1
        BY <1>1, <3>4
      <4> DEFINE l == d + 1
      <4>2. l \in 1..NumLines
        BY <3>1
      <4>3. y = SubSeq(Text(l), 1, lengths[l] - 1)
        BY <4>1, Zenon DEF y
      <4> HIDE DEF l
      <4>4. Text(l) \in Seq(Bytes) /\ Len(Text(l)) = lengths[l] - 1
        BY <4>2, TextProperties
      <4>5. SubSeq(Text(l), 1, lengths[l] - 1) = Text(l)
        BY <4>4, SubSeqFull
      <4>6. y = Text(d + 1)
        BY <4>3, <4>5, Zenon DEF l
      <4>7. j \in 1..d
        BY <1>11, <3>1, <3>4
      <4>8. IsLine(x \o Text(d + 1), d)
        BY <1>11, <3>1, <4>7, PieceAndLineIsLine
      <4> QED
        BY <3>1, <3>2, <4>6, <4>8, Zenon
    <3>5. pos > Start[d + 1] \/ pos = Start[d + 1]
      BY <1>1, <1>8, <1>9
    <3> QED
      BY <3>3, <3>4, <3>5
  <2> QED
    BY <2>2, <2>3
<1>17. /\ buf2 \in Seq(Seq(Bytes)) /\ Len(buf2) = d2 - 1
       /\ \A k \in 1..Len(buf2) : IsLine(buf2[k], k)
  <2>0. d \in Int /\ d2 \in Int /\ d >= 0
    BY <1>8
  <2>1. CASE first
    <3>1. d = 0
      <4>1. pos = 0 /\ Start[1] = 0 /\ 1 \in 1..(NumLines + 1)
        BY <1>1, <2>1, StartProperties
      <4>2. d # 0 => Start[1] < Start[d + 1]
        BY <1>8, <1>9, <4>1, StartLess
      <4> QED
        BY <1>8, <1>9, <4>1, <4>2
    <3>2. W # <<>>
      BY <1>10, <1>13, <2>0
    <3>3. /\ Tail(W) \in Seq(Seq(Bytes)) /\ Len(Tail(W)) = Len(W) - 1
          /\ \A k \in 1..Len(Tail(W)) : Tail(W)[k] = W[k + 1]
      BY <1>13, <3>2, HeadTailProperties
    <3>4. buf2 = Tail(W)
      <4>1. buf = <<>>
        BY <1>1, <2>1, EmptySeq
      <4>2. <<>> \o Tail(W) = Tail(W)
        BY <3>3, ConcatEmptySeq
      <4> QED
        BY <2>1, <4>1, <4>2, Zenon
    <3> HIDE DEF buf2, tail
    <3>5. Len(buf2) = d2 - 1
      BY <1>13, <2>0, <3>1, <3>3, <3>4
    <3>6. ASSUME NEW k \in 1..Len(buf2)
          PROVE  IsLine(buf2[k], k)
      <4> DEFINE m == k + 1
      <4>1. m \in 1..(d2 - d) /\ d + m >= 2 /\ d + m - 1 = k
        BY <2>0, <3>1, <3>5
      <4>2. buf2[k] = W[m]
        BY <3>3, <3>4
      <4> HIDE DEF m
      <4>3. IsLine(W[m], d + m - 1)
        BY <1>16, <4>1
      <4> QED
        BY <4>1, <4>2, <4>3, Zenon
    <3> QED
      BY <3>3, <3>4, <3>5, <3>6
  <2>2. CASE ~first
    <3>1. d >= 1 /\ Len(buf) = d - 1
      BY <1>1, <2>2
    <3>2. buf2 = buf \o W
      BY <2>2
    <3>3. /\ buf2 \in Seq(Seq(Bytes)) /\ Len(buf2) = Len(buf) + Len(W)
          /\ \A k \in 1..(Len(buf) + Len(W)) :
               buf2[k] = IF k <= Len(buf) THEN buf[k] ELSE W[k - Len(buf)]
      <4>1. buf \in Seq(Seq(Bytes)) /\ W \in Seq(Seq(Bytes))
        BY <1>1, <1>13
      <4> QED
        BY <3>2, <4>1, ConcatProperties, Zenon
    <3> HIDE DEF buf2, tail
    <3>4. Len(buf2) = d2 - 1
      BY <1>13, <2>0, <3>1, <3>3
    <3>5. ASSUME NEW k \in 1..Len(buf2)
          PROVE  IsLine(buf2[k], k)
      <4>1. CASE k <= Len(buf)
        <5>1. k \in 1..Len(buf) /\ k \in 1..(Len(buf) + Len(W))
          BY <2>0, <3>1, <3>3, <4>1
        <5>2. buf2[k] = buf[k]
          BY <3>3, <4>1, <5>1
        <5> QED
          BY <1>1, <5>1, <5>2
      <4>2. CASE ~(k <= Len(buf))
        <5> DEFINE m == k - Len(buf)
        <5>1. m \in 1..(d2 - d) /\ d + m >= 2 /\ d + m - 1 = k
          BY <2>0, <3>1, <3>4, <4>2
        <5>2. buf2[k] = W[m]
          BY <3>3, <4>2
        <5> HIDE DEF m
        <5>3. IsLine(W[m], d + m - 1)
          BY <1>16, <5>1
        <5> QED
          BY <5>1, <5>2, <5>3, Zenon
      <4> QED
        BY <4>1, <4>2
    <3> QED
      BY <3>3, <3>4, <3>5
  <2> QED
    BY <2>1, <2>2
<1> HIDE DEF x2, buf2, tail
<1>18. d2 >= 1
  BY <1>8, <1>10
<1>19. IsChunk(rest, Total - Len(rest), Len(rest)) /\ Ended(d2, Total - Len(rest))
       /\ LeftOver(x2, Total - Len(rest), d2)
  BY <1>5, <1>6, <1>7, <1>15, Zenon
<1>20. Reached(rest, x2, buf2, FALSE, d2)
  BY <1>6, <1>17, <1>18, <1>19 DEF Reached
<1> QED
  BY <1>7, <1>20, Zenon DEF rest, x2, buf2, tail, W, s, c, len

\* With the lines as they are, the invariant says the same of the same values.
LEMMA SameStream ==
  ASSUME lengths' = lengths
  PROVE  \A u, x, buf, first, d : Reached(u, x, buf, first, d)' <=> Reached(u, x, buf, first, d)
<1>1. \A n : Starts(n)' = Starts(n)
  BY DEF Starts
<1>2. Start' = Start /\ Total' = Total
  BY <1>1 DEF Start, Total
<1>3. \A l : Text(l)' = Text(l)
  BY DEF Text
<1>4. \A x : LineOf(x)' = LineOf(x)
  BY <1>2 DEF LineOf
<1>5. \A x : ByteAt(x)' = ByteAt(x)
  BY <1>2, <1>4 DEF ByteAt
<1>6. \A q, pos, c : IsChunk(q, pos, c)' <=> IsChunk(q, pos, c)
  BY <1>5 DEF IsChunk, Bytes
<1>7. \A d, x : Ended(d, x)' <=> Ended(d, x)
  BY <1>2 DEF Ended
<1>8. \A x, j, n : Begins(x, j, n)' <=> Begins(x, j, n)
  BY <1>3, Zenon DEF Begins
<1>9. \A x, pos, d : LeftOver(x, pos, d)' <=> LeftOver(x, pos, d)
  <2> HIDE DEF Begins, Start
  <2> QED
    BY <1>2, <1>8 DEF LeftOver
<1>10. \A x, k : IsLine(x, k)' <=> IsLine(x, k)
  BY <1>3, Zenon DEF IsLine
<1> QED
  <2> TAKE u, x, buf, first, d
  <2>1. IsChunk(u, Total - Len(u), Len(u))' <=> IsChunk(u, Total - Len(u), Len(u))
    BY <1>2, <1>6
  <2>2. Ended(d, Total - Len(u))' <=> Ended(d, Total - Len(u))
    BY <1>2, <1>7
  <2>3. LeftOver(x, Total - Len(u), d)' <=> LeftOver(x, Total - Len(u), d)
    BY <1>2, <1>9
  <2> QED
    BY <1>2, <1>10, <2>1, <2>2, <2>3 DEF Reached, Bytes

\* At the end of the stream a turn changes nothing.
LEMMA EndStep ==
  ASSUME Typed, NEW u, NEW x, NEW buf, NEW first \in BOOLEAN, NEW d,
         Reached(u, x, buf, first, d), u = <<>>
  PROVE  /\ ~first /\ SubSeq(u, Size(u) + 1, Len(u)) = u
         /\ Behind(x, u) = x /\ RaggedEnd(x) = x
         /\ buf \o WholeLines(x) = buf
<1> USE SplitAssumption
<1>1. /\ Total \in Nat /\ Len(u) = 0 /\ Total - Len(u) = Total /\ Total # 0
  <2>1. 1 \in 1..(NumLines + 1) /\ NumLines + 1 \in 1..(NumLines + 1) /\ 1 < NumLines + 1
    OBVIOUS
  <2>2. Start[1] < Total /\ Start[1] \in Nat /\ Total \in Nat
    BY <2>1, StartLess, StartProperties DEF Total
  <2> QED
    BY <2>2
<1>2. /\ IsChunk(u, Total, 0) /\ Ended(d, Total) /\ LeftOver(x, Total, d)
      /\ buf \in Seq(Seq(Bytes)) /\ (first => Len(u) = Total)
  <2>1. /\ IsChunk(u, Total - Len(u), Len(u)) /\ Ended(d, Total - Len(u))
        /\ LeftOver(x, Total - Len(u), d)
        /\ buf \in Seq(Seq(Bytes)) /\ (first => Len(u) = Total)
    BY Zenon DEF Reached
  <2> QED
    BY <1>1, <2>1, Zenon
<1>3. PICK j \in 1..NumLines : \E n \in Nat : Begins(x, j, n)
  BY <1>2 DEF LeftOver
<1>4. IsPiece(x) /\ x \in Seq(Bytes)
  BY <1>3, BeginsPiece DEF IsPiece
<1>5. ByteBufSize \in Nat /\ ByteBufSize # 0
  <2>1. 1 \in 1..NumLines
    OBVIOUS
  <2> QED
    BY <2>1, LengthType
<1>6. Size(u) = 0
  BY <1>1, <1>5 DEF Size
<1>7. SubSeq(u, Size(u) + 1, Len(u)) = u /\ Taken(u) = <<>>
  <2>1. SubSeq(u, 1, 0) = <<>>
    BY SubSeqEmpty
  <2>2. Size(u) + 1 = 1
    BY <1>6
  <2> QED
    BY <1>1, <1>6, <2>1, <2>2, Zenon DEF Taken
<1>8. Behind(x, u) = x /\ x \o u = x
  <2>1. x \o <<>> = x
    BY <1>4, ConcatEmptySeq
  <2> QED
    BY <1>7, <2>1, Zenon DEF Behind
<1>9. IsSplit(x, x, Total, 0, d, d)
  <2>1. Total + 0 = Total /\ Total + 0 <= Total /\ 0 \in Nat
    BY <1>1
  <2>2. Ended(d, Total + 0)
    BY <1>2, <2>1, Zenon
  <2>3. IsSplit(x \o u, x, Total, 0, d, d)
    BY <1>1, <1>2, <1>4, <2>1, <2>2, ChunkSplit
  <2> QED
    BY <1>8, <2>3, Zenon
<1>10. RaggedEnd(x) = x /\ Len(WholeLines(x)) = 0 /\ WholeLines(x) \in Seq(Seq(Bytes))
  <2>1. d - d = 0
    BY <1>2 DEF Ended
  <2> QED
    BY <1>9, <2>1, Zenon DEF IsSplit
<1>11. WholeLines(x) = <<>>
  BY <1>10, EmptySeq
<1>12. buf \o <<>> = buf
  BY <1>2, ConcatEmptySeq
<1> QED
  BY <1>1, <1>2, <1>7, <1>8, <1>10, <1>11, <1>12, Zenon

LEMMA NextInductive ==
  Inductive /\ [Next]_vars => Inductive'
<1> SUFFICES ASSUME Inductive, [Next]_vars PROVE Inductive'
  OBVIOUS
<1>1. Typed /\ firstGo \in BOOLEAN /\ stopped \in BOOLEAN
  BY DEF Inductive
<1>2. PICK d \in 0..NumLines : Reached(unread, spillover, evtBuf, firstGo, d)
  BY DEF Inductive
<1>3. CASE Turn
  <2> DEFINE s == Behind(spillover, unread)
  <2>1. /\ lengths' = lengths /\ stopped' = stopped /\ firstGo' = FALSE
        /\ unread' = SubSeq(unread, Size(unread) + 1, Len(unread))
        /\ spillover' = IF IsRagged(s) THEN RaggedEnd(s) ELSE spillover
        /\ evtBuf' = evtBuf \o IF firstGo THEN Tail(WholeLines(s)) ELSE WholeLines(s)
    BY <1>3, Zenon DEF Turn, Keep, Behind, Taken, Size, Chunk, ChunkSize
  <2>2. \E d2 \in 0..NumLines : Reached(unread', spillover', evtBuf', firstGo', d2)
    <3>1. CASE unread # <<>>
      <4>1. \E d2 \in 0..NumLines :
              Reached(SubSeq(unread, Size(unread) + 1, Len(unread)),
                      IF IsRagged(s) THEN RaggedEnd(s) ELSE spillover,
                      evtBuf \o IF firstGo THEN Tail(WholeLines(s)) ELSE WholeLines(s), FALSE, d2)
        BY <1>1, <1>2, <3>1, TurnStep
      <4> QED
        BY <2>1, <4>1, Zenon
    <3>2. CASE unread = <<>>
      <4>1. /\ ~firstGo /\ SubSeq(unread, Size(unread) + 1, Len(unread)) = unread
            /\ s = spillover /\ RaggedEnd(spillover) = spillover
            /\ evtBuf \o WholeLines(spillover) = evtBuf
        BY <1>1, <1>2, <3>2, EndStep
      <4> HIDE DEF s
      <4>2. unread' = unread /\ spillover' = spillover /\ evtBuf' = evtBuf /\ firstGo' = firstGo
        <5>1. unread' = unread
          BY <2>1, <4>1, Zenon
        <5>2. spillover' = spillover
          BY <2>1, <4>1
        <5>3. evtBuf' = evtBuf
          BY <2>1, <4>1, Zenon
        <5>4. firstGo' = firstGo
          BY <1>1, <2>1, <4>1
        <5> QED
          BY <5>1, <5>2, <5>3, <5>4
      <4> QED
        BY <1>2, <4>2, Zenon
    <3> QED
      BY <3>1, <3>2
  <2>3. \E d2 \in 0..NumLines : Reached(unread, spillover, evtBuf, firstGo, d2)'
    BY <2>1, <2>2, SameStream
  <2> QED
    BY <1>1, <2>1, <2>3 DEF Inductive, Typed
<1>4. CASE IndexError
  <2>1. UNCHANGED <<lengths, unread, spillover, evtBuf, firstGo>> /\ stopped' = TRUE
    BY <1>4 DEF IndexError
  <2>2. Reached(unread, spillover, evtBuf, firstGo, d)'
    BY <1>2, <2>1, SameStream
  <2> QED
    BY <1>1, <2>1, <2>2 DEF Inductive, Typed
<1>5. CASE UNCHANGED vars
  <2>1. UNCHANGED <<lengths, unread, spillover, evtBuf, firstGo, stopped>>
    BY <1>5 DEF vars
  <2>2. Reached(unread, spillover, evtBuf, firstGo, d)'
    BY <1>2, <2>1, SameStream
  <2> QED
    BY <1>1, <2>1, <2>2 DEF Inductive, Typed
<1> QED
  BY <1>3, <1>4, <1>5 DEF Next

LEMMA InductiveAlways ==
  Spec => []Inductive
BY InitInductive, NextInductive, PTL DEF Spec

-----------------------------------------------------------------------------
(* What follows of every run.                                              *)

\* The lines that were read to their newline are the first d.
LEMMA LinesReadAre ==
  ASSUME Typed, NEW d \in 0..NumLines, Ended(d, Total - Len(unread)),
         Len(unread) \in 0..Total, IsChunk(unread, Total - Len(unread), Len(unread))
  PROVE  LinesRead = 1..d
<1> USE SplitAssumption
<1> DEFINE len == Len(unread)
           pos == Total - len
<1>1. Total \in Nat /\ len \in Nat /\ pos \in Nat /\ pos + len = Total
  BY StartProperties
<1>2. /\ unread \in Seq(Bytes) /\ \A x \in 1..len : unread[x] = ByteAt(pos + x)
      /\ Start[d + 1] <= pos /\ (d < NumLines => pos < Start[d + 2])
  BY DEF IsChunk, Ended
<1>3. Range(unread) = {unread[x] : x \in 1..len}
  BY <1>2 DEF Range
<1> HIDE DEF len, pos
<1>4. ASSUME NEW l \in 1..NumLines
      PROVE  <<l, lengths[l]>> \notin Range(unread) <=> l <= d
  <2>1. l + 1 \in 1..(NumLines + 1) /\ d + 1 \in 1..(NumLines + 1)
    OBVIOUS
  <2>2. /\ Start[l + 1] \in Nat /\ Start[l] \in Nat /\ Start[d + 1] \in Nat
        /\ Start[l + 1] = Start[l] + lengths[l] /\ lengths[l] \in Nat /\ 2 <= lengths[l]
    BY <2>1, StartProperties, LengthType
  <2>3. Start[l + 1] <= pos <=> l <= d
    <3>1. l <= d => Start[l + 1] <= Start[d + 1]
      BY <2>1, StartLess
    <3>2. d < l => d < NumLines /\ d + 2 \in 1..(NumLines + 1) /\ d + 2 <= l + 1
      OBVIOUS
    <3>3. d < l => Start[d + 2] <= Start[l + 1] /\ Start[d + 2] \in Nat
      BY <2>1, <3>2, StartLess, StartProperties
    <3> QED
      BY <1>1, <1>2, <2>2, <3>1, <3>2, <3>3
  <2>4. ASSUME Start[l + 1] > pos
        PROVE  <<l, lengths[l]>> \in Range(unread)
    <3> DEFINE x == Start[l + 1] - pos
    <3>1. NumLines + 1 \in 1..(NumLines + 1) /\ l + 1 <= NumLines + 1
      OBVIOUS
    <3>2. Start[l + 1] <= Total
      BY <2>1, <3>1, StartLess DEF Total
    <3>3. x \in 1..len /\ pos + x = Start[l] + lengths[l] /\ lengths[l] \in 1..lengths[l]
      <4> DEFINE at == Start[l + 1]
                 size == lengths[l]
      <4>1. /\ at \in Nat /\ size \in Nat /\ 2 <= size /\ at = Start[l] + size
            /\ at > pos /\ at <= Total /\ x = at - pos
        BY <2>2, <2>4, <3>2
      <4> HIDE DEF at, size, x
      <4>2. x \in 1..len /\ pos + x = at /\ size \in 1..size
        BY <1>1, <4>1
      <4> QED
        BY <4>1, <4>2 DEF size
    <3> HIDE DEF x
    <3>4. unread[x] = <<l, lengths[l]>>
      BY <1>2, <3>3, ByteAtStart
    <3> QED
      BY <1>3, <3>3, <3>4
  <2>5. ASSUME NEW x \in 1..len, unread[x] = <<l, lengths[l]>>
        PROVE  Start[l + 1] > pos
    <3>1. pos + x \in 1..Total
      BY <1>1
    <3> DEFINE m == LineOf(pos + x)
    <3>2. m \in 1..NumLines
      BY <3>1, LineOfPosition
    <3>3. ByteAt(pos + x) = <<m, (pos + x) - Start[m]>>
      BY DEF ByteAt
    <3> HIDE DEF m
    <3>4. <<m, (pos + x) - Start[m]>> = <<l, lengths[l]>>
      BY <1>2, <2>5, <3>3
    <3>5. m = l /\ (pos + x) - Start[l] = lengths[l]
      BY <3>4
    <3> QED
      BY <1>1, <2>2, <3>5
  <2>6. Start[l + 1] > pos <=> ~(Start[l + 1] <= pos)
    BY <1>1, <2>2
  <2> QED
    BY <1>3, <2>3, <2>4, <2>5, <2>6
<1>5. LinesRead = {l \in 1..NumLines : l <= d}
  BY <1>4 DEF LinesRead
<1> QED
  BY <1>5

\* Every variable keeps its type, and no newline gets into the spillover or
\* into a line (lines 117-142).
THEOREM TypeCorrect == Spec => []TypeOK
<1>1. Inductive => TypeOK
  <2> SUFFICES ASSUME Inductive PROVE TypeOK
    OBVIOUS
  <2>1. Typed /\ firstGo \in BOOLEAN /\ stopped \in BOOLEAN
    BY DEF Inductive
  <2>2. PICK d \in 0..NumLines : Reached(unread, spillover, evtBuf, firstGo, d)
    BY DEF Inductive
  <2>3. unread \in Seq(Bytes)
    BY <2>2 DEF Reached, IsChunk
  <2>4. spillover \in Seq(Bytes) /\ NoNewline(spillover)
    <3>1. PICK j \in 1..NumLines : \E n \in Nat : Begins(spillover, j, n)
      BY <2>2 DEF Reached, LeftOver
    <3> QED
      BY <2>1, <3>1, BeginsPiece DEF IsPiece
  <2>5. ASSUME NEW k \in 1..Len(evtBuf)
        PROVE  evtBuf[k] \in Seq(Bytes) /\ NoNewline(evtBuf[k])
    <3>1. IsLine(evtBuf[k], k)
      BY <2>2 DEF Reached
    <3>2. evtBuf \in Seq(Seq(Bytes)) /\ Len(evtBuf) = (IF firstGo THEN 0 ELSE d - 1)
      BY <2>2 DEF Reached
    <3>3. k \in 1..NumLines /\ k + 1 \in 1..NumLines
      BY <3>2, SplitAssumption
    <3>4. IsPiece(evtBuf[k])
      BY <2>1, <3>1, <3>3, LineIsPiece
    <3> QED
      BY <3>4 DEF IsPiece
  <2> QED
    BY <2>1, <2>3, <2>4, <2>5 DEF TypeOK, Typed
<1> QED
  BY <1>1, InductiveAlways, PTL

\* Wherever the chunks end, each line that was read to its end is split off
\* once, in order, and is whole but for what may be in front of it
\* (lines 117-151).
THEOREM LinesNeverDropped == Spec => []NoLineDropped
<1>1. Inductive => NoLineDropped
  <2> SUFFICES ASSUME Inductive PROVE NoLineDropped
    OBVIOUS
  <2>1. Typed /\ firstGo \in BOOLEAN
    BY DEF Inductive
  <2>2. PICK d \in 0..NumLines : Reached(unread, spillover, evtBuf, firstGo, d)
    BY DEF Inductive
  <2>3. /\ Len(unread) \in 0..Total /\ IsChunk(unread, Total - Len(unread), Len(unread))
        /\ Ended(d, Total - Len(unread)) /\ Len(evtBuf) = (IF firstGo THEN 0 ELSE d - 1)
        /\ \A k \in 1..Len(evtBuf) : IsLine(evtBuf[k], k)
        /\ (firstGo => Len(unread) = Total) /\ (~firstGo => d >= 1)
    BY <2>2 DEF Reached
  <2>4. LinesRead = 1..d
    BY <2>1, <2>3, LinesReadAre
  <2>5. firstGo => d = 0
    <3>1. Start[1] = 0 /\ 1 \in 1..(NumLines + 1) /\ d + 1 \in 1..(NumLines + 1)
      BY <2>1, SplitAssumption, StartProperties
    <3>2. d # 0 => Start[1] < Start[d + 1]
      BY <2>1, <3>1, StartLess
    <3>3. firstGo => Start[d + 1] <= 0
      BY <2>1, <2>3, StartProperties DEF Ended
    <3>4. Start[d + 1] \in Nat
      BY <2>1, <3>1, StartProperties
    <3> QED
      BY <3>1, <3>2, <3>3, <3>4
  <2>6. Len(evtBuf) = IF d = 0 THEN 0 ELSE d - 1
    BY <2>1, <2>3, <2>5
  <2>7. Cardinality((1..d) \ {1}) = IF d = 0 THEN 0 ELSE d - 1
    <3>1. (1..d) \ {1} = 2..d
      OBVIOUS
    <3>2. d \in Nat
      BY SplitAssumption
    <3>3. Cardinality(2..d) = IF 2 > d THEN 0 ELSE d - 2 + 1
      BY <3>2, FS_Interval
    <3>4. (IF 2 > d THEN 0 ELSE d - 2 + 1) = IF d = 0 THEN 0 ELSE d - 1
      BY <3>2
    <3> QED
      BY <3>1, <3>3, <3>4, Zenon
  <2> QED
    BY <2>3, <2>4, <2>6, <2>7, Zenon DEF NoLineDropped, IsLine
<1> QED
  BY <1>1, InductiveAlways, PTL

\* A turn at the end of the stream splits nothing off, whatever is left in the
\* spillover (lines 111-142).
THEOREM NothingAddedAtTheEnd == Spec => EndAddsNothing
<1>1. Inductive /\ [Next]_vars => [unread = <<>> => UNCHANGED evtBuf]_vars
  <2> SUFFICES ASSUME Inductive, Next, unread = <<>> PROVE evtBuf' = evtBuf
    BY DEF vars
  <2>1. Typed /\ firstGo \in BOOLEAN
    BY DEF Inductive
  <2>2. PICK d \in 0..NumLines : Reached(unread, spillover, evtBuf, firstGo, d)
    BY DEF Inductive
  <2>3. CASE Turn
    <3> DEFINE s == Behind(spillover, unread)
    <3>1. evtBuf' = evtBuf \o IF firstGo THEN Tail(WholeLines(s)) ELSE WholeLines(s)
      BY <2>3, Zenon DEF Turn, Behind, Taken, Size, Chunk, ChunkSize
    <3>2. ~firstGo /\ s = spillover /\ evtBuf \o WholeLines(spillover) = evtBuf
      BY <2>1, <2>2, EndStep
    <3> HIDE DEF s
    <3> QED
      BY <3>1, <3>2, Zenon
  <2>4. CASE IndexError
    BY <2>4 DEF IndexError
  <2> QED
    BY <2>3, <2>4 DEF Next
<1> QED
  BY <1>1, InductiveAlways, PTL DEF Spec, EndAddsNothing
=============================================================================
