------------------------- MODULE CoincidenceProofs -------------------------
(***************************************************************************)
(* Proofs about the counting loop, for runs and chunks of any length and   *)
(* every match allowance.                                                  *)
(*                                                                         *)
(* The lists are sorted after every chunk, so the first half is about what *)
(* sorting returns.  The positions of a sorted list are the numbers of     *)
(* smaller elements, and all that is said of them are facts about          *)
(* cardinalities.                                                          *)
(***************************************************************************)
EXTENDS Coincidence, FiniteSetTheorems, SequenceTheorems, TLAPS

-----------------------------------------------------------------------------
(* Sorting.                                                                *)

Below(S, x) == {y \in S : y < x}
Rank(S, x) == Cardinality(Below(S, x))

StrictlyAscending(s) == \A i, j \in 1..Len(s) : i < j => s[i] < s[j]

\* Two elements of different size have different ranks.
LEMMA RankLess ==
  ASSUME NEW S \in SUBSET Int, IsFiniteSet(S), NEW x \in S, NEW y \in S, x < y
  PROVE  Rank(S, x) < Rank(S, y)
<1>1. Below(S, x) \subseteq Below(S, y) /\ x \in Below(S, y) /\ x \notin Below(S, x)
  <2>1. x \in Int /\ y \in Int /\ \A z \in S : z \in Int
    OBVIOUS
  <2>2. \A z \in S : z < x => z < y
    BY <2>1
  <2>3. ~(x < x)
    BY <2>1
  <2> QED
    BY <2>2, <2>3 DEF Below
<1>2. IsFiniteSet(Below(S, y)) /\ IsFiniteSet(Below(S, x))
  BY FS_Subset DEF Below
<1>3. Rank(S, x) <= Rank(S, y) /\ Rank(S, x) # Rank(S, y)
  BY <1>1, <1>2, FS_Subset DEF Rank
<1>4. Rank(S, x) \in Nat /\ Rank(S, y) \in Nat
  BY <1>2, FS_CardinalityType DEF Rank
<1> QED
  BY <1>3, <1>4

LEMMA RankType ==
  ASSUME NEW S \in SUBSET Int, IsFiniteSet(S), NEW x \in S
  PROVE  Rank(S, x) \in 0..(Cardinality(S) - 1)
<1>1. Below(S, x) \in SUBSET S /\ Below(S, x) # S
  BY DEF Below
<1>2. IsFiniteSet(Below(S, x)) /\ Cardinality(Below(S, x)) <= Cardinality(S)
      /\ Cardinality(S) # Cardinality(Below(S, x))
  BY <1>1, FS_Subset
<1>3. Cardinality(Below(S, x)) \in Nat /\ Cardinality(S) \in Nat
  BY <1>2, FS_CardinalityType
<1> QED
  BY <1>2, <1>3 DEF Rank

\* Every rank is that of an element: there are as many of both.
LEMMA RankOnto ==
  ASSUME NEW S \in SUBSET Int, IsFiniteSet(S), NEW r \in 0..(Cardinality(S) - 1)
  PROVE  \E x \in S : Rank(S, x) = r
<1> DEFINE n == Cardinality(S)
           f == [x \in S |-> Rank(S, x)]
<1>1. n \in Nat
  BY FS_CardinalityType
<1>2. f \in [S -> 0..(n - 1)]
  BY RankType
<1>3. ASSUME NEW x \in S, NEW y \in S, f[x] = f[y]
      PROVE  x = y
  <2>1. x \in Int /\ y \in Int /\ Rank(S, x) = Rank(S, y)
    BY <1>3
  <2>2. Rank(S, x) \in Int
    BY RankType
  <2> QED
    BY <2>1, <2>2, RankLess
<1>4. f \in Injection(S, 0..(n - 1))
  BY <1>2, <1>3 DEF Injection, IsInjective
<1>5. IsFiniteSet(0..(n - 1)) /\ Cardinality(0..(n - 1)) = n
  BY <1>1, FS_Interval
<1> HIDE DEF f
<1>6. f \in Surjection(S, 0..(n - 1))
  BY <1>4, <1>5, FS_Injection
<1>7. \E x \in S : f[x] = r
  BY <1>6 DEF Surjection
<1> QED
  BY <1>7 DEF f

LEMMA SortedProperties ==
  ASSUME NEW S \in SUBSET Int, IsFiniteSet(S)
  PROVE  /\ Sorted(S) \in Seq(S) /\ Len(Sorted(S)) = Cardinality(S)
         /\ StrictlyAscending(Sorted(S))
         /\ Range(Sorted(S)) = S
         /\ \A x \in S : Rank(S, x) + 1 \in 1..Cardinality(S) /\ Sorted(S)[Rank(S, x) + 1] = x
<1> DEFINE n == Cardinality(S)
           t == Sorted(S)
<1>1. n \in Nat
  BY FS_CardinalityType
<1>2. t = [i \in 1..n |-> CHOOSE x \in S : Rank(S, x) = i - 1]
  BY DEF Sorted, Rank, Below
<1> HIDE DEF t, n
<1>3. ASSUME NEW i \in 1..n
      PROVE  t[i] \in S /\ Rank(S, t[i]) = i - 1
  <2>1. \E x \in S : Rank(S, x) = i - 1
    <3>1. i - 1 \in 0..(n - 1)
      BY <1>1
    <3> QED
      BY <3>1, RankOnto DEF n
  <2> QED
    BY <1>2, <2>1
<1>4. t \in Seq(S) /\ Len(t) = n /\ DOMAIN t = 1..n
  <2>1. t \in [1..n -> S]
    BY <1>2, <1>3
  <2> QED
    BY <1>1, <2>1
<1>5. ASSUME NEW x \in S
      PROVE  Rank(S, x) + 1 \in 1..n /\ t[Rank(S, x) + 1] = x
  <2> DEFINE i == Rank(S, x) + 1
  <2>1. i \in 1..n /\ Rank(S, x) = i - 1
    BY <1>1, RankType DEF n
  <2> HIDE DEF i
  <2>2. t[i] \in S /\ Rank(S, t[i]) = Rank(S, x)
    BY <1>3, <2>1
  <2>3. Rank(S, x) \in Int
    BY RankType
  <2>4. t[i] = x
    <3>1. t[i] \in Int /\ x \in Int
      BY <2>2
    <3>2. ASSUME NEW y \in S, NEW z \in S, Rank(S, y) = Rank(S, x), Rank(S, z) = Rank(S, x)
          PROVE  ~(y < z)
      <4>1. y < z => Rank(S, y) < Rank(S, z)
        BY RankLess
      <4> QED
        BY <2>3, <3>2, <4>1
    <3>3. ~(t[i] < x) /\ ~(x < t[i])
      BY <2>2, <3>2
    <3> QED
      BY <3>1, <3>3
  <2> QED
    BY <2>1, <2>4 DEF i
<1>6. ASSUME NEW i \in 1..n, NEW j \in 1..n, i < j
      PROVE  t[i] < t[j]
  <2>1. t[i] \in Int /\ t[j] \in Int /\ Rank(S, t[i]) = i - 1 /\ Rank(S, t[j]) = j - 1
    BY <1>3
  <2>2. t[i] # t[j] /\ ~(t[j] < t[i])
    BY <1>1, <1>3, <1>6, <2>1, RankLess
  <2> QED
    BY <2>1, <2>2
<1>7. Range(t) = S
  BY <1>3, <1>4, <1>5 DEF Range
<1> QED
  BY <1>4, <1>5, <1>6, <1>7 DEF t, n, StrictlyAscending

LEMMA SetExtremes ==
  ASSUME NEW S \in SUBSET Int, IsFiniteSet(S), S # {}
  PROVE  /\ Min(S) \in S /\ \A y \in S : Min(S) <= y
         /\ Max(S) \in S /\ \A y \in S : Max(S) >= y
<1> DEFINE n == Cardinality(S)
           t == Sorted(S)
<1>1. n \in Nat \ {0}
  BY FS_CardinalityType, FS_EmptySet
<1>2. /\ \A i \in 1..n : t[i] \in S
      /\ \A i, j \in 1..n : i < j => t[i] < t[j]
      /\ \A y \in S : \E i \in 1..n : t[i] = y
  BY <1>1, SortedProperties DEF StrictlyAscending
<1> HIDE DEF n, t
<1>3. t[1] \in S /\ t[n] \in S /\ \A y \in S : t[1] <= y /\ t[n] >= y
  <2>1. ASSUME NEW y \in S
        PROVE  t[1] <= y /\ t[n] >= y
    <3>1. PICK i \in 1..n : t[i] = y
      BY <1>2
    <3>2. t[1] \in Int /\ t[n] \in Int /\ y \in Int
      <4>1. 1 \in 1..n /\ n \in 1..n
        BY <1>1
      <4>2. t[1] \in S /\ t[n] \in S
        BY <1>2, <4>1
      <4> QED
        BY <4>2
    <3>3. (i = 1 \/ 1 < i) /\ (i = n \/ i < n)
      BY <1>1
    <3>4. (i = 1 \/ t[1] < t[i]) /\ (i = n \/ t[i] < t[n])
      BY <1>1, <1>2, <3>3
    <3> QED
      BY <3>1, <3>2, <3>4
  <2> QED
    BY <1>1, <1>2, <2>1
<1> QED
  BY <1>3 DEF Min, Max

\* The search has a result for every list that is not empty.
LEMMA PositionExists ==
  ASSUME NEW s \in Seq(Int), s # <<>>, NEW x \in Int
  PROVE  FindPositionAfter(x, s) \in 0..(Len(s) - 1)
<1> DEFINE Larger == {k \in 1..(Len(s) - 2) : s[k + 1] > x}
<1>1. Len(s) \in Nat \ {0}
  BY EmptySeq
<1>2. CASE Larger = {}
  <2>1. ASSUME NEW k \in 1..(Len(s) - 2)
        PROVE  s[k + 1] \in Int /\ ~(s[k + 1] > x)
    <3>1. k + 1 \in 1..Len(s)
      BY <1>1
    <3> QED
      BY <1>2, <3>1, ElementOfSeq
  <2>2. \A k \in 1..(Len(s) - 2) : s[k + 1] <= x
    BY <2>1
  <2>3. IsPositionAfter(s, x, Len(s) - 1)
    BY <1>1, <2>2 DEF IsPositionAfter
  <2>4. Len(s) - 1 \in 0..(Len(s) - 1)
    BY <1>1
  <2> QED
    BY <2>3, <2>4 DEF FindPositionAfter
<1>3. CASE Larger # {}
  <2>1. Larger \in SUBSET Int /\ IsFiniteSet(Larger)
    <3>1. IsFiniteSet(1..(Len(s) - 2))
      BY <1>1, FS_Interval
    <3> QED
      BY <3>1, FS_Subset
  <2>2. PICK r \in Larger : \A k \in Larger : r <= k
    BY <1>3, <2>1, SetExtremes
  <2>3. r \in 1..(Len(s) - 2) /\ s[r + 1] > x
    BY <2>2
  <2>4. ASSUME NEW k \in 1..(r - 1)
        PROVE  s[k + 1] <= x
    <3>1. k \in 1..(Len(s) - 2) /\ k < r
      BY <1>1, <2>3
    <3>2. k \notin Larger
      BY <2>2, <2>3, <3>1
    <3>3. s[k + 1] \in Int
      BY <1>1, <3>1
    <3> QED
      BY <3>1, <3>2, <3>3
  <2>5. IsPositionAfter(s, x, r) /\ r \in 0..(Len(s) - 1)
    BY <1>1, <2>3, <2>4 DEF IsPositionAfter
  <2> QED
    BY <2>5 DEF FindPositionAfter
<1> QED
  BY <1>2, <1>3

-----------------------------------------------------------------------------
(* The lists.                                                              *)

\* A list holds the newest of what arrived, in order.
Pending(data, sent) ==
  /\ data \in Seq(Times) /\ StrictlyAscending(data)
  /\ Range(data) \subseteq sent
  /\ \A x \in sent \ Range(data), y \in Range(data) : x < y

LEMMA TimesAreFinite ==
  /\ Times \subseteq Nat \ {None}
  /\ \A S \in SUBSET Times : S \in SUBSET Int /\ IsFiniteSet(S)
<1>1. Times \subseteq Nat \ {None} /\ IsFiniteSet(Times)
  BY CounterAssumption, FS_Interval DEF Times, None
<1>2. ASSUME NEW S \in SUBSET Times
      PROVE  S \in SUBSET Int /\ IsFiniteSet(S)
  <2>1. S \subseteq Int
    BY <1>1
  <2>2. IsFiniteSet(S)
    BY <1>1, FS_Subset
  <2> QED
    BY <2>1, <2>2
<1> QED
  BY <1>1, <1>2

LEMMA ChunkProperties ==
  ASSUME NEW sent, NEW c \in Chunks(sent)
  PROVE  /\ c \in SUBSET Times
         /\ \A x \in c, y \in sent : x > y
BY DEF Chunks

LEMMA MergePending ==
  ASSUME NEW data, NEW sent \in SUBSET Times, Pending(data, sent), NEW c \in Chunks(sent)
  PROVE  /\ Pending(Merge(data, c), sent \cup c)
         /\ Range(Merge(data, c)) = Range(data) \cup c
<1> DEFINE S == Range(data) \cup c
<1>1. Range(data) \subseteq sent
  BY DEF Pending
<1>2. c \in SUBSET Times /\ \A x \in c, y \in sent : x > y
  BY ChunkProperties
<1>3. S \in SUBSET Times /\ S \in SUBSET Int /\ IsFiniteSet(S)
  BY <1>1, <1>2, TimesAreFinite
<1>4. /\ Sorted(S) \in Seq(S) /\ StrictlyAscending(Sorted(S))
      /\ Range(Sorted(S)) = S
  BY <1>3, SortedProperties
<1>5. Sorted(S) \in Seq(Times)
  BY <1>3, <1>4, SeqMonotonic
<1>6. ASSUME NEW x \in (sent \cup c) \ S, NEW y \in S
      PROVE  x < y
  <2>1. x \in sent \ Range(data) /\ x \in Int /\ y \in Int
    BY <1>2, <1>3, TimesAreFinite
  <2>2. CASE y \in Range(data)
    BY <2>1, <2>2 DEF Pending
  <2>3. CASE y \in c
    <3>1. y > x
      BY <1>2, <2>1, <2>3
    <3> QED
      BY <2>1, <3>1
  <2> QED
    BY <2>2, <2>3
<1>7. Merge(data, c) = Sorted(S)
  BY DEF Merge
<1>8. Range(Sorted(S)) \subseteq sent \cup c
  BY <1>1, <1>4
<1> HIDE DEF S
<1>9. \A x \in (sent \cup c) \ Range(Sorted(S)), y \in Range(Sorted(S)) : x < y
  BY <1>4, <1>6
<1>10. Pending(Sorted(S), sent \cup c)
  BY <1>4, <1>5, <1>8, <1>9 DEF Pending
<1> QED
  BY <1>4, <1>7, <1>10 DEF S

\* Trimming takes from the front, that is the oldest.
LEMMA FromPending ==
  ASSUME NEW data, NEW sent \in SUBSET Times, Pending(data, sent), NEW n \in 0..Len(data)
  PROVE  Pending(From(data, n), sent) /\ Range(From(data, n)) \subseteq Range(data)
<1> DEFINE d == From(data, n)
<1>1. data \in Seq(Times) /\ StrictlyAscending(data) /\ Len(data) \in Nat
  BY DEF Pending
<1>2. /\ d \in Seq(Times) /\ Len(d) = Len(data) - n
      /\ \A i \in 1..(Len(data) - n) : d[i] = data[n + i]
  <2>1. \A i \in (n + 1)..Len(data) : data[i] \in Times
    BY <1>1
  <2>2. /\ d \in Seq(Times)
        /\ Len(d) = IF n + 1 <= Len(data) THEN Len(data) - (n + 1) + 1 ELSE 0
        /\ \A i \in 1..(Len(data) - (n + 1) + 1) : d[i] = data[(n + 1) + i - 1]
    BY <1>1, <2>1, SubSeqProperties DEF From
  <2> QED
    BY <1>1, <2>2
<1> HIDE DEF d
<1>3. StrictlyAscending(d)
  BY <1>1, <1>2 DEF StrictlyAscending
<1>4. Range(d) \subseteq Range(data)
  <2>1. ASSUME NEW i \in 1..Len(d)
        PROVE  n + i \in 1..Len(data) /\ d[i] = data[n + i]
    BY <1>1, <1>2
  <2> QED
    BY <1>1, <1>2, <2>1, RangeEquality
<1>5. ASSUME NEW x \in sent \ Range(d), NEW y \in Range(d)
      PROVE  x < y
  <2>1. CASE x \notin Range(data)
    BY <1>4, <2>1 DEF Pending
  <2>2. CASE x \in Range(data)
    <3>1. PICK i \in 1..Len(data) : x = data[i]
      BY <1>1, <2>2, RangeEquality
    <3>2. PICK j \in 1..Len(d) : y = d[j]
      BY <1>2, RangeEquality
    <3>3. i <= n
      <4>1. SUFFICES ASSUME i > n PROVE FALSE
        BY <1>1
      <4>2. i - n \in 1..Len(d) /\ d[i - n] = data[n + (i - n)]
        BY <1>1, <1>2, <4>1
      <4>3. d[i - n] = x
        BY <1>1, <3>1, <4>2
      <4> QED
        BY <1>2, <4>2, <4>3, RangeEquality
    <3>4. n + j \in 1..Len(data) /\ y = data[n + j] /\ i < n + j
      BY <1>1, <1>2, <3>2, <3>3
    <3> QED
      BY <1>1, <3>1, <3>4 DEF StrictlyAscending
  <2> QED
    BY <2>1, <2>2
<1> QED
  BY <1>2, <1>3, <1>4, <1>5 DEF Pending, d

\* The first k of a strictly ascending list are k different ones.
LEMMA PrefixCardinality ==
  ASSUME NEW s \in Seq(Int), StrictlyAscending(s), NEW k \in 0..Len(s)
  PROVE  /\ IsFiniteSet({s[j] : j \in 1..k})
         /\ Cardinality({s[j] : j \in 1..k}) = k
<1> DEFINE T == {s[j] : j \in 1..k}
           g == [j \in 1..k |-> s[j]]
<1>1. \A j \in 1..k : j \in 1..Len(s) /\ s[j] \in Int
  OBVIOUS
<1>2. g \in [1..k -> T] /\ \A t \in T : \E j \in 1..k : g[j] = t
  OBVIOUS
<1>3. \A i, j \in 1..k : g[i] = g[j] => i = j
  <2>1. ASSUME NEW i \in 1..k, NEW j \in 1..k, i < j
        PROVE  g[i] # g[j]
    BY <1>1, <2>1 DEF StrictlyAscending
  <2> QED
    BY <2>1
<1> HIDE DEF T, g
<1>4. g \in Bijection(1..k, T)
  BY <1>2, <1>3 DEF Bijection, Injection, Surjection, IsInjective
<1>5. IsFiniteSet(1..k) /\ Cardinality(1..k) = k
  BY FS_Interval
<1>6. IsFiniteSet(T) /\ Cardinality(T) = k
  BY <1>4, <1>5, FS_Bijection DEF ExistsBijection
<1> QED
  BY <1>6 DEF T

\* An element of the list has all that was trimmed and all that is in front of
\* it below it.
LEMMA RankOfPending ==
  ASSUME NEW data, NEW sent \in SUBSET Times, Pending(data, sent), NEW i \in 1..Len(data)
  PROVE  /\ Len(data) <= Cardinality(sent) /\ data[i] \in sent
         /\ Rank(sent, data[i]) = Cardinality(sent) - Len(data) + i - 1
<1> DEFINE D == Range(data)
           Leading == {data[j] : j \in 1..(i - 1)}
           Old == sent \ D
<1>1. /\ data \in Seq(Times) /\ data \in Seq(Int) /\ StrictlyAscending(data)
      /\ Len(data) \in Nat /\ D = {data[j] : j \in 1..Len(data)} /\ D \subseteq sent
  <2>1. Times \subseteq Int
    BY TimesAreFinite
  <2>2. data \in Seq(Times) /\ StrictlyAscending(data) /\ D \subseteq sent
    BY DEF Pending
  <2>3. data \in Seq(Int)
    BY <2>1, <2>2, SeqMonotonic
  <2>4. D = {data[j] : j \in 1..Len(data)}
    BY <2>2, RangeEquality
  <2> QED
    BY <2>2, <2>3, <2>4
<1>2. IsFiniteSet(sent) /\ IsFiniteSet(Old) /\ IsFiniteSet(D) /\ sent \subseteq Int
  <2>1. Old \in SUBSET Times /\ D \in SUBSET Times
    BY <1>1
  <2> QED
    BY <2>1, TimesAreFinite
<1>3. Cardinality(D) = Len(data)
  <2>1. Len(data) \in 0..Len(data)
    BY <1>1
  <2> QED
    BY <1>1, <2>1, PrefixCardinality
<1>4. IsFiniteSet(Leading) /\ Cardinality(Leading) = i - 1
  <2>1. i - 1 \in 0..Len(data)
    BY <1>1
  <2> QED
    BY <1>1, <2>1, PrefixCardinality
<1>5. data[i] \in sent /\ data[i] \in D
  BY <1>1
<1>6. \A j \in 1..Len(data) : data[j] \in Int
  BY <1>1
<1>7. Below(sent, data[i]) = Old \cup Leading
  <2>1. ASSUME NEW x \in sent, x < data[i], x \in D
        PROVE  x \in Leading
    <3>1. PICK j \in 1..Len(data) : x = data[j]
      BY <1>1, <2>1
    <3>2. j < i
      <4>1. i < j => data[i] < data[j]
        BY <1>1 DEF StrictlyAscending
      <4> QED
        BY <1>1, <1>6, <2>1, <3>1, <4>1
    <3> QED
      BY <1>1, <3>1, <3>2
  <2>2. ASSUME NEW x \in Leading
        PROVE  x \in sent /\ x < data[i]
    <3>1. PICK j \in 1..(i - 1) : x = data[j]
      OBVIOUS
    <3>2. j \in 1..Len(data) /\ j < i
      BY <1>1
    <3> QED
      BY <1>1, <3>1, <3>2 DEF StrictlyAscending
  <2>3. ASSUME NEW x \in Old
        PROVE  x < data[i]
    BY <1>5 DEF Pending
  <2> HIDE DEF Leading, D
  <2> QED
    BY <2>1, <2>2, <2>3 DEF Below
<1>8. Old \cap Leading = {} /\ Old \cap D = {} /\ sent = Old \cup D
  <2>1. Leading \subseteq D
    BY <1>1
  <2> QED
    BY <1>1, <2>1
<1> HIDE DEF D, Leading, Old
<1>9. Cardinality(Below(sent, data[i])) = Cardinality(Old) + (i - 1)
  <2>1. Cardinality(Old \cap Leading) = 0
    BY <1>8, FS_EmptySet
  <2>2. Cardinality(Old) \in Nat
    BY <1>2, FS_CardinalityType
  <2>3. Cardinality(Old \cup Leading) = Cardinality(Old) + Cardinality(Leading) - Cardinality(Old \cap Leading)
    BY <1>2, <1>4, FS_Union
  <2> QED
    BY <1>4, <1>7, <2>1, <2>2, <2>3
<1>10. Cardinality(sent) = Cardinality(Old) + Len(data)
  <2>1. Cardinality(Old \cap D) = 0
    BY <1>8, FS_EmptySet
  <2>2. Cardinality(Old) \in Nat
    BY <1>2, FS_CardinalityType
  <2>3. Cardinality(Old \cup D) = Cardinality(Old) + Cardinality(D) - Cardinality(Old \cap D)
    BY <1>2, FS_Union
  <2>4. Cardinality(sent) = Cardinality(Old \cup D)
    BY <1>8
  <2>5. Cardinality(D) \in Nat
    BY <1>1, <1>3
  <2> QED
    BY <1>3, <2>1, <2>2, <2>3, <2>4, <2>5
<1>11. Cardinality(Old) \in Nat
  BY <1>2, FS_CardinalityType
<1> QED
  BY <1>1, <1>5, <1>9, <1>10, <1>11 DEF Rank

LEMMA PendingIsSuffix ==
  ASSUME NEW data, NEW sent \in SUBSET Times, Pending(data, sent)
  PROVE  IsSuffix(data, Sorted(sent))
<1> DEFINE t == Sorted(sent)
           m == Len(data)
           n == Cardinality(sent)
<1>1. sent \in SUBSET Int /\ IsFiniteSet(sent)
  BY TimesAreFinite
<1>2. t \in Seq(sent) /\ Len(t) = n /\ n \in Nat
  BY <1>1, SortedProperties, FS_CardinalityType
<1>3. data \in Seq(Times) /\ m \in Nat
  BY DEF Pending
<1>4. ASSUME NEW i \in 1..m
      PROVE  m <= n /\ t[n - m + i] = data[i]
  <2>1. m <= n /\ data[i] \in sent /\ Rank(sent, data[i]) = n - m + i - 1
    BY RankOfPending
  <2>2. t[Rank(sent, data[i]) + 1] = data[i]
    BY <1>1, <2>1, SortedProperties
  <2>3. Rank(sent, data[i]) + 1 = n - m + i
    BY <1>2, <1>3, <2>1
  <2> QED
    BY <2>1, <2>2, <2>3
<1> HIDE DEF t, n
<1>5. m <= n
  BY <1>2, <1>3, <1>4
<1>6. /\ Len(Reverse(data)) = m
      /\ Len(Reverse(t)) = n
      /\ \A i \in 1..m : Reverse(data)[i] = data[m - i + 1] /\ Reverse(data)[i] \in Times
      /\ \A i \in 1..n : Reverse(t)[i] = t[n - i + 1]
  BY <1>2, <1>3 DEF Reverse
<1>7. \A i \in 1..m : Reverse(t)[i] = Reverse(data)[i]
  <2>1. ASSUME NEW i \in 1..m
        PROVE  Reverse(t)[i] = Reverse(data)[i]
    <3>1. i \in 1..n /\ m - i + 1 \in 1..m /\ n - i + 1 = n - m + (m - i + 1)
      BY <1>2, <1>3, <1>5
    <3>2. t[n - m + (m - i + 1)] = data[m - i + 1]
      BY <1>4, <3>1
    <3> QED
      BY <1>6, <3>1, <3>2
  <2> QED
    BY <2>1
<1>8. SubSeq(Reverse(data), 1, m) = SubSeq(Reverse(t), 1, m)
  BY <1>3, <1>7
<1> QED
  BY <1>5, <1>6, <1>8 DEF IsSuffix, IsPrefix, t, n

-----------------------------------------------------------------------------
(* A turn.                                                                 *)

Inductive ==
  /\ Pending(dataTop, sentTop) /\ Pending(dataBottom, sentBottom)
  /\ sentTop \subseteq Times /\ sentBottom \subseteq Times
  /\ minCoincTime \in Times \cup {None}
  /\ written \subseteq Times

LEMMA FindsNear ==
  ASSUME NEW absolute \in Seq(Times), NEW secondary \in Seq(Times)
  PROVE  /\ FindCoincidences(absolute, secondary) \subseteq Range(secondary)
         /\ \A a \in Range(absolute), s \in Range(secondary) :
              /\ Near(a, s) <=> Near(s, a)
              /\ Near(a, s) => s \in FindCoincidences(absolute, secondary)
         /\ \A s \in FindCoincidences(absolute, secondary) :
              \E a \in Range(absolute) : Near(a, s)
<1>1. Range(absolute) \subseteq Int /\ Range(secondary) \subseteq Int
  <2>1. Times \subseteq Int
    BY TimesAreFinite
  <2>2. Range(absolute) \subseteq Times /\ Range(secondary) \subseteq Times
    BY RangeOfSeq
  <2> QED
    BY <2>1, <2>2
<1>2. \A a, s \in Int :
        /\ Near(a, s) <=> Near(s, a)
        /\ Near(a, s) <=> s \in (a - offset)..(a + offset)
  BY CounterAssumption DEF Near, Abs
<1>3. \A a \in Range(absolute), s \in Range(secondary) :
        /\ Near(a, s) <=> Near(s, a)
        /\ Near(a, s) <=> s \in (a - offset)..(a + offset)
  <2>1. ASSUME NEW a \in Range(absolute), NEW s \in Range(secondary)
        PROVE  /\ Near(a, s) <=> Near(s, a)
               /\ Near(a, s) <=> s \in (a - offset)..(a + offset)
    <3>1. a \in Int /\ s \in Int
      BY <1>1
    <3> QED
      BY <1>2, <3>1
  <2> QED
    BY <2>1
<1>4. \A s : s \in FindCoincidences(absolute, secondary) <=>
        /\ s \in Range(secondary)
        /\ \E a \in Range(absolute) : s \in (a - offset)..(a + offset)
  BY DEF FindCoincidences
<1> QED
  BY <1>3, <1>4

\* Both lists lose no more than they hold: the searches have a result.
LEMMA TrimIsFrom ==
  ASSUME Inductive, NEW newCoincs \in SUBSET Times,
         NEW absolute \in Seq(Times), absolute # <<>>,
         NEW secondary \in Seq(Times), secondary # <<>>
  PROVE  \E m \in 0..Len(absolute), n \in 0..Len(secondary) :
           Trim(newCoincs, absolute, secondary) =
             [absolute |-> From(absolute, m), secondary |-> From(secondary, n)]
<1>1. Len(absolute) \in Nat \ {0} /\ Len(secondary) \in Nat \ {0}
  BY EmptySeq
<1>2. CASE newCoincs = {}
  <2>1. From(absolute, 0) = absolute /\ From(secondary, 0) = secondary
    BY SubSeqFull DEF From
  <2>2. Trim(newCoincs, absolute, secondary) =
          [absolute |-> From(absolute, 0), secondary |-> From(secondary, 0)]
    BY <1>2, <2>1 DEF Trim
  <2>3. 0 \in 0..Len(absolute) /\ 0 \in 0..Len(secondary)
    BY <1>1
  <2> QED
    BY <2>2, <2>3
<1>3. CASE newCoincs # {}
  <2> DEFINE first == IF minCoincTime = None THEN Min(newCoincs) ELSE minCoincTime
             all == written \cup newCoincs
             C == Coincidences(all, first)
             last == Max(C)
             newFirst == FindPositionAfter(last, secondary)
             beforeFirst == FindPositionAfter(last - offset, absolute)
  <2>1. Times \subseteq Int /\ Times = (Epoch + 1)..(Epoch + Span) /\ Epoch \in Int /\ Span \in Int
    BY TimesAreFinite, CounterAssumption DEF Times
  <2>2. first \in Times
    <3>1. newCoincs \in SUBSET Int /\ IsFiniteSet(newCoincs)
      BY TimesAreFinite
    <3>2. Min(newCoincs) \in newCoincs
      BY <1>3, <3>1, SetExtremes
    <3> QED
      BY <3>2 DEF Inductive
  <2>3. all \subseteq Times /\ all # {}
    BY <1>3 DEF Inductive
  <2> HIDE DEF first, all
  <2>4. C \in SUBSET ((-Span)..Span) /\ C # {}
    <3>1. ASSUME NEW x \in all
          PROVE  x - first \in (-Span)..Span
      <4>1. x \in (Epoch + 1)..(Epoch + Span) /\ first \in (Epoch + 1)..(Epoch + Span)
        BY <2>1, <2>2, <2>3
      <4> QED
        BY <2>1, <4>1
    <3> QED
      BY <2>3, <3>1 DEF Coincidences
  <2>5. C \in SUBSET Int /\ IsFiniteSet(C)
    <3>1. -Span \in Int
      BY <2>1
    <3>2. IsFiniteSet((-Span)..Span)
      BY <2>1, <3>1, FS_Interval
    <3> QED
      BY <2>1, <2>4, <3>2, FS_Subset
  <2> HIDE DEF C
  <2>6. last \in Int
    <3>1. Max(C) \in C
      BY <2>4, <2>5, SetExtremes
    <3> QED
      BY <2>5, <3>1
  <2> HIDE DEF last
  <2>7. last - offset \in Int
    BY <2>6, CounterAssumption
  <2>8. absolute \in Seq(Int) /\ secondary \in Seq(Int)
    BY <2>1, SeqMonotonic
  <2>9. newFirst \in 0..(Len(secondary) - 1) /\ beforeFirst \in 0..(Len(absolute) - 1)
    BY <2>6, <2>7, <2>8, PositionExists
  <2>10. Trim(newCoincs, absolute, secondary) =
           [absolute |-> From(absolute, beforeFirst + 1), secondary |-> From(secondary, newFirst)]
    BY <1>3 DEF Trim, first, all, C, last
  <2> HIDE DEF newFirst, beforeFirst
  <2>11. beforeFirst + 1 \in 0..Len(absolute) /\ newFirst \in 0..Len(secondary)
    BY <1>1, <2>9
  <2> QED
    BY <2>10, <2>11
<1> QED
  BY <1>2, <1>3

\* What a turn does to its lists, whichever of them is the absolute one.
LEMMA OneTurn ==
  ASSUME Inductive,
         NEW absolute, NEW secondary, absolute # <<>>, secondary # <<>>,
         NEW sentAbs \in SUBSET Times, NEW sentSec \in SUBSET Times,
         Pending(absolute, sentAbs), Pending(secondary, sentSec),
         NEW newCoincs, newCoincs = FindCoincidences(absolute, secondary), Count(newCoincs),
         NEW left, left = Trim(newCoincs, absolute, secondary)
  PROVE  /\ Pending(left.absolute, sentAbs) /\ Pending(left.secondary, sentSec)
         /\ minCoincTime' \in Times \cup {None} /\ written' \subseteq Times
         /\ written' = written \cup newCoincs
         /\ \A c \in newCoincs : c \in sentSec /\ \E a \in sentAbs : Near(a, c)
         /\ \A a \in Range(left.absolute), s \in Range(left.secondary) :
              (Near(a, s) <=> Near(s, a)) /\ (Near(a, s) => s \in written')
<1>1. /\ absolute \in Seq(Times) /\ secondary \in Seq(Times)
      /\ Range(absolute) \subseteq sentAbs /\ Range(secondary) \subseteq sentSec
  BY DEF Pending
<1>2. newCoincs \subseteq Range(secondary) /\ newCoincs \in SUBSET Times
  BY <1>1, FindsNear
<1>3. PICK m \in 0..Len(absolute), n \in 0..Len(secondary) :
        left = [absolute |-> From(absolute, m), secondary |-> From(secondary, n)]
  BY <1>1, <1>2, TrimIsFrom
<1>4. left.absolute = From(absolute, m) /\ left.secondary = From(secondary, n)
  BY <1>3
<1>5. /\ Pending(left.absolute, sentAbs) /\ Range(left.absolute) \subseteq Range(absolute)
      /\ Pending(left.secondary, sentSec) /\ Range(left.secondary) \subseteq Range(secondary)
  BY <1>4, FromPending
<1>6. written' = written \cup newCoincs /\ written' \subseteq Times
  BY <1>2 DEF Count, Inductive
<1>7. minCoincTime' \in Times \cup {None}
  <2>1. newCoincs # {} => Min(newCoincs) \in newCoincs
    BY <1>2, TimesAreFinite, SetExtremes
  <2> QED
    BY <1>2, <2>1 DEF Count, Inductive
<1>8. \A c \in newCoincs : c \in sentSec /\ \E a \in sentAbs : Near(a, c)
  BY <1>1, <1>2, FindsNear
<1>9. \A a \in Range(left.absolute), s \in Range(left.secondary) :
        (Near(a, s) <=> Near(s, a)) /\ (Near(a, s) => s \in written')
  BY <1>1, <1>5, <1>6, FindsNear
<1> QED
  BY <1>5, <1>6, <1>7, <1>8, <1>9

LEMMA TurnProperties ==
  ASSUME Inductive, NothingSpurious,
         NEW eventsTop \in Chunks(sentTop), NEW eventsBottom \in Chunks(sentBottom),
         Turn(eventsTop, eventsBottom)
  PROVE  Inductive' /\ NothingSpurious' /\ InHandCounted'
<1> DEFINE top == Merge(dataTop, eventsTop)
           bottom == Merge(dataBottom, eventsBottom)
<1>1. sentTop \in SUBSET Times /\ sentBottom \in SUBSET Times
      /\ Pending(dataTop, sentTop) /\ Pending(dataBottom, sentBottom)
  BY DEF Inductive
<1>2. sentTop' = sentTop \cup eventsTop /\ sentBottom' = sentBottom \cup eventsBottom
  BY DEF Turn
<1>3. sentTop' \in SUBSET Times /\ sentBottom' \in SUBSET Times
  BY <1>1, <1>2, ChunkProperties
<1>4. /\ Pending(top, sentTop') /\ top # <<>>
      /\ Pending(bottom, sentBottom') /\ bottom # <<>>
  BY <1>1, <1>2, MergePending DEF Turn
<1>5. CASE bottom[1] > top[1]
  <2> DEFINE newCoincs == FindCoincidences(top, bottom)
             left == Trim(newCoincs, top, bottom)
  <2>1. Count(newCoincs) /\ dataTop' = left.absolute /\ dataBottom' = left.secondary
    BY <1>5 DEF Turn
  <2> HIDE DEF top, bottom
  <2>2. /\ Pending(dataTop', sentTop') /\ Pending(dataBottom', sentBottom')
        /\ minCoincTime' \in Times \cup {None} /\ written' \subseteq Times
        /\ written' = written \cup newCoincs
        /\ \A c \in newCoincs : c \in sentBottom' /\ \E a \in sentTop' : Near(a, c)
        /\ \A a \in Range(dataTop'), s \in Range(dataBottom') :
             (Near(a, s) <=> Near(s, a)) /\ (Near(a, s) => s \in written')
    BY <1>3, <1>4, <2>1, OneTurn
  <2> HIDE DEF newCoincs, left
  <2>3. Inductive'
    BY <1>3, <2>2 DEF Inductive
  <2>4. NothingSpurious'
    BY <1>2, <2>2 DEF NothingSpurious
  <2>5. InHandCounted'
    BY <2>2 DEF InHandCounted
  <2> QED
    BY <2>3, <2>4, <2>5
<1>6. CASE ~(bottom[1] > top[1])
  <2> DEFINE newCoincs == FindCoincidences(bottom, top)
             left == Trim(newCoincs, bottom, top)
  <2>1. Count(newCoincs) /\ dataBottom' = left.absolute /\ dataTop' = left.secondary
    BY <1>6 DEF Turn
  <2> HIDE DEF top, bottom
  <2>2. /\ Pending(dataTop', sentTop') /\ Pending(dataBottom', sentBottom')
        /\ minCoincTime' \in Times \cup {None} /\ written' \subseteq Times
        /\ written' = written \cup newCoincs
        /\ \A c \in newCoincs : c \in sentTop' /\ \E a \in sentBottom' : Near(a, c)
        /\ \A a \in Range(dataBottom'), s \in Range(dataTop') :
             (Near(a, s) <=> Near(s, a)) /\ (Near(a, s) => s \in written')
    BY <1>3, <1>4, <2>1, OneTurn
  <2> HIDE DEF newCoincs, left
  <2>3. Inductive'
    BY <1>3, <2>2 DEF Inductive
  <2>4. NothingSpurious'
    BY <1>2, <2>2 DEF NothingSpurious
  <2>5. InHandCounted'
    BY <2>2 DEF InHandCounted
  <2> QED
    BY <2>3, <2>4, <2>5
<1> QED
  BY <1>5, <1>6

-----------------------------------------------------------------------------
(* The theorems.                                                           *)

LEMMA InitInductive == Init => Inductive /\ NothingSpurious /\ InHandCounted
<1> SUFFICES ASSUME Init
             PROVE  Inductive /\ NothingSpurious /\ InHandCounted
  OBVIOUS
<1>1. Range(<<>>) = {} /\ <<>> \in Seq(Times) /\ Len(<<>>) = 0
  BY DEF Range
<1>2. Pending(<<>>, {})
  BY <1>1 DEF Pending, StrictlyAscending
<1> QED
  BY <1>1, <1>2 DEF Init, Inductive, NothingSpurious, InHandCounted

LEMMA NextInductive ==
  ASSUME Inductive, NothingSpurious, InHandCounted, [Next]_vars
  PROVE  Inductive' /\ NothingSpurious' /\ InHandCounted'
<1>1. CASE Next
  BY <1>1, TurnProperties DEF Next
<1>2. CASE UNCHANGED vars
  BY <1>2 DEF vars, Inductive, NothingSpurious, InHandCounted
<1> QED
  BY <1>1, <1>2

LEMMA InductiveAlways == Spec => [](Inductive /\ NothingSpurious /\ InHandCounted)
BY InitInductive, NextInductive, PTL DEF Spec

\* The lists stay sorted lists of times through every merge and trim, and the
\* first coincidence is a time once there is one (lines 160-215).
THEOREM TypeCorrect == Spec => []TypeOK
<1>1. Inductive => TypeOK
  <2>1. SUFFICES ASSUME Inductive PROVE TypeOK
    OBVIOUS
  <2>2. ASSUME NEW s \in Seq(Times), StrictlyAscending(s)
        PROVE  Ascending(s)
    <3>1. Times \subseteq Int
      BY TimesAreFinite
    <3>2. \A i \in 1..Len(s) : s[i] \in Times
      BY ElementOfSeq
    <3>3. \A i \in 1..Len(s) : s[i] \in Int
      BY <3>1, <3>2
    <3> QED
      BY <2>2, <3>3 DEF StrictlyAscending, Ascending
  <2> QED
    BY <2>1, <2>2 DEF Inductive, Pending, TypeOK
<1> QED
  BY <1>1, InductiveAlways, PTL

\* No coincidence is written without an event of each detector within the match
\* allowance, for every allowance and whatever was trimmed (lines 60-67, 167,
\* 191).
THEOREM CoincidencesAreReal == Spec => []NothingSpurious
BY InductiveAlways, PTL

\* No pair within the allowance is left uncounted in the lists: what a turn
\* misses, it has trimmed, or it has not arrived (lines 164-215).
THEOREM PairsInHandCounted == Spec => []InHandCounted
BY InductiveAlways, PTL

\* What is trimmed is the oldest, for every run and whatever the search is
\* asked for: the lists never lose an event in their middle (lines 181-213).
THEOREM OldestTrimmed == Spec => []NewestKept
<1>1. Inductive => NewestKept
  BY PendingIsSuffix DEF Inductive, NewestKept
<1> QED
  BY <1>1, InductiveAlways, PTL
=============================================================================
