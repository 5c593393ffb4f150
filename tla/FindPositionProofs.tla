------------------------- MODULE FindPositionProofs -------------------------
(***************************************************************************)
(* The binary search of FindPosition returns the position it should, for   *)
(* every list, and halves its range with every turn.                       *)
(***************************************************************************)
EXTENDS FindPosition, TLAPS

\* What is known of a list that the counter may search.
LEMMA ListType ==
  ASSUME someList \in Lists
  PROVE  /\ Len(someList) \in Nat /\ Len(someList) >= 1
         /\ \A k \in 0..(Len(someList) - 1) : Item(k) \in Int
         /\ \A j, k \in 0..(Len(someList) - 1) : j <= k => Item(j) <= Item(k)
<1>1. PICK n \in 1..MaxLen : someList \in [1..n -> Times]
  BY DEF Lists
<1>2. n \in Nat /\ Len(someList) = n /\ n >= 1
  BY <1>1, FindAssumption
<1>3. \A k \in 1..n : someList[k] \in Int
  BY <1>1, FindAssumption
<1>4. ASSUME NEW k \in 0..(Len(someList) - 1)
      PROVE  Item(k) \in Int
  <2>1. k + 1 \in 1..n
    BY <1>2, <1>4
  <2> QED
    BY <2>1, <1>3 DEF Item
<1>5. ASSUME NEW j \in 0..(Len(someList) - 1), NEW k \in 0..(Len(someList) - 1), j <= k
      PROVE  Item(j) <= Item(k)
  <2>1. j + 1 \in 1..n /\ k + 1 \in 1..n
    BY <1>2, <1>5
  <2>2. CASE j = k
    BY <2>1, <2>2, <1>3 DEF Item
  <2>3. CASE j < k
    BY <2>1, <2>3, <1>2 DEF Lists, Ascending, Item
  <2> QED
    BY <1>5, <2>2, <2>3
<1> QED
  BY <1>2, <1>4, <1>5

-----------------------------------------------------------------------------
(* The loop invariant.                                                     *)

\* What is outside of minInd and maxInd has been decided, but for the two ends
\* of the list, which the search never looks at.
Decided ==
  /\ minInd <= maxInd
  /\ maxInd = 0 => Len(someList) <= 1
  /\ minInd > 0 => Item(minInd) <= toFind
  /\ maxInd < Len(someList) - 1 => Item(maxInd) > toFind

Inductive == TypeOK /\ Decided /\ (done => maxInd <= minInd + 1)

LEMMA InitInductive == Init => Inductive
<1> SUFFICES ASSUME Init PROVE Inductive
  OBVIOUS
<1>1. PICK n \in Nat : Len(someList) = n /\ n >= 1
  BY ListType DEF Init
<1>2. minInd = 0 /\ maxInd = n - 1 /\ done = FALSE
  BY <1>1 DEF Init
<1>3. minInd \in 0..(n - 1) /\ maxInd \in 0..(n - 1) /\ minInd <= maxInd
  <2>1. n >= 1
    BY <1>1
  <2> QED
    BY <1>2, <2>1
<1>4. TypeOK
  BY <1>1, <1>2, <1>3 DEF Init, TypeOK
<1>5. ~(minInd > 0) /\ ~(maxInd < n - 1) /\ (maxInd = 0 => n <= 1)
  BY <1>2
<1> QED
  BY <1>1, <1>2, <1>3, <1>4, <1>5 DEF Inductive, Decided

\* The item a turn looks at lies strictly between minInd and maxInd.
LEMMA Middle ==
  ASSUME NEW lo \in Nat, NEW hi \in Nat, hi > lo + 1
  PROVE  LET spot == (hi + lo) \div 2
         IN  /\ spot \in Nat /\ lo < spot /\ spot < hi
             /\ 2 * (hi - spot) <= hi - lo + 1
             /\ 2 * (spot - lo) <= hi - lo + 1
OBVIOUS

LEMMA NextInductive == Inductive /\ [Next]_vars => Inductive'
<1> SUFFICES ASSUME Inductive, [Next]_vars PROVE Inductive'
  OBVIOUS
<1> USE DEF Inductive, TypeOK, Decided
<1>1. Len(someList) \in Nat /\ Len(someList) >= 1
  BY ListType
<1>2. CASE Turn
  <2> DEFINE spot == (maxInd + minInd) \div 2
  <2>1. /\ someList' = someList /\ toFind' = toFind /\ done' = done
        /\ ~done /\ maxInd > minInd + 1
        /\ \/ Item(spot) > toFind /\ maxInd' = spot /\ minInd' = minInd
           \/ ~(Item(spot) > toFind) /\ minInd' = spot /\ maxInd' = maxInd
    BY <1>2 DEF Turn, Apart
  <2>2. spot \in 0..(Len(someList) - 1) /\ minInd < spot /\ spot < maxInd
    BY <1>1, <2>1, Middle
  <2>3. Item(spot) \in Int /\ toFind \in Int
    BY <2>2, ListType, FindAssumption
  <2>4. TypeOK'
    BY <1>1, <2>1, <2>2
  <2>5. minInd' <= maxInd' /\ maxInd' # 0
    BY <1>1, <2>1, <2>2
  <2>6. CASE Item(spot) > toFind
    BY <1>1, <2>1, <2>2, <2>3, <2>4, <2>5, <2>6 DEF Item
  <2>7. CASE ~(Item(spot) > toFind)
    <3>1. minInd' = spot /\ maxInd' = maxInd /\ Item(spot) <= toFind
      BY <2>1, <2>3, <2>7
    <3>2. Item(minInd)' <= toFind'
      BY <2>1, <3>1 DEF Item
    <3>3. maxInd' < Len(someList') - 1 => (Item(maxInd) > toFind)'
      BY <2>1, <3>1 DEF Item
    <3> QED
      BY <2>1, <2>4, <2>5, <3>2, <3>3
  <2> QED
    BY <2>6, <2>7
<1>3. CASE Return
  BY <1>1, <1>3 DEF Return, Apart, Item
<1>4. CASE UNCHANGED vars
  BY <1>4 DEF vars, Item
<1> QED
  BY <1>2, <1>3, <1>4 DEF Next

LEMMA InductiveAlways == Spec => []Inductive
BY InitInductive, NextInductive, PTL DEF Spec

\* What the search decided is what it promises, once its range is used up.
LEMMA DecidedFinds == Inductive => FindsPosition
<1> SUFFICES ASSUME Inductive, done PROVE IsPositionAfter(someList, toFind, maxInd)
  BY DEF FindsPosition
<1> USE DEF Inductive, TypeOK, Decided
<1>1. Len(someList) \in Nat /\ Len(someList) >= 1 /\ toFind \in Int
  BY ListType, FindAssumption
<1>2. maxInd \in 0..(Len(someList) - 1) /\ (Len(someList) > 1 => maxInd > 0)
  BY <1>1
<1>3. ASSUME NEW k \in 1..(maxInd - 1)
      PROVE  someList[k + 1] <= toFind
  <2>1. k <= minInd /\ minInd > 0 /\ k \in 0..(Len(someList) - 1)
    BY <1>1, <1>2, <1>3
  <2>2. Item(k) <= Item(minInd) /\ Item(k) \in Int /\ Item(minInd) \in Int
    BY <2>1, ListType
  <2> QED
    BY <1>1, <2>1, <2>2 DEF Item
<1> QED
  BY <1>2, <1>3 DEF IsPositionAfter, Item

-----------------------------------------------------------------------------
(* The theorems.                                                           *)

\* Type correctness: the search never leaves the list.
THEOREM TypeCorrect == Spec => []TypeOK
<1>1. Inductive => TypeOK
  BY DEF Inductive
<1> QED
  BY <1>1, InductiveAlways, PTL

\* The search returns the first position, position 0 left out, with a larger
\* item, or the last position (findPositionAfter, lines 45-58).
THEOREM PositionFound == Spec => []FindsPosition
BY InductiveAlways, DecidedFinds, PTL

\* Every turn of the loop halves its range (line 52).
THEOREM RangeHalves == Spec => Halves
<1>1. Inductive /\ [Next]_vars
        => [~done /\ ~done' => 2 * (maxInd' - minInd') <= maxInd - minInd + 1]_vars
  <2> SUFFICES ASSUME Inductive, Next, ~done, ~done'
               PROVE  2 * (maxInd' - minInd') <= maxInd - minInd + 1
    OBVIOUS
  <2>1. Turn /\ maxInd > minInd + 1
    BY DEF Next, Turn, Return, Apart
  <2>2. minInd \in Nat /\ maxInd \in Nat
    BY DEF Inductive, TypeOK
  <2> QED
    BY <2>1, <2>2, Middle DEF Turn
<1> QED
  BY <1>1, InductiveAlways, PTL DEF Spec, Halves
=============================================================================
