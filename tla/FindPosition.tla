---------------------------- MODULE FindPosition ----------------------------
(***************************************************************************)
(* findPositionAfter of the coincidence counter: a binary search in a list  *)
(* of times in ascending order, which decides what the counter keeps of     *)
(* its event lists.  Positions count from 0, as in the code.                *)
(***************************************************************************)
EXTENDS Integers, Sequences, Positions

CONSTANTS Times,   \* the times an event can have
          MaxLen   \* bound on the length of the list

ASSUME FindAssumption == Times \subseteq Int /\ MaxLen \in Nat

VARIABLES someList, toFind, minInd, maxInd, done

vars == <<someList, toFind, minInd, maxInd, done>>

\* The item at a position of the code's list.
Item(k) == someList[k + 1]

\* The counter sorts its lists before it searches them, and never searches an
\* empty one.
Lists == {s \in UNION {[1..n -> Times] : n \in 1..MaxLen} : Ascending(s)}

\* A search that starts one past the end of the list.
InitPastEnd ==
  /\ someList \in Lists
  /\ toFind \in Times
  /\ minInd = 0
  /\ maxInd = Len(someList)
  /\ done = FALSE

Init ==
  /\ someList \in Lists
  /\ toFind \in Times
  /\ minInd = 0
  /\ maxInd = Len(someList) - 1
  /\ done = FALSE

\* A loop that goes on while two positions are left, too.
ApartByOne == maxInd > minInd

\* The condition of the loop.
Apart == maxInd > minInd + 1

\* A turn that also stops on an item that is equal to the one to find.
TurnAtLeast ==
  LET spot == (maxInd + minInd) \div 2
  IN  /\ ~done /\ Apart
      /\ IF Item(spot) >= toFind THEN maxInd' = spot /\ UNCHANGED minInd
                                 ELSE minInd' = spot /\ UNCHANGED maxInd
      /\ UNCHANGED <<someList, toFind, done>>

\* A turn that gives up only one item of the half it could.
TurnSlow ==
  LET spot == (maxInd + minInd) \div 2
  IN  /\ ~done /\ Apart
      /\ IF Item(spot) > toFind THEN maxInd' = spot /\ UNCHANGED minInd
                                ELSE minInd' = minInd + 1 /\ UNCHANGED maxInd
      /\ UNCHANGED <<someList, toFind, done>>

\* One turn of the loop.
Turn ==
  LET spot == (maxInd + minInd) \div 2
  IN  /\ ~done /\ Apart
      /\ IF Item(spot) > toFind THEN maxInd' = spot /\ UNCHANGED minInd
                                ELSE minInd' = spot /\ UNCHANGED maxInd
      /\ UNCHANGED <<someList, toFind, done>>

\* The loop ends and maxInd is returned.
Return ==
  /\ ~done /\ ~Apart
  /\ done' = TRUE
  /\ UNCHANGED <<someList, toFind, minInd, maxInd>>

Next == Turn \/ Return

Spec == Init /\ [][Next]_vars

\* The search is a plain loop: the process runs it to its end.
FairSpec == Spec /\ WF_vars(Next)

-----------------------------------------------------------------------------
(* Properties.                                                             *)

TypeOK ==
  /\ someList \in Lists
  /\ toFind \in Times
  /\ minInd \in 0..(Len(someList) - 1)
  /\ maxInd \in 0..(Len(someList) - 1)
  /\ done \in BOOLEAN

\* The search returns the first position after position 0 with a larger item,
\* or the last position (lines 45-58), also among items that are equal.
FindsPosition == done => IsPositionAfter(someList, toFind, maxInd)

\* Every turn halves the distance, so that a search takes a number of turns
\* logarithmic in the length of the list (line 52).
Halves ==
  [][~done /\ ~done' => 2 * (maxInd' - minInd') <= maxInd - minInd + 1]_vars

\* The search ends.
Ends == <>done
=============================================================================
