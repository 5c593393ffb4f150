---------------------------- MODULE Coincidence ----------------------------
(***************************************************************************)
(* The counting loop of the coincidence counter: events of two detectors,  *)
(* top and bottom, arrive in chunks, the two lists are searched for pairs  *)
(* within the match allowance, and the front of both lists is trimmed.     *)
(*                                                                         *)
(* LineSplit turns chunks into events, FindPosition is the binary search.  *)
(* Here a turn of the loop gets the events of one chunk of each stream.    *)
(* Times are whole microseconds, the resolution of the boards, so that     *)
(* x * 1000 and x * 1000 + 999 nanoseconds are both x.                     *)
(***************************************************************************)
EXTENDS Integers, FiniteSets, Sequences, SequencesExt, FiniteSetsExt, Positions

CONSTANTS Epoch,    \* the time at which the run starts
          Span,     \* bound on the length of the run
          MaxChunk, \* bound on the events in a chunk
          offset    \* COUNTER_CONSTS.matchAllowance

\* Times count from 1970, and no run is nearly as long as that.
ASSUME CounterAssumption ==
  /\ Span \in Nat /\ MaxChunk \in Nat /\ offset \in Nat
  /\ Epoch \in Nat /\ Epoch > Span + offset

Times == (Epoch + 1)..(Epoch + Span)

\* No coincidence yet: the None of minCoincTime.
None == 0

VARIABLES
  dataTop, dataBottom,   \* the lists of pending events
  minCoincTime,          \* the first coincidence
  written,               \* the coincidences in the file, some perhaps twice
  sentTop, sentBottom    \* all events that arrived

vars == <<dataTop, dataBottom, minCoincTime, written, sentTop, sentBottom>>

Init ==
  /\ dataTop = <<>> /\ dataBottom = <<>>
  /\ minCoincTime = None
  /\ written = {}
  /\ sentTop = {} /\ sentBottom = {}

-----------------------------------------------------------------------------
Abs(x) == IF x < 0 THEN -x ELSE x
Near(x, y) == Abs(x - y) <= offset

\* The search of a window that leaves out its upper end.
FindCoincidencesShort(absolute, secondary) ==
  {s \in Range(secondary) : \E a \in Range(absolute) : s \in (a - offset)..(a + offset - 1)}

\* The search of a window that is one microsecond too wide above.
FindCoincidencesWide(absolute, secondary) ==
  {s \in Range(secondary) : \E a \in Range(absolute) : s \in (a - offset)..(a + offset + 1)}

\* findCoincidences: the events of secondary near one of absolute.
FindCoincidences(absolute, secondary) ==
  {s \in Range(secondary) : \E a \in Range(absolute) : s \in (a - offset)..(a + offset)}

\* findPositionAfter(toFind, someList), the result of FindPosition.
FindPositionAfter(toFind, someList) ==
  CHOOSE r \in 0..(Len(someList) - 1) : IsPositionAfter(someList, toFind, r)

\* someList[:n]
Before(someList, n) == SubSeq(someList, 1, n)

\* someList[n:]
From(someList, n) == SubSeq(someList, n + 1, Len(someList))

\* extend at the wrong end, with no sort after it.
MergeInFront(someList, events) == Sorted(events) \o someList

\* extend and sort
Merge(someList, events) == Sorted(Range(someList) \cup events)

\* The coincidences found in a turn go to the file, and their distances from
\* the first one into the list coincidence, which is sorted.
Coincidences(found, first) == {x - first : x \in found}

\* What is left of the two lists after newCoincs were found in them.  The last
\* coincidence is a distance from the first one, the lists hold times.
Trim(newCoincs, absolute, secondary) ==
  IF newCoincs = {} THEN [absolute |-> absolute, secondary |-> secondary]
  ELSE LET first == IF minCoincTime = None THEN Min(newCoincs) ELSE minCoincTime
           lastCoincidence == Max(Coincidences(written \cup newCoincs, first))
           newFirst == FindPositionAfter(lastCoincidence, secondary)
           beforeFirst == FindPositionAfter(lastCoincidence - offset, absolute)
       IN  [absolute |-> From(absolute, beforeFirst + 1),
            secondary |-> From(secondary, newFirst)]

Count(newCoincs) ==
  /\ written' = written \cup newCoincs
  /\ minCoincTime' = IF minCoincTime = None /\ newCoincs # {} THEN Min(newCoincs)
                                                               ELSE minCoincTime

\* A chunk has the next events of its stream, or none when it ended before one
\* was complete.
Chunks(sent) ==
  {c \in SUBSET Times : /\ Cardinality(c) <= MaxChunk
                        /\ \A x \in c, y \in sent : x > y}

\* One turn of the loop.  The list that starts first is the absolute one; there
\* is no turn with an empty list, whose element 0 ends the program.
Turn(eventsTop, eventsBottom) ==
  LET top == Merge(dataTop, eventsTop)
      bottom == Merge(dataBottom, eventsBottom)
  IN  /\ top # <<>> /\ bottom # <<>>
      /\ sentTop' = sentTop \cup eventsTop
      /\ sentBottom' = sentBottom \cup eventsBottom
      /\ IF bottom[1] > top[1]
         THEN LET newCoincs == FindCoincidences(top, bottom)
                  left == Trim(newCoincs, top, bottom)
              IN  /\ Count(newCoincs)
                  /\ dataTop' = left.absolute /\ dataBottom' = left.secondary
         ELSE LET newCoincs == FindCoincidences(bottom, top)
                  left == Trim(newCoincs, bottom, top)
              IN  /\ Count(newCoincs)
                  /\ dataBottom' = left.absolute /\ dataTop' = left.secondary

Next == \E top \in Chunks(sentTop), bottom \in Chunks(sentBottom) : Turn(top, bottom)

Spec == Init /\ [][Next]_vars

-----------------------------------------------------------------------------
(* Properties.                                                             *)

\* Every variable has its type; the lists are in ascending order.
TypeOK ==
  /\ dataTop \in Seq(Times) /\ Ascending(dataTop)
  /\ dataBottom \in Seq(Times) /\ Ascending(dataBottom)
  /\ minCoincTime \in Times \cup {None}
  /\ written \subseteq Times
  /\ sentTop \subseteq Times /\ sentBottom \subseteq Times

\* Whatever is written is an event of one detector, and the other one had an
\* event within the match allowance (lines 60-67, 167, 191).
NothingSpurious ==
  \A c \in written :
    \/ c \in sentTop /\ \E b \in sentBottom : Near(b, c)
    \/ c \in sentBottom /\ \E t \in sentTop : Near(t, c)

\* Two events within the allowance that are in the lists together after a turn
\* were counted, whichever list was the absolute one.
InHandCounted ==
  \A t \in Range(dataTop), b \in Range(dataBottom) :
    Near(t, b) => t \in written \/ b \in written

\* Only the oldest events are ever trimmed: what is in a list is the newest
\* part of what arrived (lines 181, 189, 205, 213).
NewestKept ==
  /\ IsSuffix(dataTop, Sorted(sentTop))
  /\ IsSuffix(dataBottom, Sorted(sentBottom))

\* About_Coincidence_Counting.txt, lines 38-39: two timestamps within the match
\* allowance are "still ... counted as coincident".
EveryPairCounted ==
  \A t \in sentTop, b \in sentBottom :
    Near(t, b) => t \in written \/ b \in written
=============================================================================
