----------------------------- MODULE Positions -----------------------------
(* Lists in order, and what the counter's binary search returns of one.     *)
(* Positions count from 0, as in the code.                                  *)
EXTENDS Integers, FiniteSets, Sequences

Ascending(s) == \A i, j \in 1..Len(s) : i < j => s[i] <= s[j]

\* The elements of a finite set of integers in ascending order: number i is the
\* one with i - 1 smaller ones.  (SetToSortSeq rests on an operator of module
\* TLC that has no definition for a proof to use.)
Sorted(S) ==
  [i \in 1..Cardinality(S) |-> CHOOSE x \in S : Cardinality({y \in S : y < x}) = i - 1]

\* r is what the search of x in the ascending list s returns: the position of
\* the first item, the first of all left out, that is larger than x, and the
\* last position when there is none.
IsPositionAfter(s, x, r) ==
  /\ r \in 0..(Len(s) - 1)
  /\ Len(s) > 1 => r > 0
  /\ \A k \in 1..(r - 1) : s[k + 1] <= x
  /\ r < Len(s) - 1 => s[r + 1] > x
=============================================================================
