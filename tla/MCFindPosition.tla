--------------------------- MODULE MCFindPosition ---------------------------
(* All ascending lists of up to eight of four times, equal ones among them.  *)
EXTENDS FindPosition

MCTimes == 1..4
=============================================================================
