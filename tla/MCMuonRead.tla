----------------------------- MODULE MCMuonRead -----------------------------
(* A small data path: records of two bytes, a transfer buffer that stops at *)
(* two of them, a fifo of two.                                              *)
EXTENDS MuonRead

\* A byte, one and a half records, and more than the buffer ever holds.
MCCounts == {1, 3, 8}
=============================================================================
