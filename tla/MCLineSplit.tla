---------------------------- MODULE MCLineSplit ----------------------------
(* Streams of six lines of two to four bytes, in chunks of five: a chunk     *)
(* holds one or two newlines and ends at any byte of a line.                 *)
EXTENDS LineSplit

MCLengths == 2..4
=============================================================================
