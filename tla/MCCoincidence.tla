--------------------------- MODULE MCCoincidence ---------------------------
(* A run of six microseconds.                                             *)
EXTENDS Coincidence
=============================================================================
