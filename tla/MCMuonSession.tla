--------------------------- MODULE MCMuonSession ---------------------------
(* Two processes compete for the device; constants for the runs.            *)
EXTENDS MuonSession

AnyFailure == DOMAIN UnwindFrom
NoFailure == {}
IrqFailure == {"irq"}
=============================================================================
