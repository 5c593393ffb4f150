---------------------------- MODULE MCMuonModule ----------------------------
EXTENDS MuonModule

\* The last acquisition of open() fails, with the timer armed.
IrqFailure == {"irq"}
\* Any step of muon_timer_init fails.
AnyLoadFailure == DOMAIN UnwindFrom
=============================================================================
