---------------------------- MODULE MCMuonDriver ----------------------------
EXTENDS MuonDriver

\* The last acquisition of open() fails, after the fifo was reset.
IrqFailure == {"irq"}
=============================================================================
