--------------------------- MODULE MCEventServer ---------------------------
EXTENDS EventServer
=============================================================================
