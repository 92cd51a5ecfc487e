---------------------------- MODULE MCDaqManager -----------------------------
EXTENDS DaqManager
CONSTANTS r1
=============================================================================
