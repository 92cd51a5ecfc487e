---------------------------- MODULE MCSupervisor -----------------------------
EXTENDS Supervisor
=============================================================================
