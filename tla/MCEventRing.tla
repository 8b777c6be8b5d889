---------------------------- MODULE MCEventRing ----------------------------
EXTENDS EventRing
=============================================================================
