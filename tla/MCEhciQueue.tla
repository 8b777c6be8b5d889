----------------------------- MODULE MCEhciQueue -----------------------------
EXTENDS EhciQueue
=============================================================================
