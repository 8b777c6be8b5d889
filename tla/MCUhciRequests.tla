--------------------------- MODULE MCUhciRequests ---------------------------
EXTENDS UhciRequests
=============================================================================
