--------------------------- MODULE MCTransferRing ---------------------------
EXTENDS TransferRing
=============================================================================
