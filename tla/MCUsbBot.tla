------------------------------ MODULE MCUsbBot ------------------------------
EXTENDS UsbBot, TLC
=============================================================================
