------------------------- MODULE MCUsbEnumeration -------------------------
EXTENDS UsbEnumeration, TLC

(* Two root ports, and a port of the hub attached to the first one         *)
Tree == <<0, 0, 1>>
=============================================================================
