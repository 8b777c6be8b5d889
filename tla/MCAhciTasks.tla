----------------------------- MODULE MCAhciTasks -----------------------------
(***************************************************************************)
(* AhciTasks with DMA commands that have a time-out or none, and PIO       *)
(* commands that have one.                                                 *)
(***************************************************************************)
EXTENDS AhciTasks

SomePackets == [kind : {"udma"}, patient : BOOLEAN] \cup [kind : {"pio"}, patient : {FALSE}]
=============================================================================
