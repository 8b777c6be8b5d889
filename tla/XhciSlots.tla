------------------------------ MODULE XhciSlots ------------------------------
(***************************************************************************)
(* The device slots of the xHCI driver: the table Xhc->UsbDevContext, as   *)
(* the functions that search and change it.  The driver has no request to  *)
(* open or close a device; it follows the port status changes that the bus *)
(* driver reads, and hooks its Set_Address, Get_Descriptor and Set_Config  *)
(* requests.  The commands of the xHC are synchronous at TPL_NOTIFY, so    *)
(* each function is one step of the operation that calls it.               *)
(*                                                                         *)
(* Ports are numbered over the whole tree: Up[p] is the port at which the  *)
(* hub of p is attached, 0 if p is a root port.  A port stands for the     *)
(* route string of the device attached to it.                              *)
(***************************************************************************)
EXTENDS Integers, FiniteSets

CONSTANTS
  Up,       \* the tree of ports
  NSlots    \* the device slots of the xHC

Ports == DOMAIN Up
Slots == 1 .. NSlots
PortsOf(q) == {p \in Ports : Up[p] = q}
HubPorts == {q \in Ports : PortsOf(q) # {}}

(* Hubs are attached to root ports: a chain has at most two tiers.         *)
ASSUME TreeAssumption ==
  /\ NSlots \in Nat \ {0}
  /\ Ports \subseteq Nat \ {0} /\ IsFiniteSet(Ports)
  /\ \A p \in Ports : Up[p] = 0 \/ (Up[p] \in Ports /\ Up[Up[p]] = 0)

Least(S) == CHOOSE x \in S : \A y \in S : x <= y

-----------------------------------------------------------------------------
(* An entry of UsbDevContext.  "enabled" and "id" (SlotId # 0) are kept    *)
(* apart: a slot that cannot be disabled loses its id only.  "addr" is     *)
(* BusDevAddr, "route" RouteString, "unit" the device that the command     *)
(* Address Device addressed (none: XhciDevAddr is 0), "desc" tells whether *)
(* the descriptors are there, "eps" the rings of the other endpoints.      *)
(* "hw" is the state of the slot in the xHC.                               *)
Entry(U, A) ==
  [hw : BOOLEAN, enabled : BOOLEAN, id : BOOLEAN, addr : A, route : Ports \cup {0},
   unit : U, desc : BOOLEAN, eps : BOOLEAN]

Unused == [hw |-> FALSE, enabled |-> FALSE, id |-> FALSE, addr |-> 0, route |-> 0,
           unit |-> 0, desc |-> FALSE, eps |-> FALSE]

Live(sl, s) == sl[s].enabled /\ sl[s].id

FirstOr0(S) == IF S = {} THEN 0 ELSE Least(S)

(* XhcBusDevAddrToSlotId and XhcRouteStringToSlotId: 0 if there is none    *)
BusDevAddrToSlotId(sl, a) == FirstOr0({s \in Slots : Live(sl, s) /\ sl[s].addr = a})
RouteStringToSlotId(sl, p) == FirstOr0({s \in Slots : Live(sl, s) /\ sl[s].route = p})

(* The slots of the devices on the downstream ports of the device of s     *)
Downstream(sl, s) == {t \in Slots : Live(sl, t) /\ sl[t].route \in PortsOf(sl[s].route)}

(* Mutant: the slots downstream are left.                                  *)
DisableSlotOnly(sl, s, bad) ==
  IF s \in bad THEN sl
  ELSE [sl EXCEPT ![s] = [@ EXCEPT !.hw = FALSE, !.enabled = FALSE, !.id = FALSE,
                                   !.unit = 0, !.eps = FALSE]]

(* XhcDisableSlotCmd; the xHC refuses the command for the slots of "bad".  *)
(* The entry is not zeroed: its addr stays.                                *)
DisableSlot(sl, s, bad) ==
  LET off(e) == [e EXCEPT !.hw = FALSE, !.enabled = FALSE, !.id = FALSE,
                          !.unit = 0, !.eps = FALSE]
  IN [t \in Slots |->
        CASE t \in Downstream(sl, s) ->
               IF t \in bad THEN [sl[t] EXCEPT !.id = FALSE] ELSE off(sl[t])
          [] t = s /\ t \notin bad -> off(sl[t])
          [] OTHER -> sl[t]]

(* XhcInitializeDeviceSlot: Enable Slot, then Address Device, which fails  *)
(* (unit = 0) if the device does not answer                                *)
InitializeDeviceSlot(sl, p, unit) ==
  LET free == {s \in Slots : ~sl[s].hw}
  IN IF free = {} THEN sl
     ELSE [sl EXCEPT ![Least(free)] =
             [Unused EXCEPT !.hw = TRUE, !.enabled = TRUE, !.id = TRUE,
                            !.route = p, !.unit = unit]]

(* Mutant: a slot is disabled only if a device is there.                   *)
PollPortStatusChangeIfUp(sl, p, change, up, reset, unit, bad) ==
  LET s   == RouteStringToSlotId(sl, p)
      sl1 == IF s = 0 \/ ~up THEN sl ELSE DisableSlot(sl, s, bad)
  IN IF ~change THEN sl
     ELSE IF up /\ reset /\ RouteStringToSlotId(sl1, p) = 0
          THEN InitializeDeviceSlot(sl1, p, unit)
          ELSE sl1

(* XhcPollPortStatusChange, given what the status of port p showed         *)
PollPortStatusChange(sl, p, change, up, reset, unit, bad) ==
  LET s   == RouteStringToSlotId(sl, p)
      sl1 == IF s = 0 THEN sl ELSE DisableSlot(sl, s, bad)
  IN IF ~change THEN sl
     ELSE IF up /\ reset /\ RouteStringToSlotId(sl1, p) = 0
          THEN InitializeDeviceSlot(sl1, p, unit)
          ELSE sl1

(* The hook of Set_Address in XhcControlTransfer, sent to the address 0    *)
SetAddressSlot(sl) == BusDevAddrToSlotId(sl, 0)
SetAddressOk(sl) == SetAddressSlot(sl) # 0 /\ sl[SetAddressSlot(sl)].unit # 0
SetAddress(sl, a) ==
  LET clean == [t \in Slots |->
                  IF ~sl[t].enabled /\ ~sl[t].id /\ sl[t].addr = a
                  THEN [sl[t] EXCEPT !.addr = 0] ELSE sl[t]]
  IN IF SetAddressSlot(sl) = 0 THEN sl
     ELSE IF SetAddressOk(sl) THEN [clean EXCEPT ![SetAddressSlot(sl)].addr = a]
          ELSE clean

(* The hooks of Get_Descriptor and Set_Config: the endpoints are           *)
(* configured from the descriptors that the driver has seen go by.         *)
SawDescriptors(sl, a) == [sl EXCEPT ![BusDevAddrToSlotId(sl, a)].desc = TRUE]
SetConfig(sl, a) ==
  LET s == BusDevAddrToSlotId(sl, a) IN [sl EXCEPT ![s].eps = sl[s].desc]

(* The entry that tells which device an address stood for, enabled or not: *)
(* XhcAsyncInterruptTransfer looks it up before it deletes a request.      *)
HasEntry(sl, a) == \E s \in Slots : sl[s].addr = a
=============================================================================
