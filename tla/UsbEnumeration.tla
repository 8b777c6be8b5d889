--------------------------- MODULE UsbEnumeration ---------------------------
(***************************************************************************)
(* The USB bus driver's enumeration over the slots of the xHCI driver.     *)
(* Devices are plugged and unplugged at any time.  A timer enumerates the  *)
(* root hub's ports; the interrupt endpoint of another hub tells which of  *)
(* its ports changed (UsbOnHubInterrupt, at TPL_NOTIFY), and an event      *)
(* enumerates those.  Both enumerations run at TPL_CALLBACK, one at a      *)
(* time; between two requests to the host controller driver they can be    *)
(* preempted by the monitor, and the world may change.                     *)
(*                                                                         *)
(* A change is reported once: whoever reads the status of a port clears    *)
(* its change bits, in XhcGetRootHubPortStatus or in the Get_Status hook   *)
(* of XhcControlTransfer, and makes the slot follow the port.              *)
(***************************************************************************)
EXTENDS XhciSlots

CONSTANTS
  NAddrs,       \* addresses of the bus (Bus->MaxDevices - 1)
  MaxPlugs,     \* bound: devices plugged in
  MaxUnplugs,   \* bound: devices unplugged
  MaxResets,    \* bound: calls of UsbIoPortReset
  Faults,       \* the kinds of failure that may happen, each once
  MaxFaults     \* bound: how many do

Addrs == 1 .. NAddrs
Units == 1 .. MaxPlugs
FaultKinds == {"address", "disable", "disconnect", "interrupt", "status", "xfer"}

ASSUME EnumerationAssumption ==
  /\ NAddrs \in Nat \ {0} /\ MaxPlugs \in Nat /\ MaxUnplugs \in Nat /\ MaxResets \in Nat
  /\ Faults \subseteq FaultKinds /\ MaxFaults \in Nat

VARIABLES
  port,      \* what the hardware of each port shows
  slots,     \* Xhc->UsbDevContext
  dev,       \* Bus->Devices, without the root hub
  urb,       \* the hub's request in Xhc->AsyncIntTransfers, by bus address:
             \* "none", "polling", "failed" (completed with an error) or
             \* "halted" (submitted to an endpoint that is halted)
  map,       \* HubIf->ChangeMap, {} for NULL
  notify,    \* the hubs whose HubNotify is signalled
  job,       \* the enumeration that runs
  count,     \* what has been plugged, unplugged, reset and failed so far
  missed,    \* history: ports whose last change led to no enumeration, or
             \* whose device was given up
  orphan     \* history: an enumeration was given up after the reset of the
             \* port, which makes the slot, with no address for the slot

vars == <<port, slots, dev, urb, map, notify, job, count, missed, orphan>>
history == <<missed, orphan>>
busVars == <<dev, urb, map, notify>>

NoDev == [used |-> FALSE, port |-> 0, parent |-> 0, config |-> FALSE,
          hub |-> FALSE, fail |-> FALSE]
Idle  == [pc |-> "idle", hub |-> 0, port |-> 0, on |-> FALSE, reset |-> FALSE, child |-> 0]
Steps == {"idle", "port", "status", "remove", "reset", "wait", "create", "address",
          "configure", "connect", "clear"}

TypeOK ==
  /\ port \in [Ports -> [unit : {0} \cup Units, enable : BOOLEAN, csc : BOOLEAN, prc : BOOLEAN]]
  /\ slots \in [Slots -> Entry({0} \cup Units, {0} \cup Addrs)]
  /\ dev \in [Addrs -> [used : BOOLEAN, port : Ports \cup {0}, parent : {0} \cup Addrs,
                        config : BOOLEAN, hub : BOOLEAN, fail : BOOLEAN]]
  /\ urb \in [Addrs -> {"none", "polling", "failed", "halted"}]
  /\ map \in [Addrs -> SUBSET Ports] /\ notify \subseteq Addrs
  /\ job \in [pc : Steps, hub : {0} \cup Addrs, port : Ports \cup {0}, on : BOOLEAN,
              reset : BOOLEAN, child : {0} \cup Addrs]
  /\ count \in [plug : 0 .. MaxPlugs, unplug : 0 .. MaxUnplugs, reset : 0 .. MaxResets,
                failed : SUBSET Faults]
  /\ missed \subseteq Ports /\ orphan \in BOOLEAN

Init ==
  /\ port = [p \in Ports |-> [unit |-> 0, enable |-> FALSE, csc |-> FALSE, prc |-> FALSE]]
  /\ slots = [s \in Slots |-> Unused]
  /\ dev = [a \in Addrs |-> NoDev]
  /\ urb = [a \in Addrs |-> "none"]
  /\ map = [a \in Addrs |-> {}] /\ notify = {}
  /\ job = Idle
  /\ count = [plug |-> 0, unplug |-> 0, reset |-> 0, failed |-> {}]
  /\ missed = {} /\ orphan = FALSE

(* Either all goes well, or a failure of this kind happens                 *)
Well == UNCHANGED count
Fault(kind) ==
  /\ kind \in Faults \ count.failed /\ Cardinality(count.failed) < MaxFaults
  /\ count' = [count EXCEPT !.failed = @ \cup {kind}]
(* ... or must happen, since what is asked is gone.                        *)
MustOrMayFail(kind, gone) == \/ gone /\ Well
                             \/ ~gone /\ Fault(kind)

-----------------------------------------------------------------------------
(* The world.                                                              *)

Plug(p) ==
  /\ port[p].unit = 0 /\ count.plug < MaxPlugs
  /\ Up[p] # 0 => port[Up[p]].unit # 0
  /\ port' = [port EXCEPT ![p].unit = count.plug + 1, ![p].csc = TRUE]
  /\ count' = [count EXCEPT !.plug = @ + 1]
  /\ UNCHANGED <<slots, busVars, job, history>>

(* What is attached to a hub goes with it.                                 *)
Unplug(p) ==
  /\ port[p].unit # 0 /\ count.unplug < MaxUnplugs
  /\ port' = [q \in Ports |->
       CASE q = p -> [unit |-> 0, enable |-> FALSE, csc |-> TRUE, prc |-> port[p].prc]
         [] Up[q] = p -> [unit |-> 0, enable |-> FALSE, csc |-> FALSE, prc |-> FALSE]
         [] OTHER -> port[q]]
  /\ count' = [count EXCEPT !.unplug = @ + 1]
  /\ UNCHANGED <<slots, busVars, job, history>>

(* Driving the reset of a port: the device gets the address 0 and the      *)
(* ports of a hub see their devices anew.                                  *)
ResetHw(pt, p) ==
  IF pt[p].unit = 0 THEN pt
  ELSE [q \in Ports |->
          CASE q = p -> [pt[q] EXCEPT !.enable = TRUE, !.prc = TRUE]
            [] Up[q] = p /\ pt[q].unit # 0 -> [pt[q] EXCEPT !.enable = FALSE, !.csc = TRUE]
            [] OTHER -> pt[q]]

(* A control transfer to the address a can reach the device it was given   *)
Answers(a) ==
  LET s == BusDevAddrToSlotId(slots, a)
  IN s # 0 /\ slots[s].unit # 0 /\ port[slots[s].route].unit = slots[s].unit

-----------------------------------------------------------------------------
(* The status of a port: read, cleared, and followed by the slot.  "ok":   *)
(* the device answers Address Device; "bad": the slots not disabled.       *)
Change(p) == port[p].csc \/ port[p].prc

Follow(sl, pt, p, ok, bad) ==
  PollPortStatusChange(sl, p, pt[p].csc \/ pt[p].prc, pt[p].unit # 0 /\ pt[p].enable,
                       pt[p].prc, IF ok THEN pt[p].unit ELSE 0, bad)
Cleared(pt, p) == [pt EXCEPT ![p].csc = FALSE, ![p].prc = FALSE]

GetPortStatus(p) ==
  /\ port' = Cleared(port, p)
  /\ \/ Well /\ slots' = Follow(slots, port, p, TRUE, {})
     \/ Fault("address") /\ slots' = Follow(slots, port, p, FALSE, {})
     \/ Fault("disable") /\ \E s \in Slots : slots' = Follow(slots, port, p, TRUE, {s})

(* A hub other than the root hub answers with a control transfer, which    *)
(* may fail.  (Another device that got the address of the hub refuses it.) *)
CanAsk(h) == h # 0 => Answers(h) /\ slots[BusDevAddrToSlotId(slots, h)].route = dev[h].port
StatusFails(h) ==
  /\ h # 0
  /\ MustOrMayFail("status", ~CanAsk(h))
  /\ UNCHANGED <<port, slots>>

-----------------------------------------------------------------------------
(* The table of devices.                                                   *)

FindChild(h, p) == FirstOr0({a \in Addrs : dev[a].used /\ dev[a].parent = h /\ dev[a].port = p})

(* UsbHubRelease deletes the request of the hub; the host controller       *)
(* driver must know the address and find the request.                      *)
CanRelease(a) == HasEntry(slots, a) /\ urb[a] # "none"

Children(a) == {c \in Addrs : dev[c].used /\ dev[c].parent = a}

(* Mutant: the request of a hub is not deleted with it.                    *)
RemoveDeviceKeepsRequest(a, busy) ==
  LET gone == Children(a) \cup {a}
  IN /\ dev' = [c \in Addrs |-> IF c \in gone THEN NoDev ELSE dev[c]]
     /\ map' = [c \in Addrs |-> IF c \in gone THEN {} ELSE map[c]]
     /\ notify' = notify \ gone /\ UNCHANGED urb

(* UsbRemoveDevice; the drivers of the devices in "busy" cannot be         *)
(* disconnected.                                                           *)
RemoveDevice(a, busy) ==
  LET stay(c) == dev[c].config /\ ~dev[c].hub /\ c \in busy
      kept  == {c \in Children(a) : stay(c)}
      fails == kept = {} /\ (stay(a) \/ (dev[a].hub /\ ~CanRelease(a)))
      gone  == (Children(a) \ kept) \cup (IF kept = {} /\ ~fails THEN {a} ELSE {})
  IN /\ dev' = [c \in Addrs |->
          CASE c \in gone -> NoDev
            [] c \in kept \/ (c = a /\ fails) -> [dev[c] EXCEPT !.fail = TRUE]
            [] OTHER -> dev[c]]
     /\ urb' = [c \in Addrs |-> IF c \in gone THEN "none" ELSE urb[c]]
     /\ map' = [c \in Addrs |-> IF c \in gone THEN {} ELSE map[c]]
     /\ notify' = notify \ gone

Remove(a) == \/ Well /\ RemoveDevice(a, {})
             \/ Fault("disconnect") /\ \E c \in Children(a) \cup {a} : RemoveDevice(a, {c})

-----------------------------------------------------------------------------
(* An enumeration visits the ports of its hub in order, or those that the  *)
(* change map shows at that time.                                          *)

Reported(h) == IF h = 0 THEN PortsOf(0) ELSE map[h] \cap PortsOf(dev[h].port)

(* Mutant: the last port of a hub is left out.                             *)
NextPortOffByOne(h, p) ==
  LET later == {q \in Reported(h) : q > p + 1}
  IN IF later = {} THEN Idle ELSE [Idle EXCEPT !.pc = "port", !.hub = h, !.port = Least(later)]

NextPort(h, p) ==
  LET later == {q \in Reported(h) : q > p}
  IN IF later = {} THEN Idle ELSE [Idle EXCEPT !.pc = "port", !.hub = h, !.port = Least(later)]

(* The port is done.  UsbHubEnumeration ends by freeing the change map.    *)
Advance ==
  /\ job' = NextPort(job.hub, job.port)
  /\ map' = IF job'.pc = "idle" /\ job.hub # 0 THEN [map EXCEPT ![job.hub] = {}] ELSE map

(* UsbRootHubEnumeration, called by its timer                              *)
RootTimer ==
  /\ job.pc = "idle"
  /\ job' = NextPort(0, 0)
  /\ UNCHANGED <<port, slots, busVars, count, history>>

(* UsbHubEnumeration first tries again to remove what it could not remove: *)
(* no hubs, in a tree of two tiers.                                        *)
Retry(h) == {a \in Children(h) : dev[a].fail}

HubEvent(h) ==
  /\ job.pc = "idle" /\ h \in notify
  /\ \E kept \in SUBSET Retry(h) :
       /\ \/ kept = {} /\ Well
          \/ Cardinality(kept) = 1 /\ Fault("disconnect")
       /\ dev' = [a \in Addrs |-> IF a \in Retry(h) \ kept THEN NoDev ELSE dev[a]]
  /\ notify' = notify \ {h}
  /\ job' = NextPort(h, 0)
  /\ UNCHANGED <<port, slots, urb, map, history>>

-----------------------------------------------------------------------------
(* UsbEnumeratePort and UsbEnumerateNewDev.                                *)

(* The root hub's enumeration tries again port by port.                    *)

RetryDue == LET child == FindChild(0, job.port)
            IN job.pc = "port" /\ job.hub = 0 /\ child # 0 /\ dev[child].fail
StatusDue == job.pc = "status" \/ (job.pc = "port" /\ ~RetryDue)

RetryPort ==
  /\ RetryDue /\ Remove(FindChild(0, job.port))
  /\ job' = [job EXCEPT !.pc = "status"]
  /\ UNCHANGED <<port, slots, history>>

PortStatus ==
  LET p == job.port IN
  /\ StatusDue
  /\ \/ /\ CanAsk(job.hub) /\ GetPortStatus(p)
        /\ missed' = IF Change(p) THEN missed \ {p} ELSE missed
        /\ IF Change(p)
           THEN /\ job' = [job EXCEPT !.pc = "remove", !.on = port[p].unit # 0, !.reset = port[p].prc]
                /\ UNCHANGED map
           ELSE Advance
     \/ StatusFails(job.hub) /\ Advance /\ UNCHANGED missed
  /\ UNCHANGED <<dev, urb, notify, orphan>>

RemoveOld ==
  LET child == FindChild(job.hub, job.port) IN
  /\ job.pc = "remove"
  /\ IF child = 0 THEN Well /\ UNCHANGED busVars ELSE Remove(child)
  /\ job' = [job EXCEPT !.pc = IF ~job.on THEN "clear" ELSE IF job.reset THEN "create" ELSE "reset"]
  /\ UNCHANGED <<port, slots, history>>

(* The enumeration of the device is given up.                              *)
GiveUp == job' = [job EXCEPT !.pc = "clear"] /\ missed' = missed \cup {job.port}
          /\ orphan' = (orphan \/ job.pc \in {"wait", "create", "address"})
GoOn(pc) == job' = [job EXCEPT !.pc = pc] /\ UNCHANGED history

ResetPort ==
  /\ job.pc = "reset"
  /\ \/ CanAsk(job.hub) /\ Well /\ port' = ResetHw(port, job.port) /\ GoOn("wait") /\ UNCHANGED slots
     \/ StatusFails(job.hub) /\ GiveUp
  /\ UNCHANGED busVars

(* The root hub waits for the reset bit to go, the others for the change   *)
(* bit to come, or for the time-out.                                       *)
WaitReset ==
  /\ job.pc = "wait"
  /\ \/ /\ CanAsk(job.hub) /\ GetPortStatus(job.port)
        /\ IF job.hub = 0 \/ port[job.port].prc THEN GoOn("create") ELSE GoOn("wait") \/ GiveUp
     \/ StatusFails(job.hub) /\ GiveUp
  /\ UNCHANGED busVars

FreeAddr == FirstOr0({a \in Addrs : ~dev[a].used})

(* UsbCreateDevice, and the status of the port again                       *)
CreateDevice ==
  /\ job.pc = "create"
  /\ \/ /\ CanAsk(job.hub) /\ GetPortStatus(job.port)
        /\ CASE port[job.port].unit = 0 -> GoOn("clear")
             [] port[job.port].unit # 0 /\ FreeAddr = 0 -> GiveUp
             [] OTHER -> GoOn("address")
     \/ StatusFails(job.hub) /\ GiveUp
  /\ UNCHANGED busVars

(* UsbSetAddress; the device is entered into the table even if it fails.   *)
AssignAddress ==
  LET a == FreeAddr IN
  /\ job.pc = "address"
  /\ slots' = SetAddress(slots, a)
  /\ dev' = [dev EXCEPT ![a] = [NoDev EXCEPT !.used = TRUE, !.port = job.port, !.parent = job.hub]]
  /\ IF SetAddressOk(slots)
     THEN job' = [job EXCEPT !.pc = "configure", !.child = a] /\ UNCHANGED history
     ELSE GiveUp
  /\ UNCHANGED <<port, urb, map, notify, count>>

(* UsbGetMaxPacketSize0, UsbBuildDescTable, UsbSetConfig                   *)
Configure ==
  LET a == job.child IN
  /\ job.pc = "configure"
  /\ \/ Answers(a) /\ Well /\ slots' = SetConfig(SawDescriptors(slots, a), a) /\ GoOn("connect")
     \/ /\ MustOrMayFail("xfer", ~Answers(a)) /\ GiveUp
        /\ \/ UNCHANGED slots
           \/ Answers(a) /\ slots' = SawDescriptors(slots, a)
  /\ UNCHANGED <<port, busVars>>

(* UsbSelectConfig, UsbConnectDriver, UsbHubInit.  A hub whose descriptor  *)
(* cannot be read is not a hub to the bus.  The request of its interrupt   *)
(* endpoint is submitted only if the slot is enabled, and no error is      *)
(* returned if it is not.                                                  *)
Connect ==
  LET a == job.child
      h == job.port \in HubPorts
  IN /\ job.pc = "connect"
     /\ \/ ~h /\ dev' = [dev EXCEPT ![a].config = TRUE] /\ Well /\ GoOn("clear") /\ UNCHANGED urb
        \/ /\ h /\ Answers(a) /\ Well
           /\ dev' = [dev EXCEPT ![a].config = TRUE, ![a].hub = TRUE]
           /\ urb' = [urb EXCEPT ![a] = "polling"]
           /\ GoOn("clear")
        \/ /\ h /\ MustOrMayFail("xfer", ~Answers(a))
           /\ dev' = [dev EXCEPT ![a].config = TRUE]
           /\ GiveUp /\ UNCHANGED urb
     /\ UNCHANGED <<port, slots, map, notify>>

(* HubApi->ClearPortChange reads the status once more: a new change of the *)
(* connection is cleared with the rest.                                    *)
ClearPortChange ==
  /\ job.pc = "clear"
  /\ \/ /\ CanAsk(job.hub) /\ GetPortStatus(job.port)
        /\ missed' = IF port[job.port].csc THEN missed \cup {job.port} ELSE missed
     \/ StatusFails(job.hub) /\ UNCHANGED missed
  /\ Advance
  /\ UNCHANGED <<dev, urb, notify, orphan>>

Enumerate ==
  \/ RetryPort \/ PortStatus \/ RemoveOld \/ ResetPort \/ WaitReset
  \/ CreateDevice \/ AssignAddress \/ Configure \/ Connect \/ ClearPortChange

-----------------------------------------------------------------------------
(* The interrupt endpoint of a hub, whose request the monitor checks.      *)

(* UsbOnHubInterrupt, with the data of a hub that has changes to report.   *)
(* A map that was not handled yet is replaced.                             *)
HubReports(a) ==
  LET changed == {p \in PortsOf(dev[a].port) : Change(p)}
  IN /\ urb[a] = "polling" /\ CanAsk(a) /\ changed # {}
     /\ ~(map[a] = changed /\ a \in notify)
     /\ map' = [map EXCEPT ![a] = changed]
     /\ notify' = notify \cup {a}
     /\ UNCHANGED <<port, slots, dev, urb, job, count, history>>

(* The transfer fails: its endpoint is halted.                             *)
HubFails(a) ==
  /\ urb[a] = "polling" /\ BusDevAddrToSlotId(slots, a) # 0
  /\ MustOrMayFail("interrupt", ~Answers(a))
  /\ urb' = [urb EXCEPT ![a] = "failed"]
  /\ UNCHANGED <<port, slots, dev, map, notify, job, history>>

(* UsbOnHubInterrupt, with an error: delete the request and submit a new   *)
(* one, which no one serves on a halted endpoint and which is not          *)
(* submitted at all if the slot is disabled.                               *)
HubError(a) ==
  /\ urb[a] = "failed" /\ HasEntry(slots, a)
  /\ urb' = [urb EXCEPT ![a] = IF BusDevAddrToSlotId(slots, a) = 0 THEN "none" ELSE "halted"]
  /\ UNCHANGED <<port, slots, dev, map, notify, job, count, history>>

Monitor == \E a \in Addrs : HubReports(a) \/ HubFails(a) \/ HubError(a)

-----------------------------------------------------------------------------
(* UsbIoPortReset, called by the driver of a device: at TPL_NOTIFY all the *)
(* way.  The port is reset and its changes cleared, the slot is made anew, *)
(* and the device gets its address again.  The last step configures the    *)
(* endpoints from the descriptors the new slot has seen: none.             *)
PortReset(a) ==
  LET p   == dev[a].port
      pt  == ResetHw(port, p)
      sl  == Follow(slots, pt, p, TRUE, {})
      sl2 == SetAddress(sl, a)
  IN /\ job.pc = "idle" /\ dev[a].config /\ ~dev[a].hub
     /\ count.reset < MaxResets /\ CanAsk(dev[a].parent)
     /\ count' = [count EXCEPT !.reset = @ + 1]
     /\ port' = Cleared(pt, p)
     /\ slots' = IF dev[a].parent # 0 /\ port[p].unit = 0 THEN sl      \* EFI_TIMEOUT
                 ELSE IF ~SetAddressOk(sl) THEN sl2 ELSE SetConfig(sl2, a)
     /\ missed' = IF port[p].csc \/ ~SetAddressOk(sl) THEN missed \cup {p} ELSE missed
     /\ UNCHANGED <<busVars, job, orphan>>

-----------------------------------------------------------------------------
World == \E p \in Ports : Plug(p) \/ Unplug(p)

Next ==
  \/ World \/ RootTimer \/ Enumerate \/ Monitor
  \/ \E a \in Addrs : HubEvent(a) \/ PortReset(a)

SafeSpec == Init /\ [][Next]_vars

(* The timers run, and so do the events they signal: an enumeration goes   *)
(* on, the monitor completes what the xHC has completed, and the event of  *)
(* a hub is not delayed for ever by the timer, whose next event is queued  *)
(* behind it.                                                              *)
Spec ==
  /\ SafeSpec
  /\ WF_vars(RootTimer) /\ WF_vars(Enumerate)
  /\ \A a \in Addrs : /\ SF_vars(HubEvent(a))
                      /\ WF_vars(HubReports(a)) /\ WF_vars(HubError(a))
-----------------------------------------------------------------------------
(* Properties.                                                             *)

(* What the drivers do not recover from: a slot that waits for its         *)
(* Set_Address for ever, and a slot or a driver that stays when its device *)
(* is gone.                                                                *)
Orderly == ~orphan /\ {"disable", "disconnect"} \cap count.failed = {}

(* The address that the bus driver gave a device leads the host controller *)
(* driver to the slot of the port where the bus driver found the device:   *)
(* Set_Address in XhcControlTransfer takes the first slot without an       *)
(* address, so there is only one.                                          *)
AddressNamesItsDevice ==
  Orderly => \A a \in Addrs : dev[a].used /\ BusDevAddrToSlotId(slots, a) # 0 =>
               slots[BusDevAddrToSlotId(slots, a)].route = dev[a].port

(* No two enabled slots answer for one address, of which                   *)
(* XhcBusDevAddrToSlotId takes the first, and none for one port.           *)
SlotsAreUnique ==
  \A s, t \in Slots : Live(slots, s) /\ Live(slots, t) /\ s # t =>
    /\ slots[s].route # slots[t].route
    /\ Orderly /\ slots[s].addr = slots[t].addr => slots[s].addr = 0

(* A device behind a hub has a slot only while its hub has one             *)
(* (XhcDisableSlotCmd disables the slots downstream first; the assertion   *)
(* on ParentSlotId in XhcInitializeDeviceSlot).                            *)
SlotsFollowTree ==
  \A s \in Slots : Live(slots, s) /\ Up[slots[s].route] # 0 =>
                     RouteStringToSlotId(slots, Up[slots[s].route]) # 0

(* The host controller driver's table, to be searched by address, by port  *)
(* and by hub                                                              *)
SlotsMatchPorts == SlotsAreUnique /\ SlotsFollowTree

(* Each device of the table is attached to a hub of the table, and there   *)
(* is one for each port (UsbFindChild returns the first), as long as the   *)
(* devices that are gone could be removed.                                 *)
TableIsTree ==
  (\A a \in Addrs : ~dev[a].fail) /\ Orderly =>
    \A a \in Addrs : dev[a].used =>
      /\ dev[a].parent = 0 \/ (dev[dev[a].parent].hub /\ dev[dev[a].parent].port = Up[dev[a].port])
      /\ \A b \in Addrs : dev[b].used /\ dev[b].port = dev[a].port => b = a

(* The interface of a hub, the context of UsbOnHubInterrupt, lives as long *)
(* as its request is in the host controller driver's list.                 *)
RequestHasHub == \A a \in Addrs : urb[a] # "none" => dev[a].hub

(* The bus driver's tables, at every step of an enumeration                *)
BusInv == TypeOK /\ TableIsTree /\ RequestHasHub

(* A port whose last change was acted upon, as was that of its hub, comes  *)
(* to be what the bus driver takes it for: the device is configured and    *)
(* has the slot, or the table has none for the port.  The exceptions are   *)
(* the ports of a hub whose request is no longer served, and those where   *)
(* a device that is gone could not be removed.                             *)
Known(p) == \E a \in Addrs : dev[a].used /\ dev[a].port = p
Served(p) ==
  \E a \in Addrs : /\ dev[a].config /\ dev[a].port = p /\ Answers(a)
                   /\ BusDevAddrToSlotId(slots, a) = RouteStringToSlotId(slots, p)
Deaf(q) == \E a \in Addrs : dev[a].hub /\ dev[a].port = q /\ urb[a] # "polling"
Stuck(p) == \E a \in Addrs : dev[a].fail /\ dev[a].port = p
Seen(p) == IF port[p].unit = 0 THEN ~Known(p) ELSE Served(p)
Excused(p) == \E q \in {p, Up[p]} \ {0} : q \in missed \/ Stuck(q) \/ (q # p /\ Deaf(q))

Settles == \A p \in Ports : []<>(Orderly => Seen(p) \/ Excused(p))

-----------------------------------------------------------------------------
(* What the source says of itself and the code does not do: TLC refutes    *)
(* each of these when it is added to the cfg of the run usb_enum.          *)

(* A hub of the table can be released: its request is in the list, since   *)
(* UsbOnHubInterrupt submits it again, and the entry of its address is     *)
(* kept for the deletion of the request after the slot is disabled         *)
(* (XhcDisableSlotCmd).                                                    *)
HubReleasable == \A a \in Addrs : dev[a].hub => CanRelease(a)

(* After a reset of its port, "device is in CONFIGURED state"              *)
(* (UsbIoPortReset): the slot that serves a device has its endpoints.      *)
ConfiguredHasEndpoints ==
  \A a \in Addrs : dev[a].config /\ Answers(a) => slots[BusDevAddrToSlotId(slots, a)].eps
=============================================================================
