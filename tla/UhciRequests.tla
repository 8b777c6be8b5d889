---------------------------- MODULE UhciRequests ----------------------------
(***************************************************************************)
(* The asynchronous requests of the UHCI driver, the memory they are made  *)
(* of, and the controller that reads it.  There is no handshake by which   *)
(* the controller tells that it has left a queue head (QH): a request that *)
(* is removed waits for two ticks of the monitor's timer before it is      *)
(* freed (RecycleWait, Recycle).                                           *)
(*                                                                         *)
(* The driver works at TPL_NOTIFY, as do the bus driver that calls it and  *)
(* the monitor.  The exception is UhciCleanDevUp, which frees the requests *)
(* at the level of its caller, while the timer is still armed.             *)
(*                                                                         *)
(* All requests have the interval 1, so that each frame begins with        *)
(* SyncIntQh, then has the QHs of the requests, and CtrlQh (which here     *)
(* stands for BulkQh too) as the end.  A request has a single TD: the      *)
(* clients ask for one packet.                                             *)
(***************************************************************************)
EXTENDS HcMemPool, SequencesExt

CONSTANTS
  Reqs,          \* bound: the UHCI_ASYNC_REQUESTs that exist at a time
  Eps, Hubs,     \* endpoints; those whose callback submits again after an error
  SyncIntQh, CtrlQh, None,
  DataUnits      \* units of a data buffer

ASSUME RequestsAssumption ==
  /\ SyncIntQh \notin Reqs /\ CtrlQh \notin Reqs /\ None \notin Reqs /\ SyncIntQh # CtrlQh
  /\ None \notin Eps /\ Hubs \subseteq Eps /\ DataUnits \in Nat \ {0}

VARIABLES
  pool,       \* Uhc->MemPool
  req,        \* the requests: which list they are in, their endpoint, the
              \* memory of data, QH and TD, and the state of the TD
  list,       \* Uhc->AsyncIntList
  next,       \* QhHw.HorizonLink and NextQh
  hc,         \* the controller: running, at which QH, and whether a frame
              \* began since the last tick
  drv,        \* the driver: "on", "stopping" (UhciCleanDevUp), "off", or
              \* "undefined" once freed memory is used or freed again
  mon,        \* UhciMonitorAsyncReqList: its place, AsyncReq, and Link
  happened    \* history: which of Mishaps happened

vars == <<pool, req, list, next, hc, drv, mon, happened>>

(***************************************************************************)
(* What goes wrong for good:                                               *)
(*   late         a tick was held off, and freed requests in the same      *)
(*                frame as the one before                                  *)
(*   leaked       there was no memory for a request, and its TD stayed     *)
(*   interrupted  the monitor ran amid the loop of UhciRecycleAsyncReq     *)
(*                that UhciCleanDevUp runs                                 *)
(***************************************************************************)
Mishaps == {"late", "leaked", "interrupted"}

NoReq == [at |-> "none", ep |-> None, mem |-> {}, td |-> "active"]
NoMon == [pc |-> "idle", cur |-> None, link |-> None]
AtStart(run) == [run |-> run, at |-> SyncIntQh, fresh |-> FALSE]

In(where) == {r \in Reqs : req[r].at = where}
Live      == Reqs \ In("none")
Schedule  == In("list") \cup {SyncIntQh}     \* the QHs that are linked
Mem(S)    == UNION {req[r].mem : r \in S}

TypeOK ==
  /\ pool.held \subseteq Blocks /\ pool.marked \subseteq Cells
  /\ req \in [Reqs -> [at : {"none", "list", "wait", "recycle"}, ep : Eps \cup {None},
                       mem : SUBSET Cells, td : {"active", "done", "error"}]]
  /\ list \in Seq(Reqs)
  /\ next \in [Reqs \cup {SyncIntQh} -> Reqs \cup {CtrlQh}]
  /\ hc \in [run : BOOLEAN, at : Reqs \cup {SyncIntQh, CtrlQh}, fresh : BOOLEAN]
  /\ drv \in {"on", "stopping", "off", "undefined"}
  /\ mon \in [pc : {"idle", "check", "error", "deleted"},
              cur : Reqs \cup {None}, link : Reqs \cup {None}]
  /\ happened \subseteq Mishaps

Init ==
  /\ pool = NewPool
  /\ req = [r \in Reqs |-> NoReq] /\ list = <<>>
  /\ next = [q \in Reqs \cup {SyncIntQh} |-> CtrlQh]
  /\ hc = AtStart(TRUE)
  /\ drv = "on" /\ mon = NoMon /\ happened = {}

-----------------------------------------------------------------------------
(* The controller.                                                         *)

driverVars == <<pool, list, next, drv, mon, happened>>

(* It executes the TD of a QH, unless the device has no data yet.  If the  *)
(* request is removed meanwhile it stands at the QH until it has written   *)
(* the TD, at which nobody looks any more.                                 *)
HcExecutes ==
  /\ hc.run
  /\ hc.at \in In("list") /\ req[hc.at].td = "active"
  /\ \E td \in {"done", "error"} : req' = [req EXCEPT ![hc.at].td = td]
  /\ UNCHANGED <<hc, driverVars>>

HcMoves ==
  /\ hc.run
  /\ hc.at # CtrlQh
  /\ hc' = [hc EXCEPT !.at = next[hc.at]]
  /\ UNCHANGED <<req, driverVars>>

(* A frame ends after any of its QHs.                                      *)
FrameEnds ==
  /\ hc.run
  /\ hc' = [AtStart(TRUE) EXCEPT !.fresh = TRUE]
  /\ UNCHANGED <<req, driverVars>>

-----------------------------------------------------------------------------
(* Requests are made and removed.                                          *)

(* The memory of a request: the data, then the QH, then the TD; c is what  *)
(* it has so far.  The request itself is not of the pool; if there is none *)
(* the TD is not freed.  Each outcome has no mem if the call fails.        *)
Fails(p, n, c) ==
  IF MayFail(p, n) THEN {[pool |-> FreeMem(p, c), mem |-> {}, leak |-> {}]} ELSE {}
MakeTd(p, c) ==
  Fails(p, 1, c) \cup
  UNION {{[pool |-> t.pool, mem |-> c \cup t.mem, leak |-> {}],
          [pool |-> FreeMem(t.pool, c), mem |-> {}, leak |-> {"leaked"}]} : t \in Allocate(p, 1)}
MakeQh(p, c) ==
  Fails(p, 1, c) \cup UNION {MakeTd(q.pool, c \cup q.mem) : q \in Allocate(p, 1)}
MakeReq(p) ==
  Fails(p, DataUnits, {}) \cup UNION {MakeQh(d.pool, d.mem) : d \in Allocate(p, DataUnits)}

(* Uhci2AsyncInterruptTransfer with a callback, once for an endpoint.  The *)
(* request becomes the head of AsyncIntList, and its QH follows SyncIntQh. *)
Submit(ep) ==
  /\ ep \notin {req[r].ep : r \in In("list")}
  /\ hc.run
  /\ \E m \in MakeReq(pool) :
       /\ m.leak \cap happened = {}     \* bound: one request fails at its end
       /\ pool' = m.pool
       /\ happened' = happened \cup m.leak
       /\ \/ m.mem = {} /\ UNCHANGED <<req, list, next>>
          \/ m.mem # {} /\ \E r \in In("none") :
               /\ req' = [req EXCEPT ![r] = [at |-> "list", ep |-> ep, mem |-> m.mem, td |-> "active"]]
               /\ list' = <<r>> \o list
               /\ next' = [next EXCEPT ![r] = next[SyncIntQh], ![SyncIntQh] = r]
  /\ UNCHANGED <<hc, drv>>

Place(r, l) == CHOOSE i \in DOMAIN l : l[i] = r

(* The predecessors of a QH skip it.  Its own link stays, for the          *)
(* controller that may stand there.                                        *)
Unlink(r) ==
  /\ list' = RemoveAt(list, Place(r, list))
  /\ next' = [q \in DOMAIN next |-> IF q \in Schedule /\ next[q] = r THEN next[r] ELSE next[q]]

(* Mutant: a removed request is freed by the next tick.                    *)
RemoveAsyncReqEarly(ep) ==
  \/ \E r \in In("list") :
       req[r].ep = ep /\ Unlink(r) /\ req' = [req EXCEPT ![r].at = "recycle", ![r].td = "active"]
  \/ ep \notin {req[r].ep : r \in In("list")} /\ UNCHANGED <<req, list, next>>

(* UhciRemoveAsyncReq, UhciUnlinkAsyncReq: it is found by its endpoint.    *)
RemoveAsyncReq(ep) ==
  \/ \E r \in In("list") :
       req[r].ep = ep /\ Unlink(r) /\ req' = [req EXCEPT ![r].at = "wait", ![r].td = "active"]
  \/ ep \notin {req[r].ep : r \in In("list")} /\ UNCHANGED <<req, list, next>>

AtNotify == drv = "on" /\ mon.pc = "idle"

UserSubmits == AtNotify /\ (\E ep \in Eps : Submit(ep)) /\ UNCHANGED mon
UserDeletes ==
  /\ AtNotify
  /\ \E ep \in Eps : RemoveAsyncReq(ep)
  /\ UNCHANGED <<pool, hc, drv, mon, happened>>

(* Uhci2SetState: halted, the controller stands at no QH.                  *)
SetState ==
  /\ AtNotify
  /\ hc' = AtStart(~hc.run)
  /\ UNCHANGED <<pool, req, list, next, drv, mon, happened>>

(* UhciFreeAllAsyncReq and the new frame list; the controller was stopped. *)
FreeAll ==
  /\ pool' = FreeMem(pool, Mem(Live))
  /\ req' = [r \in Reqs |-> NoReq] /\ list' = <<>>
  /\ next' = [q \in DOMAIN next |-> CtrlQh]
  /\ hc' = AtStart(FALSE)

Reset == AtNotify /\ FreeAll /\ UNCHANGED <<drv, mon, happened>>

(* UhciCleanDevUp.  The bus driver has stopped: its transfers are removed. *)
StopBegins ==
  /\ AtNotify /\ In("list") = {}
  /\ hc' = AtStart(FALSE)
  /\ drv' = "stopping"
  /\ UNCHANGED <<pool, req, list, next, mon, happened>>

StopEnds ==
  /\ drv = "stopping"
  /\ FreeAll
  /\ drv' = "off"
  /\ UNCHANGED <<mon, happened>>

-----------------------------------------------------------------------------
(* The monitor.                                                            *)

After(r, l) ==
  LET i == Place(r, l) IN IF i = Len(l) THEN None ELSE l[i + 1]
At(r, l) == [pc |-> "check", cur |-> r, link |-> After(r, l)]

(* Mutant: with no transfer in its list the monitor returns at once.       *)
TimerRunsIfListed == mon.pc = "idle" /\ drv \in {"on", "stopping"} /\ list # <<>>

(* The timer is armed until the device of the driver is freed.             *)
TimerRuns == mon.pc = "idle" /\ drv \in {"on", "stopping"}

(* UhciRecycleAsyncReq, then the begin of the round.  The ticks are as far *)
(* apart as the frames; but one that is held off by the TPL is followed by *)
(* the next one soon.                                                      *)
Tick ==
  /\ TimerRuns
  /\ LET gone == In("recycle")
         late == gone # {} /\ hc.run /\ ~hc.fresh
     IN  /\ pool' = FreeMem(pool, Mem(gone))
         /\ req' = [r \in Reqs |-> IF r \in gone THEN NoReq
                                  ELSE IF r \in In("wait") THEN [req[r] EXCEPT !.at = "recycle"]
                                  ELSE req[r]]
         /\ hc' = [hc EXCEPT !.fresh = FALSE]
         /\ happened' = happened \cup {m \in {"late"} : late}
         /\ drv' = IF hc.at \in gone THEN "undefined" ELSE drv
         /\ mon' = IF list = <<>> \/ hc.at \in gone THEN NoMon ELSE At(Head(list), list)
  /\ UNCHANGED <<list, next>>

(* The loop of UhciCleanDevUp goes on with a request that the tick freed.  *)
TickAmidStop ==
  /\ TimerRuns /\ drv = "stopping"
  /\ In("wait") \cup In("recycle") # {}
  /\ drv' = "undefined" /\ happened' = happened \cup {"interrupted"}
  /\ UNCHANGED <<pool, req, list, next, hc, mon>>

(* Link was read before the callback.                                      *)
Advance(l) == mon' = IF mon.link = None THEN NoMon ELSE At(mon.link, l)

Checking(td) == mon.pc = "check" /\ req[mon.cur].td = td

NotFinished ==
  /\ Checking("active") /\ hc.run
  /\ Advance(list)
  /\ UNCHANGED <<pool, req, list, next, hc, drv, happened>>

(* There is no memory for a copy of the data: the round ends.              *)
NoCopy ==
  /\ Checking("done")
  /\ mon' = NoMon
  /\ UNCHANGED <<pool, req, list, next, hc, drv, happened>>

(* UhciUpdateAsyncReq, and the callback with the data.                     *)
Reports ==
  /\ Checking("done") /\ hc.run
  /\ req' = [req EXCEPT ![mon.cur].td = "active"]
  /\ Advance(list)
  /\ UNCHANGED <<pool, list, next, hc, drv, happened>>

(* The callback is given an error; a controller that does not run is one.  *)
ReportsError ==
  /\ Checking("error") \/ (mon.pc = "check" /\ ~hc.run)
  /\ mon' = [mon EXCEPT !.pc = "error"]
  /\ UNCHANGED <<pool, req, list, next, hc, drv, happened>>

(* The callbacks of the clients delete the request.                        *)
CallbackDeletes ==
  /\ mon.pc = "error"
  /\ RemoveAsyncReq(req[mon.cur].ep)
  /\ mon' = [mon EXCEPT !.pc = "deleted"]
  /\ UNCHANGED <<pool, hc, drv, happened>>

(* The hub's callback submits it again, if Reqs (bound) has one left.      *)
CallbackReturns ==
  /\ mon.pc = "deleted"
  /\ LET ep == req[mon.cur].ep
     IN  \/ ep \in Hubs /\ Submit(ep)
         \/ /\ ep \in Hubs => ~hc.run \/ In("none") = {}
            /\ UNCHANGED <<pool, req, list, next, hc, drv, happened>>
  /\ Advance(list')

-----------------------------------------------------------------------------
Controller == HcExecutes \/ HcMoves \/ FrameEnds
User       == UserSubmits \/ UserDeletes \/ SetState \/ Reset \/ StopBegins
Round      == NotFinished \/ NoCopy \/ Reports \/ ReportsError \/ CallbackDeletes \/ CallbackReturns
Next == Controller \/ User \/ StopEnds \/ Tick \/ TickAmidStop \/ Round

SafeSpec == Init /\ [][Next]_vars

(* The timer keeps expiring, and its handler runs when the TPL is lowered, *)
(* however soon it is raised again; the monitor and the stop of the driver *)
(* go on.  The controller need not.                                        *)
Spec == SafeSpec /\ SF_vars(Tick) /\ WF_vars(Round) /\ WF_vars(StopEnds)

-----------------------------------------------------------------------------
(* Properties.                                                             *)

(* Requests do not share memory, and what they have is marked in the pool: *)
(* no allocation can hand it out again.                                    *)
OneOwner ==
  /\ \A r, s \in Reqs : r # s => req[r].mem \cap req[s].mem = {}
  /\ Mem(Live) \subseteq pool.marked

(* Nothing else is marked, and no block is kept for nothing.               *)
NoneLost ==
  "leaked" \notin happened =>
    /\ pool.marked \subseteq Mem(Live)
    /\ \A b \in pool.held \ {First} : \E x \in pool.marked : x[1] = b

(* The controller finds the listed requests, in the order of the list.     *)
ChainIsList ==
  /\ {list[i] : i \in DOMAIN list} = In("list")
  /\ \A i \in 0 .. Len(list) :
       next[IF i = 0 THEN SyncIntQh ELSE list[i]] = IF i = Len(list) THEN CtrlQh ELSE list[i + 1]

(* What the monitor goes on with is in the list: "this loop must be delete *)
(* safe".                                                                  *)
LinkIsListed == mon.pc # "idle" => mon.link \in In("list") \cup {None}

(* Type correctness, the pool, and the lists of driver and controller.     *)
UhciInv == TypeOK /\ NoneLost /\ ChainIsList /\ LinkIsListed

(* The controller does not stand at a queue head that was freed, unless a  *)
(* tick was held off: what two ticks of waiting are for.                   *)
NoFreedHeld == "late" \notin happened => hc.at \notin In("none")

(* A request that is removed is freed, or the driver's memory is not to be *)
(* relied on any more.                                                     *)
EachIsFreed == \A r \in Reqs : req[r].at = "wait" ~> req[r].at = "none" \/ drv = "undefined"

-----------------------------------------------------------------------------
(* What the source says of itself and the code does not do: TLC refutes it *)
(* under the cfg of the run uhci_requests.                                 *)

(* UhciRecycleAsyncReq: "This guarrantes that each unlink queue head keeps *)
(* existing for at least 50ms, far enough for the hardware to clear its    *)
(* cache."  The timer has a period of 1 ms, and a tick that is held off is *)
(* followed at once by the next.                                           *)
KeptLongEnough == hc.at \notin In("none")

(* UsbHcFreeMem: ASSERT (USB_HC_BIT_IS_SET (...)), of the memory that the  *)
(* stop of the driver frees after the monitor interrupted it.              *)
FreedWasMarked == "interrupted" \notin happened
=============================================================================
