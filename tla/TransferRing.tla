---------------------------- MODULE TransferRing ----------------------------
(***************************************************************************)
(* A producer ring of the xHCI driver (Speedup/Bus/Pci/XhciDxe): the       *)
(* command ring, or the transfer ring of one endpoint.  The driver and the *)
(* host controller (the xHC) share its memory and nothing else: a TRB      *)
(* belongs to the xHC when its cycle bit equals the cycle state the xHC    *)
(* expects, and each side inverts that state when it follows the Link TRB  *)
(* in the last slot.  The driver never reads where the xHC is; it learns   *)
(* the free slot from the cycle bits alone (XhcSyncTrsRing).               *)
(*                                                                         *)
(* Every store of the driver that the xHC can observe is an action: the    *)
(* fields of a TRB, its cycle bit, the Link TRB and the cleared slot of a  *)
(* resynchronisation, the doorbell.  The xHC is external and takes its     *)
(* steps at any time in between.                                           *)
(***************************************************************************)
EXTENDS Integers, Sequences

CONSTANTS
  TrbNumber,    \* TRBs in the segment, the Link TRB included
  Trbs,         \* what can be asked of the xHC: the contents of a TRB
  NoTrb,        \* the contents of a cleared TRB
  MaxTd,        \* the longest transfer descriptor, in TRBs
  CommandRing   \* the command ring, or else the transfer ring of an endpoint

ASSUME RingAssumption ==
  /\ TrbNumber \in Nat /\ TrbNumber >= 3
  /\ MaxTd \in Nat \ {0}
  /\ CommandRing \in BOOLEAN
  /\ NoTrb \notin Trbs

VARIABLES
  seg,          \* RingSeg0: the TRB in each slot
  RingEnqueue,  \* the slot the driver fills next, or filled last
  RingPCS,      \* the producer cycle state
  pc,           \* where the driver is in filling or recovering the ring
  todo,         \* TRBs the transfer descriptor under construction still needs
  xDequeue,     \* xHC: the slot it reads next
  xCCS,         \* xHC: the consumer cycle state
  endpoint,     \* xHC: "active", "drained" (waits for the doorbell), "stopped"
  current       \* xHC: the TRB it fetched last

driverVars == <<RingEnqueue, RingPCS, pc, todo>>
xhcVars    == <<xDequeue, xCCS, endpoint, current>>
vars       == <<seg, RingEnqueue, RingPCS, pc, todo, xDequeue, xCCS, endpoint, current>>

Link    == TrbNumber - 1        \* the slot of the Link TRB
Slots   == 0..Link
Flip(c) == 1 - c

-----------------------------------------------------------------------------
(* How many TRBs the xHC still owns, and where they are. *)

Filled  == IF seg[RingEnqueue].cycle = RingPCS THEN 1 ELSE 0
SameLap == xCCS = RingPCS
Pending == IF SameLap THEN RingEnqueue + Filled - xDequeue
                      ELSE Link - xDequeue + RingEnqueue + Filled

PendingSlots ==
  IF SameLap THEN xDequeue..(RingEnqueue + Filled - 1)
             ELSE 0..(RingEnqueue + Filled - 1) \cup xDequeue..(Link - 1)

\* The slot of the i-th pending TRB, the oldest first.
SlotOf(i) == IF xDequeue + i - 1 < Link THEN xDequeue + i - 1
                                        ELSE xDequeue + i - 1 - Link

\* Neither XhcCreateTransferTrb nor XhcCreateCmdTrb looks whether the ring has
\* room: its callers keep few enough TRBs outstanding.  A transfer ring needs
\* one slot more than a command ring, because the synchronisation after the
\* last TRB already clears the next slot.
Capacity == IF CommandRing THEN Link ELSE Link - 1
RoomFor(n) == Pending + n <= Capacity

-----------------------------------------------------------------------------
(* The driver. *)

Least(S) == CHOOSE s \in S : \A t \in S : s <= t

\* Mutant of SyncTrsRing: the Link TRB is not handed over.
SyncTrsRingKeepsLink ==
  LET free == {s \in RingEnqueue..(Link - 1) : seg[s].cycle # RingPCS}
      freeAfterWrap == {s \in 0..(Link - 1) : seg[s].cycle = RingPCS}
  IN  IF free # {}
      THEN /\ RingEnqueue' = Least(free)
           /\ seg' = [seg EXCEPT ![Least(free)].trb = NoTrb]
           /\ UNCHANGED RingPCS
      ELSE /\ RingEnqueue' = Least(freeAfterWrap)
           /\ seg' = [seg EXCEPT ![Least(freeAfterWrap)].trb = NoTrb]
           /\ RingPCS' = Flip(RingPCS)

\* XhcSyncTrsRing: go on from RingEnqueue to the first slot whose cycle bit is
\* not RingPCS, hand over the Link TRB and invert RingPCS when the end of the
\* segment is reached, and clear everything but the cycle bit of that slot.
SyncTrsRing ==
  LET free == {s \in RingEnqueue..(Link - 1) : seg[s].cycle # RingPCS}
      wrapped == [seg EXCEPT ![Link].cycle = RingPCS]
      freeAfterWrap == {s \in 0..(Link - 1) : seg[s].cycle = RingPCS}
  IN  \/ /\ free # {}
         /\ RingEnqueue' = Least(free)
         /\ seg' = [seg EXCEPT ![Least(free)].trb = NoTrb]
         /\ UNCHANGED RingPCS
      \/ /\ free = {}
         /\ RingEnqueue' = Least(freeAfterWrap)
         /\ seg' = [wrapped EXCEPT ![Least(freeAfterWrap)].trb = NoTrb]
         /\ RingPCS' = Flip(RingPCS)

\* XhcCreateTransferTrb or XhcCreateCmdTrb begins a descriptor of n TRBs.
StartTd(n) ==
  /\ pc = "idle"
  /\ CommandRing => n = 1
  /\ RoomFor(n)
  /\ SyncTrsRing
  /\ todo' = n
  /\ pc' = "body"
  /\ UNCHANGED xhcVars

\* The fields of a transfer TRB are stored before its cycle bit; a command TRB
\* is copied whole from a template whose cycle bit is 1.
WriteBody(t) ==
  /\ pc = "body"
  /\ seg' = [seg EXCEPT ![RingEnqueue] =
               [cycle |-> IF CommandRing THEN 1 ELSE @.cycle, trb |-> t]]
  /\ pc' = "cycle"
  /\ UNCHANGED <<RingEnqueue, RingPCS, todo, xDequeue, xCCS, endpoint, current>>

SetCycleBit ==
  /\ pc = "cycle"
  /\ seg' = [seg EXCEPT ![RingEnqueue].cycle = RingPCS]
  /\ pc' = IF CommandRing THEN "doorbell" ELSE "sync"
  /\ UNCHANGED <<RingEnqueue, RingPCS, todo, xDequeue, xCCS, endpoint, current>>

\* A transfer resynchronises after each of its TRBs, the last one included.
SyncAfterTrb ==
  /\ pc = "sync"
  /\ SyncTrsRing
  /\ todo' = todo - 1
  /\ pc' = IF todo = 1 THEN "doorbell" ELSE "body"
  /\ UNCHANGED xhcVars

\* Mutant: the doorbell is rung only to restart a stopped endpoint.
RingDoorBellIfStopped ==
  /\ pc = "doorbell"
  /\ endpoint' = IF endpoint = "stopped" THEN "active" ELSE endpoint
  /\ pc' = "idle"
  /\ UNCHANGED <<seg, RingEnqueue, RingPCS, todo, xDequeue, xCCS, current>>

\* XhcRingDoorBell: a stopped or drained endpoint goes on from xDequeue.
RingDoorBell ==
  /\ pc = "doorbell"
  /\ endpoint' = "active"
  /\ pc' = "idle"
  /\ UNCHANGED <<seg, RingEnqueue, RingPCS, todo, xDequeue, xCCS, current>>

\* The Stop Endpoint or Reset Endpoint command of a recovery has completed.
StopEndpoint ==
  /\ pc = "idle"
  /\ ~CommandRing
  /\ endpoint' = "stopped"
  /\ pc' = "stopped"
  /\ UNCHANGED <<seg, RingEnqueue, RingPCS, todo, xDequeue, xCCS, current>>

\* Mutant: the Dequeue Cycle State is left out of the command.
SetTrDequeuePointerKeepsDCS ==
  /\ pc = "stopped"
  /\ xDequeue' = RingEnqueue
  /\ pc' = "doorbell"
  /\ UNCHANGED <<seg, RingEnqueue, RingPCS, todo, xCCS, endpoint, current>>

\* The Set TR Dequeue Pointer command has completed: everything the driver
\* gave to the xHC and the xHC has not fetched is skipped.
SetTrDequeuePointer ==
  /\ pc = "stopped"
  /\ xDequeue' = RingEnqueue
  /\ xCCS' = RingPCS
  /\ pc' = "doorbell"
  /\ UNCHANGED <<seg, RingEnqueue, RingPCS, todo, endpoint, current>>

\* The Set TR Dequeue Pointer command failed: the recovery gives up, leaves
\* the endpoint stopped and the TRBs where they are.
RecoveryFails ==
  /\ pc = "stopped"
  /\ pc' = "idle"
  /\ UNCHANGED <<seg, RingEnqueue, RingPCS, todo, xDequeue, xCCS, endpoint, current>>

Driver == \/ \E n \in 1..MaxTd : StartTd(n)
          \/ \E t \in Trbs : WriteBody(t)
          \/ SetCycleBit
          \/ SyncAfterTrb
          \/ RingDoorBell
          \/ StopEndpoint
          \/ SetTrDequeuePointer
          \/ RecoveryFails

\* The steps with which the driver finishes what it began: it does not return
\* to its caller between them.
DriverGoesOn == \/ \E t \in Trbs : WriteBody(t)
                \/ SetCycleBit
                \/ SyncAfterTrb
                \/ RingDoorBell

-----------------------------------------------------------------------------
(* The host controller, external to the driver. *)

Owned == seg[xDequeue].cycle = xCCS

FetchTrb ==
  /\ endpoint = "active"
  /\ xDequeue # Link
  /\ Owned
  /\ current' = seg[xDequeue].trb
  /\ xDequeue' = xDequeue + 1
  /\ UNCHANGED <<seg, RingEnqueue, RingPCS, pc, todo, xCCS, endpoint>>

\* The Link TRB has its Toggle Cycle flag set.
FollowLink ==
  /\ endpoint = "active"
  /\ xDequeue = Link
  /\ Owned
  /\ xDequeue' = 0
  /\ xCCS' = Flip(xCCS)
  /\ UNCHANGED <<seg, RingEnqueue, RingPCS, pc, todo, endpoint, current>>

\* A TRB the xHC does not own: it waits for the next doorbell.
Drain ==
  /\ endpoint = "active"
  /\ ~Owned
  /\ endpoint' = "drained"
  /\ UNCHANGED <<seg, RingEnqueue, RingPCS, pc, todo, xDequeue, xCCS, current>>

Xhc == FetchTrb \/ FollowLink \/ Drain

-----------------------------------------------------------------------------
\* CreateTransferRing: all TRBs zero, hence not owned by the xHC.
Init ==
  /\ seg = [s \in Slots |-> [cycle |-> 0, trb |-> NoTrb]]
  /\ RingEnqueue = 0
  /\ RingPCS = 1
  /\ pc = "idle"
  /\ todo = 0
  /\ xDequeue = 0
  /\ xCCS = 1
  /\ endpoint = "drained"
  /\ current = NoTrb

Next == Driver \/ Xhc

SafeSpec == Init /\ [][Next]_vars

\* The driver builds and submits a descriptor in one go, at TPL_NOTIFY; the
\* xHC does not stop working on an active endpoint.
Spec == SafeSpec /\ WF_vars(DriverGoesOn) /\ WF_vars(Xhc)

-----------------------------------------------------------------------------
(* Properties. *)

\* Type invariant of the ring, the driver's cursor and the xHC's.
TypeOK ==
  /\ seg \in [Slots -> [cycle : {0, 1}, trb : Trbs \cup {NoTrb}]]
  /\ RingEnqueue \in 0..(Link - 1)
  /\ RingPCS \in {0, 1}
  /\ pc \in {"idle", "body", "cycle", "sync", "doorbell", "stopped"}
  /\ todo \in Nat
  /\ xDequeue \in Slots
  /\ xCCS \in {0, 1}
  /\ endpoint \in {"active", "drained", "stopped"}
  /\ current \in Trbs \cup {NoTrb}

\* The cycle bits alone tell the two laps apart: the slots before RingEnqueue
\* carry the producer cycle state, those after it and the Link TRB do not.
\* XhcSyncTrsRing relies on it to find the next free slot.
CycleDiscipline ==
  /\ \A s \in 0..(RingEnqueue - 1) : seg[s].cycle = RingPCS
  /\ \A s \in (RingEnqueue + 1)..Link : seg[s].cycle # RingPCS

\* The xHC is never ahead of the driver, and never a whole lap behind it.
ConsumerBehind ==
  IF SameLap THEN xDequeue <= RingEnqueue + Filled
             ELSE RingEnqueue < xDequeue

\* Everything the xHC owns is a TRB the driver finished: it never fetches a
\* cleared or a half-written one.
OwnedAreWritten == \A s \in PendingSlots : seg[s].trb \in Trbs

\* What the driver is about to store always fits behind what the xHC owns.
Building == pc \in {"body", "cycle", "sync"}
RoomKept == Pending + (IF Building THEN todo - Filled ELSE 0) <= Capacity

\* When the slot at RingEnqueue is already handed over.  A transfer ring leaves
\* RingEnqueue on a free slot between transfers, a command ring on the command
\* it submitted last.
EnqueuePhase ==
  /\ pc = "sync" => ~CommandRing /\ Filled = 1
  /\ pc = "body" => Filled = 0
  /\ pc = "cycle" => seg[RingEnqueue].trb \in Trbs
  /\ Building => todo >= 1
  /\ pc = "stopped" => endpoint = "stopped"
  /\ ~CommandRing /\ pc # "sync" => Filled = 0
  /\ CommandRing => /\ pc # "stopped"
                    /\ Building => todo = 1
                    /\ pc = "doorbell" => Filled = 1

\* The inductive invariant: the conjuncts above need one another.
RingInv ==
  TypeOK /\ CycleDiscipline /\ ConsumerBehind /\ OwnedAreWritten /\ RoomKept /\ EnqueuePhase

\* A recovery leaves the xHC nothing of the transfer that timed out or
\* stalled: XhcSetTrDequeuePointer moves it to a slot it does not own.
RecoveryDropsTd == [][SetTrDequeuePointer => Pending' = 0]_vars

\* The ring is a first-in first-out queue of TRBs.
Queue == [i \in 1..Pending |-> seg[SlotOf(i)].trb]

WQ == INSTANCE WorkQueue WITH Items <- Trbs, NoItem <- NoTrb, queue <- Queue,
                              taken <- current, suspended <- (endpoint = "stopped")

\* The ring implements the queue: every TRB the driver completes is fetched
\* once and in order, unless a recovery drops it.
ImplementsQueue == WQ!SafeSpec

\* ... and an endpoint that is not stopped does not leave a TRB unfetched.
ServesQueue == WQ!Spec
=============================================================================
