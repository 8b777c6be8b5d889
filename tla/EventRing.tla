------------------------------ MODULE EventRing ------------------------------
(***************************************************************************)
(* The event ring of the xHCI driver.  Here the xHC produces and the       *)
(* driver consumes: XhcCheckUrbResult finds the new events by their cycle  *)
(* bits (XhcSyncEventRing), takes them one by one (XhcCheckNewEvent) and   *)
(* at its exit tells the xHC how far it came, in the ERDP register.  An    *)
(* event that reports an error ends the call at once, the events behind it *)
(* are left to a later call.  The ring has no Link TRB: both sides invert  *)
(* their cycle state when they pass its last slot.                         *)
(*                                                                         *)
(* The xHC posts events at any time, also between two steps of the driver. *)
(***************************************************************************)
EXTENDS Integers, Sequences

CONSTANTS
  TrbNumber,   \* slots of the event ring
  Events,      \* what an event reports
  Errors,      \* the events at which XhcCheckUrbResult goes to its exit
  NoEvent      \* the contents of a slot no event was posted to

ASSUME EventRingAssumption ==
  /\ TrbNumber \in Nat /\ TrbNumber >= 2
  /\ Errors \subseteq Events
  /\ NoEvent \notin Events

VARIABLES
  seg,                \* EventRingSeg0
  EventRingDequeue,   \* the slot of the next event to handle
  EventRingEnqueue,   \* one past the last event the scan found
  EventRingCCS,       \* the consumer cycle state
  pc,                 \* "idle", "handle" (events found), "exit"
  ERDP,               \* the dequeue pointer the driver has written to the xHC
  xEnqueue,           \* xHC: the slot it writes next
  xPCS,               \* xHC: its producer cycle state
  handled,            \* the event handled last
  lap                 \* history: the cycle state of the lap of EventRingDequeue

driverVars == <<EventRingDequeue, EventRingEnqueue, EventRingCCS, pc, ERDP, handled, lap>>
vars == <<seg, EventRingDequeue, EventRingEnqueue, EventRingCCS, pc, ERDP,
          xEnqueue, xPCS, handled, lap>>

Slots   == 0..(TrbNumber - 1)
Flip(c) == 1 - c
Succ(s) == IF s = TrbNumber - 1 THEN 0 ELSE s + 1

-----------------------------------------------------------------------------
(* The host controller, external to the driver. *)

\* The ring is full when one more event would reach ERDP: the xHC waits.
Full == Succ(xEnqueue) = ERDP

Post(e) ==
  /\ ~Full
  /\ seg' = [seg EXCEPT ![xEnqueue] = [cycle |-> xPCS, event |-> e]]
  /\ xEnqueue' = Succ(xEnqueue)
  /\ xPCS' = IF Succ(xEnqueue) = 0 THEN Flip(xPCS) ELSE xPCS
  /\ UNCHANGED driverVars

-----------------------------------------------------------------------------
(* The driver. *)

Least(S) == CHOOSE s \in S : \A t \in S : s <= t

\* XhcSyncEventRing: from EventRingDequeue on, the first slot whose cycle bit
\* is not EventRingCCS, which is inverted when the scan passes the last slot.
AheadFree  == {s \in EventRingDequeue..(TrbNumber - 1) : seg[s].cycle # EventRingCCS}
BehindFree == {s \in 0..(EventRingDequeue - 1) : seg[s].cycle = EventRingCCS}

\* Mutant: the cycle state is not inverted at the last slot.
SyncEventRingKeepsCCS ==
  /\ EventRingEnqueue' = IF AheadFree # {} THEN Least(AheadFree)
                         ELSE IF BehindFree # {} THEN Least(BehindFree)
                         ELSE EventRingEnqueue
  /\ UNCHANGED EventRingCCS

\* Mutant: the scan does not go on behind the last slot.
SyncEventRingOneLap ==
  /\ EventRingEnqueue' = IF AheadFree # {} THEN Least(AheadFree) ELSE EventRingEnqueue
  /\ UNCHANGED EventRingCCS

SyncEventRing ==
  /\ EventRingEnqueue' = IF AheadFree # {} THEN Least(AheadFree)
                         ELSE IF BehindFree # {} THEN Least(BehindFree)
                         ELSE EventRingEnqueue
  /\ EventRingCCS' = IF AheadFree # {} THEN EventRingCCS ELSE Flip(EventRingCCS)

StartCheck ==
  /\ pc = "idle"
  /\ SyncEventRing
  /\ pc' = "handle"
  /\ UNCHANGED <<seg, EventRingDequeue, ERDP, xEnqueue, xPCS, handled, lap>>

\* Mutant: an event with an error stays in the ring.
HandleEventTwice ==
  /\ pc = "handle"
  /\ EventRingDequeue # EventRingEnqueue
  /\ handled' = seg[EventRingDequeue].event
  /\ IF seg[EventRingDequeue].event \in Errors
     THEN pc' = "exit" /\ UNCHANGED <<EventRingDequeue, lap>>
     ELSE /\ pc' = "handle"
          /\ EventRingDequeue' = Succ(EventRingDequeue)
          /\ lap' = IF Succ(EventRingDequeue) = 0 THEN Flip(lap) ELSE lap
  /\ UNCHANGED <<seg, EventRingEnqueue, EventRingCCS, ERDP, xEnqueue, xPCS>>

\* XhcCheckNewEvent with an event, and what the loop does with it: go on with
\* the next one, or go to the exit at an error.
HandleEvent ==
  /\ pc = "handle"
  /\ EventRingDequeue # EventRingEnqueue
  /\ handled' = seg[EventRingDequeue].event
  /\ EventRingDequeue' = Succ(EventRingDequeue)
  /\ lap' = IF Succ(EventRingDequeue) = 0 THEN Flip(lap) ELSE lap
  /\ pc' = IF seg[EventRingDequeue].event \in Errors THEN "exit" ELSE "handle"
  /\ UNCHANGED <<seg, EventRingEnqueue, EventRingCCS, ERDP, xEnqueue, xPCS>>

\* XhcCheckNewEvent returns EFI_NOT_READY.
NoMoreEvents ==
  /\ pc = "handle"
  /\ EventRingDequeue = EventRingEnqueue
  /\ pc' = "exit"
  /\ UNCHANGED <<seg, EventRingDequeue, EventRingEnqueue, EventRingCCS, ERDP,
                 xEnqueue, xPCS, handled, lap>>

\* The EXIT label of XhcCheckUrbResult.
AdvanceErdp ==
  /\ pc = "exit"
  /\ ERDP' = EventRingDequeue
  /\ pc' = "idle"
  /\ UNCHANGED <<seg, EventRingDequeue, EventRingEnqueue, EventRingCCS,
                 xEnqueue, xPCS, handled, lap>>

CheckUrbResult == StartCheck \/ HandleEvent \/ NoMoreEvents \/ AdvanceErdp

-----------------------------------------------------------------------------
\* CreateEventRing
Init ==
  /\ seg = [s \in Slots |-> [cycle |-> 0, event |-> NoEvent]]
  /\ EventRingDequeue = 0
  /\ EventRingEnqueue = 0
  /\ EventRingCCS = 1
  /\ pc = "idle"
  /\ ERDP = 0
  /\ xEnqueue = 0
  /\ xPCS = 1
  /\ handled = NoEvent
  /\ lap = 1

Next == CheckUrbResult \/ \E e \in Events : Post(e)

SafeSpec == Init /\ [][Next]_vars

\* The driver never stops checking: a waiting XhcExecTransfer polls every
\* microsecond, and XhcMonitorAsyncRequests checks on every timer tick.
Spec == SafeSpec /\ WF_vars(CheckUrbResult)

-----------------------------------------------------------------------------
(* Properties. *)

Pending == IF lap = xPCS THEN xEnqueue - EventRingDequeue
                         ELSE TrbNumber - EventRingDequeue + xEnqueue

SlotOf(i) == IF EventRingDequeue + i - 1 < TrbNumber
             THEN EventRingDequeue + i - 1
             ELSE EventRingDequeue + i - 1 - TrbNumber

\* Events handled and not yet given back to the xHC in ERDP.
Unreported == IF ERDP <= EventRingDequeue THEN EventRingDequeue - ERDP
                                          ELSE TrbNumber - ERDP + EventRingDequeue

\* Type invariant.
TypeOK ==
  /\ seg \in [Slots -> [cycle : {0, 1}, event : Events \cup {NoEvent}]]
  /\ EventRingDequeue \in Slots
  /\ EventRingEnqueue \in Slots
  /\ EventRingCCS \in {0, 1}
  /\ pc \in {"idle", "handle", "exit"}
  /\ ERDP \in Slots
  /\ xEnqueue \in Slots
  /\ xPCS \in {0, 1}
  /\ handled \in Events \cup {NoEvent}
  /\ lap \in {0, 1}

\* XhcSyncEventRing always finds a slot that is not new, so that its
\* ASSERT (FALSE) is out of reach: ERDP keeps the xHC from closing the ring.
ScanEnds == pc = "idle" => AheadFree \cup BehindFree # {}

\* What the scan found was posted: the driver never handles an event of the
\* previous lap, or one that is not there yet.
FoundArePosted ==
  pc = "handle" =>
    \E n \in 0..Pending : SlotOf(n + 1) = EventRingEnqueue

\* No event is overwritten before the driver has handled it.
NothingOverwritten == Unreported + Pending < TrbNumber

\* The cycle bits tell the events of this lap of the xHC from the older ones.
CycleDiscipline ==
  /\ \A s \in 0..(xEnqueue - 1) : seg[s].cycle = xPCS
  /\ \A s \in xEnqueue..(TrbNumber - 1) : seg[s].cycle # xPCS

\* Where the last scan ended, seen from the dequeue pointer.  A scan that
\* passed the last slot leaves EventRingCCS a lap ahead of the dequeue pointer
\* until that pointer has passed the slot as well, if it ever does.
ScanPhase ==
  /\ EventRingCCS # lap => lap # xPCS
  /\ pc = "handle" /\ EventRingDequeue # EventRingEnqueue =>
       IF EventRingCCS = lap
         THEN EventRingDequeue < EventRingEnqueue /\ (lap = xPCS => EventRingEnqueue <= xEnqueue)
         ELSE EventRingEnqueue <= xEnqueue

\* Every slot between the dequeue pointer and the xHC holds an event.
PendingAreEvents == \A i \in 1..Pending : seg[SlotOf(i)].event \in Events

\* The inductive invariant.
EventInv ==
  TypeOK /\ CycleDiscipline /\ NothingOverwritten /\ ScanPhase /\ PendingAreEvents /\ Pending \in Nat

\* To the driver the ring is a first-in first-out queue of events.
Queue == [i \in 1..Pending |-> seg[SlotOf(i)].event]

WQ == INSTANCE WorkQueue WITH Items <- Events, NoItem <- NoEvent, queue <- Queue,
                              taken <- handled, suspended <- FALSE

\* Every event is handled at most once, and in the order it was posted.
ImplementsQueue == WQ!SafeSpec

\* XhcCheckUrbResult: "Traverse the event ring to find out all new events from
\* the previous check."  Every event that is posted is found and handled.
ServesQueue == WQ!Spec

\* CreateEventRing: the consumer cycle state is toggled "every time the Event
\* Ring Dequeue Pointer wraps back to the beginning of the Event Ring".  It is
\* not when a scan passes the last slot and an error cuts the call short.
CCSFollowsDequeue == pc = "idle" => EventRingCCS = lap

\* That is all that goes wrong: as long as no call is cut short behind a scan
\* that passed the last slot, every event is handled, errors or not.
ServedUnlessCut ==
  []CCSFollowsDequeue => []<>(Pending = 0) \/ []<><<HandleEvent>>_vars
=============================================================================
