--------------------------- MODULE EventRingProofs ---------------------------
(***************************************************************************)
(* Proofs about EventRing, for every size of the ring and every sets of    *)
(* events and errors: the scan of XhcSyncEventRing always ends, nothing is *)
(* overwritten before it was handled, and events are handled at most once  *)
(* and in the order the xHC posted them.                                   *)
(***************************************************************************)
EXTENDS EventRing, SequenceTheorems, TLAPS

-----------------------------------------------------------------------------
\* The least element of a set of integers, when there is one.
LEMMA LeastIs ==
  ASSUME NEW S, S \subseteq Int, NEW m \in S, \A t \in S : m <= t
  PROVE  Least(S) = m
<1>1. \E s \in S : \A t \in S : s <= t
  OBVIOUS
<1>2. Least(S) \in S /\ \A t \in S : Least(S) <= t
  BY <1>1 DEF Least
<1>3. Least(S) <= m /\ m <= Least(S) /\ Least(S) \in Int /\ m \in Int
  BY <1>2
<1> HIDE DEF Least
<1> QED
  BY <1>3

\* The numbers behind the pointers.
LEMMA Counts ==
  ASSUME EventInv
  PROVE  /\ TrbNumber \in Nat /\ TrbNumber >= 2 /\ Slots = 0..(TrbNumber - 1)
         /\ EventRingDequeue \in Slots /\ EventRingEnqueue \in Slots
         /\ ERDP \in Slots /\ xEnqueue \in Slots
         /\ EventRingCCS \in {0, 1} /\ lap \in {0, 1} /\ xPCS \in {0, 1}
         /\ Pending \in Nat /\ Pending < TrbNumber
         /\ lap = xPCS => EventRingDequeue <= xEnqueue
         /\ lap # xPCS => xEnqueue < EventRingDequeue
<1> USE EventRingAssumption DEF Slots
<1>1. TypeOK /\ Pending \in Nat /\ NothingOverwritten
  BY DEF EventInv
<1>2. Unreported >= 0 /\ Unreported \in Int
  BY <1>1 DEF TypeOK, Unreported
<1>3. Pending < TrbNumber
  BY <1>1, <1>2 DEF NothingOverwritten
<1>4. lap = xPCS => EventRingDequeue <= xEnqueue
  BY <1>1 DEF TypeOK, Pending
<1>5. lap # xPCS => xEnqueue < EventRingDequeue
  BY <1>1, <1>3 DEF TypeOK, Pending
<1> QED
  BY <1>1, <1>3, <1>4, <1>5 DEF TypeOK

\* What the scan of XhcSyncEventRing finds.  In the first two cases it stops
\* where the xHC will write next.  In the third, when an error cut the last
\* call short behind a scan that had passed the last slot, it finds nothing.
LEMMA SyncEffect ==
  ASSUME EventInv, SyncEventRing
  PROVE  \/ /\ EventRingCCS = lap /\ lap = xPCS
            /\ AheadFree # {}
            /\ EventRingEnqueue' = xEnqueue
            /\ EventRingCCS' = EventRingCCS
         \/ /\ EventRingCCS = lap /\ lap # xPCS
            /\ BehindFree # {}
            /\ EventRingEnqueue' = xEnqueue
            /\ EventRingCCS' = Flip(EventRingCCS)
         \/ /\ EventRingCCS # lap /\ lap # xPCS
            /\ AheadFree # {}
            /\ EventRingEnqueue' = EventRingDequeue
            /\ EventRingCCS' = EventRingCCS
<1>1. /\ TrbNumber \in Nat /\ TrbNumber >= 2
      /\ EventRingDequeue \in 0..(TrbNumber - 1) /\ xEnqueue \in 0..(TrbNumber - 1)
      /\ EventRingCCS \in {0, 1} /\ lap \in {0, 1} /\ xPCS \in {0, 1}
      /\ lap = xPCS => EventRingDequeue <= xEnqueue
      /\ lap # xPCS => xEnqueue < EventRingDequeue
      /\ EventRingCCS # lap => lap # xPCS
      /\ \A s \in 0..(xEnqueue - 1) : seg[s].cycle = xPCS
      /\ \A s \in xEnqueue..(TrbNumber - 1) : seg[s].cycle # xPCS
      /\ \A s \in 0..(TrbNumber - 1) : seg[s].cycle \in {0, 1}
  BY Counts DEF EventInv, TypeOK, CycleDiscipline, ScanPhase, Slots
<1>2. AheadFree \subseteq Int /\ BehindFree \subseteq Int
  BY <1>1 DEF AheadFree, BehindFree
<1>3. CASE EventRingCCS = lap /\ lap = xPCS
  <2>1. xEnqueue \in AheadFree /\ \A t \in AheadFree : xEnqueue <= t
    BY <1>1, <1>3 DEF AheadFree
  <2>2. Least(AheadFree) = xEnqueue
    BY <1>2, <2>1, LeastIs
  <2> QED
    BY <1>3, <2>1, <2>2 DEF SyncEventRing
<1>4. CASE EventRingCCS = lap /\ lap # xPCS
  <2>1. AheadFree = {}
    BY <1>1, <1>4 DEF AheadFree
  <2>2. xEnqueue \in BehindFree /\ \A t \in BehindFree : xEnqueue <= t
    BY <1>1, <1>4 DEF BehindFree
  <2>3. Least(BehindFree) = xEnqueue
    BY <1>2, <2>2, LeastIs
  <2> QED
    BY <1>4, <2>1, <2>2, <2>3 DEF SyncEventRing
<1>5. CASE EventRingCCS # lap /\ lap # xPCS
  <2>1. EventRingDequeue \in AheadFree /\ \A t \in AheadFree : EventRingDequeue <= t
    BY <1>1, <1>5 DEF AheadFree
  <2>2. Least(AheadFree) = EventRingDequeue
    BY <1>2, <2>1, LeastIs
  <2> QED
    BY <1>5, <2>1, <2>2 DEF SyncEventRing
<1> QED
  BY <1>1, <1>3, <1>4, <1>5

\* An empty event ring satisfies the invariant.
LEMMA EventInvInit == Init => EventInv
  BY EventRingAssumption DEF Init, EventInv, TypeOK, CycleDiscipline, NothingOverwritten,
     Unreported, ScanPhase, PendingAreEvents, Pending, SlotOf, Slots

\* The pending slots are slots the xHC has written in this lap of it or the
\* one before, none of them the slot it writes next.
LEMMA PendingSlot ==
  ASSUME EventInv, NEW i \in 1..Pending
  PROVE  SlotOf(i) \in Slots /\ SlotOf(i) # xEnqueue
<1>1. /\ TrbNumber \in Nat /\ TrbNumber >= 2 /\ Slots = 0..(TrbNumber - 1)
      /\ EventRingDequeue \in 0..(TrbNumber - 1) /\ xEnqueue \in 0..(TrbNumber - 1)
      /\ lap = xPCS => EventRingDequeue <= xEnqueue
      /\ lap # xPCS => xEnqueue < EventRingDequeue
  BY Counts
<1>2. CASE lap = xPCS
  <2>1. i \in 1..(xEnqueue - EventRingDequeue)
    BY <1>2 DEF Pending
  <2>2. EventRingDequeue + i - 1 \in 0..(TrbNumber - 1) /\ EventRingDequeue + i - 1 < xEnqueue
    BY <1>1, <2>1
  <2>3. SlotOf(i) = EventRingDequeue + i - 1
    BY <1>1, <2>2 DEF SlotOf
  <2> QED
    BY <1>1, <2>2, <2>3
<1>3. CASE lap # xPCS
  <2>1. i \in 1..(TrbNumber - EventRingDequeue + xEnqueue)
    BY <1>3 DEF Pending
  <2>2. CASE EventRingDequeue + i - 1 < TrbNumber
    <3>1. SlotOf(i) = EventRingDequeue + i - 1
      BY <2>2 DEF SlotOf
    <3> QED
      BY <1>1, <1>3, <2>1, <2>2, <3>1
  <2>3. CASE ~(EventRingDequeue + i - 1 < TrbNumber)
    <3>1. SlotOf(i) = EventRingDequeue + i - 1 - TrbNumber
      BY <2>3 DEF SlotOf
    <3> QED
      BY <1>1, <2>1, <2>3, <3>1
  <2> QED
    BY <2>2, <2>3
<1> QED
  BY <1>2, <1>3

\* The event ring is not full when the xHC posts, so the new event counts as
\* pending and not as a whole lap.
LEMMA PostCounts ==
  ASSUME EventInv, NEW e \in Events, Post(e)
  PROVE  /\ Unreported' = Unreported /\ Unreported \in Nat
         /\ Unreported + Pending < TrbNumber - 1
         /\ Pending' = Pending + 1
<1>1. /\ TrbNumber \in Nat /\ TrbNumber >= 2 /\ Slots = 0..(TrbNumber - 1)
      /\ EventRingDequeue \in Slots
      /\ ERDP \in Slots /\ xEnqueue \in Slots
      /\ lap \in {0, 1} /\ xPCS \in {0, 1}
      /\ Pending \in Nat /\ Pending < TrbNumber
      /\ lap = xPCS => EventRingDequeue <= xEnqueue
      /\ lap # xPCS => xEnqueue < EventRingDequeue
  BY Counts
<1>2. /\ UNCHANGED <<EventRingDequeue, EventRingEnqueue, EventRingCCS, pc, ERDP, handled, lap>>
      /\ Succ(xEnqueue) # ERDP
      /\ \/ xEnqueue # TrbNumber - 1 /\ xEnqueue' = xEnqueue + 1 /\ xPCS' = xPCS
         \/ xEnqueue = TrbNumber - 1 /\ xEnqueue' = 0 /\ xPCS' = 1 - xPCS
  BY <1>1 DEF Post, Full, Succ, Flip, driverVars
<1>3. Unreported' = Unreported /\ Unreported \in Nat
  BY <1>1, <1>2 DEF Unreported
<1>4. Unreported + Pending < TrbNumber - 1
  BY <1>1, <1>2, <1>3 DEF EventInv, NothingOverwritten, Unreported, Pending, Succ
<1>5. Pending' = Pending + 1
  BY <1>1, <1>2, <1>3, <1>4 DEF Pending
<1> QED
  BY <1>3, <1>4, <1>5

\* An event that the xHC posts keeps the invariant.
LEMMA PostKeeps == \A e \in Events : EventInv /\ Post(e) => EventInv'
<1> SUFFICES ASSUME NEW e \in Events, EventInv, Post(e)
             PROVE  EventInv'
  OBVIOUS
<1> USE EventRingAssumption
<1>1. /\ TrbNumber \in Nat /\ TrbNumber >= 2 /\ Slots = 0..(TrbNumber - 1)
      /\ EventRingDequeue \in Slots /\ EventRingEnqueue \in Slots
      /\ ERDP \in Slots /\ xEnqueue \in Slots
      /\ EventRingCCS \in {0, 1} /\ lap \in {0, 1} /\ xPCS \in {0, 1}
      /\ Pending \in Nat /\ Pending < TrbNumber
      /\ lap = xPCS => EventRingDequeue <= xEnqueue
      /\ lap # xPCS => xEnqueue < EventRingDequeue
  BY Counts
<1>2. /\ seg' = [seg EXCEPT ![xEnqueue] = [cycle |-> xPCS, event |-> e]]
      /\ UNCHANGED <<EventRingDequeue, EventRingEnqueue, EventRingCCS, pc, ERDP, handled, lap>>
      /\ Succ(xEnqueue) # ERDP
      /\ \/ xEnqueue # TrbNumber - 1 /\ xEnqueue' = xEnqueue + 1 /\ xPCS' = xPCS
         \/ xEnqueue = TrbNumber - 1 /\ xEnqueue' = 0 /\ xPCS' = 1 - xPCS
  BY <1>1 DEF Post, Full, Succ, Flip, driverVars
<1>3. TypeOK'
  BY <1>1, <1>2 DEF EventInv, TypeOK
<1>4. CycleDiscipline'
  BY <1>1, <1>2 DEF EventInv, TypeOK, CycleDiscipline
<1>5. Unreported' = Unreported /\ Unreported \in Nat
  BY PostCounts
<1>6. Unreported + Pending < TrbNumber - 1
  BY PostCounts
<1>7. Pending' = Pending + 1
  BY PostCounts
<1>8. NothingOverwritten' /\ Pending' \in Nat
  BY <1>1, <1>5, <1>6, <1>7 DEF NothingOverwritten
<1>9. ScanPhase'
  BY <1>1, <1>2, <1>5, <1>6 DEF EventInv, ScanPhase, Pending
<1>10. PendingAreEvents'
  <2> SUFFICES ASSUME NEW i \in 1..(Pending + 1)
               PROVE  seg'[SlotOf(i)'].event \in Events
    BY <1>7 DEF PendingAreEvents
  <2>1. SlotOf(i)' = SlotOf(i)
    BY <1>2 DEF SlotOf
  <2>2. CASE i = Pending + 1
    <3>1. SlotOf(i) = xEnqueue
      BY <1>1, <2>2 DEF SlotOf, Pending
    <3> QED
      BY <3>1, <2>1, <1>1, <1>2 DEF EventInv, TypeOK
  <2>3. CASE i # Pending + 1
    <3>1. i \in 1..Pending
      BY <2>3, <1>1
    <3>2. SlotOf(i) \in Slots /\ SlotOf(i) # xEnqueue
      BY <3>1, PendingSlot
    <3>3. seg'[SlotOf(i)] = seg[SlotOf(i)]
      BY <3>2, <1>2 DEF EventInv, TypeOK
    <3> QED
      BY <3>1, <3>3, <2>1 DEF EventInv, PendingAreEvents
  <2> QED
    BY <2>2, <2>3
<1> QED
  BY <1>3, <1>4, <1>8, <1>9, <1>10 DEF EventInv

\* A step that moves none of the pointers and stores nothing keeps what is
\* said of them.
LEMMA RingUntouched ==
  ASSUME EventInv, UNCHANGED <<seg, EventRingDequeue, xEnqueue, xPCS, lap>>
  PROVE  CycleDiscipline' /\ PendingAreEvents' /\ Pending' = Pending
  BY DEF EventInv, CycleDiscipline, PendingAreEvents, Pending, SlotOf

\* A scan that starts finds its end within a lap.
LEMMA StartKeeps == EventInv /\ StartCheck => EventInv'
<1> SUFFICES ASSUME EventInv, StartCheck
             PROVE  EventInv'
  OBVIOUS
<1>1. /\ TrbNumber \in Nat /\ TrbNumber >= 2 /\ Slots = 0..(TrbNumber - 1)
      /\ EventRingDequeue \in Slots /\ EventRingEnqueue \in Slots /\ xEnqueue \in Slots
      /\ EventRingCCS \in {0, 1} /\ lap \in {0, 1} /\ xPCS \in {0, 1}
      /\ lap = xPCS => EventRingDequeue <= xEnqueue
  BY Counts
<1>2. /\ SyncEventRing /\ pc' = "handle"
      /\ UNCHANGED <<seg, EventRingDequeue, ERDP, xEnqueue, xPCS, handled, lap>>
  BY DEF StartCheck
<1>3. \/ /\ EventRingCCS = lap /\ lap = xPCS
         /\ EventRingEnqueue' = xEnqueue /\ EventRingCCS' = EventRingCCS
      \/ /\ EventRingCCS = lap /\ lap # xPCS
         /\ EventRingEnqueue' = xEnqueue /\ EventRingCCS' = 1 - EventRingCCS
      \/ /\ EventRingCCS # lap /\ lap # xPCS
         /\ EventRingEnqueue' = EventRingDequeue /\ EventRingCCS' = EventRingCCS
  BY <1>2, SyncEffect DEF Flip
<1>4. TypeOK'
  BY <1>1, <1>2, <1>3 DEF EventInv, TypeOK
<1>5. CycleDiscipline' /\ PendingAreEvents' /\ Pending' = Pending
  BY <1>2, RingUntouched
<1>6. NothingOverwritten' /\ Pending' \in Nat
  BY <1>2, <1>5 DEF EventInv, NothingOverwritten, Unreported
<1>7. ScanPhase'
  BY <1>1, <1>2, <1>3 DEF ScanPhase
<1> QED
  BY <1>4, <1>5, <1>6, <1>7 DEF EventInv

\* What the driver handles is the oldest event of the queue.
LEMMA HandleTakesOldest ==
  ASSUME EventInv, HandleEvent
  PROVE  /\ Pending >= 1
         /\ SlotOf(1) = EventRingDequeue
         /\ Pending' = Pending - 1
         /\ \A i \in 1..(Pending - 1) : SlotOf(i)' = SlotOf(i + 1)
         /\ seg[EventRingDequeue].event \in Events
<1>1. /\ TrbNumber \in Nat /\ TrbNumber >= 2 /\ Slots = 0..(TrbNumber - 1)
      /\ EventRingDequeue \in Slots /\ EventRingEnqueue \in Slots /\ xEnqueue \in Slots
      /\ EventRingCCS \in {0, 1} /\ lap \in {0, 1} /\ xPCS \in {0, 1}
      /\ Pending \in Nat /\ Pending < TrbNumber
      /\ lap = xPCS => EventRingDequeue <= xEnqueue
      /\ lap # xPCS => xEnqueue < EventRingDequeue
  BY Counts
<1>2. /\ pc = "handle" /\ EventRingDequeue # EventRingEnqueue
      /\ UNCHANGED <<seg, EventRingEnqueue, EventRingCCS, ERDP, xEnqueue, xPCS>>
      /\ \/ EventRingDequeue # TrbNumber - 1 /\ EventRingDequeue' = EventRingDequeue + 1 /\ lap' = lap
         \/ EventRingDequeue = TrbNumber - 1 /\ EventRingDequeue' = 0 /\ lap' = 1 - lap
  BY <1>1 DEF HandleEvent, Succ, Flip
<1>3. Pending >= 1
  BY <1>1, <1>2 DEF EventInv, ScanPhase, Pending
<1>4. SlotOf(1) = EventRingDequeue
  BY <1>1 DEF SlotOf
<1>5. Pending' = Pending - 1
  BY <1>1, <1>2, <1>3 DEF Pending
<1>6. ASSUME NEW i \in 1..(Pending - 1)
      PROVE  SlotOf(i)' = SlotOf(i + 1)
  BY <1>1, <1>2 DEF SlotOf
<1>7. seg[EventRingDequeue].event \in Events
  BY <1>1, <1>3, <1>4 DEF EventInv, PendingAreEvents
<1> QED
  BY <1>3, <1>4, <1>5, <1>6, <1>7

\* Handling an event keeps the invariant.
LEMMA HandleKeeps == EventInv /\ HandleEvent => EventInv'
<1> SUFFICES ASSUME EventInv, HandleEvent
             PROVE  EventInv'
  OBVIOUS
<1>1. /\ TrbNumber \in Nat /\ TrbNumber >= 2 /\ Slots = 0..(TrbNumber - 1)
      /\ EventRingDequeue \in Slots /\ EventRingEnqueue \in Slots /\ xEnqueue \in Slots
      /\ ERDP \in Slots
      /\ EventRingCCS \in {0, 1} /\ lap \in {0, 1} /\ xPCS \in {0, 1}
      /\ Pending \in Nat /\ Pending < TrbNumber
      /\ lap = xPCS => EventRingDequeue <= xEnqueue
      /\ lap # xPCS => xEnqueue < EventRingDequeue
  BY Counts
<1>2. /\ pc = "handle" /\ EventRingDequeue # EventRingEnqueue
      /\ pc' \in {"handle", "exit"} /\ handled' = seg[EventRingDequeue].event
      /\ UNCHANGED <<seg, EventRingEnqueue, EventRingCCS, ERDP, xEnqueue, xPCS>>
      /\ \/ EventRingDequeue # TrbNumber - 1 /\ EventRingDequeue' = EventRingDequeue + 1 /\ lap' = lap
         \/ EventRingDequeue = TrbNumber - 1 /\ EventRingDequeue' = 0 /\ lap' = 1 - lap
  BY <1>1 DEF HandleEvent, Succ, Flip
<1>3. /\ Pending >= 1 /\ Pending' = Pending - 1
      /\ \A i \in 1..(Pending - 1) : SlotOf(i)' = SlotOf(i + 1)
      /\ seg[EventRingDequeue].event \in Events
  BY HandleTakesOldest
<1>4. TypeOK'
  BY <1>1, <1>2, <1>3 DEF EventInv, TypeOK
<1>5. CycleDiscipline'
  BY <1>2 DEF EventInv, CycleDiscipline
<1>6. Unreported \in Nat /\ Unreported + Pending < TrbNumber
  BY <1>1 DEF EventInv, NothingOverwritten, Unreported
<1>7. Unreported' = Unreported + 1
  BY <1>1, <1>2, <1>3, <1>6 DEF Unreported
<1>8. NothingOverwritten' /\ Pending' \in Nat
  BY <1>1, <1>3, <1>6, <1>7 DEF NothingOverwritten
<1>9. ScanPhase'
  BY <1>1, <1>2 DEF EventInv, ScanPhase
<1>10. PendingAreEvents'
  <2> SUFFICES ASSUME NEW i \in 1..(Pending - 1)
               PROVE  seg'[SlotOf(i)'].event \in Events
    BY <1>3 DEF PendingAreEvents
  <2>1. i + 1 \in 1..Pending /\ SlotOf(i)' = SlotOf(i + 1)
    BY <1>1, <1>3
  <2> QED
    BY <2>1, <1>2 DEF EventInv, PendingAreEvents
<1> QED
  BY <1>4, <1>5, <1>8, <1>9, <1>10 DEF EventInv

\* The end of a scan and the report of ERDP keep the invariant.
LEMMA OtherStepsKeep == EventInv /\ (NoMoreEvents \/ AdvanceErdp \/ UNCHANGED vars) => EventInv'
<1> SUFFICES ASSUME EventInv, NoMoreEvents \/ AdvanceErdp \/ UNCHANGED vars
             PROVE  EventInv'
  OBVIOUS
<1>1. /\ UNCHANGED <<seg, EventRingDequeue, EventRingEnqueue, EventRingCCS, xEnqueue, xPCS, handled, lap>>
      /\ ERDP' \in {ERDP, EventRingDequeue}
      /\ pc' = pc \/ pc' \in {"exit", "idle"}
  BY DEF NoMoreEvents, AdvanceErdp, vars
<1>2. TypeOK'
  BY <1>1 DEF EventInv, TypeOK
<1>3. CycleDiscipline' /\ PendingAreEvents' /\ Pending' = Pending
  BY <1>1, RingUntouched
<1>4. NothingOverwritten' /\ Pending' \in Nat
  <2>1. Pending' \in Nat
    BY <1>3 DEF EventInv
  <2>2. CASE ERDP' = ERDP
    BY <2>2, <1>1, <1>3 DEF EventInv, NothingOverwritten, Unreported
  <2>3. CASE ERDP' = EventRingDequeue
    <3>1. Unreported' = 0
      BY <2>3, <1>1, Counts DEF Unreported
    <3>2. Pending \in Nat /\ Pending < TrbNumber
      BY Counts
    <3> QED
      BY <2>1, <3>1, <3>2, <1>3 DEF NothingOverwritten
  <2> QED
    BY <2>1, <2>2, <2>3, <1>1
<1>5. ScanPhase'
  BY <1>1 DEF EventInv, ScanPhase
<1> QED
  BY <1>2, <1>3, <1>4, <1>5 DEF EventInv

\* Every step keeps the invariant.
LEMMA EventInvStep == EventInv /\ [Next]_vars => EventInv'
  BY PostKeeps, StartKeeps, HandleKeeps, OtherStepsKeep DEF Next, CheckUrbResult

\* The inductive invariant, of which the theorems below are consequences:
\* every event between the driver and the xHC is in the ring, with its cycle
\* bit, until it is handled, however XhcCheckUrbResult's calls end.
THEOREM EventInvHolds == SafeSpec => []EventInv
<1>1. Init => EventInv
  BY EventInvInit
<1>2. EventInv /\ [Next]_vars => EventInv'
  BY EventInvStep
<1> QED
  BY <1>1, <1>2, PTL DEF SafeSpec

-----------------------------------------------------------------------------
\* XhcSyncEventRing finds the end of the new events in a ring of any size:
\* the ASSERT (FALSE) behind its loop is never reached, whatever errors cut
\* calls of XhcCheckUrbResult short.
THEOREM ScanAlwaysEnds == SafeSpec => []ScanEnds
<1>1. EventInv => ScanEnds
  <2> SUFFICES ASSUME EventInv
               PROVE  AheadFree \cup BehindFree # {}
    BY DEF ScanEnds
  <2>1. /\ TrbNumber \in Nat
        /\ EventRingDequeue \in 0..(TrbNumber - 1) /\ xEnqueue \in 0..(TrbNumber - 1)
        /\ EventRingCCS \in {0, 1} /\ lap \in {0, 1} /\ xPCS \in {0, 1}
        /\ lap = xPCS => EventRingDequeue <= xEnqueue
        /\ lap # xPCS => xEnqueue < EventRingDequeue
        /\ EventRingCCS # lap => lap # xPCS
        /\ \A s \in xEnqueue..(TrbNumber - 1) : seg[s].cycle # xPCS
        /\ \A s \in 0..(TrbNumber - 1) : seg[s].cycle \in {0, 1}
    BY Counts DEF EventInv, TypeOK, CycleDiscipline, ScanPhase, Slots
  <2>2. CASE EventRingCCS = lap /\ lap = xPCS
    <3>1. xEnqueue \in AheadFree
      BY <2>1, <2>2 DEF AheadFree
    <3> QED
      BY <3>1
  <2>3. CASE EventRingCCS = lap /\ lap # xPCS
    <3>1. xEnqueue \in BehindFree
      BY <2>1, <2>3 DEF BehindFree
    <3> QED
      BY <3>1
  <2>4. CASE EventRingCCS # lap
    <3>1. EventRingDequeue \in AheadFree
      BY <2>1, <2>4 DEF AheadFree
    <3> QED
      BY <3>1
  <2> QED
    BY <2>2, <2>3, <2>4
<1> QED
  BY <1>1, EventInvHolds, PTL

\* XhcCheckUrbResult handles only what the xHC has posted: the end of the scan
\* never lies beyond the xHC, in either lap, for the whole of the loop.
THEOREM FoundWerePosted == SafeSpec => []FoundArePosted
<1>1. EventInv => FoundArePosted
  <2> SUFFICES ASSUME EventInv, pc = "handle"
               PROVE  \E n \in 0..Pending : SlotOf(n + 1) = EventRingEnqueue
    BY DEF FoundArePosted
  <2> DEFINE ahead  == EventRingEnqueue - EventRingDequeue
             around == TrbNumber - EventRingDequeue + EventRingEnqueue
  <2>1. /\ TrbNumber \in Nat /\ TrbNumber >= 2
        /\ EventRingDequeue \in 0..(TrbNumber - 1) /\ EventRingEnqueue \in 0..(TrbNumber - 1)
        /\ xEnqueue \in 0..(TrbNumber - 1)
        /\ Pending \in Nat
        /\ lap = xPCS => EventRingDequeue <= xEnqueue
        /\ EventRingDequeue # EventRingEnqueue =>
             IF EventRingCCS = lap
               THEN EventRingDequeue < EventRingEnqueue /\ (lap = xPCS => EventRingEnqueue <= xEnqueue)
               ELSE EventRingEnqueue <= xEnqueue
        /\ EventRingCCS # lap => lap # xPCS
    BY Counts DEF EventInv, ScanPhase, Slots
  <2>2. CASE EventRingDequeue = EventRingEnqueue \/ EventRingCCS = lap
    <3>1. ahead \in 0..Pending
      BY <2>1, <2>2 DEF Pending
    <3>2. SlotOf(ahead + 1) = EventRingEnqueue
      BY <2>1 DEF SlotOf
    <3> QED
      BY <3>1, <3>2
  <2>3. CASE EventRingDequeue # EventRingEnqueue /\ EventRingCCS # lap
    <3>1. around \in 0..Pending
      BY <2>1, <2>3 DEF Pending
    <3>2. SlotOf(around + 1) = EventRingEnqueue
      BY <2>1 DEF SlotOf
    <3> QED
      BY <3>1, <3>2
  <2> QED
    BY <2>2, <2>3
<1> QED
  BY <1>1, EventInvHolds, PTL

\* ERDP, which the driver writes at the exit of XhcCheckUrbResult, keeps the
\* xHC from overwriting an event that was not handled.
THEOREM NeverOverwritten == SafeSpec => []NothingOverwritten
<1>1. EventInv => NothingOverwritten
  BY DEF EventInv
<1> QED
  BY <1>1, EventInvHolds, PTL

-----------------------------------------------------------------------------
(* The ring implements the queue. *)

LEMMA QueueIsSeq ==
  ASSUME EventInv
  PROVE  /\ Queue \in Seq(Events) /\ Len(Queue) = Pending /\ Pending \in Nat
         /\ \A i \in 1..Pending : Queue[i] = seg[SlotOf(i)].event
<1>1. Pending \in Nat /\ \A i \in 1..Pending : seg[SlotOf(i)].event \in Events
  BY DEF EventInv, PendingAreEvents
<1>2. Queue \in [1..Pending -> Events]
  BY <1>1 DEF Queue
<1> QED
  BY <1>1, <1>2 DEF Queue

\* A posted event is appended to the queue.
LEMMA PostAppends ==
  ASSUME EventInv, EventInv', NEW e \in Events, Post(e)
  PROVE  Queue' = Append(Queue, e)
<1>1. /\ TrbNumber \in Nat /\ TrbNumber >= 2 /\ Slots = 0..(TrbNumber - 1)
      /\ EventRingDequeue \in Slots /\ xEnqueue \in Slots
      /\ lap \in {0, 1} /\ xPCS \in {0, 1}
      /\ Pending \in Nat /\ Pending < TrbNumber
      /\ lap = xPCS => EventRingDequeue <= xEnqueue
      /\ lap # xPCS => xEnqueue < EventRingDequeue
  BY Counts
<1>2. /\ seg' = [seg EXCEPT ![xEnqueue] = [cycle |-> xPCS, event |-> e]]
      /\ EventRingDequeue' = EventRingDequeue /\ lap' = lap
      /\ \/ xEnqueue # TrbNumber - 1 /\ xEnqueue' = xEnqueue + 1 /\ xPCS' = xPCS
         \/ xEnqueue = TrbNumber - 1 /\ xEnqueue' = 0 /\ xPCS' = 1 - xPCS
  BY <1>1 DEF Post, Full, Succ, Flip, driverVars
<1>3. Pending' = Pending + 1
  BY PostCounts
<1>4. /\ Queue \in Seq(Events) /\ Len(Queue) = Pending
      /\ \A i \in 1..Pending : Queue[i] = seg[SlotOf(i)].event
  BY QueueIsSeq
<1>5. /\ Append(Queue, e) \in Seq(Events)
      /\ Len(Append(Queue, e)) = Pending + 1
      /\ \A i \in 1..Pending : Append(Queue, e)[i] = Queue[i]
      /\ Append(Queue, e)[Pending + 1] = e
  BY <1>4, AppendProperties
<1>6. Append(Queue, e) = [i \in 1..(Pending + 1) |-> Append(Queue, e)[i]]
  BY <1>5, LenProperties
<1>7. Queue' = [i \in 1..(Pending + 1) |-> seg'[SlotOf(i)].event]
  BY <1>2, <1>3 DEF Queue, SlotOf
<1>8. ASSUME NEW i \in 1..(Pending + 1)
      PROVE  seg'[SlotOf(i)].event = Append(Queue, e)[i]
  <2>1. CASE i = Pending + 1
    <3>1. SlotOf(i) = xEnqueue
      BY <1>1, <2>1 DEF SlotOf, Pending
    <3> QED
      BY <3>1, <2>1, <1>1, <1>2, <1>5 DEF EventInv, TypeOK
  <2>2. CASE i # Pending + 1
    <3>1. i \in 1..Pending
      BY <2>2, <1>1
    <3>2. SlotOf(i) \in Slots /\ SlotOf(i) # xEnqueue
      BY <3>1, PendingSlot
    <3>3. seg'[SlotOf(i)] = seg[SlotOf(i)]
      BY <3>2, <1>2 DEF EventInv, TypeOK
    <3> QED
      BY <3>1, <3>3, <1>4, <1>5
  <2> QED
    BY <2>1, <2>2
<1> QED
  BY <1>6, <1>7, <1>8

\* A handled event is taken from the head of the queue.
LEMMA HandleTakes ==
  ASSUME EventInv, HandleEvent
  PROVE  Queue # <<>> /\ handled' = Head(Queue) /\ Queue' = Tail(Queue)
<1>1. /\ Pending >= 1 /\ SlotOf(1) = EventRingDequeue /\ Pending' = Pending - 1
      /\ \A i \in 1..(Pending - 1) : SlotOf(i)' = SlotOf(i + 1)
  BY HandleTakesOldest
<1>2. /\ Queue \in Seq(Events) /\ Len(Queue) = Pending /\ Pending \in Nat
      /\ \A i \in 1..Pending : Queue[i] = seg[SlotOf(i)].event
  BY QueueIsSeq
<1>3. Queue # <<>>
  BY <1>1, <1>2
<1>4. seg' = seg /\ handled' = seg[EventRingDequeue].event
  BY DEF HandleEvent
<1>5. Head(Queue) = handled'
  BY <1>1, <1>2, <1>3, <1>4
<1>6. /\ Tail(Queue) \in Seq(Events) /\ Len(Tail(Queue)) = Pending - 1
      /\ \A i \in 1..(Pending - 1) : Tail(Queue)[i] = Queue[i + 1]
  BY <1>2, <1>3, HeadTailProperties
<1>7. Queue' = [i \in 1..(Pending - 1) |-> seg[SlotOf(i)'].event]
  BY <1>1, <1>4 DEF Queue
<1>8. ASSUME NEW i \in 1..(Pending - 1)
      PROVE  seg[SlotOf(i)'].event = Tail(Queue)[i]
  <2>1. i + 1 \in 1..Pending
    BY <1>2
  <2> QED
    BY <2>1, <1>1, <1>2, <1>6
<1>9. Tail(Queue) = [i \in 1..(Pending - 1) |-> Tail(Queue)[i]]
  BY <1>6, LenProperties
<1>10. Queue' = Tail(Queue)
  BY <1>7, <1>8, <1>9
<1> QED
  BY <1>3, <1>5, <1>10

\* Events are handled in the order the xHC posted them, each at most once, in
\* a ring of any size and with errors anywhere.  That each is handled at all
\* is another matter: see CCSFollowsDequeue.
THEOREM EventRingImplementsQueue == SafeSpec => ImplementsQueue
<1>1. Init => WQ!Init
  <2> SUFFICES ASSUME Init PROVE WQ!Init
    OBVIOUS
  <2>1. EventInv /\ Pending = 0
    BY EventInvInit, EventRingAssumption DEF Init, Pending
  <2>2. Queue = <<>>
    BY <2>1, QueueIsSeq, EmptySeq
  <2> QED
    BY <2>2 DEF Init, WQ!Init
<1>2. EventInv /\ EventInv' /\ [Next]_vars => [WQ!Next]_WQ!vars
  <2> SUFFICES ASSUME EventInv, EventInv', [Next]_vars
               PROVE  [WQ!Next]_WQ!vars
    OBVIOUS
  <2>1. ASSUME NEW e \in Events, Post(e)
        PROVE  WQ!Put(e)
    BY <2>1, PostAppends DEF Post, driverVars, WQ!Put
  <2>2. ASSUME HandleEvent
        PROVE  WQ!Take
    BY <2>2, HandleTakes DEF WQ!Take
  <2>3. ASSUME StartCheck \/ NoMoreEvents \/ AdvanceErdp \/ UNCHANGED vars
        PROVE  UNCHANGED WQ!vars
    <3>1. UNCHANGED <<seg, EventRingDequeue, xEnqueue, xPCS, lap, handled>>
      BY <2>3 DEF StartCheck, NoMoreEvents, AdvanceErdp, vars
    <3> QED
      BY <3>1 DEF WQ!vars, Queue, Pending, SlotOf
  <2> QED
    BY <2>1, <2>2, <2>3 DEF Next, CheckUrbResult, WQ!Next
<1> QED
  BY <1>1, <1>2, EventInvHolds, PTL DEF SafeSpec, ImplementsQueue, WQ!SafeSpec
==============================================================================
