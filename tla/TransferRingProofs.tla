------------------------- MODULE TransferRingProofs -------------------------
(***************************************************************************)
(* Proofs about TransferRing, for every size of the ring, every set of     *)
(* TRBs and both kinds of ring: RingInv is an inductive invariant, and the *)
(* ring implements the first-in first-out queue of WorkQueue.              *)
(***************************************************************************)
EXTENDS TransferRing, SequenceTheorems, TLAPS

-----------------------------------------------------------------------------
(* What XhcSyncTrsRing does. *)

\* The least element of a set of integers, when there is one.
LEMMA LeastIs ==
  ASSUME NEW S, S \subseteq Int, NEW m \in S, \A t \in S : m <= t
  PROVE  Least(S) = m
<1>1. \E s \in S : \A t \in S : s <= t
  OBVIOUS
<1>2. Least(S) \in S /\ \A t \in S : Least(S) <= t
  BY <1>1 DEF Least
<1>3. Least(S) <= m /\ m <= Least(S) /\ Least(S) \in Int /\ m \in Int
  BY <1>2
<1> HIDE DEF Least
<1> QED
  BY <1>3

\* Under the invariant the scan of XhcSyncTrsRing moves RingEnqueue by at most
\* one slot: it stays on a free slot, steps to the next one, or wraps.
LEMMA SyncEffect ==
  ASSUME RingInv, SyncTrsRing
  PROVE  \/ /\ Filled = 0
            /\ RingEnqueue' = RingEnqueue
            /\ seg' = [seg EXCEPT ![RingEnqueue].trb = NoTrb]
            /\ RingPCS' = RingPCS
         \/ /\ Filled = 1
            /\ RingEnqueue + 1 < Link
            /\ RingEnqueue' = RingEnqueue + 1
            /\ seg' = [seg EXCEPT ![RingEnqueue + 1].trb = NoTrb]
            /\ RingPCS' = RingPCS
         \/ /\ Filled = 1
            /\ RingEnqueue + 1 = Link
            /\ RingEnqueue' = 0
            /\ seg' = [[seg EXCEPT ![Link].cycle = RingPCS] EXCEPT ![0].trb = NoTrb]
            /\ RingPCS' = Flip(RingPCS)
<1> DEFINE free == {s \in RingEnqueue..(Link - 1) : seg[s].cycle # RingPCS}
           after == {s \in 0..(Link - 1) : seg[s].cycle = RingPCS}
<1>1. /\ RingEnqueue \in 0..(Link - 1) /\ Link \in Nat /\ Link >= 2
      /\ \A s \in 0..(RingEnqueue - 1) : seg[s].cycle = RingPCS
      /\ \A s \in (RingEnqueue + 1)..Link : seg[s].cycle # RingPCS
  BY RingAssumption DEF RingInv, TypeOK, CycleDiscipline, Link
<1>2. CASE Filled = 0
  <2>1. RingEnqueue \in free /\ \A t \in free : RingEnqueue <= t
    BY <1>1, <1>2 DEF Filled
  <2>2. Least(free) = RingEnqueue
    <3>1. free \subseteq Int
      BY <1>1
    <3> HIDE DEF free
    <3> QED
      BY <2>1, <3>1, LeastIs
  <2>3. free # {}
    BY <2>1
  <2> QED
    BY <1>2, <2>2, <2>3 DEF SyncTrsRing
<1>3. CASE Filled = 1 /\ RingEnqueue + 1 < Link
  <2>1. RingEnqueue + 1 \in free /\ \A t \in free : RingEnqueue + 1 <= t
    BY <1>1, <1>3 DEF Filled
  <2>2. Least(free) = RingEnqueue + 1
    <3>1. free \subseteq Int
      BY <1>1
    <3> HIDE DEF free
    <3> QED
      BY <2>1, <3>1, LeastIs
  <2>3. free # {}
    BY <2>1
  <2> QED
    BY <1>3, <2>2, <2>3 DEF SyncTrsRing
<1>4. CASE Filled = 1 /\ RingEnqueue + 1 = Link
  <2>1. free = {}
    BY <1>1, <1>4 DEF Filled
  <2>2. 0 \in after /\ \A t \in after : 0 <= t
    BY <1>1, <1>4 DEF Filled
  <2>3. Least(after) = 0
    <3>1. after \subseteq Int
      BY <1>1
    <3> HIDE DEF after
    <3> QED
      BY <2>2, <3>1, LeastIs
  <2> QED
    BY <1>4, <2>1, <2>3 DEF SyncTrsRing
<1>5. Filled \in {0, 1} /\ RingEnqueue + 1 <= Link
  BY <1>1 DEF Filled
<1> QED
  BY <1>1, <1>2, <1>3, <1>4, <1>5

-----------------------------------------------------------------------------
(* RingInv is inductive. *)

LEMMA RingInvInit == Init => RingInv
  BY RingAssumption DEF Init, RingInv, TypeOK, CycleDiscipline, ConsumerBehind,
     OwnedAreWritten, RoomKept, EnqueuePhase, PendingSlots, Pending, Filled,
     SameLap, Building, Capacity, Link, Slots

\* The synchronisation, with the xHC and the room after it: RingEnqueue is on
\* a free slot, and the TRBs pending before are pending still.
LEMMA SyncKeeps ==
  ASSUME RingInv, SyncTrsRing, UNCHANGED xhcVars,
         Pending <= Link - 1 \/ Filled = 0
  PROVE  /\ seg' \in [Slots -> [cycle : {0, 1}, trb : Trbs \cup {NoTrb}]]
         /\ RingEnqueue' \in 0..(Link - 1)
         /\ RingPCS' \in {0, 1}
         /\ CycleDiscipline' /\ ConsumerBehind' /\ OwnedAreWritten'
         /\ Filled' = 0
         /\ Pending' = Pending
         /\ \A s \in PendingSlots : seg'[s].trb = seg[s].trb
<1> USE RingAssumption DEF Link, Slots, Flip
<1>1. TypeOK /\ CycleDiscipline /\ ConsumerBehind /\ OwnedAreWritten
  BY DEF RingInv
<1>2. CASE /\ Filled = 0
           /\ RingEnqueue' = RingEnqueue
           /\ seg' = [seg EXCEPT ![RingEnqueue].trb = NoTrb]
           /\ RingPCS' = RingPCS
  <2>1. seg' \in [Slots -> [cycle : {0, 1}, trb : Trbs \cup {NoTrb}]]
    BY <1>1, <1>2 DEF TypeOK
  <2>2. \A s \in Slots : seg'[s].cycle = seg[s].cycle
    BY <1>1, <1>2 DEF TypeOK
  <2>3. Filled' = 0
    BY <1>1, <1>2, <2>2 DEF TypeOK, Filled
  <2>4. CycleDiscipline'
    BY <1>1, <1>2, <2>2 DEF TypeOK, CycleDiscipline
  <2>5. ConsumerBehind' /\ Pending' = Pending
    BY <1>1, <1>2, <2>3 DEF ConsumerBehind, Pending, SameLap, xhcVars
  <2>6. OwnedAreWritten'
    BY <1>1, <1>2, <2>3 DEF TypeOK, ConsumerBehind, OwnedAreWritten, PendingSlots, SameLap, xhcVars
  <2>7. \A s \in PendingSlots : seg'[s].trb = seg[s].trb
    BY <1>1, <1>2 DEF TypeOK, ConsumerBehind, PendingSlots, SameLap
  <2> QED
    BY <1>1, <1>2, <2>1, <2>3, <2>4, <2>5, <2>6, <2>7 DEF TypeOK
<1>3. CASE /\ Filled = 1
           /\ RingEnqueue + 1 < Link
           /\ RingEnqueue' = RingEnqueue + 1
           /\ seg' = [seg EXCEPT ![RingEnqueue + 1].trb = NoTrb]
           /\ RingPCS' = RingPCS
  <2>1. seg' \in [Slots -> [cycle : {0, 1}, trb : Trbs \cup {NoTrb}]]
    BY <1>1, <1>3 DEF TypeOK
  <2>2. \A s \in Slots : seg'[s].cycle = seg[s].cycle
    BY <1>1, <1>3 DEF TypeOK
  <2>3. Filled' = 0
    BY <1>1, <1>3, <2>2 DEF TypeOK, CycleDiscipline, Filled
  <2>4. CycleDiscipline'
    BY <1>1, <1>3, <2>2 DEF TypeOK, CycleDiscipline, Filled
  <2>5. xDequeue' = xDequeue /\ SameLap' = SameLap
    BY <1>3 DEF xhcVars, SameLap
  <2>6. ~SameLap => RingEnqueue + 1 < xDequeue
    BY <1>1, <1>3 DEF TypeOK, Pending
  <2>7. ConsumerBehind' /\ Pending' = Pending
    <3>1. CASE SameLap
      BY <1>1, <1>3, <2>3, <2>5, <3>1 DEF TypeOK, ConsumerBehind, Pending
    <3>2. CASE ~SameLap
      BY <1>1, <1>3, <2>3, <2>5, <2>6, <3>2 DEF TypeOK, ConsumerBehind, Pending
    <3> QED
      BY <3>1, <3>2
  <2>8. PendingSlots' = PendingSlots /\ \A s \in PendingSlots : s \in Slots \ {RingEnqueue + 1}
    <3>1. CASE SameLap
      BY <1>1, <1>3, <2>3, <2>5, <3>1 DEF TypeOK, ConsumerBehind, PendingSlots
    <3>2. CASE ~SameLap
      BY <1>1, <1>3, <2>3, <2>5, <2>6, <3>2 DEF TypeOK, PendingSlots
    <3> QED
      BY <3>1, <3>2
  <2>9. \A s \in PendingSlots : seg'[s].trb = seg[s].trb
    BY <1>1, <1>3, <2>8 DEF TypeOK
  <2>10. OwnedAreWritten'
    BY <1>1, <2>8, <2>9 DEF OwnedAreWritten
  <2> QED
    BY <1>1, <1>3, <2>1, <2>3, <2>4, <2>7, <2>9, <2>10 DEF TypeOK
<1>4. CASE /\ Filled = 1
           /\ RingEnqueue + 1 = Link
           /\ RingEnqueue' = 0
           /\ seg' = [[seg EXCEPT ![Link].cycle = RingPCS] EXCEPT ![0].trb = NoTrb]
           /\ RingPCS' = Flip(RingPCS)
  <2>1. seg' \in [Slots -> [cycle : {0, 1}, trb : Trbs \cup {NoTrb}]]
    BY <1>1, <1>4 DEF TypeOK
  <2>2. /\ \A s \in 0..(Link - 1) : seg'[s].cycle = seg[s].cycle
        /\ seg'[Link].cycle = RingPCS
        /\ \A s \in 1..(Link - 1) : seg'[s].trb = seg[s].trb
    BY <1>1, <1>4 DEF TypeOK
  <2>3. \A s \in 0..(Link - 1) : seg[s].cycle = RingPCS
    BY <1>1, <1>4 DEF TypeOK, CycleDiscipline, Filled
  <2>4. Filled' = 0
    BY <1>1, <1>4, <2>2, <2>3 DEF TypeOK, Filled
  <2>5. CycleDiscipline'
    BY <1>1, <1>4, <2>2, <2>3 DEF TypeOK, CycleDiscipline
  <2>6. SameLap /\ ~SameLap' /\ xDequeue' = xDequeue
    <3>1. Pending <= Link - 1
      BY <1>4
    <3>2. SameLap
      BY <3>1, <1>1, <1>4 DEF TypeOK, ConsumerBehind, Pending, SameLap
    <3> QED
      BY <3>2, <1>1, <1>4 DEF TypeOK, SameLap, xhcVars
  <2>7. ConsumerBehind' /\ Pending' = Pending
    BY <1>1, <1>4, <2>4, <2>6 DEF TypeOK, ConsumerBehind, Pending
  <2>8. OwnedAreWritten'
    BY <1>1, <1>4, <2>2, <2>4, <2>6, <2>7 DEF TypeOK, ConsumerBehind, OwnedAreWritten, PendingSlots, Pending
  <2>9. RingEnqueue' \in 0..(Link - 1) /\ RingPCS' \in {0, 1}
    BY <1>1, <1>4 DEF TypeOK
  <2>10. \A s \in PendingSlots : s \in 1..(Link - 1)
    <3>1. xDequeue > 0
      BY <1>1, <1>4, <2>6 DEF TypeOK, Pending
    <3> QED
      BY <3>1, <1>1, <1>4, <2>6 DEF TypeOK, PendingSlots
  <2> QED
    BY <2>1, <2>2, <2>4, <2>5, <2>7, <2>8, <2>9, <2>10
<1> QED
  BY <1>2, <1>3, <1>4, SyncEffect

\* A step that leaves the memory, the driver's cursor and the xHC's cursor
\* alone keeps the four conjuncts about them.
LEMMA RingUntouched ==
  ASSUME RingInv, UNCHANGED <<seg, RingEnqueue, RingPCS, xDequeue, xCCS>>
  PROVE  /\ CycleDiscipline' /\ ConsumerBehind' /\ OwnedAreWritten'
         /\ Filled' = Filled /\ Pending' = Pending
         /\ (seg[RingEnqueue].trb)' = seg[RingEnqueue].trb
  BY DEF RingInv, CycleDiscipline, ConsumerBehind, OwnedAreWritten, PendingSlots,
         SameLap, Filled, Pending

\* The driver's step in which the slot at RingEnqueue gets its contents or its
\* cycle bit: at most that slot is added to what the xHC owns.
LEMMA EnqueueSlotStored ==
  ASSUME RingInv, NEW slot \in [cycle : {0, 1}, trb : Trbs],
         seg' = [seg EXCEPT ![RingEnqueue] = slot],
         UNCHANGED <<RingEnqueue, RingPCS, xDequeue, xCCS>>,
         slot.cycle = RingPCS \/ Filled = 0
  PROVE  /\ seg' \in [Slots -> [cycle : {0, 1}, trb : Trbs \cup {NoTrb}]]
         /\ CycleDiscipline' /\ ConsumerBehind' /\ OwnedAreWritten'
         /\ (seg[RingEnqueue].trb)' \in Trbs
         /\ \/ slot.cycle # RingPCS /\ Filled = 0 /\ Filled' = 0 /\ Pending' = Pending
            \/ slot.cycle = RingPCS /\ Filled = 0 /\ Filled' = 1 /\ Pending' = Pending + 1
            \/ slot.cycle = RingPCS /\ Filled = 1 /\ Filled' = 1 /\ Pending' = Pending
<1> USE RingAssumption DEF Link, Slots
<1>1. TypeOK /\ CycleDiscipline /\ ConsumerBehind /\ OwnedAreWritten
  BY DEF RingInv
<1>2. seg' \in [Slots -> [cycle : {0, 1}, trb : Trbs \cup {NoTrb}]]
  BY <1>1 DEF TypeOK
<1>3. /\ seg'[RingEnqueue] = slot
      /\ \A s \in Slots \ {RingEnqueue} : seg'[s] = seg[s]
  BY <1>1 DEF TypeOK
<1>4. CycleDiscipline'
  BY <1>1, <1>3 DEF TypeOK, CycleDiscipline
<1>5. /\ RingEnqueue' = RingEnqueue /\ xDequeue' = xDequeue
      /\ RingPCS' = RingPCS /\ xCCS' = xCCS
      /\ RingEnqueue \in Int /\ xDequeue \in Int /\ Link \in Int
      /\ 0 <= RingEnqueue /\ RingEnqueue < Link /\ 0 <= xDequeue /\ xDequeue <= Link
  BY <1>1 DEF TypeOK
<1> HIDE DEF Link
<1>6. \/ slot.cycle # RingPCS /\ Filled = 0 /\ Filled' = 0
      \/ slot.cycle = RingPCS /\ Filled = 0 /\ Filled' = 1
      \/ slot.cycle = RingPCS /\ Filled = 1 /\ Filled' = 1
  BY <1>3, <1>5 DEF Filled
<1>7. ConsumerBehind'
  BY <1>1, <1>5, <1>6 DEF ConsumerBehind, SameLap
<1>8. \/ slot.cycle # RingPCS /\ Filled = 0 /\ Filled' = 0 /\ Pending' = Pending
      \/ slot.cycle = RingPCS /\ Filled = 0 /\ Filled' = 1 /\ Pending' = Pending + 1
      \/ slot.cycle = RingPCS /\ Filled = 1 /\ Filled' = 1 /\ Pending' = Pending
  <2>1. CASE slot.cycle # RingPCS /\ Filled = 0 /\ Filled' = 0
    BY <2>1, <1>5 DEF Pending, SameLap
  <2>2. CASE slot.cycle = RingPCS /\ Filled = 0 /\ Filled' = 1
    BY <2>2, <1>5 DEF Pending, SameLap
  <2>3. CASE slot.cycle = RingPCS /\ Filled = 1 /\ Filled' = 1
    BY <2>3, <1>5 DEF Pending, SameLap
  <2> QED
    BY <2>1, <2>2, <2>3, <1>6
<1>9. OwnedAreWritten'
  <2> SUFFICES ASSUME NEW s \in PendingSlots'
               PROVE  seg'[s].trb \in Trbs
    BY DEF OwnedAreWritten
  <2>1. CASE s = RingEnqueue
    BY <2>1, <1>3
  <2>2. CASE s # RingEnqueue
    <3>1. s \in PendingSlots /\ s \in Slots
      <4>1. CASE Filled = 0 /\ Filled' = 0
        BY <4>1, <1>5, <1>1 DEF PendingSlots, SameLap, ConsumerBehind
      <4>2. CASE Filled = 0 /\ Filled' = 1
        BY <4>2, <2>2, <1>5, <1>1 DEF PendingSlots, SameLap, ConsumerBehind
      <4>3. CASE Filled = 1 /\ Filled' = 1
        BY <4>3, <2>2, <1>5, <1>1 DEF PendingSlots, SameLap, ConsumerBehind
      <4> QED
        BY <4>1, <4>2, <4>3, <1>6
    <3> QED
      BY <3>1, <2>2, <1>1, <1>3 DEF OwnedAreWritten
  <2> QED
    BY <2>1, <2>2
<1> QED
  BY <1>2, <1>3, <1>4, <1>5, <1>7, <1>8, <1>9

\* Counting is arithmetic.
LEMMA Counts ==
  ASSUME RingInv
  PROVE  /\ Filled \in {0, 1} /\ Filled \in Int /\ Pending \in Nat /\ Capacity \in Int
         /\ Link \in Nat /\ Link >= 2 /\ Capacity \in {Link - 1, Link}
         /\ Slots = 0..Link /\ RingEnqueue \in Slots /\ xDequeue \in Slots
  BY RingAssumption DEF RingInv, TypeOK, ConsumerBehind, Pending, Filled, Link, Slots, Capacity

\* Each step keeps the invariant of the ring.
LEMMA RingInvStep == RingInv /\ [Next]_vars => RingInv'
<1> SUFFICES ASSUME RingInv, [Next]_vars
             PROVE  RingInv'
  OBVIOUS
<1> USE RingAssumption
<1>0. /\ TypeOK /\ RoomKept /\ EnqueuePhase
      /\ Filled \in {0, 1} /\ Filled \in Int /\ Pending \in Nat /\ Capacity \in Int
      /\ Link \in Nat /\ Link >= 2 /\ Capacity \in {Link - 1, Link}
      /\ Slots = 0..Link /\ RingEnqueue \in Slots /\ xDequeue \in Slots
  BY Counts DEF RingInv
<1>1. ASSUME NEW n \in 1..MaxTd, StartTd(n)
      PROVE  RingInv'
  <2>1. pc = "idle" /\ SyncTrsRing /\ UNCHANGED xhcVars /\ todo' = n /\ pc' = "body"
        /\ Pending + n <= Capacity /\ (CommandRing => n = 1)
    BY <1>1 DEF StartTd, RoomFor
  <2>2. Pending <= Link - 1
    BY <2>1, <1>0
  <2>3. /\ seg' \in [Slots -> [cycle : {0, 1}, trb : Trbs \cup {NoTrb}]]
        /\ RingEnqueue' \in 0..(Link - 1)
        /\ RingPCS' \in {0, 1}
        /\ CycleDiscipline' /\ ConsumerBehind' /\ OwnedAreWritten'
        /\ Filled' = 0
        /\ Pending' = Pending
    BY <2>1, <2>2, SyncKeeps
  <2>4. TypeOK'
    BY <2>1, <2>3, <1>0 DEF TypeOK, xhcVars
  <2>5. RoomKept'
    BY <2>1, <2>3, <1>0 DEF RoomKept, Building, Capacity
  <2>6. EnqueuePhase'
    BY <2>1, <2>3 DEF EnqueuePhase, Building
  <2> QED
    BY <2>3, <2>4, <2>5, <2>6 DEF RingInv
<1>2. ASSUME NEW t \in Trbs, WriteBody(t)
      PROVE  RingInv'
  <2> DEFINE slot == [cycle |-> IF CommandRing THEN 1 ELSE seg[RingEnqueue].cycle, trb |-> t]
  <2>1. /\ pc = "body" /\ pc' = "cycle" /\ Filled = 0
        /\ seg' = [seg EXCEPT ![RingEnqueue] = slot]
        /\ UNCHANGED <<RingEnqueue, RingPCS, todo, xDequeue, xCCS, endpoint, current>>
    BY <1>0, <1>2 DEF WriteBody, EnqueuePhase
  <2>2. slot \in [cycle : {0, 1}, trb : Trbs]
    BY <1>0 DEF TypeOK
  <2> HIDE DEF slot
  <2>3. /\ seg' \in [Slots -> [cycle : {0, 1}, trb : Trbs \cup {NoTrb}]]
        /\ CycleDiscipline' /\ ConsumerBehind' /\ OwnedAreWritten'
        /\ (seg[RingEnqueue].trb)' \in Trbs
        /\ \/ slot.cycle # RingPCS /\ Filled' = 0 /\ Pending' = Pending
           \/ slot.cycle = RingPCS /\ Filled' = 1 /\ Pending' = Pending + 1
    <3>1. /\ seg' \in [Slots -> [cycle : {0, 1}, trb : Trbs \cup {NoTrb}]]
          /\ CycleDiscipline' /\ ConsumerBehind' /\ OwnedAreWritten'
          /\ (seg[RingEnqueue].trb)' \in Trbs
          /\ \/ slot.cycle # RingPCS /\ Filled = 0 /\ Filled' = 0 /\ Pending' = Pending
             \/ slot.cycle = RingPCS /\ Filled = 0 /\ Filled' = 1 /\ Pending' = Pending + 1
             \/ slot.cycle = RingPCS /\ Filled = 1 /\ Filled' = 1 /\ Pending' = Pending
      BY <2>1, <2>2, EnqueueSlotStored
    <3> QED
      BY <3>1, <2>1
  <2>4. TypeOK'
    BY <2>1, <2>3, <1>0 DEF TypeOK
  <2>5. EnqueuePhase'
    <3>1. ~CommandRing => slot.cycle # RingPCS
      BY <2>1 DEF slot, Filled
    <3> QED
      BY <3>1, <2>1, <2>3, <1>0 DEF EnqueuePhase, Building
  <2>6. RoomKept'
    <3>1. Pending + todo <= Capacity /\ todo \in Nat /\ todo' = todo
      BY <2>1, <1>0 DEF RoomKept, Building, TypeOK
    <3>2. CASE Filled' = 0 /\ Pending' = Pending
      BY <3>1, <3>2, <2>1, <1>0 DEF RoomKept, Building, Capacity
    <3>3. CASE Filled' = 1 /\ Pending' = Pending + 1
      BY <3>1, <3>3, <2>1, <1>0 DEF RoomKept, Building, Capacity
    <3> QED
      BY <3>2, <3>3, <2>3
  <2> QED
    BY <2>3, <2>4, <2>5, <2>6 DEF RingInv
<1>3. ASSUME SetCycleBit
      PROVE  RingInv'
  <2> DEFINE slot == [cycle |-> RingPCS, trb |-> seg[RingEnqueue].trb]
  <2>1. /\ pc = "cycle" /\ pc' = IF CommandRing THEN "doorbell" ELSE "sync"
        /\ seg[RingEnqueue].trb \in Trbs
        /\ UNCHANGED <<RingEnqueue, RingPCS, todo, xDequeue, xCCS, endpoint, current>>
    BY <1>0, <1>3 DEF SetCycleBit, EnqueuePhase
  <2>2. slot \in [cycle : {0, 1}, trb : Trbs] /\ slot.cycle = RingPCS
    BY <2>1, <1>0 DEF TypeOK
  <2>3. seg' = [seg EXCEPT ![RingEnqueue] = slot]
    <3>1. seg[RingEnqueue] \in [cycle : {0, 1}, trb : Trbs \cup {NoTrb}]
      BY <1>0 DEF TypeOK
    <3>2. [seg[RingEnqueue] EXCEPT !.cycle = RingPCS] = slot
      BY <3>1
    <3> QED
      BY <3>2, <1>3 DEF SetCycleBit
  <2> HIDE DEF slot
  <2>4. /\ seg' \in [Slots -> [cycle : {0, 1}, trb : Trbs \cup {NoTrb}]]
        /\ CycleDiscipline' /\ ConsumerBehind' /\ OwnedAreWritten'
        /\ (seg[RingEnqueue].trb)' \in Trbs
        /\ \/ Filled = 0 /\ Filled' = 1 /\ Pending' = Pending + 1
           \/ Filled = 1 /\ Filled' = 1 /\ Pending' = Pending
    BY <2>1, <2>2, <2>3, EnqueueSlotStored
  <2>5. TypeOK'
    BY <2>1, <2>4, <1>0 DEF TypeOK
  <2>6. EnqueuePhase'
    BY <2>1, <2>4, <1>0 DEF EnqueuePhase, Building
  <2>7. RoomKept'
    <3>1. Pending + (todo - Filled) <= Capacity /\ todo \in Nat /\ todo >= 1 /\ todo' = todo
      BY <2>1, <1>0 DEF RoomKept, Building, TypeOK, EnqueuePhase
    <3>2. CASE Filled = 0 /\ Filled' = 1 /\ Pending' = Pending + 1
      BY <3>1, <3>2, <2>1, <1>0 DEF RoomKept, Building, Capacity
    <3>3. CASE Filled = 1 /\ Filled' = 1 /\ Pending' = Pending
      BY <3>1, <3>3, <2>1, <1>0 DEF RoomKept, Building, Capacity
    <3> QED
      BY <3>2, <3>3, <2>4
  <2> QED
    BY <2>4, <2>5, <2>6, <2>7 DEF RingInv
<1>4. ASSUME SyncAfterTrb
      PROVE  RingInv'
  <2>1. /\ pc = "sync" /\ Filled = 1 /\ ~CommandRing /\ todo >= 1
        /\ SyncTrsRing /\ UNCHANGED xhcVars
        /\ todo' = todo - 1 /\ pc' = IF todo = 1 THEN "doorbell" ELSE "body"
    BY <1>0, <1>4 DEF SyncAfterTrb, EnqueuePhase, Building
  <2>2. Pending <= Link - 1
    BY <2>1, <1>0 DEF RoomKept, Building, Capacity, TypeOK
  <2>3. /\ seg' \in [Slots -> [cycle : {0, 1}, trb : Trbs \cup {NoTrb}]]
        /\ RingEnqueue' \in 0..(Link - 1)
        /\ RingPCS' \in {0, 1}
        /\ CycleDiscipline' /\ ConsumerBehind' /\ OwnedAreWritten'
        /\ Filled' = 0
        /\ Pending' = Pending
    BY <2>1, <2>2, SyncKeeps
  <2>4. TypeOK'
    BY <2>1, <2>3, <1>0 DEF TypeOK, xhcVars
  <2>5. RoomKept'
    BY <2>1, <2>3, <1>0 DEF RoomKept, Building, Capacity, TypeOK
  <2>6. EnqueuePhase'
    BY <2>1, <2>3, <1>0 DEF EnqueuePhase, Building, TypeOK
  <2> QED
    BY <2>3, <2>4, <2>5, <2>6 DEF RingInv
<1>5. ASSUME RingDoorBell \/ StopEndpoint \/ RecoveryFails \/ Drain \/ UNCHANGED vars
      PROVE  RingInv'
  <2>1. UNCHANGED <<seg, RingEnqueue, RingPCS, xDequeue, xCCS, todo>>
    BY <1>5 DEF RingDoorBell, StopEndpoint, RecoveryFails, Drain, vars
  <2>2. /\ CycleDiscipline' /\ ConsumerBehind' /\ OwnedAreWritten'
        /\ Filled' = Filled /\ Pending' = Pending
        /\ (seg[RingEnqueue].trb)' = seg[RingEnqueue].trb
    BY <2>1, RingUntouched
  <2>3. TypeOK'
    BY <1>0, <1>5, <2>1 DEF TypeOK, RingDoorBell, StopEndpoint, RecoveryFails, Drain, vars
  <2>7. pc' = "stopped" => endpoint' = "stopped"
    BY <1>0, <1>5 DEF RingDoorBell, StopEndpoint, RecoveryFails, Drain, vars, EnqueuePhase
  <2>4. pc' = pc \/ (~(Building') /\ pc' # "doorbell" /\ (pc' = "stopped" => ~CommandRing) /\ pc # "sync")
    BY <1>5 DEF RingDoorBell, StopEndpoint, RecoveryFails, Drain, vars, Building
  <2>5. EnqueuePhase'
    BY <1>0, <2>1, <2>2, <2>4, <2>7 DEF EnqueuePhase, Building
  <2>6. RoomKept'
    BY <1>0, <2>1, <2>2, <2>4 DEF RoomKept, Building, Capacity, EnqueuePhase, TypeOK
  <2> QED
    BY <2>2, <2>3, <2>5, <2>6 DEF RingInv
<1>6. ASSUME SetTrDequeuePointer
      PROVE  RingInv'
  <2>1. /\ pc = "stopped" /\ pc' = "doorbell" /\ ~CommandRing /\ Filled = 0
        /\ xDequeue' = RingEnqueue /\ xCCS' = RingPCS
        /\ UNCHANGED <<seg, RingEnqueue, RingPCS, todo, endpoint, current>>
    BY <1>0, <1>6 DEF SetTrDequeuePointer, EnqueuePhase
  <2>2. TypeOK'
    BY <1>0, <2>1 DEF TypeOK
  <2>3. SameLap' /\ Filled' = 0 /\ Pending' = 0
    BY <1>0, <2>1 DEF SameLap, Filled, Pending, TypeOK
  <2>4. CycleDiscipline'
    BY <2>1 DEF RingInv, CycleDiscipline
  <2>5. ConsumerBehind'
    BY <1>0, <2>1, <2>3 DEF ConsumerBehind
  <2>6. OwnedAreWritten'
    BY <1>0, <2>1, <2>3 DEF OwnedAreWritten, PendingSlots, TypeOK
  <2>7. RoomKept' /\ EnqueuePhase'
    BY <1>0, <2>1, <2>3 DEF RoomKept, Building, Capacity, EnqueuePhase
  <2> QED
    BY <2>2, <2>4, <2>5, <2>6, <2>7 DEF RingInv
<1>7. ASSUME FetchTrb
      PROVE  RingInv'
  <2>1. /\ xDequeue # Link /\ seg[xDequeue].cycle = xCCS
        /\ xDequeue' = xDequeue + 1
        /\ UNCHANGED <<seg, RingEnqueue, RingPCS, pc, todo, xCCS, endpoint>>
        /\ current' = seg[xDequeue].trb
    BY <1>7 DEF FetchTrb, Owned
  <2>2. TypeOK'
    BY <1>0, <2>1 DEF TypeOK
  <2>3. Filled' = Filled /\ SameLap' = SameLap
    BY <2>1 DEF Filled, SameLap
  <2>4. SameLap => xDequeue < RingEnqueue + Filled
    BY <1>0, <2>1 DEF RingInv, ConsumerBehind, CycleDiscipline, SameLap, Filled, TypeOK
  <2>5. CycleDiscipline'
    BY <2>1 DEF RingInv, CycleDiscipline
  <2>6. ConsumerBehind'
    BY <1>0, <2>1, <2>3, <2>4 DEF RingInv, ConsumerBehind, TypeOK
  <2>7. Pending' = Pending - 1
    BY <1>0, <2>1, <2>3 DEF Pending, TypeOK
  <2>8. OwnedAreWritten'
    BY <1>0, <2>1, <2>3 DEF RingInv, OwnedAreWritten, PendingSlots, TypeOK
  <2>9. RoomKept'
    BY <1>0, <2>1, <2>3, <2>7 DEF RoomKept, Building, Capacity, TypeOK
  <2>10. EnqueuePhase'
    BY <1>0, <2>1, <2>3 DEF EnqueuePhase, Building
  <2> QED
    BY <2>2, <2>5, <2>6, <2>8, <2>9, <2>10 DEF RingInv
<1>8. ASSUME FollowLink
      PROVE  RingInv'
  <2>1. /\ xDequeue = Link /\ seg[Link].cycle = xCCS
        /\ xDequeue' = 0 /\ xCCS' = 1 - xCCS
        /\ UNCHANGED <<seg, RingEnqueue, RingPCS, pc, todo, endpoint, current>>
    BY <1>8 DEF FollowLink, Owned, Flip
  <2>2. TypeOK'
    BY <1>0, <2>1 DEF TypeOK
  <2>3. ~SameLap /\ SameLap' /\ Filled' = Filled
    BY <1>0, <2>1 DEF RingInv, CycleDiscipline, SameLap, Filled, TypeOK
  <2>4. CycleDiscipline'
    BY <2>1 DEF RingInv, CycleDiscipline
  <2>5. ConsumerBehind' /\ Pending' = Pending
    BY <1>0, <2>1, <2>3 DEF ConsumerBehind, Pending, TypeOK
  <2>6. OwnedAreWritten'
    BY <1>0, <2>1, <2>3 DEF RingInv, OwnedAreWritten, PendingSlots, TypeOK
  <2>7. RoomKept' /\ EnqueuePhase'
    BY <1>0, <2>1, <2>3, <2>5 DEF RoomKept, Building, Capacity, EnqueuePhase
  <2> QED
    BY <2>2, <2>4, <2>5, <2>6, <2>7 DEF RingInv
<1> QED
  BY <1>1, <1>2, <1>3, <1>4, <1>5, <1>6, <1>7, <1>8 DEF Next, Driver, Xhc

\* The type invariant, the cycle discipline and what the xHC may own hold in
\* every reachable state of XhcSyncTrsRing, XhcCreateTransferTrb,
\* XhcCreateCmdTrb and the recoveries, whatever the size of the ring.
THEOREM RingSafety == SafeSpec => []RingInv
<1>1. Init => RingInv
  BY RingInvInit
<1>2. RingInv /\ [Next]_vars => RingInv'
  BY RingInvStep
<1> QED
  BY <1>1, <1>2, PTL DEF SafeSpec

\* The cursors of XhcCreateTransferTrb and XhcCreateCmdTrb stay in the ring, and
\* every slot holds a TRB or is cleared.
THEOREM TypeCorrect == SafeSpec => []TypeOK
<1>1. RingInv => TypeOK
  BY DEF RingInv
<1> QED
  BY <1>1, RingSafety, PTL

\* Whatever the xHC may fetch was completed by SetCycleBit: it never executes a
\* cleared slot or a TRB whose fields are not stored yet.
THEOREM NeverHalfWritten == SafeSpec => []OwnedAreWritten
<1>1. RingInv => OwnedAreWritten
  BY DEF RingInv
<1> QED
  BY <1>1, RingSafety, PTL

-----------------------------------------------------------------------------
(* The ring implements the queue. *)

\* The pending TRBs are the sequence Queue, one after the other.
LEMMA QueueIsSeq ==
  ASSUME RingInv
  PROVE  /\ Queue \in Seq(Trbs) /\ Len(Queue) = Pending
         /\ \A i \in 1..Pending : /\ SlotOf(i) \in PendingSlots /\ SlotOf(i) \in Slots
                                 /\ Queue[i] = seg[SlotOf(i)].trb
<1>1. Pending \in Nat
  BY Counts
<1>2. ASSUME NEW i \in 1..Pending
      PROVE  SlotOf(i) \in PendingSlots /\ SlotOf(i) \in Slots
  <2>1. /\ RingEnqueue \in Int /\ xDequeue \in Int /\ Link \in Int /\ i \in Int /\ Filled \in Int
        /\ 0 <= RingEnqueue /\ RingEnqueue < Link /\ 0 <= xDequeue /\ xDequeue <= Link
        /\ 0 <= Filled /\ Filled <= 1 /\ 1 <= i /\ i <= Pending /\ Slots = 0..Link
    BY <1>1, Counts, RingAssumption DEF RingInv, TypeOK, Link
  <2>2. CASE SameLap
    BY <2>1, <2>2 DEF Pending, PendingSlots, SlotOf
  <2>3. CASE ~SameLap
    BY <2>1, <2>3 DEF RingInv, ConsumerBehind, Pending, PendingSlots, SlotOf
  <2> QED
    BY <2>2, <2>3
<1>3. \A i \in 1..Pending : seg[SlotOf(i)].trb \in Trbs
  BY <1>2 DEF RingInv, OwnedAreWritten
<1>4. Queue \in [1..Pending -> Trbs]
  BY <1>3 DEF Queue
<1> QED
  BY <1>1, <1>2, <1>4 DEF Queue

\* Two rings with as many pending TRBs, the same ones, are the same queue.
LEMMA QueueKept ==
  ASSUME Pending' = Pending,
         \A i \in 1..Pending : (seg[SlotOf(i)].trb)' = seg[SlotOf(i)].trb
  PROVE  Queue' = Queue
  BY DEF Queue

\* A synchronisation does not change the queue.
LEMMA SyncKeepsQueue ==
  ASSUME RingInv, SyncTrsRing, UNCHANGED xhcVars,
         Pending <= Link - 1 \/ Filled = 0
  PROVE  Queue' = Queue
<1>1. Pending' = Pending /\ \A s \in PendingSlots : seg'[s].trb = seg[s].trb
  BY SyncKeeps
<1>2. \A i \in 1..Pending : SlotOf(i)' = SlotOf(i) /\ SlotOf(i) \in PendingSlots
  BY QueueIsSeq DEF SlotOf, xhcVars
<1> QED
  BY <1>1, <1>2, QueueKept

\* A TRB joins the queue when its slot is handed over, at the end of it, and
\* a slot that is stored but not handed over does not.
LEMMA StoreAppends ==
  ASSUME RingInv, RingInv', NEW slot \in [cycle : {0, 1}, trb : Trbs],
         seg' = [seg EXCEPT ![RingEnqueue] = slot],
         UNCHANGED <<RingEnqueue, RingPCS, xDequeue, xCCS>>,
         slot.cycle = RingPCS \/ Filled = 0,
         Filled = 1 => slot.trb = seg[RingEnqueue].trb
  PROVE  Queue' = Queue \/ Queue' = Append(Queue, slot.trb)
<1>1. /\ RingEnqueue \in Int /\ xDequeue \in Int /\ Link \in Int /\ Pending \in Nat
      /\ 0 <= RingEnqueue /\ RingEnqueue < Link /\ 0 <= xDequeue /\ xDequeue <= Link
      /\ TypeOK /\ ConsumerBehind /\ RingEnqueue \in Slots
  BY Counts, RingAssumption DEF RingInv, TypeOK, Link
<1>2. /\ seg'[RingEnqueue] = slot
      /\ \A s \in Slots \ {RingEnqueue} : seg'[s] = seg[s]
  BY <1>1 DEF TypeOK
<1>3. \A i : SlotOf(i)' = SlotOf(i)
  BY DEF SlotOf
<1>4. \/ Filled = 0 /\ Filled' = 0 /\ Pending' = Pending
      \/ Filled = 0 /\ Filled' = 1 /\ Pending' = Pending + 1
      \/ Filled = 1 /\ Filled' = 1 /\ Pending' = Pending
  BY EnqueueSlotStored
<1>5. ASSUME Filled = 0, NEW i \in 1..Pending
      PROVE  SlotOf(i) # RingEnqueue /\ SlotOf(i) \in Slots
  <2>1. SlotOf(i) \in PendingSlots /\ SlotOf(i) \in Slots
    BY QueueIsSeq
  <2> QED
    BY <2>1, <1>1, <1>5 DEF PendingSlots, ConsumerBehind, SameLap
<1>6. CASE Filled = 0 /\ Filled' = 0 /\ Pending' = Pending
  <2>1. \A i \in 1..Pending : seg'[SlotOf(i)].trb = seg[SlotOf(i)].trb
    BY <1>2, <1>5, <1>6
  <2> QED
    BY <2>1, <1>3, <1>6, QueueKept
<1>7. CASE Filled = 1 /\ Filled' = 1 /\ Pending' = Pending
  <2>1. \A s \in Slots : seg'[s].trb = seg[s].trb
    BY <1>2, <1>7
  <2>2. \A i \in 1..Pending : SlotOf(i) \in Slots
    BY QueueIsSeq
  <2> QED
    BY <2>1, <2>2, <1>3, <1>7, QueueKept
<1>8. CASE Filled = 0 /\ Filled' = 1 /\ Pending' = Pending + 1
  <2>1. /\ Queue \in Seq(Trbs) /\ Len(Queue) = Pending
        /\ \A i \in 1..Pending : Queue[i] = seg[SlotOf(i)].trb
    BY QueueIsSeq
  <2>2. Queue' = [i \in 1..(Pending + 1) |-> seg'[SlotOf(i)].trb]
    BY <1>3, <1>8 DEF Queue
  <2>3. SlotOf(Pending + 1) = RingEnqueue
    BY <1>1, <1>8 DEF SlotOf, Pending, SameLap, ConsumerBehind
  <2>4. \A i \in 1..Pending : seg'[SlotOf(i)].trb = Queue[i]
    BY <2>1, <1>2, <1>5, <1>8
  <2>5. /\ Append(Queue, slot.trb) \in Seq(Trbs)
        /\ Len(Append(Queue, slot.trb)) = Pending + 1
        /\ \A i \in 1..Pending : Append(Queue, slot.trb)[i] = Queue[i]
        /\ Append(Queue, slot.trb)[Pending + 1] = slot.trb
    BY <2>1, <1>1, AppendProperties
  <2>6. Append(Queue, slot.trb) = [i \in 1..(Pending + 1) |-> Append(Queue, slot.trb)[i]]
    BY <2>5, LenProperties
  <2>7. \A i \in 1..(Pending + 1) : seg'[SlotOf(i)].trb = Append(Queue, slot.trb)[i]
    <3> SUFFICES ASSUME NEW i \in 1..(Pending + 1)
                 PROVE  seg'[SlotOf(i)].trb = Append(Queue, slot.trb)[i]
      OBVIOUS
    <3>1. CASE i = Pending + 1
      BY <3>1, <2>3, <2>5, <1>2
    <3>2. CASE i # Pending + 1
      <4>1. i \in 1..Pending
        BY <3>2, <1>1
      <4> QED
        BY <4>1, <2>4, <2>5
    <3> QED
      BY <3>1, <3>2
  <2>8. Queue' = Append(Queue, slot.trb)
    BY <2>2, <2>6, <2>7
  <2> QED
    BY <2>8
<1> QED
  BY <1>4, <1>6, <1>7, <1>8

\* The xHC fetches the oldest TRB of the queue.
LEMMA FetchTakes ==
  ASSUME RingInv, RingInv', FetchTrb
  PROVE  Queue # <<>> /\ current' = Head(Queue) /\ Queue' = Tail(Queue)
<1>1. /\ RingEnqueue \in Int /\ xDequeue \in Int /\ Link \in Int /\ Pending \in Nat /\ Filled \in Int
      /\ 0 <= RingEnqueue /\ RingEnqueue < Link /\ 0 <= xDequeue /\ xDequeue <= Link
      /\ TypeOK /\ ConsumerBehind /\ CycleDiscipline /\ Filled \in {0, 1}
  BY Counts, RingAssumption DEF RingInv, TypeOK, Link
<1>2. /\ xDequeue # Link /\ seg[xDequeue].cycle = xCCS
      /\ xDequeue' = xDequeue + 1 /\ current' = seg[xDequeue].trb
      /\ UNCHANGED <<seg, RingEnqueue, RingPCS, xCCS>>
  BY DEF FetchTrb, Owned
<1>3. Pending >= 1
  <2>1. CASE SameLap
    BY <2>1, <1>1, <1>2 DEF ConsumerBehind, CycleDiscipline, SameLap, Filled, Pending
  <2>2. CASE ~SameLap
    BY <2>2, <1>1, <1>2 DEF ConsumerBehind, Pending
  <2> QED
    BY <2>1, <2>2
<1>4. Pending' = Pending - 1
  BY <1>1, <1>2 DEF Pending, SameLap, Filled
<1>5. SlotOf(1) = xDequeue
  BY <1>1, <1>2 DEF SlotOf
<1>6. ASSUME NEW i \in 1..(Pending - 1)
      PROVE  SlotOf(i)' = SlotOf(i + 1)
  BY <1>1, <1>2 DEF SlotOf
<1>7. /\ Queue \in Seq(Trbs) /\ Len(Queue) = Pending
      /\ \A i \in 1..Pending : Queue[i] = seg[SlotOf(i)].trb
  BY QueueIsSeq
<1>8. Queue # <<>>
  BY <1>3, <1>7
<1>9. Head(Queue) = seg[xDequeue].trb
  BY <1>3, <1>5, <1>7, <1>8
<1>10. /\ Tail(Queue) \in Seq(Trbs) /\ Len(Tail(Queue)) = Pending - 1
       /\ \A i \in 1..(Pending - 1) : Tail(Queue)[i] = Queue[i + 1]
  BY <1>7, <1>8, HeadTailProperties
<1>11. Queue' = [i \in 1..(Pending - 1) |-> seg[SlotOf(i)'].trb]
  BY <1>2, <1>4 DEF Queue
<1>12. \A i \in 1..(Pending - 1) : seg[SlotOf(i)'].trb = Tail(Queue)[i]
  <2> SUFFICES ASSUME NEW i \in 1..(Pending - 1)
               PROVE  seg[SlotOf(i)'].trb = Tail(Queue)[i]
    OBVIOUS
  <2>1. i + 1 \in 1..Pending
    BY <1>1
  <2> QED
    BY <2>1, <1>6, <1>7, <1>10
<1>13. Tail(Queue) = [i \in 1..(Pending - 1) |-> Tail(Queue)[i]]
  BY <1>10, LenProperties
<1>14. Queue' = Tail(Queue)
  BY <1>11, <1>12, <1>13
<1> QED
  BY <1>2, <1>8, <1>9, <1>14

\* Following the Link TRB renumbers the pending slots, and that is all.
LEMMA LinkKeepsQueue ==
  ASSUME RingInv, FollowLink
  PROVE  Queue' = Queue
<1>1. /\ RingEnqueue \in Int /\ Link \in Int /\ Pending \in Nat /\ Filled \in Int
      /\ 0 <= RingEnqueue /\ RingEnqueue < Link /\ Link >= 2
      /\ TypeOK /\ CycleDiscipline /\ Filled \in {0, 1}
  BY Counts, RingAssumption DEF RingInv, TypeOK, Link
<1>2. /\ xDequeue = Link /\ seg[Link].cycle = xCCS
      /\ xDequeue' = 0 /\ xCCS' = 1 - xCCS
      /\ UNCHANGED <<seg, RingEnqueue, RingPCS>>
  BY DEF FollowLink, Owned, Flip
<1>3. ~SameLap /\ SameLap' /\ Filled' = Filled
  BY <1>1, <1>2 DEF CycleDiscipline, SameLap, Filled, TypeOK
<1>4. Pending' = Pending /\ Pending <= Link
  BY <1>1, <1>2, <1>3 DEF Pending
<1>5. ASSUME NEW i \in 1..Pending
      PROVE  SlotOf(i)' = SlotOf(i)
  BY <1>1, <1>2, <1>4 DEF SlotOf
<1> QED
  BY <1>2, <1>4, <1>5, QueueKept

\* At first the ring stands for the empty queue.
LEMMA InitIsQueue == Init => WQ!Init
<1> SUFFICES ASSUME Init PROVE WQ!Init
  OBVIOUS
<1>1. RingInv /\ Pending = 0
  BY RingInvInit, RingAssumption DEF Init, Pending, SameLap, Filled, Link, Slots
<1>2. Queue = <<>>
  BY <1>1, QueueIsSeq, EmptySeq
<1> QED
  BY <1>2 DEF Init, WQ!Init

\* Each step of the ring is one of the queue, or leaves the queue as it is.
LEMMA StepIsQueueStep == RingInv /\ RingInv' /\ [Next]_vars => [WQ!Next]_WQ!vars
<1> SUFFICES ASSUME RingInv, RingInv', [Next]_vars
             PROVE  [WQ!Next]_WQ!vars
  OBVIOUS
<1> USE DEF WQ!vars
<1>0. /\ TypeOK /\ RoomKept /\ EnqueuePhase
      /\ Filled \in {0, 1} /\ Pending \in Nat /\ Link \in Nat /\ Capacity \in {Link - 1, Link}
  BY Counts DEF RingInv
<1>1. ASSUME NEW n \in 1..MaxTd, StartTd(n)
      PROVE  UNCHANGED WQ!vars
  <2>1. Pending <= Link - 1
    BY <1>0, <1>1 DEF StartTd, RoomFor
  <2> QED
    BY <1>1, <2>1, SyncKeepsQueue DEF StartTd, xhcVars
<1>2. ASSUME NEW t \in Trbs, WriteBody(t)
      PROVE  UNCHANGED WQ!vars \/ WQ!Put(t)
  <2> DEFINE slot == [cycle |-> IF CommandRing THEN 1 ELSE seg[RingEnqueue].cycle, trb |-> t]
  <2>1. /\ Filled = 0
        /\ seg' = [seg EXCEPT ![RingEnqueue] = slot]
        /\ UNCHANGED <<RingEnqueue, RingPCS, xDequeue, xCCS, endpoint, current>>
    BY <1>0, <1>2 DEF WriteBody, EnqueuePhase
  <2>2. slot \in [cycle : {0, 1}, trb : Trbs] /\ slot.trb = t
    BY <1>0, Counts DEF TypeOK
  <2> HIDE DEF slot
  <2>3. Filled = 1 => slot.trb = seg[RingEnqueue].trb
    BY <2>1
  <2>4. Queue' = Queue \/ Queue' = Append(Queue, slot.trb)
    BY <2>1, <2>2, <2>3, StoreAppends
  <2> QED
    BY <2>1, <2>2, <2>4 DEF WQ!Put
<1>3. ASSUME SetCycleBit
      PROVE  UNCHANGED WQ!vars \/ \E t \in Trbs : WQ!Put(t)
  <2> DEFINE slot == [cycle |-> RingPCS, trb |-> seg[RingEnqueue].trb]
  <2>1. /\ seg[RingEnqueue].trb \in Trbs
        /\ UNCHANGED <<RingEnqueue, RingPCS, xDequeue, xCCS, endpoint, current>>
    BY <1>0, <1>3 DEF SetCycleBit, EnqueuePhase
  <2>2. /\ slot \in [cycle : {0, 1}, trb : Trbs] /\ slot.cycle = RingPCS
        /\ slot.trb = seg[RingEnqueue].trb
    BY <2>1, <1>0 DEF TypeOK
  <2>3. seg' = [seg EXCEPT ![RingEnqueue] = slot]
    <3>1. seg[RingEnqueue] \in [cycle : {0, 1}, trb : Trbs \cup {NoTrb}]
      BY <1>0, Counts DEF TypeOK
    <3>2. [seg[RingEnqueue] EXCEPT !.cycle = RingPCS] = slot
      BY <3>1
    <3> QED
      BY <3>2, <1>3 DEF SetCycleBit
  <2> HIDE DEF slot
  <2>4. Queue' = Queue \/ Queue' = Append(Queue, slot.trb)
    BY <2>1, <2>2, <2>3, StoreAppends
  <2> QED
    BY <2>1, <2>2, <2>4 DEF WQ!Put
<1>4. ASSUME SyncAfterTrb
      PROVE  UNCHANGED WQ!vars
  <2>1. /\ pc = "sync" /\ Filled = 1 /\ ~CommandRing /\ todo >= 1
        /\ SyncTrsRing /\ UNCHANGED xhcVars
    BY <1>0, <1>4 DEF SyncAfterTrb, EnqueuePhase, Building
  <2>2. Pending <= Link - 1
    BY <2>1, <1>0 DEF RoomKept, Building, Capacity, TypeOK
  <2> QED
    BY <2>1, <2>2, SyncKeepsQueue DEF xhcVars
<1>5. ASSUME UNCHANGED <<seg, RingEnqueue, RingPCS, xDequeue, xCCS>>
      PROVE  Queue' = Queue
  BY <1>5 DEF Queue, Pending, SameLap, Filled, SlotOf
<1>6. ASSUME RingDoorBell
      PROVE  WQ!Resume
  BY <1>5, <1>6 DEF RingDoorBell, WQ!Resume
<1>7. ASSUME StopEndpoint
      PROVE  WQ!Suspend
  BY <1>5, <1>7 DEF StopEndpoint, WQ!Suspend
<1>8. ASSUME RecoveryFails \/ Drain \/ UNCHANGED vars
      PROVE  UNCHANGED WQ!vars
  BY <1>5, <1>8 DEF RecoveryFails, Drain, vars
<1>9. ASSUME SetTrDequeuePointer
      PROVE  WQ!Discard
  <2>1. endpoint = "stopped" /\ UNCHANGED <<endpoint, current>>
    BY <1>0, <1>9 DEF SetTrDequeuePointer, EnqueuePhase
  <2>2. Pending' = 0
    BY <1>0, <1>9 DEF SetTrDequeuePointer, EnqueuePhase, TypeOK, Pending, SameLap, Filled
  <2>3. Queue' = <<>>
    BY <2>2 DEF Queue
  <2> QED
    BY <2>1, <2>3 DEF WQ!Discard
<1>10. ASSUME FetchTrb
       PROVE  WQ!Take
  BY <1>10, FetchTakes DEF FetchTrb, WQ!Take
<1>11. ASSUME FollowLink
       PROVE  UNCHANGED WQ!vars
  BY <1>11, LinkKeepsQueue DEF FollowLink
<1> QED
  BY <1>1, <1>2, <1>3, <1>4, <1>6, <1>7, <1>8, <1>9, <1>10, <1>11
     DEF Next, Driver, Xhc, WQ!Next

\* Whatever its size, the ring the driver fills is a first-in first-out queue
\* to the xHC: no TRB that XhcCreateTransferTrb or XhcCreateCmdTrb completed
\* is fetched twice, out of order, half-written or after a recovery dropped it.
THEOREM RingImplementsQueue == SafeSpec => ImplementsQueue
<1>1. Init => WQ!Init
  BY InitIsQueue
<1>2. RingInv /\ RingInv' /\ [Next]_vars => [WQ!Next]_WQ!vars
  BY StepIsQueueStep
<1> QED
  BY <1>1, <1>2, RingSafety, PTL DEF SafeSpec, ImplementsQueue, WQ!SafeSpec

\* A completed recovery leaves the xHC nothing to fetch.
THEOREM RecoveryEmptiesRing == SafeSpec => RecoveryDropsTd
<1>1. RingInv /\ [Next]_vars => [SetTrDequeuePointer => Pending' = 0]_vars
  <2> SUFFICES ASSUME RingInv, SetTrDequeuePointer
               PROVE  Pending' = 0
    OBVIOUS
  <2> QED
    BY DEF RingInv, SetTrDequeuePointer, EnqueuePhase, TypeOK, Pending, SameLap, Filled
<1> QED
  BY <1>1, RingSafety, PTL DEF SafeSpec, RecoveryDropsTd
=============================================================================
