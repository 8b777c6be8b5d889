------------------------ MODULE UsbEnumerationProofs ------------------------
(***************************************************************************)
(* Proofs about XhciSlots and UsbEnumeration, for any tree of two tiers,   *)
(* any number of slots and addresses and any number of plugs, resets and   *)
(* failures: the table of slots can be searched by port, by address and by *)
(* hub, the bus driver's table is a tree, and an address leads both        *)
(* drivers to the same device.                                             *)
(***************************************************************************)
EXTENDS UsbEnumeration, WellFoundedInduction, TLAPS

-----------------------------------------------------------------------------
(* The table of slots, searched and changed.                               *)

Table == [Slots -> Entry({0} \cup Units, {0} \cup Addrs)]

(* A set of natural numbers has a least one.                               *)
LEMMA LeastNat ==
  ASSUME NEW T, T \subseteq Nat, T # {}
  PROVE  \E x \in T : \A y \in T : x <= y
<1>1. \E R : IsWellFoundedOn(R, Nat) /\ \A m, k \in Nat : m < k => <<m, k>> \in R
  <2>1. \A m, k \in Nat : m < k => <<m, k>> \in OpToRel(<, Nat)
    BY DEF OpToRel
  <2> QED
    BY <2>1, NatLessThanWellFounded, Zenon
<1>2. PICK R : IsWellFoundedOn(R, Nat) /\ \A m, k \in Nat : m < k => <<m, k>> \in R
  BY <1>1
<1>3. PICK x \in T : \A y \in T : ~(<<y, x>> \in R)
  <2>1. IsWellFoundedOn(R, Nat)
    BY <1>2
  <2> QED
    BY <2>1, WFMin, Zenon
<1>4. \A y \in T : ~(y < x)
  BY <1>2, <1>3
<1>5. \A y \in T : x <= y
  <2>1. \A m, k \in Nat : ~(m < k) => k <= m
    OBVIOUS
  <2> QED
    BY <1>4, <2>1
<1> QED
  BY <1>5

(* The first of a set of numbers is one of them.                           *)
LEMMA FirstIsIn ==
  ASSUME NEW S, S \subseteq Nat \ {0}
  PROVE  IF S = {} THEN FirstOr0(S) = 0 ELSE FirstOr0(S) \in S
<1>1. CASE S = {}
  BY <1>1 DEF FirstOr0
<1>2. CASE S # {}
  <2>1. \E x \in S : \A y \in S : x <= y
    BY <1>2, LeastNat
  <2> QED
    BY <1>2, <2>1 DEF FirstOr0, Least
<1> QED
  BY <1>1, <1>2

(* What a search by address finds.                                         *)
LEMMA ByAddress ==
  ASSUME NEW sl, NEW a
  PROVE  LET s == BusDevAddrToSlotId(sl, a) IN
         \/ s \in Slots /\ s # 0 /\ Live(sl, s) /\ sl[s].addr = a
         \/ s = 0 /\ \A t \in Slots : Live(sl, t) => sl[t].addr # a
<1> DEFINE S == {t \in Slots : Live(sl, t) /\ sl[t].addr = a}
<1>1. S \subseteq Nat \ {0}
  BY TreeAssumption DEF Slots
<1>2. IF S = {} THEN FirstOr0(S) = 0 ELSE FirstOr0(S) \in S
  BY <1>1, FirstIsIn
<1>3. BusDevAddrToSlotId(sl, a) = FirstOr0(S)
  BY DEF BusDevAddrToSlotId
<1> QED
  BY <1>1, <1>2, <1>3

(* What a search by port finds.                                            *)
LEMMA ByRoute ==
  ASSUME NEW sl, NEW p
  PROVE  LET s == RouteStringToSlotId(sl, p) IN
         \/ s \in Slots /\ s # 0 /\ Live(sl, s) /\ sl[s].route = p
         \/ s = 0 /\ \A t \in Slots : Live(sl, t) => sl[t].route # p
<1> DEFINE S == {t \in Slots : Live(sl, t) /\ sl[t].route = p}
<1>1. S \subseteq Nat \ {0}
  BY TreeAssumption DEF Slots
<1>2. IF S = {} THEN FirstOr0(S) = 0 ELSE FirstOr0(S) \in S
  BY <1>1, FirstIsIn
<1>3. RouteStringToSlotId(sl, p) = FirstOr0(S)
  BY DEF RouteStringToSlotId
<1> QED
  BY <1>1, <1>2, <1>3

(* The hub of a port is at a root port.                                    *)
LEMMA TwoTiers ==
  /\ \A p \in Ports : p \in Nat \ {0} /\ Up[p] \in Ports \cup {0} /\ Up[p] # p
  /\ \A p, q \in Ports : Up[p] = q => Up[q] = 0
  BY TreeAssumption

(* The enabled slots: the xHC has them, each has a port of its own, and    *)
(* the slot of a device behind a hub comes with that of the hub, whose     *)
(* device was addressed.                                                   *)
HasSlot(sl, p) == \E t \in Slots : Live(sl, t) /\ sl[t].route = p /\ sl[t].unit # 0
SlotsOk(sl, n) ==
  /\ sl \in Table
  /\ \A s \in Slots : Live(sl, s) => sl[s].hw /\ sl[s].route \in Ports /\ sl[s].unit <= n
  /\ \A s, t \in Slots : Live(sl, s) /\ Live(sl, t) /\ sl[s].route = sl[t].route => s = t
  /\ \A s \in Slots : Live(sl, s) /\ Up[sl[s].route] # 0 => HasSlot(sl, Up[sl[s].route])

(* The entry that XhcInitializeDeviceSlot makes.                           *)
NewEntry(p, u) == [Unused EXCEPT !.hw = TRUE, !.enabled = TRUE, !.id = TRUE, !.route = p, !.unit = u]

(* It goes to a slot that the xHC does not have, if there is one.          *)
LEMMA Initialized ==
  ASSUME NEW sl \in Table, NEW p \in Ports, NEW u \in {0} \cup Units
  PROVE  LET i == InitializeDeviceSlot(sl, p, u) IN
         /\ i \in Table
         /\ \/ i = sl
            \/ \E f \in Slots : ~sl[f].hw /\ i = [sl EXCEPT ![f] = NewEntry(p, u)]
<1> DEFINE free == {s \in Slots : ~sl[s].hw}
<1>1. CASE free = {}
  BY <1>1 DEF InitializeDeviceSlot
<1>2. CASE free # {}
  <2>1. \E x \in free : \A y \in free : x <= y
    <3>1. free \subseteq Nat
      BY DEF Slots
    <3> HIDE DEF free
    <3> QED
      BY <1>2, <3>1, LeastNat
  <2>2. Least(free) \in free
    BY <2>1 DEF Least
  <2>3. NewEntry(p, u) \in Entry({0} \cup Units, {0} \cup Addrs)
    BY DEF NewEntry, Unused, Entry
  <2>4. InitializeDeviceSlot(sl, p, u) = [sl EXCEPT ![Least(free)] = NewEntry(p, u)]
    BY <1>2 DEF InitializeDeviceSlot, NewEntry
  <2> QED
    BY <2>2, <2>3, <2>4 DEF Table
<1> QED
  BY <1>1, <1>2

(* XhcPollPortStatusChange at port p: the slots of p and of what is behind *)
(* it are disabled, at most one new slot is made for p, with no address,   *)
(* and the others are as before.                                           *)
Polled(sl, d, p, u, bad) ==
  /\ d \in Table
  /\ \A t \in Slots : Live(d, t) =>
       \/ /\ Live(sl, t) /\ d[t] = sl[t] /\ sl[t].route \notin PortsOf(p)
          /\ sl[t].route = p => bad # {}
       \/ /\ d[t] = NewEntry(p, u)
          /\ \A s \in Slots : Live(d, s) /\ d[s].route = p => s = t
  /\ \A t \in Slots : Live(sl, t) /\ sl[t].route \notin PortsOf(p) \cup {p} => d[t] = sl[t]
  /\ \A a \in Addrs : HasEntry(d, a) => HasEntry(sl, a)

(* It does so, and leaves the table alone if nothing changed.              *)
LEMMA PollPolls ==
  ASSUME NEW sl, NEW n, SlotsOk(sl, n), NEW p \in Ports, NEW change \in BOOLEAN, NEW up \in BOOLEAN,
         NEW reset \in BOOLEAN, NEW u \in {0} \cup Units, NEW bad
  PROVE  LET d == PollPortStatusChange(sl, p, change, up, reset, u, bad) IN
         /\ ~change => d = sl
         /\ change => Polled(sl, d, p, u, bad)
         /\ change /\ ~(up /\ reset) =>
              \A t \in Slots : Live(d, t) =>
                /\ Live(sl, t) /\ d[t] = sl[t] /\ sl[t].route \notin PortsOf(p)
                /\ sl[t].route = p => bad # {}
         /\ d \in Table
<1> DEFINE s == RouteStringToSlotId(sl, p)
           off == IF s = 0 THEN sl ELSE DisableSlot(sl, s, bad)
           d == PollPortStatusChange(sl, p, change, up, reset, u, bad)
<1>0. sl \in Table
  BY DEF SlotsOk
<1>1. \/ s \in Slots /\ s # 0 /\ Live(sl, s) /\ sl[s].route = p
      \/ s = 0 /\ \A t \in Slots : Live(sl, t) => sl[t].route # p
  BY ByRoute
(* The slots of p and of what is behind it are disabled.                   *)
<1>2. /\ off \in Table
      /\ \A t \in Slots : off[t].addr = sl[t].addr
      /\ \A t \in Slots : Live(off, t) => Live(sl, t) /\ off[t] = sl[t]
                                          /\ sl[t].route \notin PortsOf(p)
                                          /\ (sl[t].route = p => bad # {})
      /\ \A t \in Slots : Live(sl, t) /\ sl[t].route \notin PortsOf(p) \cup {p} => off[t] = sl[t]
      /\ \A t \in Slots : off[t].hw => sl[t].hw
      /\ \A t \in Slots : off[t].route = sl[t].route
  <2>1. CASE s = 0
    <3>1. \A t \in Slots : Live(sl, t) => sl[t].route \notin PortsOf(p) \cup {p}
      <4> SUFFICES ASSUME NEW t \in Slots, Live(sl, t), sl[t].route \in PortsOf(p)
                   PROVE  FALSE
        BY <1>1, <2>1
      <4>1. Up[sl[t].route] = p /\ p # 0
        BY TwoTiers DEF PortsOf
      <4>2. \E r \in Slots : Live(sl, r) /\ sl[r].route = p
        BY <4>1 DEF SlotsOk, HasSlot
      <4> QED
        BY <1>1, <2>1, <4>2
    <3> QED
      BY <1>0, <2>1, <3>1
  <2>2. CASE s # 0
    <3>0. s \in Slots /\ Live(sl, s) /\ sl[s].route = p
      BY <1>1, <2>2
    <3> HIDE DEF s
    <3>1. off = DisableSlot(sl, s, bad)
      BY <2>2
    <3>2. \A t \in Slots : Live(sl, t) /\ sl[t].route = p => t = s
      BY <3>0 DEF SlotsOk
    <3>3. \A t \in Slots : off[t].route = sl[t].route
      BY <1>0, <3>1 DEF DisableSlot, Table, Entry
    <3> HIDE DEF off
    <3>4. /\ off \in Table
          /\ \A t \in Slots : off[t].addr = sl[t].addr
          /\ \A t \in Slots : Live(off, t) => Live(sl, t) /\ off[t] = sl[t]
                                              /\ sl[t].route \notin PortsOf(sl[s].route)
                                              /\ (t # s \/ s \in bad)
          /\ \A t \in Slots : t # s /\ sl[t].route \notin PortsOf(sl[s].route) => off[t] = sl[t]
          /\ \A t \in Slots : off[t].hw => sl[t].hw
      BY <1>0, <3>0, <3>1 DEF DisableSlot, Downstream, Live, Table, Entry
    <3> QED
      BY <3>0, <3>2, <3>3, <3>4
  <2> QED
    BY <2>1, <2>2
<1>3. d = IF ~change THEN sl
          ELSE IF up /\ reset /\ RouteStringToSlotId(off, p) = 0
               THEN InitializeDeviceSlot(off, p, u) ELSE off
  BY DEF PollPortStatusChange
<1> SUFFICES /\ ~change => d = sl
             /\ change => Polled(sl, d, p, u, bad)
             /\ change /\ ~(up /\ reset) =>
                  \A t \in Slots : Live(d, t) =>
                    /\ Live(sl, t) /\ d[t] = sl[t] /\ sl[t].route \notin PortsOf(p)
                    /\ sl[t].route = p => bad # {}
             /\ d \in Table
  OBVIOUS
<1> HIDE DEF d, off, s
<1>4. CASE ~change
  BY <1>0, <1>3, <1>4
<1>5. CASE d = off
  <2>1. \A a \in Addrs : HasEntry(d, a) => HasEntry(sl, a)
    BY <1>2, <1>5 DEF HasEntry
  <2> QED
    BY <1>2, <1>3, <1>5, <2>1 DEF Polled, Live
<1>6. CASE change /\ up /\ reset /\ RouteStringToSlotId(off, p) = 0 /\ d # off
  <2>1. PICK f \in Slots : ~off[f].hw /\ d = [off EXCEPT ![f] = NewEntry(p, u)]
    BY <1>2, <1>3, <1>6, Initialized
  <2>2. d \in Table
    BY <1>2, <1>3, <1>6, Initialized
  <2>3. /\ d[f] = NewEntry(p, u)
        /\ \A t \in Slots : t # f => d[t] = off[t]
    BY <1>2, <2>1 DEF Table
  <2>4. \A t \in Slots : Live(off, t) => off[t].route # p
    BY <1>6, ByRoute
  (* The xHC has each enabled slot.                                        *)
  <2>5. ~Live(off, f)
    BY <1>2, <2>1 DEF SlotsOk
  <2>6. ~(Live(sl, f) /\ sl[f].route \notin PortsOf(p) \cup {p})
    BY <1>2, <2>5 DEF Live
  <2>7. ASSUME NEW t \in Slots, Live(d, t)
        PROVE  \/ /\ Live(sl, t) /\ d[t] = sl[t] /\ sl[t].route \notin PortsOf(p)
                  /\ sl[t].route = p => bad # {}
               \/ /\ d[t] = NewEntry(p, u)
                  /\ \A r \in Slots : Live(d, r) /\ d[r].route = p => r = t
    <3>1. CASE t = f
      <4>1. \A r \in Slots : Live(d, r) /\ d[r].route = p => r = f
        BY <2>3, <2>4 DEF Live
      <4> QED
        BY <2>3, <3>1, <4>1
    <3>2. CASE t # f
      BY <1>2, <2>3, <2>7, <3>2 DEF Live
    <3> QED
      BY <3>1, <3>2
  <2>8. \A t \in Slots : Live(sl, t) /\ sl[t].route \notin PortsOf(p) \cup {p} => d[t] = sl[t]
    BY <1>2, <2>3, <2>6
  <2>9. ASSUME NEW a \in Addrs, HasEntry(d, a) PROVE HasEntry(sl, a)
    <3>1. PICK t \in Slots : d[t].addr = a
      BY <2>9 DEF HasEntry
    <3>2. t # f
      <4>1. NewEntry(p, u).addr = 0
        BY DEF NewEntry, Unused
      <4>2. a # 0
        BY EnumerationAssumption DEF Addrs
      <4> QED
        BY <2>3, <3>1, <4>1, <4>2
    <3> QED
      BY <1>2, <2>3, <3>1, <3>2 DEF HasEntry
  <2> QED
    BY <1>6, <2>2, <2>7, <2>8, <2>9 DEF Polled
<1>7. (~change \/ d = off) \/ (change /\ up /\ reset /\ RouteStringToSlotId(off, p) = 0 /\ d # off)
  BY <1>3
<1> QED
  BY <1>4, <1>5, <1>6, <1>7

(* The table it leaves can be searched as well.                            *)
LEMMA PolledOk ==
  ASSUME NEW sl, NEW n, SlotsOk(sl, n), NEW p \in Ports, NEW u \in {0} \cup Units, u <= n, NEW bad,
         NEW d, Polled(sl, d, p, u, bad), Up[p] # 0 => HasSlot(sl, Up[p])
  PROVE  SlotsOk(d, n)
<1> DEFINE e == NewEntry(p, u)
<1>0. e.hw /\ e.route = p /\ e.unit = u
  BY DEF NewEntry, Unused
<1> HIDE DEF e
<1>1. \A t \in Slots : Live(d, t) =>
        \/ Live(sl, t) /\ d[t] = sl[t] /\ sl[t].route \notin PortsOf(p)
        \/ d[t] = e /\ \A s \in Slots : Live(d, s) /\ d[s].route = p => s = t
  BY DEF Polled, e
<1>2. \A t \in Slots : Live(sl, t) /\ sl[t].route \notin PortsOf(p) \cup {p} => d[t] = sl[t] /\ Live(d, t)
  BY DEF Polled, Live
<1>3. \A s \in Slots : Live(d, s) => d[s].hw /\ d[s].route \in Ports /\ d[s].unit <= n
  BY <1>0, <1>1 DEF SlotsOk
<1>4. ASSUME NEW s \in Slots, NEW t \in Slots, Live(d, s), Live(d, t), d[s].route = d[t].route
      PROVE  s = t
  <2> DEFINE Old(r) == Live(sl, r) /\ d[r] = sl[r]
             New(r) == d[r] = e /\ \A x \in Slots : Live(d, x) /\ d[x].route = p => x = r
  <2>1. (Old(s) \/ New(s)) /\ (Old(t) \/ New(t))
    BY <1>1, <1>4
  <2>2. CASE New(s) \/ New(t)
    BY <1>0, <1>4, <2>2
  <2>3. CASE Old(s) /\ Old(t)
    BY <1>4, <2>3 DEF SlotsOk
  <2> QED
    BY <2>1, <2>2, <2>3
(* The slot of the hub stays with that of the device.                      *)
<1>5. ASSUME NEW q \in Ports, q \notin PortsOf(p), Up[q] # 0, HasSlot(sl, Up[q])
      PROVE  HasSlot(d, Up[q])
  <2>1. Up[q] \notin PortsOf(p) \cup {p}
    BY <1>5, TwoTiers DEF PortsOf
  <2>2. PICK r \in Slots : Live(sl, r) /\ sl[r].route = Up[q] /\ sl[r].unit # 0
    BY <1>5 DEF HasSlot
  <2>3. d[r] = sl[r] /\ Live(d, r)
    BY <1>2, <2>1, <2>2
  <2> QED
    BY <2>2, <2>3 DEF HasSlot
<1>6. p \notin PortsOf(p)
  BY TwoTiers DEF PortsOf
<1>7. \A s \in Slots : Live(d, s) /\ Up[d[s].route] # 0 => HasSlot(d, Up[d[s].route])
  BY <1>0, <1>1, <1>5, <1>6 DEF SlotsOk
<1>8. d \in Table
  BY DEF Polled
<1> QED
  BY <1>3, <1>4, <1>7, <1>8 DEF SlotsOk

(* What the ports show, and what the slots become when the status of port  *)
(* p is read.                                                              *)
PortTable == [Ports -> [unit : {0} \cup Units, enable : BOOLEAN, csc : BOOLEAN, prc : BOOLEAN]]
Changed(pt, p) == pt[p].csc \/ pt[p].prc
Followed(sl, d, pt, p, bad) ==
  /\ ~Changed(pt, p) => d = sl
  /\ \A t \in Slots : Live(d, t) =>
       \/ /\ Live(sl, t) /\ d[t] = sl[t]
          /\ Changed(pt, p) => sl[t].route \notin PortsOf(p) /\ (sl[t].route = p => bad # {})
       \/ /\ pt[p].prc /\ pt[p].unit # 0
          /\ d[t].addr = 0 /\ d[t].route = p
  /\ \A t \in Slots : Live(sl, t) /\ sl[t].route \notin PortsOf(p) \cup {p} => d[t] = sl[t] /\ Live(d, t)
  /\ \A a \in Addrs : HasEntry(d, a) => HasEntry(sl, a)

(* Making the slots follow a port does it.                                 *)
LEMMA FollowFollows ==
  ASSUME NEW sl, NEW n \in Nat, SlotsOk(sl, n), NEW pt \in PortTable, NEW p \in Ports, pt[p].unit <= n,
         Up[p] # 0 => HasSlot(sl, Up[p]), NEW ok \in BOOLEAN, NEW bad,
         NEW d, d = Follow(sl, pt, p, ok, bad)
  PROVE  /\ SlotsOk(d, n)
         /\ Followed(sl, d, pt, p, bad)
         /\ \A t \in Slots : Live(d, t) /\ d[t] # sl[t] => d[t] = NewEntry(p, IF ok THEN pt[p].unit ELSE 0)
<1> DEFINE change == pt[p].csc \/ pt[p].prc
           up == pt[p].unit # 0 /\ pt[p].enable
           u == IF ok THEN pt[p].unit ELSE 0
<1>1. /\ pt[p].unit \in {0} \cup Units /\ pt[p].prc \in BOOLEAN /\ pt[p].csc \in BOOLEAN
      /\ pt[p].enable \in BOOLEAN
  BY DEF PortTable
<1>2. change \in BOOLEAN /\ up \in BOOLEAN
  BY <1>1
<1>3. u \in {0} \cup Units /\ u <= n
  BY <1>1
<1>4. d = PollPortStatusChange(sl, p, change, up, pt[p].prc, u, bad)
  BY DEF Follow
<1>5. up /\ pt[p].prc => pt[p].prc /\ pt[p].unit # 0
  BY <1>1
<1>6. change <=> Changed(pt, p)
  BY DEF Changed
<1>7. pt[p].prc => change
  BY <1>1
<1>8. NewEntry(p, u).addr = 0 /\ NewEntry(p, u).route = p
  BY DEF NewEntry, Unused
<1> DEFINE reset == pt[p].prc
<1>9. reset \in BOOLEAN
  BY <1>1
<1> SUFFICES /\ SlotsOk(d, n)
             /\ Followed(sl, d, pt, p, bad)
             /\ \A t \in Slots : Live(d, t) /\ d[t] # sl[t] => d[t] = NewEntry(p, u)
  OBVIOUS
<1>10. d = PollPortStatusChange(sl, p, change, up, reset, u, bad)
  BY <1>4
<1>11. up /\ reset => pt[p].prc /\ pt[p].unit # 0
  BY <1>5
<1> HIDE DEF change, up, u, reset
<1>12. /\ ~change => d = sl
       /\ change => Polled(sl, d, p, u, bad)
       /\ change /\ ~(up /\ reset) =>
            \A t \in Slots : Live(d, t) =>
              /\ Live(sl, t) /\ d[t] = sl[t] /\ sl[t].route \notin PortsOf(p)
              /\ sl[t].route = p => bad # {}
       /\ d \in Table
  BY <1>2, <1>3, <1>9, <1>10, PollPolls
<1>13. CASE ~change
  BY <1>6, <1>12, <1>13 DEF Followed
<1>14. CASE change
  <2>1. Polled(sl, d, p, u, bad)
    BY <1>12, <1>14
  <2>2. SlotsOk(d, n)
    BY <1>3, <2>1, PolledOk
  <2>3. \A t \in Slots : Live(sl, t) /\ sl[t].route \notin PortsOf(p) \cup {p} => d[t] = sl[t] /\ Live(d, t)
    BY <2>1 DEF Polled, Live
  <2>4. \A a \in Addrs : HasEntry(d, a) => HasEntry(sl, a)
    BY <2>1 DEF Polled
  <2>5. ASSUME NEW t \in Slots, Live(d, t)
        PROVE  \/ /\ Live(sl, t) /\ d[t] = sl[t]
                  /\ sl[t].route \notin PortsOf(p) /\ (sl[t].route = p => bad # {})
               \/ /\ pt[p].prc /\ pt[p].unit # 0
                  /\ d[t].addr = 0 /\ d[t].route = p
    <3>1. \/ /\ Live(sl, t) /\ d[t] = sl[t] /\ sl[t].route \notin PortsOf(p)
             /\ sl[t].route = p => bad # {}
          \/ d[t] = NewEntry(p, u)
      BY <2>1, <2>5 DEF Polled
    <3>2. CASE up /\ reset
      BY <1>8, <1>11, <3>1, <3>2
    (* With no device there, or no reset, no slot is made.                 *)
    <3>3. CASE ~(up /\ reset)
      BY <1>12, <1>14, <2>5, <3>3
    <3> QED
      BY <3>2, <3>3
  <2>6. \A t \in Slots : Live(d, t) /\ d[t] # sl[t] => d[t] = NewEntry(p, u)
    BY <2>1 DEF Polled
  <2> QED
    BY <1>6, <1>14, <2>2, <2>3, <2>4, <2>5, <2>6 DEF Followed
<1> QED
  BY <1>13, <1>14

(* The requests that the driver hooks leave each slot to its port and its  *)
(* device.                                                                 *)
Same(sl, d) ==
  /\ d \in Table
  /\ \A t \in Slots : (Live(d, t) <=> Live(sl, t)) /\ d[t].hw = sl[t].hw
                      /\ d[t].route = sl[t].route /\ d[t].unit = sl[t].unit

(* Such a change keeps the table in order.                                 *)
LEMMA SameOk ==
  ASSUME NEW sl, NEW n, SlotsOk(sl, n), NEW d, Same(sl, d)
  PROVE  SlotsOk(d, n)
<1>1. d \in Table
  BY DEF Same
<1>2. \A t \in Slots : (Live(d, t) <=> Live(sl, t)) /\ d[t].hw = sl[t].hw
                       /\ d[t].route = sl[t].route /\ d[t].unit = sl[t].unit
  BY DEF Same
<1>3. \A s \in Slots : Live(d, s) => d[s].hw /\ d[s].route \in Ports /\ d[s].unit <= n
  BY <1>2 DEF SlotsOk
<1>4. \A s, t \in Slots : Live(d, s) /\ Live(d, t) /\ d[s].route = d[t].route => s = t
  BY <1>2 DEF SlotsOk
<1>5. \A s \in Slots : Live(d, s) /\ Up[d[s].route] # 0 => HasSlot(d, Up[d[s].route])
  BY <1>2 DEF SlotsOk, HasSlot
<1> QED
  BY <1>1, <1>3, <1>4, <1>5 DEF SlotsOk

(* Set_Address gives the address to the slot without one that it finds,    *)
(* and takes it from entries that are not enabled.                         *)
LEMMA Addresses ==
  ASSUME NEW sl \in Table, NEW a \in Addrs, NEW d, d = SetAddress(sl, a)
  PROVE  /\ Same(sl, d)
         /\ \A t \in Slots : Live(sl, t) =>
              d[t].addr = IF SetAddressOk(sl) /\ t = SetAddressSlot(sl) THEN a ELSE sl[t].addr
         /\ \A b \in Addrs \ {a} : HasEntry(d, b) => HasEntry(sl, b)
<1> DEFINE s == SetAddressSlot(sl)
           clean == [t \in Slots |->
                  IF ~sl[t].enabled /\ ~sl[t].id /\ sl[t].addr = a
                  THEN [sl[t] EXCEPT !.addr = 0] ELSE sl[t]]
<1>1. s = 0 \/ (s \in Slots /\ s # 0 /\ Live(sl, s) /\ sl[s].addr = 0)
  BY ByAddress DEF SetAddressSlot
<1>2. SetAddressOk(sl) => s # 0
  BY DEF SetAddressOk
<1>3. 0 \notin Addrs
  BY EnumerationAssumption DEF Addrs
<1>4. d = IF s = 0 THEN sl ELSE IF SetAddressOk(sl) THEN [clean EXCEPT ![s].addr = a] ELSE clean
  BY DEF SetAddress
<1> SUFFICES /\ Same(sl, d)
             /\ \A t \in Slots : Live(sl, t) =>
                  d[t].addr = IF SetAddressOk(sl) /\ t = s THEN a ELSE sl[t].addr
             /\ \A b \in Addrs \ {a} : HasEntry(d, b) => HasEntry(sl, b)
  OBVIOUS
<1> HIDE DEF s
<1>5. CASE s = 0
  BY <1>2, <1>4, <1>5 DEF Same
<1>6. /\ clean \in Table
      /\ \A t \in Slots : /\ clean[t].hw = sl[t].hw /\ clean[t].route = sl[t].route
                          /\ clean[t].unit = sl[t].unit /\ clean[t].enabled = sl[t].enabled
                          /\ clean[t].id = sl[t].id
                          /\ Live(sl, t) => clean[t] = sl[t]
                          /\ clean[t].addr = sl[t].addr \/ clean[t].addr = 0
  BY DEF Table, Entry, Live
<1> HIDE DEF clean
<1>7. CASE s # 0 /\ ~SetAddressOk(sl)
  BY <1>3, <1>4, <1>6, <1>7 DEF Same, Live, HasEntry
<1>8. CASE s # 0 /\ SetAddressOk(sl)
  <2>1. d = [clean EXCEPT ![s].addr = a]
    BY <1>4, <1>8
  <2>2. d \in Table
    <3>1. s \in Slots
      BY <1>1, <1>8
    <3>2. clean[s] \in Entry({0} \cup Units, {0} \cup Addrs)
      BY <1>6, <3>1 DEF Table
    <3>3. [clean[s] EXCEPT !.addr = a] \in Entry({0} \cup Units, {0} \cup Addrs)
      BY <3>2 DEF Entry
    <3>4. d = [clean EXCEPT ![s] = [clean[s] EXCEPT !.addr = a]]
      BY <2>1
    <3> HIDE DEF clean
    <3> QED
      BY <1>6, <3>1, <3>3, <3>4 DEF Table
  <2>3. \A t \in Slots : /\ d[t].hw = clean[t].hw /\ d[t].route = clean[t].route
                         /\ d[t].unit = clean[t].unit /\ d[t].enabled = clean[t].enabled
                         /\ d[t].id = clean[t].id
                         /\ d[t].addr = IF t = s THEN a ELSE clean[t].addr
    BY <1>6, <2>1 DEF Table, Entry
  <2>4. Same(sl, d)
    BY <1>6, <2>2, <2>3 DEF Same, Live
  <2>5. \A b \in Addrs \ {a} : HasEntry(d, b) => HasEntry(sl, b)
    BY <1>3, <1>6, <2>3 DEF HasEntry
  <2> QED
    BY <1>6, <1>8, <2>3, <2>4, <2>5
<1> QED
  BY <1>5, <1>7, <1>8

(* Get_Descriptor and Set_Config leave the addresses alone, too.           *)
Like(sl, d) == Same(sl, d) /\ \A t \in Slots : d[t].addr = sl[t].addr

(* The hook of Get_Descriptor is one ...                                   *)
LEMMA Saw ==
  ASSUME NEW sl \in Table, NEW a
  PROVE  Like(sl, SawDescriptors(sl, a))
<1> DEFINE s == BusDevAddrToSlotId(sl, a)
           d == [sl EXCEPT ![s].desc = TRUE]
<1>1. SawDescriptors(sl, a) = d
  BY DEF SawDescriptors
<1> HIDE DEF s
<1>2. d \in Table
  BY DEF Table, Entry
<1>3. \A t \in Slots : /\ d[t].hw = sl[t].hw /\ d[t].route = sl[t].route
                       /\ d[t].unit = sl[t].unit /\ d[t].enabled = sl[t].enabled
                       /\ d[t].id = sl[t].id /\ d[t].addr = sl[t].addr
  BY DEF Table, Entry
<1> HIDE DEF d
<1>4. Like(sl, d)
  BY <1>2, <1>3 DEF Like, Same, Live
<1> QED
  BY <1>1, <1>4

(* ... and so is that of Set_Config.                                       *)
LEMMA Configures ==
  ASSUME NEW sl \in Table, NEW a
  PROVE  Like(sl, SetConfig(sl, a))
<1> DEFINE s == BusDevAddrToSlotId(sl, a)
           d == [sl EXCEPT ![s].eps = sl[s].desc]
<1>1. SetConfig(sl, a) = d
  BY DEF SetConfig
<1>2. s \in Slots \/ s = 0
  BY ByAddress
<1>3. 0 \notin Slots
  BY TreeAssumption DEF Slots
<1> HIDE DEF s
<1>4. d \in Table
  BY <1>2, <1>3 DEF Table, Entry
<1>5. \A t \in Slots : /\ d[t].hw = sl[t].hw /\ d[t].route = sl[t].route
                       /\ d[t].unit = sl[t].unit /\ d[t].enabled = sl[t].enabled
                       /\ d[t].id = sl[t].id /\ d[t].addr = sl[t].addr
  BY DEF Table, Entry
<1> HIDE DEF d
<1>6. Like(sl, d)
  BY <1>4, <1>5 DEF Like, Same, Live
<1> QED
  BY <1>1, <1>6

-----------------------------------------------------------------------------
(* The types of the other variables.                                       *)

DevType == [used : BOOLEAN, port : Ports \cup {0}, parent : {0} \cup Addrs,
            config : BOOLEAN, hub : BOOLEAN, fail : BOOLEAN]
DevTable == [Addrs -> DevType]
JobType == [pc : Steps, hub : {0} \cup Addrs, port : Ports \cup {0}, on : BOOLEAN,
            reset : BOOLEAN, child : {0} \cup Addrs]
CountType == [plug : 0 .. MaxPlugs, unplug : 0 .. MaxUnplugs, reset : 0 .. MaxResets,
              failed : SUBSET Faults]

(* The type invariant, by the names of the types                           *)
LEMMA Typing ==
  TypeOK <=> /\ port \in PortTable /\ slots \in Table /\ dev \in DevTable
             /\ urb \in [Addrs -> {"none", "polling", "failed", "halted"}]
             /\ map \in [Addrs -> SUBSET Ports] /\ notify \subseteq Addrs
             /\ job \in JobType /\ count \in CountType
             /\ missed \subseteq Ports /\ orphan \in BOOLEAN
  BY DEF TypeOK, PortTable, Table, DevTable, DevType, JobType, CountType

(* Nothing but plugs, unplugs, resets and failures is counted.             *)
LEMMA Counted ==
  ASSUME count \in CountType, NEW k, Well \/ Fault(k)
  PROVE  /\ count' \in CountType /\ count'.plug = count.plug
         /\ count.failed \subseteq count'.failed
         /\ Well \/ k \in count'.failed
<1>1. CASE Well
  BY <1>1 DEF Well
<1>2. CASE Fault(k)
  <2>1. count' = [count EXCEPT !.failed = @ \cup {k}] /\ k \in Faults
    BY <1>2 DEF Fault
  <2> QED
    BY <2>1 DEF CountType
<1> QED
  BY <1>1, <1>2

(* Reading the status of a port clears its changes, a reset makes some;    *)
(* neither plugs or unplugs a device.                                      *)
LEMMA PortEffects ==
  ASSUME NEW pt \in PortTable, NEW p \in Ports
  PROVE  /\ Cleared(pt, p) \in PortTable
         /\ \A q \in Ports : Cleared(pt, p)[q].unit = pt[q].unit
         /\ \A q \in Ports \ {p} : Cleared(pt, p)[q] = pt[q]
         /\ Cleared(pt, p)[p].csc = FALSE /\ Cleared(pt, p)[p].prc = FALSE
         /\ ResetHw(pt, p) \in PortTable
         /\ \A q \in Ports : ResetHw(pt, p)[q].unit = pt[q].unit
         /\ \A q \in Ports : pt[q].csc => ResetHw(pt, p)[q].csc
         /\ \A q \in Ports \ {p} : ResetHw(pt, p)[q].prc = pt[q].prc
<1> DEFINE P == [unit : {0} \cup Units, enable : BOOLEAN, csc : BOOLEAN, prc : BOOLEAN]
           c == Cleared(pt, p)
           r == ResetHw(pt, p)
<1>1. \A q \in Ports : pt[q] \in P
  BY DEF PortTable
<1>2. c = [pt EXCEPT ![p] = [[pt[p] EXCEPT !.csc = FALSE] EXCEPT !.prc = FALSE]]
  BY DEF Cleared, PortTable
<1>3. /\ c \in PortTable
      /\ \A q \in Ports : c[q].unit = pt[q].unit
      /\ \A q \in Ports \ {p} : c[q] = pt[q]
      /\ c[p].csc = FALSE /\ c[p].prc = FALSE
  <2> DEFINE e == [[pt[p] EXCEPT !.csc = FALSE] EXCEPT !.prc = FALSE]
  <2>1. e \in P /\ e.unit = pt[p].unit /\ e.csc = FALSE /\ e.prc = FALSE
    BY <1>1
  <2>2. c = [pt EXCEPT ![p] = e]
    BY <1>2
  <2> HIDE DEF c, e
  <2> QED
    BY <1>1, <2>1, <2>2 DEF PortTable
<1> SUFFICES /\ r \in PortTable
             /\ \A q \in Ports : r[q].unit = pt[q].unit
             /\ \A q \in Ports : pt[q].csc => r[q].csc
             /\ \A q \in Ports \ {p} : r[q].prc = pt[q].prc
  BY <1>3
<1>4. CASE pt[p].unit = 0
  <2>1. r = pt
    BY <1>4 DEF ResetHw
  <2> HIDE DEF r
  <2> QED
    BY <2>1
<1>5. CASE pt[p].unit # 0
  <2> DEFINE self == [q \in Ports |-> [pt[q] EXCEPT !.enable = TRUE, !.prc = TRUE]]
             behind == [q \in Ports |-> [pt[q] EXCEPT !.enable = FALSE, !.csc = TRUE]]
  <2>1. r = [q \in Ports |->
          CASE q = p -> self[q]
            [] Up[q] = p /\ pt[q].unit # 0 -> behind[q]
            [] OTHER -> pt[q]]
    BY <1>5 DEF ResetHw
  <2>0. ASSUME NEW q \in Ports
        PROVE  /\ self[q] \in P /\ self[q].unit = pt[q].unit /\ self[q].csc = pt[q].csc
               /\ behind[q] \in P /\ behind[q].unit = pt[q].unit /\ behind[q].csc = TRUE
               /\ behind[q].prc = pt[q].prc
    <3>1. pt[q] \in P
      BY <1>1
    <3>2. LET e == [[pt[q] EXCEPT !.enable = TRUE] EXCEPT !.prc = TRUE]
          IN e \in P /\ e.unit = pt[q].unit /\ e.csc = pt[q].csc
      BY <3>1
    <3>3. LET e == [[pt[q] EXCEPT !.enable = FALSE] EXCEPT !.csc = TRUE]
          IN e \in P /\ e.unit = pt[q].unit /\ e.csc = TRUE /\ e.prc = pt[q].prc
      BY <3>1
    <3> QED
      BY <3>2, <3>3
  <2> HIDE DEF r, self, behind
  <2>2. \A q \in Ports : \/ q = p /\ r[q] = self[q]
                         \/ q # p /\ r[q] = behind[q]
                         \/ q # p /\ r[q] = pt[q]
    <3> SUFFICES ASSUME NEW q \in Ports
                 PROVE  \/ q = p /\ r[q] = self[q]
                        \/ q # p /\ r[q] = behind[q]
                        \/ q # p /\ r[q] = pt[q]
      OBVIOUS
    <3>1. CASE q = p
      BY <2>1, <3>1, TwoTiers
    <3> QED
      BY <2>1, <3>1
  <2>3. r = [q \in Ports |-> r[q]]
    BY <2>1
  <2>4. ASSUME NEW q \in Ports
        PROVE  /\ r[q] \in P /\ r[q].unit = pt[q].unit /\ (pt[q].csc => r[q].csc)
               /\ q # p => r[q].prc = pt[q].prc
    <3>1. pt[q] \in P
      BY <1>1
    <3>2. CASE r[q] = self[q] /\ q = p
      BY <3>1, <3>2, <2>0
    <3>3. CASE r[q] = behind[q]
      BY <3>1, <3>3, <2>0
    <3>4. CASE r[q] = pt[q]
      BY <3>1, <3>4
    <3> QED
      BY <2>2, <3>2, <3>3, <3>4
  <2>5. r \in PortTable
    BY <2>3, <2>4 DEF PortTable
  <2> QED
    BY <2>4, <2>5
<1> QED
  BY <1>4, <1>5

(* The next port to visit is one of the hub.                               *)
LEMMA NextIs ==
  ASSUME NEW h, NEW p \in Ports \cup {0}
  PROVE  \/ NextPort(h, p) = Idle
         \/ \E q \in Reported(h) : q > p /\ NextPort(h, p) = [Idle EXCEPT !.pc = "port", !.hub = h, !.port = q]
<1> DEFINE later == {q \in Reported(h) : q > p}
<1>1. CASE later = {}
  BY <1>1 DEF NextPort
<1>2. CASE later # {}
  <2>1. later \subseteq Nat
    BY TwoTiers DEF Reported, PortsOf
  <2>2. \E x \in later : \A y \in later : x <= y
    <3> HIDE DEF later
    <3> QED
      BY <1>2, <2>1, LeastNat
  <2>3. Least(later) \in later
    BY <2>2 DEF Least
  <2>4. NextPort(h, p) = [Idle EXCEPT !.pc = "port", !.hub = h, !.port = Least(later)]
    BY <1>2 DEF NextPort
  <2> QED
    BY <2>3, <2>4
<1> QED
  BY <1>1, <1>2

(* What UsbFindChild finds, and a free address.                            *)
LEMMA Found ==
  ASSUME NEW h, NEW p
  PROVE  \/ /\ FindChild(h, p) \in Addrs /\ FindChild(h, p) # 0 /\ dev[FindChild(h, p)].used
            /\ dev[FindChild(h, p)].parent = h /\ dev[FindChild(h, p)].port = p
         \/ /\ FindChild(h, p) = 0
            /\ \A a \in Addrs : ~(dev[a].used /\ dev[a].parent = h /\ dev[a].port = p)
<1> DEFINE S == {a \in Addrs : dev[a].used /\ dev[a].parent = h /\ dev[a].port = p}
<1>1. S \subseteq Nat \ {0}
  BY EnumerationAssumption DEF Addrs
<1>2. IF S = {} THEN FirstOr0(S) = 0 ELSE FirstOr0(S) \in S
  BY <1>1, FirstIsIn
<1>3. FindChild(h, p) = FirstOr0(S)
  BY DEF FindChild
<1> QED
  BY <1>1, <1>2, <1>3

(* A free address is one of no device.                                     *)
LEMMA FreeIs == FreeAddr = 0 \/ (FreeAddr \in Addrs /\ FreeAddr # 0 /\ ~dev[FreeAddr].used)
<1> DEFINE S == {a \in Addrs : ~dev[a].used}
<1>1. S \subseteq Nat \ {0}
  BY EnumerationAssumption DEF Addrs
<1>2. IF S = {} THEN FirstOr0(S) = 0 ELSE FirstOr0(S) \in S
  BY <1>1, FirstIsIn
<1>3. FreeAddr = FirstOr0(S)
  BY DEF FreeAddr
<1> QED
  BY <1>1, <1>2, <1>3

-----------------------------------------------------------------------------
(* The part of the invariant that holds whatever happens.                  *)

(* The bus driver's table is a tree, and an enumeration is that of a port  *)
(* of a hub of the table.                                                  *)
Attached(h, p) == IF h = 0 THEN Up[p] = 0 ELSE h \in Addrs /\ dev[h].hub /\ dev[h].port = Up[p]
TreeShape ==
  /\ \A a \in Addrs : dev[a].used => dev[a].port \in Ports /\ Attached(dev[a].parent, dev[a].port)
  /\ \A a \in Addrs : dev[a].hub \/ dev[a].config \/ dev[a].fail => dev[a].used
  /\ \A a \in Addrs : dev[a].hub => \E q \in Ports : Up[q] = dev[a].port
  /\ \A a \in Addrs : urb[a] # "none" \/ a \in notify => dev[a].hub
JobShape ==
  /\ job.pc # "idle" => job.port \in Ports /\ Attached(job.hub, job.port)
  /\ job.pc \in {"configure", "connect"} =>
       /\ job.child \in Addrs /\ dev[job.child].used /\ ~dev[job.child].hub
       /\ dev[job.child].port = job.port
  /\ job.pc = "address" => FreeAddr # 0
SlotShape == SlotsOk(slots, count.plug) /\ \A p \in Ports : port[p].unit <= count.plug
Shape == TypeOK /\ TreeShape /\ JobShape /\ SlotShape

(* A hub that answers has a slot at its port.                              *)
LEMMA Asked ==
  ASSUME NEW h, CanAsk(h), h # 0
  PROVE  \E s \in Slots : /\ Live(slots, s) /\ slots[s].addr = h /\ slots[s].route = dev[h].port
                          /\ slots[s].unit # 0 /\ port[slots[s].route].unit = slots[s].unit
<1>1. Answers(h) /\ slots[BusDevAddrToSlotId(slots, h)].route = dev[h].port
  BY DEF CanAsk
<1> QED
  BY <1>1, ByAddress DEF Answers

(* So the slot of a device behind it can be made.                          *)
LEMMA HubHasSlot ==
  ASSUME NEW h, NEW p \in Ports, CanAsk(h), Attached(h, p)
  PROVE  Up[p] # 0 => HasSlot(slots, Up[p])
<1>1. CASE h = 0
  BY <1>1 DEF Attached
<1>2. CASE h # 0
  <2>1. dev[h].port = Up[p]
    BY <1>2 DEF Attached
  <2> QED
    BY <1>2, <2>1, Asked DEF HasSlot
<1> QED
  BY <1>1, <1>2

(* Reading the status of a port: whether Address Device fails, and the      *)
(* slots that Disable Slot fails for                                       *)
StatusRead(p, ok, bad, k) ==
  /\ ok \in BOOLEAN
  /\ slots' = Follow(slots, port, p, ok, bad)
  /\ Well \/ Fault(k)
  /\ bad # {} => k = "disable" /\ Fault(k)

(* What becomes of the slots.                                              *)
LEMMA Got ==
  ASSUME TypeOK, SlotShape, NEW p \in Ports, Up[p] # 0 => HasSlot(slots, Up[p]), GetPortStatus(p)
  PROVE  /\ port' = Cleared(port, p)
         /\ slots' \in Table /\ SlotShape'
         /\ \E bad : Followed(slots, slots', port, p, bad) /\ (bad # {} => "disable" \in count'.failed)
         /\ count' \in CountType /\ count'.plug = count.plug /\ count.failed \subseteq count'.failed
<1>1. port \in PortTable /\ count \in CountType
  BY Typing
<1>2. port' = Cleared(port, p)
  BY DEF GetPortStatus
<1>3. PICK ok, bad, k : StatusRead(p, ok, bad, k)
  <2>1. CASE Well /\ slots' = Follow(slots, port, p, TRUE, {})
    <3>1. StatusRead(p, TRUE, {}, "none")
      BY <2>1 DEF StatusRead
    <3> QED
      BY <3>1
  <2>2. CASE Fault("address") /\ slots' = Follow(slots, port, p, FALSE, {})
    <3>1. StatusRead(p, FALSE, {}, "address")
      BY <2>2 DEF StatusRead
    <3> QED
      BY <3>1
  <2>3. CASE Fault("disable") /\ \E s \in Slots : slots' = Follow(slots, port, p, TRUE, {s})
    <3>1. PICK s \in Slots : slots' = Follow(slots, port, p, TRUE, {s})
      BY <2>3
    <3>2. StatusRead(p, TRUE, {s}, "disable")
      BY <2>3, <3>1 DEF StatusRead
    <3> QED
      BY <3>2
  <2> QED
    BY <2>1, <2>2, <2>3 DEF GetPortStatus
<1>4. /\ count' \in CountType /\ count'.plug = count.plug
      /\ count.failed \subseteq count'.failed
  BY <1>1, <1>3, Counted DEF StatusRead
<1>5. bad # {} => "disable" \in count'.failed
  BY <1>1, <1>3 DEF Fault, CountType, StatusRead
<1>6. port[p].unit <= count.plug /\ count.plug \in Nat /\ SlotsOk(slots, count.plug)
  BY <1>1, EnumerationAssumption DEF SlotShape, CountType
<1>7. /\ SlotsOk(slots', count.plug)
      /\ Followed(slots, slots', port, p, bad)
  BY <1>1, <1>3, <1>6, FollowFollows DEF StatusRead
<1>8. \A q \in Ports : port'[q].unit <= count.plug
  <2>1. \A q \in Ports : Cleared(port, p)[q].unit = port[q].unit
    BY <1>1, PortEffects
  <2> QED
    BY <1>2, <2>1 DEF SlotShape
<1>9. slots' \in Table
  BY <1>7 DEF SlotsOk
<1>10. SlotShape'
  BY <1>4, <1>7, <1>8 DEF SlotShape
<1> QED
  BY <1>2, <1>4, <1>5, <1>7, <1>9, <1>10

(* UsbRemoveDevice: "gone" leave the table, "stuck" stay as what could not *)
(* be removed.                                                             *)
Drops(gone, stuck) ==
  /\ dev' = [c \in Addrs |-> IF c \in gone THEN NoDev
                             ELSE IF c \in stuck THEN [dev[c] EXCEPT !.fail = TRUE] ELSE dev[c]]
  /\ urb' = [c \in Addrs |-> IF c \in gone THEN "none" ELSE urb[c]]
  /\ map' = [c \in Addrs |-> IF c \in gone THEN {} ELSE map[c]]
  /\ notify' = notify \ gone

(* Nothing is attached to itself.                                          *)
LEMMA NotOwnChild ==
  ASSUME TreeShape, NEW a \in Addrs, NEW c \in Children(a)
  PROVE  /\ c \in Addrs /\ c # a /\ dev[c].used /\ dev[c].parent = a /\ dev[a].hub
         /\ Up[dev[c].port] = dev[a].port /\ dev[c].port \in Ports /\ ~dev[c].hub
<1>1. c \in Addrs /\ dev[c].used /\ dev[c].parent = a
  BY DEF Children
<1>2. a # 0
  BY EnumerationAssumption DEF Addrs
<1>3. dev[a].hub /\ dev[a].port = Up[dev[c].port] /\ dev[c].port \in Ports
  BY <1>1, <1>2 DEF TreeShape, Attached
<1>4. dev[a].used /\ dev[a].port \in Ports
  BY <1>3 DEF TreeShape
<1>5. c # a
  BY <1>3, TwoTiers
<1>6. ~dev[c].hub
  <2> SUFFICES ASSUME NEW q \in Ports, Up[q] = dev[c].port
               PROVE  FALSE
    BY <1>1 DEF TreeShape
  <2>1. Up[dev[c].port] = 0
    BY <1>3, TwoTiers
  <2> QED
    BY <1>3, <1>4, <2>1, TwoTiers
<1> QED
  BY <1>1, <1>3, <1>5, <1>6

(* What UsbRemoveDevice does                                               *)
LEMMA Removal ==
  ASSUME TypeOK, TreeShape, NEW a \in Addrs, Remove(a)
  PROVE  /\ \E gone \in SUBSET Addrs, stuck \in SUBSET Addrs :
              /\ Drops(gone, stuck)
              /\ gone \cap stuck = {} /\ gone \cup stuck \subseteq Children(a) \cup {a}
              /\ a \in gone => Children(a) \subseteq gone
              /\ \/ "disconnect" \in count'.failed
                 \/ /\ Children(a) \subseteq gone /\ stuck \subseteq {a}
                    /\ a \in IF dev[a].hub /\ ~CanRelease(a) THEN stuck ELSE gone
         /\ count' \in CountType /\ count'.plug = count.plug /\ count.failed \subseteq count'.failed
<1>1. count \in CountType
  BY Typing
<1>2. PICK busy, k : /\ RemoveDevice(a, busy) /\ (Well \/ Fault(k))
                     /\ busy # {} => k = "disconnect" /\ Fault(k)
  BY DEF Remove
<1>3. /\ count' \in CountType /\ count'.plug = count.plug
      /\ count.failed \subseteq count'.failed
  BY <1>1, <1>2, Counted
<1>4. busy # {} => "disconnect" \in count'.failed
  BY <1>1, <1>2 DEF Fault, CountType
<1> DEFINE kept == {c \in Children(a) : dev[c].config /\ ~dev[c].hub /\ c \in busy}
           fails == kept = {} /\ ((dev[a].config /\ ~dev[a].hub /\ a \in busy)
                                  \/ (dev[a].hub /\ ~CanRelease(a)))
           gone == (Children(a) \ kept) \cup (IF kept = {} /\ ~fails THEN {a} ELSE {})
           stuck == kept \cup (IF fails THEN {a} ELSE {})
<1>5. a \notin Children(a) /\ Children(a) \subseteq Addrs
  BY NotOwnChild
<1>6. /\ gone \in SUBSET Addrs /\ stuck \in SUBSET Addrs
      /\ gone \cap stuck = {} /\ gone \cup stuck \subseteq Children(a) \cup {a}
      /\ a \in gone => Children(a) \subseteq gone
  BY <1>5
<1>7. busy = {} => /\ Children(a) \subseteq gone /\ stuck \subseteq {a}
                   /\ a \in IF dev[a].hub /\ ~CanRelease(a) THEN stuck ELSE gone
  BY <1>5
<1>8. Drops(gone, stuck)
  <2>1. /\ urb' = [c \in Addrs |-> IF c \in gone THEN "none" ELSE urb[c]]
        /\ map' = [c \in Addrs |-> IF c \in gone THEN {} ELSE map[c]]
        /\ notify' = notify \ gone
    BY <1>2 DEF RemoveDevice
  <2>2. dev' = [c \in Addrs |->
          CASE c \in gone -> NoDev
            [] c \in kept \/ (c = a /\ fails) -> [dev[c] EXCEPT !.fail = TRUE]
            [] OTHER -> dev[c]]
    BY <1>2 DEF RemoveDevice
  <2>3. \A c \in Addrs : c \in kept \/ (c = a /\ fails) <=> c \in stuck
    OBVIOUS
  <2> HIDE DEF gone, stuck, kept, fails
  <2>4. \A c \in Addrs : (CASE c \in gone -> NoDev
            [] c \in kept \/ (c = a /\ fails) -> [dev[c] EXCEPT !.fail = TRUE]
            [] OTHER -> dev[c]) = IF c \in gone THEN NoDev
                             ELSE IF c \in stuck THEN [dev[c] EXCEPT !.fail = TRUE] ELSE dev[c]
    BY <1>6, <2>3
  <2> QED
    BY <2>1, <2>2, <2>4 DEF Drops
<1> HIDE DEF gone, stuck
<1> QED
  BY <1>3, <1>4, <1>6, <1>7, <1>8

(* What a step that leaves the bus driver's table alone needs to show.     *)
LEMMA TreeKept ==
  ASSUME TreeShape, dev' = dev, \A a \in Addrs : urb'[a] # "none" \/ a \in notify' => dev[a].hub
  PROVE  TreeShape'
<1>1. \A h, p : Attached(h, p) => Attached(h, p)'
  BY DEF Attached
<1> QED
  BY <1>1 DEF TreeShape

(* The same for the job, ...                                               *)
LEMMA JobKept ==
  ASSUME JobShape, dev' = dev, job' = job
  PROVE  JobShape'
<1>1. \A h, p : Attached(h, p) => Attached(h, p)'
  BY DEF Attached
<1>2. FreeAddr' = FreeAddr
  BY DEF FreeAddr
<1> QED
  BY <1>1, <1>2 DEF JobShape

(* ... and for the slots.                                                  *)
LEMMA SlotsKept ==
  ASSUME SlotShape, slots' = slots, port' = port, count'.plug = count.plug
  PROVE  SlotShape'
  BY DEF SlotShape

(* An enumeration goes on at the same port.                                *)
LEMMA JobGoes ==
  ASSUME TypeOK, JobShape, job.pc # "idle", dev' = dev, NEW x \in Steps, job' = [job EXCEPT !.pc = x],
         x \in {"configure", "connect"} => job.pc \in {"configure", "connect"},
         x = "address" => FreeAddr # 0
  PROVE  job' \in JobType /\ JobShape'
<1>1. job \in JobType
  BY Typing
<1>2. /\ job' \in JobType /\ job'.pc = x /\ job'.hub = job.hub /\ job'.port = job.port
      /\ job'.child = job.child
  BY <1>1 DEF JobType
<1>3. \A h, p : Attached(h, p) => Attached(h, p)'
  BY DEF Attached
<1>4. FreeAddr' = FreeAddr
  BY DEF FreeAddr
<1>5. Attached(job.hub, job.port)'
  BY <1>2, <1>3 DEF JobShape
<1>6. JobShape'
  BY <1>2, <1>4, <1>5 DEF JobShape
<1> QED
  BY <1>2, <1>6

(* An enumeration goes to the next port of its hub, or ends.               *)
LEMMA JobAdvances ==
  ASSUME NEW h \in {0} \cup Addrs, NEW p \in Ports \cup {0}, job' = NextPort(h, p),
         h # 0 => dev'[h].hub /\ dev'[h].port = dev[h].port
  PROVE  job' \in JobType /\ JobShape'
<1>1. CASE job' = Idle
  BY <1>1 DEF Idle, JobType, JobShape, Steps
<1>2. ASSUME NEW q \in Reported(h), job' = [Idle EXCEPT !.pc = "port", !.hub = h, !.port = q]
      PROVE  job' \in JobType /\ JobShape'
  <2>1. /\ job' = [pc |-> "port", hub |-> h, port |-> q, on |-> FALSE, reset |-> FALSE, child |-> 0]
    BY <1>2 DEF Idle
  <2>2. q \in Ports /\ Up[q] = IF h = 0 THEN 0 ELSE dev[h].port
    BY DEF Reported, PortsOf
  <2>3. job' \in JobType
    BY <2>1, <2>2 DEF JobType, Steps
  <2>4. Attached(h, q)'
    BY <2>2 DEF Attached
  <2>5. JobShape'
    BY <2>1, <2>2, <2>4 DEF JobShape
  <2> QED
    BY <2>3, <2>5
<1> QED
  BY <1>1, <1>2, NextIs

(* The port is done: the job advances, and the change map is freed.        *)
LEMMA AdvanceOk ==
  ASSUME TypeOK, JobShape, job.pc # "idle", dev' = dev, Advance
  PROVE  job' \in JobType /\ JobShape' /\ map' \in [Addrs -> SUBSET Ports]
<1>1. job.hub \in {0} \cup Addrs /\ job.port \in Ports \cup {0} /\ job' = NextPort(job.hub, job.port)
  BY Typing DEF Advance, JobType
<1>2. job.hub # 0 => dev'[job.hub].hub /\ dev'[job.hub].port = dev[job.hub].port
  BY DEF JobShape, Attached
<1>3. job' \in JobType /\ JobShape'
  BY <1>1, <1>2, JobAdvances
<1>4. map' \in [Addrs -> SUBSET Ports]
  BY Typing DEF Advance
<1> QED
  BY <1>3, <1>4

(* A step of an enumeration reads the status of its port, or fails to.     *)
LEMMA JobGot ==
  ASSUME Shape, job.pc # "idle", CanAsk(job.hub), GetPortStatus(job.port)
  PROVE  /\ job.port \in Ports /\ port' = Cleared(port, job.port) /\ port' \in PortTable
         /\ slots' \in Table /\ SlotShape'
         /\ \E bad : /\ Followed(slots, slots', port, job.port, bad)
                     /\ bad # {} => "disable" \in count'.failed
         /\ count' \in CountType /\ count.failed \subseteq count'.failed
<1>1. TypeOK /\ SlotShape /\ job.port \in Ports /\ Attached(job.hub, job.port)
  BY DEF Shape, JobShape
<1>2. Up[job.port] # 0 => HasSlot(slots, Up[job.port])
  BY <1>1, HubHasSlot
<1>3. /\ port' = Cleared(port, job.port)
      /\ slots' \in Table /\ SlotShape'
      /\ \E bad : Followed(slots, slots', port, job.port, bad) /\ (bad # {} => "disable" \in count'.failed)
      /\ count' \in CountType /\ count'.plug = count.plug /\ count.failed \subseteq count'.failed
  BY <1>1, <1>2, Got
<1>4. port \in PortTable
  BY <1>1, Typing
<1>5. Cleared(port, job.port) \in PortTable
  BY <1>1, <1>4, PortEffects
<1> QED
  BY <1>1, <1>3, <1>5

(* A status that cannot be read changes nothing but the count.             *)
LEMMA Failing ==
  ASSUME Shape, NEW h, StatusFails(h)
  PROVE  /\ port' = port /\ slots' = slots /\ SlotShape'
         /\ count' \in CountType /\ count.failed \subseteq count'.failed
<1>1. count \in CountType /\ SlotShape
  BY Typing DEF Shape
<1>2. port' = port /\ slots' = slots /\ (Well \/ Fault("status"))
  BY DEF StatusFails, MustOrMayFail
<1>3. /\ count' \in CountType /\ count'.plug = count.plug
      /\ count.failed \subseteq count'.failed
  BY <1>1, <1>2, Counted
<1> QED
  BY <1>1, <1>2, <1>3, SlotsKept

(* The world plugs and unplugs.                                            *)
LEMMA PortsWorld ==
  ASSUME TypeOK, SlotShape, NEW p \in Ports, Plug(p) \/ Unplug(p)
  PROVE  /\ port' \in PortTable /\ count' \in CountType /\ SlotShape'
         /\ count.plug <= count'.plug /\ count'.failed = count.failed
<1>1. /\ port \in PortTable /\ count \in CountType /\ slots \in Table
      /\ count.plug \in Nat /\ MaxPlugs \in Nat /\ MaxUnplugs \in Nat
  BY Typing, EnumerationAssumption DEF CountType
<1> DEFINE P == [unit : {0} \cup Units, enable : BOOLEAN, csc : BOOLEAN, prc : BOOLEAN]
<1>2. CASE Plug(p)
  <2> DEFINE n == count.plug
  <2>1. count' = [count EXCEPT !.plug = n + 1] /\ n < MaxPlugs /\ n \in Nat /\ slots' = slots
    BY <1>1, <1>2 DEF Plug
  <2> DEFINE e == [[port[p] EXCEPT !.unit = n + 1] EXCEPT !.csc = TRUE]
  <2>2. port[p] \in P
    BY <1>1 DEF PortTable
  <2>3. port' = [port EXCEPT ![p] = e]
    BY <1>1, <1>2 DEF Plug, PortTable
  <2>4. n + 1 \in Units
    BY <1>1, <2>1 DEF Units
  <2>5. e \in P /\ e.unit = n + 1
    BY <2>2, <2>4
  <2>6. count' \in CountType /\ count'.plug = n + 1 /\ count'.failed = count.failed
    BY <1>1, <2>1 DEF CountType
  <2> HIDE DEF e, n
  <2>7. port' \in PortTable /\ \A q \in Ports : port'[q].unit = IF q = p THEN n + 1 ELSE port[q].unit
    BY <1>1, <2>3, <2>5 DEF PortTable
  <2>8. \A s \in Slots : slots[s].unit \in Int
    BY <1>1 DEF Table, Entry, Units
  <2>9. \A q \in Ports : port[q].unit \in Int
    BY <1>1 DEF PortTable, Units
  <2>10. SlotsOk(slots, n + 1)
    <3>1. SlotsOk(slots, n)
      BY DEF SlotShape, n
    <3>2. \A s \in Slots : Live(slots, s) => slots[s].unit <= n + 1
      BY <2>1, <2>8, <3>1 DEF SlotsOk
    <3> QED
      BY <3>1, <3>2 DEF SlotsOk
  <2>11. \A q \in Ports : port'[q].unit <= n + 1
    <3>1. \A q \in Ports : port[q].unit <= n
      BY DEF SlotShape, n
    <3> QED
      BY <2>1, <2>7, <2>9, <3>1
  <2>12. SlotShape'
    BY <2>1, <2>6, <2>10, <2>11 DEF SlotShape
  <2> QED
    BY <2>1, <2>6, <2>7, <2>12 DEF n
<1>3. CASE Unplug(p)
  <2> DEFINE self == [unit |-> 0, enable |-> FALSE, csc |-> TRUE, prc |-> port[p].prc]
             none == [unit |-> 0, enable |-> FALSE, csc |-> FALSE, prc |-> FALSE]
  <2>1. /\ count' = [count EXCEPT !.unplug = @ + 1] /\ count.unplug < MaxUnplugs /\ slots' = slots
        /\ port' = [q \in Ports |-> CASE q = p -> self [] Up[q] = p -> none [] OTHER -> port[q]]
    BY <1>3 DEF Unplug
  <2>2. count' \in CountType /\ count'.plug = count.plug /\ count'.failed = count.failed
    BY <1>1, <2>1 DEF CountType
  <2>3. self \in P /\ none \in P /\ self.unit = 0 /\ none.unit = 0
    BY <1>1 DEF PortTable
  <2> HIDE DEF self, none
  <2>4. ASSUME NEW q \in Ports
        PROVE  port'[q] \in P /\ (port'[q].unit = 0 \/ port'[q].unit = port[q].unit)
    <3>1. port'[q] = self \/ port'[q] = none \/ port'[q] = port[q]
      BY <2>1
    <3> QED
      BY <1>1, <2>3, <3>1 DEF PortTable
  <2>5. port' \in PortTable
    <3>1. port' = [q \in Ports |-> port'[q]]
      BY <2>1
    <3> QED
      BY <2>4, <3>1 DEF PortTable
  <2>6. SlotShape'
    BY <1>1, <2>1, <2>2, <2>4 DEF SlotShape
  <2> QED
    BY <1>1, <2>2, <2>5, <2>6
<1> QED
  BY <1>2, <1>3

(* Plugs and unplugs                                                       *)
LEMMA ShapeWorld == ASSUME Shape, World PROVE Shape'
<1>1. PICK p \in Ports : Plug(p) \/ Unplug(p)
  BY DEF World
<1>2. slots' = slots /\ UNCHANGED busVars /\ job' = job /\ UNCHANGED history
  BY <1>1 DEF Plug, Unplug
<1>3. port' \in PortTable /\ count' \in CountType /\ SlotShape'
  BY <1>1, PortsWorld DEF Shape
<1>4. TreeShape'
  BY <1>2, TreeKept DEF Shape, TreeShape, busVars
<1>5. JobShape'
  BY <1>2, JobKept DEF Shape, busVars
<1>6. TypeOK'
  BY <1>2, <1>3, Typing DEF Shape, busVars, history, TypeOK, PortTable, CountType
<1> QED
  BY <1>3, <1>4, <1>5, <1>6 DEF Shape

(* The type of each variable, in the next state.                           *)
Typed ==
  /\ port \in PortTable /\ slots \in Table /\ dev \in DevTable
  /\ urb \in [Addrs -> {"none", "polling", "failed", "halted"}]
  /\ map \in [Addrs -> SUBSET Ports] /\ notify \subseteq Addrs
  /\ job \in JobType /\ count \in CountType
  /\ missed \subseteq Ports /\ orphan \in BOOLEAN

(* The types after the step                                                *)
LEMMA TypingNext == TypeOK' <=> Typed'
<1>1. TypeOK <=> Typed
  BY Typing DEF Typed
<1> QED
  BY <1>1, PTL

(* Giving up and going on, at the port of the job.                         *)
LEMMA Going ==
  ASSUME TypeOK, JobShape, job.pc # "idle", dev' = dev,
         \/ GiveUp
         \/ \E x \in Steps : /\ GoOn(x)
                             /\ x \in {"configure", "connect"} => job.pc \in {"configure", "connect"}
                             /\ x = "address" => FreeAddr # 0
  PROVE  job' \in JobType /\ JobShape' /\ missed' \subseteq Ports /\ orphan' \in BOOLEAN
<1>1. missed \subseteq Ports /\ orphan \in BOOLEAN /\ job.port \in Ports
  BY Typing DEF JobShape
<1>2. CASE GiveUp
  <2>1. job' = [job EXCEPT !.pc = "clear"] /\ "clear" \in Steps
    BY <1>2 DEF GiveUp, Steps
  <2>2. job' \in JobType /\ JobShape'
    BY <2>1, JobGoes
  <2>3. missed' \subseteq Ports /\ orphan' \in BOOLEAN
    BY <1>1, <1>2 DEF GiveUp
  <2> QED
    BY <2>2, <2>3
<1>3. ASSUME NEW x \in Steps, GoOn(x), x = "address" => FreeAddr # 0,
             x \in {"configure", "connect"} => job.pc \in {"configure", "connect"}
      PROVE  job' \in JobType /\ JobShape' /\ missed' \subseteq Ports /\ orphan' \in BOOLEAN
  <2>1. job' = [job EXCEPT !.pc = x] /\ missed' = missed /\ orphan' = orphan
    BY <1>3 DEF GoOn, history
  <2>2. job' \in JobType /\ JobShape'
    BY <1>3, <2>1, JobGoes
  <2> QED
    BY <1>1, <2>1, <2>2
<1> QED
  BY <1>2, <1>3

(* Reading the status first                                                *)
LEMMA ShapeStatus == ASSUME Shape, PortStatus PROVE Shape'
<1>1. job.pc # "idle" /\ TypeOK /\ Typed /\ JobShape /\ TreeShape
  BY Typing DEF PortStatus, StatusDue, Shape, Typed
<1>2. dev' = dev /\ urb' = urb /\ notify' = notify /\ orphan' = orphan
  BY DEF PortStatus
<1>3. TreeShape'
  BY <1>1, <1>2, TreeKept DEF TreeShape
<1>4. CASE /\ CanAsk(job.hub) /\ GetPortStatus(job.port)
           /\ missed' = IF Change(job.port) THEN missed \ {job.port} ELSE missed
           /\ IF Change(job.port)
              THEN /\ job' = [job EXCEPT !.pc = "remove", !.on = port[job.port].unit # 0,
                                        !.reset = port[job.port].prc]
                   /\ map' = map
              ELSE Advance
  <2>1. /\ job.port \in Ports /\ port' \in PortTable /\ slots' \in Table /\ SlotShape'
        /\ count' \in CountType
    BY <1>1, <1>4, JobGot
  <2>2. CASE ~Change(job.port)
    <3>1. job' \in JobType /\ JobShape' /\ map' \in [Addrs -> SUBSET Ports]
      BY <1>1, <1>2, <1>4, <2>2, AdvanceOk
    <3>2. missed' \subseteq Ports
      BY <1>1, <1>4 DEF Typed
    <3>3. Typed'
      BY <1>1, <1>2, <2>1, <3>1, <3>2 DEF Typed
    <3> QED
      BY <1>3, <2>1, <3>1, <3>3, TypingNext DEF Shape
  <2>3. CASE Change(job.port)
    <3>1. port[job.port].prc \in BOOLEAN
      BY <1>1, <2>1 DEF Typed, PortTable
    <3>2. /\ job' \in JobType /\ job'.pc = "remove" /\ job'.hub = job.hub /\ job'.port = job.port
      <4> DEFINE on == port[job.port].unit # 0
                 reset == port[job.port].prc
      <4>1. job' = [[[job EXCEPT !.pc = "remove"] EXCEPT !.on = on] EXCEPT !.reset = reset]
        BY <1>4, <2>3
      <4>2. on \in BOOLEAN /\ reset \in BOOLEAN /\ job \in JobType
        BY <1>1, <3>1 DEF Typed
      <4> HIDE DEF on, reset
      <4> QED
        BY <4>1, <4>2 DEF JobType, Steps
    <3>3. Attached(job.hub, job.port)'
      BY <1>1, <1>2, <3>2 DEF JobShape, Attached
    <3>4. JobShape'
      BY <2>1, <3>2, <3>3 DEF JobShape
    <3>5. missed' \subseteq Ports /\ map' = map
      BY <1>1, <1>4, <2>3 DEF Typed
    <3>6. Typed'
      BY <1>1, <1>2, <2>1, <3>2, <3>5 DEF Typed
    <3> QED
      BY <1>3, <2>1, <3>4, <3>6, TypingNext DEF Shape
  <2> QED
    BY <2>2, <2>3
<1>5. CASE StatusFails(job.hub) /\ Advance /\ missed' = missed
  <2>1. job' \in JobType /\ JobShape' /\ map' \in [Addrs -> SUBSET Ports]
    BY <1>1, <1>2, <1>5, AdvanceOk
  <2>2. port' = port /\ slots' = slots /\ SlotShape' /\ count' \in CountType
    BY <1>5, Failing
  <2>3. Typed'
    BY <1>1, <1>2, <1>5, <2>1, <2>2 DEF Typed
  <2> QED
    BY <1>3, <2>1, <2>2, <2>3, TypingNext DEF Shape
<1> QED
  BY <1>4, <1>5 DEF PortStatus

(* Resetting the port                                                      *)
LEMMA ShapeReset == ASSUME Shape, ResetPort PROVE Shape'
<1>1. job.pc = "reset" /\ TypeOK /\ Typed /\ JobShape /\ TreeShape /\ SlotShape /\ job.port \in Ports
  BY Typing DEF ResetPort, Shape, Typed, JobShape
<1>2. dev' = dev /\ urb' = urb /\ map' = map /\ notify' = notify
  BY DEF ResetPort, busVars
<1>3. TreeShape'
  BY <1>1, <1>2, TreeKept DEF TreeShape
<1>4. GiveUp \/ GoOn("wait")
  BY DEF ResetPort
<1>5. job' \in JobType /\ JobShape' /\ missed' \subseteq Ports /\ orphan' \in BOOLEAN
  BY <1>1, <1>2, <1>4, Going DEF Steps
<1>6. CASE Well /\ port' = ResetHw(port, job.port) /\ slots' = slots
  <2>1. port \in PortTable
    BY <1>1 DEF Typed
  <2>2. /\ ResetHw(port, job.port) \in PortTable
        /\ \A q \in Ports : ResetHw(port, job.port)[q].unit = port[q].unit
    BY <1>1, <2>1, PortEffects
  <2>3. count' = count
    BY <1>6 DEF Well
  <2>4. SlotShape'
    BY <1>1, <1>6, <2>2, <2>3 DEF SlotShape
  <2>5. Typed'
    BY <1>1, <1>2, <1>5, <1>6, <2>2, <2>3 DEF Typed
  <2> QED
    BY <1>3, <1>5, <2>4, <2>5, TypingNext DEF Shape
<1>7. CASE StatusFails(job.hub)
  <2>1. port' = port /\ slots' = slots /\ SlotShape' /\ count' \in CountType
    BY <1>7, Failing
  <2>2. Typed'
    BY <1>1, <1>2, <1>5, <2>1 DEF Typed
  <2> QED
    BY <1>3, <1>5, <2>1, <2>2, TypingNext DEF Shape
<1> QED
  BY <1>6, <1>7 DEF ResetPort

(* The wait for the reset and the creation of the device read the status.  *)
LEMMA ShapeGot ==
  ASSUME Shape, job.pc # "idle", UNCHANGED busVars,
         (CanAsk(job.hub) /\ GetPortStatus(job.port)) \/ StatusFails(job.hub),
         \/ GiveUp
         \/ \E x \in Steps : /\ GoOn(x)
                             /\ x \in {"configure", "connect"} => job.pc \in {"configure", "connect"}
                             /\ x = "address" => FreeAddr # 0
  PROVE  Shape'
<1>1. TypeOK /\ Typed /\ JobShape /\ TreeShape
  BY Typing DEF Shape, Typed
<1>2. dev' = dev /\ urb' = urb /\ map' = map /\ notify' = notify
  BY DEF busVars
<1>3. TreeShape'
  BY <1>1, <1>2, TreeKept DEF TreeShape
<1>4. job' \in JobType /\ JobShape' /\ missed' \subseteq Ports /\ orphan' \in BOOLEAN
  BY <1>1, <1>2, Going
<1>5. port' \in PortTable /\ slots' \in Table /\ SlotShape' /\ count' \in CountType
  <2>1. CASE CanAsk(job.hub) /\ GetPortStatus(job.port)
    BY <2>1, JobGot
  <2>2. CASE StatusFails(job.hub)
    BY <1>1, <2>2, Failing DEF Typed
  <2> QED
    BY <2>1, <2>2
<1>6. Typed'
  BY <1>1, <1>2, <1>4, <1>5 DEF Typed
<1> QED
  BY <1>3, <1>4, <1>5, <1>6, TypingNext DEF Shape

(* Waiting for the end of the reset                                        *)
LEMMA ShapeWait == ASSUME Shape, WaitReset PROVE Shape'
<1>1. job.pc # "idle" /\ UNCHANGED busVars
  BY DEF WaitReset
<1>2. (CanAsk(job.hub) /\ GetPortStatus(job.port)) \/ StatusFails(job.hub)
  BY DEF WaitReset
<1>3. GiveUp \/ GoOn("create") \/ GoOn("wait")
  BY DEF WaitReset
<1>4. GiveUp \/ \E x \in {"create", "wait"} : GoOn(x)
  BY <1>3
<1> HIDE DEF GoOn, GiveUp
<1> QED
  BY <1>1, <1>2, <1>4, ShapeGot DEF Steps

(* Creating the device                                                     *)
LEMMA ShapeCreate == ASSUME Shape, CreateDevice PROVE Shape'
<1>1. job.pc # "idle" /\ UNCHANGED busVars
  BY DEF CreateDevice
<1>2. (CanAsk(job.hub) /\ GetPortStatus(job.port)) \/ StatusFails(job.hub)
  BY DEF CreateDevice
<1>3. GiveUp \/ GoOn("clear") \/ (GoOn("address") /\ FreeAddr # 0)
  BY DEF CreateDevice
<1>4. GiveUp \/ \E x \in {"clear", "address"} : GoOn(x) /\ (x = "address" => FreeAddr # 0)
  BY <1>3
<1> HIDE DEF GoOn, GiveUp
<1> QED
  BY <1>1, <1>2, <1>4, ShapeGot DEF Steps

(* Clearing the changes of the port                                        *)
LEMMA ShapeClear == ASSUME Shape, ClearPortChange PROVE Shape'
<1>1. job.pc # "idle" /\ TypeOK /\ Typed /\ JobShape /\ TreeShape /\ job.port \in Ports
  BY Typing DEF ClearPortChange, Shape, Typed, JobShape
<1>2. dev' = dev /\ urb' = urb /\ notify' = notify /\ orphan' = orphan /\ Advance
  BY DEF ClearPortChange
<1>3. TreeShape'
  BY <1>1, <1>2, TreeKept DEF TreeShape
<1>4. job' \in JobType /\ JobShape' /\ map' \in [Addrs -> SUBSET Ports]
  BY <1>1, <1>2, AdvanceOk
<1>5. port' \in PortTable /\ slots' \in Table /\ SlotShape' /\ count' \in CountType
  <2>1. CASE CanAsk(job.hub) /\ GetPortStatus(job.port)
    BY <1>1, <2>1, JobGot
  <2>2. CASE StatusFails(job.hub)
    BY <1>1, <2>2, Failing DEF Typed
  <2> QED
    BY <2>1, <2>2 DEF ClearPortChange
<1>6. missed' \subseteq Ports
  BY <1>1 DEF ClearPortChange, Typed
<1>7. Typed'
  BY <1>1, <1>2, <1>4, <1>5, <1>6 DEF Typed
<1> QED
  BY <1>3, <1>4, <1>5, <1>7, TypingNext DEF Shape

(* Configuring the device                                                  *)
LEMMA ShapeConfigure == ASSUME Shape, Configure PROVE Shape'
<1>1. job.pc = "configure" /\ TypeOK /\ Typed /\ JobShape /\ TreeShape /\ SlotShape
  BY Typing DEF Configure, Shape, Typed
<1>2. dev' = dev /\ urb' = urb /\ map' = map /\ notify' = notify /\ port' = port
  BY DEF Configure, busVars
<1>3. TreeShape'
  BY <1>1, <1>2, TreeKept DEF TreeShape
<1>4. GiveUp \/ GoOn("connect")
  BY DEF Configure
<1>5. job' \in JobType /\ JobShape' /\ missed' \subseteq Ports /\ orphan' \in BOOLEAN
  BY <1>1, <1>2, <1>4, Going DEF Steps
<1>6. \/ slots' = slots \/ slots' = SawDescriptors(slots, job.child)
      \/ slots' = SetConfig(SawDescriptors(slots, job.child), job.child)
  BY DEF Configure
<1>7. count' \in CountType /\ count'.plug = count.plug
  <2>1. Well \/ Fault("xfer")
    BY DEF Configure, MustOrMayFail
  <2> QED
    BY <1>1, <2>1, Counted DEF Typed
<1>8. slots' \in Table /\ SlotsOk(slots', count.plug)
  <2>1. slots \in Table /\ SlotsOk(slots, count.plug)
    BY <1>1 DEF Typed, SlotShape
  <2>2. Like(slots, SawDescriptors(slots, job.child))
    BY <2>1, Saw
  <2>3. SlotsOk(SawDescriptors(slots, job.child), count.plug) /\ SawDescriptors(slots, job.child) \in Table
    BY <2>1, <2>2, SameOk DEF Like, Same
  <2>4. Like(SawDescriptors(slots, job.child), SetConfig(SawDescriptors(slots, job.child), job.child))
    BY <2>3, Configures
  <2>5. SlotsOk(SetConfig(SawDescriptors(slots, job.child), job.child), count.plug)
    BY <2>3, <2>4, SameOk DEF Like
  <2>6. SlotsOk(slots', count.plug)
    BY <1>6, <2>1, <2>3, <2>5
  <2> QED
    BY <2>6 DEF SlotsOk
<1>9. SlotShape'
  BY <1>1, <1>2, <1>7, <1>8 DEF SlotShape
<1>10. Typed'
  BY <1>1, <1>2, <1>5, <1>7, <1>8 DEF Typed
<1> QED
  BY <1>3, <1>5, <1>9, <1>10, TypingNext DEF Shape

(* The timer of the root hub                                               *)
LEMMA ShapeTimer == ASSUME Shape, RootTimer PROVE Shape'
<1>1. TypeOK /\ Typed /\ TreeShape /\ SlotShape
  BY Typing DEF Shape, Typed
<1>2. /\ port' = port /\ slots' = slots /\ dev' = dev /\ urb' = urb /\ map' = map
      /\ notify' = notify /\ count' = count /\ missed' = missed /\ orphan' = orphan
      /\ job' = NextPort(0, 0)
  BY DEF RootTimer, busVars, history
<1>3. job' \in JobType /\ JobShape'
  BY <1>2, JobAdvances
<1>4. TreeShape' /\ SlotShape'
  BY <1>1, <1>2, TreeKept, SlotsKept DEF TreeShape
<1>5. Typed'
  BY <1>1, <1>2, <1>3 DEF Typed
<1> QED
  BY <1>3, <1>4, <1>5, TypingNext DEF Shape

(* Only a hub of the table has a request, and so reports changes.          *)
LEMMA ShapeMonitor == ASSUME Shape, Monitor PROVE Shape'
<1>1. TypeOK /\ Typed /\ TreeShape /\ SlotShape /\ JobShape
  BY Typing DEF Shape, Typed
<1>2. PICK a \in Addrs : HubReports(a) \/ HubFails(a) \/ HubError(a)
  BY DEF Monitor
<1>3. /\ port' = port /\ slots' = slots /\ dev' = dev /\ job' = job
      /\ missed' = missed /\ orphan' = orphan
  BY <1>2 DEF HubReports, HubFails, HubError, history
<1>4. dev[a].hub
  BY <1>1, <1>2 DEF HubReports, HubFails, HubError, TreeShape
<1>5. count' \in CountType /\ count'.plug = count.plug
  <2>1. Well \/ Fault("interrupt")
    BY <1>2 DEF HubReports, HubFails, HubError, MustOrMayFail, Well
  <2> QED
    BY <1>1, <2>1, Counted DEF Typed
<1>6. /\ urb' \in [Addrs -> {"none", "polling", "failed", "halted"}]
      /\ map' \in [Addrs -> SUBSET Ports] /\ notify' \subseteq Addrs
      /\ \A b \in Addrs : urb'[b] # "none" \/ b \in notify' => dev[b].hub
  <2>1. CASE HubReports(a)
    <3>1. urb' = urb /\ notify' = notify \cup {a}
      BY <2>1 DEF HubReports
    <3>2. map' \in [Addrs -> SUBSET Ports]
      BY <1>1, <2>1 DEF HubReports, Typed, PortsOf
    <3> QED
      BY <1>1, <1>4, <3>1, <3>2 DEF Typed, TreeShape
  <2>2. CASE HubFails(a) \/ HubError(a)
    <3>1. map' = map /\ notify' = notify
      BY <2>2 DEF HubFails, HubError
    <3>2. \E x \in {"none", "failed", "halted"} : urb' = [urb EXCEPT ![a] = x]
      BY <2>2 DEF HubFails, HubError
    <3> QED
      BY <1>1, <1>4, <3>1, <3>2 DEF Typed, TreeShape
  <2> QED
    BY <1>2, <2>1, <2>2
<1>7. TreeShape' /\ JobShape' /\ SlotShape'
  BY <1>1, <1>3, <1>5, <1>6, TreeKept, JobKept, SlotsKept
<1>8. Typed'
  BY <1>1, <1>3, <1>5, <1>6 DEF Typed
<1> QED
  BY <1>7, <1>8, TypingNext DEF Shape

(* What stays is as before, but for the mark of what could not be removed. *)
Spared(gone, stuck) ==
  /\ \A c \in gone : dev'[c] = NoDev
  /\ \A c \in Addrs \ gone :
       /\ dev'[c].used = dev[c].used /\ dev'[c].port = dev[c].port
       /\ dev'[c].parent = dev[c].parent /\ dev'[c].hub = dev[c].hub
       /\ dev'[c].config = dev[c].config
       /\ dev'[c].fail = IF c \in stuck THEN TRUE ELSE dev[c].fail

(* What a removal leaves is a tree.                                        *)
LEMMA Dropped ==
  ASSUME TypeOK, TreeShape, NEW a \in Addrs, dev[a].used,
         NEW gone \in SUBSET Addrs, NEW stuck \in SUBSET Addrs, Drops(gone, stuck),
         gone \cup stuck \subseteq Children(a) \cup {a}, a \in gone => Children(a) \subseteq gone
  PROVE  /\ dev' \in DevTable /\ urb' \in [Addrs -> {"none", "polling", "failed", "halted"}]
         /\ map' \in [Addrs -> SUBSET Ports] /\ notify' \subseteq Addrs
         /\ TreeShape'
         /\ Spared(gone, stuck)
<1>1. Typed
  BY Typing DEF Typed
<1>2. /\ urb' \in [Addrs -> {"none", "polling", "failed", "halted"}]
      /\ map' \in [Addrs -> SUBSET Ports] /\ notify' \subseteq Addrs
      /\ \A c \in Addrs : urb'[c] = IF c \in gone THEN "none" ELSE urb[c]
      /\ notify' = notify \ gone
  BY <1>1 DEF Drops, Typed
<1>3. NoDev \in DevType /\ NoDev.used = FALSE /\ NoDev.hub = FALSE /\ NoDev.config = FALSE /\ NoDev.fail = FALSE
  BY DEF NoDev, DevType
<1> DEFINE stays == [c \in Addrs |-> [dev[c] EXCEPT !.fail = TRUE]]
<1>4. \A c \in Addrs : /\ stays[c] \in DevType
                       /\ stays[c].used = dev[c].used /\ stays[c].port = dev[c].port
                       /\ stays[c].parent = dev[c].parent /\ stays[c].hub = dev[c].hub
                       /\ stays[c].config = dev[c].config /\ stays[c].fail = TRUE
  <2> SUFFICES ASSUME NEW c \in Addrs
               PROVE  LET e == [dev[c] EXCEPT !.fail = TRUE] IN
                      /\ e \in DevType
                      /\ e.used = dev[c].used /\ e.port = dev[c].port
                      /\ e.parent = dev[c].parent /\ e.hub = dev[c].hub
                      /\ e.config = dev[c].config /\ e.fail = TRUE
    OBVIOUS
  <2>1. dev[c] \in DevType
    BY <1>1 DEF Typed, DevTable
  <2> QED
    BY <2>1 DEF DevType
<1>5. dev' = [c \in Addrs |-> IF c \in gone THEN NoDev ELSE IF c \in stuck THEN stays[c] ELSE dev[c]]
  BY DEF Drops
<1> HIDE DEF stays
<1>6. \A c \in Addrs : dev'[c] = IF c \in gone THEN NoDev ELSE IF c \in stuck THEN stays[c] ELSE dev[c]
  BY <1>5
<1>7. dev' \in DevTable
  <2>1. \A c \in Addrs : dev'[c] \in DevType
    BY <1>1, <1>3, <1>4, <1>6 DEF Typed, DevTable
  <2> QED
    BY <1>5, <2>1 DEF DevTable
<1>8. \A c \in gone : dev'[c] = NoDev
  BY <1>6
<1>9. \A c \in Addrs \ gone :
        /\ dev'[c].used = dev[c].used /\ dev'[c].port = dev[c].port
        /\ dev'[c].parent = dev[c].parent /\ dev'[c].hub = dev[c].hub
        /\ dev'[c].config = dev[c].config
        /\ dev'[c].fail = IF c \in stuck THEN TRUE ELSE dev[c].fail
  BY <1>4, <1>6
<1>10. Spared(gone, stuck)
  BY <1>8, <1>9 DEF Spared
(* The hub of what stays is not gone.                                      *)
<1>11. ASSUME NEW c \in Addrs, dev[c].used, c \notin gone, dev[c].parent \in gone
       PROVE  FALSE
  <2> DEFINE h == dev[c].parent
  <2>1. h \in Addrs /\ c \in Children(h)
    BY <1>11 DEF Children
  <2>2. CASE h = a
    BY <1>11, <2>1, <2>2
  <2>3. CASE h \in Children(a)
    <3>1. dev[h].hub
      BY <2>1, NotOwnChild
    <3>2. ~dev[h].hub
      BY <2>3, NotOwnChild
    <3> QED
      BY <3>1, <3>2
  <2> QED
    BY <1>11, <2>2, <2>3
<1>12. TreeShape'
  <2>1. ASSUME NEW c \in Addrs, dev'[c].used
        PROVE  dev'[c].port \in Ports /\ Attached(dev[c].parent, dev[c].port)' /\ c \notin gone
    <3>1. c \notin gone /\ dev[c].used
      BY <1>3, <1>8, <1>9, <2>1
    <3>2. dev[c].port \in Ports /\ Attached(dev[c].parent, dev[c].port)
      BY <3>1 DEF TreeShape
    <3> DEFINE h == dev[c].parent
               p == dev[c].port
    <3>3. h \notin gone /\ dev'[c].parent = h /\ dev'[c].port = p /\ Attached(h, p)
      BY <1>9, <1>11, <3>1, <3>2
    <3>4. IF h = 0 THEN Up[p] = 0 ELSE h \in Addrs /\ dev'[h].hub /\ dev'[h].port = Up[p]
      BY <1>9, <3>3 DEF Attached
    <3> QED
      BY <3>1, <3>2, <3>3, <3>4 DEF Attached
  <2>2. \A c \in Addrs : dev'[c].hub \/ dev'[c].config \/ dev'[c].fail => dev'[c].used
    <3>1. \A c \in gone : ~(dev'[c].hub \/ dev'[c].config \/ dev'[c].fail)
      BY <1>3, <1>8
    <3>2. \A c \in stuck : dev[c].used
      BY NotOwnChild
    <3> QED
      BY <1>9, <3>1, <3>2 DEF TreeShape
  <2>3. ASSUME NEW c \in Addrs, dev'[c].hub
        PROVE  \E q \in Ports : Up[q] = dev'[c].port
    <3>1. c \notin gone
      BY <1>3, <1>8, <2>3
    <3>2. dev[c].hub /\ dev'[c].port = dev[c].port
      BY <1>9, <2>3, <3>1
    <3> QED
      BY <3>2 DEF TreeShape
  <2>4. \A c \in Addrs : urb'[c] # "none" \/ c \in notify' => dev'[c].hub
    BY <1>2, <1>9 DEF TreeShape
  <2> QED
    BY <2>1, <2>2, <2>3, <2>4 DEF TreeShape
<1> QED
  BY <1>2, <1>7, <1>10, <1>12

(* Removing again what could not be removed                                *)
LEMMA ShapeRetry == ASSUME Shape, RetryPort PROVE Shape'
<1> DEFINE a == FindChild(0, job.port)
<1>1. TypeOK /\ Typed /\ JobShape /\ TreeShape /\ SlotShape /\ job.pc = "port" /\ job.hub = 0
  BY Typing DEF RetryPort, RetryDue, Shape, Typed
<1>2. a \in Addrs /\ dev[a].used /\ Remove(a)
  BY Found DEF RetryPort, RetryDue
<1>3. /\ port' = port /\ slots' = slots /\ missed' = missed /\ orphan' = orphan
      /\ job' = [job EXCEPT !.pc = "status"]
  BY DEF RetryPort, history
<1> HIDE DEF a
<1>4. PICK gone \in SUBSET Addrs, stuck \in SUBSET Addrs :
        /\ Drops(gone, stuck) /\ gone \cup stuck \subseteq Children(a) \cup {a}
        /\ a \in gone => Children(a) \subseteq gone
  BY <1>1, <1>2, Removal
<1>5. count' \in CountType /\ count'.plug = count.plug
  BY <1>1, <1>2, Removal
<1>6. /\ dev' \in DevTable /\ urb' \in [Addrs -> {"none", "polling", "failed", "halted"}]
      /\ map' \in [Addrs -> SUBSET Ports] /\ notify' \subseteq Addrs
      /\ TreeShape'
  BY <1>1, <1>2, <1>4, Dropped
<1>7. /\ job' \in JobType /\ job'.pc = "status" /\ job'.hub = 0 /\ job'.port = job.port
  BY <1>1, <1>3 DEF Typed, JobType, Steps
<1>8. JobShape'
  BY <1>1, <1>7 DEF JobShape, Attached
<1>9. SlotShape'
  BY <1>1, <1>3, <1>5, SlotsKept
<1>10. Typed'
  BY <1>1, <1>3, <1>5, <1>6, <1>7 DEF Typed
<1> QED
  BY <1>6, <1>8, <1>9, <1>10, TypingNext DEF Shape

(* Removing the old device                                                 *)
LEMMA ShapeRemove == ASSUME Shape, RemoveOld PROVE Shape'
<1> DEFINE a == FindChild(job.hub, job.port)
           x == IF ~job.on THEN "clear" ELSE IF job.reset THEN "create" ELSE "reset"
<1>1. /\ TypeOK /\ Typed /\ JobShape /\ TreeShape /\ SlotShape /\ job.pc = "remove"
      /\ job.port \in Ports /\ Attached(job.hub, job.port)
  BY Typing DEF RemoveOld, Shape, Typed, JobShape
<1>2. /\ port' = port /\ slots' = slots /\ missed' = missed /\ orphan' = orphan
      /\ job' = [job EXCEPT !.pc = x]
  BY DEF RemoveOld, history
<1>3. x \in {"clear", "create", "reset"}
  OBVIOUS
<1> HIDE DEF x
<1>4. /\ job' \in JobType /\ job'.pc = x /\ job'.hub = job.hub /\ job'.port = job.port
  BY <1>1, <1>2, <1>3 DEF Typed, JobType, Steps
<1>5. /\ count' \in CountType /\ count'.plug = count.plug
      /\ dev' \in DevTable /\ urb' \in [Addrs -> {"none", "polling", "failed", "halted"}]
      /\ map' \in [Addrs -> SUBSET Ports] /\ notify' \subseteq Addrs
      /\ TreeShape'
      /\ Attached(job.hub, job.port)'
  <2>1. CASE a = 0
    <3>1. Well /\ UNCHANGED busVars
      BY <2>1 DEF RemoveOld
    <3>2. TreeShape'
      BY <1>1, <3>1, TreeKept DEF TreeShape, busVars
    <3>3. Attached(job.hub, job.port)'
      BY <1>1, <1>4, <3>1 DEF Attached, busVars
    <3> QED
      BY <1>1, <3>1, <3>2, <3>3 DEF Typed, Well, busVars
  <2>2. CASE a # 0
    <3>1. a \in Addrs /\ dev[a].used /\ dev[a].port = job.port /\ Remove(a)
      BY <2>2, Found DEF RemoveOld
    <3> HIDE DEF a
    <3>2. PICK gone \in SUBSET Addrs, stuck \in SUBSET Addrs :
            /\ Drops(gone, stuck) /\ gone \cup stuck \subseteq Children(a) \cup {a}
            /\ a \in gone => Children(a) \subseteq gone
      BY <1>1, <3>1, Removal
    <3>3. count' \in CountType /\ count'.plug = count.plug
      BY <1>1, <3>1, Removal
    <3>4. /\ dev' \in DevTable /\ urb' \in [Addrs -> {"none", "polling", "failed", "halted"}]
          /\ map' \in [Addrs -> SUBSET Ports] /\ notify' \subseteq Addrs
          /\ TreeShape' /\ Spared(gone, stuck)
      BY <1>1, <3>1, <3>2, Dropped
    (* The hub whose port is enumerated stays.                             *)
    <3>5. job.hub \notin gone
      <4> SUFFICES ASSUME job.hub \in gone PROVE FALSE
        OBVIOUS
      <4>0. 0 \notin Addrs
        BY EnumerationAssumption DEF Addrs
      <4>1. job.hub \in Addrs /\ job.hub # 0
        BY <3>2, <4>0
      <4>2. dev[job.hub].hub /\ dev[job.hub].port = Up[job.port]
        BY <1>1, <4>1 DEF Attached
      <4>3. job.hub # a
        BY <1>1, <3>1, <4>2, TwoTiers
      <4>4. job.hub \notin Children(a)
        BY <1>1, <3>1, <4>2, NotOwnChild
      <4> QED
        BY <3>2, <4>3, <4>4
    <3> DEFINE h == job.hub
               p == job.port
    <3>6. Attached(h, p) /\ h \notin gone /\ job'.hub = h /\ job'.port = p
      BY <1>1, <1>4, <3>5
    <3>7. Attached(job.hub, job.port)'
      BY <3>4, <3>6 DEF Attached, Spared
    <3> QED
      BY <3>3, <3>4, <3>7
  <2> QED
    BY <2>1, <2>2
<1>6. JobShape'
  BY <1>1, <1>3, <1>4, <1>5 DEF JobShape
<1>7. SlotShape'
  BY <1>1, <1>2, <1>5, SlotsKept
<1>8. Typed'
  BY <1>1, <1>2, <1>4, <1>5 DEF Typed
<1> QED
  BY <1>5, <1>6, <1>7, <1>8, TypingNext DEF Shape

(* The device that UsbEnumerateNewDev enters into the table                *)
NewDev(h, p) == [NoDev EXCEPT !.used = TRUE, !.port = p, !.parent = h]

(* It gets a free address.                                                 *)
LEMMA Entered ==
  ASSUME Shape, AssignAddress
  PROVE  /\ FreeAddr \in Addrs /\ ~dev[FreeAddr].used
         /\ job.pc = "address" /\ job.port \in Ports /\ job.hub \in {0} \cup Addrs
         /\ dev' = [dev EXCEPT ![FreeAddr] = NewDev(job.hub, job.port)]
         /\ LET e == NewDev(job.hub, job.port) IN
            /\ e \in DevType
            /\ e.used = TRUE /\ e.port = job.port /\ e.parent = job.hub /\ e.config = FALSE
            /\ e.hub = FALSE /\ e.fail = FALSE
<1>1. job.pc = "address" /\ job.port \in Ports /\ FreeAddr # 0 /\ job.hub \in {0} \cup Addrs
  BY Typing DEF AssignAddress, Shape, JobShape, JobType
<1>2. FreeAddr \in Addrs /\ ~dev[FreeAddr].used
  BY <1>1, FreeIs
<1>3. dev' = [dev EXCEPT ![FreeAddr] = NewDev(job.hub, job.port)]
  BY DEF AssignAddress, NewDev
<1>4. ASSUME NEW h \in {0} \cup Addrs, NEW p \in Ports
      PROVE  LET e == NewDev(h, p) IN
             /\ e \in DevType
             /\ e.used = TRUE /\ e.port = p /\ e.parent = h /\ e.config = FALSE
             /\ e.hub = FALSE /\ e.fail = FALSE
  <2> DEFINE e == [[[NoDev EXCEPT !.used = TRUE] EXCEPT !.port = p] EXCEPT !.parent = h]
  <2>1. NewDev(h, p) = e
    BY DEF NewDev
  <2>2. NoDev \in DevType /\ NoDev.config = FALSE /\ NoDev.hub = FALSE /\ NoDev.fail = FALSE
    BY DEF NoDev, DevType
  <2>3. /\ e \in DevType
        /\ e.used = TRUE /\ e.port = p /\ e.parent = h /\ e.config = FALSE
        /\ e.hub = FALSE /\ e.fail = FALSE
    BY <2>2 DEF DevType
  <2> HIDE DEF e
  <2> QED
    BY <2>1, <2>3
<1> QED
  BY <1>1, <1>2, <1>3, <1>4

(* Entering the device into the table                                      *)
LEMMA ShapeAssign == ASSUME Shape, AssignAddress PROVE Shape'
<1> DEFINE a == FreeAddr
           e == NewDev(job.hub, job.port)
<1>1. TypeOK /\ Typed /\ JobShape /\ TreeShape /\ SlotShape
  BY Typing DEF Shape, Typed
<1>2. /\ a \in Addrs /\ ~dev[a].used /\ job.pc = "address" /\ job.port \in Ports
      /\ job.hub \in {0} \cup Addrs
      /\ dev' = [dev EXCEPT ![a] = e] /\ e \in DevType
      /\ e.used = TRUE /\ e.port = job.port /\ e.parent = job.hub /\ e.config = FALSE
      /\ e.hub = FALSE /\ e.fail = FALSE
  BY Entered
<1>3. /\ port' = port /\ urb' = urb /\ map' = map /\ notify' = notify /\ count' = count
      /\ slots' = SetAddress(slots, a)
  BY DEF AssignAddress
<1>4. \/ job' = [job EXCEPT !.pc = "configure", !.child = a] /\ missed' = missed /\ orphan' = orphan
      \/ GiveUp
  BY DEF AssignAddress, history
<1>5. /\ e.used = TRUE /\ e.port = job.port /\ e.parent = job.hub /\ e.config = FALSE
      /\ e.hub = FALSE /\ e.fail = FALSE
  BY <1>2
<1> HIDE DEF e, a
<1>6. dev' \in DevTable /\ dev'[a] = e /\ \A b \in Addrs \ {a} : dev'[b] = dev[b]
  BY <1>1, <1>2 DEF Typed, DevTable
<1>7. \A b \in Addrs : dev[b].hub => b # a
  BY <1>1, <1>2 DEF TreeShape
<1>8. \A h, p : Attached(h, p) => Attached(h, p)'
  BY <1>6, <1>7 DEF Attached
<1>9. TreeShape'
  <2>1. Attached(job.hub, job.port)
    BY <1>1, <1>2 DEF JobShape
  <2>2. ASSUME NEW b \in Addrs, dev'[b].used
        PROVE  dev'[b].port \in Ports /\ Attached(dev[b].parent, dev[b].port)'
    <3>1. CASE b = a
      <4>1. IF job.hub = 0 THEN Up[job.port] = 0
            ELSE job.hub \in Addrs /\ dev'[job.hub].hub /\ dev'[job.hub].port = Up[job.port]
        BY <1>6, <1>7, <2>1 DEF Attached
      <4>2. dev'[b].parent = job.hub /\ dev'[b].port = job.port
        BY <1>5, <1>6, <3>1
      <4> QED
        BY <1>2, <4>1, <4>2 DEF Attached
    <3>2. CASE b # a
      <4>1. dev[b].port \in Ports /\ Attached(dev[b].parent, dev[b].port)
        BY <1>1, <1>6, <2>2, <3>2 DEF TreeShape
      <4> DEFINE h == dev[b].parent
                 p == dev[b].port
      <4>2. dev'[b].parent = h /\ dev'[b].port = p /\ Attached(h, p)
        BY <1>6, <3>2, <4>1
      <4>3. IF h = 0 THEN Up[p] = 0 ELSE h \in Addrs /\ dev'[h].hub /\ dev'[h].port = Up[p]
        BY <1>6, <1>7, <4>2 DEF Attached
      <4> QED
        BY <4>1, <4>2, <4>3 DEF Attached
    <3> QED
      BY <3>1, <3>2
  <2>3. \A b \in Addrs : dev'[b].hub \/ dev'[b].config \/ dev'[b].fail => dev'[b].used
    BY <1>1, <1>5, <1>6 DEF TreeShape
  <2>4. ASSUME NEW b \in Addrs, dev'[b].hub
        PROVE  \E q \in Ports : Up[q] = dev'[b].port
    <3>1. b # a /\ dev'[b] = dev[b]
      BY <1>5, <1>6, <2>4
    <3> QED
      BY <1>1, <2>4, <3>1 DEF TreeShape
  <2>5. \A b \in Addrs : urb'[b] # "none" \/ b \in notify' => dev'[b].hub
    BY <1>1, <1>3, <1>6, <1>7 DEF TreeShape
  <2> QED
    BY <2>2, <2>3, <2>4, <2>5 DEF TreeShape
<1>10. /\ job' \in JobType /\ job'.port = job.port /\ job'.hub = job.hub
       /\ job'.pc = "clear" \/ (job'.pc = "configure" /\ job'.child = a)
       /\ missed' \subseteq Ports /\ orphan' \in BOOLEAN
  <2>1. CASE job' = [job EXCEPT !.pc = "configure", !.child = a] /\ missed' = missed /\ orphan' = orphan
    <3>1. job' = [[job EXCEPT !.pc = "configure"] EXCEPT !.child = a]
      BY <2>1
    <3> QED
      BY <1>1, <1>2, <2>1, <3>1 DEF Typed, JobType, Steps
  <2>2. CASE GiveUp
    BY <1>1, <1>2, <2>2 DEF GiveUp, Typed, JobType, Steps
  <2> QED
    BY <1>4, <2>1, <2>2
<1>11. JobShape'
  <2>1. Attached(job.hub, job.port)'
    <3>1. Attached(job.hub, job.port)
      BY <1>1, <1>2 DEF JobShape
    <3>2. IF job.hub = 0 THEN Up[job.port] = 0
          ELSE job.hub \in Addrs /\ dev'[job.hub].hub /\ dev'[job.hub].port = Up[job.port]
      BY <1>6, <1>7, <3>1 DEF Attached
    <3> QED
      BY <1>10, <3>2 DEF Attached
  <2> QED
    BY <1>2, <1>5, <1>6, <1>10, <2>1 DEF JobShape
<1>12. slots' \in Table /\ SlotShape'
  <2>1. slots \in Table /\ SlotsOk(slots, count.plug)
    BY <1>1 DEF Typed, SlotShape
  <2>2. Same(slots, slots')
    BY <1>2, <1>3, <2>1, Addresses
  <2>3. SlotsOk(slots', count.plug) /\ slots' \in Table
    BY <2>1, <2>2, SameOk DEF Same
  <2> QED
    BY <1>1, <1>3, <2>3 DEF SlotShape
<1>13. Typed'
  BY <1>1, <1>3, <1>6, <1>10, <1>12 DEF Typed
<1> QED
  BY <1>9, <1>11, <1>12, <1>13, TypingNext DEF Shape

(* Connecting the driver: of the device, only what it is changes.          *)
LEMMA Connected ==
  ASSUME Shape, Connect
  PROVE  /\ job.pc = "connect" /\ job.child \in Addrs /\ dev[job.child].used /\ ~dev[job.child].hub
         /\ dev' \in DevTable
         /\ \A b \in Addrs : /\ dev'[b].used = dev[b].used /\ dev'[b].port = dev[b].port
                             /\ dev'[b].parent = dev[b].parent /\ dev'[b].fail = dev[b].fail
                             /\ b # job.child => dev'[b] = dev[b]
                             /\ dev[b].hub => dev'[b].hub
         /\ dev'[job.child].config = TRUE
         /\ \/ urb' = urb /\ dev'[job.child].hub = FALSE
            \/ /\ urb' = [urb EXCEPT ![job.child] = "polling"]
               /\ dev'[job.child].hub = TRUE /\ job.port \in HubPorts
         /\ dev[job.child].port = job.port
         /\ GoOn("clear") \/ GiveUp
         /\ Well \/ Fault("xfer")
<1> DEFINE a == job.child
<1>1. /\ job.pc = "connect" /\ a \in Addrs /\ dev[a].used /\ ~dev[a].hub /\ dev[a].port = job.port
      /\ dev \in DevTable
  BY Typing DEF Connect, Shape, JobShape
<1>2. \/ dev' = [dev EXCEPT ![a].config = TRUE] /\ urb' = urb
      \/ /\ dev' = [[dev EXCEPT ![a].config = TRUE] EXCEPT ![a].hub = TRUE]
         /\ urb' = [urb EXCEPT ![a] = "polling"] /\ job.port \in HubPorts
  BY DEF Connect
<1>3. (GoOn("clear") \/ GiveUp) /\ (Well \/ Fault("xfer"))
  BY DEF Connect, MustOrMayFail
<1> HIDE DEF a
<1>4. CASE dev' = [dev EXCEPT ![a].config = TRUE] /\ urb' = urb
  <2> DEFINE e == [dev[a] EXCEPT !.config = TRUE]
  <2>1. dev[a] \in DevType
    BY <1>1 DEF DevTable
  <2>2. /\ e \in DevType /\ e.used = dev[a].used /\ e.port = dev[a].port /\ e.parent = dev[a].parent
        /\ e.fail = dev[a].fail /\ e.hub = dev[a].hub /\ e.config = TRUE
    BY <2>1 DEF DevType
  <2>3. dev' = [dev EXCEPT ![a] = e]
    BY <1>4
  <2> HIDE DEF e
  <2>4. dev' \in DevTable /\ dev'[a] = e /\ \A b \in Addrs : b # a => dev'[b] = dev[b]
    BY <1>1, <2>2, <2>3 DEF DevTable
  <2>5. dev[a].hub = FALSE
    BY <1>1, <2>1 DEF DevType
  <2> QED
    BY <1>1, <1>3, <1>4, <2>2, <2>4, <2>5 DEF a
<1>5. CASE /\ dev' = [[dev EXCEPT ![a].config = TRUE] EXCEPT ![a].hub = TRUE]
           /\ urb' = [urb EXCEPT ![a] = "polling"] /\ job.port \in HubPorts
  <2> DEFINE e == [[dev[a] EXCEPT !.config = TRUE] EXCEPT !.hub = TRUE]
  <2>1. dev[a] \in DevType
    BY <1>1 DEF DevTable
  <2>2. /\ e \in DevType /\ e.used = dev[a].used /\ e.port = dev[a].port /\ e.parent = dev[a].parent
        /\ e.fail = dev[a].fail /\ e.hub = TRUE /\ e.config = TRUE
    BY <2>1 DEF DevType
  <2>3. dev' = [dev EXCEPT ![a] = e]
    BY <1>1, <1>5 DEF DevTable
  <2> HIDE DEF e
  <2>4. dev' \in DevTable /\ dev'[a] = e /\ \A b \in Addrs : b # a => dev'[b] = dev[b]
    BY <1>1, <2>2, <2>3 DEF DevTable
  <2> QED
    BY <1>1, <1>3, <1>5, <2>2, <2>4 DEF a
<1> QED
  BY <1>2, <1>4, <1>5

(* Connecting its driver                                                   *)
LEMMA ShapeConnect == ASSUME Shape, Connect PROVE Shape'
<1> DEFINE a == job.child
<1>1. TypeOK /\ Typed /\ JobShape /\ TreeShape /\ SlotShape
  BY Typing DEF Shape, Typed
<1>2. /\ job.pc = "connect" /\ a \in Addrs /\ dev[a].used
      /\ dev' \in DevTable
      /\ \A b \in Addrs : /\ dev'[b].used = dev[b].used /\ dev'[b].port = dev[b].port
                          /\ dev'[b].parent = dev[b].parent /\ dev'[b].fail = dev[b].fail
                          /\ b # a => dev'[b] = dev[b]
                          /\ dev[b].hub => dev'[b].hub
      /\ \/ urb' = urb /\ dev'[a].hub = FALSE
         \/ /\ urb' = [urb EXCEPT ![a] = "polling"]
            /\ dev'[a].hub = TRUE /\ job.port \in HubPorts
      /\ dev[a].port = job.port
      /\ GoOn("clear") \/ GiveUp
      /\ Well \/ Fault("xfer")
  BY Connected
<1>3. /\ port' = port /\ slots' = slots /\ map' = map /\ notify' = notify
  BY DEF Connect
<1>4. count' \in CountType /\ count'.plug = count.plug
  BY <1>1, <1>2, Counted DEF Typed
<1> HIDE DEF a
<1>5. urb' \in [Addrs -> {"none", "polling", "failed", "halted"}]
  BY <1>1, <1>2 DEF Typed
<1>6. TreeShape'
  <2>1. ASSUME NEW b \in Addrs, dev'[b].used
        PROVE  dev'[b].port \in Ports /\ Attached(dev[b].parent, dev[b].port)'
    <3> DEFINE h == dev[b].parent
               p == dev[b].port
    <3>1. dev[b].port \in Ports /\ Attached(h, p) /\ dev'[b].parent = h /\ dev'[b].port = p
      BY <1>1, <1>2, <2>1 DEF TreeShape
    <3>2. IF h = 0 THEN Up[p] = 0 ELSE h \in Addrs /\ dev'[h].hub /\ dev'[h].port = Up[p]
      BY <1>2, <3>1 DEF Attached
    <3> QED
      BY <3>1, <3>2 DEF Attached
  <2>2. \A b \in Addrs : dev'[b].hub \/ dev'[b].config \/ dev'[b].fail => dev'[b].used
    BY <1>1, <1>2 DEF TreeShape
  <2>3. ASSUME NEW b \in Addrs, dev'[b].hub
        PROVE  \E q \in Ports : Up[q] = dev'[b].port
    <3>1. CASE b # a
      BY <1>1, <1>2, <2>3, <3>1 DEF TreeShape
    <3>2. CASE b = a
      BY <1>2, <2>3, <3>2 DEF HubPorts, PortsOf
    <3> QED
      BY <3>1, <3>2
  <2>4. \A b \in Addrs : urb'[b] # "none" \/ b \in notify' => dev'[b].hub
    BY <1>1, <1>2, <1>3 DEF TreeShape, Typed
  <2> QED
    BY <2>1, <2>2, <2>3, <2>4 DEF TreeShape
<1>7. /\ job' \in JobType /\ job'.pc = "clear" /\ job'.hub = job.hub /\ job'.port = job.port
      /\ missed' \subseteq Ports /\ orphan' \in BOOLEAN
  <2>1. job.port \in Ports
    BY <1>1, <1>2 DEF JobShape
  <2> QED
    BY <1>1, <1>2, <2>1 DEF GoOn, GiveUp, Typed, JobType, Steps, history
<1>8. JobShape'
  <2>1. job.port \in Ports /\ Attached(job.hub, job.port)
    BY <1>1, <1>2 DEF JobShape
  <2>2. Attached(job.hub, job.port)'
    BY <1>2, <1>7, <2>1 DEF Attached
  <2> QED
    BY <1>7, <2>1, <2>2 DEF JobShape
<1>9. SlotShape'
  BY <1>1, <1>3, <1>4, SlotsKept
<1>10. Typed'
  BY <1>1, <1>2, <1>3, <1>4, <1>5, <1>7 DEF Typed
<1> QED
  BY <1>6, <1>8, <1>9, <1>10, TypingNext DEF Shape

(* What UsbHubEnumeration removes again are no hubs.                       *)
LEMMA Retried ==
  ASSUME Shape, NEW h \in Addrs, HubEvent(h)
  PROVE  /\ dev[h].hub
         /\ \E gone \in SUBSET Retry(h) :
              /\ dev' = [a \in Addrs |-> IF a \in gone THEN NoDev ELSE dev[a]]
              /\ Retry(h) # {} \/ gone = {}
         /\ Well \/ Fault("disconnect")
         /\ \A a \in Retry(h) : ~dev[a].hub /\ a \in Addrs /\ a # h /\ dev[a].fail
<1>1. TreeShape
  BY DEF Shape
<1>2. h \in notify
  BY DEF HubEvent
<1>3. PICK kept \in SUBSET Retry(h) :
        /\ (kept = {} /\ Well) \/ (Cardinality(kept) = 1 /\ Fault("disconnect"))
        /\ dev' = [a \in Addrs |-> IF a \in Retry(h) \ kept THEN NoDev ELSE dev[a]]
  BY DEF HubEvent
<1>4. \A a \in Retry(h) : a \in Children(h) /\ dev[a].fail
  BY DEF Retry
<1>5. dev[h].hub
  BY <1>1, <1>2 DEF TreeShape
<1>6. \A a \in Retry(h) : ~dev[a].hub /\ a \in Addrs /\ a # h
  BY <1>1, <1>4, NotOwnChild
<1>7. Well \/ Fault("disconnect")
  BY <1>3
<1>8. Retry(h) \ kept \in SUBSET Retry(h) /\ (Retry(h) # {} \/ Retry(h) \ kept = {})
  OBVIOUS
<1> QED
  BY <1>3, <1>4, <1>5, <1>6, <1>7, <1>8, Zenon

(* The event of a hub                                                      *)
LEMMA ShapeEvent == ASSUME Shape, NEW h \in Addrs, HubEvent(h) PROVE Shape'
<1>1. TypeOK /\ Typed /\ TreeShape /\ SlotShape
  BY Typing DEF Shape, Typed
<1>2. /\ dev[h].hub /\ (Well \/ Fault("disconnect"))
      /\ \A a \in Retry(h) : ~dev[a].hub /\ a \in Addrs /\ a # h
  BY Retried
<1>3. PICK gone \in SUBSET Retry(h) : dev' = [a \in Addrs |-> IF a \in gone THEN NoDev ELSE dev[a]]
  BY Retried
<1>4. /\ port' = port /\ slots' = slots /\ urb' = urb /\ map' = map /\ missed' = missed
      /\ orphan' = orphan /\ notify' = notify \ {h} /\ job' = NextPort(h, 0)
  BY DEF HubEvent, history
<1>5. count' \in CountType /\ count'.plug = count.plug
  BY <1>1, <1>2, Counted DEF Typed
<1>6. NoDev \in DevType /\ NoDev.used = FALSE /\ NoDev.hub = FALSE /\ NoDev.config = FALSE /\ NoDev.fail = FALSE
  BY DEF NoDev, DevType
<1>7. dev' \in DevTable /\ \A a \in Addrs : dev'[a] = IF a \in gone THEN NoDev ELSE dev[a]
  BY <1>1, <1>3, <1>6 DEF Typed, DevTable
<1>8. \A a \in Addrs : dev[a].hub => a \notin gone /\ dev'[a] = dev[a]
  BY <1>2, <1>7
<1>9. TreeShape'
  <2>1. ASSUME NEW b \in Addrs, dev'[b].used
        PROVE  dev'[b].port \in Ports /\ Attached(dev[b].parent, dev[b].port)'
    <3> DEFINE g == dev[b].parent
               p == dev[b].port
    <3>1. dev'[b] = dev[b]
      BY <1>6, <1>7, <2>1
    <3>2. dev[b].port \in Ports /\ Attached(g, p) /\ dev'[b].parent = g /\ dev'[b].port = p
      BY <1>1, <2>1, <3>1 DEF TreeShape
    <3>3. IF g = 0 THEN Up[p] = 0 ELSE g \in Addrs /\ dev'[g].hub /\ dev'[g].port = Up[p]
      BY <1>8, <3>2 DEF Attached
    <3> QED
      BY <3>2, <3>3 DEF Attached
  <2>2. \A b \in Addrs : dev'[b].hub \/ dev'[b].config \/ dev'[b].fail => dev'[b].used
    BY <1>1, <1>6, <1>7 DEF TreeShape
  <2>3. ASSUME NEW b \in Addrs, dev'[b].hub
        PROVE  \E q \in Ports : Up[q] = dev'[b].port
    <3>1. dev'[b] = dev[b]
      BY <1>6, <1>7, <2>3
    <3> QED
      BY <1>1, <2>3, <3>1 DEF TreeShape
  <2>4. \A b \in Addrs : urb'[b] # "none" \/ b \in notify' => dev'[b].hub
    BY <1>1, <1>4, <1>8 DEF TreeShape
  <2> QED
    BY <2>1, <2>2, <2>3, <2>4 DEF TreeShape
<1>10. job' \in JobType /\ JobShape'
  BY <1>2, <1>4, <1>8, JobAdvances
<1>11. SlotShape'
  BY <1>1, <1>4, <1>5, SlotsKept
<1>12. Typed'
  BY <1>1, <1>4, <1>5, <1>7, <1>10 DEF Typed
<1> QED
  BY <1>9, <1>10, <1>11, <1>12, TypingNext DEF Shape

(* UsbIoPortReset: the slots follow the port, and the device is addressed  *)
(* again.                                                                  *)
LEMMA Again ==
  ASSUME Shape, NEW a \in Addrs, PortReset(a)
  PROVE  LET p == dev[a].port
             pt == ResetHw(port, p) IN
         /\ p \in Ports /\ dev[a].used /\ ~dev[a].hub /\ job.pc = "idle" /\ CanAsk(dev[a].parent)
         /\ pt \in PortTable /\ port' = Cleared(pt, p)
         /\ \A q \in Ports : port'[q].unit = port[q].unit
         /\ count' \in CountType /\ count'.plug = count.plug /\ count'.failed = count.failed
         /\ UNCHANGED <<busVars, job, orphan>>
         /\ \E sl \in Table :
              /\ SlotsOk(sl, count.plug)
              /\ Followed(slots, sl, pt, p, {})
              /\ \A t \in Slots : Live(sl, t) /\ sl[t] # slots[t] => sl[t] = NewEntry(p, pt[p].unit)
              /\ \/ slots' = sl /\ pt[p].unit = 0
                 \/ Like(SetAddress(sl, a), slots')
         /\ missed' \subseteq Ports
<1> DEFINE p  == dev[a].port
           pt == ResetHw(port, p)
           sl == Follow(slots, pt, p, TRUE, {})
           n == count.plug
<1>1. Typed /\ TypeOK /\ TreeShape /\ SlotShape
  BY Typing DEF Shape, Typed
<1>2. p \in Ports /\ dev[a].used /\ ~dev[a].hub /\ job.pc = "idle" /\ Attached(dev[a].parent, p)
      /\ CanAsk(dev[a].parent)
  BY <1>1 DEF PortReset, TreeShape
<1>3. /\ pt \in PortTable /\ \A q \in Ports : pt[q].unit = port[q].unit
  <2>1. port \in PortTable
    BY <1>1 DEF Typed
  <2> HIDE DEF p
  <2>2. ResetHw(port, p) \in PortTable
    BY <1>2, <2>1, PortEffects
  <2>3. \A q \in Ports : ResetHw(port, p)[q].unit = port[q].unit
    BY <1>2, <2>1, PortEffects
  <2> QED
    BY <2>2, <2>3
<1>4. port' = Cleared(pt, p) /\ UNCHANGED <<busVars, job, orphan>>
  BY DEF PortReset
<1>5. count' \in CountType /\ count'.plug = count.plug /\ count'.failed = count.failed
  <2>1. count' = [count EXCEPT !.reset = @ + 1] /\ count.reset < MaxResets /\ count \in CountType
    BY <1>1 DEF PortReset, Typed
  <2> QED
    BY <2>1, EnumerationAssumption DEF CountType
<1>6. \/ slots' = sl /\ port[p].unit = 0
      \/ slots' = SetAddress(sl, a)
      \/ slots' = SetConfig(SetAddress(sl, a), a)
  BY DEF PortReset
<1>7. missed' \subseteq Ports
  BY <1>1, <1>2 DEF PortReset, Typed
<1>8. n \in Nat /\ SlotsOk(slots, n) /\ port[p].unit <= n
  BY <1>1, <1>2, EnumerationAssumption DEF SlotShape, Typed, CountType
<1>9. Up[p] # 0 => HasSlot(slots, Up[p])
  BY <1>2, HubHasSlot
<1> HIDE DEF p, pt, n
<1>10. /\ SlotsOk(sl, n) /\ Followed(slots, sl, pt, p, {})
       /\ \A t \in Slots : Live(sl, t) /\ sl[t] # slots[t] => sl[t] = NewEntry(p, pt[p].unit)
  <2>1. pt[p].unit <= n
    BY <1>2, <1>3, <1>8
  <2> DEFINE ok == TRUE
             bad == {}
             d == sl
  <2>2. d = Follow(slots, pt, p, ok, bad) /\ ok \in BOOLEAN
    OBVIOUS
  <2> HIDE DEF d, bad, ok
  <2>3. /\ SlotsOk(d, n)
        /\ Followed(slots, d, pt, p, bad)
        /\ \A t \in Slots : Live(d, t) /\ d[t] # slots[t] => d[t] = NewEntry(p, IF ok THEN pt[p].unit ELSE 0)
    BY <1>2, <1>3, <1>8, <1>9, <2>1, <2>2, FollowFollows
  <2> QED
    BY <2>3 DEF d, bad, ok
<1> HIDE DEF sl
<1>11. sl \in Table
  BY <1>10 DEF SlotsOk
<1>12. (slots' = sl /\ pt[p].unit = 0) \/ Like(SetAddress(sl, a), slots')
  <2>1. SetAddress(sl, a) \in Table
    BY <1>11, Addresses DEF Same
  <2>2. Like(SetAddress(sl, a), SetConfig(SetAddress(sl, a), a))
    BY <2>1, Configures
  <2>3. Like(SetAddress(sl, a), SetAddress(sl, a))
    BY <2>1 DEF Like, Same
  <2> QED
    BY <1>2, <1>3, <1>6, <2>2, <2>3
<1>13. \A q \in Ports : port'[q].unit = port[q].unit
  <2>1. \A q \in Ports : Cleared(pt, p)[q].unit = pt[q].unit
    BY <1>2, <1>3, PortEffects
  <2> QED
    BY <1>3, <1>4, <2>1
<1> QED
  BY <1>2, <1>3, <1>4, <1>5, <1>7, <1>10, <1>11, <1>12, <1>13 DEF p, pt, n

(* The reset asked for by a driver                                         *)
LEMMA ShapePortReset == ASSUME Shape, NEW a \in Addrs, PortReset(a) PROVE Shape'
<1> DEFINE p  == dev[a].port
           pt == ResetHw(port, p)
<1>1. Typed /\ TypeOK /\ TreeShape /\ SlotShape /\ JobShape
  BY Typing DEF Shape, Typed
<1>2. /\ p \in Ports /\ pt \in PortTable /\ port' = Cleared(pt, p)
      /\ \A q \in Ports : port'[q].unit = port[q].unit
      /\ count' \in CountType /\ count'.plug = count.plug
      /\ UNCHANGED <<busVars, job, orphan>> /\ missed' \subseteq Ports
  BY Again
<1>3. PICK sl \in Table :
        /\ SlotsOk(sl, count.plug)
        /\ slots' = sl \/ Like(SetAddress(sl, a), slots')
  BY Again
<1>4. Same(sl, SetAddress(sl, a))
  BY <1>3, Addresses
<1>5. SlotsOk(SetAddress(sl, a), count.plug)
  BY <1>3, <1>4, SameOk
<1>6. SlotsOk(slots', count.plug)
  BY <1>3, <1>5, SameOk DEF Like
<1>7. slots' \in Table /\ SlotShape'
  BY <1>1, <1>2, <1>6 DEF SlotShape, SlotsOk
<1>8. port' \in PortTable
  BY <1>2, PortEffects
<1>9. TreeShape' /\ JobShape'
  BY <1>1, <1>2, TreeKept, JobKept DEF busVars, TreeShape
<1>10. Typed'
  BY <1>1, <1>2, <1>7, <1>8 DEF Typed, busVars
<1> QED
  BY <1>7, <1>9, <1>10, TypingNext DEF Shape

(* The tree is empty at first, ...                                         *)
LEMMA ShapeInit == Init => Shape
<1> SUFFICES ASSUME Init PROVE Shape
  OBVIOUS
<1>1. 0 \in 0 .. MaxPlugs /\ 0 \in 0 .. MaxUnplugs /\ 0 \in 0 .. MaxResets /\ 0 \notin Addrs
  BY EnumerationAssumption DEF Addrs
<1>2. Typed
  <2>1. NoDev \in DevType /\ Idle \in JobType
    BY DEF NoDev, DevType, Idle, JobType, Steps
  <2>2. count \in CountType
    BY <1>1 DEF Init, CountType
  <2>3. slots \in Table
    BY DEF Init, Table, Entry, Unused
  <2>4. port \in PortTable
    BY DEF Init, PortTable
  <2> QED
    BY <2>1, <2>2, <2>3, <2>4 DEF Init, Typed, DevTable
<1>3. TreeShape
  <2>1. \A a \in Addrs : /\ dev[a].used = FALSE /\ dev[a].hub = FALSE /\ dev[a].config = FALSE
                         /\ dev[a].fail = FALSE /\ urb[a] = "none" /\ a \notin notify
    BY DEF Init, NoDev
  <2> QED
    BY <2>1 DEF TreeShape
<1>4. JobShape
  BY DEF Init, Idle, JobShape
<1>5. SlotShape
  <2>1. \A s \in Slots : ~Live(slots, s)
    BY DEF Init, Live, Unused
  <2>2. \A p \in Ports : port[p].unit <= count.plug
    BY DEF Init
  <2> QED
    BY <1>2, <2>1, <2>2 DEF SlotShape, SlotsOk, Typed
<1> QED
  BY <1>2, <1>3, <1>4, <1>5, Typing DEF Shape, Typed

(* ... and every step keeps it a tree.                                     *)
LEMMA ShapeNext == Shape /\ [Next]_vars => Shape'
<1> SUFFICES ASSUME Shape, [Next]_vars PROVE Shape'
  OBVIOUS
<1>1. CASE World
  BY <1>1, ShapeWorld
<1>2. CASE RootTimer
  BY <1>2, ShapeTimer
<1>3. CASE Enumerate
  BY <1>3, ShapeRetry, ShapeStatus, ShapeRemove, ShapeReset, ShapeWait, ShapeCreate, ShapeAssign,
     ShapeConfigure, ShapeConnect, ShapeClear DEF Enumerate
<1>4. CASE Monitor
  BY <1>4, ShapeMonitor
<1>5. ASSUME NEW a \in Addrs, HubEvent(a) PROVE Shape'
  BY <1>5, ShapeEvent
<1>6. ASSUME NEW a \in Addrs, PortReset(a) PROVE Shape'
  BY <1>6, ShapePortReset
<1>7. CASE UNCHANGED vars
  <2>1. TypeOK /\ Typed /\ TreeShape /\ JobShape /\ SlotShape
    BY Typing DEF Shape, Typed
  <2>2. TreeShape' /\ JobShape' /\ SlotShape'
    BY <1>7, <2>1, TreeKept, JobKept, SlotsKept DEF vars, busVars, history, TreeShape
  <2>3. Typed'
    BY <1>7, <2>1 DEF vars, busVars, history, Typed
  <2> QED
    BY <2>2, <2>3, TypingNext DEF Shape
<1> QED
  BY <1>1, <1>2, <1>3, <1>4, <1>5, <1>6, <1>7 DEF Next

-----------------------------------------------------------------------------
(* The part of the invariant that holds as long as the drivers are in      *)
(* order.                                                                  *)

(* An address leads from the slot to the device at the port of the slot.   *)
Named == \A s \in Slots : Live(slots, s) /\ slots[s].addr # 0 =>
           /\ dev[slots[s].addr].used /\ dev[slots[s].addr].port = slots[s].route
           /\ ~dev[slots[s].addr].fail
(* A slot without an address is that of the device being enumerated.       *)
Anew == \A s \in Slots : Live(slots, s) /\ slots[s].addr = 0 =>
          job.pc \in {"create", "address"} /\ slots[s].route = job.port
(* The end of a reset is read by the enumeration that asked for it.        *)
ResetOnce == \A p \in Ports : port[p].prc => job.pc = "wait" /\ p = job.port
(* That the device of a slot is gone shows at its port, or at its hub's.   *)
NoticedIn(sl, pt) ==
  \A s \in Slots : Live(sl, s) /\ pt[sl[s].route].unit = 0 =>
    \/ pt[sl[s].route].csc
    \/ \E t \in Slots : /\ Live(sl, t) /\ sl[t].route = Up[sl[s].route]
                        /\ sl[t].unit # pt[sl[t].route].unit
(* What could not be removed is a hub that cannot be released, with        *)
(* nothing attached to it.                                                 *)
Fails == \A a \in Addrs : dev[a].fail => dev[a].hub /\ ~CanRelease(a) /\ Children(a) = {}
(* From the change of a port until its new device has its address, no slot *)
(* but the new one is at the port or behind it, and ...                    *)
Early == {"remove", "reset", "wait", "create", "address"}
JobSlots == job.pc \in Early =>
  \A s \in Slots : Live(slots, s) =>
    Up[slots[s].route] # job.port /\ (slots[s].route = job.port => slots[s].addr = 0)
JobHub == job.pc = "address" /\ job.hub # 0 => ~dev[job.hub].fail
(* ... no device of the table, once the old one is removed.                *)
NoFail == \A a \in Addrs : ~dev[a].fail
OnePerPort == NoFail =>
  /\ \A a, b \in Addrs : dev[a].used /\ dev[b].used /\ dev[a].port = dev[b].port => a = b
  /\ job.pc \in Early \ {"remove"} => \A a \in Addrs : dev[a].used => dev[a].port # job.port

InOrder == Named /\ Anew /\ ResetOnce /\ NoticedIn(slots, port) /\ Fails /\ JobSlots /\ JobHub /\ OnePerPort

(* Disorder is for ever.                                                   *)
LEMMA Disorder ==
  ASSUME Shape, [Next]_vars, Orderly'
  PROVE  /\ Orderly
         /\ "disable" \notin count'.failed /\ "disconnect" \notin count'.failed /\ ~orphan'
<1>1. count \in CountType /\ orphan \in BOOLEAN /\ TypeOK /\ TreeShape /\ SlotShape
  BY Typing DEF Shape
<1>2. CASE World
  <2>1. PICK p \in Ports : Plug(p) \/ Unplug(p)
    BY <1>2 DEF World
  <2>2. orphan' = orphan
    BY <2>1 DEF Plug, Unplug, history
  <2>3. count'.failed = count.failed
    BY <1>1, <2>1, PortsWorld
  <2> QED
    BY <2>2, <2>3 DEF Orderly
<1>3. CASE RootTimer \/ UNCHANGED vars
  BY <1>3 DEF RootTimer, vars, history, Orderly
<1>4. CASE Enumerate
  <2>1. orphan => orphan'
    BY <1>1, <1>4 DEF Enumerate, RetryPort, PortStatus, RemoveOld, ResetPort, WaitReset, CreateDevice,
       AssignAddress, Configure, Connect, ClearPortChange, GiveUp, GoOn, history
  <2>2. count.failed \subseteq count'.failed
    <3>1. ASSUME Well \/ \E k \in FaultKinds : Fault(k)
          PROVE  count.failed \subseteq count'.failed
      BY <1>1, <3>1, Counted
    <3>2. ASSUME NEW p, GetPortStatus(p)
          PROVE  Well \/ \E k \in FaultKinds : Fault(k)
      BY <3>2 DEF GetPortStatus, FaultKinds
    <3>3. ASSUME NEW h, StatusFails(h)
          PROVE  Well \/ \E k \in FaultKinds : Fault(k)
      BY <3>3 DEF StatusFails, MustOrMayFail, FaultKinds
    <3>4. ASSUME NEW a, Remove(a)
          PROVE  Well \/ \E k \in FaultKinds : Fault(k)
      BY <3>4 DEF Remove, FaultKinds
    <3>5. CASE RetryPort \/ RemoveOld
      BY <3>1, <3>4, <3>5 DEF RetryPort, RemoveOld
    <3>6. CASE PortStatus \/ ResetPort \/ WaitReset \/ CreateDevice \/ ClearPortChange
      BY <3>1, <3>2, <3>3, <3>6 DEF PortStatus, ResetPort, WaitReset, CreateDevice, ClearPortChange
    <3>7. CASE AssignAddress
      BY <3>7 DEF AssignAddress
    <3>8. CASE Configure \/ Connect
      BY <3>1, <3>8 DEF Configure, Connect, MustOrMayFail, FaultKinds
    <3> QED
      BY <1>4, <3>5, <3>6, <3>7, <3>8 DEF Enumerate
  <2> QED
    BY <2>1, <2>2 DEF Orderly
<1>5. CASE Monitor
  <2>1. orphan' = orphan /\ (Well \/ Fault("interrupt"))
    BY <1>5 DEF Monitor, HubReports, HubFails, HubError, MustOrMayFail, Well, history
  <2>2. count.failed \subseteq count'.failed
    BY <1>1, <2>1, Counted
  <2> QED
    BY <2>1, <2>2 DEF Orderly
<1>6. ASSUME NEW a \in Addrs, HubEvent(a) PROVE Orderly
  <2>1. orphan' = orphan
    BY <1>6 DEF HubEvent, history
  <2>2. count.failed \subseteq count'.failed
    BY <1>1, <1>6, Retried, Counted
  <2> QED
    BY <2>1, <2>2 DEF Orderly
<1>7. ASSUME NEW a \in Addrs, PortReset(a) PROVE Orderly
  <2>1. orphan' = orphan /\ count'.failed = count.failed
    BY <1>7, Again
  <2> QED
    BY <2>1 DEF Orderly
<1>8. Orderly
  BY <1>2, <1>3, <1>4, <1>5, <1>6, <1>7 DEF Next
<1> QED
  BY <1>8 DEF Orderly

(* What shows that a device is gone goes with its slot.                    *)
LEMMA NoticedFollows ==
  ASSUME NEW pt \in PortTable, NEW sl, NEW n, SlotsOk(sl, n), NoticedIn(sl, pt), NEW p \in Ports, NEW d,
         Followed(sl, d, pt, p, {})
  PROVE  NoticedIn(d, Cleared(pt, p))
<1> DEFINE c == Cleared(pt, p)
<1>1. /\ \A q \in Ports : c[q].unit = pt[q].unit
      /\ \A q \in Ports \ {p} : c[q] = pt[q]
  BY PortEffects
<1> HIDE DEF c
<1> SUFFICES ASSUME NEW s \in Slots, Live(d, s), c[d[s].route].unit = 0
             PROVE  \/ c[d[s].route].csc
                    \/ \E t \in Slots : /\ Live(d, t) /\ d[t].route = Up[d[s].route]
                                        /\ d[t].unit # c[d[t].route].unit
  BY DEF NoticedIn, c
(* A new slot is that of a device which is there.                          *)
<1>2. CASE pt[p].unit # 0 /\ d[s].route = p
  BY <1>1, <1>2
<1>3. CASE /\ Live(sl, s) /\ d[s] = sl[s]
           /\ Changed(pt, p) => sl[s].route \notin PortsOf(p) /\ sl[s].route # p
  <2>1. sl[s].route \in Ports /\ pt[sl[s].route].unit = 0
    BY <1>1, <1>3 DEF SlotsOk
  <2>2. CASE pt[sl[s].route].csc
    <3>1. sl[s].route # p
      BY <1>3, <2>2 DEF Changed
    <3> QED
      BY <1>1, <1>3, <2>1, <2>2, <3>1
  <2>3. CASE ~pt[sl[s].route].csc
    <3>1. PICK t \in Slots : /\ Live(sl, t) /\ sl[t].route = Up[sl[s].route]
                             /\ sl[t].unit # pt[sl[t].route].unit
      BY <1>3, <2>1, <2>3 DEF NoticedIn
    <3>2. sl[t].route \in Ports
      BY <3>1 DEF SlotsOk
    <3>3. d[t] = sl[t] /\ Live(d, t)
      <4>1. CASE Changed(pt, p)
        <5>1. sl[t].route # p
          BY <1>3, <2>1, <3>1, <4>1 DEF PortsOf
        <5>2. sl[t].route \notin PortsOf(p)
          BY <2>1, <3>1, <3>2, TwoTiers DEF PortsOf
        <5> QED
          BY <3>1, <5>1, <5>2 DEF Followed
      <4>2. CASE ~Changed(pt, p)
        BY <3>1, <4>2 DEF Followed
      <4> QED
        BY <4>1, <4>2
    <3> QED
      BY <1>1, <1>3, <3>1, <3>2, <3>3
  <2> QED
    BY <2>2, <2>3
<1> QED
  BY <1>2, <1>3 DEF Followed

(* A step that leaves the slots and the table of devices alone.            *)
LEMMA Steady ==
  ASSUME InOrder, slots' = slots, dev' = dev
  PROVE  /\ Named'
         /\ urb' = urb => Fails'
         /\ job' = job => Anew' /\ JobSlots' /\ JobHub' /\ OnePerPort'
  BY DEF InOrder, Named, Fails, CanRelease, Children, Anew, JobSlots, JobHub, OnePerPort, NoFail

(* The next port is not at an early step.                                  *)
LEMMA NextIsNotEarly ==
  ASSUME NEW h, NEW p \in Ports \cup {0}
  PROVE  NextPort(h, p).pc \notin Early
<1>1. CASE NextPort(h, p) = Idle
  BY <1>1 DEF Idle, Early
<1>2. ASSUME NEW q \in Reported(h), NextPort(h, p) = [Idle EXCEPT !.pc = "port", !.hub = h, !.port = q]
      PROVE  NextPort(h, p).pc \notin Early
  <2>1. NextPort(h, p) = [pc |-> "port", hub |-> h, port |-> q, on |-> FALSE, reset |-> FALSE, child |-> 0]
    BY <1>2 DEF Idle
  <2> QED
    BY <2>1 DEF Early
<1> QED
  BY <1>1, <1>2, NextIs

(* An enumeration that is at no early step asks for nothing but what the   *)
(* others do.                                                              *)
LEMMA NotEarly ==
  ASSUME job'.pc \notin Early
  PROVE  /\ JobSlots' /\ JobHub'
         /\ dev' = dev /\ OnePerPort => OnePerPort'
         /\ (\A s \in Slots : Live(slots, s)' => slots'[s].addr # 0) => Anew'
         /\ (\A p \in Ports : ~port'[p].prc) => ResetOnce'
  BY DEF JobSlots, JobHub, Early, OnePerPort, NoFail, Anew, ResetOnce

(* With no enumeration at the step in question, no slot lacks an address   *)
(* and no reset is to be seen.                                             *)
LEMMA NoneNew ==
  ASSUME InOrder
  PROVE  /\ job.pc \notin {"create", "address"} => \A s \in Slots : Live(slots, s) => slots[s].addr # 0
         /\ job.pc # "wait" => \A p \in Ports : ~port[p].prc
  BY DEF InOrder, Anew, ResetOnce

(* Reading the status of the port of the job.                              *)
LEMMA GotInOrder ==
  ASSUME Shape, InOrder, "disable" \notin count'.failed, job.pc # "idle", CanAsk(job.hub),
         GetPortStatus(job.port), dev' = dev, urb' = urb
  PROVE  /\ Followed(slots, slots', port, job.port, {})
         /\ Named' /\ NoticedIn(slots, port)' /\ Fails'
         /\ \A q \in Ports : ~port'[q].prc
<1>1. /\ job.port \in Ports /\ port' = Cleared(port, job.port) /\ slots' \in Table
      /\ TypeOK /\ SlotShape /\ port \in PortTable /\ slots \in Table
  BY JobGot, Typing DEF Shape
<1>2. Followed(slots, slots', port, job.port, {})
  <2>1. PICK bad : /\ Followed(slots, slots', port, job.port, bad)
                   /\ bad # {} => "disable" \in count'.failed
    BY JobGot
  <2>2. bad = {}
    BY <2>1
  <2> QED
    BY <2>1, <2>2
<1>3. Named'
  <2> SUFFICES ASSUME NEW s \in Slots, Live(slots', s), slots'[s].addr # 0
               PROVE  /\ dev[slots'[s].addr].used /\ dev[slots'[s].addr].port = slots'[s].route
                      /\ ~dev[slots'[s].addr].fail
    BY DEF Named, Live
  <2>1. Live(slots, s) /\ slots'[s] = slots[s]
    BY <1>2 DEF Followed
  <2> QED
    BY <2>1 DEF InOrder, Named
<1>4. NoticedIn(slots', port')
  <2> DEFINE d == slots'
  <2>1. SlotsOk(slots, count.plug) /\ NoticedIn(slots, port) /\ Followed(slots, d, port, job.port, {})
    BY <1>1, <1>2 DEF SlotShape, InOrder
  <2> HIDE DEF d
  <2>2. NoticedIn(d, Cleared(port, job.port))
    BY <1>1, <2>1, NoticedFollows
  <2> QED
    BY <1>1, <2>2 DEF d
<1>5. Fails'
  <2>1. \A a \in Addrs : HasEntry(slots', a) => HasEntry(slots, a)
    BY <1>2 DEF Followed
  <2>2. \A a \in Addrs : CanRelease(a)' => CanRelease(a)
    BY <2>1 DEF CanRelease, HasEntry
  <2>3. \A a \in Addrs : Children(a)' = Children(a)
    BY DEF Children
  <2> QED
    BY <2>2, <2>3 DEF InOrder, Fails
<1>6. \A q \in Ports : ~port'[q].prc
  <2>1. /\ \A q \in Ports \ {job.port} : Cleared(port, job.port)[q] = port[q]
        /\ Cleared(port, job.port)[job.port].prc = FALSE
    BY <1>1, PortEffects
  <2>2. \A q \in Ports \ {job.port} : ~port[q].prc
    BY DEF InOrder, ResetOnce
  <2> QED
    BY <1>1, <2>1, <2>2
<1>7. NoticedIn(slots, port)'
  BY <1>4 DEF NoticedIn, Live
<1> QED
  BY <1>2, <1>3, <1>5, <1>6, <1>7

(* Devices come and go: what is gone shows at its port or at its hub.      *)
LEMMA OrderWorld == ASSUME Shape, InOrder, World PROVE InOrder'
<1>1. PICK p \in Ports : Plug(p) \/ Unplug(p)
  BY DEF World
<1>2. slots' = slots /\ dev' = dev /\ urb' = urb /\ job' = job
  BY <1>1 DEF Plug, Unplug, busVars
<1>3. Named' /\ Fails' /\ Anew' /\ JobSlots' /\ JobHub' /\ OnePerPort'
  BY <1>2, Steady
<1>4. /\ port \in PortTable /\ slots \in Table /\ SlotsOk(slots, count.plug) /\ count.plug \in Nat
      /\ \A q \in Ports : port[q].unit \in Int
  BY Typing, EnumerationAssumption DEF Shape, SlotShape, CountType, PortTable, Units
<1>5. \A s \in Slots : Live(slots, s) => slots[s].route \in Ports /\ slots[s].unit <= count.plug
                                         /\ slots[s].unit \in Int
  BY <1>4 DEF SlotsOk, Table, Entry, Units
<1>6. NoticedIn(slots, port) /\ ResetOnce
  BY DEF InOrder
<1>7. NoticedIn(slots, port') /\ ResetOnce'
  <2>1. CASE Plug(p)
    <3> DEFINE e == [[port[p] EXCEPT !.unit = count.plug + 1] EXCEPT !.csc = TRUE]
    <3>1. port' = [port EXCEPT ![p] = e] /\ port[p].unit = 0
      BY <1>4, <2>1 DEF Plug, PortTable
    <3>2. port[p] \in [unit : {0} \cup Units, enable : BOOLEAN, csc : BOOLEAN, prc : BOOLEAN]
      BY <1>4 DEF PortTable
    <3>3. e.unit = count.plug + 1 /\ e.prc = port[p].prc
      BY <3>2
    <3> HIDE DEF e
    <3>4. port'[p] = e /\ \A q \in Ports \ {p} : port'[q] = port[q]
      BY <1>4, <3>1 DEF PortTable
    <3>5. ResetOnce'
      BY <1>2, <1>6, <3>3, <3>4 DEF ResetOnce
    <3>6. ASSUME NEW s \in Slots, Live(slots, s), port'[slots[s].route].unit = 0
          PROVE  \/ port'[slots[s].route].csc
                 \/ \E t \in Slots : /\ Live(slots, t) /\ slots[t].route = Up[slots[s].route]
                                     /\ slots[t].unit # port'[slots[t].route].unit
      <4>1. slots[s].route # p
        BY <1>4, <3>3, <3>4, <3>6
      <4>2. port'[slots[s].route] = port[slots[s].route]
        BY <1>5, <3>4, <3>6, <4>1
      <4>3. CASE ~port[slots[s].route].csc
        <5>1. PICK t \in Slots : /\ Live(slots, t) /\ slots[t].route = Up[slots[s].route]
                                 /\ slots[t].unit # port[slots[t].route].unit
          BY <1>6, <3>6, <4>2, <4>3 DEF NoticedIn
        <5>2. slots[t].unit # port'[slots[t].route].unit
          <6>1. CASE slots[t].route = p
            BY <1>4, <1>5, <3>3, <3>4, <5>1, <6>1
          <6>2. CASE slots[t].route # p
            BY <1>5, <3>4, <5>1, <6>2
          <6> QED
            BY <6>1, <6>2
        <5> QED
          BY <5>1, <5>2
      <4> QED
        BY <4>2, <4>3
    <3> QED
      BY <3>5, <3>6 DEF NoticedIn
  <2>2. CASE Unplug(p)
    <3> DEFINE self == [unit |-> 0, enable |-> FALSE, csc |-> TRUE, prc |-> port[p].prc]
               none == [unit |-> 0, enable |-> FALSE, csc |-> FALSE, prc |-> FALSE]
    <3>1. port' = [q \in Ports |-> CASE q = p -> self [] Up[q] = p -> none [] OTHER -> port[q]]
      BY <2>2 DEF Unplug
    <3>2. self.unit = 0 /\ self.csc /\ self.prc = port[p].prc /\ none.unit = 0 /\ ~none.prc
      OBVIOUS
    <3> HIDE DEF self, none
    <3>3. \A q \in Ports : port'[q] = IF q = p THEN self ELSE IF Up[q] = p THEN none ELSE port[q]
      BY <3>1, TwoTiers
    <3>4. ResetOnce'
      BY <1>2, <1>6, <3>2, <3>3 DEF ResetOnce
    <3>5. ASSUME NEW s \in Slots, Live(slots, s), port'[slots[s].route].unit = 0
          PROVE  \/ port'[slots[s].route].csc
                 \/ \E t \in Slots : /\ Live(slots, t) /\ slots[t].route = Up[slots[s].route]
                                     /\ slots[t].unit # port'[slots[t].route].unit
      <4> DEFINE r == slots[s].route
      <4>1. r \in Ports
        BY <1>5, <3>5
      <4>2. CASE r = p
        BY <3>2, <3>3, <4>1, <4>2
      (* What is attached to p is gone with it.                            *)
      <4>3. CASE Up[r] = p
        <5>1. PICK t \in Slots : Live(slots, t) /\ slots[t].route = p /\ slots[t].unit # 0
          BY <1>4, <3>5, <4>3, TwoTiers DEF SlotsOk, HasSlot
        <5>2. port'[p].unit = 0
          BY <3>2, <3>3
        <5> QED
          BY <4>3, <5>1, <5>2
      <4>4. CASE r # p /\ Up[r] # p
        <5>1. port'[r] = port[r]
          BY <3>3, <4>1, <4>4
        <5>2. CASE ~port[r].csc
          <6>1. PICK t \in Slots : /\ Live(slots, t) /\ slots[t].route = Up[r]
                                   /\ slots[t].unit # port[slots[t].route].unit
            BY <1>6, <3>5, <5>1, <5>2 DEF NoticedIn
          <6>2. slots[t].route \in Ports /\ slots[t].route # p /\ Up[slots[t].route] = 0
            BY <1>5, <4>1, <4>4, <6>1, TwoTiers
          <6>3. port'[slots[t].route] = port[slots[t].route]
            BY <3>3, <6>2, TwoTiers
          <6> QED
            BY <6>1, <6>3
        <5> QED
          BY <5>1, <5>2
      <4> QED
        BY <4>2, <4>3, <4>4
    <3> QED
      BY <3>4, <3>5 DEF NoticedIn
  <2> QED
    BY <1>1, <2>1, <2>2
<1>8. NoticedIn(slots, port)'
  BY <1>2, <1>7 DEF NoticedIn, Live
<1> QED
  BY <1>3, <1>7, <1>8 DEF InOrder

(* The timer of the root hub                                               *)
LEMMA OrderTimer == ASSUME Shape, InOrder, RootTimer PROVE InOrder'
<1>1. /\ slots' = slots /\ dev' = dev /\ urb' = urb /\ port' = port /\ job.pc = "idle"
      /\ job' = NextPort(0, 0)
  BY DEF RootTimer, busVars
<1>2. job'.pc \notin Early
  BY <1>1, NextIsNotEarly
<1>3. /\ \A s \in Slots : Live(slots, s)' => slots'[s].addr # 0
      /\ \A p \in Ports : ~port'[p].prc
  BY <1>1, NoneNew DEF Live
<1>4. Named' /\ Fails'
  BY <1>1, Steady
<1>5. Anew' /\ ResetOnce' /\ JobSlots' /\ JobHub' /\ OnePerPort'
  BY <1>1, <1>2, <1>3, NotEarly DEF InOrder
<1>6. NoticedIn(slots, port)'
  BY <1>1 DEF InOrder, NoticedIn, Live
<1> QED
  BY <1>4, <1>5, <1>6 DEF InOrder

(* A hub that cannot be released has no request that completes.            *)
LEMMA OrderMonitor == ASSUME Shape, InOrder, Monitor PROVE InOrder'
<1>1. PICK a \in Addrs : HubReports(a) \/ HubFails(a) \/ HubError(a)
  BY DEF Monitor
<1>2. slots' = slots /\ dev' = dev /\ port' = port /\ job' = job
  BY <1>1 DEF HubReports, HubFails, HubError
<1>3. Named' /\ Anew' /\ JobSlots' /\ JobHub' /\ OnePerPort'
  BY <1>2, Steady
<1>4. NoticedIn(slots, port)' /\ ResetOnce'
  BY <1>2 DEF InOrder, NoticedIn, Live, ResetOnce
<1>5. Fails'
  <2>1. urb \in [Addrs -> {"none", "polling", "failed", "halted"}]
    BY Typing DEF Shape
  <2>2. \A b \in Addrs : CanRelease(b)' => CanRelease(b)
    <3>1. CASE HubReports(a)
      BY <1>2, <3>1 DEF HubReports, CanRelease
    <3>2. CASE HubFails(a)
      BY <1>2, <2>1, <3>2 DEF HubFails, CanRelease
    <3>3. CASE HubError(a)
      BY <1>2, <2>1, <3>3 DEF HubError, CanRelease
    <3> QED
      BY <1>1, <3>1, <3>2, <3>3
  <2>3. \A b \in Addrs : Children(b)' = Children(b)
    BY <1>2 DEF Children
  <2> QED
    BY <1>2, <2>2, <2>3 DEF InOrder, Fails
<1> QED
  BY <1>3, <1>4, <1>5 DEF InOrder

(* A read of the status when no reset is awaited makes no slot.            *)
LEMMA NothingNew ==
  ASSUME InOrder, Followed(slots, slots', port, job.port, {}), job.port \in Ports,
         job.pc \notin {"wait", "create", "address"}
  PROVE  \A s \in Slots : Live(slots', s) => Live(slots, s) /\ slots'[s] = slots[s] /\ slots'[s].addr # 0
  BY NoneNew DEF Followed

(* A change that is read takes the slots of the port with it.              *)
LEMMA OrderStatus ==
  ASSUME Shape, InOrder, PortStatus, "disable" \notin count'.failed
  PROVE  InOrder'
<1>1. /\ job.pc \notin {"idle", "wait", "create", "address"} /\ job.port \in Ports
      /\ dev' = dev /\ urb' = urb /\ job.pc \notin Early
      /\ TypeOK /\ port \in PortTable
  BY Typing DEF PortStatus, StatusDue, Shape, JobShape, Early
<1>2. CASE /\ CanAsk(job.hub) /\ GetPortStatus(job.port)
           /\ IF Change(job.port)
              THEN /\ job' = [job EXCEPT !.pc = "remove", !.on = port[job.port].unit # 0,
                                        !.reset = port[job.port].prc]
                   /\ map' = map
              ELSE Advance
  <2>1. /\ Followed(slots, slots', port, job.port, {})
        /\ Named' /\ NoticedIn(slots, port)' /\ Fails'
        /\ \A q \in Ports : ~port'[q].prc
    BY <1>1, <1>2, GotInOrder
  <2>2. \A s \in Slots : Live(slots', s) => Live(slots, s) /\ slots'[s] = slots[s] /\ slots'[s].addr # 0
    BY <1>1, <2>1, NothingNew
  <2>3. Anew' /\ ResetOnce'
    BY <2>1, <2>2 DEF Anew, Live, ResetOnce
  <2>4. CASE Change(job.port)
    <3>1. /\ job'.pc = "remove" /\ job'.port = job.port
      <4> DEFINE on == port[job.port].unit # 0
                 reset == port[job.port].prc
      <4>1. job' = [[[job EXCEPT !.pc = "remove"] EXCEPT !.on = on] EXCEPT !.reset = reset]
        BY <1>2, <2>4
      <4>2. job \in JobType
        BY <1>1, Typing
      <4> HIDE DEF on, reset
      <4> QED
        BY <4>1, <4>2 DEF JobType
    (* The slots of the port and of what was behind it are disabled.       *)
    <3>2. \A s \in Slots : Live(slots', s) => slots'[s].route \notin PortsOf(job.port) \cup {job.port}
      <4>1. Changed(port, job.port)
        BY <2>4 DEF Change, Changed
      <4>2. port[job.port].prc = FALSE
        BY <1>1, NoneNew DEF PortTable
      <4> QED
        BY <2>1, <4>1, <4>2 DEF Followed
    <3>3. SlotsOk(slots', count'.plug)
      <4>1. SlotShape'
        BY <1>1, <1>2, JobGot
      <4> QED
        BY <4>1 DEF SlotShape
    <3>4. JobSlots'
      <4>1. \A s \in Slots : Live(slots', s) => slots'[s].route \in Ports
        BY <3>3 DEF SlotsOk
      <4> QED
        BY <3>1, <3>2, <4>1 DEF JobSlots, PortsOf, Live
    <3>5. JobHub' /\ OnePerPort'
      BY <1>1, <3>1 DEF JobHub, InOrder, OnePerPort, NoFail
    <3> QED
      BY <2>1, <2>3, <3>4, <3>5 DEF InOrder
  <2>5. CASE ~Change(job.port)
    <3>1. job'.pc \notin Early
      BY <1>1, <1>2, <2>5, NextIsNotEarly DEF Advance
    <3>2. JobSlots' /\ JobHub' /\ OnePerPort'
      BY <1>1, <3>1, NotEarly DEF InOrder
    <3> QED
      BY <2>1, <2>3, <3>2 DEF InOrder
  <2> QED
    BY <2>4, <2>5
<1>3. CASE StatusFails(job.hub) /\ Advance
  <2>1. port' = port /\ slots' = slots
    BY <1>3, Failing
  <2>2. job'.pc \notin Early
    BY <1>1, <1>3, NextIsNotEarly DEF Advance
  <2>3. Named' /\ Fails'
    BY <1>1, <2>1, Steady
  <2>4. /\ \A s \in Slots : Live(slots, s)' => slots'[s].addr # 0
        /\ \A p \in Ports : ~port'[p].prc
    BY <1>1, <2>1, NoneNew DEF Live
  <2>5. Anew' /\ ResetOnce' /\ JobSlots' /\ JobHub' /\ OnePerPort'
    BY <1>1, <2>2, <2>4, NotEarly DEF InOrder
  <2>6. NoticedIn(slots, port)'
    BY <2>1 DEF InOrder, NoticedIn, Live
  <2> QED
    BY <2>3, <2>5, <2>6 DEF InOrder
<1> QED
  BY <1>2, <1>3 DEF PortStatus

(* The last read makes no slot either.                                     *)
LEMMA OrderClear ==
  ASSUME Shape, InOrder, ClearPortChange, "disable" \notin count'.failed
  PROVE  InOrder'
<1>1. /\ job.pc = "clear" /\ job.port \in Ports /\ dev' = dev /\ urb' = urb
  BY DEF ClearPortChange, Shape, JobShape
<1>2. job'.pc \notin Early
  BY <1>1, NextIsNotEarly DEF ClearPortChange, Advance
<1>3. JobSlots' /\ JobHub' /\ OnePerPort'
  BY <1>1, <1>2, NotEarly DEF InOrder
<1>4. CASE CanAsk(job.hub) /\ GetPortStatus(job.port)
  <2>1. /\ Followed(slots, slots', port, job.port, {})
        /\ Named' /\ NoticedIn(slots, port)' /\ Fails'
        /\ \A q \in Ports : ~port'[q].prc
    BY <1>1, <1>4, GotInOrder
  <2>2. \A s \in Slots : Live(slots', s) => slots'[s].addr # 0
    BY <1>1, <2>1, NothingNew
  <2>3. Anew' /\ ResetOnce'
    BY <2>1, <2>2 DEF Anew, Live, ResetOnce
  <2> QED
    BY <1>3, <2>1, <2>3 DEF InOrder
<1>5. CASE StatusFails(job.hub)
  <2>1. port' = port /\ slots' = slots
    BY <1>5, Failing
  <2>2. Named' /\ Fails'
    BY <1>1, <2>1, Steady
  <2>3. /\ \A s \in Slots : Live(slots, s)' => slots'[s].addr # 0
        /\ \A p \in Ports : ~port'[p].prc
    BY <1>1, <2>1, NoneNew DEF Live
  <2>4. Anew' /\ ResetOnce'
    BY <1>2, <2>3, NotEarly
  <2>5. NoticedIn(slots, port)'
    BY <2>1 DEF InOrder, NoticedIn, Live
  <2> QED
    BY <1>3, <2>2, <2>4, <2>5 DEF InOrder
<1> QED
  BY <1>4, <1>5 DEF ClearPortChange

(* The reset of the port of the job is the only one.                       *)
LEMMA OrderReset == ASSUME Shape, InOrder, ResetPort PROVE InOrder'
<1>1. /\ job.pc = "reset" /\ job.port \in Ports /\ dev' = dev /\ urb' = urb /\ slots' = slots
      /\ TypeOK /\ port \in PortTable /\ job \in JobType /\ SlotShape
  BY Typing, Failing DEF ResetPort, Shape, JobShape, busVars
<1>2. Named' /\ Fails'
  BY <1>1, Steady
<1>3. /\ \A s \in Slots : Live(slots, s)' => slots'[s].addr # 0
      /\ \A p \in Ports : ~port[p].prc
  BY <1>1, NoneNew DEF Live
<1>4. Anew'
  BY <1>3 DEF Anew
<1>5. CASE port' = ResetHw(port, job.port) /\ GoOn("wait")
  <2>1. job'.pc = "wait" /\ job'.port = job.port
    BY <1>1, <1>5 DEF GoOn, JobType
  <2>2. /\ \A q \in Ports : port'[q].unit = port[q].unit
        /\ \A q \in Ports : port[q].csc => port'[q].csc
        /\ \A q \in Ports \ {job.port} : port'[q].prc = port[q].prc
    <3> DEFINE r == ResetHw(port, job.port)
    <3>1. \A q \in Ports : r[q].unit = port[q].unit
      BY <1>1, PortEffects
    <3>2. \A q \in Ports : port[q].csc => r[q].csc
      BY <1>1, PortEffects
    <3>3. \A q \in Ports \ {job.port} : r[q].prc = port[q].prc
      BY <1>1, PortEffects
    <3>4. port' = r
      BY <1>5
    <3> HIDE DEF r
    <3> QED
      BY <3>1, <3>2, <3>3, <3>4
  <2>3. ResetOnce'
    BY <1>3, <2>1, <2>2 DEF ResetOnce
  <2>4. NoticedIn(slots, port)'
    <3>1. \A s \in Slots : Live(slots, s) => slots[s].route \in Ports
      BY <1>1 DEF SlotShape, SlotsOk
    <3> QED
      BY <1>1, <2>2, <3>1 DEF InOrder, NoticedIn, Live
  <2>5. JobSlots'
    BY <1>1, <2>1 DEF InOrder, JobSlots, Early, Live
  <2>6. JobHub' /\ OnePerPort'
    BY <1>1, <2>1 DEF InOrder, JobHub, OnePerPort, NoFail, Early
  <2> QED
    BY <1>2, <1>4, <2>3, <2>4, <2>5, <2>6 DEF InOrder
<1>6. CASE StatusFails(job.hub) /\ GiveUp
  <2>1. job'.pc \notin Early
    BY <1>1, <1>6 DEF GiveUp, JobType, Early
  <2>2. port' = port
    BY <1>6, Failing
  <2>3. ResetOnce' /\ JobSlots' /\ JobHub' /\ OnePerPort'
    BY <1>1, <1>3, <2>1, <2>2, NotEarly DEF InOrder
  <2>4. NoticedIn(slots, port)'
    BY <1>1, <2>2 DEF InOrder, NoticedIn, Live
  <2> QED
    BY <1>2, <1>4, <2>3, <2>4 DEF InOrder
<1> QED
  BY <1>5, <1>6 DEF ResetPort

(* The slots of an early step, after the status was read.                  *)
LEMMA GotEarly ==
  ASSUME InOrder, job.pc \in Early, job.port \in Ports, job'.port = job.port,
         Followed(slots, slots', port, job.port, {})
  PROVE  JobSlots'
<1>1. \A s \in Slots : Live(slots, s) =>
        Up[slots[s].route] # job.port /\ (slots[s].route = job.port => slots[s].addr = 0)
  BY DEF InOrder, JobSlots
<1>2. \A s \in Slots : Live(slots', s) =>
        Up[slots'[s].route] # job.port /\ (slots'[s].route = job.port => slots'[s].addr = 0)
  BY <1>1, TwoTiers DEF Followed
<1> QED
  BY <1>2 DEF JobSlots, Live

(* The end of the reset makes the slot.                                    *)
LEMMA OrderWait ==
  ASSUME Shape, InOrder, WaitReset, "disable" \notin count'.failed, ~orphan'
  PROVE  InOrder'
<1>1. /\ job.pc = "wait" /\ job.port \in Ports /\ dev' = dev /\ urb' = urb /\ job \in JobType
  BY Typing DEF WaitReset, Shape, JobShape, busVars
<1>2. ~GiveUp
  BY <1>1 DEF GiveUp
<1>3. /\ CanAsk(job.hub) /\ GetPortStatus(job.port)
      /\ GoOn("create") \/ (GoOn("wait") /\ ~port[job.port].prc)
  BY <1>2 DEF WaitReset
<1>4. /\ Followed(slots, slots', port, job.port, {})
      /\ Named' /\ NoticedIn(slots, port)' /\ Fails'
      /\ \A q \in Ports : ~port'[q].prc
  BY <1>1, <1>3, GotInOrder
<1>5. /\ job'.port = job.port /\ job'.pc \in {"create", "wait"}
      /\ port[job.port].prc => job'.pc = "create"
  BY <1>1, <1>3 DEF GoOn, JobType
<1>6. Anew'
  <2>1. \A s \in Slots : Live(slots, s) => slots[s].addr # 0
    BY <1>1, NoneNew
  <2>2. \A s \in Slots : Live(slots', s) /\ slots'[s].addr = 0 => port[job.port].prc /\ slots'[s].route = job.port
    BY <1>4, <2>1 DEF Followed
  <2> QED
    BY <1>5, <2>2 DEF Anew, Live
<1>7. JobSlots'
  BY <1>1, <1>4, <1>5, GotEarly DEF Early
<1>8. JobHub' /\ ResetOnce' /\ OnePerPort'
  BY <1>1, <1>4, <1>5 DEF InOrder, JobHub, ResetOnce, OnePerPort, NoFail, Early
<1> QED
  BY <1>4, <1>6, <1>7, <1>8 DEF InOrder

(* If the device is gone by now, so is its slot.                           *)
LEMMA OrderCreate ==
  ASSUME Shape, InOrder, CreateDevice, "disable" \notin count'.failed, ~orphan'
  PROVE  InOrder'
<1>1. /\ job.pc = "create" /\ job.port \in Ports /\ dev' = dev /\ urb' = urb /\ job \in JobType
      /\ Attached(job.hub, job.port) /\ port \in PortTable /\ SlotShape /\ job.hub \in {0} \cup Addrs
  BY Typing DEF CreateDevice, Shape, JobShape, busVars, JobType
<1>2. ~GiveUp
  BY <1>1 DEF GiveUp
<1>3. /\ CanAsk(job.hub) /\ GetPortStatus(job.port)
      /\ (GoOn("clear") /\ port[job.port].unit = 0) \/ GoOn("address")
  BY <1>2 DEF CreateDevice
<1>4. /\ Followed(slots, slots', port, job.port, {})
      /\ Named' /\ NoticedIn(slots, port)' /\ Fails'
      /\ \A q \in Ports : ~port'[q].prc
  BY <1>1, <1>3, GotInOrder
<1>5. \A s \in Slots : Live(slots', s) => Live(slots, s) /\ slots'[s] = slots[s]
  BY <1>1, <1>4, NoneNew DEF Followed
<1>6. ResetOnce'
  BY <1>4 DEF ResetOnce
<1>7. CASE GoOn("clear") /\ port[job.port].unit = 0
  <2>1. job'.pc \notin Early
    BY <1>1, <1>7 DEF GoOn, JobType, Early
  <2>2. ASSUME NEW s \in Slots, Live(slots', s), slots'[s].addr = 0
        PROVE  FALSE
    <3>1. Live(slots, s) /\ slots[s].route = job.port
      BY <1>5, <2>2 DEF InOrder, Anew
    <3>2. ~Changed(port, job.port)
      BY <1>1, <1>4, <1>5, <2>2, <3>1, NoneNew DEF Followed
    <3>3. PICK t \in Slots : /\ Live(slots, t) /\ slots[t].route = Up[job.port]
                             /\ slots[t].unit # port[slots[t].route].unit
      BY <1>7, <3>1, <3>2 DEF InOrder, NoticedIn, Changed
    <3>4. slots[t].route \in Ports
      BY <1>1, <3>3 DEF SlotShape, SlotsOk
    <3>5. job.hub # 0 /\ dev[job.hub].port = Up[job.port]
      BY <1>1, <3>3, <3>4, TwoTiers DEF Attached
    <3>6. PICK r \in Slots : /\ Live(slots, r) /\ slots[r].route = dev[job.hub].port
                             /\ port[slots[r].route].unit = slots[r].unit
      BY <1>3, <3>5, Asked
    <3>7. r = t
      BY <1>1, <3>3, <3>5, <3>6 DEF SlotShape, SlotsOk
    <3> QED
      BY <3>3, <3>6, <3>7
  <2>3. Anew'
    BY <2>2 DEF Anew, Live
  <2>4. JobSlots' /\ JobHub' /\ OnePerPort'
    BY <1>1, <2>1, NotEarly DEF InOrder
  <2> QED
    BY <1>4, <1>6, <2>3, <2>4 DEF InOrder
<1>8. CASE GoOn("address")
  <2>1. job'.pc = "address" /\ job'.port = job.port /\ job'.hub = job.hub
    BY <1>1, <1>8 DEF GoOn, JobType
  <2>2. Anew'
    BY <1>5, <2>1 DEF InOrder, Anew, Live
  <2>3. JobSlots'
    BY <1>1, <1>4, <2>1, GotEarly DEF Early
  <2>4. JobHub'
    <3>1. job.hub # 0 => ~dev[job.hub].fail
      BY <1>1, <1>3, Asked DEF InOrder, Named
    <3> QED
      BY <1>1, <2>1, <3>1 DEF JobHub
  <2>5. OnePerPort'
    BY <1>1, <2>1 DEF InOrder, OnePerPort, NoFail, Early
  <2> QED
    BY <1>4, <1>6, <2>2, <2>3, <2>4, <2>5 DEF InOrder
<1> QED
  BY <1>3, <1>7, <1>8

(* Configuring moves no slot.                                              *)
LEMMA OrderConfigure == ASSUME Shape, InOrder, Configure PROVE InOrder'
<1>1. /\ job.pc = "configure" /\ dev' = dev /\ urb' = urb /\ port' = port /\ job \in JobType
      /\ slots \in Table
  BY Typing DEF Configure, Shape, busVars
<1>2. \/ slots' = slots \/ slots' = SawDescriptors(slots, job.child)
      \/ slots' = SetConfig(SawDescriptors(slots, job.child), job.child)
  BY DEF Configure
<1>3. /\ \A t \in Slots : /\ Live(slots', t) <=> Live(slots, t)
                          /\ slots'[t].route = slots[t].route /\ slots'[t].unit = slots[t].unit
                          /\ slots'[t].addr = slots[t].addr
  <2>1. Like(slots, SawDescriptors(slots, job.child))
    BY <1>1, Saw
  <2>2. Like(SawDescriptors(slots, job.child), SetConfig(SawDescriptors(slots, job.child), job.child))
    BY <2>1, Configures DEF Like, Same
  <2>3. CASE slots' = slots
    BY <2>3
  <2>4. CASE slots' = SawDescriptors(slots, job.child)
    BY <2>1, <2>4 DEF Like, Same
  <2>5. CASE slots' = SetConfig(SawDescriptors(slots, job.child), job.child)
    <3> DEFINE b == SawDescriptors(slots, job.child)
               d == SetConfig(SawDescriptors(slots, job.child), job.child)
    <3>1. Like(slots, b) /\ Like(b, d) /\ slots' = d
      BY <2>1, <2>2, <2>5
    <3> HIDE DEF b, d
    <3> QED
      BY <3>1 DEF Like, Same
  <2> QED
    BY <1>2, <2>3, <2>4, <2>5
<1>4. job'.pc \notin Early
  BY <1>1 DEF Configure, GoOn, GiveUp, JobType, Early
<1>5. /\ \A s \in Slots : Live(slots, s)' => slots'[s].addr # 0
      /\ \A p \in Ports : ~port'[p].prc
  BY <1>1, <1>3, NoneNew DEF Live
<1>6. Anew' /\ ResetOnce' /\ JobSlots' /\ JobHub' /\ OnePerPort'
  BY <1>1, <1>4, <1>5, NotEarly DEF InOrder
<1>7. Named'
  BY <1>1, <1>3 DEF InOrder, Named, Live
<1>8. NoticedIn(slots, port)'
  BY <1>1, <1>3 DEF InOrder, NoticedIn, Live
<1>9. Fails'
  <2>1. \A a \in Addrs : CanRelease(a)' => CanRelease(a)
    BY <1>1, <1>3 DEF CanRelease, HasEntry
  <2>2. \A a \in Addrs : Children(a)' = Children(a)
    BY <1>1 DEF Children
  <2> QED
    BY <1>1, <2>1, <2>2 DEF InOrder, Fails
<1> QED
  BY <1>6, <1>7, <1>8, <1>9 DEF InOrder

(* What a removal leaves is in order, if no slot is that of what goes.     *)
LEMMA DroppedInOrder ==
  ASSUME Shape, InOrder, NEW a \in Addrs, dev[a].used,
         NEW gone \in SUBSET Addrs, NEW stuck \in SUBSET Addrs, Drops(gone, stuck), Spared(gone, stuck),
         gone \cap stuck = {}, gone \subseteq Children(a) \cup {a},
         Children(a) \subseteq gone, stuck \subseteq {a},
         a \in IF dev[a].hub /\ ~CanRelease(a) THEN stuck ELSE gone,
         slots' = slots,
         \A s \in Slots : Live(slots, s) => slots[s].addr \notin gone \cup stuck
  PROVE  /\ Named' /\ Fails'
         /\ NoFail' => /\ NoFail /\ a \in gone
                       /\ \A b \in Addrs : dev'[b].used => b \notin gone /\ dev[b].used /\ dev'[b].port = dev[b].port
<1>1. TypeOK /\ TreeShape /\ dev \in DevTable /\ slots \in Table
  BY Typing DEF Shape
<1>2. NoDev.used = FALSE /\ NoDev.fail = FALSE
  BY DEF NoDev
<1>3. /\ \A c \in gone : dev'[c].used = FALSE /\ dev'[c].fail = FALSE
      /\ \A c \in Addrs \ gone :
           /\ dev'[c].used = dev[c].used /\ dev'[c].port = dev[c].port
           /\ dev'[c].parent = dev[c].parent /\ dev'[c].hub = dev[c].hub
           /\ dev'[c].fail = IF c \in stuck THEN TRUE ELSE dev[c].fail
  BY <1>2 DEF Spared
<1>4. Named'
  <2>1. \A s \in Slots : slots[s].addr \in {0} \cup Addrs
    BY <1>1 DEF Table, Entry
  <2> QED
    BY <1>3, <2>1 DEF InOrder, Named, Live
<1>5. ASSUME NEW f \in Addrs, dev'[f].fail
      PROVE  dev'[f].hub /\ ~CanRelease(f)' /\ Children(f)' = {}
  <2>1. f \notin gone
    BY <1>3, <1>5
  <2>2. urb'[f] = urb[f]
    BY <2>1 DEF Drops
  <2>3. Children(f)' \subseteq Children(f) \ gone
    BY <1>3 DEF Children
  <2>4. CASE f \in stuck
    <3>1. f = a /\ dev[a].hub /\ ~CanRelease(a)
      BY <2>1, <2>4
    <3> QED
      BY <1>3, <2>1, <2>2, <2>3, <3>1 DEF CanRelease
  <2>5. CASE f \notin stuck
    <3>1. dev[f].hub /\ ~CanRelease(f) /\ Children(f) = {}
      BY <1>3, <1>5, <2>1, <2>5 DEF InOrder, Fails
    <3> QED
      BY <1>3, <2>1, <2>2, <2>3, <3>1 DEF CanRelease
  <2> QED
    BY <2>4, <2>5
<1>6. ASSUME NoFail'
      PROVE  NoFail /\ a \in gone
  <2>1. stuck = {}
    BY <1>3, <1>6 DEF NoFail
  <2>2. a \in gone /\ ~(dev[a].hub /\ ~CanRelease(a))
    BY <2>1
  <2>3. ASSUME NEW c \in Addrs, dev[c].fail PROVE FALSE
    <3>1. dev[c].hub /\ ~CanRelease(c)
      BY <2>3 DEF InOrder, Fails
    <3>2. c # a
      BY <2>2, <3>1
    <3>3. c \notin Children(a)
      BY <1>1, <3>1, NotOwnChild
    <3>4. c \notin gone
      BY <3>2, <3>3
    <3> QED
      BY <1>3, <1>6, <2>3, <3>4 DEF NoFail
  <2> QED
    BY <2>2, <2>3 DEF NoFail
<1>7. \A b \in Addrs : dev'[b].used => b \notin gone /\ dev[b].used /\ dev'[b].port = dev[b].port
  BY <1>3
<1> QED
  BY <1>4, <1>5, <1>6, <1>7 DEF Fails

(* What UsbRemoveDevice does as long as each driver can be disconnected    *)
LEMMA RemovedInOrder ==
  ASSUME Shape, NEW a \in Addrs, dev[a].used, Remove(a), "disconnect" \notin count'.failed
  PROVE  \E gone \in SUBSET Addrs, stuck \in SUBSET Addrs :
           /\ Drops(gone, stuck) /\ Spared(gone, stuck)
           /\ gone \cap stuck = {} /\ gone \subseteq Children(a) \cup {a}
           /\ Children(a) \subseteq gone /\ stuck \subseteq {a}
           /\ a \in IF dev[a].hub /\ ~CanRelease(a) THEN stuck ELSE gone
<1>1. TypeOK /\ TreeShape
  BY DEF Shape
<1>2. PICK gone \in SUBSET Addrs, stuck \in SUBSET Addrs :
              /\ Drops(gone, stuck)
              /\ gone \cap stuck = {} /\ gone \cup stuck \subseteq Children(a) \cup {a}
              /\ a \in gone => Children(a) \subseteq gone
              /\ \/ "disconnect" \in count'.failed
                 \/ /\ Children(a) \subseteq gone /\ stuck \subseteq {a}
                    /\ a \in IF dev[a].hub /\ ~CanRelease(a) THEN stuck ELSE gone
  BY <1>1, Removal
<1>3. Spared(gone, stuck)
  BY <1>1, <1>2, Dropped
<1> QED
  BY <1>2, <1>3

(* A hub that cannot be released is tried again, and again in vain.        *)
LEMMA OrderRetry ==
  ASSUME Shape, InOrder, RetryPort, "disconnect" \notin count'.failed
  PROVE  InOrder'
<1> DEFINE a == FindChild(0, job.port)
<1>1. a \in Addrs /\ dev[a].used /\ dev[a].fail /\ Remove(a)
  BY Found DEF RetryPort, RetryDue
<1>2. /\ port' = port /\ slots' = slots /\ job.pc = "port" /\ job' = [job EXCEPT !.pc = "status"]
      /\ job \in JobType
  BY Typing DEF RetryPort, RetryDue, Shape
<1> HIDE DEF a
<1>3. PICK gone \in SUBSET Addrs, stuck \in SUBSET Addrs :
           /\ Drops(gone, stuck) /\ Spared(gone, stuck)
           /\ gone \cap stuck = {} /\ gone \subseteq Children(a) \cup {a}
           /\ Children(a) \subseteq gone /\ stuck \subseteq {a}
           /\ a \in IF dev[a].hub /\ ~CanRelease(a) THEN stuck ELSE gone
  BY <1>1, RemovedInOrder
<1>4. dev[a].hub /\ ~CanRelease(a) /\ Children(a) = {}
  BY <1>1 DEF InOrder, Fails
<1>5. gone \cup stuck = {a}
  BY <1>3, <1>4
<1>6. \A s \in Slots : Live(slots, s) => slots[s].addr \notin gone \cup stuck
  <2>1. a # 0
    BY EnumerationAssumption, <1>1 DEF Addrs
  <2> QED
    BY <1>1, <1>5, <2>1 DEF InOrder, Named
<1>7. Named' /\ Fails'
  BY <1>1, <1>2, <1>3, <1>6, DroppedInOrder
<1>8. OnePerPort'
  <2>1. ASSUME NoFail'
        PROVE  NoFail
    BY <1>1, <1>2, <1>3, <1>6, <2>1, DroppedInOrder
  <2>2. ~NoFail
    BY <1>1 DEF NoFail
  <2> QED
    BY <2>1, <2>2 DEF OnePerPort
<1>9. job'.pc \notin Early
  BY <1>2 DEF JobType, Early
<1>10. /\ \A s \in Slots : Live(slots, s)' => slots'[s].addr # 0
       /\ \A p \in Ports : ~port'[p].prc
  BY <1>2, NoneNew DEF Live
<1>11. Anew' /\ ResetOnce' /\ JobSlots' /\ JobHub'
  BY <1>9, <1>10, NotEarly
<1>12. NoticedIn(slots, port)'
  BY <1>2 DEF InOrder, NoticedIn, Live
<1> QED
  BY <1>7, <1>8, <1>11, <1>12 DEF InOrder

(* A device at the port of the job is attached to the hub of the job.      *)
LEMMA ParentIs ==
  ASSUME Shape, InOrder, NoFail, job.pc # "idle", NEW b \in Addrs, dev[b].used, dev[b].port = job.port
  PROVE  dev[b].parent = job.hub
<1>1. TreeShape /\ Attached(job.hub, job.port) /\ Attached(dev[b].parent, job.port)
  BY DEF Shape, JobShape, TreeShape
<1>2. \A h \in Addrs : dev[h].hub => dev[h].used /\ dev[h].port \in Ports /\ dev[h].port # 0
  BY <1>1, TwoTiers DEF TreeShape
<1>3. CASE job.hub = 0 \/ dev[b].parent = 0
  BY <1>1, <1>2, <1>3 DEF Attached
<1>4. CASE job.hub # 0 /\ dev[b].parent # 0
  BY <1>1, <1>2, <1>4 DEF Attached, InOrder, OnePerPort
<1> QED
  BY <1>3, <1>4

(* The old device goes after its slot.                                     *)
LEMMA OrderRemove ==
  ASSUME Shape, InOrder, RemoveOld, "disconnect" \notin count'.failed
  PROVE  InOrder'
<1> DEFINE a == FindChild(job.hub, job.port)
           x == IF ~job.on THEN "clear" ELSE IF job.reset THEN "create" ELSE "reset"
<1>1. /\ TypeOK /\ TreeShape /\ job.pc = "remove" /\ job \in JobType /\ job.port \in Ports
      /\ slots \in Table
  BY Typing DEF RemoveOld, Shape, JobShape
<1>2. /\ port' = port /\ slots' = slots /\ job' = [job EXCEPT !.pc = x]
  BY DEF RemoveOld
<1>3. x \in {"clear", "create", "reset"}
  OBVIOUS
<1> HIDE DEF x
<1>4. /\ job'.pc \in {"clear", "create", "reset"} /\ job'.port = job.port
  BY <1>1, <1>2, <1>3 DEF JobType
<1>5. /\ \A s \in Slots : Live(slots, s) => slots[s].addr # 0
      /\ \A p \in Ports : ~port[p].prc
  BY <1>1, NoneNew
<1>6. Anew' /\ ResetOnce'
  BY <1>2, <1>5 DEF Anew, ResetOnce, Live
<1>7. JobSlots' /\ JobHub'
  BY <1>1, <1>2, <1>4 DEF InOrder, JobSlots, JobHub, Early, Live
<1>8. NoticedIn(slots, port)'
  BY <1>2 DEF InOrder, NoticedIn, Live
<1>9. Named' /\ Fails' /\ OnePerPort'
  <2>1. CASE a = 0
    <3>1. dev' = dev /\ urb' = urb
      BY <2>1 DEF RemoveOld, busVars
    <3>2. \A b \in Addrs : ~(dev[b].used /\ dev[b].parent = job.hub /\ dev[b].port = job.port)
      BY <2>1, Found
    <3>3. NoFail => \A b \in Addrs : dev[b].used => dev[b].port # job.port
      BY <1>1, <3>2, ParentIs
    <3>4. OnePerPort'
      BY <1>4, <3>1, <3>3 DEF InOrder, OnePerPort, NoFail
    <3> QED
      BY <1>2, <3>1, <3>4, Steady
  <2>2. CASE a # 0
    <3>1. a \in Addrs /\ dev[a].used /\ dev[a].port = job.port /\ Remove(a)
      BY <2>2, Found DEF RemoveOld
    <3> HIDE DEF a
    <3>2. PICK gone \in SUBSET Addrs, stuck \in SUBSET Addrs :
           /\ Drops(gone, stuck) /\ Spared(gone, stuck)
           /\ gone \cap stuck = {} /\ gone \subseteq Children(a) \cup {a}
           /\ Children(a) \subseteq gone /\ stuck \subseteq {a}
           /\ a \in IF dev[a].hub /\ ~CanRelease(a) THEN stuck ELSE gone
      BY <3>1, RemovedInOrder
    (* No slot is at the port or behind it.                                *)
    <3>3. ASSUME NEW s \in Slots, Live(slots, s), slots[s].addr \in gone \cup stuck
          PROVE  FALSE
      <4>1. /\ Up[slots[s].route] # job.port /\ slots[s].route # job.port
        BY <1>1, <1>5, <3>3 DEF InOrder, JobSlots, Early
      <4>2. dev[slots[s].addr].port = slots[s].route
        BY <1>5, <3>3 DEF InOrder, Named
      <4>3. slots[s].addr \in Children(a) \cup {a}
        BY <3>2, <3>3
      <4> QED
        BY <1>1, <3>1, <4>1, <4>2, <4>3, NotOwnChild
    <3>4. Named' /\ Fails'
      BY <1>2, <3>1, <3>2, <3>3, DroppedInOrder
    <3>5. ASSUME NoFail'
          PROVE  /\ NoFail /\ a \in gone
                 /\ \A b \in Addrs : dev'[b].used => b \notin gone /\ dev[b].used /\ dev'[b].port = dev[b].port
      BY <1>2, <3>1, <3>2, <3>3, <3>5, DroppedInOrder
    <3>6. ASSUME NoFail'
          PROVE  /\ \A b, c \in Addrs : dev'[b].used /\ dev'[c].used /\ dev'[b].port = dev'[c].port => b = c
                 /\ \A b \in Addrs : dev'[b].used => dev'[b].port # job.port
      <4>1. \A b, c \in Addrs : dev[b].used /\ dev[c].used /\ dev[b].port = dev[c].port => b = c
        BY <3>5, <3>6 DEF InOrder, OnePerPort
      <4> QED
        BY <3>1, <3>5, <3>6, <4>1
    <3>7. OnePerPort'
      BY <1>4, <3>6 DEF OnePerPort
    <3> QED
      BY <3>4, <3>7
  <2> QED
    BY <2>1, <2>2
<1> QED
  BY <1>6, <1>7, <1>8, <1>9 DEF InOrder

(* Set_Address goes to the slot of the device that is enumerated, and      *)
(* leaves no slot without an address.                                      *)
LEMMA OrderAssign ==
  ASSUME Shape, InOrder, AssignAddress, ~orphan'
  PROVE  InOrder'
<1> DEFINE a == FreeAddr
           e == NewDev(job.hub, job.port)
           S == SetAddressSlot(slots)
<1>1. /\ a \in Addrs /\ ~dev[a].used /\ job.pc = "address" /\ job.port \in Ports
      /\ job.hub \in {0} \cup Addrs
      /\ dev' = [dev EXCEPT ![a] = e] /\ e \in DevType
      /\ e.used = TRUE /\ e.port = job.port /\ e.parent = job.hub /\ e.config = FALSE
      /\ e.hub = FALSE /\ e.fail = FALSE
  BY Entered
<1>2. /\ TreeShape /\ SlotShape /\ dev \in DevTable /\ slots \in Table /\ job \in JobType
  BY Typing DEF Shape
<1>3. /\ port' = port /\ urb' = urb /\ slots' = SetAddress(slots, a)
  BY DEF AssignAddress
<1>4. SetAddressOk(slots) /\ job' = [job EXCEPT !.pc = "configure", !.child = a]
  <2>1. ~GiveUp
    BY <1>1 DEF GiveUp
  <2> QED
    BY <2>1 DEF AssignAddress
<1>5. S \in Slots /\ Live(slots, S) /\ slots[S].addr = 0
  <2>1. S # 0
    BY <1>4 DEF SetAddressOk
  <2> QED
    BY <2>1, ByAddress DEF SetAddressSlot
<1> HIDE DEF e, a
<1>6. /\ Same(slots, slots')
      /\ \A t \in Slots : Live(slots, t) => slots'[t].addr = IF t = S THEN a ELSE slots[t].addr
      /\ \A b \in Addrs \ {a} : HasEntry(slots', b) => HasEntry(slots, b)
  BY <1>1, <1>2, <1>3, <1>4, Addresses
<1> HIDE DEF S
<1>7. dev'[a] = e /\ \A b \in Addrs \ {a} : dev'[b] = dev[b]
  BY <1>1, <1>2 DEF DevTable
<1>8. \A t \in Slots : /\ Live(slots', t) <=> Live(slots, t)
                       /\ slots'[t].route = slots[t].route /\ slots'[t].unit = slots[t].unit
  BY <1>6 DEF Same
<1>9. 0 \notin Addrs
  BY EnumerationAssumption DEF Addrs
<1>10. slots[S].route = job.port
  BY <1>5 DEF InOrder, Anew
(* No other slot has no address.                                           *)
<1>11. \A t \in Slots : Live(slots', t) => slots'[t].addr # 0
  <2> SUFFICES ASSUME NEW t \in Slots, Live(slots, t), slots'[t].addr = 0
               PROVE  FALSE
    BY <1>8
  <2>1. t # S /\ slots[t].addr = 0
    BY <1>1, <1>6, <1>9
  <2>2. slots[t].route = job.port
    BY <2>1 DEF InOrder, Anew
  <2> QED
    BY <1>2, <1>5, <1>10, <2>1, <2>2 DEF SlotShape, SlotsOk
<1>12. Named'
  <2> SUFFICES ASSUME NEW t \in Slots, Live(slots', t), slots'[t].addr # 0
               PROVE  /\ dev'[slots'[t].addr].used /\ dev'[slots'[t].addr].port = slots'[t].route
                      /\ ~dev'[slots'[t].addr].fail
    BY DEF Named, Live
  <2>1. CASE t = S
    BY <1>1, <1>5, <1>6, <1>7, <1>8, <1>10, <2>1
  <2>2. CASE t # S
    <3> DEFINE b == slots[t].addr
    <3>1. Live(slots, t) /\ slots'[t].addr = b /\ b # 0 /\ b \in {0} \cup Addrs
      BY <1>2, <1>6, <1>8, <2>2 DEF Table, Entry
    <3>2. dev[b].used /\ dev[b].port = slots[t].route /\ ~dev[b].fail
      BY <3>1 DEF InOrder, Named
    <3>3. b \in Addrs \ {a}
      BY <1>1, <3>1, <3>2
    <3> QED
      BY <1>7, <1>8, <3>1, <3>2, <3>3
  <2> QED
    BY <2>1, <2>2
<1>13. Fails'
  <2> SUFFICES ASSUME NEW f \in Addrs, dev'[f].fail
               PROVE  dev'[f].hub /\ ~CanRelease(f)' /\ Children(f)' = {}
    BY DEF Fails
  <2>1. f # a /\ dev'[f] = dev[f]
    BY <1>1, <1>7
  <2>2. dev[f].fail /\ dev[f].hub /\ ~CanRelease(f) /\ Children(f) = {}
    BY <2>1 DEF InOrder, Fails
  <2>3. ~CanRelease(f)'
    BY <1>3, <1>6, <2>1, <2>2 DEF CanRelease, HasEntry
  <2>4. job.hub # f
    BY <1>1, <1>9, <2>2 DEF InOrder, JobHub
  <2>5. Children(f)' = {}
    <3>1. ASSUME NEW c \in Addrs, dev'[c].used, dev'[c].parent = f
          PROVE  FALSE
      BY <1>1, <1>7, <2>2, <2>4, <3>1 DEF Children
    <3> QED
      BY <3>1 DEF Children
  <2> QED
    BY <2>1, <2>2, <2>3, <2>5
<1>14. job'.pc \notin Early
  BY <1>2, <1>4 DEF JobType, Early
<1>15. OnePerPort'
  <2> SUFFICES ASSUME NoFail', NEW b \in Addrs, NEW c \in Addrs, dev'[b].used, dev'[c].used,
                      dev'[b].port = dev'[c].port
               PROVE  b = c
    BY <1>14 DEF OnePerPort
  <2>1. ~dev[a].fail
    BY <1>1, <1>2 DEF TreeShape
  <2>2. NoFail
    BY <1>7, <2>1 DEF NoFail
  <2>3. /\ \A x, y \in Addrs : dev[x].used /\ dev[y].used /\ dev[x].port = dev[y].port => x = y
        /\ \A x \in Addrs : dev[x].used => dev[x].port # job.port
    BY <1>1, <2>2 DEF InOrder, OnePerPort, Early
  <2> QED
    BY <1>1, <1>7, <2>3
<1>16. /\ \A s \in Slots : Live(slots, s)' => slots'[s].addr # 0
       /\ \A p \in Ports : ~port'[p].prc
  BY <1>1, <1>3, <1>11, NoneNew DEF Live
<1>17. Anew' /\ ResetOnce' /\ JobSlots' /\ JobHub'
  BY <1>14, <1>16, NotEarly
<1>18. NoticedIn(slots, port)'
  BY <1>3, <1>8 DEF InOrder, NoticedIn, Live
<1> QED
  BY <1>12, <1>13, <1>15, <1>17, <1>18 DEF InOrder

(* Only the device of the job becomes a hub.                               *)
LEMMA OrderConnect ==
  ASSUME Shape, InOrder, Connect
  PROVE  InOrder'
<1> DEFINE a == job.child
<1>1. /\ job.pc = "connect" /\ a \in Addrs /\ ~dev[a].hub
      /\ \A b \in Addrs : /\ dev'[b].used = dev[b].used /\ dev'[b].port = dev[b].port
                          /\ dev'[b].parent = dev[b].parent /\ dev'[b].fail = dev[b].fail
                          /\ dev[b].hub => dev'[b].hub
      /\ urb' = urb \/ urb' = [urb EXCEPT ![a] = "polling"]
      /\ GoOn("clear") \/ GiveUp
  BY Connected
<1>2. port' = port /\ slots' = slots
  BY DEF Connect
<1>3. /\ slots \in Table /\ job \in JobType
      /\ urb \in [Addrs -> {"none", "polling", "failed", "halted"}]
  BY Typing DEF Shape
<1>4. \A b \in Addrs : dev[b].hub => urb'[b] = urb[b]
  BY <1>1, <1>3
<1>5. job'.pc \notin Early
  BY <1>1, <1>3 DEF GoOn, GiveUp, JobType, Early
<1> HIDE DEF a
<1>6. Named'
  <2>1. \A s \in Slots : slots[s].addr \in {0} \cup Addrs
    BY <1>3 DEF Table, Entry
  <2> QED
    BY <1>1, <1>2, <2>1 DEF InOrder, Named, Live
<1>7. Fails'
  <2>1. \A f \in Addrs : Children(f)' = Children(f)
    BY <1>1 DEF Children
  <2>2. \A f \in Addrs : dev'[f].fail => dev[f].hub /\ ~CanRelease(f) /\ Children(f) = {}
    BY <1>1 DEF InOrder, Fails
  <2> QED
    BY <1>1, <1>2, <1>4, <2>1, <2>2 DEF Fails, CanRelease
<1>8. OnePerPort'
  BY <1>1, <1>5 DEF InOrder, OnePerPort, NoFail
<1>9. /\ \A s \in Slots : Live(slots, s)' => slots'[s].addr # 0
      /\ \A p \in Ports : ~port'[p].prc
  BY <1>1, <1>2, NoneNew DEF Live
<1>10. Anew' /\ ResetOnce' /\ JobSlots' /\ JobHub'
  BY <1>5, <1>9, NotEarly
<1>11. NoticedIn(slots, port)'
  BY <1>2 DEF InOrder, NoticedIn, Live
<1> QED
  BY <1>6, <1>7, <1>8, <1>10, <1>11 DEF InOrder

(* What is tried again is no hub, so nothing is.                           *)
LEMMA OrderEvent ==
  ASSUME Shape, InOrder, NEW h \in Addrs, HubEvent(h)
  PROVE  InOrder'
<1>1. dev' = dev
  <2>1. PICK gone \in SUBSET Retry(h) : dev' = [a \in Addrs |-> IF a \in gone THEN NoDev ELSE dev[a]]
    BY Retried
  <2>2. \A a \in Retry(h) : ~dev[a].hub /\ a \in Addrs /\ dev[a].fail
    BY Retried
  <2>3. gone = {}
    BY <2>2 DEF InOrder, Fails
  <2>4. dev \in DevTable
    BY Typing DEF Shape
  <2> QED
    BY <2>1, <2>3, <2>4 DEF DevTable
<1>2. /\ port' = port /\ slots' = slots /\ urb' = urb /\ job.pc = "idle" /\ job' = NextPort(h, 0)
  BY DEF HubEvent
<1>3. job'.pc \notin Early
  BY <1>2, NextIsNotEarly
<1>4. Named' /\ Fails'
  BY <1>1, <1>2, Steady
<1>5. /\ \A s \in Slots : Live(slots, s)' => slots'[s].addr # 0
      /\ \A p \in Ports : ~port'[p].prc
  BY <1>2, NoneNew DEF Live
<1>6. Anew' /\ ResetOnce' /\ JobSlots' /\ JobHub' /\ OnePerPort'
  BY <1>1, <1>3, <1>5, NotEarly DEF InOrder
<1>7. NoticedIn(slots, port)'
  BY <1>2 DEF InOrder, NoticedIn, Live
<1> QED
  BY <1>4, <1>6, <1>7 DEF InOrder

(* The new slot gets the address of the device for which it was made.      *)
LEMMA OrderPortReset ==
  ASSUME Shape, InOrder, NEW a \in Addrs, PortReset(a)
  PROVE  InOrder'
<1> DEFINE p == dev[a].port
           pt == ResetHw(port, p)
           n == count.plug
<1>1. /\ p \in Ports /\ dev[a].used /\ ~dev[a].hub /\ job.pc = "idle"
      /\ pt \in PortTable /\ port' = Cleared(pt, p)
      /\ UNCHANGED <<busVars, job, orphan>>
      /\ \A q \in Ports : port'[q].unit = port[q].unit
  BY Again
<1>2. PICK sl \in Table :
        /\ SlotsOk(sl, n)
        /\ Followed(slots, sl, pt, p, {})
        /\ \A t \in Slots : Live(sl, t) /\ sl[t] # slots[t] => sl[t] = NewEntry(p, pt[p].unit)
        /\ (slots' = sl /\ pt[p].unit = 0) \/ Like(SetAddress(sl, a), slots')
  BY Again
<1>3. slots \in Table /\ SlotsOk(slots, n) /\ port \in PortTable
  BY Typing DEF Shape, SlotShape
<1>4. dev' = dev /\ urb' = urb /\ job' = job /\ job'.pc \notin Early /\ job'.pc = "idle"
  BY <1>1 DEF busVars, Early
<1>5. /\ \A s \in Slots : Live(slots, s) => slots[s].addr # 0
      /\ \A q \in Ports : ~port[q].prc
  BY <1>1, NoneNew
<1>19. pt = ResetHw(port, p)
  OBVIOUS
<1> HIDE DEF pt, n, p
<1>6. \A q \in Ports : pt[q].unit = port[q].unit
  <2>1. \A q \in Ports : ResetHw(port, p)[q].unit = port[q].unit
    BY <1>1, <1>3, PortEffects
  <2> QED
    BY <1>19, <2>1
<1>7. \A q \in Ports : port[q].csc => pt[q].csc
  BY <1>1, <1>3, <1>19, PortEffects
<1>8. \A q \in Ports \ {p} : pt[q].prc = port[q].prc
  <2>1. \A q \in Ports \ {p} : ResetHw(port, p)[q].prc = port[q].prc
    BY <1>1, <1>3, PortEffects
  <2> QED
    BY <1>19, <2>1
<1>9. \A q \in Ports : ~port'[q].prc
  <2>1. /\ \A q \in Ports \ {p} : Cleared(pt, p)[q] = pt[q]
        /\ Cleared(pt, p)[p].prc = FALSE
    BY <1>1, PortEffects
  <2> QED
    BY <1>1, <1>5, <1>8, <2>1
<1>10. NoticedIn(sl, port')
  <2>1. NoticedIn(slots, pt)
    <3>1. \A s \in Slots : Live(slots, s) => slots[s].route \in Ports
      BY <1>3 DEF SlotsOk
    <3>2. NoticedIn(slots, port)
      BY DEF InOrder
    <3> QED
      BY <1>6, <1>7, <3>1, <3>2 DEF NoticedIn
  <2>2. NoticedIn(sl, Cleared(pt, p))
    BY <1>1, <1>2, <1>3, <2>1, NoticedFollows
  <2> QED
    BY <1>1, <2>2
(* What is in the slots: the old ones, and one new one without an address. *)
<1>11. \A t \in Slots : Live(sl, t) =>
         \/ Live(slots, t) /\ sl[t] = slots[t] /\ sl[t].addr # 0
         \/ /\ sl[t].addr = 0 /\ sl[t].route = p
            /\ pt[p].unit # 0 /\ sl[t].unit = pt[p].unit
  <2> SUFFICES ASSUME NEW t \in Slots, Live(sl, t)
               PROVE  \/ Live(slots, t) /\ sl[t] = slots[t] /\ sl[t].addr # 0
                      \/ /\ sl[t].addr = 0 /\ sl[t].route = p
                         /\ pt[p].unit # 0 /\ sl[t].unit = pt[p].unit
    OBVIOUS
  <2>1. CASE Live(slots, t) /\ sl[t] = slots[t]
    BY <1>5, <2>1
  <2>2. CASE ~(Live(slots, t) /\ sl[t] = slots[t])
    <3>1. pt[p].unit # 0 /\ sl[t].addr = 0 /\ sl[t].route = p
      BY <1>2, <2>2 DEF Followed
    <3>2. sl[t] # slots[t]
      BY <2>2 DEF Live
    <3>3. sl[t] = NewEntry(p, pt[p].unit)
      BY <1>2, <3>2
    <3>4. NewEntry(p, pt[p].unit).unit = pt[p].unit
      BY DEF NewEntry, Unused
    <3> QED
      BY <3>1, <3>3, <3>4
  <2> QED
    BY <2>1, <2>2
<1>12. /\ \A t \in Slots : /\ Live(slots', t) <=> Live(sl, t)
                           /\ slots'[t].route = sl[t].route /\ slots'[t].unit = sl[t].unit
       /\ \A t \in Slots : Live(sl, t) =>
            slots'[t].addr = IF sl[t].addr = 0 THEN a ELSE sl[t].addr
       /\ \A b \in Addrs \ {a} : HasEntry(slots', b) => HasEntry(sl, b)
  <2>1. CASE slots' = sl /\ pt[p].unit = 0
    BY <1>11, <2>1
  <2>2. CASE Like(SetAddress(sl, a), slots')
    <3> DEFINE d == SetAddress(sl, a)
               S == SetAddressSlot(sl)
    <3>1. /\ Same(sl, d)
          /\ \A t \in Slots : Live(sl, t) =>
               d[t].addr = IF SetAddressOk(sl) /\ t = S THEN a ELSE sl[t].addr
          /\ \A b \in Addrs \ {a} : HasEntry(d, b) => HasEntry(sl, b)
      BY <1>2, Addresses
    <3>2. \/ S \in Slots /\ S # 0 /\ Live(sl, S) /\ sl[S].addr = 0
          \/ S = 0 /\ \A t \in Slots : Live(sl, t) => sl[t].addr # 0
      BY ByAddress DEF SetAddressSlot
    <3>3. S # 0 => sl[S].route = p /\ sl[S].unit # 0
      BY <1>11, <3>2
    <3>4. S # 0 => SetAddressOk(sl)
      BY <3>3 DEF SetAddressOk
    <3>9. SetAddressOk(sl) => S # 0
      BY DEF SetAddressOk
    <3>5. Like(d, slots')
      BY <2>2
    <3> HIDE DEF d, S
    <3>6. \A t \in Slots : /\ Live(slots', t) <=> Live(sl, t)
                           /\ slots'[t].route = sl[t].route /\ slots'[t].unit = sl[t].unit
                           /\ slots'[t].addr = d[t].addr
      BY <3>1, <3>5 DEF Like, Same
    <3>7. ASSUME NEW t \in Slots, Live(sl, t)
          PROVE  d[t].addr = IF sl[t].addr = 0 THEN a ELSE sl[t].addr
      <4>1. CASE sl[t].addr = 0
        <5>1. S # 0 /\ sl[t].route = p
          BY <1>11, <3>2, <3>7, <4>1
        <5>2. t = S
          BY <1>2, <3>2, <3>3, <3>7, <5>1 DEF SlotsOk
        <5> QED
          BY <3>1, <3>4, <3>7, <4>1, <5>1, <5>2
      <4>2. CASE sl[t].addr # 0
        <5>1. SetAddressOk(sl) => t # S
          BY <1>2, <3>2, <4>2, <3>9 DEF SetAddressOk
        <5> QED
          BY <3>1, <3>7, <4>2, <5>1
      <4> QED
        BY <4>1, <4>2
    <3>8. \A b \in Addrs : HasEntry(slots', b) => HasEntry(d, b)
      BY <3>6 DEF HasEntry
    <3> QED
      BY <3>1, <3>6, <3>7, <3>8
  <2> QED
    BY <1>2, <2>1, <2>2
<1>13. a # 0 /\ ~dev[a].fail
  BY <1>1, EnumerationAssumption DEF Addrs, InOrder, Fails
<1>14. Named'
  <2> SUFFICES ASSUME NEW t \in Slots, Live(slots', t), slots'[t].addr # 0
               PROVE  /\ dev[slots'[t].addr].used /\ dev[slots'[t].addr].port = slots'[t].route
                      /\ ~dev[slots'[t].addr].fail
    BY <1>4 DEF Named, Live
  <2>1. CASE sl[t].addr = 0
    BY <1>1, <1>11, <1>12, <1>13, <2>1 DEF p
  <2>2. CASE sl[t].addr # 0
    BY <1>11, <1>12, <2>2 DEF InOrder, Named
  <2> QED
    BY <2>1, <2>2
<1>15. Fails'
  <2> SUFFICES ASSUME NEW f \in Addrs, dev[f].fail
               PROVE  dev[f].hub /\ ~CanRelease(f)' /\ Children(f)' = {}
    BY <1>4 DEF Fails
  <2>1. dev[f].hub /\ ~CanRelease(f) /\ Children(f) = {}
    BY DEF InOrder, Fails
  <2>2. HasEntry(slots', f) => HasEntry(slots, f)
    BY <1>2, <1>12, <1>13 DEF Followed
  <2>3. ~CanRelease(f)'
    BY <1>4, <2>1, <2>2 DEF CanRelease, HasEntry
  <2> QED
    BY <1>4, <2>1, <2>3 DEF Children
<1>16. \A s \in Slots : Live(slots, s)' => slots'[s].addr # 0
  BY <1>12, <1>13 DEF Live
<1>17. Anew' /\ ResetOnce' /\ JobSlots' /\ JobHub' /\ OnePerPort'
  BY <1>4, <1>9, <1>16, NotEarly DEF InOrder
<1>18. NoticedIn(slots, port)'
  BY <1>10, <1>12 DEF NoticedIn, Live
<1> QED
  BY <1>14, <1>15, <1>17, <1>18 DEF InOrder

(* The drivers are in order at first.                                      *)
LEMMA OrderInit == Init => InOrder
<1> SUFFICES ASSUME Init PROVE InOrder
  OBVIOUS
<1>1. /\ \A s \in Slots : ~Live(slots, s)
      /\ \A p \in Ports : port[p].prc = FALSE
      /\ \A a \in Addrs : dev[a].used = FALSE /\ dev[a].fail = FALSE
      /\ job.pc = "idle"
  BY DEF Init, Live, Unused, NoDev, Idle
<1> QED
  BY <1>1 DEF InOrder, Named, Anew, ResetOnce, NoticedIn, Fails, JobSlots, JobHub, OnePerPort, Early

(* As long as the drivers are in order, they stay so.                      *)
LEMMA OrderNext ==
  ASSUME Shape, Orderly => InOrder, [Next]_vars, Orderly'
  PROVE  InOrder'
<1>1. InOrder /\ "disable" \notin count'.failed /\ "disconnect" \notin count'.failed /\ ~orphan'
  BY Disorder
<1>2. CASE World
  BY <1>1, <1>2, OrderWorld
<1>3. CASE RootTimer
  BY <1>1, <1>3, OrderTimer
<1>4. CASE Enumerate
  BY <1>1, <1>4, OrderRetry, OrderStatus, OrderRemove, OrderReset, OrderWait, OrderCreate, OrderAssign,
     OrderConfigure, OrderConnect, OrderClear DEF Enumerate
<1>5. CASE Monitor
  BY <1>1, <1>5, OrderMonitor
<1>6. ASSUME NEW a \in Addrs, HubEvent(a) PROVE InOrder'
  BY <1>1, <1>6, OrderEvent
<1>7. ASSUME NEW a \in Addrs, PortReset(a) PROVE InOrder'
  BY <1>1, <1>7, OrderPortReset
<1>8. CASE UNCHANGED vars
  <2>1. port' = port /\ slots' = slots /\ dev' = dev /\ urb' = urb /\ job' = job
    BY <1>8 DEF vars
  <2>2. Named' /\ Fails' /\ Anew' /\ JobSlots' /\ JobHub' /\ OnePerPort'
    BY <1>1, <2>1, Steady
  <2>3. ResetOnce' /\ NoticedIn(slots, port)'
    BY <1>1, <2>1 DEF InOrder, ResetOnce, NoticedIn, Live
  <2> QED
    BY <2>2, <2>3 DEF InOrder
<1> QED
  BY <1>2, <1>3, <1>4, <1>5, <1>6, <1>7, <1>8 DEF Next

-----------------------------------------------------------------------------
(* The results.                                                            *)

IInv == Shape /\ (Orderly => InOrder)

(* The two parts together are inductive.                                   *)
LEMMA IInvAlways == SafeSpec => []IInv
<1>1. Init => IInv
  BY ShapeInit, OrderInit DEF IInv
<1>2. IInv /\ [Next]_vars => IInv'
  <2> SUFFICES ASSUME Shape, Orderly => InOrder, [Next]_vars
               PROVE  Shape' /\ (Orderly' => InOrder')
    BY DEF IInv
  <2>1. Shape'
    BY ShapeNext
  <2>2. Orderly' => InOrder'
    BY OrderNext
  <2> QED
    BY <2>1, <2>2
<1> QED
  BY <1>1, <1>2, PTL DEF SafeSpec

(* The bus driver's tables at every step of an enumeration                 *)
(* (UsbEnumeratePort, UsbEnumerateNewDev, UsbRemoveDevice): each device    *)
(* hangs on a hub of the table, one for each port as long as what is gone  *)
(* could be removed, and a hub lives as long as its request.               *)
THEOREM BusIsATree == SafeSpec => []BusInv
<1>1. IInv => BusInv
  <2> SUFFICES ASSUME Shape, Orderly => InOrder
               PROVE  BusInv
    BY DEF IInv
  <2>1. TypeOK /\ TreeShape
    BY DEF Shape
  <2>2. RequestHasHub
    BY <2>1 DEF RequestHasHub, TreeShape
  <2>3. TableIsTree
    <3> SUFFICES ASSUME \A a \in Addrs : ~dev[a].fail, Orderly, NEW a \in Addrs, dev[a].used
                 PROVE  /\ dev[a].parent = 0 \/ (dev[dev[a].parent].hub /\ dev[dev[a].parent].port = Up[dev[a].port])
                        /\ \A b \in Addrs : dev[b].used /\ dev[b].port = dev[a].port => b = a
      BY DEF TableIsTree
    <3>1. Attached(dev[a].parent, dev[a].port)
      BY <2>1 DEF TreeShape
    <3> QED
      BY <3>1 DEF Attached, InOrder, OnePerPort, NoFail
  <2> QED
    BY <2>1, <2>2, <2>3 DEF BusInv
<1> QED
  BY <1>1, IInvAlways, PTL

(* The slots that XhcPollPortStatusChange makes and disables: one for each *)
(* port and, in order, one for each address; that of a device behind a hub *)
(* never without that of the hub (the assertion on ParentSlotId in         *)
(* XhcInitializeDeviceSlot).                                               *)
THEOREM SlotsAlwaysMatchPorts == SafeSpec => []SlotsMatchPorts
<1>1. IInv => SlotsMatchPorts
  <2> SUFFICES ASSUME Shape, Orderly => InOrder
               PROVE  SlotsMatchPorts
    BY DEF IInv
  <2>1. SlotsOk(slots, count.plug)
    BY DEF Shape, SlotShape
  <2>2. SlotsFollowTree
    <3> SUFFICES ASSUME NEW s \in Slots, Live(slots, s), Up[slots[s].route] # 0
                 PROVE  RouteStringToSlotId(slots, Up[slots[s].route]) # 0
      BY DEF SlotsFollowTree
    <3>1. HasSlot(slots, Up[slots[s].route])
      BY <2>1 DEF SlotsOk
    <3> QED
      BY <3>1, ByRoute DEF HasSlot
  <2>3. SlotsAreUnique
    <3> SUFFICES ASSUME NEW s \in Slots, NEW t \in Slots, Live(slots, s), Live(slots, t), s # t
                 PROVE  /\ slots[s].route # slots[t].route
                        /\ Orderly /\ slots[s].addr = slots[t].addr => slots[s].addr = 0
      BY DEF SlotsAreUnique
    <3>1. slots[s].route # slots[t].route
      BY <2>1 DEF SlotsOk
    <3>2. ASSUME Orderly, slots[s].addr = slots[t].addr, slots[s].addr # 0
          PROVE  FALSE
      BY <3>1, <3>2 DEF InOrder, Named
    <3> QED
      BY <3>1, <3>2
  <2> QED
    BY <2>2, <2>3 DEF SlotsMatchPorts
<1> QED
  BY <1>1, IInvAlways, PTL

(* The address that UsbSetAddress gave a device, hooked in                 *)
(* XhcControlTransfer, leads XhcBusDevAddrToSlotId to the slot of the port *)
(* where the bus driver found the device.                                  *)
THEOREM AddressAlwaysNamesItsDevice == SafeSpec => []AddressNamesItsDevice
<1>1. IInv => AddressNamesItsDevice
  <2> SUFFICES ASSUME Shape, InOrder, NEW a \in Addrs, dev[a].used, BusDevAddrToSlotId(slots, a) # 0
               PROVE  slots[BusDevAddrToSlotId(slots, a)].route = dev[a].port
    BY DEF IInv, AddressNamesItsDevice
  <2> DEFINE s == BusDevAddrToSlotId(slots, a)
  <2>1. s \in Slots /\ Live(slots, s) /\ slots[s].addr = a
    BY ByAddress
  <2>2. a # 0
    BY EnumerationAssumption DEF Addrs
  <2> HIDE DEF s
  <2>3. dev[a].port = slots[s].route
    BY <2>1, <2>2 DEF InOrder, Named
  <2> QED
    BY <2>3 DEF s
<1> QED
  BY <1>1, IInvAlways, PTL

=============================================================================
