--------------------------- MODULE UsbHostProofs ---------------------------
(***************************************************************************)
(* Proofs about the schedules of the UHCI and of the EHCI driver.          *)
(*                                                                         *)
(* UhciRequests, for any number of requests, endpoints, blocks and units:  *)
(* the schedule is the list of the driver, a request is not freed while    *)
(* the controller stands at it unless a tick was held off, no two requests *)
(* share memory, and none of it is lost.                                   *)
(*                                                                         *)
(* EhciQueue, with qTDs that hold any number of packets: what a finished   *)
(* transfer reports is what the device did, and the controller is done     *)
(* with what the driver updates or frees.                                  *)
(*                                                                         *)
(* EhciSchedule, for any number of frames and queue heads and whichever    *)
(* intervals that divide one another: the periodic lists stay in order,    *)
(* the controller polls what is due, and meets no freed queue head.        *)
(***************************************************************************)
EXTENDS UhciRequests, EhciQueue, EhciSchedule, SequenceTheorems, FiniteSetTheorems,
        WellFoundedInduction, TLAPS

-----------------------------------------------------------------------------
(* UhciRequests.                                                           *)

\* What RemoveAt of the community modules does to a sequence.
LEMMA RemoveAtSeq ==
  ASSUME NEW S, NEW s \in Seq(S), NEW k \in 1..Len(s)
  PROVE  /\ RemoveAt(s, k) \in Seq(S)
         /\ Len(RemoveAt(s, k)) = Len(s) - 1
         /\ \A j \in 1..(Len(s) - 1) : RemoveAt(s, k)[j] = s[IF j < k THEN j ELSE j + 1]
<1> DEFINE a == SubSeq(s, 1, k - 1)
           b == SubSeq(s, k + 1, Len(s))
<1>1. Len(s) \in Nat
  BY LenProperties
<1>2. /\ a \in Seq(S) /\ Len(a) = k - 1
      /\ \A i \in 1..(k - 1) : a[i] = s[i]
  <2>1. \A i \in 1..(k - 1) : s[i] \in S
    BY <1>1, ElementOfSeq
  <2>2. /\ a \in Seq(S) /\ Len(a) = IF 1 <= k - 1 THEN (k - 1) - 1 + 1 ELSE 0
        /\ \A i \in 1..((k - 1) - 1 + 1) : a[i] = s[1 + i - 1]
    BY <1>1, <2>1, SubSeqProperties
  <2> QED  BY <1>1, <2>2
<1>3. /\ b \in Seq(S) /\ Len(b) = Len(s) - k
      /\ \A i \in 1..(Len(s) - k) : b[i] = s[k + i]
  <2>1. \A i \in (k + 1)..Len(s) : s[i] \in S
    BY <1>1, ElementOfSeq
  <2>2. /\ b \in Seq(S) /\ Len(b) = IF k + 1 <= Len(s) THEN Len(s) - (k + 1) + 1 ELSE 0
        /\ \A i \in 1..(Len(s) - (k + 1) + 1) : b[i] = s[(k + 1) + i - 1]
    BY <1>1, <2>1, SubSeqProperties
  <2> QED  BY <1>1, <2>2
<1>4. RemoveAt(s, k) = a \o b
  BY DEF RemoveAt
<1> HIDE DEF a, b
<1>5. a \o b \in Seq(S) /\ Len(a \o b) = Len(a) + Len(b)
  BY <1>2, <1>3, ConcatProperties
<1>6. \A i \in 1..Len(a) + Len(b) : (a \o b)[i] = IF i <= Len(a) THEN a[i] ELSE b[i - Len(a)]
  BY <1>2, <1>3, ConcatProperties
<1>7. ASSUME NEW j \in 1..(Len(s) - 1)
      PROVE (a \o b)[j] = s[IF j < k THEN j ELSE j + 1]
  <2>1. CASE j < k
    BY <1>1, <1>2, <1>3, <1>6, <2>1
  <2>2. CASE ~(j < k)
    <3> DEFINE i == j - (k - 1)
    <3>1. i \in 1..(Len(s) - k) /\ k + i = j + 1
      BY <1>1, <2>2
    <3>2. b[i] = s[j + 1]
      BY <1>3, <3>1
    <3>3. (a \o b)[j] = b[i]
      BY <1>1, <1>2, <1>3, <1>6, <2>2
    <3> QED  BY <2>2, <3>2, <3>3
  <2> QED  BY <2>1, <2>2
<1> QED  BY <1>1, <1>2, <1>3, <1>4, <1>5, <1>7

-----------------------------------------------------------------------------
(* The lists of the driver and the controller.                             *)

ReqType == [at : {"none", "list", "wait", "recycle"}, ep : Eps \cup {None},
            mem : SUBSET Cells, td : {"active", "done", "error"}]

Types ==
  /\ req \in [Reqs -> ReqType]
  /\ list \in Seq(Reqs)
  /\ next \in [Reqs \cup {SyncIntQh} -> Reqs \cup {CtrlQh}]
  /\ hc \in [run : BOOLEAN, at : Reqs \cup {SyncIntQh, CtrlQh}, fresh : BOOLEAN]

\* The list has the listed requests, each of them once.
Once ==
  /\ \A i, j \in 1..Len(list) : list[i] = list[j] => i = j
  /\ \A r \in Reqs : req[r].at = "list" <=> \E i \in 1..Len(list) : list[i] = r

Chained ==
  /\ next[SyncIntQh] = IF Len(list) = 0 THEN CtrlQh ELSE list[1]
  /\ \A i \in 1..Len(list) : next[list[i]] = IF i = Len(list) THEN CtrlQh ELSE list[i + 1]

\* From a request that was removed the controller gets to none that was
\* removed, and will be freed, before it.
Left ==
  \A r \in Reqs :
    /\ req[r].at = "wait" =>
         next[r] = CtrlQh \/ req[next[r]].at \in {"list", "wait"}
    /\ req[r].at = "recycle" =>
         next[r] = CtrlQh \/ req[next[r]].at \in {"list", "wait", "recycle"}

\* Where the controller may stand: a request is on Recycle for as long as no
\* frame began since it came there, before the controller cannot hold it.
Held ==
  /\ ~hc.run => hc.at = SyncIntQh
  /\ "late" \notin happened /\ hc.at \in Reqs =>
       req[hc.at].at \in {"list", "wait"} \/ (req[hc.at].at = "recycle" /\ ~hc.fresh)

Lists == Types /\ Once /\ Chained /\ Left

\* A new request at the head of the list keeps the list and its links as they
\* should be.
LEMMA SubmitKeepsLists ==
  ASSUME Lists, NEW r \in Reqs, req[r].at = "none", NEW new \in ReqType, new.at = "list",
         req' = [req EXCEPT ![r] = new],
         list' = <<r>> \o list,
         next' = [next EXCEPT ![r] = next[SyncIntQh], ![SyncIntQh] = r],
         hc' = hc
  PROVE  Lists'
<1> USE RequestsAssumption
<1>1. /\ <<r>> \in Seq(Reqs) /\ Len(<<r>>) = 1 /\ <<r>>[1] = r
      /\ list \in Seq(Reqs) /\ Len(list) \in Nat
  BY LenProperties DEF Lists, Types
<1>2. /\ list' \in Seq(Reqs) /\ Len(list') = Len(list) + 1
      /\ \A i \in 1..(Len(list) + 1) : list'[i] = IF i = 1 THEN r ELSE list[i - 1]
  <2>1. /\ <<r>> \o list \in Seq(Reqs) /\ Len(<<r>> \o list) = Len(<<r>>) + Len(list)
        /\ \A i \in 1..(Len(<<r>>) + Len(list)) :
             (<<r>> \o list)[i] = IF i <= Len(<<r>>) THEN <<r>>[i] ELSE list[i - Len(<<r>>)]
    BY <1>1, ConcatProperties
  <2> QED  BY <1>1, <2>1
<1>3. \A i \in 1..Len(list) : list[i] \in Reqs /\ list[i] # r
  BY <1>1, ElementOfSeq DEF Lists, Once
<1>4. Types'
  BY <1>2 DEF Lists, Types
<1>5. \A q \in Reqs : req'[q].at = IF q = r THEN "list" ELSE req[q].at
  BY DEF Lists, Types
<1>6. Once'
  <2>1. ASSUME NEW i \in 1..Len(list'), NEW j \in 1..Len(list'), list'[i] = list'[j]
        PROVE i = j
    <3>1. CASE i = 1
      <4>1. j # 1 => j - 1 \in 1..Len(list) /\ list'[j] = list[j - 1]
        BY <1>1, <1>2
      <4> QED  BY <1>2, <1>3, <2>1, <3>1, <4>1
    <3>2. CASE i # 1
      <4>1. i - 1 \in 1..Len(list) /\ list'[i] = list[i - 1]
        BY <1>1, <1>2, <3>2
      <4>2. j # 1
        BY <1>2, <1>3, <2>1, <4>1
      <4>3. j - 1 \in 1..Len(list) /\ list'[j] = list[j - 1]
        BY <1>1, <1>2, <4>2
      <4> QED  BY <1>1, <2>1, <4>1, <4>3 DEF Lists, Once
    <3> QED  BY <3>1, <3>2
  <2>2. ASSUME NEW q \in Reqs, req'[q].at = "list"
        PROVE \E i \in 1..Len(list') : list'[i] = q
    <3>1. CASE q = r
      BY <1>1, <1>2, <3>1
    <3>2. CASE q # r
      <4>1. PICK i \in 1..Len(list) : list[i] = q
        BY <1>5, <2>2, <3>2 DEF Lists, Once
      <4>2. i + 1 \in 1..Len(list') /\ list'[i + 1] = q
        BY <1>1, <1>2, <4>1
      <4> QED  BY <4>2
    <3> QED  BY <3>1, <3>2
  <2>3. ASSUME NEW q \in Reqs, NEW i \in 1..Len(list'), list'[i] = q
        PROVE req'[q].at = "list"
    <3>1. CASE i = 1
      BY <1>2, <1>5, <2>3, <3>1
    <3>2. CASE i # 1
      <4>1. i - 1 \in 1..Len(list) /\ list[i - 1] = q
        BY <1>1, <1>2, <2>3, <3>2
      <4> QED  BY <1>5, <4>1 DEF Lists, Once
    <3> QED  BY <3>1, <3>2
  <2> QED  BY <2>1, <2>2, <2>3 DEF Once
<1>7. Chained'
  <2>1. next'[SyncIntQh] = r /\ next'[r] = next[SyncIntQh]
    BY DEF Lists, Types
  <2>2. \A q \in Reqs \ {r} : next'[q] = next[q]
    BY DEF Lists, Types
  <2>3. ASSUME NEW i \in 1..Len(list')
        PROVE next'[list'[i]] = IF i = Len(list') THEN CtrlQh ELSE list'[i + 1]
    <3>1. CASE i = 1
      <4>1. next'[list'[i]] = IF Len(list) = 0 THEN CtrlQh ELSE list[1]
        BY <1>1, <1>2, <2>1, <3>1 DEF Lists, Chained
      <4>2. 2 \in 1..(Len(list) + 1) <=> Len(list) # 0
        BY <1>1
      <4>3. Len(list) # 0 => list'[i + 1] = list[1]
        <5>1. Len(list) # 0 => list'[2] = IF 2 = 1 THEN r ELSE list[2 - 1]
          BY <1>2, <4>2
        <5> QED  BY <3>1, <5>1
      <4>4. i = Len(list') <=> Len(list) = 0
        BY <1>1, <1>2, <3>1
      <4> QED  BY <4>1, <4>3, <4>4
    <3>2. CASE i # 1
      <4>1. i - 1 \in 1..Len(list) /\ list'[i] = list[i - 1]
        BY <1>1, <1>2, <3>2
      <4>2. next'[list[i - 1]] = next[list[i - 1]]
        BY <1>3, <2>2, <4>1
      <4>3. next[list[i - 1]] = IF i - 1 = Len(list) THEN CtrlQh ELSE list[(i - 1) + 1]
        BY <4>1 DEF Lists, Chained
      <4>4. (i - 1) + 1 = i
        OBVIOUS
      <4> QED  BY <1>1, <1>2, <3>2, <4>1, <4>2, <4>3, <4>4
    <3> QED  BY <3>1, <3>2
  <2>4. Len(list') # 0 /\ list'[1] = r
    BY <1>1, <1>2
  <2> QED  BY <2>1, <2>3, <2>4 DEF Chained
<1>8. Left'
  <2>1. \A q \in Reqs : q # r => next'[q] = next[q] /\ next[q] \in Reqs \cup {CtrlQh}
    BY DEF Lists, Types
  <2>2. \A q \in Reqs : req[q].at \in {"list", "wait", "recycle"} => q # r /\ req'[q].at = req[q].at
    BY <1>5
  <2>3. ASSUME NEW q \in Reqs, req'[q].at \in {"wait", "recycle"}
        PROVE q # r /\ req'[q].at = req[q].at
    BY <1>5, <2>3
  <2>4. ASSUME NEW q \in Reqs, req'[q].at = "wait"
        PROVE next'[q] = CtrlQh \/ req'[next'[q]].at \in {"list", "wait"}
    <3>1. /\ next'[q] = next[q] /\ next[q] \in Reqs \cup {CtrlQh}
          /\ next[q] = CtrlQh \/ req[next[q]].at \in {"list", "wait"}
      BY <2>1, <2>3, <2>4 DEF Lists, Left
    <3> QED  BY <2>2, <3>1
  <2>5. ASSUME NEW q \in Reqs, req'[q].at = "recycle"
        PROVE next'[q] = CtrlQh \/ req'[next'[q]].at \in {"list", "wait", "recycle"}
    <3>1. /\ next'[q] = next[q] /\ next[q] \in Reqs \cup {CtrlQh}
          /\ next[q] = CtrlQh \/ req[next[q]].at \in {"list", "wait", "recycle"}
      BY <2>1, <2>3, <2>5 DEF Lists, Left
    <3> QED  BY <2>2, <3>1
  <2> QED  BY <2>4, <2>5 DEF Left
<1> QED  BY <1>4, <1>6, <1>7, <1>8 DEF Lists

\* A request is unlinked: its predecessor, and nobody else, skips it.
LEMMA RemoveKeepsLists ==
  ASSUME Lists, NEW r \in Reqs, req[r].at = "list", Unlink(r),
         req' = [req EXCEPT ![r].at = "wait", ![r].td = "active"],
         hc' = hc
  PROVE  Lists'
<1> USE RequestsAssumption
<1> DEFINE k == Place(r, list)
           n == Len(list)
<1>1. n \in Nat /\ DOMAIN list = 1..n
  BY LenProperties DEF Lists, Types
<1>2. k \in 1..n /\ list[k] = r
  <2>1. \E i \in DOMAIN list : list[i] = r
    BY <1>1 DEF Lists, Once
  <2> QED  BY <1>1, <2>1 DEF Place
<1>3. \A i \in 1..n : list[i] \in Reqs /\ req[list[i]].at = "list" /\ (list[i] = r <=> i = k)
  BY <1>1, <1>2, ElementOfSeq DEF Lists, Types, Once
<1>4. /\ list' \in Seq(Reqs) /\ Len(list') = n - 1
      /\ \A j \in 1..(n - 1) : list'[j] = list[IF j < k THEN j ELSE j + 1]
  BY <1>2, RemoveAtSeq DEF Lists, Types, Unlink
<1>5. \A q \in Reqs : req'[q].at = IF q = r THEN "wait" ELSE req[q].at
  BY DEF Lists, Types, ReqType
<1>6. /\ \A i \in 1..n : next'[list[i]] = IF next[list[i]] = r THEN next[r] ELSE next[list[i]]
      /\ next'[SyncIntQh] = IF next[SyncIntQh] = r THEN next[r] ELSE next[SyncIntQh]
      /\ \A q \in Reqs : req[q].at # "list" => next'[q] = next[q]
  BY <1>3 DEF Lists, Types, Unlink, Schedule, In
<1>7. /\ next[SyncIntQh] = IF n = 0 THEN CtrlQh ELSE list[1]
      /\ \A i \in 1..n : next[list[i]] = IF i = n THEN CtrlQh ELSE list[i + 1]
  BY DEF Lists, Chained
<1> HIDE DEF k, n
<1>8. next[r] = IF k = n THEN CtrlQh ELSE list[k + 1]
  BY <1>2, <1>7
<1>9. Types'
  <2>1. next' \in [Reqs \cup {SyncIntQh} -> Reqs \cup {CtrlQh}]
    BY DEF Lists, Types, Unlink
  <2>2. req[r] \in ReqType /\ req \in [Reqs -> ReqType]
    BY DEF Lists, Types
  <2>3. [req[r] EXCEPT !.at = "wait", !.td = "active"] \in ReqType
    BY <2>2 DEF ReqType
  <2>4. req' = [req EXCEPT ![r] = [req[r] EXCEPT !.at = "wait", !.td = "active"]]
    BY <2>2
  <2>5. req' \in [Reqs -> ReqType]
    BY <2>2, <2>3, <2>4
  <2> QED  BY <1>4, <2>1, <2>5 DEF Lists, Types
<1>10. Once'
  <2>1. ASSUME NEW i \in 1..Len(list'), NEW j \in 1..Len(list'), list'[i] = list'[j]
        PROVE i = j
    <3> DEFINE At2(x) == IF x < k THEN x ELSE x + 1
    <3>1. At2(i) \in 1..n /\ At2(j) \in 1..n /\ list[At2(i)] = list[At2(j)]
      BY <1>1, <1>2, <1>4, <2>1
    <3>2. At2(i) = At2(j)
      BY <3>1 DEF Lists, Once, n
    <3> QED  BY <1>1, <1>2, <1>4, <3>2
  <2>2. ASSUME NEW q \in Reqs, req'[q].at = "list"
        PROVE \E i \in 1..Len(list') : list'[i] = q
    <3>1. q # r /\ req[q].at = "list"
      BY <1>5, <2>2
    <3>2. PICK i \in 1..n : list[i] = q
      BY <3>1 DEF Lists, Once, n
    <3>3. i # k
      BY <1>2, <3>1, <3>2
    <3>4. CASE i < k
      BY <1>1, <1>2, <1>4, <3>2, <3>4
    <3>5. CASE i > k
      <4>1. i - 1 \in 1..(n - 1) /\ ~(i - 1 < k) /\ (i - 1) + 1 = i
        BY <1>1, <1>2, <3>5
      <4>2. list'[i - 1] = q
        BY <1>4, <3>2, <4>1
      <4> QED  BY <1>4, <4>1, <4>2
    <3> QED  BY <1>1, <1>2, <3>3, <3>4, <3>5
  <2>3. ASSUME NEW q \in Reqs, NEW i \in 1..Len(list'), list'[i] = q
        PROVE req'[q].at = "list"
    <3> DEFINE j == IF i < k THEN i ELSE i + 1
    <3>1. j \in 1..n /\ j # k /\ list[j] = q
      BY <1>1, <1>2, <1>4, <2>3
    <3> QED  BY <1>3, <1>5, <3>1
  <2> QED  BY <2>1, <2>2, <2>3 DEF Once
<1>11. next'[SyncIntQh] = IF Len(list') = 0 THEN CtrlQh ELSE list'[1]
  <2>1. n # 0 /\ next[SyncIntQh] = list[1] /\ 1 \in 1..n
    BY <1>1, <1>2, <1>7
  <2>2. CASE k = 1
    <3>1. next'[SyncIntQh] = next[r]
      BY <1>2, <1>6, <2>1, <2>2
    <3>2. n # 1 => list'[1] = list[k + 1]
      BY <1>1, <1>2, <1>4, <2>2
    <3> QED  BY <1>1, <1>4, <1>8, <2>2, <3>1, <3>2
  <2>3. CASE k # 1
    <3>1. next'[SyncIntQh] = list[1]
      BY <1>3, <1>6, <2>1, <2>3
    <3>2. list'[1] = list[1] /\ n - 1 # 0
      BY <1>1, <1>2, <1>4, <2>3
    <3> QED  BY <1>4, <3>1, <3>2
  <2> QED  BY <2>2, <2>3
<1>12. ASSUME NEW i \in 1..Len(list')
       PROVE next'[list'[i]] = IF i = Len(list') THEN CtrlQh ELSE list'[i + 1]
  <2>1. i \in 1..(n - 1) /\ i \in Int /\ i + 1 \in 1..n
    BY <1>1, <1>4
  <2>2. CASE i + 1 < k
    <3>1. list'[i] = list[i] /\ i \in 1..n /\ i # n /\ i # n - 1
      BY <1>1, <1>2, <1>4, <2>1, <2>2
    <3>2. next[list[i]] = list[i + 1] /\ list[i + 1] # r
      BY <1>2, <1>3, <1>7, <2>1, <2>2, <3>1
    <3>3. list'[i + 1] = list[i + 1]
      BY <1>1, <1>2, <1>4, <2>1, <2>2
    <3> QED  BY <1>4, <1>6, <3>1, <3>2, <3>3
  <2>3. CASE i + 1 = k
    <3>1. list'[i] = list[i] /\ i \in 1..n /\ i # n
      BY <1>1, <1>2, <1>4, <2>1, <2>3
    <3>2. next'[list'[i]] = next[r]
      BY <1>2, <1>6, <1>7, <2>3, <3>1
    <3>3. i # n - 1 => list'[i + 1] = list[k + 1]
      BY <1>1, <1>2, <1>4, <2>1, <2>3
    <3>4. i = n - 1 <=> k = n
      BY <1>1, <1>2, <2>1, <2>3
    <3> QED  BY <1>4, <1>8, <3>2, <3>3, <3>4
  <2>4. CASE i + 1 > k
    <3>1. list'[i] = list[i + 1]
      BY <1>1, <1>2, <1>4, <2>1, <2>4
    <3>2. next[list[i + 1]] = IF i + 1 = n THEN CtrlQh ELSE list[(i + 1) + 1]
      BY <1>7, <2>1
    <3>3. i + 1 # n => (i + 1) + 1 \in 1..n /\ (i + 1) + 1 # k
      BY <1>1, <1>2, <2>1, <2>4
    <3>4. i + 1 # n => list[(i + 1) + 1] # r
      BY <1>3, <3>3
    <3>5. next[list[i + 1]] # r
      BY <3>2, <3>4
    <3>6. next'[list'[i]] = next[list[i + 1]]
      BY <1>6, <2>1, <3>1, <3>5
    <3>7. i + 1 # n => list'[i + 1] = list[(i + 1) + 1]
      BY <1>1, <1>2, <1>4, <2>1, <2>4
    <3>8. i = n - 1 <=> i + 1 = n
      BY <1>1, <2>1
    <3> QED  BY <1>4, <3>2, <3>6, <3>7, <3>8
  <2> QED  BY <1>1, <1>2, <2>1, <2>2, <2>3, <2>4
<1>13. Left'
  <2>1. ASSUME NEW q \in Reqs, req'[q].at = "wait"
        PROVE next'[q] = CtrlQh \/ req'[next'[q]].at \in {"list", "wait"}
    <3>1. CASE q = r
      <4>1. k # n => k + 1 \in 1..n /\ k + 1 # k
        BY <1>1, <1>2
      <4>2. next[r] = CtrlQh \/ (next[r] \in Reqs \ {r} /\ req[next[r]].at = "list")
        BY <1>3, <1>8, <4>1
      <4>3. next'[r] = next[r]
        BY <1>2, <1>6, <4>2
      <4> QED  BY <1>5, <3>1, <4>2, <4>3
    <3>2. CASE q # r
      <4>1. req[q].at = "wait" /\ next'[q] = next[q]
        BY <1>5, <1>6, <2>1, <3>2
      <4>2. next[q] = CtrlQh \/ (next[q] \in Reqs /\ req[next[q]].at \in {"list", "wait"})
        BY <4>1 DEF Lists, Left, Types
      <4> QED  BY <1>5, <4>1, <4>2
    <3> QED  BY <3>1, <3>2
  <2>2. ASSUME NEW q \in Reqs, req'[q].at = "recycle"
        PROVE next'[q] = CtrlQh \/ req'[next'[q]].at \in {"list", "wait", "recycle"}
    <3>1. req[q].at = "recycle" /\ next'[q] = next[q]
      BY <1>5, <1>6, <2>2
    <3>2. next[q] = CtrlQh \/ (next[q] \in Reqs /\ req[next[q]].at \in {"list", "wait", "recycle"})
      BY <3>1 DEF Lists, Left, Types
    <3> QED  BY <1>5, <3>1, <3>2
  <2> QED  BY <2>1, <2>2 DEF Left
<1> QED  BY <1>9, <1>10, <1>11, <1>12, <1>13 DEF Lists, Chained

\* A step that moves no request keeps the lists.
LEMMA SameLists ==
  ASSUME Lists, req' \in [Reqs -> ReqType], \A r \in Reqs : req'[r].at = req[r].at,
         list' = list, next' = next,
         hc' \in [run : BOOLEAN, at : Reqs \cup {SyncIntQh, CtrlQh}, fresh : BOOLEAN]
  PROVE  Lists'
<1>1. Types' /\ Once' /\ Chained'
  BY DEF Lists, Types, Once, Chained
<1>2. \A r \in Reqs : next[r] = CtrlQh \/ next[r] \in Reqs
  BY DEF Lists, Types
<1>3. Left'
  BY <1>2 DEF Lists, Left
<1> QED  BY <1>1, <1>3 DEF Lists

\* Freeing every request leaves empty lists.
LEMMA FreeAllKeepsLists == ASSUME Lists, FreeAll PROVE Lists'
<1> USE RequestsAssumption
<1>1. NoReq \in ReqType
  BY DEF NoReq, ReqType
<1>2. list' = <<>> /\ Len(list') = 0 /\ list' \in Seq(Reqs)
  BY DEF FreeAll
<1>3. \A r \in Reqs : req'[r].at = "none"
  BY DEF FreeAll, NoReq
<1>4. /\ next' \in [Reqs \cup {SyncIntQh} -> Reqs \cup {CtrlQh}]
      /\ next'[SyncIntQh] = CtrlQh
  BY DEF Lists, Types, FreeAll
<1>5. Types'
  BY <1>1, <1>2, <1>4 DEF Types, FreeAll, AtStart
<1>6. Once' /\ Chained' /\ Left'
  BY <1>2, <1>3, <1>4 DEF Once, Chained, Left
<1> QED  BY <1>5, <1>6 DEF Lists

\* A tick: Recycle is freed and gets what was on RecycleWait.
LEMMA TickKeepsLists == ASSUME Lists, Tick PROVE Lists'
<1>1. NoReq \in ReqType
  BY DEF NoReq, ReqType
<1>2. \A r \in Reqs : req'[r].at = CASE req[r].at = "recycle" -> "none"
                                     [] req[r].at = "wait"    -> "recycle"
                                     [] OTHER                 -> req[r].at
  BY DEF Tick, In, NoReq, Lists, Types, ReqType
<1>3. Types'
  <2>1. ASSUME NEW r \in Reqs
        PROVE [req[r] EXCEPT !.at = "recycle"] \in ReqType /\ req[r] \in ReqType
    BY DEF Lists, Types, ReqType
  <2>2. req' \in [Reqs -> ReqType]
    BY <1>1, <2>1 DEF Tick
  <2> QED  BY <2>2 DEF Lists, Types, Tick
<1>4. \A r \in Reqs : req[r].at \in {"none", "list", "wait", "recycle"}
  BY DEF Lists, Types, ReqType
<1>5. list' = list /\ next' = next
  BY DEF Tick
<1>6. Once' /\ Chained'
  BY <1>2, <1>4, <1>5 DEF Lists, Once, Chained
<1>7. \A r \in Reqs : next[r] = CtrlQh \/ next[r] \in Reqs
  BY DEF Lists, Types
<1>8. Left'
  BY <1>2, <1>4, <1>5, <1>7 DEF Lists, Left
<1> QED  BY <1>3, <1>6, <1>8 DEF Lists

-----------------------------------------------------------------------------
(* The memory pool.                                                        *)

PoolType == [held : SUBSET Blocks, marked : SUBSET Cells]

\* No block but the first is held for nothing.
NoneEmpty(p) == \A b \in p.held \ {First} : \E x \in p.marked : x[1] = b

\* An allocation marks units that were free.
LEMMA AllocateTakesFree ==
  ASSUME NEW p \in PoolType, NEW n \in Nat \ {0}, NEW a \in Allocate(p, n)
  PROVE  /\ a.pool \in PoolType
         /\ a.mem # {} /\ a.mem \subseteq Cells /\ a.mem \cap p.marked = {}
         /\ a.pool.marked = p.marked \cup a.mem
         /\ NoneEmpty(p) => NoneEmpty(a.pool)
<1> USE PoolAssumption
<1>1. ASSUME NEW b \in Blocks, NEW q \in PoolType, NEW c \in FirstFit(q, b, n)
      PROVE /\ c # {} /\ c \subseteq Cells /\ c \cap q.marked = {}
            /\ \E x \in c : x[1] = b
            /\ Mark(q, c).pool \in PoolType /\ Mark(q, c).mem = c
            /\ Mark(q, c).pool.marked = q.marked \cup c /\ Mark(q, c).pool.held = q.held
  <2>1. PICK u \in Fits(q, b, n) : c = Run(b, u, n)
    BY DEF FirstFit
  <2>2. u \in 0..(Units - n) /\ Run(b, u, n) \cap q.marked = {}
    BY <2>1 DEF Fits
  <2>3. \A v \in u..(u + n - 1) : v \in 0..(Units - 1)
    BY <2>2
  <2>4. c \subseteq Cells
    BY <2>1, <2>3 DEF Run, Cells
  <2>5. <<b, u>> \in c /\ <<b, u>>[1] = b
    BY <2>1, <2>2 DEF Run
  <2>6. /\ Mark(q, c).pool \in PoolType /\ Mark(q, c).mem = c
        /\ Mark(q, c).pool.marked = q.marked \cup c /\ Mark(q, c).pool.held = q.held
    BY <2>4 DEF Mark, PoolType
  <2> QED  BY <2>1, <2>2, <2>4, <2>5, <2>6
<1>2. CASE Found(p, n) # {}
  <2>1. PICK c \in Found(p, n) : a = Mark(p, c)
    BY <1>2 DEF Allocate
  <2>2. PICK b \in Blocks : c \in FirstFit(p, b, n)
    BY <2>1 DEF Found, PoolType
  <2>3. a.pool.held = p.held /\ a.pool.marked = p.marked \cup a.mem
    BY <1>1, <2>1, <2>2
  <2>4. NoneEmpty(p) => NoneEmpty(a.pool)
    BY <2>3 DEF NoneEmpty
  <2> QED  BY <1>1, <2>1, <2>2, <2>3, <2>4
<1>3. CASE Found(p, n) = {}
  <2>1. PICK b \in Blocks \ p.held :
          \E c \in FirstFit([p EXCEPT !.held = @ \cup {b}], b, n) :
            a = Mark([p EXCEPT !.held = @ \cup {b}], c)
    BY <1>3 DEF Allocate
  <2> DEFINE q == [p EXCEPT !.held = @ \cup {b}]
  <2>2. q \in PoolType /\ q.marked = p.marked /\ q.held = p.held \cup {b}
    BY DEF PoolType
  <2> HIDE DEF q
  <2>3. PICK c \in FirstFit(q, b, n) : a = Mark(q, c)
    BY <2>1 DEF q
  <2>4. /\ c # {} /\ c \subseteq Cells /\ c \cap q.marked = {}
        /\ \E x \in c : x[1] = b
        /\ a.pool \in PoolType /\ a.mem = c
        /\ a.pool.marked = q.marked \cup c /\ a.pool.held = q.held
    BY <1>1, <2>2, <2>3
  <2>5. NoneEmpty(p) => NoneEmpty(a.pool)
    BY <2>2, <2>4 DEF NoneEmpty
  <2> QED  BY <2>2, <2>4, <2>5
<1> QED  BY <1>2, <1>3

\* Freeing a chunk clears the marks of its units and no others.
LEMMA FreeMemFrees ==
  ASSUME NEW p \in PoolType, NEW c
  PROVE  /\ FreeMem(p, c) \in PoolType
         /\ FreeMem(p, c).marked = p.marked \ c
         /\ NoneEmpty(p) => NoneEmpty(FreeMem(p, c))
<1>1. FreeMem(p, c) \in PoolType /\ FreeMem(p, c).marked = p.marked \ c
  BY DEF FreeMem, PoolType
<1>2. ASSUME NoneEmpty(p), NEW b \in FreeMem(p, c).held \ {First}
      PROVE \E x \in p.marked \ c : x[1] = b
  <2>1. b \in p.held /\ ((\E x \in c : x[1] = b) => \E x \in p.marked \ c : x[1] = b)
    BY <1>2 DEF FreeMem
  <2>2. PICK x \in p.marked : x[1] = b
    BY <1>2, <2>1 DEF NoneEmpty
  <2> QED  BY <2>1, <2>2
<1> QED  BY <1>1, <1>2 DEF NoneEmpty

\* Of the pool p0, c was taken so far.
Taken(p0, p, c) ==
  /\ p \in PoolType /\ c \subseteq Cells /\ c \cap p0.marked = {}
  /\ p.marked = p0.marked \cup c
  /\ NoneEmpty(p0) => NoneEmpty(p)

\* What becomes of a request that is made from the pool p0.
Outcome(p0, m) ==
  /\ m.pool \in PoolType /\ m.leak \subseteq {"leaked"}
  /\ m.mem \subseteq Cells /\ m.mem \cap p0.marked = {}
  /\ p0.marked \cup m.mem \subseteq m.pool.marked
  /\ m.leak = {} => m.pool.marked = p0.marked \cup m.mem
  /\ NoneEmpty(p0) => NoneEmpty(m.pool)

\* A failure that gives back what was taken has a good outcome.
LEMMA FailsOutcome ==
  ASSUME NEW p0, NEW p, NEW c, Taken(p0, p, c), NEW n, NEW m \in Fails(p, n, c)
  PROVE  Outcome(p0, m)
<1>1. m = [pool |-> FreeMem(p, c), mem |-> {}, leak |-> {}]
  BY DEF Fails
<1> QED  BY <1>1, FreeMemFrees DEF Taken, Outcome

\* What was taken so far and one more allocation is what was taken then.
LEMMA TakenMore ==
  ASSUME NEW p0, NEW p, NEW c, Taken(p0, p, c), NEW n \in Nat \ {0}, NEW a \in Allocate(p, n)
  PROVE  Taken(p0, a.pool, c \cup a.mem) /\ a.mem # {}
BY AllocateTakesFree DEF Taken

\* The memory of a TD: it is got whole, or given back but for what leaks.
LEMMA MakeTdOutcome ==
  ASSUME NEW p0, NEW p, NEW c, Taken(p0, p, c), NEW m \in MakeTd(p, c)
  PROVE  Outcome(p0, m)
<1>1. CASE m \in Fails(p, 1, c)
  BY <1>1, FailsOutcome
<1>2. ASSUME NEW t \in Allocate(p, 1)
      PROVE /\ Outcome(p0, [pool |-> t.pool, mem |-> c \cup t.mem, leak |-> {}])
            /\ Outcome(p0, [pool |-> FreeMem(t.pool, c), mem |-> {}, leak |-> {"leaked"}])
  <2>1. Taken(p0, t.pool, c \cup t.mem)
    BY TakenMore
  <2>2. Outcome(p0, [pool |-> t.pool, mem |-> c \cup t.mem, leak |-> {}])
    BY <2>1 DEF Taken, Outcome
  <2>3. /\ FreeMem(t.pool, c) \in PoolType
        /\ FreeMem(t.pool, c).marked = t.pool.marked \ c
        /\ NoneEmpty(t.pool) => NoneEmpty(FreeMem(t.pool, c))
    BY <2>1, FreeMemFrees DEF Taken
  <2>4. Outcome(p0, [pool |-> FreeMem(t.pool, c), mem |-> {}, leak |-> {"leaked"}])
    BY <2>1, <2>3 DEF Taken, Outcome
  <2> QED  BY <2>2, <2>4
<1> QED  BY <1>1, <1>2 DEF MakeTd

\* The memory of a request: it is got whole, or given back but for what leaks.
LEMMA MakeReqOutcome ==
  ASSUME NEW p \in PoolType, NEW m \in MakeReq(p)
  PROVE  Outcome(p, m)
<1> USE RequestsAssumption
<1>1. Taken(p, p, {})
  BY DEF Taken
<1>2. CASE m \in Fails(p, DataUnits, {})
  BY <1>1, <1>2, FailsOutcome
<1>3. ASSUME NEW d \in Allocate(p, DataUnits), m \in MakeQh(d.pool, d.mem)
      PROVE Outcome(p, m)
  <2>1. Taken(p, d.pool, {} \cup d.mem)
    BY <1>1, TakenMore
  <2>2. Taken(p, d.pool, d.mem)
    BY <2>1
  <2>3. CASE m \in Fails(d.pool, 1, d.mem)
    BY <2>2, <2>3, FailsOutcome
  <2>4. ASSUME NEW q \in Allocate(d.pool, 1), m \in MakeTd(q.pool, d.mem \cup q.mem)
        PROVE Outcome(p, m)
    BY <2>2, <2>4, TakenMore, MakeTdOutcome
  <2> QED  BY <1>3, <2>3, <2>4 DEF MakeQh
<1> QED  BY <1>2, <1>3 DEF MakeReq

-----------------------------------------------------------------------------
(* The inductive invariant.                                                *)

Memory ==
  /\ pool \in PoolType /\ NoneEmpty(pool)
  /\ \A r, s \in Reqs : r # s => req[r].mem \cap req[s].mem = {}
  /\ \A r \in Reqs : req[r].mem \subseteq pool.marked
  /\ \A r \in Reqs : req[r].at = "none" => req[r].mem = {}
  /\ "leaked" \notin happened =>
       \A x \in pool.marked : \E r \in Reqs : req[r].at # "none" /\ x \in req[r].mem

OnePerEp ==
  \A r, s \in Reqs : req[r].at = "list" /\ req[s].at = "list" /\ req[r].ep = req[s].ep => r = s

\* What the monitor checks is listed, and so is what it goes on with, which
\* is another one: the callback removes only the first.
Monitor ==
  /\ drv \in {"on", "stopping", "off", "undefined"} /\ happened \subseteq Mishaps
  /\ drv = "stopping" => list = <<>>
  /\ mon \in [pc : {"idle", "check", "error", "deleted"},
              cur : Reqs \cup {None}, link : Reqs \cup {None}]
  /\ mon.pc # "idle" =>
       /\ drv = "on" /\ mon.cur \in Reqs
       /\ mon.link # None => req[mon.link].at = "list"
  /\ mon.pc \in {"check", "error"} => req[mon.cur].at = "list" /\ mon.link # mon.cur

Requests == Lists /\ Held /\ Memory /\ OnePerEp
Inv == Requests /\ Monitor

\* A new request keeps what is said of the requests; the listed ones stay listed.
LEMMA SubmitStep ==
  ASSUME Requests, NEW ep \in Eps, Submit(ep), happened \subseteq Mishaps
  PROVE  /\ Requests' /\ happened' \subseteq Mishaps
         /\ \A r \in Reqs : req[r].at = "list" => req'[r].at = "list"
<1> USE RequestsAssumption
<1>1. PICK m \in MakeReq(pool) :
        /\ pool' = m.pool
        /\ happened' = happened \cup m.leak
        /\ \/ m.mem = {} /\ UNCHANGED <<req, list, next>>
           \/ m.mem # {} /\ \E r \in In("none") :
                /\ req' = [req EXCEPT ![r] = [at |-> "list", ep |-> ep, mem |-> m.mem, td |-> "active"]]
                /\ list' = <<r>> \o list
                /\ next' = [next EXCEPT ![r] = next[SyncIntQh], ![SyncIntQh] = r]
  BY DEF Submit
<1>2. Outcome(pool, m)
  BY MakeReqOutcome DEF Requests, Memory
<1>3. happened' \subseteq Mishaps /\ hc' = hc /\ ("late" \in happened => "late" \in happened')
  BY <1>1, <1>2 DEF Submit, Outcome, Mishaps
<1>4. "leaked" \notin happened' => pool'.marked = pool.marked \cup m.mem /\ "leaked" \notin happened
  BY <1>1, <1>2 DEF Outcome
<1>5. CASE m.mem = {} /\ UNCHANGED <<req, list, next>>
  <2>1. Lists'
    BY <1>3, <1>5, SameLists DEF Requests, Lists, Types
  <2>2. Memory'
    BY <1>1, <1>2, <1>4, <1>5 DEF Requests, Memory, Outcome
  <2>3. Held' /\ OnePerEp'
    BY <1>3, <1>5 DEF Requests, Held, OnePerEp
  <2> QED  BY <1>3, <1>5, <2>1, <2>2, <2>3 DEF Requests
<1>6. ASSUME NEW r \in In("none"),
             req' = [req EXCEPT ![r] = [at |-> "list", ep |-> ep, mem |-> m.mem, td |-> "active"]],
             list' = <<r>> \o list,
             next' = [next EXCEPT ![r] = next[SyncIntQh], ![SyncIntQh] = r]
      PROVE Requests' /\ \A q \in Reqs : req[q].at = "list" => req'[q].at = "list"
  <2> DEFINE new == [at |-> "list", ep |-> ep, mem |-> m.mem, td |-> "active"]
  <2>1. r \in Reqs /\ req[r].at = "none"
    BY DEF In
  <2>2. new \in ReqType /\ new.at = "list" /\ new.ep = ep /\ new.mem = m.mem
    BY <1>2 DEF ReqType, Outcome
  <2>3. req' = [req EXCEPT ![r] = new]
    BY <1>6
  <2> HIDE DEF new
  <2>4. Lists'
    BY <1>3, <1>6, <2>1, <2>2, <2>3, SubmitKeepsLists DEF Requests
  <2>5. \A q \in Reqs : req'[q] = IF q = r THEN new ELSE req[q]
    BY <2>1, <2>3 DEF Requests, Lists, Types
  <2>6. Held'
    BY <1>3, <2>1, <2>5 DEF Requests, Held
  <2>7. Memory'
    <3>1. \A q \in Reqs \ {r} : req'[q].mem \cap req'[r].mem = {}
      BY <1>2, <2>1, <2>2, <2>5 DEF Requests, Memory, Outcome
    <3>2. \A q \in Reqs : req'[q].mem \subseteq pool'.marked
      BY <1>1, <1>2, <2>2, <2>5 DEF Requests, Memory, Outcome
    <3>3. \A q, s \in Reqs : q # s => req'[q].mem \cap req'[s].mem = {}
      BY <2>5, <3>1 DEF Requests, Memory
    <3>4. \A q \in Reqs : req'[q].at = "none" => req'[q].mem = {}
      BY <2>2, <2>5 DEF Requests, Memory
    <3>5. ASSUME "leaked" \notin happened', NEW x \in pool'.marked
          PROVE \E q \in Reqs : req'[q].at # "none" /\ x \in req'[q].mem
      <4>1. x \in m.mem \/ x \in pool.marked
        BY <1>4, <3>5
      <4>2. CASE x \in m.mem
        BY <2>1, <2>2, <2>5, <4>2
      <4>3. CASE x \in pool.marked
        <5>1. PICK q \in Reqs : req[q].at # "none" /\ x \in req[q].mem
          BY <1>4, <3>5, <4>3 DEF Requests, Memory
        <5>2. req'[q] = req[q]
          BY <2>1, <2>5, <5>1
        <5> QED  BY <5>1, <5>2
      <4> QED  BY <4>1, <4>2, <4>3
    <3>6. pool' \in PoolType /\ NoneEmpty(pool')
      BY <1>1, <1>2 DEF Requests, Memory, Outcome
    <3> QED  BY <3>2, <3>3, <3>4, <3>5, <3>6 DEF Memory, NoneEmpty
  <2>8. OnePerEp'
    <3>1. \A q \in Reqs : req[q].at = "list" => req[q].ep # ep
      BY DEF Submit, In
    <3> QED  BY <2>2, <2>5, <3>1 DEF Requests, OnePerEp
  <2> QED  BY <2>1, <2>2, <2>4, <2>5, <2>6, <2>7, <2>8 DEF Requests
<1> QED  BY <1>1, <1>3, <1>5, <1>6

\* The removal of an endpoint's request leaves those of other endpoints listed.
LEMMA RemoveStep ==
  ASSUME Requests, NEW ep, RemoveAsyncReq(ep), UNCHANGED <<pool, hc, happened>>
  PROVE  /\ Requests'
         /\ \A r \in Reqs : req[r].at = "list" /\ req[r].ep # ep => req'[r].at = "list"
<1>1. CASE UNCHANGED <<req, list, next>>
  BY <1>1, SameLists DEF Requests, Lists, Types, Held, Memory, NoneEmpty, OnePerEp
<1>2. ASSUME NEW r \in In("list"), req[r].ep = ep, Unlink(r),
             req' = [req EXCEPT ![r].at = "wait", ![r].td = "active"]
      PROVE Requests' /\ \A q \in Reqs : req[q].at = "list" /\ req[q].ep # ep => req'[q].at = "list"
  <2>1. r \in Reqs /\ req[r].at = "list"
    BY DEF In
  <2>2. Lists'
    BY <1>2, <2>1, RemoveKeepsLists DEF Requests
  <2>3. \A q \in Reqs : /\ req'[q].at = IF q = r THEN "wait" ELSE req[q].at
                        /\ req'[q].mem = req[q].mem /\ req'[q].ep = req[q].ep
    BY <1>2, <2>1 DEF Requests, Lists, Types, ReqType
  <2>4. Held'
    BY <2>1, <2>3 DEF Requests, Held
  <2>5. Memory'
    BY <2>1, <2>3 DEF Requests, Memory, NoneEmpty
  <2>6. OnePerEp'
    BY <2>3 DEF Requests, OnePerEp
  <2> QED  BY <1>2, <2>2, <2>3, <2>4, <2>5, <2>6 DEF Requests
<1> QED  BY <1>1, <1>2 DEF RemoveAsyncReq

\* The cleanup leaves no request.
LEMMA FreeAllStep ==
  ASSUME Requests, FreeAll, happened' = happened
  PROVE  Requests' /\ list' = <<>>
<1> USE RequestsAssumption
<1>1. Lists'
  BY FreeAllKeepsLists DEF Requests
<1>2. \A r \in Reqs : req'[r].at = "none" /\ req'[r].mem = {}
  BY DEF FreeAll, NoReq
<1>3. Held' /\ OnePerEp'
  BY <1>2 DEF Held, OnePerEp, FreeAll, AtStart
<1>4. Memory'
  <2>1. /\ pool' \in PoolType /\ NoneEmpty(pool')
        /\ pool'.marked = pool.marked \ Mem(Live)
    BY FreeMemFrees DEF Requests, Memory, FreeAll
  <2>2. ASSUME "leaked" \notin happened PROVE pool'.marked = {}
    BY <2>1, <2>2 DEF Requests, Memory, Mem, Live, In
  <2> QED  BY <1>2, <2>1, <2>2 DEF Memory, NoneEmpty
<1> QED  BY <1>1, <1>3, <1>4 DEF Requests, FreeAll

\* A tick of the recycler leaves every listed request listed.
LEMMA TickStep ==
  ASSUME Requests, Tick
  PROVE  Requests' /\ \A r \in Reqs : req[r].at = "list" => req'[r].at = "list"
<1> USE RequestsAssumption
<1>1. Lists'
  BY TickKeepsLists DEF Requests
<1>2. \A r \in Reqs :
        /\ req'[r].at = CASE req[r].at = "recycle" -> "none"
                          [] req[r].at = "wait"    -> "recycle"
                          [] OTHER                 -> req[r].at
        /\ req'[r].mem = IF req[r].at = "recycle" THEN {} ELSE req[r].mem
        /\ req[r].at # "recycle" => req'[r].ep = req[r].ep
  BY DEF Tick, In, NoReq, Requests, Lists, Types, ReqType
<1>3. \A r \in Reqs : req[r].at \in {"none", "list", "wait", "recycle"}
  BY DEF Requests, Lists, Types, ReqType
<1>4. Held'
  <2>1. hc'.run = hc.run /\ hc'.at = hc.at /\ ~hc'.fresh
    BY DEF Tick, Requests, Lists, Types
  <2>2. ASSUME "late" \notin happened', hc.at \in Reqs
        PROVE req'[hc.at].at \in {"list", "wait"} \/ req'[hc.at].at = "recycle"
    <3>1. hc.run /\ "late" \notin happened
      BY <2>2 DEF Requests, Held, Tick
    <3>2. req[hc.at].at \in {"list", "wait"} \/ (req[hc.at].at = "recycle" /\ ~hc.fresh)
      BY <2>2, <3>1 DEF Requests, Held
    <3>3. ASSUME req[hc.at].at = "recycle", ~hc.fresh PROVE FALSE
      <4>1. hc.at \in In("recycle")
        BY <2>2, <3>3 DEF In
      <4>2. "late" \in happened'
        BY <3>1, <3>3, <4>1 DEF Tick
      <4> QED  BY <2>2, <4>2
    <3> QED  BY <1>2, <2>2, <3>2, <3>3
  <2> QED  BY <2>1, <2>2 DEF Requests, Held
<1>5. Memory'
  <2>1. /\ pool' \in PoolType /\ NoneEmpty(pool')
        /\ pool'.marked = pool.marked \ Mem(In("recycle"))
    BY FreeMemFrees DEF Requests, Memory, Tick
  <2>2. \A r \in Reqs : req[r].at # "recycle" => req[r].mem \cap Mem(In("recycle")) = {}
    BY DEF Requests, Memory, Mem, In
  <2>3. \A r \in Reqs : req'[r].mem \subseteq pool'.marked
    BY <1>2, <2>1, <2>2 DEF Requests, Memory
  <2>4. \A r, s \in Reqs : r # s => req'[r].mem \cap req'[s].mem = {}
    BY <1>2 DEF Requests, Memory
  <2>5. \A r \in Reqs : req'[r].at = "none" => req'[r].mem = {}
    BY <1>2, <1>3 DEF Requests, Memory
  <2>6. "leaked" \in happened => "leaked" \in happened'
    BY DEF Tick
  <2>7. ASSUME "leaked" \notin happened', NEW x \in pool'.marked
        PROVE \E r \in Reqs : req'[r].at # "none" /\ x \in req'[r].mem
    <3>1. PICK r \in Reqs : req[r].at # "none" /\ x \in req[r].mem
      BY <2>1, <2>6, <2>7 DEF Requests, Memory
    <3>2. req[r].at # "recycle"
      BY <2>1, <3>1 DEF Mem, In
    <3> QED  BY <1>2, <1>3, <3>1, <3>2
  <2> QED  BY <2>1, <2>3, <2>4, <2>5, <2>7 DEF Memory, NoneEmpty
<1>6. OnePerEp'
  BY <1>2, <1>3 DEF Requests, OnePerEp
<1> QED  BY <1>1, <1>2, <1>4, <1>5, <1>6 DEF Requests

\* A step of the controller, or a write of a TD: it moves no request.
LEMMA SameRequests ==
  ASSUME Requests, req' \in [Reqs -> ReqType],
         \A r \in Reqs : /\ req'[r].at = req[r].at /\ req'[r].ep = req[r].ep
                         /\ req'[r].mem = req[r].mem,
         UNCHANGED <<pool, list, next, happened>>,
         hc' \in [run : BOOLEAN, at : Reqs \cup {SyncIntQh, CtrlQh}, fresh : BOOLEAN],
         Held'
  PROVE  Requests'
<1>1. Lists'
  BY SameLists DEF Requests
<1>2. Memory' /\ OnePerEp'
  BY DEF Requests, Memory, NoneEmpty, OnePerEp
<1> QED  BY <1>1, <1>2 DEF Requests

\* The monitor begins to check a request of a list l: what it will go on
\* with is another one of it.
LEMMA AtListed ==
  ASSUME NEW l \in Seq(Reqs), \A i, j \in 1..Len(l) : l[i] = l[j] => i = j,
         NEW r \in Reqs, \E i \in 1..Len(l) : l[i] = r
  PROVE  /\ At(r, l) \in [pc : {"idle", "check", "error", "deleted"},
                          cur : Reqs \cup {None}, link : Reqs \cup {None}]
         /\ At(r, l).pc = "check" /\ At(r, l).cur = r
         /\ At(r, l).link # r
         /\ At(r, l).link # None => \E i \in 1..Len(l) : l[i] = At(r, l).link
<1> USE RequestsAssumption
<1> DEFINE n == Len(l)
           i == Place(r, l)
<1>1. n \in Nat /\ DOMAIN l = 1..n
  BY LenProperties
<1>2. i \in 1..n /\ l[i] = r
  <2>1. \E j \in DOMAIN l : l[j] = r
    BY <1>1
  <2> QED  BY <1>1, <2>1 DEF Place
<1>3. After(r, l) = IF i = n THEN None ELSE l[i + 1]
  BY DEF After
<1> HIDE DEF i
<1>4. i # n => i + 1 \in 1..n /\ i + 1 # i
  <2>1. n \in Nat /\ i \in Nat /\ 1 <= i /\ i <= n
    BY <1>1, <1>2
  <2> HIDE DEF n
  <2> QED  BY <2>1
<1>5. i # n => l[i + 1] \in Reqs
  <2>1. \A j \in 1..n : l[j] \in Reqs
    BY ElementOfSeq
  <2> QED  BY <1>4, <2>1
<1>6. i # n => l[i + 1] # r
  <2>1. l[i + 1] = l[i] /\ i + 1 \in 1..n => i + 1 = i
    BY <1>2
  <2> QED  BY <1>2, <1>4, <2>1
<1> QED  BY <1>3, <1>4, <1>5, <1>6 DEF At

\* The invariant holds at first,
LEMMA InitInv == Init => Inv
<1> SUFFICES ASSUME Init PROVE Inv
  OBVIOUS
<1> USE RequestsAssumption, PoolAssumption
<1>1. \A r \in Reqs : req[r] = NoReq
  BY DEF Init
<1>2. Len(list) = 0 /\ list \in Seq(Reqs)
  BY DEF Init
<1>3. Lists
  BY <1>1, <1>2 DEF Init, Lists, Types, Once, Chained, Left, NoReq, AtStart, ReqType
<1>4. Held /\ OnePerEp
  BY <1>1 DEF Init, Held, OnePerEp, NoReq, AtStart
<1>5. Memory
  BY <1>1 DEF Init, Memory, NoReq, NewPool, PoolType, NoneEmpty
<1>6. Monitor
  BY DEF Init, Monitor, NoMon
<1> QED  BY <1>3, <1>4, <1>5, <1>6 DEF Inv, Requests

\* The monitor goes on with a request that is listed, or ends its round.
LEMMA AdvanceKeepsMonitor ==
  ASSUME Monitor, mon.pc # "idle", Lists', Advance(list'), drv' = drv,
         happened' \subseteq Mishaps,
         mon.link # None => req'[mon.link].at = "list"
  PROVE  Monitor'
<1> USE RequestsAssumption
<1>1. drv = "on" /\ mon.link \in Reqs \cup {None}
  BY DEF Monitor
<1>2. CASE mon.link = None
  BY <1>1, <1>2 DEF Monitor, Advance, NoMon
<1>3. CASE mon.link # None
  <2>1. mon' = At(mon.link, list')
    BY <1>3 DEF Advance
  <2>2. /\ mon' \in [pc : {"idle", "check", "error", "deleted"},
                     cur : Reqs \cup {None}, link : Reqs \cup {None}]
        /\ mon'.pc = "check" /\ mon'.cur = mon.link /\ mon'.link # mon.link
        /\ mon'.link # None => req'[mon'.link].at = "list"
    <3>1. /\ list' \in Seq(Reqs) /\ \A i, j \in 1..Len(list') : list'[i] = list'[j] => i = j
          /\ \A r \in Reqs : req'[r].at = "list" <=> \E i \in 1..Len(list') : list'[i] = r
      BY DEF Lists, Types, Once
    <3>2. mon.link \in Reqs /\ \E i \in 1..Len(list') : list'[i] = mon.link
      BY <1>1, <1>3, <3>1
    <3> QED  BY <2>1, <3>1, <3>2, AtListed
  <2> QED  BY <1>1, <1>3, <2>2 DEF Monitor
<1> QED  BY <1>2, <1>3

\* each step keeps it,
LEMMA InvNext == Inv /\ [Next]_vars => Inv'
<1> SUFFICES ASSUME Inv, [Next]_vars PROVE Inv'
  OBVIOUS
<1> USE RequestsAssumption DEF Inv
<1>a. /\ Lists /\ Held
      /\ req \in [Reqs -> ReqType]
      /\ hc \in [run : BOOLEAN, at : Reqs \cup {SyncIntQh, CtrlQh}, fresh : BOOLEAN]
      /\ happened \subseteq Mishaps
  BY DEF Requests, Lists, Types, Monitor
<1>1. CASE HcExecutes
  <2>1. PICK td \in {"done", "error"} : req' = [req EXCEPT ![hc.at].td = td]
    BY <1>1 DEF HcExecutes
  <2>2. hc.at \in Reqs
    BY <1>1 DEF HcExecutes, In
  <2>3. req' \in [Reqs -> ReqType]
    <3>1. [req[hc.at] EXCEPT !.td = td] \in ReqType
      BY <1>a, <2>2 DEF ReqType
    <3>2. req' = [req EXCEPT ![hc.at] = [req[hc.at] EXCEPT !.td = td]]
      BY <2>1
    <3> QED  BY <1>a, <3>1, <3>2
  <2>4. \A r \in Reqs : /\ req'[r].at = req[r].at /\ req'[r].ep = req[r].ep
                        /\ req'[r].mem = req[r].mem
    BY <1>a, <2>1, <2>2 DEF ReqType
  <2>5. UNCHANGED <<pool, list, next, happened, drv, mon, hc>>
    BY <1>1 DEF HcExecutes, driverVars
  <2>6. Held' /\ Monitor'
    BY <2>4, <2>5 DEF Requests, Held, Monitor
  <2> QED  BY <1>a, <2>3, <2>4, <2>5, <2>6, SameRequests
<1>2. CASE HcMoves
  <2>1. UNCHANGED <<pool, list, next, happened, drv, mon, req>>
    BY <1>2 DEF HcMoves, driverVars
  <2>2. hc'.run = hc.run /\ hc'.fresh = hc.fresh /\ hc'.at = next[hc.at] /\ hc.run /\ hc.at # CtrlQh
    BY <1>a, <1>2 DEF HcMoves
  <2>3. hc.at \in Reqs \cup {SyncIntQh} /\ next[hc.at] \in Reqs \cup {CtrlQh}
    BY <1>a, <2>2 DEF Lists, Types
  <2>4. hc' \in [run : BOOLEAN, at : Reqs \cup {SyncIntQh, CtrlQh}, fresh : BOOLEAN]
    BY <1>a, <1>2, <2>3 DEF HcMoves
  <2>5. ASSUME "late" \notin happened, next[hc.at] \in Reqs
        PROVE \/ req[next[hc.at]].at \in {"list", "wait"}
              \/ req[next[hc.at]].at = "recycle" /\ ~hc.fresh
    <3>1. Len(list) \in Nat /\ \A i \in 1..Len(list) : list[i] \in Reqs /\ req[list[i]].at = "list"
      BY <1>a, LenProperties, ElementOfSeq DEF Lists, Types, Once
    <3>2. CASE hc.at = SyncIntQh
      <4>1. Len(list) # 0 /\ next[hc.at] = list[1]
        BY <1>a, <2>5, <3>2 DEF Lists, Chained
      <4>2. 1 \in 1..Len(list)
        BY <3>1, <4>1
      <4> QED  BY <3>1, <4>1, <4>2
    <3>3. CASE hc.at \in Reqs /\ req[hc.at].at = "list"
      <4>1. PICK i \in 1..Len(list) : list[i] = hc.at
        BY <1>a, <3>3 DEF Lists, Once
      <4>2. i # Len(list) /\ next[hc.at] = list[i + 1]
        BY <1>a, <2>5, <4>1 DEF Lists, Chained
      <4>3. i + 1 \in 1..Len(list)
        BY <3>1, <4>1, <4>2
      <4> QED  BY <3>1, <4>2, <4>3
    <3>4. CASE hc.at \in Reqs /\ req[hc.at].at # "list"
      BY <1>a, <2>5, <3>4 DEF Held, Lists, Left
    <3> QED  BY <2>3, <3>2, <3>3, <3>4
  <2>6. Held'
    BY <2>1, <2>2, <2>5 DEF Held
  <2>7. Monitor'
    BY <2>1 DEF Monitor
  <2> QED  BY <1>a, <2>1, <2>4, <2>6, <2>7, SameRequests
<1>3. CASE FrameEnds
  <2>1. UNCHANGED <<pool, list, next, happened, drv, mon, req>>
    BY <1>3 DEF FrameEnds, driverVars
  <2>2. hc' \in [run : BOOLEAN, at : Reqs \cup {SyncIntQh, CtrlQh}, fresh : BOOLEAN]
    BY <1>3 DEF FrameEnds, AtStart
  <2>3. Held' /\ Monitor'
    BY <1>3, <2>1 DEF FrameEnds, AtStart, Held, Monitor
  <2> QED  BY <1>a, <2>1, <2>2, <2>3, SameRequests
<1>4. CASE UserSubmits
  <2>1. PICK ep \in Eps : Submit(ep)
    BY <1>4 DEF UserSubmits
  <2>2. Requests' /\ happened' \subseteq Mishaps
    BY <1>a, <2>1, SubmitStep
  <2>3. drv' = drv /\ mon' = mon /\ drv = "on" /\ mon.pc = "idle"
    BY <1>4, <2>1 DEF UserSubmits, AtNotify, Submit
  <2>4. Monitor'
    BY <2>2, <2>3 DEF Monitor
  <2> QED  BY <2>2, <2>4
<1>5. CASE UserDeletes
  <2>1. PICK ep \in Eps : RemoveAsyncReq(ep)
    BY <1>5 DEF UserDeletes
  <2>2. UNCHANGED <<pool, hc, drv, mon, happened>> /\ drv = "on" /\ mon.pc = "idle"
    BY <1>5 DEF UserDeletes, AtNotify
  <2>3. Requests'
    BY <2>1, <2>2, RemoveStep
  <2>4. Monitor'
    BY <2>2 DEF Monitor
  <2> QED  BY <2>3, <2>4
<1>6. CASE SetState
  <2>1. UNCHANGED <<pool, list, next, happened, drv, mon, req>>
    BY <1>6 DEF SetState
  <2>2. hc' \in [run : BOOLEAN, at : Reqs \cup {SyncIntQh, CtrlQh}, fresh : BOOLEAN]
    BY <1>a, <1>6 DEF SetState, AtStart
  <2>3. Held' /\ Monitor'
    BY <1>6, <2>1 DEF SetState, AtStart, Held, Monitor
  <2> QED  BY <1>a, <2>1, <2>2, <2>3, SameRequests
<1>7. CASE Reset
  <2>1. Requests' /\ drv = "on" /\ mon.pc = "idle" /\ UNCHANGED <<drv, mon, happened>>
    BY <1>7, FreeAllStep DEF Reset, AtNotify
  <2>2. Monitor'
    BY <2>1 DEF Monitor
  <2> QED  BY <2>1, <2>2
<1>8. CASE StopBegins
  <2>1. UNCHANGED <<pool, list, next, happened, mon, req>>
    BY <1>8 DEF StopBegins
  <2>2. hc' \in [run : BOOLEAN, at : Reqs \cup {SyncIntQh, CtrlQh}, fresh : BOOLEAN]
    BY <1>8 DEF StopBegins, AtStart
  <2>3. Held'
    BY <1>8, <2>1 DEF StopBegins, AtStart, Held
  <2>4. list = <<>>
    <3>1. \A i \in 1..Len(list) : list[i] \in Reqs /\ req[list[i]].at = "list"
      BY <1>a, ElementOfSeq DEF Lists, Types, Once
    <3>2. \A i \in 1..Len(list) : FALSE
      BY <1>8, <3>1 DEF StopBegins, In
    <3>3. Len(list) \in Nat
      BY <1>a, LenProperties DEF Lists, Types
    <3>4. Len(list) = 0
      <4>1. Len(list) # 0 => 1 \in 1..Len(list)
        BY <3>3
      <4> QED  BY <3>2, <4>1
    <3> QED  BY <1>a, <3>4, EmptySeq DEF Lists, Types
  <2>5. Monitor'
    BY <1>8, <2>1, <2>4 DEF StopBegins, AtNotify, Monitor
  <2> QED  BY <1>a, <2>1, <2>2, <2>3, <2>5, SameRequests
<1>9. CASE StopEnds
  <2>1. Requests' /\ UNCHANGED <<mon, happened>> /\ drv = "stopping" /\ drv' = "off"
    BY <1>9, FreeAllStep DEF StopEnds
  <2>2. Monitor'
    BY <2>1 DEF Monitor
  <2> QED  BY <2>1, <2>2
<1>10. CASE Tick
  <2>1. Requests'
    BY <1>10, TickStep
  <2>2. mon.pc = "idle" /\ happened' \subseteq Mishaps /\ list' = list
    BY <1>10 DEF Tick, TimerRuns, Monitor, Mishaps
  <2>3. CASE list = <<>> \/ hc.at \in In("recycle")
    <3>1. mon' = NoMon
      BY <1>10, <2>3 DEF Tick
    <3>2. drv' \in {drv, "undefined"}
      BY <1>10 DEF Tick
    <3> QED  BY <2>1, <2>2, <3>1, <3>2 DEF Monitor, NoMon
  <2>4. CASE list # <<>> /\ hc.at \notin In("recycle")
    <3>1. mon' = At(Head(list), list) /\ drv' = drv
      BY <1>10, <2>4 DEF Tick
    <3>2. Head(list) = list[1] /\ 1 \in 1..Len(list) /\ list[1] \in Reqs
      BY <1>a, <2>4, LenProperties, ElementOfSeq, EmptySeq DEF Lists, Types
    <3>3. drv = "on"
      BY <1>10, <2>4 DEF Tick, TimerRuns, Monitor
    <3>4. /\ list \in Seq(Reqs) /\ \A i, j \in 1..Len(list) : list[i] = list[j] => i = j
          /\ \A r \in Reqs : req'[r].at = "list" <=> \E i \in 1..Len(list) : list[i] = r
      BY <1>a, <2>1, <2>2 DEF Requests, Lists, Types, Once
    <3>5. /\ mon' \in [pc : {"idle", "check", "error", "deleted"},
                       cur : Reqs \cup {None}, link : Reqs \cup {None}]
          /\ mon'.pc = "check" /\ mon'.cur = list[1] /\ mon'.link # list[1]
          /\ mon'.link # None => \E i \in 1..Len(list) : list[i] = mon'.link
      BY <3>1, <3>2, <3>4, AtListed
    <3>6. req'[list[1]].at = "list"
      BY <3>2, <3>4
    <3> QED  BY <2>1, <2>2, <3>1, <3>2, <3>3, <3>4, <3>5, <3>6 DEF Monitor
  <2> QED  BY <2>1, <2>3, <2>4
<1>11. CASE TickAmidStop
  <2>1. UNCHANGED <<pool, list, next, hc, mon, req>> /\ mon.pc = "idle"
    BY <1>11 DEF TickAmidStop, TimerRuns
  <2>2. happened' = happened \cup {"interrupted"} /\ drv' = "undefined"
    BY <1>11 DEF TickAmidStop
  <2>3. Lists'
    BY <1>a, <2>1, SameLists
  <2>4. Held' /\ Memory' /\ OnePerEp'
    BY <2>1, <2>2 DEF Requests, Held, Memory, NoneEmpty, OnePerEp
  <2>5. Monitor'
    BY <2>1, <2>2 DEF Monitor, Mishaps
  <2> QED  BY <2>3, <2>4, <2>5 DEF Requests
<1>12. ASSUME mon.pc # "idle", Advance(list),
              req' \in [Reqs -> ReqType],
              \A r \in Reqs : /\ req'[r].at = req[r].at /\ req'[r].ep = req[r].ep
                              /\ req'[r].mem = req[r].mem,
              UNCHANGED <<pool, list, next, hc, drv, happened>>
       PROVE Inv'
  <2>1. Held'
    BY <1>12, <1>a DEF Held
  <2>2. Requests'
    BY <1>a, <1>12, <2>1, SameRequests
  <2>3. mon.link # None => mon.link \in Reqs /\ req[mon.link].at = "list"
    BY <1>12 DEF Monitor
  <2>4. Monitor'
    BY <1>a, <1>12, <2>2, <2>3, AdvanceKeepsMonitor DEF Requests
  <2> QED  BY <2>2, <2>4
<1>13. CASE NotFinished
  <2>1. mon.pc # "idle"
    BY <1>13 DEF NotFinished, Checking
  <2> QED  BY <1>a, <1>12, <1>13, <2>1 DEF NotFinished
<1>14. CASE Reports
  <2>1. mon.pc # "idle" /\ mon.cur \in Reqs
    BY <1>14 DEF Reports, Checking, Monitor
  <2>2. req' \in [Reqs -> ReqType]
    <3>1. [req[mon.cur] EXCEPT !.td = "active"] \in ReqType
      BY <1>a, <2>1 DEF ReqType
    <3>2. req' = [req EXCEPT ![mon.cur] = [req[mon.cur] EXCEPT !.td = "active"]]
      BY <1>14 DEF Reports
    <3> QED  BY <1>a, <3>1, <3>2
  <2>3. \A r \in Reqs : /\ req'[r].at = req[r].at /\ req'[r].ep = req[r].ep
                        /\ req'[r].mem = req[r].mem
    BY <1>a, <1>14, <2>1 DEF Reports, ReqType
  <2> QED  BY <1>12, <1>14, <2>1, <2>2, <2>3 DEF Reports
<1>15. ASSUME mon.pc = "check", mon' \in {NoMon, [mon EXCEPT !.pc = "error"]},
              UNCHANGED <<pool, req, list, next, hc, drv, happened>>
       PROVE Inv'
  <2>1. Held' /\ OnePerEp' /\ Memory'
    BY <1>15 DEF Requests, Held, OnePerEp, Memory, NoneEmpty
  <2>2. Lists'
    BY <1>a, <1>15, SameLists
  <2>3. Monitor'
    BY <1>15 DEF Monitor, NoMon
  <2> QED  BY <2>1, <2>2, <2>3 DEF Requests
<1>16. CASE NoCopy
  BY <1>15, <1>16 DEF NoCopy, Checking
<1>17. CASE ReportsError
  BY <1>15, <1>17 DEF ReportsError, Checking
<1>18. CASE CallbackDeletes
  <2> DEFINE ep == req[mon.cur].ep
  <2>1. RemoveAsyncReq(ep) /\ UNCHANGED <<pool, hc, drv, happened>> /\ mon.pc = "error"
        /\ mon' = [mon EXCEPT !.pc = "deleted"]
    BY <1>18 DEF CallbackDeletes
  <2>2. Requests' /\ \A r \in Reqs : req[r].at = "list" /\ req[r].ep # ep => req'[r].at = "list"
    BY <2>1, RemoveStep
  <2>3. mon.link # None => mon.link \in Reqs /\ req[mon.link].at = "list" /\ req[mon.link].ep # ep
    BY <2>1 DEF Monitor, Requests, OnePerEp
  <2>4. Monitor'
    BY <2>1, <2>2, <2>3 DEF Monitor
  <2> QED  BY <2>2, <2>4
<1>19. CASE CallbackReturns
  <2>1. mon.pc = "deleted" /\ Advance(list')
    BY <1>19 DEF CallbackReturns
  <2>2. mon.link # None => mon.link \in Reqs /\ req[mon.link].at = "list"
    BY <2>1 DEF Monitor
  <2>3. CASE UNCHANGED <<pool, req, list, next, hc, drv, happened>>
    BY <1>a, <1>12, <2>1, <2>3
  <2>4. CASE req[mon.cur].ep \in Hubs /\ Submit(req[mon.cur].ep)
    <3>1. /\ Requests' /\ happened' \subseteq Mishaps
          /\ \A r \in Reqs : req[r].at = "list" => req'[r].at = "list"
      BY <1>a, <2>4, SubmitStep
    <3>2. drv' = drv
      BY <2>4 DEF Submit
    <3>3. Monitor'
      BY <2>1, <2>2, <3>1, <3>2, AdvanceKeepsMonitor DEF Requests
    <3> QED  BY <3>1, <3>3
  <2> QED  BY <1>19, <2>3, <2>4 DEF CallbackReturns
<1>20. CASE UNCHANGED vars
  <2>1. UNCHANGED <<pool, req, list, next, hc, drv, happened, mon>>
    BY <1>20 DEF vars
  <2>2. Lists'
    BY <1>a, <2>1, SameLists
  <2>3. Held' /\ OnePerEp' /\ Memory' /\ Monitor'
    BY <2>1 DEF Requests, Held, OnePerEp, Memory, NoneEmpty, Monitor
  <2> QED  BY <2>2, <2>3 DEF Requests
<1> QED
  BY <1>1, <1>2, <1>3, <1>4, <1>5, <1>6, <1>7, <1>8, <1>9, <1>10, <1>11, <1>13, <1>14,
     <1>16, <1>17, <1>18, <1>19, <1>20 DEF Next, Controller, User, Round

\* so it always holds.
LEMMA InvAlways == SafeSpec => []Inv
BY InitInv, InvNext, PTL DEF SafeSpec

\* While the ticks come apart, the controller never stands at a queue head
\* that was freed: RecycleWait and Recycle are enough (UhciRecycleAsyncReq).
THEOREM NeverHeldWhenFreed == SafeSpec => []NoFreedHeld
<1>1. Inv => NoFreedHeld
  BY DEF Inv, Requests, Held, NoFreedHeld, In
<1> QED  BY <1>1, InvAlways, PTL

\* No unit of the pool belongs to two requests, or to one and to nobody
\* (UsbHcAllocateMem, UsbHcFreeMem, and what the driver makes of them).
THEOREM OneOwnerHolds == SafeSpec => []OneOwner
<1>1. Inv => OneOwner
  BY DEF Inv, Requests, Memory, OneOwner, Mem, Live
<1> QED  BY <1>1, InvAlways, PTL

\* Type correctness, no memory lost, the schedule is AsyncIntList, and the
\* monitor's loop is delete safe.
THEOREM UhciInvHolds == SafeSpec => []UhciInv
<1>1. ASSUME Inv PROVE TypeOK
  BY <1>1 DEF Inv, Requests, Lists, Types, ReqType, Memory, PoolType, Monitor, TypeOK
<1>2. ASSUME Inv PROVE NoneLost
  BY <1>2 DEF Inv, Requests, Memory, NoneEmpty, NoneLost, Mem, Live, In
<1>3. ASSUME Inv PROVE LinkIsListed
  BY <1>3 DEF Inv, Monitor, LinkIsListed, In
<1>4. ASSUME Inv PROVE ChainIsList
  <2>1. /\ Len(list) \in Nat /\ DOMAIN list = 1..Len(list)
        /\ \A i \in 1..Len(list) : list[i] \in Reqs
    BY <1>4, LenProperties, ElementOfSeq DEF Inv, Requests, Lists, Types
  <2>2. {list[i] : i \in DOMAIN list} = In("list")
    BY <1>4, <2>1 DEF Inv, Requests, Lists, Once, In
  <2>3. ASSUME NEW i \in 0..Len(list)
        PROVE next[IF i = 0 THEN SyncIntQh ELSE list[i]] = IF i = Len(list) THEN CtrlQh ELSE list[i + 1]
    <3>1. CASE i = 0
      <4>1. next[SyncIntQh] = IF Len(list) = 0 THEN CtrlQh ELSE list[1]
        BY <1>4 DEF Inv, Requests, Lists, Chained
      <4>2. i + 1 = 1
        BY <3>1
      <4> QED  BY <3>1, <4>1, <4>2
    <3>2. CASE i # 0
      <4>1. i \in 1..Len(list)
        BY <2>1, <3>2
      <4> QED  BY <1>4, <3>2, <4>1 DEF Inv, Requests, Lists, Chained
    <3> QED  BY <3>1, <3>2
  <2> QED  BY <2>2, <2>3 DEF ChainIsList
<1>5. Inv => UhciInv
  BY <1>1, <1>2, <1>3, <1>4 DEF UhciInv
<1> QED  BY <1>5, InvAlways, PTL

-----------------------------------------------------------------------------
(* EhciQueue.                                                              *)

-----------------------------------------------------------------------------
(* The tables of the qTDs.                                                 *)

Tds == [status : {"active", "done"} \cup Halts, total : 0 .. Packets]
Size(kind) == IF kind = "interrupt" THEN 1 ELSE IF kind = "control" THEN DataQtds + 2 ELSE 2
PidOf(kind, j) ==
  IF kind = "out" THEN "out"
  ELSE IF kind = "control" /\ j = 1 THEN "setup"
  ELSE IF kind = "control" /\ j = DataQtds + 2 THEN "status"
  ELSE "in"

(* The packet identifiers of EhcCreateQtds as a table.                     *)
LEMMA PidsAre ==
  ASSUME NEW kind \in Kinds
  PROVE  /\ Pids(kind) \in Seq({"setup", "in", "out", "status"})
         /\ Len(Pids(kind)) = Size(kind) /\ DOMAIN Pids(kind) = 1 .. Size(kind)
         /\ Size(kind) \in 1 .. 4
         /\ \A j \in 1 .. Size(kind) : Pids(kind)[j] = PidOf(kind, j)
<1> DEFINE S == {"setup", "in", "out", "status"}
<1>1. CASE kind = "control"
  <2> DEFINE data == [i \in 1 .. DataQtds |-> "in"]
  <2>1. data \in Seq(S) /\ Len(data) = DataQtds /\ DataQtds \in Nat
    BY QueueAssumption
  <2>2. <<"setup">> \in Seq(S) /\ <<"status">> \in Seq(S) /\ Len(<<"setup">>) = 1 /\ Len(<<"status">>) = 1
    OBVIOUS
  <2>3. PICK a, c : a = <<"setup">> /\ c = <<"status">>
    OBVIOUS
  <2>4. PICK b : b = data
    OBVIOUS
  <2>5. \A i \in 1 .. DataQtds : b[i] = "in"
    BY <2>4
  <2>6. /\ a \o b \in Seq(S) /\ Len(a \o b) = DataQtds + 1
        /\ \A i \in 1 .. DataQtds + 1 : (a \o b)[i] = IF i = 1 THEN "setup" ELSE "in"
    <3>1. a \in Seq(S) /\ b \in Seq(S) /\ Len(a) = 1 /\ Len(b) = DataQtds /\ a[1] = "setup"
      BY <2>1, <2>2, <2>3, <2>4
    <3>2. /\ a \o b \in Seq(S) /\ Len(a \o b) = Len(a) + Len(b)
          /\ \A i \in 1 .. Len(a) + Len(b) : (a \o b)[i] = IF i <= Len(a) THEN a[i] ELSE b[i - Len(a)]
      <4> HIDE DEF S
      <4> QED
        BY <3>1, ConcatProperties
    <3> HIDE DEF S
    <3> QED
      BY <2>1, <2>5, <3>1, <3>2
  <2>7. /\ (a \o b) \o c \in Seq(S) /\ Len((a \o b) \o c) = DataQtds + 2
        /\ \A i \in 1 .. DataQtds + 2 : ((a \o b) \o c)[i] =
             IF i = 1 THEN "setup" ELSE IF i = DataQtds + 2 THEN "status" ELSE "in"
    <3>1. c \in Seq(S) /\ Len(c) = 1 /\ c[1] = "status"
      BY <2>2, <2>3
    <3>2. PICK ab : ab = a \o b
      OBVIOUS
    <3>3. /\ ab \o c \in Seq(S) /\ Len(ab \o c) = Len(ab) + Len(c)
          /\ \A i \in 1 .. Len(ab) + Len(c) : (ab \o c)[i] = IF i <= Len(ab) THEN ab[i] ELSE c[i - Len(ab)]
      <4> HIDE DEF S
      <4>1. ab \in Seq(S)
        BY <2>6, <3>2
      <4> QED
        BY <3>1, <4>1, ConcatProperties
    <3> HIDE DEF S
    <3> QED
      BY <2>1, <2>6, <3>1, <3>2, <3>3
  <2>8. Pids(kind) = (a \o b) \o c
    BY <1>1, <2>3, <2>4, Zenon DEF Pids
  <2>9. Size(kind) = DataQtds + 2 /\ Size(kind) \in 1 .. 4
    BY <1>1, QueueAssumption DEF Size
  <2>10. PICK p : p = (a \o b) \o c
    OBVIOUS
  <2>11. /\ p \in Seq(S) /\ Len(p) = DataQtds + 2 /\ DOMAIN p = 1 .. DataQtds + 2
         /\ \A i \in 1 .. DataQtds + 2 : p[i] = PidOf(kind, i)
    BY <1>1, <2>7, <2>10 DEF PidOf
  <2> QED
    BY <2>8, <2>9, <2>10, <2>11
<1>2. CASE kind \in {"in", "out"}
  <2>1. Pids(kind) = <<PidOf(kind, 1), PidOf(kind, 2)>> /\ Size(kind) = 2
    BY <1>2 DEF Pids, Size, PidOf
  <2>2. PidOf(kind, 1) \in S /\ PidOf(kind, 2) \in S
    BY DEF PidOf
  <2> QED
    BY <2>1, <2>2
<1>3. CASE kind = "interrupt"
  <2>1. Pids(kind) = <<PidOf(kind, 1)>> /\ Size(kind) = 1
    BY <1>3 DEF Pids, Size, PidOf
  <2>2. PidOf(kind, 1) \in S
    BY DEF PidOf
  <2> QED
    BY <2>1, <2>2
<1> QED
  BY <1>1, <1>2, <1>3 DEF Kinds

(* The data of a transfer, in packets                                      *)
DataQtdsOf(kind) == IF kind \in {"in", "out"} \/ (kind = "control" /\ DataQtds = 2) THEN 2 ELSE 1
FirstData(kind) == IF kind = "control" THEN 2 ELSE 1

(* EhcCreateUrb is asked for the data of so many qTDs.                     *)
LEMMA DataLenIs ==
  ASSUME NEW kind \in Kinds
  PROVE  DataLen(kind) = Packets * DataQtdsOf(kind)
<1> DEFINE at == {i \in DOMAIN Pids(kind) : Pids(kind)[i] \in {"in", "out"}}
           d == FirstData(kind)
<1>1. at = IF DataQtdsOf(kind) = 2 THEN {d, d + 1} ELSE {d}
  BY PidsAre, QueueAssumption DEF Kinds, Size, PidOf, DataQtdsOf, FirstData
<1>2. d \in Nat /\ Cardinality({d}) = 1 /\ Cardinality({d, d + 1}) = 2
  <2>1. d \in Nat /\ d # d + 1
    BY DEF FirstData
  <2> HIDE DEF d
  <2> QED
    <3>1. IsFiniteSet({d}) /\ Cardinality({d}) = 1
      BY FS_Singleton
    <3>2. {d, d + 1} = {d} \cup {d + 1} /\ d + 1 \notin {d}
      BY <2>1
    <3>3. Cardinality({d} \cup {d + 1}) = Cardinality({d}) + 1
      BY <3>1, <3>2, FS_AddElement
    <3> QED
      BY <2>1, <3>1, <3>2, <3>3
<1>3. Cardinality(at) = DataQtdsOf(kind)
  BY <1>1, <1>2 DEF DataQtdsOf
<1> QED
  BY <1>3 DEF DataLen

-----------------------------------------------------------------------------
(* The inductive invariant.                                                *)

Pd(j) == Pids(call.kind)[j]
Updates == {"alt", "total", "next"}
Calls == [pc : Steps, kind : Kinds \cup {"none"}, by : {"sync", "monitor", "delete"},
          i : 1 .. 5, completed : 0 .. 2 * Packets, result : Results,
          finished : BOOLEAN, toggle : 0 .. 1, inStep : BOOLEAN]
Overlays == [status : {"idle", "active"} \cup Halts, total : 0 .. Packets,
             cur : 0 .. 4, next : Links, alt : Links, toggle : 0 .. 1]
Devices == [toggle : 0 .. 1, moved : 0 .. 2 * Packets + 1, short : BOOLEAN, status : BOOLEAN,
            over : BOOLEAN, stalled : BOOLEAN]

(* The overlay was loaded from the qTD it names.                           *)
Loaded ==
  /\ overlay.cur \in DOMAIN qtds
  /\ overlay.next = NextQtd(call.kind, overlay.cur)
  /\ overlay.alt = AltNext(call.kind, overlay.cur)

(* Where the controller is.                                                *)
Armed == /\ overlay.next = 1 /\ overlay.status = "idle" /\ ~retire
         /\ overlay.total = 0 /\ overlay.alt = Zero
         /\ \A j \in DOMAIN qtds : qtds[j].status = "active"
Executing == /\ overlay.status = "active" /\ ~retire /\ Loaded
             /\ qtds[overlay.cur].status = "active"
             /\ overlay.total = 0 <=> Pd(overlay.cur) = "status"
             /\ overlay.total <= Capacity(Pd(overlay.cur))
Retiring == /\ overlay.status # "active" /\ retire /\ Loaded
            /\ qtds[overlay.cur].status = "active"
            /\ overlay.total <= Capacity(Pd(overlay.cur))
Halted == /\ overlay.status \in Halts /\ ~retire /\ Loaded
          /\ qtds[overlay.cur].status = overlay.status
          /\ qtds[overlay.cur].total = overlay.total
Retired == /\ overlay.status = "idle" /\ ~retire /\ Loaded
           /\ qtds[overlay.cur].status = "done"
           /\ qtds[overlay.cur].total = overlay.total
Updated == /\ call.pc \in Updates /\ ~retire
           /\ overlay.status = "idle" \/ (call.pc = "alt" /\ overlay.status = "retried")
           /\ \A j \in DOMAIN qtds : qtds[j].status = "active"
           /\ overlay.next = Terminate
           /\ CASE call.pc = "alt" -> overlay.alt = Stop
                [] call.pc = "total" -> overlay.alt = Zero
                [] call.pc = "next" -> overlay.alt = Zero /\ overlay.total = 0
Gone == call.pc = "none" /\ qtds = <<>> /\ overlay = NoQh /\ ~linked /\ ~retire

Stage == \/ Gone
         \/ /\ call.pc # "none" /\ linked
            /\ IF call.pc \in Updates THEN Updated
               ELSE Armed \/ Executing \/ Retiring \/ Halted \/ Retired

CallShape ==
  /\ call.kind = "none" <=> call.pc = "none"
  /\ call.pc \in {"wait", "qtds", "callback"} \cup Updates => call.kind = "interrupt"
  /\ call.pc = "poll" => call.kind # "interrupt"
  /\ call.pc \in {"read", "exit", "unlink"} => (call.by = "sync" <=> call.kind # "interrupt")
  /\ call.pc \in {"qtds"} \cup Updates => call.by = "monitor" /\ call.result = "noerror" /\ call.finished
  /\ call.pc = "callback" => call.by = "monitor" /\ call.finished
  /\ call.pc = "read" => call.i \in DOMAIN qtds /\ call.result = "noerror" /\ call.finished

(* What the qTDs say.                                                      *)
QtdShape ==
  \A j \in DOMAIN qtds :
    /\ qtds[j].status = "active" => qtds[j].total = Capacity(Pd(j))
    /\ qtds[j].total <= Capacity(Pd(j))
    /\ qtds[j].status = "done" => qtds[j].total = 0 \/ (Pd(j) = "in" /\ device.short)
    /\ qtds[j].status \in Halts => j = overlay.cur /\ Halted
    /\ qtds[j].status = "done" /\ qtds[j].total # 0 /\ AltNext(call.kind, j) = Stop =>
         j = overlay.cur /\ Retired
    /\ qtds[j].status = "done" /\ Pd(j) = "status" => j = overlay.cur /\ Retired /\ device.status
    /\ qtds[j].status # "active" /\ overlay.next # 1 => j <= overlay.cur

(* A short packet is the last of its queue, but for the status stage.      *)
ShortShape ==
  /\ ~device.over
  /\ call.pc \notin {"none"} \cup Updates =>
       /\ overlay.status = "retried" => device.stalled
       /\ overlay.next # 1 /\ overlay.status = "idle" /\ overlay.total # 0 => Pd(overlay.cur) = "in" /\ device.short
       /\ overlay.next # 1 /\ overlay.status = "idle" /\ Pd(overlay.cur) = "status" => device.status
       /\ device.short =>
            /\ overlay.next # 1
            /\ \/ Pd(overlay.cur) = "status"
               \/ Pd(overlay.cur) = "in" /\ overlay.status = "idle" /\ overlay.total # 0

(* The packets that the controller took for the qTD j                      *)
Took(j) ==
  IF qtds[j].status # "active" THEN Capacity(Pd(j)) - qtds[j].total
  ELSE IF overlay.next # 1 /\ overlay.cur = j THEN Capacity(Pd(j)) - overlay.total
  ELSE 0
D1 == FirstData(call.kind)
Two == DataQtdsOf(call.kind) = 2
HostMoved == Took(D1) + (IF Two THEN Took(D1 + 1) ELSE 0)

Toggles ==
  /\ call.pc # "none" /\ call.inStep /\ call.kind # "control" => overlay.toggle = device.toggle
  /\ call.pc \notin {"none"} \cup Updates =>
       /\ call.inStep => device.moved = HostMoved
       /\ ~Agree => device.moved = HostMoved
       /\ device.moved - HostMoved \in -1 .. 1

(* What was read of the qTDs                                               *)
HasRead(j) == IF call.i > j THEN Packets - qtds[j].total ELSE 0
Reading ==
  call.pc \in {"read", "exit", "unlink", "qtds"} =>
    /\ call.completed = HasRead(D1) + (IF Two THEN HasRead(D1 + 1) ELSE 0)
    /\ call.i <= Len(qtds) + 1
    /\ \A j \in 1 .. call.i - 1 : qtds[j].status = "done"

Quiet ==
  /\ overlay.status # "active" /\ ~retire
  /\ overlay.status = "idle" /\ Leads \in DOMAIN qtds => qtds[Leads].status # "active"
Ended == call.pc \in {"exit", "unlink", "qtds"} /\ call.finished /\ call.result = "noerror"
Failed == call.pc \in {"exit", "unlink", "callback"} /\ call.finished /\ call.result # "noerror"

(* The queue was executed to its end, or halted by a stall that the driver *)
(* takes for no error.                                                     *)
Complete ==
  /\ Retired /\ call.completed = HostMoved
  /\ device.short \/ call.completed = DataLen(call.kind)
  /\ call.kind = "control" => device.status
Hidden == Halted /\ overlay.status = "retried" /\ call.completed <= HostMoved

Finishing ==
  /\ Ended => Quiet /\ (Complete \/ Hidden)
  /\ Failed => Halted
  /\ call.pc \in Updates => Quiet
  /\ call.pc \in Updates /\ call.inStep => DataIsReal
  /\ (Ended \/ Failed) /\ call.pc # "exit" /\ call.kind # "control" /\ call.inStep => call.toggle = device.toggle

QInv == QueueTypeOK /\ qtds \in Seq(Tds) /\ CallShape /\ Stage /\ QtdShape /\ ShortShape /\ Toggles /\ Reading /\ Finishing


-----------------------------------------------------------------------------
(* What the invariant says of a transfer that is under way.                *)
LEMMA Facts ==
  ASSUME QInv, call.pc # "none"
  PROVE  /\ call.kind \in Kinds /\ linked
         /\ DOMAIN qtds = 1 .. Size(call.kind) /\ Len(qtds) = Size(call.kind) /\ Size(call.kind) \in 1 .. 4
         /\ \A j \in DOMAIN qtds : qtds[j] \in Tds /\ Pids(call.kind)[j] = PidOf(call.kind, j)
<1>1. call.kind \in Kinds /\ linked
  BY DEF QInv, QueueTypeOK, CallShape, Stage, Gone
<1>2. Len(qtds) = Size(call.kind) /\ qtds \in Seq(Tds)
  BY <1>1, PidsAre DEF QInv, QueueTypeOK
<1> QED
  BY <1>1, <1>2, PidsAre

(* Where the data are: the other qTDs hold a setup or a status stage.      *)
LEMMA DataAt ==
  ASSUME QInv, call.pc # "none"
  PROVE  /\ D1 \in DOMAIN qtds /\ D1 \in Nat
         /\ Two => D1 + 1 \in DOMAIN qtds
         /\ \A j \in DOMAIN qtds : Pd(j) \in {"in", "out"} <=> j = D1 \/ (Two /\ j = D1 + 1)
         /\ \A j \in DOMAIN qtds : Pd(j) \in {"in", "out"} => Capacity(Pd(j)) = Packets
<1>1. /\ call.kind \in Kinds
      /\ DOMAIN qtds = 1 .. Size(call.kind)
      /\ \A j \in DOMAIN qtds : Pd(j) = PidOf(call.kind, j)
  BY Facts DEF Pd
<1>2. \A j \in DOMAIN qtds : Pd(j) \in {"in", "out"} => Capacity(Pd(j)) = Packets
  BY DEF Capacity
<1> HIDE DEF Pd
<1>3. CASE call.kind = "control"
  BY <1>1, <1>2, <1>3, QueueAssumption DEF Size, PidOf, D1, Two, FirstData, DataQtdsOf
<1>4. CASE call.kind # "control"
  BY <1>1, <1>2, <1>4, QueueAssumption DEF Size, PidOf, D1, Two, FirstData, DataQtdsOf, Kinds
<1> QED
  BY <1>3, <1>4

(* A controller that has a step finds the driver waiting for it: nothing   *)
(* was found finished, and nothing is being updated.                       *)
LEMMA Busy ==
  ASSUME QInv, linked, ~Quiet
  PROVE  /\ call.pc \notin {"none"} \cup Updates /\ ~Ended /\ ~Failed
         /\ Armed \/ Executing \/ Retiring \/ Halted \/ Retired
<1>1. call.pc \notin Updates /\ ~Ended
  BY DEF QInv, Finishing
<1>2. ~Failed
  BY DEF QInv, Finishing, Halted, Quiet, Halts
<1> QED
  BY <1>1, <1>2 DEF QInv, Stage, Gone

-----------------------------------------------------------------------------
(* The controller.                                                         *)

(* The links of the overlay lead to a later qTD: the next one, or after a  *)
(* short read the status stage.                                            *)
LEMMA LeadsOn ==
  ASSUME QInv, Armed \/ Retired, call.pc # "none", Leads \in DOMAIN qtds
  PROVE  \/ Armed /\ Leads = 1
         \/ /\ Retired /\ overlay.cur \in DOMAIN qtds /\ Leads > overlay.cur
            /\ PidOf(call.kind, overlay.cur) # "status"
            /\ Leads = overlay.cur + 1 \/ call.kind = "control"
            /\ overlay.total # 0 => PidOf(call.kind, Leads) = "status"
<1>1. CASE Armed
  BY <1>1 DEF Armed, Leads, Zero, Terminate
<1>2. CASE Retired
  <2> DEFINE c == overlay.cur
             kind == call.kind
  <2>1. /\ c \in DOMAIN qtds /\ overlay.next = NextQtd(kind, c) /\ overlay.alt = AltNext(kind, c)
        /\ overlay.total = qtds[c].total /\ qtds[c].status = "done"
    BY <1>2 DEF Retired, Loaded
  <2>2. qtds[c].total = 0 \/ PidOf(kind, c) = "in"
    BY <2>1, Facts DEF QInv, QtdShape, Pd
  <2>3. /\ kind \in Kinds /\ DOMAIN qtds = 1 .. Size(kind) /\ Len(Pids(kind)) = Size(kind) /\ Size(kind) \in 1 .. 4
        /\ Pids(kind)[c] = PidOf(kind, c)
    BY <2>1, Facts, PidsAre
  <2>4. CASE overlay.total = 0
    BY <1>2, <2>1, <2>3, <2>4 DEF Leads, NextQtd, Terminate, PidOf, Size
  <2>5. CASE overlay.total # 0
    <3>1. PidOf(kind, c) = "in" /\ Leads = AltNext(kind, c)
      BY <2>1, <2>2, <2>3, <2>5 DEF Leads, AltNext, Terminate, Stop
    <3>2. kind = "control" /\ Leads = Size(kind)
      BY <2>3, <3>1 DEF AltNext, Stop
    <3> QED
      BY <1>2, <2>1, <2>3, <3>1, <3>2, QueueAssumption DEF PidOf, Size
  <2> QED
    BY <2>4, <2>5
<1> QED
  BY <1>1, <1>2

(* Taking the next qTD.                                                    *)
LEMMA AdvanceKeeps ==
  ASSUME QInv, TakeQtd
  PROVE  QInv'
<1> DEFINE L == Leads
           kind == call.kind
<1>1. /\ L \in DOMAIN qtds /\ qtds[L].status = "active" /\ linked /\ overlay.status = "idle" /\ ~retire
      /\ overlay' = [overlay EXCEPT !.status = "active", !.total = qtds[L].total, !.cur = L,
                                    !.next = NextQtd(kind, L), !.alt = AltNext(kind, L)]
      /\ UNCHANGED <<qtds, linked, retire, device, call, toggle, skips>>
  BY DEF TakeQtd
<1>2. call.pc \notin {"none"} \cup Updates /\ ~Ended /\ ~Failed /\ (Armed \/ Retired)
  <2>1. ~Quiet
    BY <1>1 DEF Quiet
  <2> QED
    BY <1>1, <2>1, Busy DEF Executing, Retiring, Halted, Halts
<1>3. /\ kind \in Kinds /\ DOMAIN qtds = 1 .. Size(kind) /\ Len(qtds) = Size(kind) /\ Size(kind) \in 1 .. 4
      /\ \A j \in DOMAIN qtds : qtds[j] \in Tds /\ Pids(kind)[j] = PidOf(kind, j)
      /\ Len(Pids(kind)) = Size(kind)
  BY <1>2, Facts, PidsAre
<1>4. L \in 1 .. 4 /\ qtds[L] \in Tds /\ qtds[L].total = Capacity(PidOf(kind, L))
  BY <1>1, <1>3 DEF QInv, QtdShape, Pd
<1>5. NextQtd(kind, L) \in Links /\ NextQtd(kind, L) # 1 /\ AltNext(kind, L) \in Links
  BY <1>3, <1>4 DEF NextQtd, AltNext, Links, Terminate, Stop
<1>6. /\ overlay'.status = "active" /\ overlay'.total = qtds[L].total /\ overlay'.cur = L
      /\ overlay'.next = NextQtd(kind, L) /\ overlay'.alt = AltNext(kind, L)
      /\ overlay'.toggle = overlay.toggle
  BY <1>1 DEF QInv, QueueTypeOK
<1>7. \/ Armed /\ L = 1
      \/ /\ Retired /\ overlay.cur \in DOMAIN qtds /\ L > overlay.cur
         /\ PidOf(kind, overlay.cur) # "status"
         /\ L = overlay.cur + 1 \/ kind = "control"
         /\ overlay.total # 0 => PidOf(kind, L) = "status"
  BY <1>1, <1>2, LeadsOn
<1> HIDE DEF L, kind
<1>8. QueueTypeOK' /\ qtds' \in Seq(Tds)
  <2>1. overlay \in Overlays
    BY DEF QInv, QueueTypeOK, Overlays
  <2>2. PICK t, nx, al : t = qtds[L].total /\ nx = NextQtd(kind, L) /\ al = AltNext(kind, L)
    OBVIOUS
  <2>3. t \in 0 .. Packets /\ L \in 0 .. 4 /\ nx \in Links /\ al \in Links
    BY <1>4, <1>5, <2>2 DEF Tds
  <2>4. overlay' \in Overlays
    BY <1>1, <2>1, <2>2, <2>3 DEF Overlays
  <2> QED
    BY <1>1, <2>4 DEF QInv, QueueTypeOK, Overlays
<1>9. CallShape'
  BY <1>1 DEF QInv, CallShape
<1>10. Executing' /\ Stage'
  <2>1. (overlay'.total = 0 <=> PidOf(kind, L) = "status") /\ overlay'.total <= Capacity(PidOf(kind, L))
    BY <1>4, <1>6, QueueAssumption DEF Capacity, PidOf, Tds
  <2>2. Executing'
    BY <1>1, <1>3, <1>6, <2>1 DEF Executing, Loaded, Pd, kind
  <2> QED
    BY <1>1, <1>2, <2>2 DEF Stage
<1>11. QtdShape'
  <2>1. \A j \in DOMAIN qtds : qtds[j].status \notin Halts
    BY <1>1 DEF QInv, QtdShape, Halted, Halts
  <2>2. \A j \in DOMAIN qtds : ~(qtds[j].status = "done" /\ PidOf(kind, j) = "status")
    BY <1>2, <1>3, <1>7 DEF QInv, QtdShape, Retired, Armed, Pd, kind
  <2>3. \A j \in DOMAIN qtds : ~(qtds[j].status = "done" /\ qtds[j].total # 0 /\ AltNext(kind, j) = Stop)
    BY <1>1, <1>2 DEF QInv, QtdShape, Retired, Loaded, Leads, Stop, Terminate, L, kind
  <2>4. \A j \in DOMAIN qtds : qtds[j].status # "active" => j <= L
    <3>1. CASE Armed
      BY <3>1 DEF Armed
    <3>2. CASE Retired /\ overlay.cur \in DOMAIN qtds /\ L > overlay.cur
      <4>1. overlay.next # 1
        BY <1>3, <3>2 DEF Retired, Loaded, NextQtd, Terminate, kind
      <4>2. \A j \in DOMAIN qtds : qtds[j].status # "active" => j <= overlay.cur
        BY <4>1 DEF QInv, QtdShape
      <4> QED
        BY <1>3, <1>4, <3>2, <4>2
    <3> QED
      BY <1>7, <3>1, <3>2
  <2> QED
    BY <1>1, <1>3, <1>6, <2>1, <2>2, <2>3, <2>4 DEF QInv, QtdShape, Pd, kind
<1>12. ShortShape'
  <2>1. ~device.over
    BY <1>2 DEF QInv, ShortShape
  <2>2. device.short => PidOf(kind, L) = "status"
    <3>1. SUFFICES ASSUME device.short PROVE PidOf(kind, L) = "status"
      OBVIOUS
    <3>2. /\ overlay.next # 1
          /\ Pids(kind)[overlay.cur] = "status" \/ overlay.total # 0
      BY <1>2, <3>1 DEF QInv, ShortShape, Pd, kind
    <3>3. Retired /\ Pids(kind)[overlay.cur] = PidOf(kind, overlay.cur)
      BY <1>3, <1>7, <3>2 DEF Armed
    <3> QED
      BY <1>7, <3>2, <3>3 DEF Armed
  <2>3. Pd(overlay.cur)' = PidOf(kind, L)
    BY <1>1, <1>3, <1>6 DEF Pd, kind
  <2> QED
    BY <1>1, <1>5, <1>6, <2>1, <2>2, <2>3 DEF ShortShape
<1>13. Toggles'
  <2>1. \A j \in DOMAIN qtds : Took(j)' = Took(j)
    <3>1. SUFFICES ASSUME NEW j \in DOMAIN qtds PROVE Took(j)' = Took(j)
      OBVIOUS
    <3>2. CASE qtds[j].status # "active"
      BY <1>1, <3>2 DEF Took, Pd
    <3>3. CASE qtds[j].status = "active"
      <4>1. Took(j) = 0
        BY <1>7, <3>3 DEF Took, Armed, Retired
      <4>2. Took(j)' = IF L = j THEN Capacity(Pids(kind)[j]) - qtds[j].total ELSE 0
        BY <1>1, <1>5, <1>6, <3>3 DEF Took, Pd, kind
      <4>3. Capacity(PidOf(kind, L)) \in Int
        BY <1>4 DEF Tds
      <4> QED
        BY <1>3, <1>4, <4>1, <4>2, <4>3
    <3> QED
      BY <3>2, <3>3
  <2>2. HostMoved' = HostMoved
    BY <1>1, <1>2, <2>1, DataAt DEF HostMoved, D1, Two
  <2> QED
    BY <1>1, <1>6, <2>2 DEF QInv, Toggles, Agree
<1>14. Reading'
  BY <1>1 DEF QInv, Reading, HasRead, D1, Two
<1>15. Finishing'
  BY <1>1, <1>2 DEF Finishing, Ended, Failed
<1> QED
  BY <1>8, <1>9, <1>10, <1>11, <1>12, <1>13, <1>14, <1>15 DEF QInv


(* The driver is in the midst of its check, or waits for the next one: a   *)
(* step of the controller that leaves the qTDs alone that were executed    *)
(* changes nothing of what the driver knows.                               *)
LEMMA Undisturbed ==
  ASSUME QInv, call.pc # "none", call.pc \notin Updates, ~Ended, ~Failed,
         call' = call, DOMAIN qtds' = DOMAIN qtds, Len(qtds') = Len(qtds),
         \A j \in DOMAIN qtds : qtds[j].status = "done" => qtds'[j] = qtds[j]
  PROVE  CallShape' /\ Reading' /\ Finishing'
<1>1. CallShape'
  BY DEF QInv, CallShape
<1>2. Finishing'
  BY DEF Finishing, Ended, Failed
<1>3. Reading'
  <2>1. SUFFICES ASSUME call.pc \in {"read", "exit", "unlink", "qtds"}
                 PROVE  /\ call.completed = HasRead(D1)' + (IF Two THEN HasRead(D1 + 1)' ELSE 0)
                        /\ call.i <= Len(qtds) + 1
                        /\ \A j \in 1 .. call.i - 1 : qtds'[j].status = "done"
    BY DEF Reading, D1, Two
  <2>2. /\ call.completed = HasRead(D1) + (IF Two THEN HasRead(D1 + 1) ELSE 0)
        /\ call.i <= Len(qtds) + 1
        /\ \A j \in 1 .. call.i - 1 : qtds[j].status = "done"
    BY <2>1 DEF QInv, Reading
  <2>3. DOMAIN qtds = 1 .. Len(qtds) /\ call.i \in 1 .. 5 /\ Len(qtds) \in Nat
    BY Facts DEF QInv, QueueTypeOK
  <2>4. \A j \in 1 .. call.i - 1 : j \in DOMAIN qtds /\ qtds'[j] = qtds[j]
    BY <2>2, <2>3
  <2>5. D1 \in Nat \ {0}
    BY DEF D1, FirstData
  <2>6. HasRead(D1)' = HasRead(D1) /\ HasRead(D1 + 1)' = HasRead(D1 + 1)
    <3>1. \A j \in Nat \ {0} : HasRead(j)' = HasRead(j)
      BY <2>3, <2>4 DEF HasRead
    <3>2. D1' = D1
      BY DEF D1
    <3> QED
      BY <2>5, <3>1, <3>2
  <2> QED
    BY <2>2, <2>4, <2>6
<1> QED
  BY <1>1, <1>2, <1>3

(* The qTD that is being executed                                          *)
LEMMA Running ==
  ASSUME QInv, linked, overlay.status = "active"
  PROVE  /\ Executing /\ call.pc # "none" /\ call.pc \notin Updates /\ ~Ended /\ ~Failed
         /\ ~Armed /\ ~Retiring /\ ~Halted /\ ~Retired /\ ~retire
         /\ overlay.cur \in DOMAIN qtds /\ overlay.next # 1 /\ qtds[overlay.cur].status = "active"
         /\ Pid = PidOf(call.kind, overlay.cur) /\ Pid = Pd(overlay.cur)
         /\ overlay.total \in Nat /\ overlay.total <= Capacity(Pid) /\ Capacity(Pid) \in 0 .. Packets
         /\ (overlay.total = 0 <=> Pid = "status")
<1>1. ~Quiet
  BY DEF Quiet
<1>2. /\ Executing /\ call.pc # "none" /\ call.pc \notin Updates /\ ~Ended /\ ~Failed
      /\ ~Armed /\ ~Retiring /\ ~Halted /\ ~Retired
  BY <1>1, Busy DEF Executing, Armed, Retiring, Halted, Retired, Halts
<1>3. /\ overlay.cur \in DOMAIN qtds /\ qtds[overlay.cur].status = "active" /\ ~retire
      /\ overlay.next = NextQtd(call.kind, overlay.cur) /\ Pid = Pd(overlay.cur)
      /\ overlay.total <= Capacity(Pid) /\ (overlay.total = 0 <=> Pid = "status")
  BY <1>2 DEF Executing, Loaded, Pid, Pd
<1>4. overlay.next # 1 /\ Pid = PidOf(call.kind, overlay.cur)
  BY <1>2, <1>3, Facts DEF Pid, NextQtd, Terminate
<1>5. overlay.total \in Nat /\ Capacity(Pid) \in 0 .. Packets
  BY <1>4, QueueAssumption DEF QInv, QueueTypeOK, PidOf, Capacity
<1> QED
  BY <1>2, <1>3, <1>4, <1>5

(* What the controller took grows by what the overlay counts down.         *)
LEMMA Takes ==
  ASSUME QInv, linked, overlay.status = "active", UNCHANGED <<qtds, call>>,
         overlay'.cur = overlay.cur, overlay'.next = overlay.next,
         overlay'.total \in Nat, overlay'.total <= overlay.total
  PROVE  /\ Pid \in {"in", "out"} =>
              HostMoved' = HostMoved + (overlay.total - overlay'.total) /\ HostMoved + overlay.total <= 2 * Packets
         /\ Pid \notin {"in", "out"} => HostMoved' = HostMoved
         /\ HostMoved \in 0 .. 2 * Packets
<1>0. PICK c, d : c = overlay.cur /\ d = D1
  OBVIOUS
<1>1. /\ c \in DOMAIN qtds /\ overlay.next # 1 /\ qtds[c].status = "active" /\ Pid = Pd(c)
      /\ overlay.total \in Nat /\ overlay.total <= Capacity(Pid) /\ Capacity(Pid) \in 0 .. Packets
  BY <1>0, Running
<1>2. /\ d \in DOMAIN qtds /\ d \in Nat
      /\ Two => d + 1 \in DOMAIN qtds
      /\ \A j \in DOMAIN qtds : Pd(j) \in {"in", "out"} <=> j = d \/ (Two /\ j = d + 1)
      /\ \A j \in DOMAIN qtds : Pd(j) \in {"in", "out"} => Capacity(Pd(j)) = Packets
  BY <1>0, DataAt, Running
<1>3. Took(c) = Capacity(Pid) - overlay.total /\ Took(c)' = Capacity(Pid) - overlay'.total
  BY <1>0, <1>1 DEF Took, Pd
<1>4. \A j \in DOMAIN qtds : j # c => Took(j)' = Took(j)
  BY <1>0 DEF Took, Pd
<1>5. \A j \in DOMAIN qtds : Pd(j) \in {"in", "out"} => Took(j) \in 0 .. Packets
  <2>1. \A j \in DOMAIN qtds : qtds[j].total \in 0 .. Packets
    BY Facts, Running DEF Tds
  <2> QED
    BY <1>0, <1>1, <1>2, <1>3, <2>1, QueueAssumption DEF Took
<1>6. HostMoved' = Took(d)' + (IF Two THEN Took(d + 1)' ELSE 0) /\ HostMoved = Took(d) + (IF Two THEN Took(d + 1) ELSE 0)
  BY <1>0 DEF HostMoved, D1, Two
<1>7. PICK P, a, b, t, u : P = Packets /\ a = Took(d) /\ b = Took(d + 1) /\ t = overlay.total /\ u = overlay'.total
  OBVIOUS
<1>8. P \in Nat /\ t \in Nat /\ u \in Nat /\ u <= t /\ a \in 0 .. P /\ (Two => b \in 0 .. P)
  BY <1>1, <1>2, <1>5, <1>7, QueueAssumption
<1>9. CASE Pid \notin {"in", "out"}
  <2>1. Took(d)' = Took(d) /\ (Two => Took(d + 1)' = Took(d + 1))
    BY <1>1, <1>2, <1>4, <1>9
  <2>2. HostMoved' = HostMoved /\ HostMoved = a + (IF Two THEN b ELSE 0)
    BY <1>6, <1>7, <2>1
  <2> QED
    BY <1>7, <1>8, <1>9, <2>2
<1>10. CASE Pid \in {"in", "out"} /\ c = d
  <2>1. /\ Took(d) = P - t /\ Took(d)' = P - u
        /\ Two => Took(d + 1)' = b
    BY <1>1, <1>2, <1>3, <1>4, <1>7, <1>10
  <2>2. HostMoved' = (P - u) + (IF Two THEN b ELSE 0) /\ HostMoved = (P - t) + (IF Two THEN b ELSE 0)
    BY <1>6, <1>7, <2>1
  <2>3. t <= P
    <3>1. PICK cap : cap = Capacity(Pid)
      OBVIOUS
    <3>2. cap \in 0 .. P /\ t <= cap
      BY <1>1, <1>7, <3>1
    <3> QED
      BY <1>8, <3>2
  <2> QED
    BY <1>7, <1>8, <1>10, <2>2, <2>3
<1>11. CASE Pid \in {"in", "out"} /\ Two /\ c = d + 1
  <2>1. Took(d + 1) = P - t /\ Took(d + 1)' = P - u /\ Took(d)' = a
    BY <1>1, <1>2, <1>3, <1>4, <1>7, <1>11
  <2>2. HostMoved' = a + (P - u) /\ HostMoved = a + (P - t)
    BY <1>6, <1>7, <1>11, <2>1
  <2>3. t <= P
    <3>1. PICK cap : cap = Capacity(Pid)
      OBVIOUS
    <3>2. cap \in 0 .. P /\ t <= cap
      BY <1>1, <1>7, <3>1
    <3> QED
      BY <1>8, <3>2
  <2> QED
    BY <1>7, <1>8, <1>11, <2>2, <2>3
<1> QED
  BY <1>1, <1>2, <1>9, <1>10, <1>11


(* The qTDs behind a controller that has neither halted nor come to an end *)
LEMMA OnlyDone ==
  ASSUME QInv, ~Halted, ~Retired, call.pc # "none", NEW j \in DOMAIN qtds
  PROVE  /\ qtds[j].status \notin Halts
         /\ ~(qtds[j].status = "done" /\ qtds[j].total # 0 /\ AltNext(call.kind, j) = Stop)
         /\ ~(qtds[j].status = "done" /\ Pd(j) = "status")
         /\ qtds[j].status = "active" => qtds[j].total = Capacity(Pd(j))
         /\ qtds[j].total <= Capacity(Pd(j))
         /\ qtds[j].status = "done" => qtds[j].total = 0 \/ (Pd(j) = "in" /\ device.short)
         /\ qtds[j].status # "active" /\ overlay.next # 1 => j <= overlay.cur
  BY DEF QInv, QtdShape

(* A packet, as both sides or one of them take it                          *)
LEMMA PacketKeeps ==
  ASSUME QInv, Packet
  PROVE  QInv'
<1> DEFINE kind == call.kind
           host == Agree \/ Pid = "out"
           dev == Agree \/ Pid = "in"
<1>1. /\ linked /\ overlay.status = "active"
      /\ overlay' = IF ~host THEN overlay
                    ELSE [overlay EXCEPT !.toggle = Flip(@), !.total = IF @ = 0 THEN 0 ELSE @ - 1,
                                         !.status = IF overlay.total <= 1 THEN "idle" ELSE @]
      /\ device' = IF ~dev THEN device
                   ELSE [device EXCEPT !.toggle = Flip(@),
                                       !.moved = IF Pid \in {"in", "out"} THEN @ + 1 ELSE @,
                                       !.status = Pid = "status",
                                       !.over = @ \/ (device.short /\ Pid = "in")]
      /\ retire' = (host /\ overlay.total <= 1)
      /\ UNCHANGED <<qtds, linked, call, toggle, skips>>
  BY DEF Packet, PacketTaken
<1>2. /\ Executing /\ call.pc # "none" /\ call.pc \notin Updates /\ ~Ended /\ ~Failed
      /\ ~Armed /\ ~Retiring /\ ~Halted /\ ~Retired /\ ~retire
      /\ overlay.cur \in DOMAIN qtds /\ overlay.next # 1 /\ qtds[overlay.cur].status = "active"
      /\ Pid = PidOf(kind, overlay.cur) /\ Pid = Pd(overlay.cur)
      /\ overlay.total \in Nat /\ overlay.total <= Capacity(Pid) /\ Capacity(Pid) \in 0 .. Packets
      /\ (overlay.total = 0 <=> Pid = "status")
  BY <1>1, Running
<1>3. kind \in Kinds /\ overlay \in Overlays /\ device.toggle \in 0 .. 1 /\ device.moved \in 0 .. 2 * Packets + 1
  BY <1>2, Facts DEF QInv, QueueTypeOK, Overlays
<1>4. overlay.toggle \in 0 .. 1 /\ Flip(overlay.toggle) \in 0 .. 1 /\ Flip(device.toggle) \in 0 .. 1
  BY <1>3 DEF Overlays, Flip
<1>5. PICK t, u : t = overlay.total /\ u = IF host /\ t # 0 THEN t - 1 ELSE t
  OBVIOUS
<1>6. t \in 0 .. Packets /\ u \in 0 .. Packets /\ u <= t
  <2> HIDE DEF host
  <2>1. t \in 0 .. Packets
    BY <1>3, <1>5 DEF Overlays
  <2>2. u = t \/ (t # 0 /\ u = t - 1)
    BY <1>5
  <2> QED
    BY <2>1, <2>2, QueueAssumption
<1>7. PICK o, d, s : /\ o = (IF host THEN Flip(overlay.toggle) ELSE overlay.toggle)
                     /\ d = (IF dev THEN Flip(device.toggle) ELSE device.toggle)
                     /\ s = (IF host /\ t <= 1 THEN "idle" ELSE "active")
  OBVIOUS
<1>8. overlay' = [overlay EXCEPT !.toggle = o, !.total = u, !.status = s]
  <2>1. CASE host
    BY <1>1, <1>3, <1>5, <1>7, <2>1 DEF Overlays
  <2>2. CASE ~host
    BY <1>1, <1>3, <1>5, <1>7, <2>2 DEF Overlays
  <2> QED
    BY <2>1, <2>2
<1>9. /\ overlay' \in Overlays /\ overlay'.toggle = o /\ overlay'.total = u /\ overlay'.status = s
      /\ overlay'.cur = overlay.cur /\ overlay'.next = overlay.next /\ overlay'.alt = overlay.alt
  <2>1. o \in 0 .. 1 /\ s \in {"idle", "active"} \cup Halts
    BY <1>4, <1>7
  <2> HIDE DEF host, dev
  <2> QED
    BY <1>3, <1>6, <1>8, <2>1 DEF Overlays
<1>10. (dev /\ host) \/ (Pid \in {"in", "out"} /\ ~Agree /\ kind # "control")
  BY <1>2, <1>3 DEF Agree, PidOf, Kinds
<1>11. /\ Pid \in {"in", "out"} => HostMoved' = HostMoved + (t - u) /\ HostMoved + t <= 2 * Packets
       /\ Pid \notin {"in", "out"} => HostMoved' = HostMoved
       /\ HostMoved \in 0 .. 2 * Packets
  BY <1>1, <1>5, <1>6, <1>9, Takes
<1>12. /\ call.inStep /\ kind # "control" => overlay.toggle = device.toggle
       /\ call.inStep => device.moved = HostMoved
       /\ ~Agree => device.moved = HostMoved
       /\ device.moved - HostMoved \in -1 .. 1
  BY <1>2 DEF QInv, Toggles
<1>13. device' = IF ~dev THEN device
                 ELSE [device EXCEPT !.toggle = d, !.moved = device'.moved, !.status = device'.status, !.over = device'.over]
  BY <1>1, <1>7 DEF QInv, QueueTypeOK
<1>14. /\ device'.toggle = d /\ device'.short = device.short
       /\ device'.moved = IF dev /\ Pid \in {"in", "out"} THEN device.moved + 1 ELSE device.moved
       /\ device'.status = IF dev THEN Pid = "status" ELSE device.status
       /\ device'.over = IF dev THEN device.over \/ (device.short /\ Pid = "in") ELSE device.over
  BY <1>1, <1>7 DEF QInv, QueueTypeOK

<1>15. Pid \in {"in", "out"} => t # 0
  BY <1>2, <1>5
<1>16. device'.moved \in 0 .. 2 * Packets + 1
  <2>1. PICK P, h, m : P = Packets /\ h = HostMoved /\ m = device.moved
    OBVIOUS
  <2>2. P \in Nat /\ h \in Nat /\ m \in 0 .. 2 * P + 1 /\ m - h \in -1 .. 1
    BY <1>3, <1>11, <1>12, <2>1, QueueAssumption
  <2>3. CASE Pid \in {"in", "out"}
    <3>1. h + t <= 2 * P /\ t >= 1
      BY <1>6, <1>11, <1>15, <2>1, <2>3
    <3>2. m + 1 \in 0 .. 2 * P + 1
      BY <1>6, <2>2, <3>1
    <3> QED
      BY <1>14, <2>1, <2>2, <3>2
  <2>4. CASE Pid \notin {"in", "out"}
    BY <1>3, <1>14, <2>4
  <2> QED
    BY <2>3, <2>4
<1>17. d \in 0 .. 1 /\ device'.status \in BOOLEAN /\ device'.over \in BOOLEAN
  <2>1. d \in 0 .. 1
    BY <1>3, <1>4, <1>7
  <2> HIDE DEF dev
  <2> QED
    BY <1>14, <2>1 DEF QInv, QueueTypeOK
<1> HIDE DEF host, dev, kind
<1>18. QueueTypeOK' /\ qtds' \in Seq(Tds)
  <2>1. device' \in Devices
    <3>1. PICK m, st, ov : m = device'.moved /\ st = device'.status /\ ov = device'.over
      OBVIOUS
    <3>2. device \in Devices
      BY DEF QInv, QueueTypeOK, Devices
    <3>3. device' = IF ~dev THEN device
                    ELSE [device EXCEPT !.toggle = d, !.moved = m, !.status = st, !.over = ov]
      BY <1>13, <3>1
    <3> QED
      BY <1>16, <1>17, <3>1, <3>2, <3>3 DEF Devices
  <2>2. retire' \in BOOLEAN
    BY <1>1
  <2> QED
    BY <1>1, <1>9, <2>1, <2>2 DEF QInv, QueueTypeOK, Overlays, Devices
<1>19. CallShape' /\ Reading' /\ Finishing'
  BY <1>1, <1>2, Undisturbed
<1>20. Stage' /\ ~Halted'
  <2>1. Loaded' /\ qtds'[overlay'.cur].status = "active" /\ Pd(overlay.cur)' = Pid
    BY <1>1, <1>2, <1>9 DEF Loaded, Executing, Pd
  <2>2. overlay'.total <= Capacity(Pd(overlay.cur)')
    BY <1>2, <1>5, <1>6, <1>9, <2>1
  <2>3. CASE host /\ t <= 1
    <3>1. overlay'.status # "active" /\ retire' /\ overlay'.status \notin Halts
      BY <1>1, <1>5, <1>7, <1>9, <2>3 DEF Halts
    <3> QED
      BY <1>1, <1>2, <2>1, <2>2, <3>1 DEF Stage, Retiring, Halted
  <2>4. CASE ~(host /\ t <= 1)
    <3>1. overlay'.status = "active" /\ ~retire'
      BY <1>1, <1>5, <1>7, <1>9, <2>4
    <3>2. overlay'.total = 0 <=> Pid = "status"
      BY <1>2, <1>5, <1>6, <1>9, <2>4
    <3> QED
      BY <1>1, <1>2, <2>1, <2>2, <3>1, <3>2 DEF Stage, Executing, Halted, Halts
  <2> QED
    BY <2>3, <2>4
<1>21. QtdShape'
  <2>1. SUFFICES ASSUME NEW j \in DOMAIN qtds
                 PROVE  /\ qtds[j].status = "active" => qtds[j].total = Capacity(Pd(j))
                        /\ qtds[j].total <= Capacity(Pd(j))
                        /\ qtds[j].status = "done" => qtds[j].total = 0 \/ (Pd(j) = "in" /\ device.short)
                        /\ qtds[j].status \notin Halts
                        /\ ~(qtds[j].status = "done" /\ qtds[j].total # 0 /\ AltNext(call.kind, j) = Stop)
                        /\ ~(qtds[j].status = "done" /\ Pd(j) = "status")
                        /\ qtds[j].status # "active" /\ overlay.next # 1 => j <= overlay.cur
    BY <1>1, <1>9, <1>14 DEF QtdShape, Pd
  <2> QED
    BY <1>2, OnlyDone
<1>22. ShortShape'
  <2>1. ~device.over /\ (device.short => Pid = "status")
    BY <1>1, <1>2 DEF QInv, ShortShape
  <2>2. ~device'.over
    BY <1>14, <2>1
  <2>3. Pd(overlay.cur)' = Pid
    BY <1>1, <1>9, <1>2 DEF Pd
  <2>4. overlay'.status = "idle" => overlay'.total = 0
    BY <1>5, <1>6, <1>7, <1>9
  <2>5. Pid = "status" => device'.status
    BY <1>10, <1>14
  <2> QED
    BY <1>1, <1>9, <1>2, <1>14, <2>1, <2>2, <2>3, <2>4, <2>5 DEF ShortShape
<1>23. Toggles'
  <2>1. PICK h, m : h = HostMoved /\ m = device.moved
    OBVIOUS
  <2>2. h \in Int /\ m \in Int /\ m - h \in -1 .. 1
    BY <1>3, <1>11, <1>12, <2>1
  <2>3. CASE Agree
    <3>1. host /\ dev
      BY <2>3 DEF host, dev
    <3>2. kind # "control" => o = d
      BY <1>7, <2>3, <3>1 DEF Agree, kind
    <3>3. device'.moved - HostMoved' = m - h /\ (m = h => device'.moved = HostMoved')
      <4>1. CASE Pid \in {"in", "out"}
        <5>1. device'.moved = m + 1 /\ HostMoved' = h + (t - u)
          BY <1>11, <1>14, <2>1, <3>1, <4>1
        <5>2. t - u = 1
          BY <1>5, <1>6, <1>15, <3>1, <4>1
        <5> QED
          BY <2>2, <5>1, <5>2
      <4>2. CASE Pid \notin {"in", "out"}
        BY <1>11, <1>14, <2>1, <2>2, <4>2
      <4> QED
        BY <4>1, <4>2
    <3>4. call.inStep => m = h
      BY <1>12, <2>1
    <3>5. device'.moved - HostMoved' \in -1 .. 1
      BY <2>2, <3>3
    <3> QED
      BY <1>1, <1>9, <1>14, <3>2, <3>3, <3>4, <3>5 DEF Toggles, Agree, kind
  <2>4. CASE ~Agree
    <3>1. ~call.inStep /\ kind # "control" /\ m = h /\ Pid \in {"in", "out"}
      <4>1. kind # "control" /\ Pid \in {"in", "out"}
        BY <1>10, <2>4 DEF host, dev
      <4>2. m = h
        BY <1>12, <2>1, <2>4
      <4>3. ~call.inStep
        BY <1>12, <2>4, <4>1 DEF Agree
      <4> QED
        BY <4>1, <4>2, <4>3
    <3>2. overlay.toggle # device.toggle
      BY <2>4 DEF Agree
    <3>3. o = d
      BY <1>3, <1>4, <1>7, <2>4, <3>1, <3>2 DEF host, dev, kind, Flip
    <3>4. device'.moved - HostMoved' \in -1 .. 1
      <4>1. CASE Pid = "in"
        <5>1. dev /\ ~host
          BY <2>4, <4>1 DEF host, dev
        <5>2. device'.moved = m + 1 /\ HostMoved' = h + (t - u) /\ t = u
          BY <1>5, <1>11, <1>14, <2>1, <4>1, <5>1
        <5> QED
          BY <1>6, <2>2, <3>1, <5>2
      <4>2. CASE Pid = "out"
        <5>1. host /\ ~dev
          BY <2>4, <4>2 DEF host, dev
        <5>2. device'.moved = m /\ HostMoved' = h + (t - u) /\ t - u = 1
          BY <1>5, <1>6, <1>11, <1>14, <1>15, <2>1, <4>2, <5>1
        <5> QED
          BY <2>2, <3>1, <5>2
      <4> QED
        BY <3>1, <4>1, <4>2
    <3> QED
      BY <1>1, <1>9, <1>14, <3>1, <3>3, <3>4 DEF Toggles, Agree, kind
  <2> QED
    BY <2>3, <2>4
<1> QED
  BY <1>18, <1>19, <1>20, <1>21, <1>22, <1>23 DEF QInv


(* A packet shorter than the endpoint's: the device has no more data.      *)
LEMMA ShortPacketKeeps ==
  ASSUME QInv, ShortPacket
  PROVE  QInv'
<1>1. /\ linked /\ overlay.status = "active" /\ Pid = "in" /\ Agree
      /\ overlay' = [overlay EXCEPT !.toggle = Flip(@), !.status = "idle"]
      /\ device' = [device EXCEPT !.toggle = Flip(@), !.short = TRUE, !.over = @ \/ device.short]
      /\ retire' = TRUE
      /\ UNCHANGED <<qtds, linked, call, toggle, skips>>
  BY DEF ShortPacket
<1>2. /\ Executing /\ call.pc # "none" /\ call.pc \notin Updates /\ ~Ended /\ ~Failed
      /\ ~Armed /\ ~Retiring /\ ~Halted /\ ~Retired /\ ~retire
      /\ overlay.cur \in DOMAIN qtds /\ overlay.next # 1 /\ qtds[overlay.cur].status = "active"
      /\ Pid = Pd(overlay.cur)
      /\ overlay.total \in Nat /\ overlay.total <= Capacity(Pid) /\ Capacity(Pid) \in 0 .. Packets
      /\ overlay.total # 0
  BY <1>1, Running
<1>3. /\ overlay \in Overlays /\ overlay.toggle \in 0 .. 1 /\ device.toggle \in 0 .. 1
      /\ device \in Devices
  BY DEF QInv, QueueTypeOK, Overlays, Devices
<1>4. PICK o, d : o = Flip(overlay.toggle) /\ d = Flip(device.toggle)
  OBVIOUS
<1>5. o \in 0 .. 1 /\ d \in 0 .. 1 /\ (overlay.toggle = device.toggle => o = d)
  BY <1>3, <1>4 DEF Flip
<1>6. ~device.over /\ ~device.short
  BY <1>1, <1>2 DEF QInv, ShortShape
<1>7. /\ overlay' = [overlay EXCEPT !.toggle = o, !.status = "idle"]
      /\ device' = [device EXCEPT !.toggle = d, !.short = TRUE, !.over = FALSE]
  BY <1>1, <1>3, <1>4, <1>6
<1>8. /\ overlay' \in Overlays /\ overlay'.toggle = o /\ overlay'.total = overlay.total /\ overlay'.status = "idle"
      /\ overlay'.cur = overlay.cur /\ overlay'.next = overlay.next /\ overlay'.alt = overlay.alt
  BY <1>3, <1>5, <1>7 DEF Overlays
<1>9. /\ device' \in Devices
      /\ device'.toggle = d /\ device'.moved = device.moved /\ device'.short /\ ~device'.over
  BY <1>3, <1>5, <1>7 DEF Devices
<1>10. HostMoved' = HostMoved
  <2>1. HostMoved' = HostMoved + (overlay.total - overlay.total) /\ HostMoved \in 0 .. 2 * Packets
    BY <1>1, <1>2, <1>8, Takes
  <2> QED
    BY <1>2, <2>1
<1>11. QueueTypeOK' /\ qtds' \in Seq(Tds)
  BY <1>1, <1>8, <1>9 DEF QInv, QueueTypeOK, Overlays, Devices
<1>12. CallShape' /\ Reading' /\ Finishing'
  BY <1>1, <1>2, Undisturbed
<1>13. Pd(overlay.cur)' = Pid
  BY <1>1, <1>2, <1>8 DEF Pd
<1>14. Stage'
  <2>1. Loaded' /\ qtds'[overlay'.cur].status = "active"
    BY <1>1, <1>2, <1>8 DEF Loaded, Executing
  <2> QED
    BY <1>1, <1>2, <1>8, <1>13, <2>1 DEF Stage, Retiring
<1>15. QtdShape'
  <2>1. SUFFICES ASSUME NEW j \in DOMAIN qtds
                 PROVE  /\ qtds[j].status = "active" => qtds[j].total = Capacity(Pd(j))
                        /\ qtds[j].total <= Capacity(Pd(j))
                        /\ qtds[j].status = "done" => qtds[j].total = 0 \/ Pd(j) = "in"
                        /\ qtds[j].status \notin Halts
                        /\ ~(qtds[j].status = "done" /\ qtds[j].total # 0 /\ AltNext(call.kind, j) = Stop)
                        /\ ~(qtds[j].status = "done" /\ Pd(j) = "status")
                        /\ qtds[j].status # "active" /\ overlay.next # 1 => j <= overlay.cur
    BY <1>1, <1>8, <1>9 DEF QtdShape, Pd
  <2> QED
    BY <1>2, OnlyDone
<1>16. ShortShape'
  BY <1>1, <1>2, <1>8, <1>9, <1>13 DEF ShortShape
<1>17. Toggles'
  BY <1>1, <1>2, <1>5, <1>8, <1>9, <1>10 DEF QInv, Toggles, Agree
<1> QED
  BY <1>11, <1>12, <1>14, <1>15, <1>16, <1>17 DEF QInv

(* A stall or an error halts the queue head.                               *)
LEMMA HaltKeeps ==
  ASSUME QInv, Halt
  PROVE  QInv'
<1>1. PICK bad \in Halts : /\ overlay' = [overlay EXCEPT !.status = bad]
                           /\ device' = [device EXCEPT !.stalled = bad # "error"]
  BY DEF Halt
<1>2. /\ linked /\ overlay.status = "active" /\ retire' = TRUE
      /\ UNCHANGED <<qtds, linked, call, toggle, skips>>
  BY DEF Halt
<1>3. /\ Executing /\ call.pc # "none" /\ call.pc \notin Updates /\ ~Ended /\ ~Failed
      /\ ~Armed /\ ~Retiring /\ ~Halted /\ ~Retired /\ ~retire
      /\ overlay.cur \in DOMAIN qtds /\ overlay.next # 1 /\ qtds[overlay.cur].status = "active"
      /\ Pid = Pd(overlay.cur)
      /\ overlay.total \in Nat /\ overlay.total <= Capacity(Pid) /\ Capacity(Pid) \in 0 .. Packets
  BY <1>2, Running
<1>4. /\ overlay' \in Overlays /\ overlay'.toggle = overlay.toggle /\ overlay'.total = overlay.total
      /\ overlay'.status = bad /\ overlay'.cur = overlay.cur /\ overlay'.next = overlay.next
      /\ overlay'.alt = overlay.alt
  <2>1. overlay \in Overlays
    BY DEF QInv, QueueTypeOK, Overlays
  <2> QED
    BY <1>1, <2>1 DEF Overlays
<1>5. HostMoved' = HostMoved
  <2>1. /\ HostMoved' = HostMoved \/ HostMoved' = HostMoved + (overlay.total - overlay.total)
        /\ HostMoved \in 0 .. 2 * Packets
    BY <1>2, <1>3, <1>4, Takes
  <2> QED
    BY <1>3, <2>1
<1>6. /\ device' \in Devices /\ device'.toggle = device.toggle /\ device'.moved = device.moved
      /\ (device'.short <=> device.short) /\ (device'.over <=> device.over)
      /\ (device'.status <=> device.status) /\ (bad = "retried" => device'.stalled)
  <2>1. PICK st \in BOOLEAN : st <=> bad # "error"
    BY Zenon
  <2>2. device \in Devices
    BY DEF QInv, QueueTypeOK, Devices
  <2>3. device' = [device EXCEPT !.stalled = st]
    BY <1>1, <2>1
  <2> QED
    BY <2>1, <2>2, <2>3 DEF Devices
<1>7. QueueTypeOK' /\ qtds' \in Seq(Tds)
  BY <1>2, <1>4, <1>6 DEF QInv, QueueTypeOK, Overlays, Devices
<1>8. CallShape' /\ Reading' /\ Finishing'
  BY <1>2, <1>3, Undisturbed
<1>9. Pd(overlay.cur)' = Pid
  BY <1>2, <1>3, <1>4 DEF Pd
<1>10. Stage'
  <2>1. Loaded' /\ qtds'[overlay'.cur].status = "active"
    BY <1>2, <1>3, <1>4 DEF Loaded, Executing
  <2> QED
    BY <1>2, <1>3, <1>4, <1>9, <2>1 DEF Stage, Retiring, Halts
<1>11. QtdShape'
  <2>1. SUFFICES ASSUME NEW j \in DOMAIN qtds
                 PROVE  /\ qtds[j].status = "active" => qtds[j].total = Capacity(Pd(j))
                        /\ qtds[j].total <= Capacity(Pd(j))
                        /\ qtds[j].status = "done" => qtds[j].total = 0 \/ (Pd(j) = "in" /\ device.short)
                        /\ qtds[j].status \notin Halts
                        /\ ~(qtds[j].status = "done" /\ qtds[j].total # 0 /\ AltNext(call.kind, j) = Stop)
                        /\ ~(qtds[j].status = "done" /\ Pd(j) = "status")
                        /\ qtds[j].status # "active" /\ overlay.next # 1 => j <= overlay.cur
    BY <1>2, <1>4, <1>6 DEF QtdShape, Pd
  <2> QED
    BY <1>3, OnlyDone
<1>12. ShortShape'
  <2>1. ~device.over /\ (device.short => Pid = "status")
    BY <1>2, <1>3 DEF QInv, ShortShape
  <2> QED
    BY <1>2, <1>3, <1>4, <1>9, <1>6, <2>1 DEF ShortShape, Halts
<1>13. Toggles'
  BY <1>2, <1>3, <1>4, <1>5, <1>6 DEF QInv, Toggles, Agree
<1> QED
  BY <1>7, <1>8, <1>10, <1>11, <1>12, <1>13 DEF QInv

(* The status of a qTD is written back.                                    *)
LEMMA WriteBackKeeps ==
  ASSUME QInv, WriteBack
  PROVE  QInv'
<1>0. PICK c, st : c = overlay.cur /\ st = IF overlay.status = "idle" THEN "done" ELSE overlay.status
  OBVIOUS
<1>1. /\ retire /\ retire' = FALSE
      /\ qtds' = [qtds EXCEPT ![c] = [status |-> st, total |-> overlay.total]]
      /\ UNCHANGED <<overlay, linked, device, call, toggle, skips>>
  BY <1>0 DEF WriteBack
<1>2. /\ linked /\ Retiring /\ call.pc # "none" /\ call.pc \notin Updates /\ ~Ended /\ ~Failed
      /\ ~Halted /\ ~Retired
  <2>1. linked /\ ~Quiet
    BY <1>1 DEF QInv, Stage, Gone, Quiet
  <2> QED
    BY <1>1, <2>1, Busy DEF Armed, Executing, Halted, Retired
<1>3. /\ overlay.status # "active" /\ Loaded /\ qtds[c].status = "active" /\ c \in DOMAIN qtds
      /\ overlay.total <= Capacity(Pd(c)) /\ overlay.next = NextQtd(call.kind, c)
  BY <1>0, <1>2 DEF Retiring, Loaded
<1>4. /\ DOMAIN qtds = 1 .. Size(call.kind) /\ Len(qtds) = Size(call.kind) /\ Size(call.kind) \in 1 .. 4
      /\ Len(Pids(call.kind)) = Size(call.kind)
      /\ qtds \in Seq(Tds) /\ \A j \in DOMAIN qtds : qtds[j] \in Tds
  BY <1>2, Facts, PidsAre DEF QInv
<1>5. overlay.next # 1 /\ overlay.total \in 0 .. Packets /\ st \in {"done"} \cup Halts
  BY <1>0, <1>3, <1>4 DEF NextQtd, Terminate, QInv, QueueTypeOK
<1>6. /\ qtds' \in Seq(Tds) /\ DOMAIN qtds' = DOMAIN qtds /\ Len(qtds') = Len(qtds)
      /\ qtds'[c].status = st /\ qtds'[c].total = overlay.total
      /\ \A j \in DOMAIN qtds : j # c => qtds'[j] = qtds[j]
      /\ \A j \in DOMAIN qtds : qtds'[j] \in Tds
  <2>1. PICK new : new = [status |-> st, total |-> overlay.total]
    OBVIOUS
  <2>2. new \in Tds /\ new.status = st /\ new.total = overlay.total
    BY <1>5, <2>1 DEF Tds
  <2> HIDE DEF Tds
  <2> QED
    BY <1>1, <1>3, <1>4, <2>1, <2>2
<1>7. QueueTypeOK'
  <2>1. \A j \in DOMAIN qtds' : qtds'[j] \in [status : {"active", "done"} \cup Halts, total : 0 .. Packets]
    BY <1>6 DEF Tds
  <2>2. Len(qtds') = Len(Pids(call.kind))
    BY <1>4, <1>6
  <2>3. /\ call' = call /\ overlay' = overlay /\ linked' = linked /\ device' = device
        /\ toggle' = toggle /\ skips' = skips /\ retire' \in BOOLEAN
    BY <1>1
  <2>4. QueueTypeOK
    BY DEF QInv
  <2> QED
    BY <2>1, <2>2, <2>3, <2>4 DEF QueueTypeOK
<1>8. CallShape' /\ Reading' /\ Finishing'
  <2>1. \A j \in DOMAIN qtds : qtds[j].status = "done" => qtds'[j] = qtds[j]
    BY <1>3, <1>6
  <2> QED
    BY <1>1, <1>2, <1>6, <2>1, Undisturbed
<1>9. Loaded' /\ overlay'.cur = c /\ ~retire'
  BY <1>0, <1>1, <1>2, <1>6 DEF Retiring, Loaded
<1>10. (st = "done" => Retired') /\ (st # "done" => Halted')
  <2>1. st = "done" => overlay.status = "idle"
    BY <1>0, <1>3, <1>5 DEF QInv, QueueTypeOK, Halts
  <2>2. st # "done" => overlay.status = st /\ overlay.status \in Halts
    BY <1>0, <1>5 DEF Halts
  <2> QED
    BY <1>1, <1>6, <1>9, <2>1, <2>2 DEF Retired, Halted
<1>11. Stage'
  BY <1>1, <1>2, <1>10 DEF Stage
<1>12. /\ overlay.status = "idle" /\ overlay.total # 0 => Pd(c) = "in" /\ device.short
       /\ overlay.status = "idle" /\ Pd(c) = "status" => device.status
  BY <1>0, <1>2, <1>5 DEF QInv, ShortShape
<1>13. QtdShape'
  <2>1. ASSUME NEW j \in DOMAIN qtds, j # c
        PROVE  /\ qtds'[j].status = "active" => qtds'[j].total = Capacity(Pd(j))
               /\ qtds'[j].total <= Capacity(Pd(j))
               /\ qtds'[j].status = "done" => qtds'[j].total = 0 \/ (Pd(j) = "in" /\ device.short)
               /\ qtds'[j].status \notin Halts
               /\ ~(qtds'[j].status = "done" /\ qtds'[j].total # 0 /\ AltNext(call.kind, j) = Stop)
               /\ ~(qtds'[j].status = "done" /\ Pd(j) = "status")
               /\ qtds'[j].status # "active" => j <= c
    BY <1>0, <1>5, <1>2, <1>6, <2>1, OnlyDone
  <2>2. /\ qtds'[c].status # "active"
        /\ qtds'[c].total <= Capacity(Pd(c))
        /\ qtds'[c].status = "done" => qtds'[c].total = 0 \/ (Pd(c) = "in" /\ device.short)
        /\ qtds'[c].status \in Halts => Halted'
        /\ qtds'[c].status = "done" => Retired'
        /\ qtds'[c].status = "done" /\ Pd(c) = "status" => device.status
    <3>1. st = "done" => overlay.status = "idle"
      BY <1>0, <1>3, <1>5 DEF QInv, QueueTypeOK, Halts
    <3> QED
      BY <1>3, <1>5, <1>6, <1>10, <1>12, <3>1 DEF Halts
  <2>3. \A j \in DOMAIN qtds : Pd(j)' = Pd(j)
    BY <1>1 DEF Pd
  <2>4. c \in Nat
    BY <1>3, <1>4
  <2> QED
    BY <1>1, <1>6, <1>9, <2>1, <2>2, <2>3, <2>4 DEF QtdShape
<1>14. ShortShape'
  <2>1. Pd(overlay.cur)' = Pd(overlay.cur)
    BY <1>1 DEF Pd
  <2> QED
    BY <1>1, <2>1 DEF QInv, ShortShape
<1>15. HostMoved' = HostMoved
  <2>1. \A j \in DOMAIN qtds : j # c => Took(j)' = Took(j)
    BY <1>1, <1>6 DEF Took, Pd
  <2>2. Took(c)' = Took(c)
    BY <1>0, <1>1, <1>3, <1>5, <1>6 DEF Took, Pd
  <2>3. \A j \in DOMAIN qtds : Took(j)' = Took(j)
    BY <2>1, <2>2
  <2> QED
    BY <1>1, <1>2, <2>3, DataAt DEF HostMoved, D1, Two
<1>16. Toggles'
  BY <1>1, <1>15 DEF QInv, Toggles, Agree
<1> QED
  BY <1>6, <1>7, <1>8, <1>11, <1>13, <1>14, <1>16 DEF QInv


-----------------------------------------------------------------------------
(* The driver.                                                             *)

(* The qTDs of EhcCreateQtds are all active and full.                      *)
LEMMA NewQtdsAre ==
  ASSUME NEW kind \in Kinds
  PROVE  /\ NewQtds(kind) \in Seq(Tds) /\ Len(NewQtds(kind)) = Size(kind)
         /\ DOMAIN NewQtds(kind) = 1 .. Size(kind) /\ Size(kind) \in 1 .. 4
         /\ \A j \in 1 .. Size(kind) :
              /\ NewQtds(kind)[j].status = "active" /\ NewQtds(kind)[j].total = Capacity(Pids(kind)[j])
              /\ NewQtds(kind)[j] \in Tds /\ Capacity(Pids(kind)[j]) \in 0 .. Packets
<1>1. /\ DOMAIN Pids(kind) = 1 .. Size(kind) /\ Size(kind) \in 1 .. 4
      /\ \A j \in 1 .. Size(kind) : Pids(kind)[j] = PidOf(kind, j)
  BY PidsAre
<1>2. \A j \in 1 .. Size(kind) : Capacity(Pids(kind)[j]) \in 0 .. Packets
  BY <1>1, QueueAssumption DEF PidOf, Capacity
<1>3. NewQtds(kind) = [j \in 1 .. Size(kind) |-> [status |-> "active", total |-> Capacity(Pids(kind)[j])]]
  BY <1>1 DEF NewQtds
<1>4. \A j \in 1 .. Size(kind) : [status |-> "active", total |-> Capacity(Pids(kind)[j])] \in Tds
  BY <1>2 DEF Tds
<1> HIDE DEF Size
<1> QED
  BY <1>1, <1>2, <1>3, <1>4

(* A queue of new qTDs that the overlay leads to                           *)
LEMMA ArmedIsShaped ==
  ASSUME call'.kind \in Kinds, qtds' = NewQtds(call'.kind), overlay'.next = 1, overlay'.status = "idle",
         ~retire', overlay'.total = 0, overlay'.alt = Zero, device'.moved = 0, ~device'.short, ~device'.over
  PROVE  Armed' /\ QtdShape' /\ ShortShape' /\ HostMoved' = 0
<1>1. /\ DOMAIN qtds' = 1 .. Size(call'.kind)
      /\ \A j \in DOMAIN qtds' : /\ qtds'[j].status = "active"
                                 /\ qtds'[j].total = Capacity(Pids(call'.kind)[j])
                                 /\ Capacity(Pids(call'.kind)[j]) \in 0 .. Packets
  <2>1. PICK k \in Kinds : k = call'.kind
    OBVIOUS
  <2>2. /\ DOMAIN NewQtds(k) = 1 .. Size(k)
        /\ \A j \in 1 .. Size(k) : /\ NewQtds(k)[j].status = "active"
                                   /\ NewQtds(k)[j].total = Capacity(Pids(k)[j])
                                   /\ Capacity(Pids(k)[j]) \in 0 .. Packets
    BY <2>1, NewQtdsAre
  <2> QED
    BY <2>1, <2>2
<1>2. Armed'
  BY <1>1 DEF Armed
<1>3. QtdShape'
  <2>1. SUFFICES ASSUME NEW j \in DOMAIN qtds'
                 PROVE  /\ qtds'[j].status = "active" /\ qtds'[j].total = Capacity(Pd(j)')
                        /\ qtds'[j].total <= Capacity(Pd(j)')
    BY DEF QtdShape, Halts
  <2> QED
    BY <1>1 DEF Pd
<1>4. ShortShape'
  BY DEF ShortShape
<1>5. HostMoved' = 0
  <2>1. PICK d, two : d = D1' /\ two \in BOOLEAN /\ (two <=> Two')
    BY Zenon DEF Two
  <2>2. /\ d \in DOMAIN qtds' /\ (two => d + 1 \in DOMAIN qtds')
    BY <1>1, <2>1, QueueAssumption DEF D1, Two, FirstData, DataQtdsOf, Size, Kinds
  <2>3. \A j \in DOMAIN qtds' : Took(j)' = 0
    BY <1>1 DEF Took
  <2>4. HostMoved' = Took(d)' + (IF two THEN Took(d + 1)' ELSE 0)
    BY <2>1 DEF HostMoved
  <2> QED
    BY <2>2, <2>3, <2>4
<1> QED
  BY <1>2, <1>3, <1>4, <1>5

(* EhcCreateUrb and the link into a schedule                               *)
LEMMA SubmitKeeps ==
  ASSUME QInv, NEW kind \in Kinds, SubmitUrb(kind)
  PROVE  QInv'
<1>0. PICK tg, pc, st : /\ tg = (IF kind = "control" THEN 0 ELSE toggle)
                        /\ pc = (IF kind = "interrupt" THEN "wait" ELSE "poll")
                        /\ st = (kind = "control" \/ toggle = device.toggle)
  OBVIOUS
<1>1. /\ call.pc = "none" /\ qtds' = NewQtds(kind)
      /\ overlay' = [NoQh EXCEPT !.next = 1, !.toggle = tg]
      /\ linked' = TRUE /\ device' = Fresh(device)
      /\ call' = [NoCall EXCEPT !.pc = pc, !.kind = kind, !.inStep = st]
      /\ UNCHANGED <<retire, toggle, skips>>
  BY <1>0 DEF SubmitUrb
<1>2. ~retire /\ retire \in BOOLEAN /\ toggle \in 0 .. 1 /\ device.toggle \in 0 .. 1 /\ skips \in 0 .. MaxSkips
  BY <1>1 DEF QInv, Stage, Gone, QueueTypeOK
<1>3. tg \in 0 .. 1 /\ pc \in {"wait", "poll"} /\ st \in BOOLEAN
  BY <1>0, <1>2
<1>4. /\ call'.kind = kind /\ call'.pc = pc /\ call'.inStep = st /\ call'.completed = 0
  BY <1>1 DEF NoCall
<1>5. /\ overlay'.next = 1 /\ overlay'.status = "idle" /\ overlay'.total = 0 /\ overlay'.alt = Zero
      /\ overlay'.toggle = tg /\ overlay' \in Overlays
  <2>1. overlay' = [status |-> "idle", total |-> 0, cur |-> 0, next |-> 1, alt |-> Zero, toggle |-> tg]
    BY <1>1 DEF NoQh
  <2>2. 0 \in 0 .. Packets /\ 0 \in 0 .. 4 /\ 1 \in Links /\ Zero \in Links
    BY QueueAssumption DEF Links, Zero
  <2> QED
    BY <1>3, <2>1, <2>2 DEF Overlays
<1>6. /\ device' \in Devices
      /\ device'.toggle = device.toggle /\ device'.moved = 0 /\ ~device'.short /\ ~device'.over
  <2>1. device' = [device EXCEPT !.moved = 0, !.short = FALSE, !.status = FALSE, !.over = FALSE,
                                 !.stalled = FALSE]
    BY <1>1 DEF Fresh
  <2>2. 0 \in 0 .. 2 * Packets + 1
    BY QueueAssumption
  <2>3. device \in Devices
    BY DEF QInv, QueueTypeOK, Devices
  <2> QED
    BY <2>1, <2>2, <2>3 DEF Devices
<1>7. Armed' /\ QtdShape' /\ ShortShape' /\ HostMoved' = 0
  BY <1>1, <1>2, <1>4, <1>5, <1>6, ArmedIsShaped
<1>8. QueueTypeOK' /\ qtds' \in Seq(Tds)
  <2>1. call' \in [pc : Steps, kind : Kinds \cup {"none"}, by : {"sync", "monitor", "delete"},
                   i : 1 .. 5, completed : 0 .. 2 * Packets, result : Results,
                   finished : BOOLEAN, toggle : 0 .. 1, inStep : BOOLEAN]
    <3>1. call' = [pc |-> pc, kind |-> kind, by |-> "sync", i |-> 1, completed |-> 0, result |-> "noerror",
                   finished |-> FALSE, toggle |-> 0, inStep |-> st]
      BY <1>1 DEF NoCall
    <3>2. pc \in Steps /\ 0 \in 0 .. 2 * Packets /\ "noerror" \in Results
      BY <1>3, QueueAssumption DEF Steps, Results
    <3> QED
      BY <1>3, <3>1, <3>2
  <2>2. call'.completed <= DataLen(call'.kind)
    <3>1. DataLen(kind) = Packets * DataQtdsOf(kind) /\ DataQtdsOf(kind) \in {1, 2}
      BY DataLenIs DEF DataQtdsOf
    <3> QED
      BY <1>4, <3>1, QueueAssumption
  <2>3. /\ qtds' \in Seq(Tds) /\ Len(qtds') = Size(kind) /\ DOMAIN qtds' = 1 .. Size(kind)
        /\ \A j \in 1 .. Size(kind) : qtds'[j] \in Tds
    BY <1>1, NewQtdsAre
  <2>4. Len(qtds') = Len(Pids(call'.kind))
    BY <1>4, <2>3, PidsAre
  <2>5. \A j \in DOMAIN qtds' : qtds'[j] \in [status : {"active", "done"} \cup Halts, total : 0 .. Packets]
    BY <2>3 DEF Tds
  <2>6. overlay' \in [status : {"idle", "active"} \cup Halts, total : 0 .. Packets,
                      cur : 0 .. 4, next : Links, alt : Links, toggle : 0 .. 1]
    BY <1>5 DEF Overlays
  <2>7. linked' \in BOOLEAN /\ retire' \in BOOLEAN /\ toggle' \in 0 .. 1 /\ skips' \in 0 .. MaxSkips
    BY <1>1, <1>2
  <2> QED
    BY <1>6, <2>1, <2>2, <2>3, <2>4, <2>5, <2>6, <2>7 DEF QueueTypeOK, Devices
<1>9. CallShape'
  BY <1>0, <1>3, <1>4 DEF CallShape, Kinds, Updates
<1>10. Stage'
  BY <1>1, <1>3, <1>4, <1>7 DEF Stage, Updates
<1>11. Toggles'
  BY <1>0, <1>3, <1>4, <1>5, <1>6, <1>7 DEF Toggles, Devices
<1>12. Reading'
  BY <1>3, <1>4 DEF Reading
<1>13. Finishing'
  BY <1>3, <1>4 DEF Finishing, Ended, Failed, Updates
<1> QED
  BY <1>7, <1>8, <1>9, <1>10, <1>11, <1>12, <1>13 DEF QInv


(* A step of the driver that only changes what the driver knows            *)
LEMMA DriverKeeps ==
  ASSUME QInv, UNCHANGED <<qtds, overlay, linked, retire, device>>,
         call.pc \notin {"none"} \cup Updates, call'.pc \notin {"none"} \cup Updates,
         call'.kind = call.kind, call'.inStep = call.inStep
  PROVE  Stage' /\ QtdShape' /\ ShortShape' /\ Toggles' /\ HostMoved' = HostMoved
<1>1. \A j \in DOMAIN qtds : Pd(j)' = Pd(j) /\ Took(j)' = Took(j)
  BY DEF Pd, Took
<1>2. /\ (Armed' <=> Armed) /\ (Executing' <=> Executing) /\ (Retiring' <=> Retiring)
      /\ (Halted' <=> Halted) /\ (Retired' <=> Retired)
  BY DEF Armed, Executing, Retiring, Halted, Retired, Loaded, Pd
<1>3. Stage'
  BY <1>2 DEF QInv, Stage, Gone
<1>4. QtdShape'
  BY <1>1, <1>2 DEF QInv, QtdShape
<1>5. ShortShape'
  <2>1. Pd(overlay.cur)' = Pd(overlay.cur)
    BY DEF Pd
  <2> QED
    BY <2>1 DEF QInv, ShortShape
<1>6. HostMoved' = HostMoved
  BY <1>1, DataAt DEF HostMoved, D1, Two
<1>7. Toggles'
  BY <1>6 DEF QInv, Toggles, Agree
<1> QED
  BY <1>3, <1>4, <1>5, <1>6, <1>7

(* What the driver knows when EhcCheckUrbResult starts                     *)
LEMMA CheckIsCall ==
  ASSUME NEW kind \in Kinds \cup {"none"}, NEW tg \in 0 .. 1, NEW in \in BOOLEAN,
         NEW by \in {"sync", "monitor", "delete"}
  PROVE  [pc |-> "read", kind |-> kind, by |-> by, i |-> 1, completed |-> 0, result |-> "noerror",
          finished |-> TRUE, toggle |-> tg, inStep |-> in] \in Calls
<1>1. 0 \in 0 .. 2 * Packets /\ "read" \in Steps /\ "noerror" \in Results
  BY QueueAssumption DEF Steps, Results
<1> QED
  BY <1>1 DEF Calls

(* EhcCheckUrbResult starts.                                               *)
LEMMA CheckStarts ==
  ASSUME QInv, UNCHANGED <<qtds, overlay, linked, retire, device, toggle, skips>>,
         call.pc \in {"poll", "wait", "callback"}, NEW by \in {"sync", "monitor", "delete"},
         by = "sync" <=> call.kind # "interrupt",
         call' = [call EXCEPT !.pc = "read", !.by = by, !.i = 1, !.completed = 0,
                              !.result = "noerror", !.finished = TRUE]
  PROVE  QInv'
<1>1. call \in Calls /\ call.pc \notin {"none"} \cup Updates
  BY DEF QInv, QueueTypeOK, Calls, Updates
<1>3. /\ call' \in Calls /\ call'.kind = call.kind /\ call'.inStep = call.inStep /\ call'.pc = "read"
      /\ call'.by = by /\ call'.i = 1 /\ call'.completed = 0 /\ call'.result = "noerror" /\ call'.finished
  <2>1. PICK kind, tg, in : kind = call.kind /\ tg = call.toggle /\ in = call.inStep
    OBVIOUS
  <2>2. kind \in Kinds \cup {"none"} /\ tg \in 0 .. 1 /\ in \in BOOLEAN
    BY <1>1, <2>1 DEF Calls
  <2>3. call' = [pc |-> "read", kind |-> kind, by |-> by, i |-> 1, completed |-> 0, result |-> "noerror",
                 finished |-> TRUE, toggle |-> tg, inStep |-> in]
    BY <1>1, <2>1 DEF Calls
  <2>4. call' \in Calls
    <3>1. [pc |-> "read", kind |-> kind, by |-> by, i |-> 1, completed |-> 0, result |-> "noerror",
           finished |-> TRUE, toggle |-> tg, inStep |-> in] \in Calls
      BY <2>2, CheckIsCall
    <3> QED
      BY <2>3, <3>1, Zenon
  <2> QED
    BY <2>1, <2>3, <2>4
<1>4. Stage' /\ QtdShape' /\ ShortShape' /\ Toggles'
  BY <1>1, <1>3, DriverKeeps DEF Updates
<1>5. call.kind \in Kinds /\ DOMAIN qtds = 1 .. Size(call.kind) /\ Size(call.kind) \in 1 .. 4
      /\ Len(qtds) = Size(call.kind)
  BY <1>1, Facts
<1>6. QueueTypeOK' /\ qtds' \in Seq(Tds)
  <2>1. call'.completed <= DataLen(call'.kind)
    <3>1. DataLen(call.kind) = Packets * DataQtdsOf(call.kind) /\ DataQtdsOf(call.kind) \in {1, 2}
      BY <1>5, DataLenIs DEF DataQtdsOf
    <3> QED
      BY <1>3, <3>1, QueueAssumption
  <2> QED
    BY <1>3, <2>1 DEF QInv, QueueTypeOK, Calls
<1>7. CallShape'
  <2>1. 1 \in DOMAIN qtds
    BY <1>5
  <2> QED
    BY <1>1, <1>3, <1>5, <2>1 DEF CallShape, Kinds, Updates
<1>8. Reading'
  <2>1. HasRead(D1)' = 0 /\ HasRead(D1 + 1)' = 0
    BY <1>3 DEF HasRead, D1, FirstData
  <2> QED
    BY <1>3, <1>5, <2>1 DEF Reading
<1>9. Finishing'
  BY <1>3 DEF Finishing, Ended, Failed, Updates
<1> QED
  BY <1>4, <1>6, <1>7, <1>8, <1>9 DEF QInv

\* The start of a check of the URB stores nothing the controller reads.
LEMMA StartCheckKeeps ==
  ASSUME QInv, NEW by \in {"sync", "monitor", "delete"}, StartCheck(by)
  PROVE  QInv'
<1>1. /\ call.pc = IF by = "sync" THEN "poll" ELSE "wait"
      /\ call' = [call EXCEPT !.pc = "read", !.by = by, !.i = 1, !.completed = 0,
                              !.result = "noerror", !.finished = TRUE]
      /\ UNCHANGED <<qtds, overlay, linked, retire, device, toggle, skips>>
  BY DEF StartCheck
<1>2. by = "sync" <=> call.kind # "interrupt"
  BY <1>1 DEF QInv, CallShape
<1> QED
  BY <1>1, <1>2, CheckStarts

(* The callback returns, or deletes the transfer.                          *)
LEMMA CallbackKeeps ==
  ASSUME QInv, Callback
  PROVE  QInv'
<1>1. /\ call.pc = "callback"
      /\ UNCHANGED <<qtds, overlay, linked, retire, device, toggle, skips>>
  BY DEF Callback
<1>2. call.kind = "interrupt" /\ call \in Calls
  BY <1>1 DEF QInv, CallShape, QueueTypeOK, Calls
<1>3. CASE call' = [call EXCEPT !.pc = "wait"]
  <2>1. call' \in Calls /\ call'.pc = "wait" /\ call'.kind = call.kind /\ call'.inStep = call.inStep
        /\ call'.completed = call.completed
    BY <1>2, <1>3 DEF Calls, Steps
  <2>2. Stage' /\ QtdShape' /\ ShortShape' /\ Toggles'
    BY <1>1, <2>1, DriverKeeps DEF Updates
  <2>3. QueueTypeOK' /\ qtds' \in Seq(Tds)
    BY <1>1, <2>1 DEF QInv, QueueTypeOK, Calls
  <2>4. CallShape' /\ Reading' /\ Finishing'
    BY <1>2, <2>1 DEF CallShape, Reading, Finishing, Ended, Failed, Updates
  <2> QED
    BY <2>2, <2>3, <2>4 DEF QInv
<1>4. CASE call' = [call EXCEPT !.pc = "read", !.by = "delete", !.i = 1, !.completed = 0,
                                !.result = "noerror", !.finished = TRUE]
  BY <1>1, <1>2, <1>4, CheckStarts
<1> QED
  BY <1>1, <1>3, <1>4 DEF Callback

(* The toggle is read, and the function ends.                              *)
LEMMA ReadToggleKeeps ==
  ASSUME QInv, ReadToggle
  PROVE  QInv'
<1>1. /\ call.pc = "exit"
      /\ UNCHANGED <<qtds, overlay, linked, retire, device, toggle, skips>>
  BY DEF ReadToggle
<1>2. PICK pc : /\ call' = [call EXCEPT !.toggle = overlay.toggle, !.pc = pc]
                /\ \/ call.by = "sync" /\ pc = "unlink"
                   \/ call.by = "sync" /\ ~call.finished /\ pc = "poll"
                   \/ call.by = "monitor" /\ ~call.finished /\ pc = "wait"
                   \/ call.by = "monitor" /\ call.finished /\ call.result = "noerror" /\ pc = "qtds"
                   \/ call.by = "monitor" /\ call.finished /\ call.result # "noerror" /\ pc = "callback"
                   \/ call.by = "delete" /\ pc = "unlink"
  <2>1. call.by \in {"sync", "monitor", "delete"}
    BY DEF QInv, QueueTypeOK
  <2> QED
    BY <2>1 DEF ReadToggle
<1>3. call \in Calls /\ overlay.toggle \in 0 .. 1 /\ pc \in Steps
  BY <1>2 DEF QInv, QueueTypeOK, Calls, Steps
<1>4. /\ call' \in Calls /\ call'.pc = pc /\ call'.toggle = overlay.toggle /\ call'.kind = call.kind
      /\ call'.inStep = call.inStep /\ call'.by = call.by /\ call'.i = call.i
      /\ call'.completed = call.completed /\ call'.result = call.result /\ call'.finished = call.finished
  BY <1>2, <1>3 DEF Calls
<1>5. Stage' /\ QtdShape' /\ ShortShape' /\ Toggles' /\ HostMoved' = HostMoved
  BY <1>1, <1>2, <1>4, DriverKeeps DEF Updates
<1>6. QueueTypeOK' /\ qtds' \in Seq(Tds)
  BY <1>1, <1>4 DEF QInv, QueueTypeOK, Calls
<1>7. CallShape'
  <2>1. call.by = "sync" <=> call.kind # "interrupt"
    BY <1>1 DEF QInv, CallShape
  <2>2. call.kind \in Kinds
    BY <1>1, Facts
  <2> QED
    BY <1>2, <1>4, <2>1, <2>2 DEF CallShape, Updates, Kinds
<1>8. Reading'
  <2>1. HasRead(D1)' = HasRead(D1) /\ HasRead(D1 + 1)' = HasRead(D1 + 1) /\ D1' = D1 /\ (Two' <=> Two)
    BY <1>1, <1>4 DEF HasRead, D1, Two
  <2>2. /\ call.completed = HasRead(D1) + (IF Two THEN HasRead(D1 + 1) ELSE 0)
        /\ call.i <= Len(qtds) + 1
        /\ \A j \in 1 .. call.i - 1 : qtds[j].status = "done"
    BY <1>1 DEF QInv, Reading
  <2> QED
    BY <1>1, <1>4, <2>1, <2>2 DEF Reading
<1>9. Finishing'
  <2>1. Ended' => Ended
    BY <1>1, <1>4 DEF Ended
  <2>2. Failed' => Failed
    BY <1>1, <1>4 DEF Failed
  <2>3. (Quiet' <=> Quiet) /\ (Complete' <=> Complete) /\ (Hidden' <=> Hidden) /\ (Halted' <=> Halted)
    <3>1. (Retired' <=> Retired) /\ (Halted' <=> Halted)
      BY <1>1, <1>4 DEF Retired, Halted, Loaded
    <3> QED
      BY <1>1, <1>4, <1>5, <3>1 DEF Quiet, Leads, Complete, Hidden
  <2>4. call.inStep /\ call.kind # "control" => overlay.toggle = device.toggle
    BY <1>1 DEF QInv, Toggles
  <2>5. call'.pc \notin Updates
    BY <1>2, <1>4 DEF Updates
  <2> QED
    BY <1>1, <1>4, <1>5, <2>1, <2>2, <2>3, <2>4, <2>5 DEF QInv, Finishing
<1> QED
  BY <1>5, <1>6, <1>7, <1>8, <1>9 DEF QInv


(* One more qTD is read that was executed.                                 *)
LEMMA ReadGoodKeeps ==
  ASSUME QInv, UNCHANGED <<qtds, overlay, linked, retire, device, toggle, skips>>, call.pc = "read",
         NEW i \in DOMAIN qtds, i = call.i, Good(i),
         NEW pc, pc = (IF StopsAt(i) \/ i = Len(qtds) THEN "exit" ELSE "read"),
         NEW n, n = call.completed + Moved(i),
         call' = [call EXCEPT !.completed = n, !.i = i + 1, !.pc = pc]
  PROVE  QInv'
<1>0. PICK P, d : P = Packets /\ d = D1
  OBVIOUS
<1>1. /\ call.kind \in Kinds /\ Len(qtds) = Size(call.kind) /\ DOMAIN qtds = 1 .. Len(qtds)
      /\ Len(qtds) \in 1 .. 4 /\ i \in Nat
      /\ \A j \in DOMAIN qtds : qtds[j].total \in 0 .. P /\ Pd(j) = PidOf(call.kind, j)
  <2>1. /\ call.kind \in Kinds /\ DOMAIN qtds = 1 .. Size(call.kind) /\ Len(qtds) = Size(call.kind)
        /\ Size(call.kind) \in 1 .. 4
        /\ \A j \in DOMAIN qtds : qtds[j] \in Tds /\ Pids(call.kind)[j] = PidOf(call.kind, j)
    BY Facts
  <2>2. i \in Nat
    BY <2>1
  <2>3. \A j \in DOMAIN qtds : qtds[j].total \in 0 .. P
    BY <1>0, <2>1 DEF Tds
  <2> QED
    BY <2>1, <2>2, <2>3 DEF Pd
<1>2. /\ d \in DOMAIN qtds /\ d \in Nat /\ (Two => d + 1 \in DOMAIN qtds) /\ P \in Nat
      /\ \A j \in DOMAIN qtds : Pd(j) \in {"in", "out"} <=> j = d \/ (Two /\ j = d + 1)
      /\ \A j \in DOMAIN qtds : Pd(j) \in {"in", "out"} => Capacity(Pd(j)) = P
  BY <1>0, DataAt, QueueAssumption
<1>3. /\ call.result = "noerror" /\ call.finished
      /\ call.by = "sync" <=> call.kind # "interrupt"
  BY DEF QInv, CallShape
<1>4. /\ call.completed = HasRead(d) + (IF Two THEN HasRead(d + 1) ELSE 0)
      /\ \A j \in 1 .. i - 1 : qtds[j].status = "done"
  BY <1>0 DEF QInv, Reading
<1>5. Moved(i) = IF Pd(i) \in {"in", "out"} THEN P - qtds[i].total ELSE 0
  <2>1. CASE Pd(i) \in {"in", "out"}
    BY <1>2, <2>1 DEF Moved, Pd
  <2>2. CASE Pd(i) = "setup"
    BY <2>2 DEF Moved, Pd
  <2>3. CASE Pd(i) = "status"
    <3>1. Capacity(Pd(i)) = 0
      BY <2>3 DEF Capacity
    <3>2. qtds[i].total <= Capacity(Pd(i))
      BY DEF QInv, QtdShape
    <3>3. qtds[i].total = 0
      BY <1>1, <1>2, <3>1, <3>2
    <3> QED
      BY <2>3, <3>1, <3>3 DEF Moved, Pd
  <2> QED
    BY <1>1, <2>1, <2>2, <2>3 DEF PidOf
<1>6. pc \in {"read", "exit"} /\ (pc = "read" => i # Len(qtds))
  OBVIOUS
<1>7. /\ call'.completed = n /\ call'.i = i + 1 /\ call'.pc = pc /\ call'.kind = call.kind
      /\ call'.inStep = call.inStep /\ call'.by = call.by /\ call'.result = "noerror" /\ call'.finished
  BY <1>3 DEF QInv, QueueTypeOK
<1>8. /\ \A j \in Nat : j # i => HasRead(j)' = HasRead(j)
      /\ HasRead(i) = 0 /\ HasRead(i)' = P - qtds[i].total
  BY <1>0, <1>1, <1>7 DEF HasRead
<1>9. /\ n = HasRead(d)' + (IF Two THEN HasRead(d + 1)' ELSE 0)
      /\ HasRead(d)' \in 0 .. P /\ (Two => HasRead(d + 1)' \in 0 .. P)
  <2>1. \A j \in DOMAIN qtds : HasRead(j) \in 0 .. P /\ HasRead(j)' \in 0 .. P
    BY <1>0, <1>1, <1>2, <1>7 DEF HasRead
  <2>2. CASE Pd(i) \notin {"in", "out"}
    <3>1. HasRead(d)' = HasRead(d) /\ (Two => HasRead(d + 1)' = HasRead(d + 1))
      BY <1>2, <1>8, <2>2
    <3>2. call.completed \in Nat /\ n = call.completed + 0
      BY <1>2, <1>5, <2>2 DEF QInv, QueueTypeOK
    <3> QED
      BY <1>2, <1>4, <2>1, <3>1, <3>2
  <2>3. CASE i = d
    <3>1. /\ HasRead(d) = 0 /\ n = call.completed + HasRead(d)'
          /\ Two => HasRead(d + 1)' = HasRead(d + 1)
      BY <1>2, <1>5, <1>8, <2>3
    <3> QED
      BY <1>2, <1>4, <2>1, <3>1
  <2>4. CASE Two /\ i = d + 1
    <3>1. HasRead(d + 1) = 0 /\ n = call.completed + HasRead(d + 1)' /\ HasRead(d)' = HasRead(d)
      BY <1>2, <1>5, <1>8, <2>4
    <3> QED
      BY <1>2, <1>4, <2>1, <2>4, <3>1
  <2> QED
    BY <1>2, <2>2, <2>3, <2>4
<1>10. n \in 0 .. 2 * P /\ n <= DataLen(call.kind)
  <2>1. DataLen(call.kind) = P * DataQtdsOf(call.kind)
    BY <1>0, <1>1, DataLenIs
  <2>2. DataQtdsOf(call.kind) = IF Two THEN 2 ELSE 1
    BY DEF Two, DataQtdsOf
  <2> QED
    BY <1>2, <1>9, <2>1, <2>2
<1>11. QueueTypeOK' /\ qtds' \in Seq(Tds)
  <2>1. PICK m : m = i + 1
    OBVIOUS
  <2>2. call \in Calls /\ m \in 1 .. 5 /\ n \in 0 .. 2 * Packets /\ pc \in Steps
    BY <1>0, <1>1, <1>6, <1>10, <2>1 DEF QInv, QueueTypeOK, Calls, Steps
  <2>3. call' \in Calls
    BY <2>1, <2>2 DEF Calls
  <2> QED
    BY <1>7, <1>10, <2>3 DEF QInv, QueueTypeOK, Calls
<1>12. Stage' /\ QtdShape' /\ ShortShape' /\ Toggles' /\ HostMoved' = HostMoved
  BY <1>6, <1>7, DriverKeeps DEF Updates
<1>13. CallShape'
  <2>1. pc = "read" => i + 1 \in DOMAIN qtds
    BY <1>1, <1>6
  <2> QED
    BY <1>1, <1>3, <1>6, <1>7, <2>1 DEF CallShape, Kinds, Updates
<1>14. Reading'
  <2>1. \A j \in 1 .. (i + 1) - 1 : qtds[j].status = "done"
    BY <1>1, <1>4 DEF Good
  <2>2. i + 1 <= Len(qtds) + 1
    BY <1>1
  <2>3. D1' = d /\ (Two' <=> Two)
    BY <1>0, <1>7 DEF D1, Two
  <2> QED
    BY <1>7, <1>9, <2>1, <2>2, <2>3 DEF Reading
<1>15. CASE pc = "read"
  <2>1. Finishing'
    BY <1>7, <1>15 DEF Finishing, Ended, Failed, Updates
  <2> QED
    BY <1>11, <1>12, <1>13, <1>14, <2>1 DEF QInv
<1>16. CASE StopsAt(i) \/ i = Len(qtds)
  <2>1. \A j \in 1 .. i : qtds[j].status = "done"
    BY <1>1, <1>4 DEF Good
  <2>2. Retired
    <3>1. CASE StopsAt(i)
      BY <2>1, <3>1 DEF QInv, QtdShape, StopsAt, Good
    <3>2. CASE i = Len(qtds)
      <4>1. \A j \in DOMAIN qtds : qtds[j].status = "done"
        BY <1>1, <2>1, <3>2
      <4>2. ~Armed /\ ~Executing /\ ~Retiring /\ ~Halted
        BY <1>1, <4>1 DEF Armed, Executing, Retiring, Halted, Loaded, Halts
      <4> QED
        BY <4>2 DEF QInv, Stage, Gone, Updates
    <3> QED
      BY <1>16, <3>1, <3>2
  <2>3. overlay.next # 1 /\ overlay.cur \in DOMAIN qtds
    <3>1. /\ overlay.cur \in DOMAIN qtds /\ overlay.next = NextQtd(call.kind, overlay.cur)
          /\ Len(Pids(call.kind)) = Size(call.kind)
      BY <1>1, <2>2, PidsAre DEF Retired, Loaded
    <3> QED
      BY <1>1, <3>1 DEF NextQtd, Terminate
  <2>4. StopsAt(i) => /\ i = overlay.cur /\ Pd(i) = "in" /\ qtds[i].total # 0 /\ AltNext(call.kind, i) = Stop
                      /\ overlay.total # 0 /\ overlay.alt = Stop /\ device.short
    BY <2>2 DEF StopsAt, Good, Pd, QInv, QtdShape, Retired, Loaded
  <2>5. Quiet
    <3>1. CASE StopsAt(i)
      BY <1>1, <2>2, <2>4, <3>1 DEF Quiet, Retired, Leads, Stop, Terminate
    <3>2. CASE i = Len(qtds)
      BY <1>1, <2>1, <2>2, <3>2 DEF Quiet, Retired
    <3> QED
      BY <1>16, <3>1, <3>2
  <2>6. \A j \in DOMAIN qtds : j <= i \/ (StopsAt(i) /\ qtds[j].status = "active" /\ j # overlay.cur)
    <3>1. SUFFICES ASSUME NEW j \in DOMAIN qtds, ~(j <= i)
                   PROVE  StopsAt(i) /\ qtds[j].status = "active" /\ j # overlay.cur
      OBVIOUS
    <3>2. StopsAt(i) /\ i = overlay.cur
      BY <1>1, <1>16, <2>4, <3>1
    <3> QED
      BY <1>1, <2>3, <3>1, <3>2 DEF QInv, QtdShape
  <2>7. \A j \in DOMAIN qtds : Pd(j) \in {"in", "out"} => HasRead(j)' = Took(j)
    <3>1. SUFFICES ASSUME NEW j \in DOMAIN qtds, Pd(j) \in {"in", "out"} PROVE HasRead(j)' = Took(j)
      OBVIOUS
    <3>2. CASE j <= i
      <4>1. Took(j) = P - qtds[j].total
        BY <1>1, <1>2, <2>1, <3>1, <3>2 DEF Took
      <4>2. HasRead(j)' = P - qtds[j].total
        BY <1>0, <1>1, <1>7, <3>2 DEF HasRead
      <4> QED
        BY <4>1, <4>2
    <3>3. CASE ~(j <= i)
      <4>1. Took(j) = 0
        BY <2>3, <2>6, <3>3 DEF Took
      <4>2. HasRead(j)' = 0
        BY <1>1, <1>7, <3>3 DEF HasRead
      <4> QED
        BY <4>1, <4>2
    <3> QED
      BY <3>2, <3>3
  <2>8. n = HostMoved
    <3>1. HasRead(d)' = Took(d) /\ (Two => HasRead(d + 1)' = Took(d + 1))
      BY <1>2, <2>7
    <3>2. HostMoved = Took(d) + (IF Two THEN Took(d + 1) ELSE 0)
      BY <1>0 DEF HostMoved
    <3> QED
      BY <1>9, <3>1, <3>2
  <2>9. device.short \/ n = DataLen(call.kind)
    <3>1. SUFFICES ASSUME ~device.short PROVE n = DataLen(call.kind)
      OBVIOUS
    <3>2. i = Len(qtds)
      BY <1>16, <2>4, <3>1
    <3>3. \A j \in DOMAIN qtds : qtds[j].status = "done" /\ qtds[j].total = 0
      <4>1. \A j \in DOMAIN qtds : qtds[j].status = "done"
        BY <1>1, <2>1, <3>2
      <4> QED
        BY <3>1, <4>1 DEF QInv, QtdShape
    <3>4. \A j \in DOMAIN qtds : HasRead(j)' = P
      BY <1>0, <1>1, <1>2, <1>7, <3>2, <3>3 DEF HasRead
    <3>5. DataLen(call.kind) = P * (IF Two THEN 2 ELSE 1)
      BY <1>0, <1>1, DataLenIs DEF Two, DataQtdsOf
    <3> QED
      BY <1>2, <1>9, <3>4, <3>5
  <2>10. call.kind = "control" => device.status
    <3>1. SUFFICES ASSUME call.kind = "control" PROVE device.status
      OBVIOUS
    <3>2. ~StopsAt(i)
      <4>1. SUFFICES ASSUME StopsAt(i) PROVE FALSE
        OBVIOUS
      <4>2. AltNext(call.kind, i) = Size(call.kind)
        BY <1>1, <2>4, <3>1, <4>1, PidsAre DEF AltNext, Pd
      <4> QED
        BY <1>1, <2>4, <4>1, <4>2 DEF Stop
    <3>3. Pd(i) = "status" /\ qtds[i].status = "done"
      BY <1>1, <1>16, <3>1, <3>2, QueueAssumption DEF PidOf, Size, Good
    <3> QED
      BY <3>3 DEF QInv, QtdShape
  <2>11. Finishing'
    <3>1. Quiet' /\ Retired'
      BY <1>7, <2>2, <2>5 DEF Quiet, Leads, Retired, Loaded
    <3>2. pc = "exit" /\ ~Failed'
      BY <1>7, <1>16 DEF Failed
    <3>3. Complete'
      BY <1>7, <1>12, <2>8, <2>9, <2>10, <3>1 DEF Complete
    <3> QED
      BY <1>7, <3>1, <3>2, <3>3 DEF Finishing, Updates
  <2> QED
    BY <1>11, <1>12, <1>13, <1>14, <2>11 DEF QInv
<1> QED
  BY <1>15, <1>16

(* No more data are read than the controller took.                         *)
LEMMA ReadIsMoved ==
  ASSUME QInv, call.pc = "read"
  PROVE  call.completed <= HostMoved
<1>0. PICK d : d = D1
  OBVIOUS
<1>1. /\ d \in DOMAIN qtds /\ d \in Nat /\ (Two => d + 1 \in DOMAIN qtds) /\ Packets \in Nat
      /\ \A j \in DOMAIN qtds : Pd(j) \in {"in", "out"} <=> j = d \/ (Two /\ j = d + 1)
      /\ \A j \in DOMAIN qtds : Pd(j) \in {"in", "out"} => Capacity(Pd(j)) = Packets
  BY <1>0, DataAt, QueueAssumption
<1>2. /\ call.completed = HasRead(d) + (IF Two THEN HasRead(d + 1) ELSE 0)
      /\ \A j \in 1 .. call.i - 1 : qtds[j].status = "done"
      /\ HostMoved = Took(d) + (IF Two THEN Took(d + 1) ELSE 0)
  BY <1>0 DEF QInv, Reading, HostMoved
<1>3. \A j \in DOMAIN qtds : j \in Nat \ {0} /\ qtds[j].total \in 0 .. Packets
  BY Facts DEF Tds
<1>4. call.i \in 1 .. 5 /\ overlay.total \in 0 .. Packets
  BY DEF QInv, QueueTypeOK
<1>5. ASSUME NEW j \in DOMAIN qtds, Pd(j) \in {"in", "out"}
      PROVE  HasRead(j) \in Nat /\ Took(j) \in Nat /\ HasRead(j) <= Took(j)
  <2>1. Capacity(Pd(j)) = Packets /\ j \in Nat \ {0} /\ qtds[j].total \in 0 .. Packets
    BY <1>1, <1>3, <1>5
  <2>2. overlay.next # 1 /\ overlay.cur = j /\ qtds[j].status = "active" => overlay.total <= Packets
    BY <1>1, <1>4
  <2>3. CASE call.i > j
    <3>1. qtds[j].status = "done"
      BY <1>2, <1>4, <2>1, <2>3
    <3> QED
      BY <1>1, <2>1, <2>3, <3>1 DEF HasRead, Took
  <2>4. CASE ~(call.i > j)
    BY <1>1, <1>4, <2>1, <2>2, <2>4 DEF HasRead, Took
  <2> QED
    BY <2>3, <2>4
<1>6. HasRead(d) \in Nat /\ Took(d) \in Nat /\ HasRead(d) <= Took(d)
  BY <1>1, <1>5
<1>7. Two => HasRead(d + 1) \in Nat /\ Took(d + 1) \in Nat /\ HasRead(d + 1) <= Took(d + 1)
  BY <1>1, <1>5
<1> QED
  BY <1>2, <1>6, <1>7

(* A qTD is read that was not executed, or halted the queue.               *)
LEMMA ReadBadKeeps ==
  ASSUME QInv, UNCHANGED <<qtds, overlay, linked, retire, device, toggle, skips>>, call.pc = "read",
         NEW i \in DOMAIN qtds, i = call.i, ~Good(i),
         NEW r, r = (CASE qtds[i].status = "active" -> "notexecute"
                       [] qtds[i].status = "retried" -> "noerror"
                       [] OTHER -> qtds[i].status),
         call' = [call EXCEPT !.pc = "exit", !.finished = qtds[i].status # "active", !.result = r]
  PROVE  QInv'
<1>1. qtds[i].status \in {"active"} \cup Halts /\ call.kind \in Kinds
  BY Facts DEF Tds, Good
<1>2. PICK f : f = (qtds[i].status # "active") /\ f \in BOOLEAN
  BY Zenon
<1>3. /\ r \in {"notexecute", "stall", "error", "noerror"} /\ (f => qtds[i].status \in Halts)
      /\ f /\ r = "noerror" => qtds[i].status = "retried"
  BY <1>1, <1>2 DEF Halts
<1>4. call \in Calls
  BY DEF QInv, QueueTypeOK, Calls
<1>5. /\ call' \in Calls /\ call'.pc = "exit" /\ (call'.finished <=> f) /\ call'.result = r
      /\ call'.kind = call.kind /\ call'.inStep = call.inStep /\ call'.by = call.by
      /\ call'.i = call.i /\ call'.completed = call.completed
  <2>1. "exit" \in Steps /\ r \in Results
    BY <1>3 DEF Steps, Results
  <2>2. call' = [call EXCEPT !.pc = "exit", !.finished = f, !.result = r]
    BY <1>2
  <2> QED
    BY <1>2, <1>4, <2>1, <2>2 DEF Calls
<1>6. QueueTypeOK' /\ qtds' \in Seq(Tds)
  BY <1>5 DEF QInv, QueueTypeOK, Calls
<1>7. Stage' /\ QtdShape' /\ ShortShape' /\ Toggles' /\ HostMoved' = HostMoved
  BY <1>5, DriverKeeps DEF Updates
<1>8. CallShape'
  <2>1. call.by = "sync" <=> call.kind # "interrupt"
    BY DEF QInv, CallShape
  <2> QED
    BY <1>1, <1>5, <2>1 DEF CallShape, Kinds, Updates
<1>9. Reading'
  <2>1. HasRead(D1)' = HasRead(D1) /\ HasRead(D1 + 1)' = HasRead(D1 + 1) /\ D1' = D1 /\ (Two' <=> Two)
    BY <1>5 DEF HasRead, D1, Two
  <2>2. /\ call.completed = HasRead(D1) + (IF Two THEN HasRead(D1 + 1) ELSE 0)
        /\ call.i <= Len(qtds) + 1
        /\ \A j \in 1 .. call.i - 1 : qtds[j].status = "done"
    BY DEF QInv, Reading
  <2> QED
    BY <1>5, <2>1, <2>2 DEF Reading
<1>10. Finishing'
  <2>1. f => Halted /\ Quiet /\ i = overlay.cur
    <3>1. f => Halted /\ i = overlay.cur
      BY <1>3 DEF QInv, QtdShape
    <3> QED
      BY <3>1 DEF Halted, Quiet, Halts
  <2>2. (Halted' <=> Halted) /\ (Quiet' <=> Quiet)
    BY <1>5 DEF Halted, Loaded, Quiet, Leads
  <2>3. Failed' => Halted'
    BY <1>5, <2>1, <2>2 DEF Failed
  <2>4. ASSUME Ended' PROVE Hidden'
    <3>1. f /\ qtds[i].status = "retried"
      BY <1>3, <1>5, <2>4 DEF Ended
    <3>2. Halted /\ overlay.status = "retried"
      BY <2>1, <3>1 DEF Halted
    <3> QED
      BY <1>5, <1>7, <2>2, <3>2, ReadIsMoved DEF Hidden
  <2> QED
    BY <1>5, <2>1, <2>2, <2>3, <2>4 DEF Finishing, Ended, Updates
<1> QED
  BY <1>6, <1>7, <1>8, <1>9, <1>10 DEF QInv

\* The token of a qTD that the driver reads is final if the qTD is not active.
LEMMA ReadQtdKeeps ==
  ASSUME QInv, ReadQtd
  PROVE  QInv'
<1>1. call.pc = "read" /\ UNCHANGED <<qtds, overlay, linked, retire, device, toggle, skips>>
  BY DEF ReadQtd
<1>2. PICK i : i = call.i /\ i \in DOMAIN qtds
  BY <1>1 DEF QInv, CallShape
<1>3. CASE Good(i)
  <2>1. PICK n, pc : n = call.completed + Moved(i) /\ pc = IF StopsAt(i) \/ i = Len(qtds) THEN "exit" ELSE "read"
    OBVIOUS
  <2>2. call' = [call EXCEPT !.completed = n, !.i = i + 1, !.pc = pc]
    BY <1>2, <1>3, <2>1 DEF ReadQtd
  <2> QED
    BY <1>1, <1>2, <1>3, <2>1, <2>2, ReadGoodKeeps
<1>4. CASE ~Good(i)
  <2>1. PICK r : r = CASE qtds[i].status = "active" -> "notexecute"
                       [] qtds[i].status = "retried" -> "noerror"
                       [] OTHER -> qtds[i].status
    OBVIOUS
  <2>2. call' = [call EXCEPT !.pc = "exit", !.finished = qtds[i].status # "active", !.result = r]
    BY <1>2, <1>4, <2>1 DEF ReadQtd
  <2> QED
    BY <1>1, <1>2, <1>4, <2>1, <2>2, ReadBadKeeps
<1> QED
  BY <1>3, <1>4


(* EhcUpdateAsyncRequest: the qTD is restored.                             *)
LEMMA UpdateQtdsKeeps ==
  ASSUME QInv, UpdateQtds
  PROVE  QInv'
<1>1. /\ call.pc = "qtds" /\ qtds' = NewQtds(call.kind) /\ call' = [call EXCEPT !.pc = "alt"]
      /\ UNCHANGED <<overlay, linked, retire, device, toggle, skips>>
  BY DEF UpdateQtds
<1>2. call.kind = "interrupt" /\ call.by = "monitor" /\ call.result = "noerror" /\ call.finished
  BY <1>1 DEF QInv, CallShape
<1>3. Ended
  BY <1>1, <1>2 DEF Ended
<1>4. /\ (Retired /\ overlay.status = "idle") \/ (Halted /\ overlay.status = "retried" /\ device.stalled)
      /\ Loaded /\ ~retire
      /\ call.completed <= HostMoved
      /\ ~device.stalled => /\ call.completed = HostMoved
                            /\ device.short \/ call.completed = DataLen(call.kind)
  <2>1. Complete \/ Hidden
    BY <1>3 DEF QInv, Finishing
  <2>2. CASE Complete
    <3>1. call.completed \in Int
      BY DEF QInv, QueueTypeOK
    <3> QED
      BY <2>2, <3>1 DEF Complete, Retired
  <2>3. CASE Hidden
    <3>1. device.stalled
      BY <1>1, <2>3 DEF QInv, ShortShape, Hidden, Updates
    <3> QED
      BY <2>3, <3>1 DEF Hidden, Halted
  <2> QED
    BY <2>1, <2>2, <2>3
<1>5. /\ call' \in Calls /\ call'.pc = "alt" /\ call'.kind = call.kind /\ call'.inStep = call.inStep
      /\ call'.by = call.by /\ call'.result = call.result /\ call'.finished = call.finished
      /\ call'.completed = call.completed
  <2>1. call \in Calls
    BY DEF QInv, QueueTypeOK, Calls
  <2> QED
    BY <1>1, <2>1 DEF Calls, Steps
<1>6. call.kind \in Kinds /\ Size(call.kind) = 1 /\ DOMAIN qtds = {1} /\ Pids(call.kind)[1] = "in"
      /\ Len(Pids(call.kind)) = 1
  BY <1>1, <1>2, Facts, PidsAre DEF Kinds, Size, PidOf
<1>7. /\ qtds' \in Seq(Tds) /\ Len(qtds') = 1 /\ DOMAIN qtds' = {1} /\ qtds'[1] \in Tds
      /\ qtds'[1].status = "active" /\ qtds'[1].total = Capacity(Pids(call.kind)[1])
      /\ Capacity(Pids(call.kind)[1]) \in 0 .. Packets
  <2>1. /\ NewQtds(call.kind) \in Seq(Tds) /\ Len(NewQtds(call.kind)) = Size(call.kind)
        /\ DOMAIN NewQtds(call.kind) = 1 .. Size(call.kind)
        /\ \A j \in 1 .. Size(call.kind) :
             /\ NewQtds(call.kind)[j].status = "active" /\ NewQtds(call.kind)[j].total = Capacity(Pids(call.kind)[j])
             /\ NewQtds(call.kind)[j] \in Tds /\ Capacity(Pids(call.kind)[j]) \in 0 .. Packets
    BY <1>6, NewQtdsAre
  <2> QED
    BY <1>1, <1>6, <2>1
<1>8. overlay.next = Terminate /\ overlay.alt = Stop /\ overlay.status \in {"idle", "retried"} /\ ~retire
  <2>1. overlay.cur = 1
    BY <1>4, <1>6 DEF Loaded
  <2>2. overlay.next = NextQtd(call.kind, 1) /\ overlay.alt = AltNext(call.kind, 1)
    BY <1>4, <2>1 DEF Loaded
  <2>3. NextQtd(call.kind, 1) = Terminate
    BY <1>6 DEF NextQtd
  <2>4. AltNext(call.kind, 1) = Stop
    BY <1>2, <1>6 DEF AltNext
  <2> QED
    BY <1>4, <2>2, <2>3, <2>4
<1>9. QueueTypeOK'
  <2>1. \A j \in DOMAIN qtds' : qtds'[j] \in [status : {"active", "done"} \cup Halts, total : 0 .. Packets]
    BY <1>7 DEF Tds
  <2> QED
    BY <1>1, <1>5, <1>6, <1>7, <2>1 DEF QInv, QueueTypeOK, Calls
<1>10. CallShape'
  BY <1>2, <1>5 DEF CallShape, Updates
<1>11. Updated' /\ Stage'
  <2>1. Updated'
    BY <1>1, <1>5, <1>7, <1>8 DEF Updated, Updates
  <2>2. linked'
    BY <1>1, Facts
  <2> QED
    BY <1>5, <2>1, <2>2 DEF Stage, Updates
<1>12. QtdShape'
  <2>1. \A j \in DOMAIN qtds' : /\ qtds'[j].status = "active" /\ qtds'[j].total = Capacity(Pd(j)')
                                /\ qtds'[j].total <= Capacity(Pd(j)')
    BY <1>5, <1>7 DEF Pd
  <2> QED
    BY <2>1 DEF QtdShape, Halts
<1>13. ShortShape'
  BY <1>1, <1>5 DEF QInv, ShortShape, Updates
<1>14. Toggles'
  BY <1>1, <1>5 DEF QInv, Toggles, Updates
<1>15. Reading'
  BY <1>5 DEF Reading
<1>16. Finishing'
  <2>1. Quiet'
    BY <1>1, <1>7, <1>8 DEF Quiet, Leads, Stop, Terminate
  <2>2. call.inStep => device.moved = HostMoved
    BY <1>1 DEF QInv, Toggles, Updates
  <2>3. call.inStep => DataIsReal'
    BY <1>1, <1>2, <1>4, <1>5, <2>2 DEF DataIsReal
  <2> QED
    BY <1>5, <2>1, <2>3 DEF Finishing, Ended, Failed
<1> QED
  BY <1>7, <1>9, <1>10, <1>11, <1>12, <1>13, <1>14, <1>15, <1>16 DEF QInv

(* The stores into the overlay, but for the last: the controller finds     *)
(* nothing to do yet.                                                      *)
LEMMA StoresKeep ==
  ASSUME QInv, UpdateAlt \/ UpdateTotal
  PROVE  QInv'
<1>1. PICK pc : /\ UNCHANGED <<qtds, linked, retire, device, toggle, skips>>
                /\ call' = [call EXCEPT !.pc = pc]
                /\ \/ call.pc = "alt" /\ pc = "total" /\ overlay' = [overlay EXCEPT !.alt = Zero, !.status = "idle"]
                   \/ call.pc = "total" /\ pc = "next" /\ overlay' = [overlay EXCEPT !.total = 0]
  BY DEF UpdateAlt, UpdateTotal
<1>2. call.pc \in Updates /\ pc \in {"total", "next"} /\ pc \in Updates
  BY <1>1 DEF Updates
<1>3. /\ call' \in Calls /\ call'.pc = pc /\ call'.kind = call.kind /\ call'.inStep = call.inStep
      /\ call'.by = call.by /\ call'.result = call.result /\ call'.finished = call.finished
      /\ call'.completed = call.completed
  <2>1. call \in Calls
    BY DEF QInv, QueueTypeOK, Calls
  <2> QED
    BY <1>1, <1>2, <2>1 DEF Calls, Steps
<1>4. /\ call.kind = "interrupt" /\ call.by = "monitor" /\ call.result = "noerror" /\ call.finished
  BY <1>2 DEF QInv, CallShape
<1>5. /\ linked /\ (call.pc = "total" => overlay.status = "idle") /\ ~retire /\ overlay.next = Terminate
      /\ \A j \in DOMAIN qtds : qtds[j].status = "active"
      /\ call.pc = "total" => overlay.alt = Zero
  BY <1>2 DEF QInv, Stage, Gone, Updated, Updates
<1>6. /\ overlay' \in Overlays /\ overlay'.status = "idle" /\ overlay'.next = Terminate /\ overlay'.alt = Zero
      /\ overlay'.toggle = overlay.toggle /\ (pc = "next" => overlay'.total = 0)
  <2>1. overlay \in Overlays
    BY DEF QInv, QueueTypeOK, Overlays
  <2>2. Zero \in Links /\ 0 \in 0 .. Packets
    BY QueueAssumption DEF Links, Zero
  <2> HIDE DEF Links
  <2>3. CASE call.pc = "alt" /\ pc = "total" /\ overlay' = [overlay EXCEPT !.alt = Zero, !.status = "idle"]
    BY <1>5, <2>1, <2>2, <2>3 DEF Overlays
  <2>4. CASE call.pc = "total" /\ pc = "next" /\ overlay' = [overlay EXCEPT !.total = 0]
    BY <1>5, <2>1, <2>2, <2>4 DEF Overlays
  <2> QED
    BY <1>1, <2>3, <2>4
<1>7. QueueTypeOK' /\ qtds' \in Seq(Tds)
  BY <1>1, <1>3, <1>6 DEF QInv, QueueTypeOK, Calls, Overlays
<1>8. CallShape'
  BY <1>2, <1>3, <1>4 DEF CallShape, Updates
<1>9. Stage'
  <2>1. Updated'
    BY <1>1, <1>2, <1>3, <1>5, <1>6 DEF Updated
  <2> QED
    BY <1>1, <1>2, <1>3, <1>5, <2>1 DEF Stage, Updates
<1>10. QtdShape'
  <2>1. \A j \in DOMAIN qtds : qtds[j].total = Capacity(Pd(j)) /\ qtds[j].total <= Capacity(Pd(j)) /\ Pd(j)' = Pd(j)
    BY <1>1, <1>3, <1>5 DEF QInv, QtdShape, Pd
  <2> QED
    BY <1>1, <1>5, <2>1 DEF QtdShape, Halts
<1>11. ShortShape'
  BY <1>1, <1>2, <1>3 DEF QInv, ShortShape
<1>12. Toggles'
  BY <1>1, <1>2, <1>3, <1>6 DEF QInv, Toggles, Updates
<1>13. Reading'
  BY <1>2, <1>3 DEF Reading
<1>14. Finishing'
  <2>1. Quiet'
    <3>1. 0 \notin DOMAIN qtds /\ -1 \notin DOMAIN qtds
      BY Facts, <1>2 DEF Updates
    <3> QED
      BY <1>1, <1>5, <1>6, <3>1 DEF Quiet, Leads, Zero, Terminate
  <2>2. call.inStep => DataIsReal
    BY <1>2 DEF QInv, Finishing
  <2>3. call.inStep => DataIsReal'
    BY <1>1, <1>2, <1>3, <1>4, <2>2 DEF DataIsReal, Succeeded, Told, Updates
  <2> QED
    BY <1>2, <1>3, <2>1, <2>3 DEF Finishing, Ended, Failed
<1> QED
  BY <1>7, <1>8, <1>9, <1>10, <1>11, <1>12, <1>13, <1>14 DEF QInv

(* NextQtd: the controller may take the qTD again.                         *)
LEMMA UpdateNextKeeps ==
  ASSUME QInv, UpdateNext
  PROVE  QInv'
<1>1. PICK pc : /\ call.pc = "next" /\ overlay' = [overlay EXCEPT !.next = 1] /\ device' = Fresh(device)
                /\ call' = [call EXCEPT !.pc = pc] /\ pc \in {"callback", "wait"}
                /\ skips' = skips \/ (skips < MaxSkips /\ skips' = skips + 1)
                /\ UNCHANGED <<qtds, linked, retire, toggle>>
  BY DEF UpdateNext
<1>2. /\ call' \in Calls /\ call'.pc = pc /\ call'.kind = call.kind /\ call'.inStep = call.inStep
      /\ call'.by = call.by /\ call'.result = call.result /\ call'.finished = call.finished
      /\ call'.completed = call.completed
  <2>1. call \in Calls
    BY DEF QInv, QueueTypeOK, Calls
  <2>2. pc \in Steps
    BY <1>1 DEF Steps
  <2> QED
    BY <1>1, <2>1, <2>2 DEF Calls
<1>3. /\ call.kind = "interrupt" /\ call.by = "monitor" /\ call.result = "noerror" /\ call.finished
  BY <1>1 DEF QInv, CallShape, Updates
<1>4. /\ linked /\ overlay.status = "idle" /\ ~retire /\ overlay.total = 0 /\ overlay.alt = Zero
      /\ \A j \in DOMAIN qtds : qtds[j].status = "active"
  BY <1>1 DEF QInv, Stage, Gone, Updated, Updates
<1>5. /\ overlay' \in Overlays /\ overlay'.next = 1 /\ overlay'.status = "idle" /\ overlay'.total = 0
      /\ overlay'.alt = Zero /\ overlay'.toggle = overlay.toggle
  <2>1. overlay \in Overlays /\ 1 \in Links
    BY DEF QInv, QueueTypeOK, Overlays, Links
  <2> QED
    BY <1>1, <1>4, <2>1 DEF Overlays
<1>6. /\ device' \in Devices
      /\ device'.toggle = device.toggle /\ device'.moved = 0 /\ ~device'.short /\ ~device'.over
  <2>1. device' = [device EXCEPT !.moved = 0, !.short = FALSE, !.status = FALSE, !.over = FALSE,
                                 !.stalled = FALSE]
    BY <1>1 DEF Fresh
  <2>2. 0 \in 0 .. 2 * Packets + 1
    BY QueueAssumption
  <2>3. device \in Devices
    BY DEF QInv, QueueTypeOK, Devices
  <2> QED
    BY <2>1, <2>2, <2>3 DEF Devices
<1>7. call.kind \in Kinds /\ D1 \in DOMAIN qtds /\ (Two => D1 + 1 \in DOMAIN qtds)
  BY <1>1, Facts, DataAt
<1>8. Armed'
  BY <1>1, <1>4, <1>5 DEF Armed
<1>9. HostMoved' = 0
  <2>1. \A j \in DOMAIN qtds : Took(j)' = 0
    BY <1>1, <1>4, <1>5 DEF Took
  <2>2. PICK d : d = D1 /\ D1' = d
    BY <1>2 DEF D1
  <2>3. HostMoved' = Took(d)' + (IF Two THEN Took(d + 1)' ELSE 0)
    BY <1>2, <2>2 DEF HostMoved, Two
  <2> QED
    BY <1>7, <2>1, <2>2, <2>3
<1>10. QueueTypeOK' /\ qtds' \in Seq(Tds)
  <2>1. skips' \in 0 .. MaxSkips
    BY <1>1, QueueAssumption DEF QInv, QueueTypeOK
  <2> QED
    BY <1>1, <1>2, <1>5, <1>6, <2>1 DEF QInv, QueueTypeOK, Calls, Overlays, Devices
<1>11. CallShape'
  BY <1>1, <1>2, <1>3 DEF CallShape, Updates
<1>12. Stage'
  BY <1>1, <1>2, <1>4, <1>8 DEF Stage, Updates
<1>13. QtdShape'
  <2>1. \A j \in DOMAIN qtds : qtds[j].total = Capacity(Pd(j)) /\ qtds[j].total <= Capacity(Pd(j)) /\ Pd(j)' = Pd(j)
    BY <1>1, <1>2, <1>4 DEF QInv, QtdShape, Pd
  <2> QED
    BY <1>1, <1>4, <2>1 DEF QtdShape, Halts
<1>14. ShortShape'
  BY <1>5, <1>6 DEF ShortShape
<1>15. Toggles'
  <2>1. call.inStep /\ call.kind # "control" => overlay.toggle = device.toggle
    BY <1>1 DEF QInv, Toggles
  <2> QED
    BY <1>2, <1>5, <1>6, <1>9, <2>1 DEF Toggles
<1>16. Reading'
  BY <1>1, <1>2 DEF Reading
<1>17. Finishing'
  BY <1>1, <1>2, <1>3 DEF Finishing, Ended, Failed, Updates
<1> QED
  BY <1>10, <1>11, <1>12, <1>13, <1>14, <1>15, <1>16, <1>17 DEF QInv


(* The transfer returns and its queue head is gone.                        *)
LEMMA GoneIsShaped ==
  ASSUME qtds' = <<>>, overlay' = NoQh, ~linked', ~retire', call' = NoCall, ~device'.over
  PROVE  CallShape' /\ Stage' /\ QtdShape' /\ ShortShape' /\ Toggles' /\ Reading' /\ Finishing'
<1>1. call'.pc = "none" /\ call'.kind = "none" /\ ~call'.finished
  BY DEF NoCall
<1>2. CallShape'
  BY <1>1 DEF CallShape, Updates
<1>3. Stage'
  BY <1>1 DEF Stage, Gone
<1>4. QtdShape' /\ ShortShape'
  BY <1>1 DEF QtdShape, ShortShape
<1>5. Toggles' /\ Reading'
  BY <1>1 DEF Toggles, Reading
<1>6. Finishing'
  BY <1>1 DEF Finishing, Ended, Failed, Updates
<1> QED
  BY <1>2, <1>3, <1>4, <1>5, <1>6

\* No transfer, no qTDs and the empty overlay are of their types.
LEMMA NothingIsTyped ==
  /\ NoQh \in [status : {"idle", "active"} \cup Halts, total : 0 .. Packets,
               cur : 0 .. 4, next : Links, alt : Links, toggle : 0 .. 1]
  /\ NoCall \in [pc : Steps, kind : Kinds \cup {"none"}, by : {"sync", "monitor", "delete"},
                 i : 1 .. 5, completed : 0 .. 2 * Packets, result : Results,
                 finished : BOOLEAN, toggle : 0 .. 1, inStep : BOOLEAN]
  /\ NoCall.completed <= DataLen(NoCall.kind) /\ Len(<<>>) = Len(Pids(NoCall.kind))
  /\ <<>> \in Seq(Tds) /\ \A j \in DOMAIN <<>> : FALSE
<1>1. 0 \in 0 .. Packets /\ 0 \in 0 .. 2 * Packets /\ Terminate \in Links /\ Zero \in Links
  BY QueueAssumption DEF Links, Terminate, Zero
<1>2. "none" \in Steps /\ "noerror" \in Results
  BY DEF Steps, Results
<1>3. Pids("none") = <<>> /\ NoCall.kind = "none" /\ NoCall.completed = 0
  BY DEF Pids, NoCall
<1>4. DataLen("none") = 0
  <2>1. {i \in DOMAIN Pids("none") : Pids("none")[i] \in {"in", "out"}} = {}
    BY <1>3
  <2> QED
    BY <2>1, FS_EmptySet, QueueAssumption DEF DataLen
<1>5. NoQh \in [status : {"idle", "active"} \cup Halts, total : 0 .. Packets,
                cur : 0 .. 4, next : Links, alt : Links, toggle : 0 .. 1]
  BY <1>1 DEF NoQh
<1>6. NoCall \in [pc : Steps, kind : Kinds \cup {"none"}, by : {"sync", "monitor", "delete"},
                  i : 1 .. 5, completed : 0 .. 2 * Packets, result : Results,
                  finished : BOOLEAN, toggle : 0 .. 1, inStep : BOOLEAN]
  BY <1>1, <1>2 DEF NoCall
<1>7. <<>> \in Seq(Tds) /\ \A j \in DOMAIN <<>> : FALSE
  OBVIOUS
<1> QED
  BY <1>3, <1>4, <1>5, <1>6, <1>7

\* After a return the queue head is as it was before the first transfer.
LEMMA ReturnKeeps ==
  ASSUME QInv, Return
  PROVE  QInv'
<1>1. /\ call.pc = "unlink" /\ ~retire /\ linked' = FALSE /\ retire' = retire
      /\ call' = NoCall /\ qtds' = <<>> /\ overlay' = NoQh /\ skips' = skips
  BY DEF Return
<1>2. /\ toggle \in 0 .. 1 /\ call.toggle \in 0 .. 1 /\ ~device.over
      /\ device \in Devices
  BY DEF QInv, QueueTypeOK, ShortShape, Devices
<1>3. toggle' \in 0 .. 1 /\ (device' = device \/ device' = [device EXCEPT !.toggle = 0])
  BY <1>2 DEF Return
<1>4. /\ device' \in Devices
      /\ ~device'.over
  BY <1>2, <1>3 DEF Devices
<1>5. QueueTypeOK' /\ qtds' \in Seq(Tds)
  <2>1. /\ linked' \in BOOLEAN /\ retire' \in BOOLEAN /\ skips' \in 0 .. MaxSkips
        /\ \A j \in DOMAIN qtds' : FALSE
    BY <1>1, NothingIsTyped DEF QInv, QueueTypeOK
  <2>2. /\ call'.completed <= DataLen(call'.kind) /\ Len(qtds') = Len(Pids(call'.kind)) /\ qtds' \in Seq(Tds)
    BY <1>1, NothingIsTyped
  <2> QED
    BY <1>1, <1>3, <1>4, <2>1, <2>2, NothingIsTyped DEF QueueTypeOK, Devices
<1> QED
  BY <1>1, <1>4, <1>5, GoneIsShaped DEF QInv

\* QInv holds at first,
LEMMA QInvInit == QueueInit => QInv
<1> SUFFICES ASSUME QueueInit PROVE QInv
  OBVIOUS
<1>1. /\ qtds = <<>> /\ overlay = NoQh /\ linked = FALSE /\ retire = FALSE
      /\ device = [toggle |-> 0, moved |-> 0, short |-> FALSE, status |-> FALSE, over |-> FALSE,
                stalled |-> FALSE]
      /\ call = NoCall /\ toggle = 0 /\ skips = 0
  BY DEF QueueInit
<1>2. call.pc = "none" /\ call.kind = "none" /\ ~call.finished /\ ~device.over
  BY <1>1 DEF NoCall
<1>3. QueueTypeOK /\ qtds \in Seq(Tds)
  <2>1. 0 \in 0 .. 2 * Packets + 1 /\ 0 \in 0 .. MaxSkips
    BY QueueAssumption
  <2>2. device \in Devices
    BY <1>1, <2>1 DEF Devices
  <2>3. linked \in BOOLEAN /\ retire \in BOOLEAN /\ toggle \in 0 .. 1 /\ skips \in 0 .. MaxSkips
        /\ \A j \in DOMAIN qtds : FALSE
    <3>1. \A j \in DOMAIN <<>> : FALSE
      OBVIOUS
    <3>2. qtds = <<>> /\ linked = FALSE /\ retire = FALSE /\ toggle = 0 /\ skips = 0
      BY <1>1
    <3>3. \A j \in DOMAIN qtds : FALSE
      BY <3>1, <3>2, Zenon
    <3>4. linked \in BOOLEAN /\ retire \in BOOLEAN
      BY <3>2
    <3>5. toggle \in 0 .. 1 /\ skips \in 0 .. MaxSkips
      BY <2>1, <3>2
    <3> QED
      BY <3>3, <3>4, <3>5
  <2>4. call.completed <= DataLen(call.kind) /\ Len(qtds) = Len(Pids(call.kind)) /\ qtds \in Seq(Tds)
    BY <1>1, NothingIsTyped
  <2> QED
    BY <1>1, <2>2, <2>3, <2>4, NothingIsTyped DEF QueueTypeOK, Devices
<1>4. CallShape /\ Stage
  BY <1>1, <1>2 DEF CallShape, Stage, Gone, Updates
<1>5. QtdShape /\ ShortShape
  BY <1>1, <1>2 DEF QtdShape, ShortShape
<1>6. Toggles /\ Reading /\ Finishing
  BY <1>2 DEF Toggles, Reading, Finishing, Ended, Failed, Updates
<1> QED
  BY <1>3, <1>4, <1>5, <1>6 DEF QInv

\* a step of something else keeps it,
LEMMA QInvStutter == QInv /\ UNCHANGED queueVars => QInv'
<1> SUFFICES ASSUME QInv, UNCHANGED queueVars PROVE QInv'
  OBVIOUS
<1>1. UNCHANGED <<qtds, overlay, linked, retire, device, call, toggle, skips>>
  BY DEF queueVars
<1>2. QueueTypeOK' /\ qtds' \in Seq(Tds) /\ CallShape'
  BY <1>1 DEF QInv, QueueTypeOK, CallShape
<1>3. Stage' /\ QtdShape'
  <2>1. /\ (Armed' <=> Armed) /\ (Executing' <=> Executing) /\ (Retiring' <=> Retiring)
        /\ (Halted' <=> Halted) /\ (Retired' <=> Retired)
    BY <1>1 DEF Armed, Executing, Retiring, Halted, Retired, Loaded, Pd
  <2>2. (Gone' <=> Gone) /\ (Updated' <=> Updated)
    BY <1>1 DEF Gone, Updated
  <2>3. \A j \in DOMAIN qtds : Pd(j)' = Pd(j)
    BY <1>1 DEF Pd
  <2>4. Stage'
    BY <1>1, <2>1, <2>2 DEF QInv, Stage
  <2>5. QtdShape'
    BY <1>1, <2>1, <2>3 DEF QInv, QtdShape
  <2> QED
    BY <2>4, <2>5
<1>4. ShortShape' /\ Toggles' /\ Reading' /\ Finishing'
  BY <1>1 DEF QInv, ShortShape, Toggles, Reading, Finishing, Agree, HostMoved, Took, HasRead, D1, Two, Pd,
              Ended, Failed, Quiet, Leads, Retired, Halted, Loaded, DataIsReal, Succeeded, Told, Complete, Hidden
<1> QED
  BY <1>2, <1>3, <1>4 DEF QInv

\* each step keeps it,
LEMMA QInvNext == QInv /\ [QueueNext]_queueVars => QInv'
<1> SUFFICES ASSUME QInv, [QueueNext]_queueVars PROVE QInv'
  OBVIOUS
<1>1. CASE Ehc
  BY <1>1, AdvanceKeeps, PacketKeeps, ShortPacketKeeps, HaltKeeps, WriteBackKeeps DEF Ehc
<1>2. CASE ReadQtd \/ ReadToggle \/ Return
  BY <1>2, ReadQtdKeeps, ReadToggleKeeps, ReturnKeeps
<1>3. CASE Update
  BY <1>3, UpdateQtdsKeeps, StoresKeep, UpdateNextKeeps DEF Update
<1>4. CASE Callback
  BY <1>4, CallbackKeeps
<1>5. CASE StartCheck("sync") \/ StartCheck("monitor") \/ StartCheck("delete")
  BY <1>5, StartCheckKeeps
<1>6. CASE \E kind \in Kinds : SubmitUrb(kind)
  BY <1>6, SubmitKeeps
<1>7. CASE UNCHANGED queueVars
  BY <1>7, QInvStutter
<1> QED
  BY <1>1, <1>2, <1>3, <1>4, <1>5, <1>6, <1>7 DEF QueueNext, Works

\* so it always holds.
LEMMA QInvHolds == QueueSafeSpec => []QInv
  BY QInvInit, QInvNext, PTL DEF QueueSafeSpec

-----------------------------------------------------------------------------
(* What a finished transfer reports is what the device did: the data that  *)
(* EhcCheckUrbResult counts were moved, all of them unless a short packet  *)
(* ended the read or the device stalled behind a transaction error that    *)
(* was retried, which the check takes for no error; and the toggle that it *)
(* returns is the one the device expects next, even though the qTDs and    *)
(* the QH are read while the controller writes them.                       *)
THEOREM FinishedIsReal == QueueSafeSpec => []CompletedIsReal
<1>1. QInv => CompletedIsReal
  <2> SUFFICES ASSUME QInv PROVE CompletedIsReal
    OBVIOUS
  <2>1. DataIsReal
    <3>1. CASE call.pc \in Updates
      BY <3>1 DEF QInv, Finishing, DataIsReal
    <3>2. CASE call.pc \notin Updates
      <4>1. SUFFICES ASSUME Succeeded \/ Told, call.inStep
                     PROVE  /\ call.completed <= device.moved
                            /\ ~device.stalled =>
                                 /\ call.completed = device.moved
                                 /\ device.short \/ device.moved = DataLen(call.kind)
                                 /\ call.kind = "control" => device.status
        BY DEF DataIsReal
      <4>2. Ended /\ call.pc # "none"
        BY <3>2, <4>1 DEF Ended, Succeeded, Told, Updates, QInv, CallShape
      <4>3. device.moved = HostMoved
        BY <3>2, <4>1, <4>2 DEF QInv, Toggles
      <4>4. CASE Complete
        <5>1. call.completed \in Int
          BY DEF QInv, QueueTypeOK
        <5> QED
          BY <4>3, <4>4, <5>1 DEF Complete
      <4>5. CASE Hidden
        <5>1. device.stalled
          BY <3>2, <4>2, <4>5 DEF QInv, ShortShape, Hidden
        <5> QED
          BY <4>3, <4>5, <5>1 DEF Hidden
      <4> QED
        BY <4>2, <4>4, <4>5 DEF QInv, Finishing
    <3> QED
      BY <3>1, <3>2
  <2>2. ToggleOfFinished
    <3>1. SUFFICES ASSUME call.pc \in {"unlink", "qtds", "callback"}, call.finished, call.kind # "control",
                          call.inStep, call.pc = "callback" => call.result # "noerror"
                   PROVE  call.toggle = device.toggle
      BY DEF ToggleOfFinished
    <3>2. (Ended \/ Failed) /\ call.pc # "exit"
      BY <3>1 DEF Ended, Failed, QInv, CallShape
    <3> QED
      BY <3>1, <3>2 DEF QInv, Finishing
  <2> QED
    BY <2>1, <2>2 DEF CompletedIsReal
<1> QED
  BY <1>1, QInvHolds, PTL

(* The queue that the driver shares with the controller is intact at every *)
(* store of a check and of an update: the controller is done with what the *)
(* driver restores or frees, does not ask for data behind a short packet,  *)
(* never follows the null link of EhcUpdateAsyncRequest but between two of *)
(* its stores, and has something to do, or to report, while an interrupt   *)
(* transfer waits.                                                         *)
THEOREM QueueIsSafe == QueueSafeSpec => []QueueInv
<1>1. QInv => QueueInv
  <2> SUFFICES ASSUME QInv PROVE QueueInv
    OBVIOUS
  <2>1. QueueTypeOK /\ ShortIsLast
    BY DEF QInv, ShortShape, ShortIsLast
  <2>2. FinishedIsQuiet
    <3>1. CASE call.pc \in {"alt", "total"}
      BY <3>1 DEF QInv, Finishing, Quiet, FinishedIsQuiet, Updates
    <3>2. CASE call.pc = "qtds" \/ (call.pc = "unlink" /\ call.finished)
      <4>1. Ended \/ Failed
        BY <3>2 DEF Ended, Failed, QInv, CallShape
      <4> QED
        BY <4>1 DEF QInv, Finishing, Quiet, Halted, Halts, FinishedIsQuiet
    <3> QED
      BY <3>1, <3>2 DEF FinishedIsQuiet
  <2>3. NullLinkUnseen
    <3>1. SUFFICES ASSUME linked, overlay.status = "idle", ~retire, Leads = Zero PROVE call.pc = "total"
      BY DEF NullLinkUnseen
    <3>2. call.pc # "none"
      BY <3>1 DEF QInv, Stage, Gone
    <3>3. CASE call.pc \in Updates
      <4>1. Updated
        BY <3>2, <3>3 DEF QInv, Stage, Gone
      <4>2. call.pc = "alt" => Leads # Zero
        BY <4>1 DEF Updated, Leads, Zero, Terminate, Stop
      <4>3. call.pc = "next" => Leads # Zero
        BY <4>1 DEF Updated, Leads, Zero, Terminate
      <4> QED
        BY <3>1, <3>3, <4>2, <4>3 DEF Updates
    <3>4. CASE call.pc \notin Updates
      <4>1. Armed \/ Retired
        BY <3>1, <3>2, <3>4 DEF QInv, Stage, Gone, Executing, Retiring, Halted, Halts
      <4>2. ~Armed
        BY <3>1 DEF Armed, Leads, Zero, Terminate
      <4>3. /\ overlay.cur \in DOMAIN qtds /\ overlay.next = NextQtd(call.kind, overlay.cur)
            /\ overlay.alt = AltNext(call.kind, overlay.cur)
        BY <4>1, <4>2 DEF Retired, Loaded
      <4>4. /\ overlay.cur \in 1 .. 4 /\ Len(Pids(call.kind)) \in 1 .. 4
        <5>1. call.kind \in Kinds /\ DOMAIN qtds = 1 .. Size(call.kind)
          BY <3>2, Facts
        <5>2. Len(Pids(call.kind)) = Size(call.kind) /\ Size(call.kind) \in 1 .. 4
          BY <5>1, PidsAre
        <5> QED
          BY <4>3, <5>1, <5>2
      <4>5. NextQtd(call.kind, overlay.cur) # 0 /\ AltNext(call.kind, overlay.cur) # 0
        BY <4>4 DEF NextQtd, AltNext, Terminate, Stop
      <4>6. overlay.next # 0 /\ overlay.alt # 0
        BY <4>3, <4>5
      <4> QED
        BY <3>1, <4>6 DEF Leads, Zero
    <3> QED
      BY <3>3, <3>4
  <2>4. AsyncArmed
    <3>1. SUFFICES ASSUME call.pc = "wait", overlay.status # "active", ~retire
                   PROVE  \/ overlay.status = "idle" /\ Leads = 1 /\ qtds[1].status = "active"
                          \/ qtds[1].status # "active"
      BY DEF AsyncArmed
    <3>2. DOMAIN qtds = {1}
      <4>1. call.kind = "interrupt"
        BY <3>1 DEF QInv, CallShape
      <4> QED
        BY <3>1, <4>1, Facts DEF Size
    <3>3. Armed \/ Halted \/ Retired
      BY <3>1 DEF QInv, Stage, Gone, Updates, Executing, Retiring
    <3>4. CASE Armed
      BY <3>2, <3>4 DEF Armed, Leads
    <3>5. CASE Halted \/ Retired
      BY <3>2, <3>5 DEF Halted, Retired, Loaded, Halts
    <3> QED
      BY <3>3, <3>4, <3>5
  <2> QED
    BY <2>1, <2>2, <2>3, <2>4 DEF QueueInv
<1> QED
  BY <1>1, QInvHolds, PTL

-----------------------------------------------------------------------------
(* EhciSchedule.                                                           *)

(* The inductive invariant.  The lists share their tails, so all of them   *)
(* are ends of the list of frame 0, which is a chain of the listed nodes.  *)
(* A rank numbers the chain from its end; the ranks need not be dense.     *)

(* Whether the QH of the operation is in the chain                         *)
Hooked ==
  \/ op.pc \in {"link", "hook"} /\ op.index # 0
  \/ op.pc = "poll"
  \/ op.pc = "unlink" /\ op.index = 0
Listed == {PeriodOne} \cup {q \in Qhs : use[q] = "period" \/ (q = op.q /\ Hooked)}

(* The links lead through L by falling rank                                *)
Chain(L, link, r) ==
  /\ r \in [Nodes -> Nat]
  /\ \A x, y \in L : r[x] = r[y] => x = y
  /\ \A x \in L :
       \/ link[x] = Null /\ \A y \in L : r[x] <= r[y]
       \/ /\ link[x] \in L /\ r[link[x]] < r[x]
          /\ \A y \in L : r[y] < r[x] => r[y] <= r[link[x]]

(* The chain is sorted, and the dummy is the first of interval 1.          *)
Sorted(L, r) ==
  /\ \A x, y \in L : r[y] <= r[x] => interval[y] <= interval[x]
  /\ \A x \in L : interval[x] = 1 => r[x] <= r[PeriodOne]

(* x is the first of L that is due in frame i                              *)
Top(L, r, i, x) ==
  /\ x \in L /\ i % interval[x] = 0
  /\ \A y \in L : i % interval[y] = 0 => r[y] <= r[x]

(* x is the first of L whose interval is not longer than that of q         *)
FirstNoLonger(L, r, q, x) ==
  /\ x \in L /\ interval[x] <= interval[q]
  /\ \A y \in L : interval[y] <= interval[q] => r[y] <= r[x]

(* The frames that the operation has still to visit                        *)
Ahead(i) == i >= op.index /\ i % interval[op.q] = 0

(* The frames begin with the first that is due; those ahead still begin    *)
(* with the successor of a QH that is being linked, or with a QH that is   *)
(* being unlinked.                                                         *)
FrameOk(L, r, i) ==
  \/ Top(L, r, i, frame[i])
  \/ /\ op.pc \in {"link", "hook"} /\ op.index # 0 /\ Ahead(i)
     /\ Top(L, r, i, op.q) /\ frame[i] = nextQh[op.q]
  \/ /\ op.pc = "unlink" /\ op.index # 0 /\ Ahead(i)
     /\ frame[i] = op.q /\ Top(L, r, i, nextQh[op.q])

(* The links of a QH that is not in the chain                              *)
Linking(L, r) ==
  LET q == op.q
  IN /\ op.pc = "link" /\ op.index = 0 => nextQh[q] = Null
     /\ op.pc = "hook" /\ op.index = 0 =>
          \E m \in L : /\ FirstNoLonger(L, r, q, m)
                       /\ nextQh[q] = IF interval[m] = interval[q] THEN nextQh[m] ELSE m
     /\ op.pc \in {"link", "hook"} /\ op.index # 0 =>
          \A x \in L : interval[x] = interval[q] => x = q
     /\ op.pc = "hook" /\ op.index # 0 =>
          frame[op.index] = nextQh[q] /\ Top(L, r, op.index, q)
     /\ op.pc = "unlink" /\ op.index # 0 /\ nextQh[q] # Null =>
          nextQh[q] \in L /\ interval[nextQh[q]] <= interval[q]

ScheduleLists(r) ==
  /\ Chain(Listed, nextQh, r) /\ Sorted(Listed, r)
  /\ \A i \in Frames : FrameOk(Listed, r, i)
  /\ Linking(Listed, r)

(* What the controller reads                                               *)
Mirrored ==
  /\ frameHw = frame
  /\ \A x \in Listed : horizon[x] = nextQh[x]
  /\ op.pc \in {"link", "hook", "poll", "unlink"} => horizon[op.q] = nextQh[op.q]

OneOperation ==
  /\ op.pc = "idle" => op.q = Null
  /\ op.pc # "idle" => op.q \in Qhs /\ use[op.q] = "held"
  /\ \A q \in Qhs : use[q] = "held" => q = op.q
  /\ op.pc \in {"link", "hook", "unlink"} => op.index % interval[op.q] = 0
  /\ op.pc = "poll" => op.index = 0
  /\ interval[PeriodOne] = 1

(* What is due is still ahead of the controller in its list                *)
Walking(r) ==
  ~walker.stale =>
    /\ walker.at = Null => walker.due = {}
    /\ walker.at # Null =>
         /\ walker.at \in Listed \/ (op.pc = "unlink" /\ walker.at = op.q)
         /\ walker.frame % interval[walker.at] = 0
         /\ \A d \in walker.due :
              /\ d \in Listed /\ use[d] = "period"
              /\ horizon[walker.at] # Null /\ r[d] <= r[horizon[walker.at]]

Async ==
  /\ op.pc \notin {"hookAsync", "run"} => nextQh[ReclaimHead] = ReclaimHead
  /\ op.pc # "run" => horizon[ReclaimHead] = ReclaimHead
  /\ op.pc \in {"hookAsync", "run"} =>
       nextQh[ReclaimHead] = op.q /\ nextQh[op.q] = ReclaimHead
  /\ op.pc = "run" => horizon[ReclaimHead] = op.q
  /\ op.pc \in {"hookAsync", "run", "ring", "wait"} => horizon[op.q] = ReclaimHead
  /\ timeouts = 0 =>
       /\ async = ReclaimHead \/ (op.pc \in {"run", "ring", "wait"} /\ async = op.q)
       /\ iaad => op.pc = "wait" /\ ~iaa
       /\ iaa => op.pc = "wait" /\ async = ReclaimHead

SInv ==
  /\ ScheduleTypeOK /\ OneOperation /\ Mirrored /\ Async
  /\ \E r : ScheduleLists(r) /\ Walking(r)

-----------------------------------------------------------------------------
(* Arithmetic of the intervals.                                            *)

\* A multiple is divisible.
LEMMA Multiple ==
  ASSUME NEW n \in Nat \ {0}, NEW k \in Int
  PROVE  (n * k) % n = 0
OBVIOUS

\* What is divisible is a multiple.
LEMMA Quotient ==
  ASSUME NEW a \in Nat, NEW n \in Nat \ {0}, a % n = 0
  PROVE  \E k \in Int : a = n * k
<1>1. a = n * (a \div n)
  OBVIOUS
<1>2. a \div n \in Int
  OBVIOUS
<1> QED
  BY <1>1, <1>2

\* Divisibility is transitive.
LEMMA Divides ==
  ASSUME NEW a \in Nat, NEW m \in Nat \ {0}, NEW n \in Nat \ {0}, a % n = 0, n % m = 0
  PROVE  a % m = 0
<1>1. PICK k \in Int : a = n * k
  BY Quotient
<1>2. PICK l \in Int : n = m * l
  BY Quotient
<1>3. l * k \in Int /\ a = m * (l * k)
  BY <1>1, <1>2
<1> QED
  BY <1>3, Multiple

\* Two multiples that are less than an interval apart are the same.
LEMMA NextMultiple ==
  ASSUME NEW a \in Nat, NEW b \in Nat, NEW n \in Nat \ {0}, a % n = 0, b % n = 0
  PROVE  /\ (b + n) % n = 0
         /\ b <= a => a = b \/ b + n <= a
<1>1. PICK k \in Int : a = n * k
  BY Quotient
<1>2. PICK l \in Int : b = n * l
  BY Quotient
<1>3. l + 1 \in Int /\ b + n = n * (l + 1)
  BY <1>2
<1>4. (b + n) % n = 0
  BY <1>3, Multiple
<1>5. ASSUME b <= a, a # b PROVE b + n <= a
  <2>1. k > l
    <3>1. SUFFICES ASSUME k <= l PROVE FALSE
      OBVIOUS
    <3>2. n * k <= n * l
      BY <3>1
    <3> QED
      BY <1>1, <1>2, <1>5, <3>2
  <2>2. n * k >= n * (l + 1)
    BY <2>1
  <2> QED
    BY <1>1, <1>3, <2>2
<1> QED
  BY <1>4, <1>5

\* Of two intervals the shorter divides the longer; all divide the number of
\* frames.
LEMMA IntervalsDivide ==
  ASSUME NEW m \in Intervals \cup {1}, NEW n \in Intervals \cup {1}
  PROVE  /\ m \in Nat \ {0} /\ n \in Nat \ {0}
         /\ m <= n => n % m = 0
         /\ NFrames \in Nat \ {0} /\ NFrames % n = 0
<1>1. NFrames \in Nat \ {0}
  BY ScheduleAssumption
<1>2. \A k \in Intervals \cup {1} : k \in Nat \ {0} /\ NFrames % k = 0
  BY <1>1, ScheduleAssumption
<1>3. ASSUME m <= n PROVE n % m = 0
  <2>1. CASE m = 1
    BY <1>2, <2>1
  <2>2. CASE m # 1 /\ n # 1
    <3>1. m % n = 0 \/ n % m = 0
      BY <2>2, ScheduleAssumption
    <3>2. CASE m % n = 0
      <4>1. m = n \/ m < n
        BY <1>2, <1>3
      <4>2. m < n => m % n = m
        BY <1>2
      <4>3. n % n = 0
        BY <1>2
      <4> QED
        BY <1>2, <3>2, <4>1, <4>2, <4>3
    <3> QED
      BY <3>1, <3>2
  <2>3. CASE n = 1
    BY <1>2, <1>3, <2>3
  <2> QED
    BY <2>1, <2>2, <2>3
<1> QED
  BY <1>1, <1>2, <1>3

-----------------------------------------------------------------------------
(* The walks.                                                              *)

(* A set of natural numbers has a least one.                               *)
LEMMA LeastNat ==
  ASSUME NEW T, T \subseteq Nat, T # {}
  PROVE  \E x \in T : \A y \in T : x <= y
<1>1. \E R : IsWellFoundedOn(R, Nat) /\ \A m, k \in Nat : m < k => <<m, k>> \in R
  <2>1. \A m, k \in Nat : m < k => <<m, k>> \in OpToRel(<, Nat)
    BY DEF OpToRel
  <2> QED
    BY <2>1, NatLessThanWellFounded, Zenon
<1>2. PICK R : IsWellFoundedOn(R, Nat) /\ \A m, k \in Nat : m < k => <<m, k>> \in R
  BY <1>1
<1>3. PICK x \in T : \A y \in T : ~(<<y, x>> \in R)
  <2>1. IsWellFoundedOn(R, Nat)
    BY <1>2
  <2> QED
    BY <2>1, WFMin, Zenon
<1>4. \A y \in T : ~(y < x)
  BY <1>2, <1>3
<1>5. \A y \in T : x <= y
  <2>1. \A m, k \in Nat : ~(m < k) => k <= m
    OBVIOUS
  <2> QED
    BY <1>4, <2>1
<1> QED
  BY <1>5

\* Null is no node.
LEMMA NodesAre ==
  /\ Null \notin Nodes /\ ReclaimHead \in Nodes /\ PeriodOne \in Nodes /\ Qhs \subseteq Nodes
  /\ ReclaimHead \notin Qhs /\ PeriodOne \notin Qhs /\ ReclaimHead # PeriodOne
BY ScheduleAssumption DEF Nodes

\* A walk meets its first node and what the walk from the next one meets.
LEMMA WalkGoesOn ==
  ASSUME NEW link \in [Nodes -> Nodes \cup {Null}], NEW n \in Nodes
  PROVE  On(link, n) = {n} \cup (IF link[n] = Null THEN {} ELSE On(link, link[n]))
<1> DEFINE D == Nodes \cup {Null}
           Is(f) == f = [m \in D |-> IF m = Null THEN {} ELSE {m} \cup f[link[m]]]
           Closed(S) == \A y \in S \ {Null} : link[y] \in S
           Reach(m) == {x \in Nodes : \A S \in SUBSET D : m \in S /\ Closed(S) => x \in S}
           g == [m \in D |-> Reach(m)]
<1>1. Null \notin Nodes
  BY NodesAre
<1>2. Reach(Null) = {}
  <2>1. {Null} \in SUBSET D /\ Closed({Null})
    OBVIOUS
  <2> QED
    BY <1>1, <2>1
<1>3. ASSUME NEW m \in Nodes PROVE Reach(m) = {m} \cup Reach(link[m])
  <2>1. \A S \in SUBSET D : m \in S /\ Closed(S) => link[m] \in S
    BY <1>1
  <2>2. {m} \cup Reach(link[m]) \subseteq Reach(m)
    BY <2>1
  <2>3. ASSUME NEW x \in Reach(m), x # m, x \notin Reach(link[m]) PROVE FALSE
    <3>1. PICK S \in SUBSET D : link[m] \in S /\ Closed(S) /\ x \notin S
      BY <2>3
    <3>2. S \cup {m} \in SUBSET D /\ Closed(S \cup {m})
      BY <3>1
    <3> QED
      BY <2>3, <3>1, <3>2
  <2> QED
    BY <2>2, <2>3
<1> HIDE DEF Reach, Closed
<1>4. Is(g)
  <2>1. \A m \in D : g[m] = IF m = Null THEN {} ELSE {m} \cup g[link[m]]
    BY <1>2, <1>3
  <2> QED
    BY <2>1
<1> HIDE DEF g
<1>5. PICK f : /\ Is(f) /\ \A k \in D : On(link, k) = f[k]
  <2> DEFINE h == CHOOSE f : Is(f)
  <2>1. Is(h)
    BY <1>4
  <2>2. \A k : On(link, k) = h[k]
    BY DEF On
  <2> QED
    BY <2>1, <2>2
<1>6. \A k \in D : f[k] = IF k = Null THEN {} ELSE {k} \cup f[link[k]]
  BY <1>5
<1>7. n \in D /\ link[n] \in D /\ n # Null
  BY <1>1
<1>8. On(link, n) = {n} \cup f[link[n]] /\ On(link, link[n]) = f[link[n]] /\ f[Null] = {}
  BY <1>5, <1>6, <1>7
<1> QED
  BY <1>8

\* A walk along a chain meets what is of no higher rank.
LEMMA WalkOfChain ==
  ASSUME NEW link \in [Nodes -> Nodes \cup {Null}], NEW L \in SUBSET Nodes, NEW r,
         Chain(L, link, r), NEW x \in L
  PROVE  On(link, x) = {y \in L : r[y] <= r[x]}
<1> DEFINE Meets(k) == On(link, k) = {y \in L : r[y] <= r[k]}
           Unmet == {k \in L : ~Meets(k)}
           B == {r[k] : k \in Unmet}
<1>1. SUFFICES ASSUME Unmet # {} PROVE FALSE
  OBVIOUS
<1>2. \A k \in L : r[k] \in Nat /\ k \in Nodes
  BY DEF Chain
<1>3. B \in SUBSET Nat /\ B # {}
  BY <1>1, <1>2
<1>4. PICK b \in B : \A c \in B : b <= c
  BY <1>3, LeastNat
<1>5. PICK k \in Unmet : r[k] = b
  BY <1>4
<1>6. \A y \in L : r[y] < r[k] => Meets(y)
  BY <1>2, <1>4, <1>5
<1>7. k \in L /\ k \in Nodes
  BY <1>2
<1>8. On(link, k) = {k} \cup (IF link[k] = Null THEN {} ELSE On(link, link[k]))
  BY <1>7, WalkGoesOn
<1>9. \A y \in L : r[y] = r[k] => y = k
  BY <1>7 DEF Chain
<1>10. CASE link[k] = Null /\ \A y \in L : r[k] <= r[y]
  <2>1. {y \in L : r[y] <= r[k]} = {k}
    BY <1>2, <1>7, <1>9, <1>10
  <2> QED
    BY <1>5, <1>8, <1>10, <2>1
<1>11. CASE /\ link[k] \in L /\ r[link[k]] < r[k]
            /\ \A y \in L : r[y] < r[k] => r[y] <= r[link[k]]
  <2>1. Meets(link[k]) /\ link[k] # Null
    BY <1>2, <1>6, <1>11, NodesAre
  <2>2. {y \in L : r[y] <= r[k]} = {k} \cup {y \in L : r[y] <= r[link[k]]}
    BY <1>2, <1>7, <1>9, <1>11
  <2> QED
    BY <1>5, <1>8, <2>1, <2>2
<1> QED
  BY <1>7, <1>10, <1>11 DEF Chain

-----------------------------------------------------------------------------
(* Chains that grow and shrink.                                            *)

(* Room is made at rank t.                                                 *)
Shifted(L, r, q, t) ==
  [x \in Nodes |-> IF x = q THEN t ELSE IF x \in L /\ r[x] >= t THEN r[x] + 1 ELSE r[x]]

\* The links that put q into a chain: q leads on to what is below t, and the
\* last node from t on leads to q.
LeadsBelow(L, link2, r, q, t) ==
  \/ link2[q] = Null /\ \A y \in L : t <= r[y]
  \/ /\ link2[q] \in L /\ r[link2[q]] < t
     /\ \A y \in L : r[y] < t => r[y] <= r[link2[q]]
LedTo(L, link, link2, r, q, t) ==
  \A x \in L :
    IF t <= r[x] /\ \A y \in L : t <= r[y] => r[x] <= r[y]
    THEN link2[x] = q ELSE link2[x] = link[x]

\* A node is put into a chain.
LEMMA ChainGrows ==
  ASSUME NEW link \in [Nodes -> Nodes \cup {Null}], NEW L \in SUBSET Nodes, NEW r,
         Chain(L, link, r), NEW q \in Nodes \ L, NEW t \in Nat,
         NEW link2, NEW r2, r2 = Shifted(L, r, q, t),
         LeadsBelow(L, link2, r, q, t), LedTo(L, link, link2, r, q, t)
  PROVE  Chain(L \cup {q}, link2, r2)
<1> DEFINE M == L \cup {q}
<1> USE DEF LeadsBelow, LedTo
<1>1. /\ r \in [Nodes -> Nat] /\ Null \notin Nodes
      /\ \A x \in L : x \in Nodes /\ r[x] \in Nat
  BY NodesAre DEF Chain
<1>2. /\ r2 \in [Nodes -> Nat]
      /\ \A x, y \in L : r2[y] <= r2[x] <=> r[y] <= r[x]
      /\ \A x \in L : /\ r2[q] <= r2[x] <=> t <= r[x]
                      /\ r2[x] <= r2[q] <=> r[x] < t
                      /\ r2[x] # r2[q]
  BY <1>1 DEF Shifted
<1>3. \A x \in M : r2[x] \in Nat
  BY <1>2
<1>4. ASSUME NEW x \in M, NEW y \in M, r2[x] = r2[y] PROVE x = y
  <2>1. CASE x \in L /\ y \in L
    <3>1. r[x] <= r[y] /\ r[y] <= r[x]
      BY <1>2, <1>3, <1>4, <2>1
    <3> QED
      BY <1>1, <2>1, <3>1 DEF Chain
  <2> QED
    BY <1>2, <1>4, <2>1
<1>5. \A x, y \in L : r2[y] < r2[x] <=> r[y] < r[x]
  BY <1>1, <1>2, <1>3
<1> DEFINE Ok(x) ==
      \/ link2[x] = Null /\ \A y \in M : r2[x] <= r2[y]
      \/ /\ link2[x] \in M /\ r2[link2[x]] < r2[x]
         /\ \A y \in M : r2[y] < r2[x] => r2[y] <= r2[link2[x]]
<1>6. Ok(q)
  <2>1. CASE link2[q] = Null /\ \A y \in L : t <= r[y]
    BY <1>2, <1>3, <2>1
  <2>2. CASE /\ link2[q] \in L /\ r[link2[q]] < t
             /\ \A y \in L : r[y] < t => r[y] <= r[link2[q]]
    BY <1>1, <1>2, <1>3, <2>2
  <2> QED
    BY <2>1, <2>2
<1>7. ASSUME NEW x \in L PROVE Ok(x)
  <2>1. CASE t <= r[x] /\ \A y \in L : t <= r[y] => r[x] <= r[y]
    <3>1. link2[x] = q /\ r2[q] < r2[x]
      BY <1>2, <1>3, <2>1
    <3>2. ASSUME NEW y \in M, r2[y] < r2[x] PROVE r2[y] <= r2[q]
      BY <1>1, <1>2, <1>3, <1>5, <2>1, <3>2
    <3> QED
      BY <3>1, <3>2
  <2>2. CASE ~(t <= r[x] /\ \A y \in L : t <= r[y] => r[x] <= r[y])
    <3>1. link2[x] = link[x]
      BY <2>2
    <3>2. CASE link[x] = Null /\ \A y \in L : r[x] <= r[y]
      <4>1. r[x] < t
        BY <1>1, <2>2, <3>2
      <4> QED
        BY <1>1, <1>2, <1>3, <3>1, <3>2, <4>1
    <3>3. CASE /\ link[x] \in L /\ r[link[x]] < r[x]
               /\ \A y \in L : r[y] < r[x] => r[y] <= r[link[x]]
      <4>1. r2[link[x]] < r2[x]
        BY <1>5, <3>3
      <4>2. ASSUME NEW y \in L, r2[y] < r2[x] PROVE r2[y] <= r2[link[x]]
        BY <1>2, <1>5, <3>3, <4>2
      <4>3. ASSUME r2[q] < r2[x] PROVE r2[q] <= r2[link[x]]
        <5>1. t <= r[x]
          BY <1>2, <1>3, <4>3
        <5>2. PICK y \in L : t <= r[y] /\ ~(r[x] <= r[y])
          BY <2>2, <5>1
        <5>3. t <= r[link[x]]
          BY <1>1, <3>3, <5>2
        <5> QED
          BY <1>2, <3>3, <5>3
      <4> QED
        BY <3>1, <3>3, <4>1, <4>2, <4>3
    <3> QED
      BY <3>2, <3>3 DEF Chain
  <2> QED
    BY <2>1, <2>2
<1> QED
  BY <1>2, <1>4, <1>6, <1>7 DEF Chain

\* A node is taken out of a chain.
LEMMA ChainShrinks ==
  ASSUME NEW link \in [Nodes -> Nodes \cup {Null}], NEW L \in SUBSET Nodes, NEW r,
         Chain(L, link, r), NEW q \in L, NEW link2,
         \A x \in L \ {q} : link2[x] = IF link[x] = q THEN link[q] ELSE link[x]
  PROVE  Chain(L \ {q}, link2, r)
<1>1. /\ r \in [Nodes -> Nat] /\ Null \notin Nodes
      /\ \A x \in L : x \in Nodes /\ r[x] \in Nat
      /\ \A x, y \in L : r[x] = r[y] => x = y
  BY NodesAre DEF Chain
<1> DEFINE M == L \ {q}
<1>2. ASSUME NEW x \in M
      PROVE  \/ link2[x] = Null /\ \A y \in M : r[x] <= r[y]
             \/ /\ link2[x] \in M /\ r[link2[x]] < r[x]
                /\ \A y \in M : r[y] < r[x] => r[y] <= r[link2[x]]
  <2>1. CASE link[x] # q
    <3>1. link2[x] = link[x]
      BY <2>1
    <3> QED
      BY <2>1, <3>1 DEF Chain
  <2>2. CASE link[x] = q
    <3>1. link2[x] = link[q] /\ q # Null
      BY <1>1, <2>2
    <3>2. r[q] < r[x] /\ \A y \in L : r[y] < r[x] => r[y] <= r[q]
      BY <2>2, <3>1 DEF Chain
    <3>3. \A y \in M : r[y] < r[x] => r[y] < r[q]
      BY <1>1, <3>2
    <3>4. CASE link[q] = Null /\ \A y \in L : r[q] <= r[y]
      BY <1>1, <3>1, <3>3, <3>4
    <3>5. CASE /\ link[q] \in L /\ r[link[q]] < r[q]
               /\ \A y \in L : r[y] < r[q] => r[y] <= r[link[q]]
      BY <1>1, <3>1, <3>2, <3>3, <3>5
    <3> QED
      BY <3>4, <3>5 DEF Chain
  <2> QED
    BY <2>1, <2>2
<1> QED
  BY <1>1, <1>2 DEF Chain

-----------------------------------------------------------------------------
(* The lists of the frames.                                                *)

\* Types of what the proofs compute with.
LEMMA NodeFacts ==
  ASSUME ScheduleTypeOK
  PROVE  /\ Listed \in SUBSET Nodes /\ PeriodOne \in Listed /\ ReclaimHead \notin Listed
         /\ Null \notin Nodes /\ Qhs \subseteq Nodes /\ ReclaimHead \notin Qhs
         /\ PeriodOne \notin Qhs /\ Null \notin Qhs
         /\ nextQh \in [Nodes -> Nodes \cup {Null}] /\ horizon \in [Nodes -> Nodes \cup {Null}]
         /\ \A x \in Nodes : interval[x] \in Nat \ {0} /\ interval[x] \in Intervals \cup {1}
         /\ \A i \in Frames : i \in Nat /\ i < NFrames /\ frame[i] \in Nodes /\ i % 1 = 0
         /\ NFrames \in Nat \ {0} /\ 0 \in Frames
         /\ \A x \in Nodes : 0 % interval[x] = 0
<1>1. /\ Null \notin Nodes /\ Qhs \subseteq Nodes /\ ReclaimHead \notin Qhs
      /\ PeriodOne \notin Qhs /\ PeriodOne \in Nodes /\ ReclaimHead # PeriodOne
  BY NodesAre
<1>2. Listed \in SUBSET Nodes /\ PeriodOne \in Listed /\ ReclaimHead \notin Listed
  BY <1>1 DEF Listed
<1>3. NFrames \in Nat \ {0}
  BY ScheduleAssumption
<1>4. \A x \in Nodes : interval[x] \in Nat \ {0} /\ interval[x] \in Intervals \cup {1}
  <2>1. \A x \in Nodes : interval[x] \in Intervals \cup {1}
    BY DEF ScheduleTypeOK
  <2> QED
    BY <2>1, IntervalsDivide
<1>5. \A i \in Frames : i \in Nat /\ i < NFrames /\ frame[i] \in Nodes /\ i % 1 = 0
  BY <1>3 DEF Frames, ScheduleTypeOK
<1>6. \A x \in Nodes : 0 % interval[x] = 0
  <2>1. \A n \in Nat \ {0} : 0 % n = 0
    OBVIOUS
  <2> QED
    BY <1>4, <2>1
<1> QED
  BY <1>1, <1>2, <1>3, <1>4, <1>5, <1>6 DEF ScheduleTypeOK, Frames

\* What is due in a frame, and is not polled less often, is due in it too.
LEMMA DueToo ==
  ASSUME ScheduleTypeOK, NEW i \in Nat, NEW x \in Nodes, NEW y \in Nodes,
         interval[y] <= interval[x], i % interval[x] = 0
  PROVE  i % interval[y] = 0
<1>1. /\ interval[x] \in Intervals \cup {1} /\ interval[y] \in Intervals \cup {1}
      /\ interval[x] \in Nat \ {0} /\ interval[y] \in Nat \ {0}
  BY NodeFacts
<1>2. interval[x] % interval[y] = 0
  BY <1>1, IntervalsDivide
<1> QED
  BY <1>1, <1>2, Divides

\* The list from the first that is due on is all that is due.
LEMMA ListOfFrame ==
  ASSUME ScheduleTypeOK, NEW L \in SUBSET Nodes, NEW r, NEW link \in [Nodes -> Nodes \cup {Null}],
         Chain(L, link, r), Sorted(L, r), NEW i \in Nat, NEW x, Top(L, r, i, x)
  PROVE  On(link, x) = {y \in L : i % interval[y] = 0}
<1>1. x \in L /\ On(link, x) = {y \in L : r[y] <= r[x]}
  <2>1. x \in L
    BY DEF Top
  <2>2. \A z \in L : On(link, z) = {y \in L : r[y] <= r[z]}
    BY WalkOfChain
  <2> QED
    BY <2>1, <2>2
<1>2. \A y \in L : r[y] <= r[x] => i % interval[y] = 0
  BY <1>1, DueToo DEF Sorted, Top
<1> QED
  BY <1>1, <1>2 DEF Top

\* Where the loop over a list stops: NotLonger.
LEMMA NotLongerIs ==
  ASSUME ScheduleTypeOK, NEW L \in SUBSET Nodes, NEW r, Chain(L, nextQh, r),
         NEW i, frame[i] \in L, NEW q, NEW m \in L,
         r[m] <= r[frame[i]], interval[m] <= interval[q],
         \A y \in L : r[y] <= r[frame[i]] /\ interval[y] <= interval[q] => r[y] <= r[m]
  PROVE  NotLonger(i, q) = m
<1> DEFINE later == {n \in On(nextQh, frame[i]) : interval[n] <= interval[q]}
           Begin(n) == later \subseteq On(nextQh, n)
<1>1. \A x \in L : On(nextQh, x) = {y \in L : r[y] <= r[x]}
  <2>1. nextQh \in [Nodes -> Nodes \cup {Null}]
    BY NodeFacts
  <2> QED
    BY <2>1, WalkOfChain
<1>2. later = {y \in L : r[y] <= r[frame[i]] /\ interval[y] <= interval[q]}
  BY <1>1
<1>3. m \in later /\ Begin(m)
  BY <1>1, <1>2
<1>4. ASSUME NEW n \in later, Begin(n) PROVE n = m
  <2>1. n \in L /\ r[n] <= r[m] /\ r[m] <= r[n]
    BY <1>1, <1>2, <1>3, <1>4
  <2>2. r[n] \in Nat /\ r[m] \in Nat
    BY <2>1 DEF Chain
  <2> QED
    BY <2>1, <2>2 DEF Chain
<1>5. NotLonger(i, q) = CHOOSE n \in later : Begin(n)
  BY DEF NotLonger
<1> HIDE DEF later, Begin
<1> QED
  BY <1>3, <1>4, <1>5

\* Behind each node of a chain but the first there is one.
LEMMA Predecessor ==
  ASSUME NEW link \in [Nodes -> Nodes \cup {Null}], NEW L \in SUBSET Nodes, NEW r,
         Chain(L, link, r), NEW n \in L, NEW f \in L, r[n] < r[f]
  PROVE  \E p \in L :
           /\ link[p] = n /\ r[n] < r[p] /\ r[p] <= r[f]
           /\ \A y \in L : r[n] < r[y] => r[p] <= r[y]
           /\ \A y \in L : link[y] = n => y = p
<1>1. \A x \in L : r[x] \in Nat /\ x \in Nodes
  BY DEF Chain
<1> DEFINE B == {r[y] : y \in {z \in L : r[n] < r[z]}}
<1>2. PICK p \in L : r[n] < r[p] /\ \A y \in L : r[n] < r[y] => r[p] <= r[y]
  <2>1. B \subseteq Nat /\ B # {}
    BY <1>1
  <2>2. PICK b \in B : \A c \in B : b <= c
    <3> HIDE DEF B
    <3> QED
      BY <2>1, LeastNat
  <2> QED
    BY <2>2
<1>3. r[p] <= r[f]
  BY <1>2
<1>4. Null \notin Nodes
  BY NodesAre
<1>5. link[p] = n
  <2>1. ~(r[p] <= r[n])
    BY <1>1, <1>2
  <2>2. /\ link[p] \in L /\ r[link[p]] < r[p]
        /\ \A y \in L : r[y] < r[p] => r[y] <= r[link[p]]
    BY <2>1 DEF Chain
  <2>3. r[n] <= r[link[p]] /\ ~(r[n] < r[link[p]])
    BY <1>1, <1>2, <2>2
  <2>4. r[n] = r[link[p]]
    BY <1>1, <2>2, <2>3
  <2> QED
    BY <2>2, <2>4 DEF Chain
<1>6. ASSUME NEW y \in L, link[y] = n PROVE y = p
  <2>1. /\ r[n] < r[y]
        /\ \A z \in L : r[z] < r[y] => r[z] <= r[n]
    BY <1>1, <1>4, <1>6 DEF Chain
  <2>2. r[p] <= r[y] /\ ~(r[p] < r[y])
    BY <1>1, <1>2, <2>1
  <2>3. r[p] = r[y]
    BY <1>1, <2>2
  <2> QED
    BY <2>3 DEF Chain
<1> QED
  BY <1>2, <1>3, <1>5, <1>6

\* What is behind a node in the list of a frame: Before.
LEMMA BeforeIs ==
  ASSUME ScheduleTypeOK, NEW L \in SUBSET Nodes, NEW r, Chain(L, nextQh, r),
         NEW i, frame[i] \in L, NEW n \in L, r[n] <= r[frame[i]]
  PROVE  \/ frame[i] = n /\ Before(i, n) = Null
         \/ /\ frame[i] # n /\ r[n] < r[frame[i]]
            /\ Before(i, n) \in L /\ Before(i, n) # Null
            /\ nextQh[Before(i, n)] = n /\ r[n] < r[Before(i, n)]
            /\ \A y \in L : r[n] < r[y] => r[Before(i, n)] <= r[y]
            /\ \A y \in L : nextQh[y] = n => y = Before(i, n)
<1>1. CASE frame[i] = n
  BY <1>1 DEF Before
<1>2. CASE frame[i] # n
  <2>1. r[n] < r[frame[i]]
    <3>1. r[n] \in Nat /\ r[frame[i]] \in Nat /\ r[n] # r[frame[i]]
      BY <1>2 DEF Chain
    <3> QED
      BY <3>1
  <2>2. nextQh \in [Nodes -> Nodes \cup {Null}] /\ Null \notin Nodes
    BY NodeFacts
  <2>3. PICK p \in L :
           /\ nextQh[p] = n /\ r[n] < r[p] /\ r[p] <= r[frame[i]]
           /\ \A y \in L : r[n] < r[y] => r[p] <= r[y]
           /\ \A y \in L : nextQh[y] = n => y = p
    BY <2>1, <2>2, Predecessor
  <2>4. On(nextQh, frame[i]) = {y \in L : r[y] <= r[frame[i]]}
    BY <2>2, WalkOfChain
  <2>5. {m \in On(nextQh, frame[i]) : nextQh[m] = n} = {p}
    BY <2>3, <2>4
  <2>6. Before(i, n) = p
    BY <1>2, <2>5 DEF Before
  <2> QED
    BY <1>2, <2>1, <2>2, <2>3, <2>6
<1> QED
  BY <1>1, <1>2

\* In the list of frame 0 there is a place for a QH of any interval.
LEMMA PlaceExists ==
  ASSUME ScheduleTypeOK, OneOperation, NEW r, Chain(Listed, nextQh, r),
         Top(Listed, r, 0, frame[0]), NEW q \in Qhs
  PROVE  \E m \in Listed :
           /\ FirstNoLonger(Listed, r, q, m) /\ NotLonger(0, q) = m
           /\ r[m] <= r[frame[0]]
<1> DEFINE L == Listed
           f == frame[0]
           Later == {y \in L : interval[y] <= interval[q]}
           B == {r[f] - r[y] : y \in Later}
<1>1. /\ L \in SUBSET Nodes /\ PeriodOne \in L /\ q \in Nodes
      /\ \A x \in Nodes : interval[x] \in Nat \ {0} /\ 0 % interval[x] = 0
  BY NodeFacts
<1>2. \A x \in L : r[x] \in Nat
  BY <1>1 DEF Chain
<1>3. f \in L /\ \A y \in L : r[y] <= r[f]
  BY <1>1 DEF Top
<1>4. PeriodOne \in Later
  BY <1>1 DEF OneOperation
<1>5. PICK m \in Later : \A y \in Later : r[y] <= r[m]
  <2>1. B \subseteq Nat /\ B # {}
    BY <1>2, <1>3, <1>4
  <2>2. PICK b \in B : \A c \in B : b <= c
    <3> HIDE DEF B
    <3> QED
      BY <2>1, LeastNat
  <2>3. PICK m \in Later : b = r[f] - r[m]
    BY <2>2
  <2>4. ASSUME NEW y \in Later PROVE r[y] <= r[m]
    <3>1. r[f] - r[m] <= r[f] - r[y]
      BY <2>2, <2>3
    <3> QED
      BY <1>2, <1>3, <3>1
  <2> QED
    BY <2>4
<1>6. FirstNoLonger(L, r, q, m) /\ r[m] <= r[f]
  BY <1>3, <1>5 DEF FirstNoLonger
<1>7. NotLonger(0, q) = m
  <2>1. m \in L /\ interval[m] <= interval[q]
        /\ \A y \in L : r[y] <= r[f] /\ interval[y] <= interval[q] => r[y] <= r[m]
    BY <1>5
  <2> HIDE DEF Later
  <2> QED
    BY <1>1, <1>3, <1>6, <2>1, NotLongerIs
<1> QED
  BY <1>5, <1>6, <1>7

\* The loop of EhcLinkQhToPeriod, once the QH is in the chain: a frame shows
\* it already, or begins with its successor.
LEMMA LinkMeets ==
  ASSUME ScheduleTypeOK, OneOperation, NEW r, ScheduleLists(r), op.pc = "link", op.index # 0
  PROVE  /\ op.q \in Listed
         /\ \/ /\ NotLonger(op.index, op.q) = op.q
               /\ Top(Listed, r, op.index, frame[op.index])
            \/ /\ NotLonger(op.index, op.q) = nextQh[op.q]
               /\ nextQh[op.q] \in Listed /\ nextQh[op.q] # op.q
               /\ Top(Listed, r, op.index, op.q) /\ frame[op.index] = nextQh[op.q]
         /\ \E m \in Listed : NotLonger(op.index, op.q) = m
<1> DEFINE L == Listed
           q == op.q
           i == op.index
<1>1. i \in Frames /\ q \in Qhs /\ i % interval[q] = 0
  BY DEF ScheduleTypeOK, OneOperation
<1>2. /\ L \in SUBSET Nodes /\ Null \notin Nodes /\ q \in Nodes
      /\ \A x \in Nodes : interval[x] \in Nat \ {0}
      /\ frame[i] \in Nodes /\ i \in Nat
  BY <1>1, NodeFacts
<1>3. q \in L
  BY <1>1 DEF Listed, Hooked
<1>4. /\ Chain(L, nextQh, r) /\ Sorted(L, r) /\ FrameOk(L, r, i)
      /\ \A x \in L : interval[x] = interval[q] => x = q
  BY <1>1 DEF ScheduleLists, Linking
<1>5. \A x \in L : r[x] \in Nat
  BY <1>2, <1>4 DEF Chain
<1>6. \A y \in L : interval[y] <= interval[q] => r[y] <= r[q]
  <2>1. SUFFICES ASSUME NEW y \in L, interval[y] <= interval[q], ~(r[y] <= r[q]) PROVE FALSE
    OBVIOUS
  <2>2. interval[q] <= interval[y]
    BY <1>3, <1>4, <1>5, <2>1 DEF Sorted
  <2>3. y = q
    BY <1>2, <1>3, <1>4, <2>1, <2>2
  <2> QED
    BY <1>3, <1>5, <2>1, <2>3
<1>7. CASE Top(L, r, i, frame[i])
  <2>1. frame[i] \in L /\ r[q] <= r[frame[i]] /\ interval[q] <= interval[q]
    BY <1>1, <1>2, <1>3, <1>7 DEF Top
  <2>2. NotLonger(i, q) = q
    BY <1>2, <1>3, <1>4, <1>6, <2>1, NotLongerIs
  <2> QED
    BY <1>3, <1>7, <2>2
<1>8. CASE Top(L, r, i, q) /\ frame[i] = nextQh[q]
  <2> DEFINE m == nextQh[q]
  <2>1. m \in L /\ r[m] < r[q] /\ m # Null
    BY <1>2, <1>3, <1>4, <1>8 DEF Chain
  <2>2. interval[m] <= interval[q] /\ r[m] <= r[frame[i]] /\ frame[i] \in L
    BY <1>2, <1>3, <1>4, <1>5, <1>8, <2>1 DEF Sorted
  <2>3. NotLonger(i, q) = m
    <3>1. \A y \in L : r[y] <= r[frame[i]] /\ interval[y] <= interval[q] => r[y] <= r[m]
      BY <1>8
    <3> HIDE DEF m, i, q, L
    <3> QED
      BY <1>2, <1>4, <2>1, <2>2, <3>1, NotLongerIs
  <2>4. m # q
    BY <1>3, <1>5, <2>1
  <2> QED
    BY <1>3, <1>8, <2>1, <2>3, <2>4
<1> QED
  BY <1>4, <1>7, <1>8 DEF FrameOk

-----------------------------------------------------------------------------
(* Steps that leave the lists alone.                                       *)

\* Outside of the loops over the frames each frame begins with what is due.
LEMMA QuietFrames ==
  ASSUME NEW r, ScheduleLists(r), op.index = 0 \/ op.pc \notin {"link", "hook", "unlink"}
  PROVE  \A i \in Frames : Top(Listed, r, i, frame[i])
BY DEF ScheduleLists, FrameOk

\* The lists are as they were, and no loop over the frames is under way.
LEMMA SameScheduleLists ==
  ASSUME ScheduleTypeOK, NEW r, ScheduleLists(r), Listed' = Listed, frame' = frame,
         \A x \in Listed : interval'[x] = interval[x] /\ nextQh'[x] = nextQh[x],
         op.index = 0 \/ op.pc \notin {"link", "hook", "unlink"},
         \/ op'.pc \notin {"link", "hook", "unlink"}
         \/ op'.pc = "unlink" /\ op'.index = 0
         \/ op'.pc = "link" /\ op'.index = 0 /\ nextQh'[op'.q] = Null
  PROVE  ScheduleLists(r)'
<1>1. \A i \in Frames : Top(Listed, r, i, frame[i])
  BY QuietFrames
<1>2. PeriodOne \in Listed
  BY NodeFacts
<1>3. Chain(Listed, nextQh, r)' /\ Sorted(Listed, r)'
  BY <1>2 DEF ScheduleLists, Chain, Sorted
<1>4. \A i \in Frames : FrameOk(Listed, r, i)'
  BY <1>1 DEF FrameOk, Top
<1>5. Linking(Listed, r)'
  BY DEF Linking
<1> QED
  BY <1>3, <1>4, <1>5 DEF ScheduleLists

\* What the controller is about to meet is as it was.
LEMMA SameWalk ==
  ASSUME NEW r, Walking(r), Listed' = Listed, walker' = walker, op.pc # "unlink",
         \A x \in Listed : interval'[x] = interval[x] /\ horizon'[x] = horizon[x],
         \A d \in walker.due : use[d] = "period" => use'[d] = "period"
  PROVE  Walking(r)'
BY DEF Walking

\* The driver does nothing.
LEMMA SameDriver ==
  ASSUME NEW r, ScheduleLists(r), UNCHANGED driver
  PROVE  ScheduleLists(r)'
BY DEF ScheduleLists, Chain, Sorted, FrameOk, Top, Linking, FirstNoLonger, Ahead, Listed, Hooked, driver, lists

\* A QH is created for a transfer.
LEMMA CreateKeeps ==
  ASSUME SInv, NEW q \in Qhs, NEW n \in Intervals \cup {1}, NEW pc \in {"link", "append"},
         NEW sync \in BOOLEAN, Create(q, n, [pc |-> pc, q |-> q, sync |-> sync, index |-> 0])
  PROVE  SInv'
<1>1. ScheduleTypeOK /\ OneOperation /\ Mirrored /\ Async
  BY DEF SInv
<1>2. PICK r : ScheduleLists(r) /\ Walking(r)
  BY DEF SInv
<1>3. /\ op.pc = "idle" /\ use[q] = "free" /\ op.q = Null
      /\ use' = [use EXCEPT ![q] = "held"]
      /\ interval' = [interval EXCEPT ![q] = n]
      /\ nextQh' = [nextQh EXCEPT ![q] = Null] /\ horizon' = [horizon EXCEPT ![q] = Null]
      /\ op' = [pc |-> pc, q |-> q, sync |-> sync, index |-> 0] /\ iaa' = FALSE
      /\ UNCHANGED <<frame, frameHw, iaad, timeouts, walker, async>>
  BY <1>1 DEF Create, OneOperation
<1>4. op'.pc = pc /\ op'.q = q /\ op'.index = 0
  BY <1>3
<1>5. /\ Listed \in SUBSET Nodes /\ q \in Nodes /\ Null \notin Qhs /\ ReclaimHead \notin Qhs
      /\ PeriodOne \notin Qhs /\ 0 \in Frames
      /\ n \in Nat \ {0} /\ 0 % n = 0
  <2>1. n \in Nat \ {0}
    BY IntervalsDivide
  <2>2. 0 % n = 0
    BY <2>1
  <2> QED
    BY <1>1, <2>1, <2>2, NodeFacts
<1>6. q \notin Listed /\ Listed' = Listed
  BY <1>3, <1>4, <1>5 DEF Listed, Hooked
<1>7. ScheduleTypeOK'
  <2>1. op' \in [pc : OpSteps, q : Qhs \cup {Null}, sync : BOOLEAN, index : Frames]
    BY <1>3, <1>5 DEF OpSteps
  <2> QED
    BY <1>1, <1>3, <2>1 DEF ScheduleTypeOK, Nodes
<1>8. OneOperation'
  <2>1. use \in [Qhs -> {"free", "held", "period", "lost"}] /\ interval \in [Nodes -> Intervals \cup {1}]
    BY <1>1 DEF ScheduleTypeOK
  <2>2. interval'[q] = n /\ interval'[PeriodOne] = interval[PeriodOne] /\ use'[q] = "held"
    BY <1>3, <1>5, <2>1, NodesAre
  <2>3. \A p \in Qhs : use'[p] = "held" => p = q
    BY <1>1, <1>3, <1>5, <2>1 DEF OneOperation
  <2> QED
    BY <1>1, <1>4, <1>5, <2>2, <2>3 DEF OneOperation
<1>9. \A x \in Nodes : x # q => /\ nextQh'[x] = nextQh[x] /\ horizon'[x] = horizon[x]
                                /\ interval'[x] = interval[x]
  BY <1>1, <1>3 DEF ScheduleTypeOK
<1>10. nextQh'[q] = Null /\ horizon'[q] = Null
  BY <1>1, <1>3, <1>5 DEF ScheduleTypeOK
<1>11. Mirrored'
  BY <1>1, <1>3, <1>4, <1>5, <1>6, <1>9, <1>10 DEF Mirrored
<1>12. Async'
  <2>1. ReclaimHead \in Nodes
    BY NodesAre
  <2> QED
    BY <1>1, <1>3, <1>4, <1>5, <1>9, <2>1 DEF Async
<1>13. ScheduleLists(r)'
  BY <1>1, <1>2, <1>3, <1>4, <1>5, <1>6, <1>9, <1>10, SameScheduleLists
<1>14. Walking(r)'
  <2>1. \A d \in walker.due : use[d] = "period" => use'[d] = "period"
    BY <1>1, <1>3 DEF ScheduleTypeOK
  <2> QED
    BY <1>2, <1>3, <1>5, <1>6, <1>9, <2>1, SameWalk
<1> QED
  BY <1>7, <1>8, <1>11, <1>12, <1>13, <1>14 DEF SInv

\* A transfer is over and its URB freed.
LEMMA FreeKeeps ==
  ASSUME SInv, Free
  PROVE  SInv'
<1>1. ScheduleTypeOK /\ OneOperation /\ Mirrored /\ Async
  BY DEF SInv
<1>2. PICK r : ScheduleLists(r) /\ Walking(r)
  BY DEF SInv
<1>3. /\ op.pc = "free" /\ op.q \in Qhs /\ use[op.q] = "held" /\ op' = Idle
      /\ op'.pc = "idle" /\ op'.q = Null /\ op'.index = 0
      /\ use' = [use EXCEPT ![op.q] = "free"]
      /\ UNCHANGED <<interval, frame, frameHw, nextQh, horizon, iaad, iaa, timeouts, walker, async>>
  BY <1>1 DEF Free, OneOperation, Idle, lists, bell
<1>4. /\ Null \notin Qhs /\ 0 \in Frames
      /\ use \in [Qhs -> {"free", "held", "period", "lost"}]
  BY <1>1, NodeFacts DEF ScheduleTypeOK
<1>5. Listed' = Listed
  BY <1>3, <1>4 DEF Listed, Hooked
<1>6. ScheduleTypeOK'
  <2>1. op' \in [pc : OpSteps, q : Qhs \cup {Null}, sync : BOOLEAN, index : Frames]
    BY <1>3, <1>4 DEF OpSteps, Idle
  <2> QED
    BY <1>1, <1>3, <2>1 DEF ScheduleTypeOK
<1>7. OneOperation'
  BY <1>1, <1>3, <1>4 DEF OneOperation
<1>8. Mirrored' /\ Async'
  BY <1>1, <1>3, <1>5 DEF Mirrored, Async
<1>9. ScheduleLists(r)'
  BY <1>1, <1>2, <1>3, <1>5, SameScheduleLists
<1>10. Walking(r)'
  <2>1. \A d \in walker.due : use[d] = "period" => use'[d] = "period"
    BY <1>1, <1>3, <1>4 DEF ScheduleTypeOK
  <2> QED
    BY <1>2, <1>3, <1>5, <2>1, SameWalk
<1> QED
  BY <1>6, <1>7, <1>8, <1>9, <1>10 DEF SInv

\* A synchronous transfer has ended, its QH is still in the chain.
LEMMA SyncEndsKeeps ==
  ASSUME SInv, SyncInterruptEnds
  PROVE  SInv'
<1>1. ScheduleTypeOK /\ OneOperation /\ Mirrored /\ Async
  BY DEF SInv
<1>2. PICK r : ScheduleLists(r) /\ Walking(r)
  BY DEF SInv
<1>3. /\ op.pc = "poll" /\ op' = [op EXCEPT !.pc = "unlink"]
      /\ UNCHANGED <<use, interval, frame, frameHw, nextQh, horizon, iaad, iaa, timeouts, walker, async>>
  BY DEF SyncInterruptEnds, lists, bell
<1>4. op'.pc = "unlink" /\ op'.q = op.q /\ op'.index = op.index /\ op'.sync = op.sync
  BY <1>1, <1>3 DEF ScheduleTypeOK
<1>5. op.index = 0 /\ op.q \in Qhs /\ 0 % interval[op.q] = 0
  BY <1>1, <1>3, NodeFacts DEF OneOperation
<1>6. Listed' = Listed
  BY <1>3, <1>4, <1>5 DEF Listed, Hooked
<1>7. ScheduleTypeOK'
  <2>1. op' \in [pc : OpSteps, q : Qhs \cup {Null}, sync : BOOLEAN, index : Frames]
    BY <1>1, <1>3 DEF OpSteps, ScheduleTypeOK
  <2> QED
    BY <1>1, <1>3, <2>1 DEF ScheduleTypeOK
<1>8. OneOperation' /\ Mirrored' /\ Async'
  BY <1>1, <1>3, <1>4, <1>5, <1>6 DEF OneOperation, Mirrored, Async
<1>9. ScheduleLists(r)'
  BY <1>1, <1>2, <1>3, <1>4, <1>5, <1>6, SameScheduleLists
<1>10. Walking(r)'
  BY <1>2, <1>3, <1>6, SameWalk
<1> QED
  BY <1>7, <1>8, <1>9, <1>10 DEF SInv

\* The QH of a transfer that is deleted is still in the chain.
LEMMA DeleteKeeps ==
  ASSUME SInv, NEW q \in Qhs, DeleteAsync(q)
  PROVE  SInv'
<1>1. ScheduleTypeOK /\ OneOperation /\ Mirrored /\ Async
  BY DEF SInv
<1>2. PICK r : ScheduleLists(r) /\ Walking(r)
  BY DEF SInv
<1>3. /\ op.pc = "idle" /\ op.q = Null /\ use[q] = "period"
      /\ use' = [use EXCEPT ![q] = "held"]
      /\ walker' = [walker EXCEPT !.due = @ \ {q}]
      /\ op' = [pc |-> "unlink", q |-> q, sync |-> FALSE, index |-> 0]
      /\ op'.pc = "unlink" /\ op'.q = q /\ op'.index = 0
      /\ UNCHANGED <<interval, frame, frameHw, nextQh, horizon, iaad, iaa, timeouts, async>>
  BY <1>1 DEF DeleteAsync, OneOperation, lists, bell
<1>4. /\ Null \notin Qhs /\ 0 \in Frames /\ 0 % interval[q] = 0
      /\ use \in [Qhs -> {"free", "held", "period", "lost"}]
  BY <1>1, NodeFacts DEF ScheduleTypeOK
<1>5. Listed' = Listed /\ q \in Listed
  BY <1>3, <1>4 DEF Listed, Hooked
<1>6. /\ walker'.frame = walker.frame /\ walker'.at = walker.at /\ walker'.stale = walker.stale
      /\ walker'.due = walker.due \ {q}
  BY <1>1, <1>3 DEF ScheduleTypeOK
<1>7. ScheduleTypeOK'
  <2>1. op' \in [pc : OpSteps, q : Qhs \cup {Null}, sync : BOOLEAN, index : Frames]
    BY <1>3, <1>4 DEF OpSteps
  <2>2. walker' \in [frame : Frames, at : Nodes \cup {Null}, due : SUBSET Qhs, stale : BOOLEAN]
    BY <1>1, <1>3 DEF ScheduleTypeOK
  <2> QED
    BY <1>1, <1>3, <2>1, <2>2 DEF ScheduleTypeOK
<1>8. OneOperation' /\ Mirrored' /\ Async'
  BY <1>1, <1>3, <1>4, <1>5 DEF OneOperation, Mirrored, Async
<1>9. ScheduleLists(r)'
  BY <1>1, <1>2, <1>3, <1>5, SameScheduleLists
<1>10. Walking(r)'
  <2>1. \A d \in walker'.due : use[d] = "period" => use'[d] = "period"
    BY <1>1, <1>3, <1>4, <1>6 DEF ScheduleTypeOK
  <2> QED
    BY <1>2, <1>3, <1>5, <1>6, <2>1 DEF Walking
<1> QED
  BY <1>7, <1>8, <1>9, <1>10 DEF SInv

\* A step of an asynchronous transfer, in which only links of its QH and of the
\* reclamation head change.
LEMMA AsyncStep ==
  ASSUME SInv, op.pc \notin {"idle", "link", "hook", "poll", "unlink"},
         NEW pc \in {"hookAsync", "run", "ring", "wait", "free"},
         op' = [op EXCEPT !.pc = pc],
         UNCHANGED <<use, interval, frame, frameHw, walker>>,
         nextQh' \in [Nodes -> Nodes \cup {Null}], horizon' \in [Nodes -> Nodes \cup {Null}],
         \A x \in Nodes \ {op.q, ReclaimHead} : nextQh'[x] = nextQh[x] /\ horizon'[x] = horizon[x],
         iaad' \in BOOLEAN, iaa' \in BOOLEAN, timeouts' \in 0 .. MaxTimeouts, async' \in Nodes,
         Async'
  PROVE  SInv'
<1>1. ScheduleTypeOK /\ OneOperation /\ Mirrored
  BY DEF SInv
<1>2. PICK r : ScheduleLists(r) /\ Walking(r)
  BY DEF SInv
<1>3. op'.pc = pc /\ op'.q = op.q /\ op'.index = op.index
  BY <1>1 DEF ScheduleTypeOK
<1>4. /\ Listed \in SUBSET Nodes /\ ReclaimHead \notin Listed /\ op.q \in Qhs
      /\ use[op.q] = "held" /\ PeriodOne \notin Qhs
  BY <1>1, NodeFacts DEF OneOperation
<1>5. Listed' = Listed /\ op.q \notin Listed
  BY <1>3, <1>4 DEF Listed, Hooked
<1>6. \A x \in Listed : nextQh'[x] = nextQh[x] /\ horizon'[x] = horizon[x] /\ interval'[x] = interval[x]
  BY <1>4, <1>5
<1>7. ScheduleTypeOK'
  <2>1. op' \in [pc : OpSteps, q : Qhs \cup {Null}, sync : BOOLEAN, index : Frames]
    BY <1>1 DEF OpSteps, ScheduleTypeOK
  <2> QED
    BY <1>1, <2>1 DEF ScheduleTypeOK
<1>8. OneOperation' /\ Mirrored'
  BY <1>1, <1>3, <1>5, <1>6 DEF OneOperation, Mirrored
<1>9. ScheduleLists(r)'
  BY <1>1, <1>2, <1>3, <1>5, <1>6, SameScheduleLists
<1>10. Walking(r)'
  BY <1>2, <1>5, <1>6, SameWalk
<1> QED
  BY <1>7, <1>8, <1>9, <1>10 DEF SInv

\* The steps of an asynchronous transfer.
LEMMA AsyncKeeps ==
  ASSUME SInv, AppendAsync \/ HookAsync \/ LoopBack \/ SetDoorBell \/ WaitDoorBell
  PROVE  SInv'
<1>1. ScheduleTypeOK /\ OneOperation /\ Async
  BY DEF SInv
<1>2. /\ op.pc \in {"append", "hookAsync", "run", "ring", "wait"}
      /\ UNCHANGED <<use, interval, frame, frameHw, walker>>
  BY DEF AppendAsync, HookAsync, LoopBack, SetDoorBell, WaitDoorBell, lists
<1>3. /\ op.q \in Qhs /\ op.q \in Nodes /\ ReclaimHead \in Nodes /\ ReclaimHead # op.q
      /\ Null \notin Nodes
  BY <1>1, <1>2, NodesAre DEF OneOperation
<1>4. /\ nextQh \in [Nodes -> Nodes \cup {Null}] /\ horizon \in [Nodes -> Nodes \cup {Null}]
      /\ iaad \in BOOLEAN /\ iaa \in BOOLEAN /\ timeouts \in 0 .. MaxTimeouts /\ async \in Nodes
  BY <1>1 DEF ScheduleTypeOK
<1>5. \A pc : [op EXCEPT !.pc = pc].pc = pc /\ [op EXCEPT !.pc = pc].q = op.q
  BY <1>1 DEF ScheduleTypeOK
<1>6. CASE AppendAsync
  <2>1. /\ op.pc = "append" /\ op' = [op EXCEPT !.pc = "hookAsync"]
        /\ nextQh' = [nextQh EXCEPT ![op.q] = nextQh[ReclaimHead], ![ReclaimHead] = op.q]
        /\ horizon' = [horizon EXCEPT ![op.q] = nextQh[ReclaimHead]]
        /\ UNCHANGED <<iaad, iaa, timeouts, async>>
    BY <1>6 DEF AppendAsync, bell
  <2>2. nextQh[ReclaimHead] = ReclaimHead /\ horizon[ReclaimHead] = ReclaimHead
    BY <1>1, <2>1 DEF Async
  <2>3. Async'
    BY <1>1, <1>3, <1>4, <1>5, <2>1, <2>2 DEF Async
  <2> QED
    BY <1>2, <1>3, <1>4, <2>1, <2>3, AsyncStep
<1>7. CASE HookAsync
  <2>1. /\ op.pc = "hookAsync" /\ op' = [op EXCEPT !.pc = "run"]
        /\ horizon' = [horizon EXCEPT ![ReclaimHead] = op.q]
        /\ UNCHANGED <<nextQh, iaad, iaa, timeouts, async>>
    BY <1>7 DEF HookAsync, bell
  <2>2. Async'
    BY <1>1, <1>3, <1>4, <1>5, <2>1 DEF Async
  <2> QED
    BY <1>2, <1>3, <1>4, <2>1, <2>2, AsyncStep
<1>8. CASE LoopBack
  <2>1. /\ op.pc = "run" /\ op' = [op EXCEPT !.pc = "ring"]
        /\ nextQh' = [nextQh EXCEPT ![ReclaimHead] = nextQh[op.q], ![op.q] = Null]
        /\ horizon' = [horizon EXCEPT ![ReclaimHead] = nextQh[op.q]]
        /\ UNCHANGED <<iaad, iaa, timeouts, async>>
    BY <1>8 DEF LoopBack, bell
  <2>2. Async'
    BY <1>1, <1>3, <1>4, <1>5, <2>1 DEF Async
  <2> QED
    BY <1>2, <1>3, <1>4, <2>1, <2>2, AsyncStep
<1>9. CASE SetDoorBell
  <2>1. /\ op.pc = "ring" /\ op' = [op EXCEPT !.pc = "wait"] /\ iaad' = TRUE
        /\ UNCHANGED <<nextQh, horizon, iaa, timeouts, async>>
    BY <1>9 DEF SetDoorBell, lists
  <2>2. Async'
    BY <1>1, <1>3, <1>4, <1>5, <2>1 DEF Async
  <2> QED
    BY <1>2, <1>3, <1>4, <2>1, <2>2, AsyncStep
<1>10. CASE WaitDoorBell
  <2>1. /\ op.pc = "wait" /\ op' = [op EXCEPT !.pc = "free"] /\ iaa' = FALSE
        /\ \/ iaa /\ timeouts' = timeouts
           \/ timeouts < MaxTimeouts /\ timeouts' = timeouts + 1
        /\ UNCHANGED <<nextQh, horizon, iaad, async>>
    BY <1>10 DEF WaitDoorBell, lists
  <2>2. timeouts' \in 0 .. MaxTimeouts /\ (timeouts' = 0 => iaa /\ timeouts = 0)
    BY <1>4, <2>1, ScheduleAssumption
  <2>3. Async'
    BY <1>1, <1>3, <1>4, <1>5, <2>1, <2>2 DEF Async
  <2> QED
    BY <1>2, <1>3, <1>4, <2>1, <2>2, <2>3, AsyncStep
<1> QED
  BY <1>6, <1>7, <1>8, <1>9, <1>10

\* The controller goes on to the next QH of the list.
LEMMA FollowPeriodKeeps ==
  ASSUME SInv, FollowPeriod
  PROVE  SInv'
<1> DEFINE L == Listed
           x == walker.at
           z == horizon[walker.at]
<1>1. ScheduleTypeOK /\ OneOperation /\ Mirrored /\ Async
  BY DEF SInv
<1>2. PICK r : ScheduleLists(r) /\ Walking(r)
  BY DEF SInv
<1>3. /\ x # Null /\ walker' = [walker EXCEPT !.at = z, !.due = @ \ {z}]
      /\ UNCHANGED driver /\ UNCHANGED <<use, interval, frame, frameHw, nextQh, horizon, op>>
      /\ UNCHANGED <<iaad, iaa, timeouts, async>>
  BY DEF FollowPeriod, driver, lists, bell
<1>4. /\ walker \in [frame : Frames, at : Nodes \cup {Null}, due : SUBSET Qhs, stale : BOOLEAN]
      /\ x \in Nodes /\ z \in Nodes \cup {Null}
  BY <1>1, <1>3 DEF ScheduleTypeOK
<1>5. /\ walker'.frame = walker.frame /\ walker'.at = z /\ walker'.stale = walker.stale
      /\ walker'.due = walker.due \ {z}
  BY <1>3, <1>4
<1>6. ScheduleTypeOK'
  <2>1. walker' \in [frame : Frames, at : Nodes \cup {Null}, due : SUBSET Qhs, stale : BOOLEAN]
    BY <1>3, <1>4
  <2> QED
    BY <1>1, <1>3, <2>1 DEF ScheduleTypeOK
<1>7. Listed' = Listed
  BY <1>3 DEF Listed, Hooked
<1>8. OneOperation' /\ Mirrored' /\ Async'
  BY <1>1, <1>3, <1>7 DEF OneOperation, Mirrored, Async
<1>9. ScheduleLists(r)'
  BY <1>2, <1>3, SameDriver
<1>10. Walking(r)'
  <2>1. SUFFICES ASSUME ~walker.stale PROVE Walking(r)'
    BY <1>5 DEF Walking
  <2>2. /\ x \in L \/ (op.pc = "unlink" /\ x = op.q)
        /\ walker.frame % interval[x] = 0
        /\ \A d \in walker.due :
              /\ d \in L /\ use[d] = "period" /\ z # Null /\ r[d] <= r[z]
    BY <1>2, <1>3, <2>1 DEF Walking
  <2>3. /\ Chain(L, nextQh, r) /\ Sorted(L, r) /\ Linking(L, r)
        /\ \A y \in L : horizon[y] = nextQh[y]
    BY <1>1, <1>2 DEF ScheduleLists, Mirrored
  <2>4. /\ L \in SUBSET Nodes /\ Null \notin Nodes
        /\ \A y \in Nodes : interval[y] \in Nat \ {0}
        /\ walker.frame \in Nat
    BY <1>1, <1>4, NodeFacts
  <2>5. \A y \in L : r[y] \in Nat
    BY <2>3, <2>4 DEF Chain
  <2>6. ASSUME z # Null PROVE z \in L /\ interval[z] <= interval[x]
    <3>1. CASE x \in L
      <4>1. z = nextQh[x] /\ z \in L /\ r[z] < r[x]
        BY <2>3, <2>6, <3>1 DEF Chain
      <4>2. r[z] <= r[x]
        BY <2>5, <3>1, <4>1
      <4> QED
        BY <2>3, <3>1, <4>1, <4>2 DEF Sorted
    <3>2. CASE op.pc = "unlink" /\ x = op.q /\ x \notin L
      <4>1. z = nextQh[op.q]
        BY <1>1, <3>2 DEF Mirrored
      <4>2. op.index # 0
        BY <1>1, <3>2 DEF Listed, Hooked, OneOperation
      <4> QED
        BY <2>3, <2>6, <3>2, <4>1, <4>2 DEF Linking
    <3> QED
      BY <2>2, <3>1, <3>2
  <2>7. CASE z = Null
    BY <1>5, <2>2, <2>7 DEF Walking
  <2>8. CASE z # Null
    <3>1. walker.frame % interval[z] = 0
      <4>1. z \in Nodes
        BY <2>4, <2>6, <2>8
      <4> QED
        BY <1>1, <1>4, <2>2, <2>4, <2>6, <2>8, <4>1, DueToo
    <3>2. ASSUME NEW d \in walker.due, d # z PROVE horizon[z] # Null /\ r[d] <= r[horizon[z]]
      <4>1. d \in L /\ z \in L /\ r[d] <= r[z]
        BY <2>2, <2>6, <2>8
      <4>2. r[d] # r[z]
        BY <2>3, <3>2, <4>1 DEF Chain
      <4>3. r[d] < r[z] /\ ~(r[z] <= r[d])
        BY <2>5, <4>1, <4>2
      <4>4. horizon[z] = nextQh[z]
        BY <2>3, <4>1
      <4> QED
        BY <2>3, <2>4, <4>1, <4>3, <4>4 DEF Chain
    <3> QED
      BY <1>3, <1>5, <1>7, <2>2, <2>6, <2>8, <3>1, <3>2 DEF Walking
  <2> QED
    BY <2>7, <2>8
<1> QED
  BY <1>6, <1>8, <1>9, <1>10 DEF SInv

\* The controller begins a frame.
LEMMA StartFrameKeeps ==
  ASSUME SInv, StartFrame
  PROVE  SInv'
<1> DEFINE L == Listed
           q == op.q
<1>1. ScheduleTypeOK /\ OneOperation /\ Mirrored /\ Async
  BY DEF SInv
<1>2. PICK r : ScheduleLists(r) /\ Walking(r)
  BY DEF SInv
<1>3. PICK i \in Frames :
         walker' = [frame |-> i, at |-> frameHw[i], due |-> PeriodQhs(i) \ {frameHw[i]},
                    stale |-> FALSE]
  BY DEF StartFrame
<1>4. /\ UNCHANGED driver /\ UNCHANGED <<use, interval, frame, frameHw, nextQh, horizon, op>>
      /\ UNCHANGED <<iaad, iaa, timeouts, async>>
  BY DEF StartFrame, driver, lists, bell
<1>5. frameHw[i] = frame[i] /\ frame[i] \in Nodes /\ PeriodQhs(i) \subseteq Qhs
  BY <1>1, NodeFacts DEF Mirrored, PeriodQhs
<1>6. /\ walker'.frame = i /\ walker'.at = frame[i] /\ walker'.stale = FALSE
      /\ walker'.due = PeriodQhs(i) \ {frame[i]}
  BY <1>3, <1>5
<1>7. ScheduleTypeOK'
  <2>1. walker' \in [frame : Frames, at : Nodes \cup {Null}, due : SUBSET Qhs, stale : BOOLEAN]
    BY <1>3, <1>5
  <2> QED
    BY <1>1, <1>4, <2>1 DEF ScheduleTypeOK
<1>8. Listed' = Listed
  BY <1>4 DEF Listed, Hooked
<1>9. OneOperation' /\ Mirrored' /\ Async'
  BY <1>1, <1>4, <1>8 DEF OneOperation, Mirrored, Async
<1>10. ScheduleLists(r)'
  BY <1>2, <1>4, SameDriver
<1>11. Walking(r)'
  <2>1. /\ Chain(L, nextQh, r) /\ Sorted(L, r) /\ Linking(L, r) /\ FrameOk(L, r, i)
        /\ \A y \in L : horizon[y] = nextQh[y]
    BY <1>1, <1>2 DEF ScheduleLists, Mirrored
  <2>2. /\ L \in SUBSET Nodes /\ Null \notin Nodes /\ i \in Nat /\ PeriodOne \notin Qhs
        /\ \A y \in Nodes : interval[y] \in Nat \ {0}
    BY <1>1, NodeFacts
  <2>3. \A y \in L : r[y] \in Nat
    BY <2>1, <2>2 DEF Chain
  <2>4. \A d \in PeriodQhs(i) : d \in L /\ use[d] = "period" /\ i % interval[d] = 0 /\ d # q
    BY <1>1, NodesAre DEF PeriodQhs, Listed, OneOperation
  <2> DEFINE x == frame[i]
  <2>5. SUFFICES /\ x \in L \/ (op.pc = "unlink" /\ x = q)
                 /\ i % interval[x] = 0
                 /\ \A d \in PeriodQhs(i) \ {x} : horizon[x] # Null /\ r[d] <= r[horizon[x]]
    BY <1>4, <1>5, <1>6, <1>8, <2>2, <2>4 DEF Walking
  <2>6. ASSUME NEW y \in L, NEW d \in L, r[d] <= r[y], d # y
        PROVE  horizon[y] # Null /\ horizon[y] \in L /\ r[d] <= r[horizon[y]]
    <3>1. r[d] < r[y] /\ ~(r[y] <= r[d])
      <4>1. r[d] # r[y]
        BY <2>1, <2>6 DEF Chain
      <4> QED
        BY <2>3, <2>6, <4>1
    <3> QED
      BY <2>1, <2>2, <3>1 DEF Chain
  <2>7. CASE Top(L, r, i, x)
    <3>1. \A d \in PeriodQhs(i) : r[d] <= r[x]
      BY <2>4, <2>7 DEF Top
    <3> QED
      BY <2>4, <2>6, <2>7, <3>1 DEF Top
  <2>8. CASE Top(L, r, i, q) /\ x = nextQh[q] /\ x # q
    <3>1. q \in L /\ \A d \in PeriodQhs(i) : r[d] <= r[q]
      BY <2>4, <2>8 DEF Top
    <3>2. x \in L /\ r[x] < r[q] /\ \A y \in L : r[y] < r[q] => r[y] <= r[x]
      BY <1>5, <2>1, <2>2, <2>8, <3>1 DEF Chain
    <3>3. interval[x] <= interval[q] /\ i % interval[q] = 0 /\ q \in Nodes /\ x \in Nodes
      BY <2>1, <2>2, <2>3, <2>8, <3>1, <3>2 DEF Sorted, Top
    <3>4. i % interval[x] = 0
      BY <1>1, <2>2, <3>3, DueToo
    <3>5. ASSUME NEW d \in PeriodQhs(i) \ {x} PROVE r[d] <= r[x]
      <4>1. d \in L /\ r[d] <= r[q] /\ r[d] # r[q]
        BY <2>1, <2>4, <3>1 DEF Chain
      <4> QED
        BY <2>3, <3>1, <3>2, <4>1
    <3> QED
      BY <2>4, <2>6, <3>2, <3>4, <3>5
  <2>9. CASE op.pc = "unlink" /\ x = q /\ Top(L, r, i, nextQh[q]) /\ i % interval[q] = 0
    <3>1. horizon[q] = nextQh[q]
      BY <1>1, <2>9 DEF Mirrored
    <3>2. horizon[q] \in L /\ \A d \in PeriodQhs(i) : r[d] <= r[horizon[q]]
      BY <2>4, <2>9, <3>1 DEF Top
    <3> QED
      BY <2>2, <2>9, <3>2
  <2>10. FrameOk(L, r, i) => Top(L, r, i, x) \/ (Top(L, r, i, q) /\ x = nextQh[q])
                             \/ (op.pc = "unlink" /\ i % interval[q] = 0 /\ x = q /\ Top(L, r, i, nextQh[q]))
    BY DEF FrameOk, Ahead
  <2>11. CASE Top(L, r, i, q) /\ x = nextQh[q] /\ x = q
    BY <2>7, <2>11
  <2> QED
    BY <2>1, <2>7, <2>8, <2>9, <2>10, <2>11
<1> QED
  BY <1>7, <1>9, <1>10, <1>11 DEF SInv

\* The steps of the controller, and of nobody.
LEMMA ControllerKeeps ==
  ASSUME SInv, ControllerSteps \/ UNCHANGED scheduleVars
  PROVE  SInv'
<1>1. ScheduleTypeOK /\ OneOperation /\ Mirrored /\ Async
  BY DEF SInv
<1>2. PICK r : ScheduleLists(r) /\ Walking(r)
  BY DEF SInv
<1>3. CASE FollowAsync \/ Acknowledge \/ UNCHANGED scheduleVars
  <2>1. /\ UNCHANGED driver /\ UNCHANGED <<use, interval, frame, frameHw, nextQh, horizon, op>>
        /\ UNCHANGED <<walker, timeouts>>
    BY <1>3 DEF FollowAsync, Acknowledge, scheduleVars, driver, lists, bell
  <2>2. Listed' = Listed
    BY <2>1 DEF Listed, Hooked
  <2>3. iaad' \in BOOLEAN /\ iaa' \in BOOLEAN /\ async' \in Nodes
    BY <1>1, <1>3 DEF FollowAsync, Acknowledge, scheduleVars, bell, ScheduleTypeOK
  <2>4. ScheduleTypeOK'
    BY <1>1, <2>1, <2>3 DEF ScheduleTypeOK
  <2>5. OneOperation' /\ Mirrored'
    BY <1>1, <2>1, <2>2 DEF OneOperation, Mirrored
  <2>6. Async'
    BY <1>1, <1>3, <2>1 DEF Async, FollowAsync, Acknowledge, scheduleVars, bell
  <2>7. ScheduleLists(r)'
    BY <1>2, <2>1, SameDriver
  <2>8. Walking(r)'
    BY <1>2, <2>1, <2>2 DEF Walking
  <2> QED
    BY <2>4, <2>5, <2>6, <2>7, <2>8 DEF SInv
<1> QED
  BY <1>3, StartFrameKeeps, FollowPeriodKeeps DEF ControllerSteps

-----------------------------------------------------------------------------
(* The loops over the frames.                                              *)

\* What the end of the linking, or its next round, does besides the lists.
LinkGoesOn ==
  LET q == op.q
  IN /\ op' \in [pc : OpSteps, q : Qhs \cup {Null}, sync : BOOLEAN, index : Frames]
     /\ use' \in [Qhs -> {"free", "held", "period", "lost"}]
     /\ \A d \in Qhs : use[d] = "period" => use'[d] = "period"
     /\ Listed' = Listed \cup {q}
     /\ OneOperation'
     /\ \/ op'.pc = "link" /\ op'.q = q /\ op'.index = op.index + interval[q] /\ op'.index # 0
        \/ op'.pc = "poll" /\ op'.q = q
        \/ op'.pc = "idle"

\* The linking is done.
LEMMA LinkedGoesOn ==
  ASSUME ScheduleTypeOK, OneOperation, op.pc \in {"link", "hook"}, interval' = interval, Linked(op.q)
  PROVE  LinkGoesOn /\ op'.pc # "link"
<1> DEFINE q == op.q
<1>1. /\ q \in Qhs /\ use[q] = "held" /\ \A d \in Qhs : use[d] = "held" => d = q
      /\ Null \notin Qhs /\ 0 \in Frames /\ PeriodOne \notin Qhs /\ interval[PeriodOne] = 1
      /\ use \in [Qhs -> {"free", "held", "period", "lost"}]
      /\ op \in [pc : OpSteps, q : Qhs \cup {Null}, sync : BOOLEAN, index : Frames]
  BY NodeFacts DEF OneOperation, ScheduleTypeOK
<1>2. CASE op.sync
  <2>1. op' = [op EXCEPT !.pc = "poll", !.index = 0] /\ use' = use
    BY <1>2 DEF Linked
  <2>2. op'.pc = "poll" /\ op'.q = q /\ op'.index = 0
    BY <1>1, <2>1
  <2>3. op' \in [pc : OpSteps, q : Qhs \cup {Null}, sync : BOOLEAN, index : Frames]
    BY <1>1, <2>1 DEF OpSteps
  <2>4. Listed' = Listed \cup {q}
    BY <1>1, <2>1, <2>2 DEF Listed, Hooked
  <2>5. OneOperation'
    BY <1>1, <2>1, <2>2 DEF OneOperation
  <2> QED
    BY <1>1, <2>1, <2>2, <2>3, <2>4, <2>5 DEF LinkGoesOn
<1>3. CASE ~op.sync
  <2>1. op' = Idle /\ use' = [use EXCEPT ![q] = "period"]
    BY <1>3 DEF Linked
  <2>2. op'.pc = "idle" /\ op'.q = Null /\ op'.index = 0
    BY <2>1 DEF Idle
  <2>3. op' \in [pc : OpSteps, q : Qhs \cup {Null}, sync : BOOLEAN, index : Frames]
    BY <1>1, <2>1 DEF OpSteps, Idle
  <2>4. Listed' = Listed \cup {q}
    BY <1>1, <2>1, <2>2 DEF Listed, Hooked
  <2>5. OneOperation'
    BY <1>1, <2>1, <2>2 DEF OneOperation
  <2> QED
    BY <1>1, <2>1, <2>2, <2>3, <2>4, <2>5 DEF LinkGoesOn
<1> QED
  BY <1>2, <1>3

\* The frames that are ahead, after the next step of a loop.
LEMMA NextAhead ==
  ASSUME ScheduleTypeOK, op.q \in Qhs, op.index % interval[op.q] = 0
  PROVE  /\ interval[op.q] \in Nat \ {0} /\ op.index \in Nat
         /\ op.index + interval[op.q] # 0
         /\ (op.index + interval[op.q]) % interval[op.q] = 0
         /\ op.index + interval[op.q] < NFrames => op.index + interval[op.q] \in Frames
         /\ \A i \in Frames : Ahead(i) /\ i # op.index => i >= op.index + interval[op.q]
<1> DEFINE n == interval[op.q]
<1>1. n \in Nat \ {0} /\ NFrames \in Nat
  BY NodeFacts
<1>2. op.index \in Frames
  BY DEF ScheduleTypeOK
<1>3. op.index \in Nat /\ \A i \in Frames : i \in Nat
  BY <1>2, NodeFacts
<1>4. (op.index + n) % n = 0
  BY <1>1, <1>3, NextMultiple
<1>5. ASSUME NEW i \in Frames, Ahead(i), i # op.index PROVE i >= op.index + n
  <2>1. i \in Nat /\ op.index <= i /\ i % n = 0
    BY <1>3, <1>5 DEF Ahead
  <2> QED
    BY <1>1, <1>3, <1>5, <2>1, NextMultiple
<1>6. op.index + n < NFrames => op.index + n \in Frames
  BY <1>1, <1>3 DEF Frames
<1> QED
  BY <1>1, <1>3, <1>4, <1>5, <1>6

\* A frame is done.
LEMMA LinkLoops ==
  ASSUME ScheduleTypeOK, OneOperation, op.pc \in {"link", "hook"}, interval' = interval,
         NextIndex(op.q, "link", Linked(op.q))
  PROVE  /\ LinkGoesOn
         /\ \A i \in Frames : Ahead(i) /\ i # op.index => op'.pc = "link" /\ Ahead(i)'
<1> DEFINE q == op.q
           n == interval[q]
<1>1. /\ q \in Qhs /\ use[q] = "held" /\ \A d \in Qhs : use[d] = "held" => d = q
      /\ Null \notin Qhs /\ 0 \in Frames /\ PeriodOne \notin Qhs /\ interval[PeriodOne] = 1
      /\ op.index % n = 0 /\ NFrames \in Nat
      /\ use \in [Qhs -> {"free", "held", "period", "lost"}]
      /\ op \in [pc : OpSteps, q : Qhs \cup {Null}, sync : BOOLEAN, index : Frames]
  BY NodeFacts DEF OneOperation, ScheduleTypeOK
<1>2. /\ n \in Nat \ {0} /\ op.index \in Nat /\ op.index + n # 0 /\ (op.index + n) % n = 0
      /\ op.index + n < NFrames => op.index + n \in Frames
      /\ \A i \in Frames : Ahead(i) /\ i # op.index => i >= op.index + n
  BY <1>1, NextAhead
<1>3. CASE op.index + n < NFrames
  <2>1. op' = [op EXCEPT !.pc = "link", !.index = op.index + n] /\ use' = use
    BY <1>3 DEF NextIndex
  <2>2. op'.pc = "link" /\ op'.q = q /\ op'.index = op.index + n
    BY <1>1, <2>1
  <2>3. op' \in [pc : OpSteps, q : Qhs \cup {Null}, sync : BOOLEAN, index : Frames]
    BY <1>1, <1>2, <1>3, <2>1 DEF OpSteps
  <2>4. Listed' = Listed \cup {q}
    BY <1>1, <1>2, <2>1, <2>2 DEF Listed, Hooked
  <2>5. OneOperation'
    BY <1>1, <1>2, <2>1, <2>2 DEF OneOperation
  <2> QED
    BY <1>1, <1>2, <2>1, <2>2, <2>3, <2>4, <2>5 DEF LinkGoesOn, Ahead
<1>4. CASE ~(op.index + n < NFrames)
  <2>1. Linked(q)
    BY <1>4 DEF NextIndex
  <2>2. LinkGoesOn
    BY <2>1, LinkedGoesOn
  <2>3. \A i \in Frames : ~(i >= op.index + n)
    BY <1>1, <1>2, <1>4 DEF Frames
  <2> QED
    BY <1>2, <2>2, <2>3
<1> QED
  BY <1>3, <1>4

\* What the end of the unlinking, or its next round, does besides the lists.
UnlinkGoesOn ==
  LET q == op.q
  IN /\ op' \in [pc : OpSteps, q : Qhs \cup {Null}, sync : BOOLEAN, index : Frames]
     /\ use' \in [Qhs -> {"free", "held", "period", "lost"}]
     /\ \A d \in Qhs : use[d] = "period" => use'[d] = "period"
     /\ Listed' = Listed \ {q}
     /\ OneOperation'
     /\ \/ op'.pc = "unlink" /\ op'.q = q /\ op'.index = op.index + interval[q] /\ op'.index # 0
        \/ op'.pc \in {"idle", "free"}

\* A frame is done, or all are.
LEMMA UnlinkLoops ==
  ASSUME ScheduleTypeOK, OneOperation, op.pc = "unlink", interval' = interval,
         NextIndex(op.q, "unlink", Unlinked(op.q))
  PROVE  /\ UnlinkGoesOn
         /\ \A i \in Frames : Ahead(i) /\ i # op.index => op'.pc = "unlink" /\ Ahead(i)'
<1> DEFINE q == op.q
           n == interval[q]
<1>1. /\ q \in Qhs /\ use[q] = "held" /\ \A d \in Qhs : use[d] = "held" => d = q
      /\ Null \notin Qhs /\ 0 \in Frames /\ PeriodOne \notin Qhs /\ interval[PeriodOne] = 1
      /\ op.index % n = 0 /\ NFrames \in Nat
      /\ use \in [Qhs -> {"free", "held", "period", "lost"}]
      /\ op \in [pc : OpSteps, q : Qhs \cup {Null}, sync : BOOLEAN, index : Frames]
  BY NodeFacts DEF OneOperation, ScheduleTypeOK
<1>2. /\ n \in Nat \ {0} /\ op.index \in Nat /\ op.index + n # 0 /\ (op.index + n) % n = 0
      /\ op.index + n < NFrames => op.index + n \in Frames
      /\ \A i \in Frames : Ahead(i) /\ i # op.index => i >= op.index + n
  BY <1>1, NextAhead
<1>3. CASE op.index + n < NFrames
  <2>1. op' = [op EXCEPT !.pc = "unlink", !.index = op.index + n] /\ use' = use
    BY <1>3 DEF NextIndex
  <2>2. op'.pc = "unlink" /\ op'.q = q /\ op'.index = op.index + n
    BY <1>1, <2>1
  <2>3. op' \in [pc : OpSteps, q : Qhs \cup {Null}, sync : BOOLEAN, index : Frames]
    BY <1>1, <1>2, <1>3, <2>1 DEF OpSteps
  <2>4. Listed' = Listed \ {q}
    BY <1>1, <1>2, <2>1, <2>2 DEF Listed, Hooked
  <2>5. OneOperation'
    BY <1>1, <1>2, <2>1, <2>2 DEF OneOperation
  <2> QED
    BY <1>1, <1>2, <2>1, <2>2, <2>3, <2>4, <2>5 DEF UnlinkGoesOn, Ahead
<1>4. CASE ~(op.index + n < NFrames)
  <2>1. Unlinked(q)
    BY <1>4 DEF NextIndex
  <2>2. \A i \in Frames : ~(i >= op.index + n)
    BY <1>1, <1>2, <1>4 DEF Frames
  <2>3. CASE op.sync
    <3>1. op' = Idle /\ use' = [use EXCEPT ![q] = "lost"]
      BY <2>1, <2>3 DEF Unlinked
    <3>2. op'.pc = "idle" /\ op'.q = Null /\ op'.index = 0
      BY <3>1 DEF Idle
    <3>3. op' \in [pc : OpSteps, q : Qhs \cup {Null}, sync : BOOLEAN, index : Frames]
      BY <1>1, <3>1 DEF OpSteps, Idle
    <3>4. Listed' = Listed \ {q}
      BY <1>1, <3>1, <3>2 DEF Listed, Hooked
    <3>5. OneOperation'
      BY <1>1, <3>1, <3>2 DEF OneOperation
    <3> QED
      BY <1>1, <1>2, <2>2, <3>1, <3>2, <3>3, <3>4, <3>5 DEF UnlinkGoesOn
  <2>4. CASE ~op.sync
    <3>1. op' = [op EXCEPT !.pc = "free"] /\ use' = use
      BY <2>1, <2>4 DEF Unlinked
    <3>2. op'.pc = "free" /\ op'.q = q
      BY <1>1, <3>1
    <3>3. op' \in [pc : OpSteps, q : Qhs \cup {Null}, sync : BOOLEAN, index : Frames]
      BY <1>1, <3>1 DEF OpSteps
    <3>4. Listed' = Listed \ {q}
      BY <1>1, <3>1, <3>2 DEF Listed, Hooked
    <3>5. OneOperation'
      BY <1>1, <3>1, <3>2 DEF OneOperation
    <3> QED
      BY <1>1, <1>2, <2>2, <3>1, <3>2, <3>3, <3>4, <3>5 DEF UnlinkGoesOn
  <2> QED
    BY <2>3, <2>4
<1> QED
  BY <1>3, <1>4

\* The links of the new QH are set, or a frame that shows it is passed over.
LEMMA LinkKeeps ==
  ASSUME SInv, LinkPeriod
  PROVE  SInv'
<1> DEFINE L == Listed
           q == op.q
           i == op.index
           n == NotLonger(op.index, op.q)
<1>1. ScheduleTypeOK /\ OneOperation /\ Mirrored /\ Async
  BY DEF SInv
<1>2. PICK r : ScheduleLists(r) /\ Walking(r)
  BY DEF SInv
<1>3. /\ op.pc = "link" /\ UNCHANGED <<interval, frame, frameHw, iaad, iaa, timeouts, walker, async>>
      /\ IF n = q
         THEN NextIndex(q, "link", Linked(q)) /\ UNCHANGED <<nextQh, horizon>>
         ELSE /\ IF nextQh[q] = Null
                 THEN /\ nextQh' = [nextQh EXCEPT ![q] = IF SameInterval(i, q) THEN nextQh[n] ELSE n]
                      /\ horizon' = [horizon EXCEPT ![q] = IF SameInterval(i, q) THEN horizon[n] ELSE n]
                 ELSE UNCHANGED <<nextQh, horizon>>
              /\ op' = [op EXCEPT !.pc = "hook"] /\ use' = use
  BY DEF LinkPeriod, bell
<1>4. /\ q \in Qhs /\ i \in Frames /\ use[q] = "held" /\ i % interval[q] = 0
      /\ op \in [pc : OpSteps, q : Qhs \cup {Null}, sync : BOOLEAN, index : Frames]
  BY <1>1, <1>3 DEF OneOperation, ScheduleTypeOK
<1>5. /\ L \in SUBSET Nodes /\ q \in Nodes /\ Null \notin Nodes /\ ReclaimHead \notin Qhs
      /\ PeriodOne \notin Qhs /\ ReclaimHead \in Nodes
      /\ nextQh \in [Nodes -> Nodes \cup {Null}] /\ horizon \in [Nodes -> Nodes \cup {Null}]
      /\ \A j \in Frames : frame[j] \in Nodes
      /\ \A x \in Nodes : interval[x] \in Nat \ {0}
  BY <1>1, <1>4, NodesAre, NodeFacts
<1>6. Chain(L, nextQh, r) /\ Sorted(L, r) /\ Linking(L, r) /\ \A j \in Frames : FrameOk(L, r, j)
  BY <1>2 DEF ScheduleLists
<1>7. /\ frameHw = frame /\ horizon[q] = nextQh[q]
      /\ \A x \in L : horizon[x] = nextQh[x]
  BY <1>1, <1>3 DEF Mirrored
<1>8. CASE i = 0
  <2>1. q \notin L /\ nextQh[q] = Null
    <3>1. q \notin L
      BY <1>3, <1>4, <1>5, <1>8 DEF Listed, Hooked
    <3> QED
      BY <1>3, <1>6, <1>8, <3>1 DEF Linking
  <2>2. \A j \in Frames : Top(L, r, j, frame[j])
    BY <1>2, <1>8, QuietFrames
  <2>3. PICK m \in L : FirstNoLonger(L, r, q, m) /\ NotLonger(0, q) = m
    <3>1. Top(L, r, 0, frame[0])
      BY <1>4, <1>8, <2>2
    <3> QED
      BY <1>1, <1>4, <1>6, <3>1, PlaceExists
  <2>4. n = m /\ m # q
    BY <1>8, <2>1, <2>3
  <2> DEFINE z == IF interval[m] = interval[q] THEN nextQh[m] ELSE m
  <2>5. /\ nextQh' = [nextQh EXCEPT ![q] = z] /\ horizon' = [horizon EXCEPT ![q] = z]
        /\ op' = [op EXCEPT !.pc = "hook"] /\ use' = use /\ z \in Nodes \cup {Null}
    BY <1>3, <1>5, <1>7, <2>1, <2>3, <2>4 DEF SameInterval
  <2> HIDE DEF z
  <2>6. op'.pc = "hook" /\ op'.q = q /\ op'.index = 0
    BY <1>4, <1>8, <2>5
  <2>7. /\ nextQh'[q] = z /\ horizon'[q] = z
        /\ \A x \in Nodes : x # q => nextQh'[x] = nextQh[x] /\ horizon'[x] = horizon[x]
    BY <1>5, <2>5
  <2>8. Listed' = L
    BY <1>3, <1>8, <2>5, <2>6 DEF Listed, Hooked
  <2>9. ScheduleTypeOK'
    <3>1. op' \in [pc : OpSteps, q : Qhs \cup {Null}, sync : BOOLEAN, index : Frames]
      BY <1>4, <2>5 DEF OpSteps
    <3> QED
      BY <1>1, <1>3, <2>5, <3>1 DEF ScheduleTypeOK
  <2>10. OneOperation'
    BY <1>1, <1>3, <1>4, <1>8, <2>5, <2>6 DEF OneOperation
  <2>11. Mirrored'
    BY <1>1, <1>3, <1>5, <2>1, <2>6, <2>7, <2>8 DEF Mirrored
  <2>12. Async'
    BY <1>1, <1>3, <1>4, <1>5, <2>6, <2>7 DEF Async
  <2>13. ScheduleLists(r)'
    <3>1. Chain(Listed, nextQh, r)' /\ Sorted(Listed, r)'
      BY <1>3, <1>5, <1>6, <2>1, <2>7, <2>8 DEF Chain, Sorted
    <3>2. \A j \in Frames : FrameOk(Listed, r, j)'
      BY <1>3, <2>2, <2>8 DEF FrameOk, Top
    <3>3. Linking(Listed, r)'
      <4>1. nextQh'[q] = IF interval[m] = interval[q] THEN nextQh'[m] ELSE m
        BY <1>5, <2>4, <2>7 DEF z
      <4> QED
        BY <1>3, <2>3, <2>6, <2>8, <4>1 DEF Linking, FirstNoLonger
    <3> QED
      BY <3>1, <3>2, <3>3 DEF ScheduleLists
  <2>14. Walking(r)'
    <3>1. \A x \in L : interval'[x] = interval[x] /\ horizon'[x] = horizon[x]
      BY <1>3, <1>5, <2>1, <2>7
    <3> QED
      BY <1>2, <1>3, <2>5, <2>8, <3>1, SameWalk
  <2> QED
    BY <2>9, <2>10, <2>11, <2>12, <2>13, <2>14 DEF SInv
<1>9. CASE i # 0
  <2>1. /\ q \in L
        /\ \/ n = q /\ Top(L, r, i, frame[i])
           \/ /\ n = nextQh[q] /\ nextQh[q] \in L /\ n # q
              /\ Top(L, r, i, q) /\ frame[i] = nextQh[q]
    BY <1>1, <1>2, <1>3, <1>9, LinkMeets
  <2>2. UNCHANGED <<nextQh, horizon>>
    BY <1>3, <1>5, <2>1
  <2>3. \A x \in L : interval[x] = interval[q] => x = q
    BY <1>3, <1>6, <1>9 DEF Linking
  <2>4. CASE n = q /\ Top(L, r, i, frame[i])
    <3>1. NextIndex(q, "link", Linked(q))
      BY <1>3, <2>4
    <3>2. LinkGoesOn /\ \A j \in Frames : Ahead(j) /\ j # i => op'.pc = "link" /\ Ahead(j)'
      BY <1>1, <1>3, <3>1, LinkLoops
    <3>3. Listed' = L
      BY <2>1, <3>2 DEF LinkGoesOn
    <3>4. ScheduleTypeOK' /\ OneOperation'
      BY <1>1, <1>3, <2>2, <3>2 DEF ScheduleTypeOK, LinkGoesOn
    <3>5. Mirrored' /\ Async'
      BY <1>1, <1>3, <1>7, <2>2, <3>2, <3>3 DEF Mirrored, Async, LinkGoesOn
    <3>6. ScheduleLists(r)'
      <4>1. Chain(Listed, nextQh, r)' /\ Sorted(Listed, r)'
        BY <1>3, <1>6, <2>2, <3>3 DEF Chain, Sorted
      <4>2. ASSUME NEW j \in Frames PROVE FrameOk(Listed, r, j)'
        <5>1. CASE Top(L, r, j, frame[j])
          BY <1>3, <3>3, <5>1 DEF FrameOk, Top
        <5>2. CASE Ahead(j) /\ Top(L, r, j, q) /\ frame[j] = nextQh[q] /\ j # i
          <6>1. op'.pc = "link" /\ Ahead(j)' /\ op'.q = q /\ op'.index # 0
            BY <3>2, <5>2 DEF LinkGoesOn
          <6> QED
            BY <1>3, <2>2, <3>3, <5>2, <6>1 DEF FrameOk, Top
        <5> QED
          BY <1>3, <1>6, <2>4, <5>1, <5>2 DEF FrameOk
      <4>3. Linking(Listed, r)'
        BY <1>3, <2>3, <3>2, <3>3 DEF Linking, LinkGoesOn
      <4> QED
        BY <4>1, <4>2, <4>3 DEF ScheduleLists
    <3>7. Walking(r)'
      <4>1. \A d \in walker.due : use[d] = "period" => use'[d] = "period"
        BY <1>1, <3>2 DEF LinkGoesOn, ScheduleTypeOK
      <4> QED
        BY <1>2, <1>3, <2>2, <3>3, <4>1, SameWalk
    <3> QED
      BY <3>4, <3>5, <3>6, <3>7 DEF SInv
  <2>5. CASE /\ n = nextQh[q] /\ nextQh[q] \in L /\ n # q
             /\ Top(L, r, i, q) /\ frame[i] = nextQh[q]
    <3>1. op' = [op EXCEPT !.pc = "hook"] /\ use' = use
      BY <1>3, <2>5
    <3>2. op'.pc = "hook" /\ op'.q = q /\ op'.index = i
      BY <1>4, <3>1
    <3>3. Listed' = L
      BY <1>3, <1>9, <3>1, <3>2 DEF Listed, Hooked
    <3>4. ScheduleTypeOK'
      <4>1. op' \in [pc : OpSteps, q : Qhs \cup {Null}, sync : BOOLEAN, index : Frames]
        BY <1>4, <3>1 DEF OpSteps
      <4> QED
        BY <1>1, <1>3, <2>2, <3>1, <4>1 DEF ScheduleTypeOK
    <3>5. OneOperation' /\ Mirrored' /\ Async'
      BY <1>1, <1>3, <1>4, <2>2, <3>1, <3>2, <3>3 DEF OneOperation, Mirrored, Async
    <3>6. ScheduleLists(r)'
      <4>1. Chain(Listed, nextQh, r)' /\ Sorted(Listed, r)'
        BY <1>3, <1>6, <2>2, <3>3 DEF Chain, Sorted
      <4>2. \A j \in Frames : FrameOk(Listed, r, j)'
        BY <1>3, <1>6, <2>2, <3>2, <3>3 DEF FrameOk, Top, Ahead
      <4>3. Linking(Listed, r)'
        BY <1>3, <1>9, <2>2, <2>3, <2>5, <3>2, <3>3 DEF Linking, Top
      <4> QED
        BY <4>1, <4>2, <4>3 DEF ScheduleLists
    <3>7. Walking(r)'
      BY <1>2, <1>3, <2>2, <3>1, <3>3, SameWalk
    <3> QED
      BY <3>4, <3>5, <3>6, <3>7 DEF SInv
  <2> QED
    BY <2>1, <2>4, <2>5
<1> QED
  BY <1>8, <1>9

\* The rank t at which q fits into a sorted chain
FitsAt(L, r, q, t) ==
  /\ \A y \in L : r[y] < t => interval[y] <= interval[q]
  /\ \A x \in L : t <= r[x] => interval[q] <= interval[x]
  /\ interval[q] = 1 => t <= r[PeriodOne]

\* The ranks r2 keep the order of r, with q at t.
OrderKept(L, r, q, t, r2) ==
  /\ \A x, y \in L : r2[y] <= r2[x] <=> r[y] <= r[x]
  /\ \A x \in L : /\ r2[q] <= r2[x] <=> t <= r[x]
                  /\ r2[x] <= r2[q] <=> r[x] < t

\* A QH that is put between the shorter and the longer intervals leaves the
\* chain sorted, and the order of the others as it was.
LEMMA Inserted ==
  ASSUME ScheduleTypeOK, NEW L \in SUBSET Nodes, PeriodOne \in L, NEW r,
         Chain(L, nextQh, r), Sorted(L, r), NEW q \in Qhs \ L, NEW t \in Nat,
         FitsAt(L, r, q, t), NEW r2, r2 = Shifted(L, r, q, t)
  PROVE  Sorted(L \cup {q}, r2) /\ OrderKept(L, r, q, t, r2)
<1> USE DEF FitsAt, OrderKept
<1>1. q \in Nodes /\ \A x \in Nodes : interval[x] \in Nat \ {0}
  BY NodeFacts
<1>2. r \in [Nodes -> Nat] /\ \A x \in L : x \in Nodes /\ r[x] \in Nat
  BY DEF Chain
<1>3. /\ r2 \in [Nodes -> Nat]
      /\ \A x, y \in L : r2[y] <= r2[x] <=> r[y] <= r[x]
      /\ \A x \in L : /\ r2[q] <= r2[x] <=> t <= r[x]
                      /\ r2[x] <= r2[q] <=> r[x] < t
  BY <1>1, <1>2 DEF Shifted
<1>4. \A x, y \in L \cup {q} : r2[y] <= r2[x] => interval[y] <= interval[x]
  BY <1>1, <1>3 DEF Sorted
<1>5. \A x \in L \cup {q} : interval[x] = 1 => r2[x] <= r2[PeriodOne]
  BY <1>3 DEF Sorted
<1> QED
  BY <1>3, <1>4, <1>5 DEF Sorted

\* The controller meets a new QH on its way, or not; the others are ahead of it
\* as they were.
LEMMA InsertedWalk ==
  ASSUME ScheduleTypeOK, Mirrored, NEW r, ScheduleLists(r), Walking(r), op.pc # "unlink", walker' = walker,
         interval' = interval, NEW q \in Qhs \ Listed, Listed' = Listed \cup {q},
         \A d \in Qhs : use[d] = "period" => use'[d] = "period",
         NEW t \in Nat, NEW r2,
         \A x, y \in Listed : r2[y] <= r2[x] <=> r[y] <= r[x],
         \A x \in Listed : r2[x] <= r2[q] <=> r[x] < t,
         \A x \in Listed :
           \/ horizon'[x] = horizon[x]
           \/ horizon'[x] = q /\ \A y \in Listed : r[y] < r[x] => r[y] < t
  PROVE  Walking(r2)'
<1> DEFINE L == Listed
           x == walker.at
<1>1. Chain(L, nextQh, r) /\ \A y \in L : horizon[y] = nextQh[y]
  BY DEF ScheduleLists, Mirrored
<1>2. L \in SUBSET Nodes /\ Null \notin Nodes /\ q # Null /\ walker.due \subseteq Qhs
  BY NodeFacts DEF ScheduleTypeOK
<1>3. SUFFICES ASSUME ~walker.stale PROVE Walking(r2)'
  BY DEF Walking
<1>4. CASE x = Null
  BY <1>3, <1>4 DEF Walking
<1>5. CASE x # Null
  <2>1. /\ x \in L /\ walker.frame % interval[x] = 0
        /\ \A d \in walker.due :
              /\ d \in L /\ use[d] = "period"
              /\ horizon[x] # Null /\ r[d] <= r[horizon[x]]
    BY <1>3, <1>5 DEF Walking
  <2>2. ASSUME NEW d \in walker.due PROVE horizon'[x] # Null /\ r2[d] <= r2[horizon'[x]]
    <3>1. /\ horizon[x] \in L /\ r[horizon[x]] < r[x] /\ d \in L
          /\ horizon[x] # Null /\ r[d] <= r[horizon[x]]
      BY <1>1, <2>1 DEF Chain
    <3>2. r[d] < r[x]
      <4>1. r[d] \in Nat /\ r[x] \in Nat /\ r[horizon[x]] \in Nat
        BY <1>1, <1>2, <2>1, <3>1 DEF Chain
      <4> QED
        BY <3>1, <4>1
    <3>3. CASE horizon'[x] = horizon[x]
      BY <3>1, <3>3
    <3>4. CASE horizon'[x] = q /\ r[d] < t
      BY <1>2, <3>1, <3>4
    <3> QED
      BY <2>1, <3>1, <3>2, <3>3, <3>4
  <2> QED
    BY <1>2, <1>5, <2>1, <2>2 DEF Walking
<1> QED
  BY <1>4, <1>5

\* The new QH is hooked into the chain.
LEMMA HookInserts ==
  ASSUME SInv, HookPeriod, op.index = 0
  PROVE  SInv'
<1> DEFINE L == Listed
           q == op.q
           M == L \cup {q}
<1>1. ScheduleTypeOK /\ OneOperation /\ Mirrored /\ Async
  BY DEF SInv
<1>2. PICK r : ScheduleLists(r) /\ Walking(r)
  BY DEF SInv
<1>3. op.pc = "hook" /\ UNCHANGED <<interval, iaad, iaa, timeouts, walker, async>>
  BY DEF HookPeriod, bell
<1>4. /\ q \in Qhs /\ use[q] = "held"
      /\ op \in [pc : OpSteps, q : Qhs \cup {Null}, sync : BOOLEAN, index : Frames]
  BY <1>1, <1>3 DEF OneOperation, ScheduleTypeOK
<1>5. /\ L \in SUBSET Nodes /\ q \in Nodes /\ Null \notin Nodes /\ ReclaimHead \notin Qhs
      /\ PeriodOne \notin Qhs /\ ReclaimHead \in Nodes /\ PeriodOne \in L /\ ReclaimHead \notin L
      /\ nextQh \in [Nodes -> Nodes \cup {Null}] /\ horizon \in [Nodes -> Nodes \cup {Null}]
      /\ frame \in [Frames -> Nodes] /\ 0 \in Frames
      /\ \A x \in Nodes : interval[x] \in Nat \ {0}
      /\ \A j \in Frames : j \in Nat
  BY <1>1, <1>4, NodesAre, NodeFacts DEF ScheduleTypeOK
<1>6. Chain(L, nextQh, r) /\ Sorted(L, r) /\ Linking(L, r)
  BY <1>2 DEF ScheduleLists
<1>7. /\ frameHw = frame /\ horizon[q] = nextQh[q]
      /\ \A x \in L : horizon[x] = nextQh[x]
  BY <1>1, <1>3 DEF Mirrored
<1>8. q \notin L
  BY <1>3, <1>4, <1>5 DEF Listed, Hooked
<1>9. \A x \in L : r[x] \in Nat
  BY <1>5, <1>6 DEF Chain
<1>10. \A j \in Frames : Top(L, r, j, frame[j])
  BY <1>2, QuietFrames
<1>11. PICK m \in L : /\ FirstNoLonger(L, r, q, m) /\ NotLonger(0, q) = m
                      /\ r[m] <= r[frame[0]]
  <2>1. Top(L, r, 0, frame[0])
    BY <1>5, <1>10
  <2> QED
    BY <1>1, <1>4, <1>6, <2>1, PlaceExists
<1>12. nextQh[q] = IF interval[m] = interval[q] THEN nextQh[m] ELSE m
  <2>1. PICK k \in L : /\ FirstNoLonger(L, r, q, k)
                       /\ nextQh[q] = IF interval[k] = interval[q] THEN nextQh[k] ELSE k
    BY <1>3, <1>6 DEF Linking
  <2>2. r[k] <= r[m] /\ r[m] <= r[k]
    BY <1>11, <2>1 DEF FirstNoLonger
  <2>3. k = m
    BY <1>6, <1>9, <2>2 DEF Chain
  <2> QED
    BY <2>1, <2>3
<1> DEFINE same == interval[m] = interval[q]
           t == IF same THEN r[m] ELSE r[m] + 1
<1>13. /\ t \in Nat
       /\ \A y \in L : r[y] < t => interval[y] <= interval[q]
       /\ \A x \in L : t <= r[x] => interval[q] <= interval[x]
       /\ interval[q] = 1 => t <= r[PeriodOne]
  <2>1. t \in Nat
    BY <1>9
  <2>2. ASSUME NEW y \in L, r[y] < t PROVE interval[y] <= interval[q]
    <3>1. r[y] <= r[m]
      BY <1>9, <2>2
    <3>2. interval[y] <= interval[m] /\ interval[m] <= interval[q]
      BY <1>6, <1>11, <3>1 DEF Sorted, FirstNoLonger
    <3> QED
      BY <1>5, <3>2
  <2>3. ASSUME NEW x \in L, t <= r[x] PROVE interval[q] <= interval[x]
    <3>1. CASE same
      BY <1>6, <2>3, <3>1 DEF Sorted
    <3>2. CASE ~same
      <4>1. ~(r[x] <= r[m])
        BY <1>9, <2>3, <3>2
      <4>2. ~(interval[x] <= interval[q])
        BY <1>11, <4>1 DEF FirstNoLonger
      <4> QED
        BY <1>5, <4>2
    <3> QED
      BY <3>1, <3>2
  <2>4. ASSUME interval[q] = 1 PROVE t <= r[PeriodOne]
    <3>1. interval[m] <= 1 /\ m \in Nodes
      BY <1>5, <1>11, <2>4 DEF FirstNoLonger
    <3>2. interval[m] = 1
      BY <1>5, <3>1
    <3> QED
      BY <1>6, <2>4, <3>2 DEF Sorted
  <2> QED
    BY <2>1, <2>2, <2>3, <2>4
<1>14. /\ LinkGoesOn
       /\ \A j \in Frames : Ahead(j) /\ j # op.index => (op'.pc = "link" /\ Ahead(j)') \/ same
       /\ same => op'.pc # "link"
       /\ \/ \E p \in L :
               /\ t <= r[p] /\ \A y \in L : t <= r[y] => r[p] <= r[y]
               /\ nextQh' = [nextQh EXCEPT ![p] = q] /\ horizon' = [horizon EXCEPT ![p] = q]
               /\ UNCHANGED <<frame, frameHw>>
          \/ /\ \A y \in L : ~(t <= r[y])
             /\ ~same /\ frame' = [frame EXCEPT ![0] = q] /\ frameHw' = [frameHw EXCEPT ![0] = q]
             /\ UNCHANGED <<nextQh, horizon>>
  <2>1. m # Null
    BY <1>5
  <2>2. CASE same
    <3>1. Store(0, m, q, q) /\ Linked(q)
      BY <1>11, <2>2 DEF HookPeriod, SameInterval
    <3>2. LinkGoesOn /\ op'.pc # "link"
      BY <1>1, <1>3, <3>1, LinkedGoesOn
    <3>3. /\ nextQh' = [nextQh EXCEPT ![m] = q] /\ horizon' = [horizon EXCEPT ![m] = q]
          /\ UNCHANGED <<frame, frameHw>>
      BY <2>1, <3>1 DEF Store
    <3>4. t <= r[m] /\ \A y \in L : t <= r[y] => r[m] <= r[y]
      BY <1>9, <2>2
    <3> HIDE DEF t, same, L, q
    <3> QED
      BY <2>2, <3>2, <3>3, <3>4
  <2>3. CASE ~same
    <3>1. Store(0, Before(0, m), q, q) /\ NextIndex(q, "link", Linked(q))
      BY <1>11, <2>3 DEF HookPeriod, SameInterval
    <3>2. LinkGoesOn /\ \A j \in Frames : Ahead(j) /\ j # op.index => op'.pc = "link" /\ Ahead(j)'
      BY <1>1, <1>3, <3>1, LinkLoops
    <3>3. frame[0] \in L /\ \A y \in L : r[y] <= r[frame[0]]
      <4>1. Top(L, r, 0, frame[0]) /\ \A y \in L : 0 % interval[y] = 0
        BY <1>1, <1>5, <1>10, NodeFacts
      <4> QED
        BY <4>1 DEF Top
    <3>4. \/ frame[0] = m /\ Before(0, m) = Null
          \/ /\ Before(0, m) \in L /\ Before(0, m) # Null
             /\ r[m] < r[Before(0, m)]
             /\ \A y \in L : r[m] < r[y] => r[Before(0, m)] <= r[y]
      <4>1. ScheduleTypeOK /\ L \in SUBSET Nodes /\ Chain(L, nextQh, r) /\ frame[0] \in L
        BY <1>1, <1>5, <1>6, <3>3
      <4>2. r[m] <= r[frame[0]] /\ m \in L
        BY <1>11
      <4> PICK i : i = 0
        OBVIOUS
      <4>3. frame[i] \in L /\ r[m] <= r[frame[i]]
        BY <4>1, <4>2
      <4>4. \/ frame[i] = m /\ Before(i, m) = Null
            \/ /\ Before(i, m) \in L /\ Before(i, m) # Null
               /\ r[m] < r[Before(i, m)]
               /\ \A y \in L : r[m] < r[y] => r[Before(i, m)] <= r[y]
        <5> HIDE DEF L, t, same
        <5> QED
          BY <4>1, <4>2, <4>3, BeforeIs
      <4> QED
        BY <4>4
    <3>5. \A y \in L : t <= r[y] <=> r[m] < r[y]
      BY <1>9, <2>3
    <3>6. CASE frame[0] = m /\ Before(0, m) = Null
      <4>1. \A y \in L : ~(t <= r[y])
        BY <1>9, <3>3, <3>5, <3>6
      <4> QED
        BY <2>3, <3>1, <3>2, <3>6, <4>1 DEF Store
    <3>7. CASE /\ Before(0, m) \in L /\ Before(0, m) # Null
               /\ r[m] < r[Before(0, m)]
               /\ \A y \in L : r[m] < r[y] => r[Before(0, m)] <= r[y]
      <4>1. /\ nextQh' = [nextQh EXCEPT ![Before(0, m)] = q]
            /\ horizon' = [horizon EXCEPT ![Before(0, m)] = q]
            /\ UNCHANGED <<frame, frameHw>>
        BY <3>1, <3>7 DEF Store
      <4>2. t <= r[Before(0, m)] /\ \A y \in L : t <= r[y] => r[Before(0, m)] <= r[y]
        BY <3>5, <3>7
      <4> QED
        BY <2>3, <3>2, <3>7, <4>1, <4>2
    <3> QED
      BY <3>4, <3>6, <3>7
  <2> QED
    BY <2>2, <2>3
<1> HIDE DEF t, same
<1> PICK r2 : r2 = Shifted(L, r, q, t)
  OBVIOUS
<1>15. /\ Sorted(M, r2)
       /\ \A x, y \in L : r2[y] <= r2[x] <=> r[y] <= r[x]
       /\ \A x \in L : /\ r2[q] <= r2[x] <=> t <= r[x]
                       /\ r2[x] <= r2[q] <=> r[x] < t
  <2>1. q \in Qhs \ L /\ ScheduleTypeOK /\ L \in SUBSET Nodes /\ PeriodOne \in L
    BY <1>1, <1>4, <1>5, <1>8
  <2>2. Chain(L, nextQh, r) /\ Sorted(L, r)
    BY <1>6
  <2>3. FitsAt(L, r, q, t) /\ t \in Nat
    BY <1>13 DEF FitsAt
  <2>4. Sorted(M, r2) /\ OrderKept(L, r, q, t, r2)
    <3> HIDE DEF q, L
    <3> QED
      BY <2>1, <2>2, <2>3, Inserted
  <2> QED
    BY <2>4 DEF OrderKept
<1>16. \A x \in L :
         /\ IF t <= r[x] /\ \A y \in L : t <= r[y] => r[x] <= r[y]
            THEN nextQh'[x] = q ELSE nextQh'[x] = nextQh[x]
         /\ horizon'[x] = nextQh'[x]
         /\ horizon'[x] = horizon[x] \/ (horizon'[x] = q /\ t <= r[x] /\ \A y \in L : t <= r[y] => r[x] <= r[y])
  <2>1. ASSUME NEW p \in L,
               t <= r[p] /\ \A y \in L : t <= r[y] => r[p] <= r[y],
               nextQh' = [nextQh EXCEPT ![p] = q] /\ horizon' = [horizon EXCEPT ![p] = q],
               NEW x \in L
        PROVE  /\ IF t <= r[x] /\ \A y \in L : t <= r[y] => r[x] <= r[y]
                  THEN nextQh'[x] = q ELSE nextQh'[x] = nextQh[x]
               /\ horizon'[x] = nextQh'[x]
               /\ horizon'[x] = horizon[x] \/ (horizon'[x] = q /\ t <= r[x] /\ \A y \in L : t <= r[y] => r[x] <= r[y])
    <3>1. CASE x = p
      BY <1>5, <2>1, <3>1
    <3>2. CASE x # p
      <4>1. nextQh'[x] = nextQh[x] /\ horizon'[x] = horizon[x]
        BY <1>5, <2>1, <3>2
      <4>2. ~(t <= r[x] /\ \A y \in L : t <= r[y] => r[x] <= r[y])
        <5>1. SUFFICES ASSUME t <= r[x], \A y \in L : t <= r[y] => r[x] <= r[y] PROVE FALSE
          OBVIOUS
        <5>2. r[x] <= r[p] /\ r[p] <= r[x]
          BY <2>1, <5>1
        <5>3. r[x] = r[p]
          BY <1>9, <5>2
        <5> QED
          BY <1>6, <3>2, <5>3 DEF Chain
      <4> QED
        BY <1>7, <4>1, <4>2
    <3> QED
      BY <3>1, <3>2
  <2> QED
    BY <1>7, <1>14, <2>1
<1>17. nextQh'[q] = nextQh[q] /\ horizon'[q] = horizon[q]
  BY <1>4, <1>8, <1>5, <1>14
<1>18. Chain(M, nextQh', r2)
  <2>1. \/ nextQh'[q] = Null /\ \A y \in L : t <= r[y]
        \/ /\ nextQh'[q] \in L /\ r[nextQh'[q]] < t
           /\ \A y \in L : r[y] < t => r[y] <= r[nextQh'[q]]
    <3>1. CASE same
      BY <1>6, <1>12, <1>17, <3>1 DEF Chain, same, t
    <3>2. CASE ~same
      <4>1. \A y \in L : r[y] < t => r[y] <= r[m]
        BY <1>9, <3>2 DEF t
      <4> QED
        BY <1>9, <1>12, <1>17, <3>2, <4>1 DEF same, t
    <3> QED
      BY <3>1, <3>2
  <2>2. \A x \in L :
           IF t <= r[x] /\ \A y \in L : t <= r[y] => r[x] <= r[y]
           THEN nextQh'[x] = q ELSE nextQh'[x] = nextQh[x]
    BY <1>16
  <2>3. /\ q \in Nodes \ L /\ t \in Nat /\ L \in SUBSET Nodes
        /\ nextQh \in [Nodes -> Nodes \cup {Null}] /\ Chain(L, nextQh, r)
    BY <1>5, <1>6, <1>8, <1>13
  <2>4. LeadsBelow(L, nextQh', r, q, t) /\ LedTo(L, nextQh, nextQh', r, q, t)
    BY <2>1, <2>2 DEF LeadsBelow, LedTo
  <2> HIDE DEF q, L
  <2> QED
    BY <2>3, <2>4, ChainGrows
<1>19. Listed' = M
  BY <1>14 DEF LinkGoesOn
<1>20. ScheduleTypeOK'
  <2>1. nextQh' \in [Nodes -> Nodes \cup {Null}] /\ horizon' \in [Nodes -> Nodes \cup {Null}]
    BY <1>5, <1>14
  <2>2. frame' \in [Frames -> Nodes] /\ frameHw' \in [Frames -> Nodes]
    BY <1>5, <1>7, <1>14
  <2> QED
    BY <1>1, <1>3, <1>14, <2>1, <2>2 DEF ScheduleTypeOK, LinkGoesOn
<1>21. OneOperation'
  BY <1>14 DEF LinkGoesOn
<1>22. Mirrored'
  <2>1. frameHw' = frame'
    BY <1>7, <1>14
  <2>2. op'.pc \in {"link", "hook", "poll", "unlink"} => op'.q = q
    BY <1>14 DEF LinkGoesOn
  <2>3. horizon'[q] = nextQh'[q]
    BY <1>7, <1>17
  <2> QED
    BY <1>16, <1>19, <2>1, <2>2, <2>3 DEF Mirrored
<1>23. Async'
  <2>1. nextQh'[ReclaimHead] = nextQh[ReclaimHead] /\ horizon'[ReclaimHead] = horizon[ReclaimHead]
    BY <1>5, <1>14
  <2>2. op'.pc \in {"link", "poll", "idle"}
    BY <1>14 DEF LinkGoesOn
  <2> QED
    BY <1>1, <1>3, <2>1, <2>2 DEF Async
<1>24. ASSUME NEW j \in Frames PROVE FrameOk(Listed, r2, j)'
  <2> DEFINE f == frame[j]
  <2>1. f \in L /\ j % interval[f] = 0 /\ \A y \in L : j % interval[y] = 0 => r[y] <= r[f]
    BY <1>10 DEF Top
  <2>2. CASE j % interval[q] = 0 => t <= r[f]
    <3>1. Top(M, r2, j, f)
      BY <1>15, <2>1, <2>2 DEF Top
    <3>2. frame'[j] = f
      <4>1. CASE frame' = frame
        BY <4>1
      <4>2. CASE frame' = [frame EXCEPT ![0] = q] /\ \A y \in L : ~(t <= r[y])
        <5>1. j # 0
          BY <1>1, <1>5, <2>1, <2>2, <4>2, NodeFacts
        <5> QED
          BY <1>5, <4>2, <5>1
      <4> QED
        BY <1>14, <4>1, <4>2
    <3> QED
      BY <1>3, <1>19, <3>1, <3>2 DEF FrameOk, Top
  <2>3. CASE j % interval[q] = 0 /\ ~(t <= r[f])
    <3>1. r[f] < t
      BY <1>9, <1>13, <2>1, <2>3
    <3>2. Top(M, r2, j, q)
      <4>1. \A y \in L : j % interval[y] = 0 => r2[y] <= r2[q]
        <5>1. \A y \in L : j % interval[y] = 0 => r[y] < t
          BY <1>9, <1>13, <2>1, <3>1
        <5> QED
          BY <1>15, <5>1
      <4>2. r2[q] <= r2[q]
        <5>1. r2[q] \in Nat
          BY <1>5, <1>18 DEF Chain
        <5> QED
          BY <5>1
      <4> QED
        BY <2>3, <4>1, <4>2 DEF Top
    <3>3. r[m] <= r[f]
      <4>1. j % interval[m] = 0
        <5>1. m \in Nodes /\ interval[m] <= interval[q] /\ j \in Nat
          BY <1>5, <1>11 DEF FirstNoLonger
        <5> QED
          BY <1>1, <1>5, <2>3, <5>1, DueToo
      <4> QED
        BY <2>1, <4>1
    <3>4. ~same /\ f = m
      <4>1. ~same
        BY <1>9, <2>1, <3>1, <3>3 DEF t
      <4>2. r[f] = r[m]
        BY <1>9, <2>1, <3>1, <3>3, <4>1 DEF t
      <4> QED
        BY <1>6, <2>1, <4>1, <4>2 DEF Chain
    <3>5. CASE frame'[j] = q
      BY <1>3, <1>19, <3>2, <3>5 DEF FrameOk, Top
    <3>6. CASE frame'[j] = f /\ j # 0
      <4>1. Ahead(j)
        BY <1>5, <2>3 DEF Ahead
      <4>2. op'.pc = "link" /\ Ahead(j)' /\ op'.q = q /\ op'.index # 0
        BY <1>14, <3>4, <3>6, <4>1 DEF LinkGoesOn
      <4>3. frame'[j] = nextQh'[q]
        BY <1>12, <1>17, <3>4, <3>6 DEF same
      <4> QED
        BY <1>3, <1>19, <3>2, <4>2, <4>3 DEF FrameOk, Top
    <3>7. frame'[j] = q \/ (frame'[j] = f /\ j # 0)
      <4>1. ASSUME NEW p \in L, t <= r[p], frame' = frame PROVE j # 0
        <5>1. SUFFICES ASSUME j = 0 PROVE FALSE
          OBVIOUS
        <5>2. 0 % interval[p] = 0
          BY <1>1, <1>5, NodeFacts
        <5>3. r[p] <= r[f]
          BY <2>1, <5>1, <5>2
        <5> QED
          BY <1>9, <1>13, <2>1, <3>1, <4>1, <5>3
      <4>2. CASE frame' = [frame EXCEPT ![0] = q]
        BY <1>5, <4>2
      <4> QED
        BY <1>14, <4>1, <4>2
    <3> QED
      BY <3>5, <3>6, <3>7
  <2> QED
    BY <2>2, <2>3
<1>25. ScheduleLists(r2)'
  <2>1. Chain(Listed, nextQh, r2)' /\ Sorted(Listed, r2)'
    BY <1>3, <1>15, <1>18, <1>19 DEF Chain, Sorted
  <2>2. Linking(Listed, r2)'
    <3>1. CASE op'.pc = "link"
      <4>1. ~same /\ op'.q = q /\ op'.index # 0
        BY <1>14, <3>1 DEF LinkGoesOn
      <4>2. \A x \in M : interval[x] = interval[q] => x = q
        <5>1. SUFFICES ASSUME NEW x \in L, interval[x] = interval[q] PROVE FALSE
          OBVIOUS
        <5>2. r[x] <= r[m] /\ interval[m] <= interval[q]
          BY <1>5, <1>11, <5>1 DEF FirstNoLonger
        <5>3. interval[x] <= interval[m]
          BY <1>6, <5>2 DEF Sorted
        <5> QED
          BY <1>5, <4>1, <5>1, <5>2, <5>3 DEF same
      <4> QED
        BY <1>3, <1>19, <3>1, <4>1, <4>2 DEF Linking
    <3>2. CASE op'.pc \in {"poll", "idle"}
      BY <3>2 DEF Linking
    <3> QED
      BY <1>14, <3>1, <3>2 DEF LinkGoesOn
  <2> QED
    BY <1>24, <2>1, <2>2 DEF ScheduleLists
<1>26. Walking(r2)'
  <2>1. \A x \in L :
           \/ horizon'[x] = horizon[x]
           \/ horizon'[x] = q /\ \A y \in L : r[y] < r[x] => r[y] < t
    <3>1. ASSUME NEW x \in L, \A y \in L : t <= r[y] => r[x] <= r[y], NEW y \in L, r[y] < r[x]
          PROVE  r[y] < t
      BY <1>9, <1>13, <3>1
    <3> QED
      BY <1>16, <3>1
  <2>2. /\ q \in Qhs \ L /\ Listed' = L \cup {q} /\ op.pc # "unlink" /\ t \in Nat
        /\ \A d \in Qhs : use[d] = "period" => use'[d] = "period"
        /\ walker' = walker /\ interval' = interval
    BY <1>3, <1>4, <1>8, <1>13, <1>14, <1>19 DEF LinkGoesOn
  <2>3. /\ \A x, y \in L : r2[y] <= r2[x] <=> r[y] <= r[x]
        /\ \A x \in L : r2[x] <= r2[q] <=> r[x] < t
    BY <1>15
  <2> HIDE DEF q
  <2> QED
    BY <1>1, <1>2, <2>1, <2>2, <2>3, InsertedWalk
<1> QED
  BY <1>20, <1>21, <1>22, <1>23, <1>25, <1>26 DEF SInv

\* A further frame is made to begin with the QH.
LEMMA HookFrame ==
  ASSUME SInv, HookPeriod, op.index # 0
  PROVE  SInv'
<1> DEFINE L == Listed
           q == op.q
           i == op.index
           m == nextQh[op.q]
<1>1. ScheduleTypeOK /\ OneOperation /\ Mirrored /\ Async
  BY DEF SInv
<1>2. PICK r : ScheduleLists(r) /\ Walking(r)
  BY DEF SInv
<1>3. op.pc = "hook" /\ UNCHANGED <<interval, iaad, iaa, timeouts, walker, async>>
  BY DEF HookPeriod, bell
<1>4. q \in Qhs /\ i \in Frames
  BY <1>1, <1>3 DEF OneOperation, ScheduleTypeOK
<1>5. /\ L \in SUBSET Nodes /\ q \in Nodes /\ Null \notin Nodes
      /\ nextQh \in [Nodes -> Nodes \cup {Null}] /\ horizon \in [Nodes -> Nodes \cup {Null}]
      /\ frame \in [Frames -> Nodes]
      /\ \A x \in Nodes : interval[x] \in Nat \ {0}
  BY <1>1, <1>4, NodeFacts DEF ScheduleTypeOK
<1>6. Chain(L, nextQh, r) /\ Sorted(L, r) /\ Linking(L, r) /\ \A j \in Frames : FrameOk(L, r, j)
  BY <1>2 DEF ScheduleLists
<1>7. frameHw = frame
  BY <1>1 DEF Mirrored
<1>8. /\ \A x \in L : interval[x] = interval[q] => x = q
      /\ frame[i] = m /\ Top(L, r, i, q)
  BY <1>3, <1>6 DEF Linking
<1>9. q \in L /\ m \in L /\ r[m] < r[q] /\ m # Null
  BY <1>4, <1>5, <1>6, <1>8 DEF Chain, Top
<1>10. \A x \in L : r[x] \in Nat
  BY <1>5, <1>6 DEF Chain
<1>11. interval[m] <= interval[q] /\ m # q
  BY <1>6, <1>9, <1>10 DEF Sorted
<1>12. NotLonger(i, q) = m
  <2>1. \A y \in L : r[y] <= r[frame[i]] /\ interval[y] <= interval[q] => r[y] <= r[m]
    BY <1>8
  <2>2. frame[i] \in L /\ r[m] <= r[frame[i]]
    BY <1>8, <1>9, <1>10
  <2> HIDE DEF m, i, q, L
  <2> QED
    BY <1>1, <1>5, <1>6, <1>9, <1>11, <2>1, <2>2, NotLongerIs
<1>13. ~SameInterval(i, q)
  BY <1>8, <1>9, <1>11, <1>12 DEF SameInterval
<1>14. Before(i, m) = Null
  BY <1>8 DEF Before
<1>15. /\ NextIndex(q, "link", Linked(q))
       /\ frame' = [frame EXCEPT ![i] = q] /\ frameHw' = [frameHw EXCEPT ![i] = q]
       /\ UNCHANGED <<nextQh, horizon>>
  BY <1>12, <1>13, <1>14 DEF HookPeriod, Store
<1>16. LinkGoesOn /\ \A j \in Frames : Ahead(j) /\ j # i => op'.pc = "link" /\ Ahead(j)'
  BY <1>1, <1>3, <1>15, LinkLoops
<1>17. Listed' = L
  BY <1>9, <1>16 DEF LinkGoesOn
<1>18. ScheduleTypeOK' /\ OneOperation'
  <2>1. frame' \in [Frames -> Nodes] /\ frameHw' \in [Frames -> Nodes]
    BY <1>5, <1>7, <1>15
  <2> QED
    BY <1>1, <1>3, <1>15, <1>16, <2>1 DEF ScheduleTypeOK, LinkGoesOn
<1>19. Mirrored' /\ Async'
  <2>1. op'.pc \in {"link", "hook", "poll", "unlink"} => op'.q = q
    BY <1>16 DEF LinkGoesOn
  <2>2. Mirrored'
    BY <1>1, <1>3, <1>7, <1>15, <1>17, <2>1 DEF Mirrored
  <2> QED
    BY <1>1, <1>3, <1>15, <1>16, <2>2 DEF Async, LinkGoesOn
<1>20. ScheduleLists(r)'
  <2>1. Chain(Listed, nextQh, r)' /\ Sorted(Listed, r)'
    BY <1>3, <1>6, <1>15, <1>17 DEF Chain, Sorted
  <2>2. ASSUME NEW j \in Frames PROVE FrameOk(Listed, r, j)'
    <3>1. CASE j = i
      <4>1. frame'[j] = q
        BY <1>5, <1>15, <3>1
      <4> QED
        BY <1>3, <1>8, <1>17, <3>1, <4>1 DEF FrameOk, Top
    <3>2. CASE j # i
      <4>1. frame'[j] = frame[j]
        BY <1>5, <1>15, <3>2
      <4>2. CASE Top(L, r, j, frame[j])
        BY <1>3, <1>17, <4>1, <4>2 DEF FrameOk, Top
      <4>3. CASE Ahead(j) /\ Top(L, r, j, q) /\ frame[j] = m
        <5>1. op'.pc = "link" /\ Ahead(j)' /\ op'.q = q /\ op'.index # 0
          BY <1>16, <3>2, <4>3 DEF LinkGoesOn
        <5> QED
          BY <1>3, <1>15, <1>17, <4>1, <4>3, <5>1 DEF FrameOk, Top
      <4> QED
        BY <1>3, <1>6, <4>2, <4>3 DEF FrameOk
    <3> QED
      BY <3>1, <3>2
  <2>3. Linking(Listed, r)'
    BY <1>3, <1>8, <1>16, <1>17 DEF Linking, LinkGoesOn
  <2> QED
    BY <2>1, <2>2, <2>3 DEF ScheduleLists
<1>21. Walking(r)'
  <2>1. \A d \in walker.due : use[d] = "period" => use'[d] = "period"
    BY <1>1, <1>16 DEF LinkGoesOn, ScheduleTypeOK
  <2> QED
    BY <1>2, <1>3, <1>15, <1>17, <2>1, SameWalk
<1> QED
  BY <1>18, <1>19, <1>20, <1>21 DEF SInv

\* What the unlinking stores: the predecessor of the QH, or the frame that begins
\* with it, gets its successor.
LEMMA UnlinkStores ==
  ASSUME SInv, UnlinkPeriod, NEW r, ScheduleLists(r), op.index = 0
  PROVE  /\ op.q \in Listed /\ \A y \in Listed : r[y] <= r[frame[0]]
         /\ \/ /\ frame[0] = op.q /\ \A y \in Listed : nextQh[y] # op.q
               /\ frame' = [frame EXCEPT ![0] = nextQh[op.q]] /\ frameHw' = [frameHw EXCEPT ![0] = nextQh[op.q]]
               /\ UNCHANGED <<nextQh, horizon>>
            \/ /\ frame[0] # op.q /\ UNCHANGED <<frame, frameHw>>
               /\ \E p \in Listed :
                    /\ nextQh[p] = op.q /\ p # op.q
                    /\ \A y \in Listed : nextQh[y] = op.q => y = p
                    /\ nextQh' = [nextQh EXCEPT ![p] = nextQh[op.q]]
                    /\ horizon' = [horizon EXCEPT ![p] = nextQh[op.q]]
<1> DEFINE L == Listed
           q == op.q
<1>1. ScheduleTypeOK /\ OneOperation /\ Mirrored
  BY DEF SInv
<1>2. op.pc = "unlink" /\ q \in Qhs
  BY <1>1 DEF UnlinkPeriod, OneOperation
<1>3. /\ L \in SUBSET Nodes /\ q \in Nodes /\ Null \notin Nodes /\ 0 \in Frames
      /\ nextQh \in [Nodes -> Nodes \cup {Null}]
      /\ \A x \in Nodes : 0 % interval[x] = 0
  BY <1>1, <1>2, NodeFacts
<1>4. Chain(L, nextQh, r)
  BY DEF ScheduleLists
<1>5. q \in L
  BY <1>2 DEF Listed, Hooked
<1>6. Top(L, r, 0, frame[0])
  BY <1>3, QuietFrames
<1>7. frame[0] \in L /\ \A y \in L : r[y] <= r[frame[0]]
  BY <1>3, <1>6 DEF Top
<1>8. q \in On(nextQh, frame[0])
  <2>1. \A x \in L : On(nextQh, x) = {y \in L : r[y] <= r[x]}
    BY <1>3, <1>4, WalkOfChain
  <2> QED
    BY <1>5, <1>7, <2>1
<1>9. Store(0, Before(0, q), nextQh[q], nextQh[q])
  <2>1. horizon[q] = nextQh[q]
    BY <1>1, <1>2 DEF Mirrored
  <2> QED
    BY <1>8, <2>1 DEF UnlinkPeriod
<1>10. \/ frame[0] = q /\ Before(0, q) = Null
       \/ /\ frame[0] # q /\ Before(0, q) \in L /\ Before(0, q) # Null
          /\ nextQh[Before(0, q)] = q /\ r[q] < r[Before(0, q)]
          /\ \A y \in L : nextQh[y] = q => y = Before(0, q)
  <2> PICK i : i = 0
    OBVIOUS
  <2>1. frame[i] \in L /\ r[q] <= r[frame[i]]
    BY <1>5, <1>7
  <2>2. \/ frame[i] = q /\ Before(i, q) = Null
        \/ /\ frame[i] # q /\ Before(i, q) \in L /\ Before(i, q) # Null
           /\ nextQh[Before(i, q)] = q /\ r[q] < r[Before(i, q)]
           /\ \A y \in L : nextQh[y] = q => y = Before(i, q)
    <3> HIDE DEF q, L
    <3> QED
      BY <1>1, <1>3, <1>4, <1>5, <2>1, BeforeIs
  <2> QED
    BY <2>2
<1>11. CASE frame[0] = q /\ Before(0, q) = Null
  <2>1. ASSUME NEW y \in L, nextQh[y] = q PROVE FALSE
    <3>1. r[q] < r[y] /\ r[y] <= r[q] /\ r[q] \in Nat /\ r[y] \in Nat
      BY <1>3, <1>4, <1>5, <1>7, <1>11, <2>1 DEF Chain
    <3> QED
      BY <3>1
  <2> QED
    BY <1>5, <1>7, <1>9, <1>11, <2>1 DEF Store
<1>12. CASE /\ frame[0] # q /\ Before(0, q) \in L /\ Before(0, q) # Null
            /\ nextQh[Before(0, q)] = q /\ r[q] < r[Before(0, q)]
            /\ \A y \in L : nextQh[y] = q => y = Before(0, q)
  <2> PICK p : p = Before(0, q)
    OBVIOUS
  <2>1. p # q
    <3>1. r[q] \in Nat
      BY <1>3, <1>4, <1>5 DEF Chain
    <3> QED
      BY <1>12, <3>1
  <2>2. /\ nextQh' = [nextQh EXCEPT ![p] = nextQh[q]] /\ horizon' = [horizon EXCEPT ![p] = nextQh[q]]
        /\ UNCHANGED <<frame, frameHw>>
    BY <1>9, <1>12 DEF Store
  <2> QED
    BY <1>5, <1>7, <1>12, <2>1, <2>2
<1> QED
  BY <1>10, <1>11, <1>12

\* What a step of the unlinking does besides the lists.
LEMMA UnlinkLoop ==
  ASSUME SInv, UnlinkPeriod
  PROVE  /\ op.pc = "unlink" /\ op.q \in Qhs /\ op.index \in Frames
         /\ UNCHANGED <<interval, iaad, iaa, timeouts, async>>
         /\ UnlinkGoesOn
         /\ \A i \in Frames : Ahead(i) /\ i # op.index => op'.pc = "unlink" /\ Ahead(i)'
         /\ walker' \in [frame : Frames, at : Nodes \cup {Null}, due : SUBSET Qhs, stale : BOOLEAN]
         /\ walker'.frame = walker.frame /\ walker'.at = walker.at /\ walker'.due = walker.due
         /\ ~walker'.stale => ~walker.stale /\ (op'.pc = "unlink" \/ walker.at # op.q)
<1>1. ScheduleTypeOK /\ OneOperation
  BY DEF SInv
<1>2. /\ op.pc = "unlink" /\ UNCHANGED <<interval, iaad, iaa, timeouts, async>>
      /\ NextIndex(op.q, "unlink", Unlinked(op.q))
      /\ walker' = [walker EXCEPT !.stale = @ \/ (op'.pc # "unlink" /\ walker.at = op.q)]
  BY DEF UnlinkPeriod, bell
<1>3. op.q \in Qhs /\ op.index \in Frames
  BY <1>1, <1>2 DEF OneOperation, ScheduleTypeOK
<1>4. UnlinkGoesOn /\ \A i \in Frames : Ahead(i) /\ i # op.index => op'.pc = "unlink" /\ Ahead(i)'
  BY <1>1, <1>2, UnlinkLoops
<1>5. walker \in [frame : Frames, at : Nodes \cup {Null}, due : SUBSET Qhs, stale : BOOLEAN]
  BY <1>1 DEF ScheduleTypeOK
<1>6. /\ walker' \in [frame : Frames, at : Nodes \cup {Null}, due : SUBSET Qhs, stale : BOOLEAN]
      /\ walker'.frame = walker.frame /\ walker'.at = walker.at /\ walker'.due = walker.due
      /\ walker'.stale = (walker.stale \/ (op'.pc # "unlink" /\ walker.at = op.q))
  <2> DEFINE b == walker.stale \/ (op'.pc # "unlink" /\ walker.at = op.q)
  <2>1. b \in BOOLEAN /\ walker' = [walker EXCEPT !.stale = b]
    BY <1>2, <1>5
  <2> HIDE DEF b
  <2>2. /\ walker' \in [frame : Frames, at : Nodes \cup {Null}, due : SUBSET Qhs, stale : BOOLEAN]
        /\ walker'.frame = walker.frame /\ walker'.at = walker.at /\ walker'.due = walker.due
        /\ walker'.stale = b
    BY <1>5, <2>1
  <2> QED
    BY <2>2 DEF b
<1> QED
  BY <1>2, <1>3, <1>4, <1>6

\* The QH is taken out of the chain.
LEMMA UnlinkRemoves ==
  ASSUME SInv, UnlinkPeriod, op.index = 0
  PROVE  SInv'
<1> DEFINE L == Listed
           q == op.q
           M == L \ {q}
           z == nextQh[op.q]
<1>1. ScheduleTypeOK /\ OneOperation /\ Mirrored /\ Async
  BY DEF SInv
<1>2. PICK r : ScheduleLists(r) /\ Walking(r)
  BY DEF SInv
<1>3. /\ op.pc = "unlink" /\ q \in Qhs
      /\ UNCHANGED <<interval, iaad, iaa, timeouts, async>>
      /\ UnlinkGoesOn
      /\ \A i \in Frames : Ahead(i) /\ i # 0 => op'.pc = "unlink" /\ Ahead(i)'
      /\ walker' \in [frame : Frames, at : Nodes \cup {Null}, due : SUBSET Qhs, stale : BOOLEAN]
      /\ walker'.frame = walker.frame /\ walker'.at = walker.at /\ walker'.due = walker.due
      /\ ~walker'.stale => ~walker.stale /\ (op'.pc = "unlink" \/ walker.at # q)
  BY UnlinkLoop
<1>4. /\ L \in SUBSET Nodes /\ q \in Nodes /\ Null \notin Nodes /\ ReclaimHead \notin L
      /\ PeriodOne \notin Qhs /\ ReclaimHead \in Nodes /\ PeriodOne \in L
      /\ nextQh \in [Nodes -> Nodes \cup {Null}] /\ horizon \in [Nodes -> Nodes \cup {Null}]
      /\ frame \in [Frames -> Nodes] /\ 0 \in Frames
      /\ \A x \in Nodes : interval[x] \in Nat \ {0}
      /\ \A j \in Frames : j \in Nat /\ j % 1 = 0
  BY <1>1, <1>3, NodesAre, NodeFacts DEF ScheduleTypeOK
<1>5. Chain(L, nextQh, r) /\ Sorted(L, r)
  BY <1>2 DEF ScheduleLists
<1>6. /\ frameHw = frame /\ horizon[q] = z
      /\ \A x \in L : horizon[x] = nextQh[x]
  BY <1>1, <1>3 DEF Mirrored
<1>7. /\ q \in L /\ \A y \in L : r[y] <= r[frame[0]]
      /\ \/ /\ frame[0] = q /\ \A y \in L : nextQh[y] # q
            /\ frame' = [frame EXCEPT ![0] = z] /\ frameHw' = [frameHw EXCEPT ![0] = z]
            /\ UNCHANGED <<nextQh, horizon>>
         \/ /\ frame[0] # q /\ UNCHANGED <<frame, frameHw>>
            /\ \E p \in L :
                 /\ nextQh[p] = q /\ p # q
                 /\ \A y \in L : nextQh[y] = q => y = p
                 /\ nextQh' = [nextQh EXCEPT ![p] = z] /\ horizon' = [horizon EXCEPT ![p] = z]
  BY <1>2, UnlinkStores
<1>8. \A x \in L : r[x] \in Nat
  BY <1>4, <1>5 DEF Chain
<1>9. \A j \in Frames : Top(L, r, j, frame[j])
  BY <1>2, QuietFrames
<1>10. /\ z = Null \/ (z \in M /\ r[z] < r[q] /\ interval[z] <= interval[q])
       /\ \A y \in M : r[y] <= r[q] => z # Null /\ r[y] <= r[z]
  <2>1. \A y \in M : r[y] <= r[q] => r[y] < r[q] /\ ~(r[q] <= r[y])
    <3>1. \A y \in M : r[y] # r[q]
      BY <1>5, <1>7 DEF Chain
    <3> QED
      BY <1>7, <1>8, <3>1
  <2>2. z # Null => r[z] < r[q] /\ z \in L /\ r[z] <= r[q]
    BY <1>4, <1>5, <1>7, <1>8 DEF Chain
  <2>3. z # Null => z # q
    BY <1>7, <1>8, <2>2
  <2>4. z # Null => interval[z] <= interval[q]
    BY <1>5, <1>7, <2>2 DEF Sorted
  <2>5. \A y \in M : r[y] <= r[q] => z # Null /\ r[y] <= r[z]
    BY <1>4, <1>5, <1>7, <2>1 DEF Chain
  <2> QED
    BY <2>2, <2>3, <2>4, <2>5
<1>11. Listed' = M
  BY <1>3 DEF UnlinkGoesOn
<1>12. /\ nextQh' \in [Nodes -> Nodes \cup {Null}] /\ horizon' \in [Nodes -> Nodes \cup {Null}]
       /\ nextQh'[q] = z /\ horizon'[q] = z
       /\ nextQh'[ReclaimHead] = nextQh[ReclaimHead] /\ horizon'[ReclaimHead] = horizon[ReclaimHead]
       /\ \A x \in L : horizon'[x] = nextQh'[x]
       /\ \A x \in M : nextQh'[x] = IF nextQh[x] = q THEN z ELSE nextQh[x]
  BY <1>4, <1>6, <1>7, <1>10
<1>13. \A j \in Frames : frame[j] = q => Top(M, r, j, z)
  <2>1. SUFFICES ASSUME NEW j \in Frames, frame[j] = q PROVE Top(M, r, j, z)
    OBVIOUS
  <2>2. j % interval[q] = 0 /\ \A y \in L : j % interval[y] = 0 => r[y] <= r[q]
    BY <1>9, <2>1 DEF Top
  <2>3. r[PeriodOne] <= r[q] /\ PeriodOne # q
    <3>1. j % interval[PeriodOne] = 0
      BY <1>1, <1>4 DEF OneOperation
    <3> QED
      BY <1>3, <1>4, <2>2, <3>1
  <2>4. z \in M /\ z # Null
    BY <1>4, <1>10, <2>3
  <2>5. j % interval[z] = 0
    <3>1. z \in Nodes /\ interval[z] <= interval[q] /\ j \in Nat
      BY <1>4, <1>10, <2>4
    <3> QED
      BY <1>1, <1>4, <2>2, <3>1, DueToo
  <2> QED
    BY <1>10, <2>2, <2>4, <2>5 DEF Top
<1>14. /\ frame' \in [Frames -> Nodes] /\ frameHw' = frame'
       /\ \A j \in Frames : frame'[j] = IF j = 0 /\ frame[0] = q THEN z ELSE frame[j]
  <2>1. frame[0] = q => z \in Nodes
    BY <1>4, <1>13 DEF Top
  <2> QED
    BY <1>4, <1>6, <1>7, <2>1
<1>15. ScheduleTypeOK' /\ OneOperation'
  BY <1>1, <1>3, <1>12, <1>14 DEF ScheduleTypeOK, UnlinkGoesOn
<1>16. Mirrored' /\ Async'
  <2>1. op'.pc \in {"link", "hook", "poll", "unlink"} => op'.q = q
    BY <1>3 DEF UnlinkGoesOn
  <2>2. op'.pc \in {"unlink", "free", "idle"}
    BY <1>3 DEF UnlinkGoesOn
  <2>3. Mirrored'
    BY <1>11, <1>12, <1>14, <2>1 DEF Mirrored
  <2> QED
    BY <1>1, <1>3, <1>12, <2>2, <2>3 DEF Async
<1>17. ScheduleLists(r)'
  <2>1. Chain(M, nextQh', r)
    <3> HIDE DEF L, q, z
    <3> QED
      BY <1>4, <1>5, <1>7, <1>12, ChainShrinks DEF z
  <2>2. Chain(Listed, nextQh, r)' /\ Sorted(Listed, r)'
    <3>1. Chain(Listed', nextQh', r)
      BY <1>11, <2>1
    <3> QED
      BY <1>3, <1>5, <1>11, <3>1 DEF Chain, Sorted
  <2>3. ASSUME NEW j \in Frames PROVE FrameOk(Listed, r, j)'
    <3>1. CASE frame[j] # q
      <4>1. Top(M, r, j, frame[j]) /\ frame'[j] = frame[j]
        BY <1>9, <1>14, <3>1 DEF Top
      <4> QED
        BY <1>3, <1>11, <4>1 DEF FrameOk, Top
    <3>2. CASE frame[j] = q /\ j = 0
      <4>1. Top(M, r, j, z) /\ frame'[j] = z
        BY <1>13, <1>14, <3>2
      <4> QED
        BY <1>3, <1>11, <4>1 DEF FrameOk, Top
    <3>3. CASE frame[j] = q /\ j # 0
      <4>1. Top(M, r, j, z) /\ frame'[j] = q
        BY <1>13, <1>14, <3>3
      <4>2. Ahead(j)
        BY <1>4, <1>9, <3>3 DEF Ahead, Top
      <4>3. op'.pc = "unlink" /\ Ahead(j)' /\ op'.q = q /\ op'.index # 0
        BY <1>3, <3>3, <4>2 DEF UnlinkGoesOn
      <4> QED
        BY <1>3, <1>11, <1>12, <4>1, <4>3 DEF FrameOk, Top
    <3> QED
      BY <3>1, <3>2, <3>3
  <2>4. Linking(Listed, r)'
    BY <1>3, <1>10, <1>11, <1>12 DEF Linking, UnlinkGoesOn
  <2> QED
    BY <2>2, <2>3, <2>4 DEF ScheduleLists
<1>18. Walking(r)'
  <2>1. SUFFICES ASSUME ~walker'.stale PROVE Walking(r)'
    BY DEF Walking
  <2>2. ~walker.stale /\ (op'.pc = "unlink" \/ walker.at # q)
    BY <1>3, <2>1
  <2> DEFINE x == walker.at
  <2>3. CASE x = Null
    BY <1>2, <1>3, <2>2, <2>3 DEF Walking
  <2>4. CASE x # Null
    <3>1. /\ x \in L /\ walker.frame % interval[x] = 0
          /\ \A d \in walker.due :
                /\ d \in L /\ use[d] = "period"
                /\ horizon[x] # Null /\ r[d] <= r[horizon[x]]
      BY <1>2, <1>7, <2>2, <2>4 DEF Walking
    <3>2. x \in M \/ (op'.pc = "unlink" /\ op'.q = x)
      BY <1>3, <2>2, <3>1 DEF UnlinkGoesOn
    <3>3. ASSUME NEW d \in walker.due
          PROVE  d \in M /\ use'[d] = "period" /\ horizon'[x] # Null /\ r[d] <= r[horizon'[x]]
      <4>1. d \in L /\ use[d] = "period" /\ d \in Qhs /\ d # q
        BY <1>1, <1>3, <3>1 DEF OneOperation, ScheduleTypeOK
      <4>2. use'[d] = "period"
        BY <1>3, <4>1 DEF UnlinkGoesOn
      <4>3. CASE horizon'[x] = horizon[x]
        BY <3>1, <4>1, <4>2, <4>3
      <4>4. CASE horizon[x] = q /\ horizon'[x] = z
        BY <1>10, <3>1, <4>1, <4>2, <4>4
      <4>5. horizon'[x] = horizon[x] \/ (horizon[x] = q /\ horizon'[x] = z)
        <5>1. CASE x = q
          BY <1>6, <1>12, <5>1
        <5>2. CASE x \in M
          BY <1>6, <1>12, <5>2
        <5> QED
          BY <3>1, <5>1, <5>2
      <4> QED
        BY <4>3, <4>4, <4>5
    <3> QED
      BY <1>3, <1>11, <2>4, <3>1, <3>2, <3>3 DEF Walking
  <2> QED
    BY <2>3, <2>4
<1> QED
  BY <1>15, <1>16, <1>17, <1>18 DEF SInv

\* A further frame is made to begin with the successor of the QH.
LEMMA UnlinkFrame ==
  ASSUME SInv, UnlinkPeriod, op.index # 0
  PROVE  SInv'
<1> DEFINE L == Listed
           q == op.q
           i == op.index
           z == nextQh[op.q]
<1>1. ScheduleTypeOK /\ OneOperation /\ Mirrored /\ Async
  BY DEF SInv
<1>2. PICK r : ScheduleLists(r) /\ Walking(r)
  BY DEF SInv
<1>3. /\ op.pc = "unlink" /\ q \in Qhs /\ i \in Frames
      /\ UNCHANGED <<interval, iaad, iaa, timeouts, async>>
      /\ UnlinkGoesOn
      /\ \A j \in Frames : Ahead(j) /\ j # i => op'.pc = "unlink" /\ Ahead(j)'
      /\ walker' \in [frame : Frames, at : Nodes \cup {Null}, due : SUBSET Qhs, stale : BOOLEAN]
      /\ walker'.frame = walker.frame /\ walker'.at = walker.at /\ walker'.due = walker.due
      /\ ~walker'.stale => ~walker.stale /\ (op'.pc = "unlink" \/ walker.at # q)
  BY UnlinkLoop
<1>4. /\ L \in SUBSET Nodes /\ q \in Nodes /\ Null \notin Nodes /\ PeriodOne \notin Qhs
      /\ nextQh \in [Nodes -> Nodes \cup {Null}] /\ horizon \in [Nodes -> Nodes \cup {Null}]
      /\ frame \in [Frames -> Nodes]
  BY <1>1, <1>3, NodeFacts DEF ScheduleTypeOK
<1>5. Chain(L, nextQh, r) /\ Sorted(L, r) /\ Linking(L, r) /\ \A j \in Frames : FrameOk(L, r, j)
  BY <1>2 DEF ScheduleLists
<1>6. frameHw = frame /\ horizon[q] = z
  BY <1>1, <1>3 DEF Mirrored
<1>7. q \notin L
  BY <1>1, <1>3, <1>4 DEF Listed, Hooked, OneOperation
<1>8. Listed' = L
  BY <1>3, <1>7 DEF UnlinkGoesOn
<1>9. /\ UNCHANGED <<nextQh, horizon>> /\ frameHw' = frame' /\ frame' \in [Frames -> Nodes]
      /\ Top(L, r, i, frame'[i])
      /\ \A j \in Frames : j # i => frame'[j] = frame[j]
  <2>1. CASE Top(L, r, i, frame[i])
    <3>1. \A x \in L : On(nextQh, x) = {y \in L : r[y] <= r[x]}
      BY <1>4, <1>5, WalkOfChain
    <3>2. q \notin On(nextQh, frame[i])
      BY <1>7, <2>1, <3>1 DEF Top
    <3>3. UNCHANGED <<frame, frameHw, nextQh, horizon>>
      BY <3>2 DEF UnlinkPeriod, lists
    <3> QED
      BY <1>4, <1>6, <2>1, <3>3
  <2>2. CASE frame[i] = q /\ Top(L, r, i, z)
    <3>1. On(nextQh, q) = {q} \cup (IF nextQh[q] = Null THEN {} ELSE On(nextQh, nextQh[q]))
      BY <1>4, WalkGoesOn
    <3>2. q \in On(nextQh, frame[i]) /\ Before(i, q) = Null
      BY <2>2, <3>1 DEF Before
    <3>3. /\ frame' = [frame EXCEPT ![i] = z] /\ frameHw' = [frameHw EXCEPT ![i] = z]
          /\ UNCHANGED <<nextQh, horizon>>
      BY <1>6, <3>2 DEF UnlinkPeriod, Store
    <3>4. z \in Nodes
      BY <1>4, <2>2 DEF Top
    <3> QED
      BY <1>3, <1>4, <1>6, <2>2, <3>3, <3>4
  <2> QED
    BY <1>3, <1>5, <2>1, <2>2 DEF FrameOk
<1>10. ScheduleTypeOK' /\ OneOperation'
  BY <1>1, <1>3, <1>9 DEF ScheduleTypeOK, UnlinkGoesOn
<1>11. Mirrored' /\ Async'
  <2>1. /\ op'.pc \in {"link", "hook", "poll", "unlink"} => op'.q = q
        /\ op'.pc \in {"unlink", "free", "idle"}
    BY <1>3 DEF UnlinkGoesOn
  <2>2. Mirrored'
    BY <1>1, <1>6, <1>8, <1>9, <2>1 DEF Mirrored
  <2> QED
    BY <1>1, <1>3, <1>9, <2>1, <2>2 DEF Async
<1>12. ScheduleLists(r)'
  <2>1. Chain(Listed, nextQh, r)' /\ Sorted(Listed, r)'
    BY <1>3, <1>5, <1>8, <1>9 DEF Chain, Sorted
  <2>2. ASSUME NEW j \in Frames PROVE FrameOk(Listed, r, j)'
    <3>1. CASE Top(L, r, j, frame'[j])
      BY <1>3, <1>8, <3>1 DEF FrameOk, Top
    <3>2. CASE j # i /\ Ahead(j) /\ frame[j] = q /\ Top(L, r, j, z)
      <4>1. op'.pc = "unlink" /\ Ahead(j)' /\ op'.q = q /\ op'.index # 0
        BY <1>3, <3>2 DEF UnlinkGoesOn
      <4>2. frame'[j] = q /\ nextQh'[q] = z
        BY <1>9, <3>2
      <4> QED
        BY <1>3, <1>8, <3>2, <4>1, <4>2 DEF FrameOk, Top
    <3>3. Top(L, r, j, frame[j]) \/ (Ahead(j) /\ frame[j] = q /\ Top(L, r, j, z))
      BY <1>3, <1>5 DEF FrameOk
    <3> QED
      BY <1>9, <3>1, <3>2, <3>3
  <2>3. Linking(Listed, r)'
    BY <1>3, <1>5, <1>8, <1>9 DEF Linking, UnlinkGoesOn
  <2> QED
    BY <2>1, <2>2, <2>3 DEF ScheduleLists
<1>13. Walking(r)'
  <2>1. \A d \in walker.due : use[d] = "period" => use'[d] = "period"
    BY <1>1, <1>3 DEF UnlinkGoesOn, ScheduleTypeOK
  <2>2. op'.pc = "unlink" => op'.q = q
    BY <1>3 DEF UnlinkGoesOn
  <2> QED
    BY <1>2, <1>3, <1>8, <1>9, <2>1, <2>2 DEF Walking
<1> QED
  BY <1>10, <1>11, <1>12, <1>13 DEF SInv

-----------------------------------------------------------------------------
(* What the invariant says.                                                *)

\* The lists are reached from the frames, by the driver and the controller.
LEMMA SInvLists ==
  ASSUME SInv
  PROVE  ListsSorted /\ LinkedStayReachable /\ SameMetInFrameZero
<1> DEFINE L == Listed
           q == op.q
<1>1. ScheduleTypeOK /\ OneOperation /\ Mirrored
  BY DEF SInv
<1>2. PICK r : ScheduleLists(r)
  BY DEF SInv
<1>3. /\ L \in SUBSET Nodes /\ PeriodOne \in L /\ Null \notin Nodes /\ Qhs \subseteq Nodes
      /\ nextQh \in [Nodes -> Nodes \cup {Null}] /\ horizon \in [Nodes -> Nodes \cup {Null}]
      /\ \A x \in Nodes : interval[x] \in Nat \ {0}
      /\ \A i \in Frames : i \in Nat /\ frame[i] \in Nodes /\ i % 1 = 0
      /\ PeriodOne \notin Qhs /\ 0 \in Frames
  BY <1>1, NodeFacts
<1>4. Chain(L, nextQh, r) /\ Sorted(L, r) /\ \A i \in Frames : FrameOk(L, r, i)
  BY <1>2 DEF ScheduleLists
<1>5. /\ \A x \in L : horizon[x] = nextQh[x]
      /\ frameHw = frame
  BY <1>1 DEF Mirrored
<1>6. Chain(L, horizon, r)
  BY <1>4, <1>5 DEF Chain
<1>7. ListsSorted
  <2>1. SUFFICES ASSUME op.pc \notin {"link", "hook", "poll", "unlink"}, NEW i \in Frames
                 PROVE  /\ On(nextQh, frame[i]) = PeriodQhs(i) \cup {PeriodOne}
                        /\ \A n \in On(nextQh, frame[i]) :
                             /\ nextQh[n] # Null => interval[nextQh[n]] <= interval[n]
                             /\ horizon[n] = nextQh[n]
    BY <1>5 DEF ListsSorted
  <2>2. Top(L, r, i, frame[i])
    BY <1>4, <2>1 DEF FrameOk
  <2>3. On(nextQh, frame[i]) = {y \in L : i % interval[y] = 0}
    BY <1>1, <1>3, <1>4, <2>2, ListOfFrame
  <2>4. L = {PeriodOne} \cup {y \in Qhs : use[y] = "period"}
    BY <2>1 DEF Listed, Hooked
  <2>5. i % interval[PeriodOne] = 0
    BY <1>1, <1>3 DEF OneOperation
  <2>6. {y \in L : i % interval[y] = 0} = PeriodQhs(i) \cup {PeriodOne}
    BY <2>4, <2>5 DEF PeriodQhs
  <2>7. \A n \in L : nextQh[n] # Null => interval[nextQh[n]] <= interval[n]
    <3>1. \A n \in L : nextQh[n] # Null => nextQh[n] \in L /\ r[nextQh[n]] < r[n]
      BY <1>4 DEF Chain
    <3>2. \A n \in L : r[n] \in Nat
      BY <1>3, <1>4 DEF Chain
    <3>3. \A n \in L : nextQh[n] # Null => nextQh[n] \in L /\ r[nextQh[n]] <= r[n]
      BY <3>1, <3>2
    <3> QED
      BY <1>4, <3>3 DEF Sorted
  <2> QED
    BY <1>5, <2>3, <2>6, <2>7
<1>8. LinkedStayReachable
  <2>1. SUFFICES ASSUME NEW i \in Frames, NEW y \in PeriodQhs(i)
                 PROVE  y \in On(horizon, frame[i])
    BY <1>5 DEF LinkedStayReachable
  <2>2. y \in L /\ i % interval[y] = 0 /\ use[y] = "period"
    BY DEF Listed, PeriodQhs
  <2>3. CASE Top(L, r, i, frame[i])
    <3>1. On(horizon, frame[i]) = {z \in L : i % interval[z] = 0}
      BY <1>1, <1>3, <1>4, <1>6, <2>3, ListOfFrame
    <3> QED
      BY <2>2, <3>1
  <2>4. CASE op.pc \in {"link", "hook"} /\ Top(L, r, i, q) /\ frame[i] = nextQh[q]
    <3>1. y # q
      BY <1>1, <2>2, <2>4 DEF OneOperation
    <3>2. On(horizon, q) = {z \in L : i % interval[z] = 0}
      BY <1>1, <1>3, <1>4, <1>6, <2>4, ListOfFrame
    <3>3. On(horizon, q) = {q} \cup (IF horizon[q] = Null THEN {} ELSE On(horizon, horizon[q]))
      <4>1. q \in Nodes
        BY <1>3, <2>4 DEF Top
      <4> QED
        BY <1>3, <4>1, WalkGoesOn
    <3>4. horizon[q] = frame[i] /\ frame[i] # Null
      BY <1>3, <1>5, <2>4 DEF Top
    <3> QED
      BY <2>2, <3>1, <3>2, <3>3, <3>4
  <2>5. CASE op.pc = "unlink" /\ frame[i] = q /\ Top(L, r, i, nextQh[q])
    <3>1. horizon[q] = nextQh[q]
      BY <1>1, <2>5 DEF Mirrored
    <3>2. On(horizon, horizon[q]) = {z \in L : i % interval[z] = 0}
      BY <1>1, <1>3, <1>4, <1>6, <2>5, <3>1, ListOfFrame
    <3>3. horizon[q] # Null
      BY <1>3, <2>5, <3>1 DEF Top
    <3>4. On(horizon, q) = {q} \cup On(horizon, horizon[q])
      <4>1. q \in Nodes
        BY <1>3, <2>5
      <4>2. On(horizon, q) = {q} \cup (IF horizon[q] = Null THEN {} ELSE On(horizon, horizon[q]))
        BY <1>3, <4>1, WalkGoesOn
      <4> QED
        BY <3>3, <4>2
    <3> QED
      BY <2>2, <2>5, <3>2, <3>4
  <2> QED
    BY <1>4, <2>3, <2>4, <2>5 DEF FrameOk
<1>9. SameMetInFrameZero
  <2>1. SUFFICES ASSUME op.pc = "link", NotLonger(op.index, q) # q, SameInterval(op.index, q)
                 PROVE  op.index = 0 /\ nextQh[q] = Null
    BY DEF SameMetInFrameZero
  <2>2. Linking(L, r)
    BY <1>2 DEF ScheduleLists
  <2>3. CASE op.index = 0
    BY <2>1, <2>2, <2>3 DEF Linking
  <2>4. CASE op.index # 0
    <3> DEFINE i == op.index
    <3>1. i \in Frames /\ q \in Qhs
      BY <1>1, <2>1 DEF ScheduleTypeOK, OneOperation
    <3>2. q \in L
      BY <2>1, <2>4, <3>1 DEF Listed, Hooked
    <3>3. \A x \in L : interval[x] = interval[q] => x = q
      BY <2>1, <2>2, <2>4 DEF Linking
    <3>4. \E m \in L : NotLonger(i, q) = m
      BY <1>1, <1>2, <2>1, <2>4, LinkMeets
    <3> QED
      BY <2>1, <3>3, <3>4 DEF SameInterval
  <2> QED
    BY <2>3, <2>4
<1> QED
  BY <1>7, <1>8, <1>9

\* The controller is where the driver left something for it.
LEMMA SInvController ==
  ASSUME SInv
  PROVE  PolledWhenDue /\ NoFreedQh
<1>1. ScheduleTypeOK /\ OneOperation /\ Async
  BY DEF SInv
<1>2. PICK r : Walking(r)
  BY DEF SInv
<1>3. Null \notin Qhs /\ PeriodOne \notin Qhs /\ ReclaimHead \notin Qhs
  BY <1>1, NodeFacts
<1>4. EachIsPolled
  BY <1>2 DEF Walking, EachIsPolled
<1>5. PolledInTurn
  BY <1>2, <1>3 DEF Walking, PolledInTurn
<1>6. timeouts = 0 /\ async \in Qhs => use[async] = "held"
  BY <1>1, <1>3 DEF Async, OneOperation
<1>7. ASSUME ~walker.stale, walker.at \in Qhs PROVE use[walker.at] # "free"
  <2>1. walker.at \in Listed \/ (op.pc = "unlink" /\ walker.at = op.q)
    BY <1>2, <1>3, <1>7 DEF Walking
  <2>2. CASE walker.at \in Listed
    <3>1. use[walker.at] = "period" \/ (walker.at = op.q /\ Hooked)
      BY <1>3, <1>7, <2>2 DEF Listed
    <3> QED
      BY <1>1, <3>1 DEF OneOperation, Hooked
  <2> QED
    BY <1>1, <2>1, <2>2 DEF OneOperation
<1> QED
  BY <1>4, <1>5, <1>6, <1>7 DEF PolledWhenDue, NoFreedQh

(* Initially the chain is the dummy alone, and nothing runs.               *)
LEMMA SInvInit == ScheduleInit => SInv
<1> SUFFICES ASSUME ScheduleInit PROVE SInv
  OBVIOUS
<1> USE ScheduleAssumption DEF ScheduleInit
<1>1. /\ Null \notin Nodes /\ PeriodOne \in Nodes /\ ReclaimHead \in Nodes /\ PeriodOne # ReclaimHead
      /\ Qhs \subseteq Nodes /\ 0 \in Frames /\ Null \notin Qhs
      /\ \A i \in Frames : i \in Nat /\ i % 1 = 0
  BY DEF Nodes, Frames
<1>2. /\ op.pc = "idle" /\ op.q = Null /\ op.index = 0 /\ op.sync = FALSE
      /\ walker.at = Null /\ walker.due = {} /\ walker.frame = 0 /\ walker.stale = FALSE
  BY DEF Idle
<1>3. ScheduleTypeOK
  <2>1. op \in [pc : OpSteps, q : Qhs \cup {Null}, sync : BOOLEAN, index : Frames]
    BY <1>1 DEF Idle, OpSteps
  <2>2. walker \in [frame : Frames, at : Nodes \cup {Null}, due : SUBSET Qhs, stale : BOOLEAN]
    BY <1>1
  <2>3. nextQh \in [Nodes -> Nodes \cup {Null}]
    BY <1>1
  <2>4. use \in [Qhs -> {"free", "held", "period", "lost"}] /\ interval \in [Nodes -> Intervals \cup {1}]
    OBVIOUS
  <2>5. frame \in [Frames -> Nodes] /\ frameHw \in [Frames -> Nodes]
    BY <1>1
  <2>6. horizon = nextQh /\ async \in Nodes
    BY <1>1
  <2>7. iaad \in BOOLEAN /\ iaa \in BOOLEAN
    OBVIOUS
  <2>8. timeouts \in 0 .. MaxTimeouts
    OBVIOUS
  <2> HIDE DEF ScheduleInit
  <2> QED
    BY <2>1, <2>2, <2>3, <2>4, <2>5, <2>6, <2>7, <2>8 DEF ScheduleTypeOK
<1>4. Listed = {PeriodOne}
  BY <1>1, <1>2 DEF Listed, Hooked
<1>5. OneOperation
  BY <1>1, <1>2 DEF OneOperation
<1>6. nextQh[PeriodOne] = Null /\ nextQh[ReclaimHead] = ReclaimHead
  BY <1>1
<1>7. Mirrored
  BY <1>2, <1>4 DEF Mirrored
<1>8. Async
  BY <1>2, <1>6 DEF Async
<1>9. PICK r : r = [x \in Nodes |-> 0]
  OBVIOUS
<1>10. Chain(Listed, nextQh, r)
  BY <1>1, <1>4, <1>6, <1>9 DEF Chain
<1>11. Sorted(Listed, r)
  BY <1>1, <1>4, <1>9 DEF Sorted
<1>12. \A i \in Frames : FrameOk(Listed, r, i)
  BY <1>1, <1>4, <1>9 DEF FrameOk, Top
<1>13. Linking(Listed, r) /\ Walking(r)
  BY <1>2 DEF Linking, Walking
<1> QED
  BY <1>3, <1>5, <1>7, <1>8, <1>10, <1>11, <1>12, <1>13 DEF SInv, ScheduleLists

(* Every step of the driver or of the controller keeps the invariant.      *)
LEMMA SInvNext == SInv /\ [ScheduleNext]_scheduleVars => SInv'
<1> SUFFICES ASSUME SInv, [ScheduleNext]_scheduleVars PROVE SInv'
  OBVIOUS
<1>1. CASE ControllerSteps \/ UNCHANGED scheduleVars
  BY <1>1, ControllerKeeps
<1>2. CASE Free
  BY <1>2, FreeKeeps
<1>3. CASE LinkPeriod
  BY <1>3, LinkKeeps
<1>4. CASE HookPeriod
  BY <1>4, HookInserts, HookFrame
<1>5. CASE SyncInterruptEnds
  BY <1>5, SyncEndsKeeps
<1>6. CASE UnlinkPeriod
  BY <1>6, UnlinkRemoves, UnlinkFrame
<1>7. CASE AppendAsync \/ HookAsync \/ LoopBack \/ SetDoorBell \/ WaitDoorBell
  BY <1>7, AsyncKeeps
<1>8. ASSUME NEW q \in Qhs, NEW n \in Intervals, AsyncInterruptTransfer(q, n)
      PROVE  SInv'
  <2>1. Create(q, n, [pc |-> "link", q |-> q, sync |-> FALSE, index |-> 0])
    BY <1>8 DEF AsyncInterruptTransfer
  <2> QED
    BY <2>1, CreateKeeps
<1>9. ASSUME NEW q \in Qhs, SyncInterruptTransfer(q)
      PROVE  SInv'
  <2>1. Create(q, 1, [pc |-> "link", q |-> q, sync |-> TRUE, index |-> 0])
    BY <1>9 DEF SyncInterruptTransfer
  <2> QED
    BY <2>1, CreateKeeps
<1>10. ASSUME NEW q \in Qhs, AsyncTransfer(q)
       PROVE  SInv'
  <2>1. Create(q, 1, [pc |-> "append", q |-> q, sync |-> TRUE, index |-> 0])
    BY <1>10 DEF AsyncTransfer
  <2> QED
    BY <2>1, CreateKeeps
<1>11. ASSUME NEW q \in Qhs, DeleteAsync(q)
       PROVE  SInv'
  BY <1>11, DeleteKeeps
<1> QED
  BY <1>1, <1>2, <1>3, <1>4, <1>5, <1>6, <1>7, <1>8, <1>9, <1>10, <1>11
     DEF ScheduleNext, Goes

(* The inductive invariant holds at every moment.                          *)
LEMMA SInvHolds == ScheduleSpec => []SInv
BY SInvInit, SInvNext, PTL DEF ScheduleSpec

(* EhcLinkQhToPeriod and EhcUnlinkQhFromPeriod keep the discipline of the  *)
(* periodic lists, however many frames there are and whichever powers of   *)
(* two the intervals: between two operations each frame's list holds just  *)
(* the QHs due in it, by decreasing interval, for driver and controller    *)
(* alike; in the middle of an operation no other QH gets out of reach; and *)
(* the ASSERT of EhcLinkQhToPeriod (a QH of the same interval is met only  *)
(* in frame 0) never fails.                                                *)
THEOREM ListsAreInOrder == ScheduleSpec => []ScheduleInv
<1>1. SInv => ScheduleInv
  BY SInvLists DEF ScheduleInv, SInv
<1> QED
  BY <1>1, SInvHolds, PTL

(* Whatever the driver links and unlinks while the controller is in the    *)
(* middle of a list, the controller visits in every frame all the QHs that *)
(* are due in it, and none that is not (EhcLinkQhToPeriod stores the links *)
(* of a new QH before it hooks it in).                                     *)
THEOREM AlwaysPolledWhenDue == ScheduleSpec => []PolledWhenDue
<1>1. SInv => PolledWhenDue
  BY SInvController
<1> QED
  BY <1>1, SInvHolds, PTL

(* A QH is freed only after the controller has left it: the doorbell of    *)
(* EhcUnlinkQhFromAsync sees to it in the asynchronous schedule, as long   *)
(* as none times out, and the unlinking from all the frames in the         *)
(* periodic one.                                                           *)
THEOREM NeverUponFreedQh == ScheduleSpec => []NoFreedQh
<1>1. SInv => NoFreedQh
  BY SInvController
<1> QED
  BY <1>1, SInvHolds, PTL
=============================================================================
