------------------------- MODULE XhciTransferProofs -------------------------
(***************************************************************************)
(* Proofs about XhciTransfer, for any URBs, endpoints, sizes of the rings  *)
(* and of the event ring: the list of the asynchronous transfers is intact *)
(* at every step, what is left of the monitor's round is in it, a listed   *)
(* transfer is never forgotten, a success is real, and a transfer that has *)
(* returned left nothing behind.                                           *)
(***************************************************************************)
EXTENDS XhciTransfer, FiniteSetTheorems, WellFoundedInduction, SequenceTheorems, TLAPS

-----------------------------------------------------------------------------
(* The inductive invariant.                                                *)

Jobs   == [op : {"transfer", "stop", "reset", "deq"}, ep : Eps \cup {None}, skip : SUBSET Nat]
Trbs   == [id : Nat, job : Jobs]
Events == [ring : Rings, id : Nat, code : {"ok", "stall", "error"}]

(* The type invariant, with the elements of the rings.                     *)
Typed ==
  /\ TypeOK
  /\ ring \in [Rings -> Seq(Trbs)] /\ acked \in [Rings -> SUBSET Nat]
  /\ events \in Seq(Events)
  /\ \A r \in Rings : \A i \in 1 .. Len(ring[r]) : ring[r][i].id \in TrbIds(r)

(* Who waits for what: the caller of a synchronous transfer for cur or for *)
(* the command chk, the monitor for the URB that it visits.                *)
CurIsBusy ==
  /\ cb \in {"none", "error"} /\ (mUrb = None <=> cb = "none") /\ pc \in {"wait", "check"}
  /\ heap[cur].live /\ heap[cur].kind = "sync" /\ heap[cur].ring \in SyncEps
  /\ chk \in Urbs /\ heap[chk].live
  /\ recovery = "none" => chk = cur
  /\ recovery # "none" => chk # cur /\ heap[chk].kind = "cmd" /\ heap[chk].ring = Cmd
Control ==
  /\ cur # None => CurIsBusy
  /\ cur = None => recovery = "none" /\ pc # "wait"
  /\ cur = None /\ pc = "user" => chk = None /\ (mUrb = None <=> cb = "none")
  /\ cur = None /\ pc # "user" => mUrb # None /\ chk = mUrb /\ cb = "none"
  /\ mUrb = None <=> mNext = None

(* The links f lead from l through s to the head of the list, to no URB    *)
(* twice.                                                                  *)
Chain(f, l, s) ==
  /\ s \in Seq(Urbs)
  /\ l = IF Len(s) = 0 THEN ListHead ELSE s[1]
  /\ \A i \in 1 .. Len(s) : f[s[i]] = IF i < Len(s) THEN s[i + 1] ELSE ListHead
  /\ \A i, j \in 1 .. Len(s) : s[i] = s[j] => i = j

(* The list s has the live URBs that no one waits for, one for an endpoint. *)
IsListed(h, u) == h[u].live /\ h[u].kind = "async" /\ h[u].ring \in IntEps /\ Len(h[u].trbs) = 1
ListOf(s) ==
  /\ Chain(link, link[ListHead], s)
  /\ \A i \in 1 .. Len(s) : IsListed(heap, s[i])
  /\ \A i, j \in 1 .. Len(s) : heap[s[i]].ring = heap[s[j]].ring => i = j
  /\ \A u \in Urbs : heap[u].live => \/ cur # None /\ u \in {cur, chk}
                                     \/ \E i \in 1 .. Len(s) : u = s[i]
ListInv == ListOf(List)

(* The rest of the round begins at the k-th URB of the list.               *)
RestIs(s, k) ==
  /\ k \in 1 .. Len(s) + 1
  /\ mNext = IF k <= Len(s) THEN s[k] ELSE ListHead
  /\ \A j \in k .. Len(s) : heap[s[j]].ring # heap[mUrb].ring
RoundInv ==
  mUrb # None =>
    /\ \E k \in 1 .. Len(List) + 1 : RestIs(List, k)
    /\ heap[mUrb].ring \in IntEps
    /\ cb \in {"none", "ok", "error"} => heap[mUrb].live
    /\ cb = "ok" => heap[mUrb].result = {}
    /\ cb = "error" \/ ~heap[mUrb].live => heap[mUrb].result # {}

(* The TRBs on a ring are distinct and none of them is completed; what an  *)
(* event reports is.                                                       *)
TrbInv ==
  /\ \A r \in Rings : \A i, j \in 1 .. Len(ring[r]) : ring[r][i].id = ring[r][j].id => i = j
  /\ \A r \in Rings : \A i \in 1 .. Len(ring[r]) : ring[r][i].id \notin acked[r]
  /\ \A i \in 1 .. Len(events) : events[i].code = "ok" => events[i].id \in acked[events[i].ring]

(* The TRBs of a URB complete in their order, and it says so of the first  *)
(* and of the last one.                                                    *)
Ordered(t, q, done) ==
  /\ \A i, j \in 1 .. Len(t) : i < j /\ t[j] \in done => t[i] \in done
  /\ \A i, j \in 1 .. Len(t), p \in 1 .. Len(q) :
       i < j /\ q[p].id = t[j] => t[i] \in done \/ \E b \in 1 .. Len(q) : b < p /\ q[b].id = t[i]
InOrder(u) == Ordered(heap[u].trbs, ring[heap[u].ring], acked[heap[u].ring])
Progressed(u) ==
  LET t == heap[u].trbs
      r == heap[u].ring
  IN  /\ Len(t) > 0
      /\ heap[u].startDone => t[1] \in acked[r]
      /\ heap[u].endDone => t[Len(t)] \in acked[r]
      /\ heap[u].finished /\ heap[u].result = {} => heap[u].startDone /\ heap[u].endDone
      /\ r = Cmd => Len(t) = 1
UrbsInv == \A u \in Urbs : heap[u].live => InOrder(u) /\ Progressed(u)

(* Set TR Dequeue Pointer is alone on the command ring when it is sent; as *)
(* long as the endpoint is stopped it skips all that is on its ring.       *)
CommandIs(trb, i) ==
  /\ trb.job.op \in {"stop", "reset", "deq"} /\ trb.job.ep \in SyncEps
  /\ trb.job.op # "deq" => trb.job.skip = {}
  /\ trb.job.op = "deq" =>
       /\ i = 1
       /\ state[trb.job.ep] = "stopped" =>
            \A j \in 1 .. Len(ring[trb.job.ep]) : ring[trb.job.ep][j].id \in trb.job.skip
CommandsInv == \A i \in 1 .. Len(ring[Cmd]) : CommandIs(ring[Cmd][i], i)

(* No event of the endpoint is posted from the i-th on.                    *)
QuietFrom(ep, i) == \A j \in i .. Len(events) : events[j].ring # ep

(* The command that a recovery waits for is the last one on its ring.      *)
RecoveryInv ==
  recovery # "none" =>
    LET ep == heap[cur].ring
        id == heap[chk].trbs[1]
        n  == Len(ring[Cmd])
    IN  /\ n > 0 => ring[Cmd][n].id = id /\ ring[Cmd][n].job.op = recovery /\ ring[Cmd][n].job.ep = ep
        /\ recovery # "deq" =>
             /\ id \in acked[Cmd] => state[ep] = "stopped"
             /\ heap[chk].endDone => QuietFrom(ep, 1)
             /\ \A i \in 1 .. Len(events) :
                  events[i].ring = Cmd /\ events[i].id = id /\ events[i].code = "ok" => QuietFrom(ep, i)
        /\ recovery = "deq" =>
             /\ state[ep] = "stopped" /\ QuietFrom(ep, 1)
             /\ id \in acked[Cmd] => ring[ep] = <<>>

(* An endpoint that was not abandoned is empty without a transfer, and has *)
(* only that transfer with it.                                             *)
IdleInv ==
  \A ep \in SyncEps \ abandoned :
    cur = None \/ heap[cur].ring # ep => ring[ep] = <<>> /\ QuietFrom(ep, 1)
BusyInv ==
  cur # None /\ heap[cur].ring \notin abandoned =>
    LET ep == heap[cur].ring
        t  == heap[cur].trbs
    IN  /\ \A i \in 1 .. Len(ring[ep]) : ring[ep][i].id \in Range(t)
        /\ recovery = "none" =>
             /\ heap[cur].endDone => QuietFrom(ep, 1)
             /\ \A i \in 1 .. Len(events) :
                  events[i].ring = ep /\ events[i].id = t[Len(t)] /\ events[i].code = "ok"
                    => QuietFrom(ep, i + 1)

Inv == /\ Typed /\ Control /\ ListInv /\ RoundInv /\ AsyncArmed
       /\ TrbInv /\ UrbsInv /\ CommandsInv /\ RecoveryInv /\ IdleInv /\ BusyInv

-----------------------------------------------------------------------------
(* Numbers and sequences.                                                  *)

(* A set of natural numbers has a least one.                               *)
LEMMA LeastNat ==
  ASSUME NEW T, T \subseteq Nat, T # {}
  PROVE  \E x \in T : \A y \in T : x <= y
<1>1. \E R : IsWellFoundedOn(R, Nat) /\ \A m, k \in Nat : m < k => <<m, k>> \in R
  <2>1. \A m, k \in Nat : m < k => <<m, k>> \in OpToRel(<, Nat)
    BY DEF OpToRel
  <2> QED
    BY <2>1, NatLessThanWellFounded, Zenon
<1>2. PICK R : IsWellFoundedOn(R, Nat) /\ \A m, k \in Nat : m < k => <<m, k>> \in R
  BY <1>1
<1>3. PICK x \in T : \A y \in T : ~(<<y, x>> \in R)
  <2>1. IsWellFoundedOn(R, Nat)
    BY <1>2
  <2> QED
    BY <2>1, WFMin, Zenon
<1>4. \A y \in T : ~(y < x)
  BY <1>2, <1>3
<1>5. \A y \in T : x <= y
  <2>1. \A m, k \in Nat : ~(m < k) => k <= m
    OBVIOUS
  <2> QED
    BY <1>4, <2>1
<1> QED
  BY <1>5

(* A set of positions in a sequence has a first and a last one.            *)
LEMMA Extremes ==
  ASSUME NEW n \in Nat, NEW at, at \subseteq 1 .. n, at # {}
  PROVE  /\ Min(at) \in at /\ \A i \in at : Min(at) <= i
         /\ Max(at) \in at /\ \A i \in at : i <= Max(at)
<1>1. \E x \in at : \A y \in at : x <= y
  <2>1. at \subseteq Nat
    OBVIOUS
  <2> QED
    BY <2>1, LeastNat
<1>2. \E x \in at : \A y \in at : x >= y
  <2> DEFINE T == {m \in Nat : \A y \in at : y <= m}
  <2>1. n \in T
    OBVIOUS
  <2>2. PICK m \in T : \A k \in T : m <= k
    <3>1. T \subseteq Nat /\ T # {}
      BY <2>1
    <3> HIDE DEF T
    <3> QED
      BY <3>1, LeastNat
  <2>3. m \in Nat /\ \A y \in at : y <= m
    BY <2>2
  <2>4. m \in at
    <3>1. SUFFICES ASSUME m \notin at PROVE FALSE
      OBVIOUS
    <3>2. m # 0
      <4>1. PICK y : y \in at
        OBVIOUS
      <4>2. y \in 1 .. n /\ y <= m
        BY <2>3, <4>1
      <4> QED
        BY <4>2
    <3>3. m - 1 \in Nat /\ \A y \in at : y <= m - 1
      <4>1. \A y \in at : y \in Nat /\ y <= m /\ y # m
        BY <2>3, <3>1
      <4> QED
        BY <2>3, <3>2, <4>1
    <3>4. m - 1 \in T
      BY <3>3
    <3> QED
      BY <2>2, <2>3, <3>4
  <2>5. \A y \in at : m >= y
    BY <2>3
  <2> QED
    BY <2>4, <2>5
<1> QED
  BY <1>1, <1>2 DEF Min, Max

(* Two sequences one after the other                                       *)
LEMMA Joined ==
  ASSUME NEW S, NEW s \in Seq(S), NEW t \in Seq(S)
  PROVE  /\ s \o t \in Seq(S) /\ Len(s \o t) = Len(s) + Len(t)
         /\ Len(s) \in Nat /\ Len(t) \in Nat
         /\ \A i \in 1 .. Len(s) : (s \o t)[i] = s[i] /\ s[i] \in S
         /\ \A i \in 1 .. Len(t) : (s \o t)[i + Len(s)] = t[i] /\ t[i] \in S
  OBVIOUS

(* A sequence without its first element                                    *)
LEMMA WithoutFirst ==
  ASSUME NEW S, NEW s \in Seq(S), s # <<>>
  PROVE  /\ Tail(s) \in Seq(S) /\ Len(Tail(s)) = Len(s) - 1 /\ Len(s) \in Nat \ {0}
         /\ \A i \in 1 .. Len(s) - 1 : Tail(s)[i] = s[i + 1]
         /\ s[1] \in S
  OBVIOUS

(* A sequence with one more element                                        *)
LEMMA WithLast ==
  ASSUME NEW S, NEW s \in Seq(S), NEW x \in S
  PROVE  /\ Append(s, x) \in Seq(S) /\ Len(Append(s, x)) = Len(s) + 1 /\ Len(s) \in Nat
         /\ \A i \in 1 .. Len(s) : Append(s, x)[i] = s[i]
         /\ Append(s, x)[Len(s) + 1] = x
  OBVIOUS

(* Sequences as functions                                                  *)
LEMMA FunctionIsSeq ==
  ASSUME NEW S, NEW n \in Nat, NEW f \in [1 .. n -> S]
  PROVE  f \in Seq(S) /\ Len(f) = n
  OBVIOUS

(* A sequence is a function on its positions, and its range their values.  *)
LEMMA SeqIsFunction ==
  ASSUME NEW S, NEW s \in Seq(S)
  PROVE  Len(s) \in Nat /\ s \in [1 .. Len(s) -> S] /\ DOMAIN s = 1 .. Len(s) /\ Range(s) = {s[i] : i \in 1 .. Len(s)}
  BY DEF Range

(* A set of numbers that is large enough has them in ascending order.      *)
LEMMA Ascending ==
  ASSUME NEW n \in Nat, NEW S, S \subseteq Nat, IsFiniteSet(S), Cardinality(S) >= n
  PROVE  \E s \in [1 .. n -> S] : \A i, j \in 1 .. n : i < j => s[i] < s[j]
<1> DEFINE Has(m, U) == \E s \in [1 .. m -> U] : \A i, j \in 1 .. m : i < j => s[i] < s[j]
           Large(m, U) == U \subseteq Nat /\ IsFiniteSet(U) /\ Cardinality(U) >= m
           Bad == {m \in Nat : \E U : Large(m, U) /\ ~Has(m, U)}
<1>1. SUFFICES Bad = {}
  BY <1>1
<1>2. SUFFICES ASSUME Bad # {} PROVE FALSE
  OBVIOUS
<1>3. PICK m \in Bad : \A k \in Bad : m <= k
  <2>1. Bad \subseteq Nat
    OBVIOUS
  <2> HIDE DEF Bad
  <2> QED
    BY <1>2, <2>1, LeastNat
<1>4. m \in Nat /\ \E U : Large(m, U) /\ ~Has(m, U)
  BY <1>3
<1>5. PICK U : Large(m, U) /\ ~Has(m, U)
  BY <1>4
<1>6. m # 0
  <2>1. ASSUME m = 0 PROVE Has(m, U)
    <3>1. \A i \in 1 .. 0 : FALSE
      OBVIOUS
    <3>2. [i \in 1 .. 0 |-> i] \in [1 .. 0 -> U]
      BY <3>1
    <3> QED
      BY <2>1, <3>1, <3>2
  <2> QED
    BY <1>5, <2>1
<1>7. U # {}
  BY <1>5, <1>6, <1>4, FS_EmptySet
<1>8. PICK x \in U : \A y \in U : x <= y
  BY <1>5, <1>7, LeastNat
<1>9. Large(m - 1, U \ {x})
  <2>1. IsFiniteSet(U \ {x}) /\ Cardinality(U \ {x}) = Cardinality(U) - 1
    BY <1>5, <1>8, FS_RemoveElement
  <2>2. Cardinality(U) \in Nat
    BY <1>5, FS_CardinalityType
  <2> QED
    BY <1>4, <1>5, <2>1, <2>2
<1>10. Has(m - 1, U \ {x})
  <2>1. m - 1 \in Nat /\ m - 1 \notin Bad
    BY <1>3, <1>4, <1>6
  <2> HIDE DEF Has, Large
  <2> QED
    BY <1>9, <2>1
<1>11. PICK s \in [1 .. m - 1 -> U \ {x}] : \A i, j \in 1 .. m - 1 : i < j => s[i] < s[j]
  BY <1>10
<1> DEFINE t == [i \in 1 .. m |-> IF i = 1 THEN x ELSE s[i - 1]]
<1>12. \A i \in 1 .. m : i # 1 => i - 1 \in 1 .. m - 1 /\ s[i - 1] \in U /\ s[i - 1] # x
  BY <1>4, <1>11
<1>13. t \in [1 .. m -> U]
  BY <1>8, <1>12
<1>14. \A i, j \in 1 .. m : i < j => t[i] < t[j]
  <2>1. SUFFICES ASSUME NEW i \in 1 .. m, NEW j \in 1 .. m, i < j PROVE t[i] < t[j]
    OBVIOUS
  <2>2. j # 1 /\ t[j] = s[j - 1]
    BY <2>1
  <2>3. CASE i = 1
    <3>1. s[j - 1] \in U /\ s[j - 1] # x /\ t[i] = x
      BY <1>12, <2>2, <2>3
    <3>2. x \in Nat /\ s[j - 1] \in Nat /\ x <= s[j - 1]
      BY <1>5, <1>8, <3>1
    <3> QED
      BY <2>2, <3>1, <3>2
  <2>4. CASE i # 1
    <3>1. i - 1 \in 1 .. m - 1 /\ j - 1 \in 1 .. m - 1 /\ i - 1 < j - 1
      BY <1>12, <2>1, <2>2, <2>4
    <3>2. t[i] = s[i - 1]
      BY <2>4
    <3> QED
      BY <1>11, <2>2, <3>1, <3>2
  <2> QED
    BY <2>3, <2>4
<1>15. Has(m, U)
  <2> HIDE DEF t
  <2> QED
    BY <1>13, <1>14
<1> QED
  BY <1>5, <1>15

(* The TRBs that are taken from a ring with room are free and distinct.    *)
LEMMA NewTrbsAre ==
  ASSUME NEW r, Room[r] \in Nat, NEW u, NEW n \in Nat, HasRoom(r, u, n)
  PROVE  LET s == NewTrbs(r, u, n)
         IN  /\ s \in Seq(Nat) /\ Len(s) = n
             /\ \A i \in 1 .. n : s[i] \in TrbIds(r) /\ s[i] \notin InUse(r, u)
             /\ \A i, j \in 1 .. n : s[i] = s[j] => i = j
<1> DEFINE S == TrbIds(r) \ InUse(r, u)
           s == NewTrbs(r, u, n)
<1>1. S \subseteq Nat /\ IsFiniteSet(S) /\ Cardinality(S) >= n
  <2>1. TrbIds(r) \subseteq Nat /\ IsFiniteSet(TrbIds(r))
    <3> DEFINE top == Room[r] - 1
    <3>1. 0 \in Int /\ top \in Int
      OBVIOUS
    <3> HIDE DEF top
    <3>2. IsFiniteSet(0 .. top) /\ 0 .. top \subseteq Nat
      BY <3>1, FS_Interval
    <3> QED
      BY <3>2 DEF TrbIds, top
  <2>2. S \in SUBSET TrbIds(r)
    OBVIOUS
  <2>3. IsFiniteSet(S)
    BY <2>1, <2>2, FS_Subset
  <2> QED
    BY <2>1, <2>3 DEF HasRoom
<1>2. s = CHOOSE f \in [1 .. n -> S] : \A i, j \in 1 .. n : i < j => f[i] < f[j]
  BY DEF NewTrbs
<1> HIDE DEF S, s
<1>3. \E f \in [1 .. n -> S] : \A i, j \in 1 .. n : i < j => f[i] < f[j]
  BY <1>1, Ascending
<1>4. s \in [1 .. n -> S] /\ \A i, j \in 1 .. n : i < j => s[i] < s[j]
  BY <1>2, <1>3
<1>5. \A i \in 1 .. n : s[i] \in S /\ s[i] \in Nat
  BY <1>1, <1>4
<1>6. s \in Seq(Nat) /\ Len(s) = n
  <2>1. s \in [1 .. n -> Nat]
    BY <1>4, <1>5
  <2> QED
    BY <2>1, FunctionIsSeq
<1>7. \A i, j \in 1 .. n : s[i] = s[j] => i = j
  <2>1. \A i, j \in 1 .. n : (i < j => s[i] < s[j]) /\ (j < i => s[j] < s[i]) /\ s[i] \in Nat /\ s[j] \in Nat
    BY <1>4, <1>5
  <2> QED
    BY <2>1
<1> QED
  BY <1>5, <1>6, <1>7 DEF S, s

-----------------------------------------------------------------------------
(* The list.                                                               *)

(* It is what the links lead to.                                           *)
LEMMA FromIs ==
  ASSUME NEW l, NEW s, Chain(link, l, s)
  PROVE  From(l) = s
<1> DEFINE N == Cardinality(Urbs)
           f == [n \in 0 .. N |-> IF n < Len(s) THEN s[n + 1] ELSE ListHead]
           Is(h) == h = [n \in 0 .. N |-> IF n = 0 THEN l
                                          ELSE IF h[n - 1] = ListHead THEN ListHead ELSE link[h[n - 1]]]
           hop == CHOOSE h : Is(h)
           on == {n \in 0 .. N : hop[n] # ListHead}
<1>1. From(l) = [n \in 1 .. Cardinality(on) |-> hop[n - 1]]
  BY Zenon DEF From
<1>2. /\ s \in Seq(Urbs) /\ Len(s) \in Nat /\ ListHead \notin Urbs /\ IsFiniteSet(Urbs)
      /\ \A i \in 1 .. Len(s) : s[i] \in Urbs
  BY TransferAssumption DEF Chain
<1>3. N \in Nat /\ Len(s) <= N
  <2>1. s \in Injection(1 .. Len(s), Urbs)
    BY <1>2, SeqIsFunction DEF Chain, Injection, IsInjective
  <2>2. IsFiniteSet(1 .. Len(s)) /\ Cardinality(1 .. Len(s)) = Len(s)
    BY <1>2, FS_Interval
  <2>3. Cardinality(1 .. Len(s)) <= N
    BY <1>2, <2>1, FS_Injection
  <2>4. N \in Nat
    BY <1>2, FS_CardinalityType
  <2> QED
    BY <2>2, <2>3, <2>4
<1> HIDE DEF N
<1>4. \A n \in 0 .. N : f[n] = IF n = 0 THEN l
                               ELSE IF f[n - 1] = ListHead THEN ListHead ELSE link[f[n - 1]]
  <2>1. SUFFICES ASSUME NEW n \in 0 .. N
                 PROVE  f[n] = IF n = 0 THEN l
                               ELSE IF f[n - 1] = ListHead THEN ListHead ELSE link[f[n - 1]]
    OBVIOUS
  <2>2. CASE n = 0
    BY <1>2, <1>3, <2>2 DEF Chain
  <2>3. CASE n # 0
    <3>1. n - 1 \in 0 .. N /\ n \in Nat
      BY <1>3, <2>3
    <3>2. f[n - 1] = IF n - 1 < Len(s) THEN s[n] ELSE ListHead
      BY <1>3, <3>1
    <3>3. CASE n - 1 < Len(s)
      <4>1. n \in 1 .. Len(s) /\ s[n] \in Urbs /\ s[n] # ListHead
        BY <1>2, <2>3, <3>1, <3>3
      <4>2. link[s[n]] = IF n < Len(s) THEN s[n + 1] ELSE ListHead
        BY <4>1 DEF Chain
      <4> QED
        BY <2>3, <3>2, <3>3, <4>1, <4>2
    <3>4. CASE ~(n - 1 < Len(s))
      <4>1. ~(n < Len(s))
        BY <1>2, <3>1, <3>4
      <4> QED
        BY <2>3, <3>2, <3>4, <4>1
    <3> QED
      BY <3>3, <3>4
  <2> QED
    BY <2>2, <2>3
<1>5. Is(f)
  <2> DEFINE g == [n \in 0 .. N |-> IF n = 0 THEN l
                                    ELSE IF f[n - 1] = ListHead THEN ListHead ELSE link[f[n - 1]]]
  <2>1. \A n \in 0 .. N : f[n] = g[n]
    BY <1>4
  <2>2. f = [n \in 0 .. N |-> f[n]] /\ g = [n \in 0 .. N |-> g[n]]
    OBVIOUS
  <2>3. f = g
    <3> HIDE DEF f, g
    <3> QED
      BY <2>1, <2>2
  <2> QED
    BY <2>3
<1>6. Is(hop)
  <2> HIDE DEF f
  <2> QED
    BY <1>5
<1> HIDE DEF hop
<1>7. \A n \in 0 .. N : hop[n] = IF n = 0 THEN l
                                 ELSE IF hop[n - 1] = ListHead THEN ListHead ELSE link[hop[n - 1]]
  BY <1>6
<1>8. \A n \in 0 .. N : hop[n] = f[n]
  <2> DEFINE Bad == {n \in 0 .. N : hop[n] # f[n]}
  <2> HIDE DEF f
  <2>1. SUFFICES ASSUME Bad # {} PROVE FALSE
    OBVIOUS
  <2>2. PICK m \in Bad : \A k \in Bad : m <= k
    <3>1. Bad \subseteq Nat
      BY <1>3
    <3> HIDE DEF Bad
    <3> QED
      BY <2>1, <3>1, LeastNat
  <2>3. m \in 0 .. N /\ hop[m] # f[m]
    BY <2>2
  <2>4. m # 0
    BY <1>4, <1>7, <2>3
  <2>5. m - 1 \in 0 .. N /\ m - 1 \notin Bad
    BY <1>3, <2>2, <2>3, <2>4
  <2>6. hop[m - 1] = f[m - 1]
    BY <2>5
  <2> QED
    BY <1>4, <1>7, <2>3, <2>4, <2>6
<1>9. \A n \in 0 .. N : hop[n] = IF n < Len(s) THEN s[n + 1] ELSE ListHead
  BY <1>8
<1>10. Cardinality(on) = Len(s)
  <2>1. \A n \in 0 .. N : hop[n] # ListHead <=> n < Len(s)
    <3>1. \A n \in 0 .. N : n < Len(s) => n + 1 \in 1 .. Len(s)
      BY <1>2
    <3>2. \A n \in 0 .. N : n < Len(s) => s[n + 1] \in Urbs
      BY <1>2, <3>1
    <3> QED
      BY <1>2, <1>9, <3>2
  <2>2. on = 0 .. Len(s) - 1
    <3>1. \A n : n \in 0 .. N /\ n < Len(s) <=> n \in 0 .. Len(s) - 1
      BY <1>2, <1>3
    <3> QED
      BY <2>1, <3>1
  <2>3. Cardinality(0 .. Len(s) - 1) = Len(s)
    <3>1. 0 \in Int /\ Len(s) - 1 \in Int
      BY <1>2
    <3>2. Cardinality(0 .. Len(s) - 1) = IF 0 > Len(s) - 1 THEN 0 ELSE Len(s) - 1 - 0 + 1
      BY <3>1, FS_Interval
    <3> QED
      BY <1>2, <3>2
  <2> QED
    BY <2>2, <2>3
<1> HIDE DEF on, f
<1>11. \A n \in 1 .. Len(s) : hop[n - 1] = s[n]
  <2>1. \A n \in 1 .. Len(s) : n - 1 \in 0 .. N /\ n - 1 < Len(s) /\ n - 1 + 1 = n
    BY <1>2, <1>3
  <2> QED
    BY <1>9, <2>1
<1>12. s = [n \in 1 .. Len(s) |-> s[n]]
  BY <1>2, SeqIsFunction
<1> QED
  BY <1>1, <1>10, <1>11, <1>12

(* The first of the list among some URBs is one of them.                   *)
LEMMA FirstIs ==
  ASSUME NEW us, List \in Seq(Urbs)
  PROVE  \/ FirstOf(us) = None /\ \A i \in 1 .. Len(List) : List[i] \notin us
         \/ \E i \in 1 .. Len(List) : FirstOf(us) = List[i] /\ List[i] \in us
<1> DEFINE s == List
           at == {i \in 1 .. Len(s) : s[i] \in us}
<1>1. Len(s) \in Nat /\ FirstOf(us) = IF at = {} THEN None ELSE s[Min(at)]
  BY SeqIsFunction DEF FirstOf
<1> HIDE DEF s
<1>2. CASE at = {}
  BY <1>1, <1>2 DEF s
<1>3. CASE at # {}
  <2>1. Min(at) \in at
    <3>1. at \subseteq 1 .. Len(s)
      OBVIOUS
    <3> HIDE DEF at
    <3> QED
      BY <1>1, <1>3, <3>1, Extremes
  <2> QED
    BY <1>1, <1>3, <2>1 DEF s
<1> QED
  BY <1>2, <1>3

-----------------------------------------------------------------------------
(* New TRBs on a ring.                                                     *)

(* The TRBs t, for the URB u, are used by nothing else on the ring r.      *)
Fresh(r, u, t) ==
  /\ t \in Seq(Nat) /\ Len(t) > 0
  /\ \A i, j \in 1 .. Len(t) : t[i] = t[j] => i = j
  /\ \A i \in 1 .. Len(t) :
       /\ t[i] \in TrbIds(r)
       /\ \A j \in 1 .. Len(ring[r]) : ring[r][j].id # t[i]
       /\ \A j \in 1 .. Len(events) : events[j].ring = r => events[j].id # t[i]
       /\ \A v \in Urbs \ {u} : heap[v].live /\ heap[v].ring = r =>
            \A j \in 1 .. Len(heap[v].trbs) : heap[v].trbs[j] # t[i]

(* They are put behind the others, and are not completed.                  *)
Put(r, t, job) ==
  /\ ring' \in [Rings -> Seq(Trbs)] /\ acked' \in [Rings -> SUBSET Nat]
  /\ \A q \in Rings \ {r} : ring'[q] = ring[q] /\ acked'[q] = acked[q]
  /\ Len(ring'[r]) = Len(ring[r]) + Len(t)
  /\ \A i \in 1 .. Len(ring[r]) : ring'[r][i] = ring[r][i]
  /\ \A i \in 1 .. Len(t) : /\ ring'[r][i + Len(ring[r])].id = t[i]
                            /\ ring'[r][i + Len(ring[r])].job = job
  /\ \A x : x \in acked'[r] <=> x \in acked[r] /\ \A i \in 1 .. Len(t) : t[i] # x

(* PutTrbs with the TRBs that NewTrbs picks puts fresh TRBs on the ring.   *)
LEMMA PutTrbsPuts ==
  ASSUME Typed, NEW r \in Rings, NEW u \in Urbs, NEW n \in Nat \ {0}, NEW job \in Jobs,
         HasRoom(r, u, n), PutTrbs(r, NewTrbs(r, u, n), job), NEW t, t = NewTrbs(r, u, n)
  PROVE  Fresh(r, u, t) /\ Len(t) = n /\ Put(r, t, job)
<1>1. Room[r] \in Nat
  BY TransferAssumption
<1>2. /\ t \in Seq(Nat) /\ Len(t) = n
      /\ \A i \in 1 .. n : t[i] \in TrbIds(r) /\ t[i] \notin InUse(r, u)
      /\ \A i, j \in 1 .. n : t[i] = t[j] => i = j
  BY <1>1, NewTrbsAre
<1>3. ring[r] \in Seq(Trbs) /\ events \in Seq(Events) /\ \A v \in Urbs : heap[v].trbs \in Seq(Nat)
  BY DEF Typed, TypeOK, Urb
<1>4. ASSUME NEW x, x \notin InUse(r, u)
      PROVE  /\ \A j \in 1 .. Len(ring[r]) : ring[r][j].id # x
             /\ \A j \in 1 .. Len(events) : events[j].ring = r => events[j].id # x
             /\ \A v \in Urbs \ {u} : heap[v].live /\ heap[v].ring = r =>
                  \A j \in 1 .. Len(heap[v].trbs) : heap[v].trbs[j] # x
  <2>1. \A j \in DOMAIN ring[r] : ring[r][j].id # x
    BY <1>4, Zenon DEF InUse
  <2>2. \A j \in DOMAIN events : events[j].ring = r => events[j].id # x
    BY <1>4, Zenon DEF InUse
  <2>3. \A v \in Urbs \ {u} : heap[v].live /\ heap[v].ring = r =>
          \A j \in DOMAIN heap[v].trbs : heap[v].trbs[j] # x
    <3>1. SUFFICES ASSUME NEW v \in Urbs \ {u}, heap[v].live, heap[v].ring = r,
                          NEW j \in DOMAIN heap[v].trbs, heap[v].trbs[j] = x
                   PROVE  FALSE
      BY Zenon
    <3>2. x \in Range(heap[v].trbs)
      BY <3>1, Zenon DEF Range
    <3>3. v \in {w \in Urbs \ {u} : heap[w].live /\ heap[w].ring = r}
      BY <3>1
    <3> QED
      BY <1>4, <3>2, <3>3, Zenon DEF InUse
  <2>4. DOMAIN ring[r] = 1 .. Len(ring[r]) /\ DOMAIN events = 1 .. Len(events)
    BY <1>3, SeqIsFunction
  <2>5. \A v \in Urbs : DOMAIN heap[v].trbs = 1 .. Len(heap[v].trbs)
    BY <1>3, SeqIsFunction
  <2> QED
    BY <2>1, <2>2, <2>3, <2>4, <2>5
<1>5. Fresh(r, u, t)
  <2>1. \A i \in 1 .. n : t[i] \notin InUse(r, u)
    BY <1>2
  <2>2. \A i \in 1 .. n :
          /\ \A j \in 1 .. Len(ring[r]) : ring[r][j].id # t[i]
          /\ \A j \in 1 .. Len(events) : events[j].ring = r => events[j].id # t[i]
          /\ \A v \in Urbs \ {u} : heap[v].live /\ heap[v].ring = r =>
               \A j \in 1 .. Len(heap[v].trbs) : heap[v].trbs[j] # t[i]
    BY <1>4, <2>1, Zenon
  <2> QED
    BY <1>2, <2>2 DEF Fresh
<1> DEFINE new == [i \in 1 .. n |-> [id |-> t[i], job |-> job]]
<1>6. new \in Seq(Trbs) /\ Len(new) = n /\ \A i \in 1 .. n : new[i].id = t[i] /\ new[i].job = job
  <2>1. new \in [1 .. n -> Trbs]
    BY <1>2 DEF Trbs
  <2>2. \A i \in 1 .. n : new[i] = [id |-> t[i], job |-> job]
    OBVIOUS
  <2> HIDE DEF new
  <2> QED
    BY <2>1, <2>2, FunctionIsSeq
<1>7. /\ ring' = [ring EXCEPT ![r] = @ \o new]
      /\ acked' = [acked EXCEPT ![r] = @ \ Range(t)]
  <2>1. DOMAIN t = 1 .. n
    BY <1>2, SeqIsFunction
  <2> QED
    BY <2>1 DEF PutTrbs
<1>8. Range(t) = {t[i] : i \in 1 .. n}
  BY <1>2, SeqIsFunction
<1> HIDE DEF new
<1>9. /\ ring[r] \o new \in Seq(Trbs) /\ Len(ring[r] \o new) = Len(ring[r]) + n
      /\ \A i \in 1 .. Len(ring[r]) : (ring[r] \o new)[i] = ring[r][i]
      /\ \A i \in 1 .. n : (ring[r] \o new)[i + Len(ring[r])] = new[i]
  <2> DEFINE old == ring[r]
  <2>1. old \in Seq(Trbs) /\ new \in Seq(Trbs) /\ Len(new) = n
    BY <1>3, <1>6
  <2> HIDE DEF old
  <2>2. /\ old \o new \in Seq(Trbs) /\ Len(old \o new) = Len(old) + Len(new)
        /\ \A i \in 1 .. Len(old) : (old \o new)[i] = old[i] /\ old[i] \in Trbs
        /\ \A i \in 1 .. Len(new) : (old \o new)[i + Len(old)] = new[i] /\ new[i] \in Trbs
    <3>1. old \o new \in Seq(Trbs)
       BY <2>1, Joined
    <3>2. Len(old \o new) = Len(old) + Len(new)
       BY <2>1, Joined
    <3>3. \A i \in 1 .. Len(old) : (old \o new)[i] = old[i] /\ old[i] \in Trbs
       BY <2>1, Joined
    <3>4. \A i \in 1 .. Len(new) : (old \o new)[i + Len(old)] = new[i] /\ new[i] \in Trbs
       BY <2>1, Joined
    <3> QED BY <3>1, <3>2, <3>3, <3>4
  <2> QED
    BY <2>1, <2>2 DEF old
<1>10. ring \in [Rings -> Seq(Trbs)] /\ acked \in [Rings -> SUBSET Nat]
  BY DEF Typed
<1>11. ring' \in [Rings -> Seq(Trbs)] /\ ring'[r] = ring[r] \o new /\ \A q \in Rings \ {r} : ring'[q] = ring[q]
  BY <1>7, <1>9, <1>10
<1>12. /\ acked' \in [Rings -> SUBSET Nat]
       /\ acked'[r] = acked[r] \ Range(t) /\ \A q \in Rings \ {r} : acked'[q] = acked[q]
  BY <1>7, <1>10
<1>13. \A x : x \in acked'[r] <=> x \in acked[r] /\ \A i \in 1 .. n : t[i] # x
  BY <1>8, <1>12, Zenon
<1>14. \A i \in 1 .. n : /\ ring'[r][i + Len(ring[r])].id = t[i]
                         /\ ring'[r][i + Len(ring[r])].job = job
  BY <1>6, <1>9, <1>11
<1>15. Len(ring'[r]) = Len(ring[r]) + n /\ \A i \in 1 .. Len(ring[r]) : ring'[r][i] = ring[r][i]
  BY <1>9, <1>11
<1> QED
  BY <1>2, <1>5, <1>11, <1>12, <1>13, <1>14, <1>15 DEF Put

-----------------------------------------------------------------------------
(* Changes of the list.                                                    *)

Links(f) == f \in [Urbs \cup {ListHead} -> Urbs \cup {ListHead}]

(* The list is what is linked from its head.                               *)
LEMMA ListIs == \A s : Chain(link, link[ListHead], s) => List = s
  BY FromIs DEF List

(* A chain is a sequence of distinct URBs.                                 *)
LEMMA ChainIs ==
  ASSUME NEW f, NEW l, NEW s, Chain(f, l, s)
  PROVE  /\ s \in Seq(Urbs) /\ Len(s) \in Nat
         /\ \A i \in 1 .. Len(s) : s[i] \in Urbs /\ s[i] # ListHead /\ s[i] # None
         /\ \A i, j \in 1 .. Len(s) : s[i] = s[j] => i = j
  BY TransferAssumption, SeqIsFunction DEF Chain

(* The links g are the links f with u at the head, or with the link at p   *)
(* leading past u.                                                         *)
Inserts(f, g, u) == g = [f EXCEPT ![u] = f[ListHead], ![ListHead] = u]
Removes(f, g, p, u) == g = [f EXCEPT ![p] = f[u]]
Without(s, k, t) == /\ Len(t) = Len(s) - 1
                    /\ \A i \in 1 .. Len(s) - 1 : t[i] = IF i < k THEN s[i] ELSE s[i + 1]
Leads(f, s, p, u) == (p = ListHead \/ \E i \in 1 .. Len(s) : p = s[i]) /\ f[p] = u

(* A URB is inserted at the head.                                          *)
LEMMA Insertion ==
  ASSUME NEW f, Links(f), NEW s, Chain(f, f[ListHead], s),
         NEW u \in Urbs, \A i \in 1 .. Len(s) : s[i] # u,
         NEW g, Inserts(f, g, u)
  PROVE  Links(g) /\ \E t : /\ Chain(g, g[ListHead], t) /\ Len(t) = Len(s) + 1 /\ t[1] = u
                            /\ \A i \in 1 .. Len(s) : t[i + 1] = s[i]
<1>1. /\ s \in Seq(Urbs) /\ Len(s) \in Nat /\ u # ListHead
      /\ \A i \in 1 .. Len(s) : s[i] \in Urbs /\ s[i] # ListHead
  BY ChainIs, TransferAssumption
<1>2. /\ Links(g) /\ g[ListHead] = u /\ g[u] = f[ListHead]
      /\ \A l \in Urbs : l # u => g[l] = f[l]
  <2> DEFINE D == Urbs \cup {ListHead}
  <2>1. f \in [D -> D] /\ u \in D /\ ListHead \in D /\ f[ListHead] \in D /\ u # ListHead
    BY <1>1 DEF Links
  <2>2. \A l \in Urbs : l \in D /\ l # ListHead
    BY TransferAssumption
  <2> HIDE DEF D
  <2>3. g \in [D -> D] /\ g[ListHead] = u /\ g[u] = f[ListHead]
    BY <2>1 DEF Inserts
  <2>4. \A l \in Urbs : l # u => g[l] = f[l]
    BY <2>1, <2>2 DEF Inserts
  <2> QED
    BY <2>3, <2>4 DEF Links, D
<1>3. \E t \in Seq(Urbs) : /\ Len(t) = Len(s) + 1
                            /\ \A i \in 1 .. Len(s) + 1 : t[i] = IF i = 1 THEN u ELSE s[i - 1]
  <2> DEFINE n == Len(s) + 1
             t == [i \in 1 .. n |-> IF i = 1 THEN u ELSE s[i - 1]]
  <2>1. \A i \in 1 .. n : i # 1 => i - 1 \in 1 .. Len(s)
    BY <1>1
  <2>2. t \in [1 .. n -> Urbs] /\ \A i \in 1 .. n : t[i] = IF i = 1 THEN u ELSE s[i - 1]
    BY <1>1, <2>1
  <2>3. n \in Nat
    BY <1>1
  <2> HIDE DEF n, t
  <2>4. t \in Seq(Urbs) /\ Len(t) = n
    BY <2>2, <2>3, FunctionIsSeq
  <2> QED
    BY <2>2, <2>4 DEF n
<1>4. PICK t \in Seq(Urbs) : /\ Len(t) = Len(s) + 1
                             /\ \A i \in 1 .. Len(s) + 1 : t[i] = IF i = 1 THEN u ELSE s[i - 1]
  BY <1>3
<1>5. /\ t[1] = u /\ \A i \in 1 .. Len(s) : t[i + 1] = s[i]
      /\ \A i \in 1 .. Len(s) + 1 : i # 1 => i - 1 \in 1 .. Len(s) /\ t[i] = s[i - 1]
  <2>1. 1 \in 1 .. Len(s) + 1 /\ \A i \in 1 .. Len(s) : i + 1 \in 1 .. Len(s) + 1 /\ i + 1 # 1 /\ i + 1 - 1 = i
    BY <1>1
  <2>2. \A i \in 1 .. Len(s) + 1 : i # 1 => i - 1 \in 1 .. Len(s)
    BY <1>1
  <2> QED
    BY <1>4, <2>1, <2>2
<1> HIDE DEF Links
<1>6. \A i \in 1 .. Len(t) : g[t[i]] = IF i < Len(t) THEN t[i + 1] ELSE ListHead
  <2> TAKE i \in 1 .. Len(t)
  <2>0. Len(t) = Len(s) + 1 /\ i \in 1 .. Len(s) + 1
    BY <1>4
  <2>1. SUFFICES g[t[i]] = IF i < Len(s) + 1 THEN t[i + 1] ELSE ListHead
    BY <2>0
  <2>2. CASE i = 1
    <3>1. g[t[i]] = f[ListHead] /\ t[i] = u
      BY <1>2, <1>5, <2>2
    <3>2. CASE Len(s) = 0
      BY <2>2, <3>1, <3>2 DEF Chain
    <3>3. CASE Len(s) # 0
      <4>1. 1 \in 1 .. Len(s) /\ f[ListHead] = s[1]
        BY <1>1, <3>3 DEF Chain
      <4>2. t[1 + 1] = s[1] /\ 1 < Len(s) + 1
        BY <1>1, <1>5, <4>1
      <4> QED
        BY <2>2, <3>1, <4>1, <4>2
    <3> QED
      BY <3>2, <3>3
  <2>3. CASE i # 1
    <3> DEFINE j == i - 1
    <3>1. j \in 1 .. Len(s) /\ t[i] = s[j] /\ i = j + 1 /\ (i < Len(s) + 1 <=> j < Len(s))
      BY <1>1, <1>5, <2>0, <2>3
    <3>2. f[s[j]] = IF j < Len(s) THEN s[j + 1] ELSE ListHead
      BY <3>1 DEF Chain
    <3>3. g[s[j]] = f[s[j]]
      BY <1>1, <1>2, <3>1
    <3>4. j < Len(s) => j + 1 \in 1 .. Len(s)
      BY <1>1, <3>1
    <3>5. j < Len(s) => t[j + 1 + 1] = s[j + 1]
      BY <1>5, <3>4
    <3> HIDE DEF j
    <3> QED
      BY <3>1, <3>2, <3>3, <3>5
  <2> QED
    BY <2>2, <2>3
<1>7. \A i, j \in 1 .. Len(t) : t[i] = t[j] => i = j
  <2>1. SUFFICES ASSUME NEW i \in 1 .. Len(s) + 1, NEW j \in 1 .. Len(s) + 1, t[i] = t[j]
                 PROVE  i = j
    BY <1>4
  <2>2. (i = 1 => t[i] = u) /\ (j = 1 => t[j] = u)
    BY <1>5
  <2>3. (i # 1 => i - 1 \in 1 .. Len(s) /\ t[i] = s[i - 1] /\ s[i - 1] # u)
        /\ (j # 1 => j - 1 \in 1 .. Len(s) /\ t[j] = s[j - 1] /\ s[j - 1] # u)
    BY <1>5
  <2>4. (i # 1 /\ j # 1) => i - 1 = j - 1
    BY <2>1, <2>3, ChainIs
  <2> QED
    BY <2>1, <2>2, <2>3, <2>4
<1>8. Chain(g, g[ListHead], t)
  <2>1. g[ListHead] = IF Len(t) = 0 THEN ListHead ELSE t[1]
    BY <1>1, <1>2, <1>4, <1>5
  <2> QED
    BY <1>4, <1>6, <1>7, <2>1 DEF Chain
<1> QED
  BY <1>2, <1>4, <1>5, <1>8

(* The k-th URB is unlinked.                                               *)
LEMMA Removal ==
  ASSUME NEW f, Links(f), NEW s, Chain(f, f[ListHead], s), NEW k \in 1 .. Len(s),
         NEW p, Leads(f, s, p, s[k]),
         NEW g, Removes(f, g, p, s[k])
  PROVE  Links(g) /\ \E t : Chain(g, g[ListHead], t) /\ Without(s, k, t)
<1>0. (p = ListHead \/ \E i \in 1 .. Len(s) : p = s[i]) /\ f[p] = s[k]
  BY DEF Leads
<1>1. /\ s \in Seq(Urbs) /\ Len(s) \in Nat \ {0}
      /\ \A i \in 1 .. Len(s) : s[i] \in Urbs /\ s[i] # ListHead
  BY ChainIs
<1>2. p \in Urbs \cup {ListHead} /\ f[s[k]] \in Urbs \cup {ListHead}
  BY <1>0, <1>1 DEF Links
<1>3. Links(g) /\ g[p] = f[s[k]] /\ \A l \in Urbs \cup {ListHead} : l # p => g[l] = f[l]
  BY <1>2 DEF Links, Removes
<1>4. f[s[k]] = IF k < Len(s) THEN s[k + 1] ELSE ListHead
  BY DEF Chain
<1>5. p = IF k = 1 THEN ListHead ELSE s[k - 1]
  <2>1. CASE p = ListHead
    <3>1. 1 \in 1 .. Len(s) /\ f[ListHead] = s[1]
      BY <1>1 DEF Chain
    <3>2. k = 1
      BY <1>0, <2>1, <3>1, ChainIs
    <3> QED
      BY <2>1, <3>2
  <2>2. CASE p # ListHead
    <3>1. PICK i \in 1 .. Len(s) : p = s[i]
      BY <1>0, <2>2
    <3>2. f[s[i]] = IF i < Len(s) THEN s[i + 1] ELSE ListHead
      BY <3>1 DEF Chain
    <3>3. i < Len(s) /\ s[i + 1] = s[k]
      BY <1>0, <1>1, <3>1, <3>2
    <3>4. i + 1 \in 1 .. Len(s)
      BY <1>1, <3>1, <3>3
    <3>5. i + 1 = k
      BY <3>3, <3>4, ChainIs
    <3>6. k # 1 /\ k - 1 = i
      BY <3>1, <3>5
    <3> QED
      BY <3>1, <3>6
  <2> QED
    BY <2>1, <2>2
<1>6. PICK t \in Seq(Urbs) : /\ Len(t) = Len(s) - 1 /\ Len(t) \in Nat
                             /\ \A i \in 1 .. Len(s) - 1 : t[i] = IF i < k THEN s[i] ELSE s[i + 1]
  <2> DEFINE n == Len(s) - 1
             t == [i \in 1 .. n |-> IF i < k THEN s[i] ELSE s[i + 1]]
  <2>1. \A i \in 1 .. n : i \in 1 .. Len(s) /\ i + 1 \in 1 .. Len(s)
    BY <1>1
  <2>2. t \in [1 .. n -> Urbs] /\ \A i \in 1 .. n : t[i] = IF i < k THEN s[i] ELSE s[i + 1]
    BY <1>1, <2>1
  <2>3. n \in Nat
    BY <1>1
  <2> HIDE DEF n, t
  <2>4. t \in Seq(Urbs) /\ Len(t) = n
    BY <2>2, <2>3, FunctionIsSeq
  <2> QED
    BY <2>2, <2>3, <2>4 DEF n
<1>7. \A i \in 1 .. Len(t) : /\ i \in 1 .. Len(s) /\ i + 1 \in 1 .. Len(s)
                             /\ t[i] = IF i < k THEN s[i] ELSE s[i + 1]
  BY <1>1, <1>6
<1>8. \A i \in 1 .. Len(t) : g[t[i]] = IF i < Len(t) THEN t[i + 1] ELSE ListHead
  <2>1. SUFFICES ASSUME NEW i \in 1 .. Len(t)
                 PROVE  g[t[i]] = IF i < Len(t) THEN t[i + 1] ELSE ListHead
    OBVIOUS
  <2>2. i < Len(t) => i + 1 \in 1 .. Len(t)
    BY <1>1, <1>6
  <2>3. CASE i + 1 < k
    <3>1. t[i] = s[i] /\ i \in 1 .. Len(s) /\ i < Len(s) /\ i < Len(t) /\ i + 1 \in 1 .. Len(s)
      BY <1>1, <1>6, <1>7, <2>3
    <3>2. s[i] # p
      <4>1. k # 1 /\ k - 1 # i /\ k - 1 \in 1 .. Len(s)
        BY <1>1, <2>3
      <4> QED
        BY <1>5, <3>1, <4>1, ChainIs
    <3>3. g[s[i]] = f[s[i]] /\ f[s[i]] = s[i + 1]
      <4>1. f[s[i]] = s[i + 1]
        BY <3>1 DEF Chain
      <4> QED
        BY <1>1, <1>3, <3>1, <3>2, <4>1
    <3>4. t[i + 1] = s[i + 1]
      BY <1>7, <2>2, <2>3, <3>1
    <3> QED
      BY <3>1, <3>3, <3>4
  <2>4. CASE i + 1 = k
    <3>1. t[i] = s[i] /\ i < k /\ k # 1 /\ k - 1 = i
      BY <1>7, <2>4
    <3>2. p = s[i]
      BY <1>5, <3>1
    <3>3. g[t[i]] = f[s[k]]
      BY <1>3, <3>1, <3>2
    <3>4. i < Len(t) <=> k < Len(s)
      BY <1>1, <1>6, <2>4
    <3>5. i < Len(t) => t[i + 1] = s[k + 1]
      BY <1>7, <2>2, <2>4
    <3> QED
      BY <1>4, <3>3, <3>4, <3>5
  <2>5. CASE i + 1 > k
    <3>1. t[i] = s[i + 1] /\ i + 1 \in 1 .. Len(s)
      BY <1>1, <1>7, <2>5
    <3>2. s[i + 1] # p
      <4>1. CASE k = 1
        BY <1>1, <1>5, <3>1, <4>1
      <4>2. CASE k # 1
        <5>1. k - 1 \in 1 .. Len(s) /\ k - 1 # i + 1
          BY <1>1, <2>5, <4>2
        <5> QED
          BY <1>5, <3>1, <4>2, <5>1, ChainIs
      <4> QED
        BY <4>1, <4>2
    <3>3. g[s[i + 1]] = f[s[i + 1]]
      BY <1>1, <1>3, <3>1, <3>2
    <3>4. f[s[i + 1]] = IF i + 1 < Len(s) THEN s[i + 1 + 1] ELSE ListHead
      BY <3>1 DEF Chain
    <3>5. i < Len(t) <=> i + 1 < Len(s)
      BY <1>1, <1>6
    <3>6. i < Len(t) => t[i + 1] = s[i + 1 + 1]
      <4>1. ~(i + 1 < k)
        BY <2>5
      <4> QED
        BY <1>7, <2>2, <4>1
    <3> QED
      BY <3>1, <3>3, <3>4, <3>5, <3>6
  <2> QED
    BY <2>3, <2>4, <2>5
<1>9. \A i, j \in 1 .. Len(t) : t[i] = t[j] => i = j
  <2>1. SUFFICES ASSUME NEW i \in 1 .. Len(t), NEW j \in 1 .. Len(t), t[i] = t[j]
                 PROVE  i = j
    OBVIOUS
  <2> DEFINE a == IF i < k THEN i ELSE i + 1
             b == IF j < k THEN j ELSE j + 1
  <2>2. a \in 1 .. Len(s) /\ b \in 1 .. Len(s) /\ t[i] = s[a] /\ t[j] = s[b]
    BY <1>7
  <2>3. a = b
    <3> HIDE DEF a, b
    <3>1. \A x, y \in 1 .. Len(s) : s[x] = s[y] => x = y
      BY ChainIs
    <3>2. s[a] = s[b]
      BY <2>1, <2>2
    <3> QED
      BY <2>2, <3>1, <3>2
  <2> QED
    BY <2>3
<1>10. g[ListHead] = IF Len(t) = 0 THEN ListHead ELSE t[1]
  <2>1. CASE k = 1
    <3>1. g[ListHead] = f[s[k]]
      BY <1>3, <1>5, <2>1
    <3>2. k < Len(s) <=> Len(t) # 0
      BY <1>1, <1>6, <2>1
    <3>3. Len(t) # 0 => t[1] = s[k + 1]
      <4>1. Len(t) # 0 => 1 \in 1 .. Len(t)
        <5>1. Len(t) \in Nat
          BY <1>6, SeqIsFunction
        <5> QED
          BY <5>1
      <4> QED
        BY <1>7, <2>1, <4>1
    <3> QED
      BY <1>4, <3>1, <3>2, <3>3
  <2>2. CASE k # 1
    <3>1. k - 1 \in 1 .. Len(s)
      BY <1>1, <2>2
    <3>2. p # ListHead
      BY <1>1, <1>5, <2>2, <3>1
    <3>3. g[ListHead] = f[ListHead] /\ f[ListHead] = s[1]
      BY <1>1, <1>3, <3>2 DEF Chain
    <3>4. Len(t) # 0 /\ 1 \in 1 .. Len(t) /\ 1 < k
      BY <1>1, <1>6, <2>2
    <3>5. t[1] = s[1]
      BY <1>7, <3>4
    <3> QED
      BY <3>3, <3>4, <3>5
  <2> QED
    BY <2>1, <2>2
<1> QED
  BY <1>3, <1>6, <1>7, <1>8, <1>9, <1>10 DEF Chain, Without

-----------------------------------------------------------------------------
(* The TRBs and the events.                                                *)

(* What the typing says of each URB, TRB and event                         *)
LEMMA TypesAre ==
  ASSUME Typed
  PROVE  /\ \A u \in Urbs : heap[u] \in Urb /\ heap[u].trbs \in Seq(Nat) /\ heap[u].ring \in Rings
                            /\ Len(heap[u].trbs) \in Nat
         /\ \A r \in Rings : /\ ring[r] \in Seq(Trbs) /\ Len(ring[r]) \in Nat
                             /\ \A i \in 1 .. Len(ring[r]) : ring[r][i] \in Trbs /\ ring[r][i].id \in Nat
         /\ events \in Seq(Events) /\ Len(events) \in Nat
         /\ \A i \in 1 .. Len(events) : events[i] \in Events /\ events[i].ring \in Rings
<1>1. \A u \in Urbs : heap[u] \in Urb /\ heap[u].trbs \in Seq(Nat) /\ heap[u].ring \in Rings
  BY DEF Typed, TypeOK, Urb
<1>2. \A u \in Urbs : Len(heap[u].trbs) \in Nat
  BY <1>1, SeqIsFunction
<1>3. \A r \in Rings : ring[r] \in Seq(Trbs) /\ Len(ring[r]) \in Nat
                       /\ \A i \in 1 .. Len(ring[r]) : ring[r][i] \in Trbs
  BY SeqIsFunction DEF Typed
<1>4. \A t \in Trbs : t.id \in Nat
  BY DEF Trbs
<1>5. events \in Seq(Events) /\ Len(events) \in Nat /\ \A i \in 1 .. Len(events) : events[i] \in Events
  BY SeqIsFunction DEF Typed
<1>6. \A e \in Events : e.ring \in Rings
  BY DEF Events
<1> QED
  BY <1>1, <1>2, <1>3, <1>4, <1>5, <1>6

(* After new TRBs were put, for the URB u                                  *)
UrbGets(u, r, t) ==
  /\ \A v \in Urbs \ {u} : heap'[v].live => heap'[v] = heap[v]
  /\ heap'[u].live =>
       /\ heap'[u].ring = r /\ heap'[u].trbs = t
       /\ ~heap'[u].startDone /\ ~heap'[u].endDone /\ ~heap'[u].finished
       /\ r = Cmd => Len(t) = 1

(* The TRBs stay distinct, uncompleted and in the order of their URBs.     *)
LEMMA PutKeepsTrbs ==
  ASSUME Typed, TrbInv, UrbsInv, NEW r \in Rings, NEW u \in Urbs, NEW t, NEW job,
         Fresh(r, u, t), Put(r, t, job), events' = events, UrbGets(u, r, t)
  PROVE  TrbInv' /\ UrbsInv'
<1> DEFINE n == Len(ring[r])
<1>1. n \in Nat /\ t \in Seq(Nat) /\ Len(t) \in Nat \ {0}
  BY TypesAre, SeqIsFunction DEF Fresh
<1>2. /\ \A i, j \in 1 .. Len(t) : t[i] = t[j] => i = j
      /\ \A i \in 1 .. Len(t) : \A j \in 1 .. n : ring[r][j].id # t[i]
      /\ \A i \in 1 .. Len(t) : \A j \in 1 .. Len(events) : events[j].ring = r => events[j].id # t[i]
  BY DEF Fresh
<1>3. \A i \in 1 .. Len(t) : \A v \in Urbs \ {u} : heap[v].live /\ heap[v].ring = r =>
        \A j \in 1 .. Len(heap[v].trbs) : heap[v].trbs[j] # t[i]
  BY DEF Fresh
<1>4. /\ Len(ring'[r]) = n + Len(t)
      /\ \A i \in 1 .. n : ring'[r][i] = ring[r][i]
      /\ \A i \in 1 .. Len(t) : ring'[r][i + n].id = t[i]
      /\ \A x : x \in acked'[r] <=> x \in acked[r] /\ \A i \in 1 .. Len(t) : t[i] # x
      /\ \A q \in Rings \ {r} : ring'[q] = ring[q] /\ acked'[q] = acked[q]
  BY DEF Put
<1> HIDE DEF n
(* A position is an old one or a new one.                                  *)
<1>5. \A i \in 1 .. n + Len(t) : \/ i \in 1 .. n /\ ring'[r][i].id = ring[r][i].id
                                 \/ i - n \in 1 .. Len(t) /\ ring'[r][i].id = t[i - n]
  <2> TAKE i \in 1 .. n + Len(t)
  <2>1. CASE i <= n
    <3>1. i \in 1 .. n
      BY <1>1, <2>1
    <3> QED
      BY <1>4, <3>1
  <2>2. CASE ~(i <= n)
    <3>1. i - n \in 1 .. Len(t) /\ i - n + n = i
      BY <1>1, <2>2
    <3> QED
      BY <1>4, <3>1
  <2> QED
    BY <2>1, <2>2
<1>6. \A i, j \in 1 .. n + Len(t) : ring'[r][i].id = ring'[r][j].id => i = j
  <2> TAKE i, j \in 1 .. n + Len(t)
  <2>1. \A a, b \in 1 .. n : ring[r][a].id = ring[r][b].id => a = b
    BY DEF TrbInv, n
  <2>2. \/ i \in 1 .. n /\ ring'[r][i].id = ring[r][i].id
        \/ i - n \in 1 .. Len(t) /\ ring'[r][i].id = t[i - n]
    BY <1>5
  <2>3. \/ j \in 1 .. n /\ ring'[r][j].id = ring[r][j].id
        \/ j - n \in 1 .. Len(t) /\ ring'[r][j].id = t[j - n]
    BY <1>5
  <2>4. SUFFICES ASSUME ring'[r][i].id = ring'[r][j].id PROVE i = j
    OBVIOUS
  <2>5. \/ i \in 1 .. n /\ j \in 1 .. n /\ ring[r][i].id = ring[r][j].id
        \/ i - n \in 1 .. Len(t) /\ j - n \in 1 .. Len(t) /\ t[i - n] = t[j - n]
    BY <1>2, <2>2, <2>3, <2>4
  <2>6. i - n = j - n => i = j
    BY <1>1
  <2> QED
    BY <1>2, <2>1, <2>5, <2>6
<1>7. \A i \in 1 .. n + Len(t) : ring'[r][i].id \notin acked'[r]
  <2> TAKE i \in 1 .. n + Len(t)
  <2>1. \A a \in 1 .. n : ring[r][a].id \notin acked[r]
    BY DEF TrbInv, n
  <2> QED
    BY <1>2, <1>4, <1>5, <2>1
<1>8. TrbInv'
  <2>1. \A q \in Rings : \A i, j \in 1 .. Len(ring'[q]) : ring'[q][i].id = ring'[q][j].id => i = j
    BY <1>4, <1>6 DEF TrbInv
  <2>2. \A q \in Rings : \A i \in 1 .. Len(ring'[q]) : ring'[q][i].id \notin acked'[q]
    BY <1>4, <1>7 DEF TrbInv
  <2>3. \A i \in 1 .. Len(events) : events[i].code = "ok" => events[i].id \in acked'[events[i].ring]
    <3> TAKE i \in 1 .. Len(events)
    <3>1. events[i].ring \in Rings /\ (events[i].code = "ok" => events[i].id \in acked[events[i].ring])
      BY TypesAre DEF TrbInv
    <3> QED
      BY <1>2, <1>4, <3>1
  <2> QED
    BY <2>1, <2>2, <2>3 DEF TrbInv
<1>9. ASSUME NEW v \in Urbs \ {u}, heap'[v].live
      PROVE  InOrder(v)' /\ Progressed(v)'
  <2> DEFINE s == heap[v].trbs
             q == heap[v].ring
  <2>1. heap'[v] = heap[v] /\ heap[v].live /\ InOrder(v) /\ Progressed(v)
    BY <1>9 DEF UrbGets, UrbsInv
  <2>2. q \in Rings /\ Len(s) \in Nat
    BY TypesAre
  <2>3. \A j \in 1 .. Len(s) : s[j] \in acked'[q] <=> s[j] \in acked[q]
    BY <1>3, <1>4, <2>1, <2>2
  <2>4. \A j \in 1 .. Len(s), p \in 1 .. Len(ring'[q]) :
          ring'[q][p].id = s[j] => p \in 1 .. Len(ring[q]) /\ ring[q][p].id = s[j]
    <3>1. CASE q = r
      <4>1. \A i \in 1 .. Len(t) : \A j \in 1 .. Len(s) : s[j] # t[i]
        BY <1>3, <2>1, <3>1
      <4>2. Len(ring'[q]) = n + Len(t) /\ Len(ring[q]) = n
        BY <1>4, <3>1 DEF n
      <4> HIDE DEF s, q
      <4> QED
        BY <1>5, <3>1, <4>1, <4>2
    <3>2. CASE q # r
      BY <1>4, <2>2, <3>2
    <3> QED
      BY <3>1, <3>2
  <2>5. \A p \in 1 .. Len(ring[q]) : p \in 1 .. Len(ring'[q]) /\ ring'[q][p].id = ring[q][p].id
    <3>1. CASE q = r
      <4>1. \A p \in 1 .. n : p \in 1 .. n + Len(t)
        BY <1>1
      <4> QED
        BY <1>4, <3>1, <4>1 DEF n
    <3>2. CASE q # r
      BY <1>4, <2>2, <3>2
    <3> QED
      BY <3>1, <3>2
  <2> HIDE DEF s, q
  <2>6. heap'[v].trbs = s /\ heap'[v].ring = q
    BY <2>1 DEF s, q
  <2>7. InOrder(v)'
    <3>1. \A i, j \in 1 .. Len(s) : i < j /\ s[j] \in acked[q] => s[i] \in acked[q]
      BY <2>1 DEF InOrder, Ordered, s, q
    <3>2. \A i, j \in 1 .. Len(s), p \in 1 .. Len(ring[q]) :
            i < j /\ ring[q][p].id = s[j] =>
              s[i] \in acked[q] \/ \E b \in 1 .. Len(ring[q]) : b < p /\ ring[q][b].id = s[i]
      BY <2>1 DEF InOrder, Ordered, s, q
    <3>3. \A i, j \in 1 .. Len(s) : i < j /\ s[j] \in acked'[q] => s[i] \in acked'[q]
      BY <2>3, <3>1
    <3>4. \A i, j \in 1 .. Len(s), p \in 1 .. Len(ring'[q]) :
            i < j /\ ring'[q][p].id = s[j] =>
              s[i] \in acked'[q] \/ \E b \in 1 .. Len(ring'[q]) : b < p /\ ring'[q][b].id = s[i]
      BY <2>3, <2>4, <2>5, <3>2
    <3> QED
      BY <2>6, <3>3, <3>4 DEF InOrder, Ordered
  <2>8. Progressed(v)'
    <3>1. /\ Len(s) > 0
          /\ heap[v].startDone => s[1] \in acked[q]
          /\ heap[v].endDone => s[Len(s)] \in acked[q]
          /\ heap[v].finished /\ heap[v].result = {} => heap[v].startDone /\ heap[v].endDone
          /\ q = Cmd => Len(s) = 1
      BY <2>1 DEF Progressed, s, q
    <3>2. 1 \in 1 .. Len(s) /\ Len(s) \in 1 .. Len(s)
      BY <2>2, <3>1 DEF s
    <3> QED
      BY <2>1, <2>3, <2>6, <3>1, <3>2 DEF Progressed
  <2> QED
    BY <2>7, <2>8
<1>10. ASSUME heap'[u].live PROVE InOrder(u)' /\ Progressed(u)'
  <2>1. /\ heap'[u].ring = r /\ heap'[u].trbs = t
        /\ ~heap'[u].startDone /\ ~heap'[u].endDone /\ ~heap'[u].finished
        /\ r = Cmd => Len(t) = 1
    BY <1>10 DEF UrbGets
  <2>2. \A i \in 1 .. Len(t) : t[i] \notin acked'[r]
    BY <1>4
  <2>3. \A i, j \in 1 .. Len(t), p \in 1 .. n + Len(t) :
          i < j /\ ring'[r][p].id = t[j] => \E b \in 1 .. n + Len(t) : b < p /\ ring'[r][b].id = t[i]
    <3>1. SUFFICES ASSUME NEW i \in 1 .. Len(t), NEW j \in 1 .. Len(t), NEW p \in 1 .. n + Len(t),
                          i < j, ring'[r][p].id = t[j]
                   PROVE  \E b \in 1 .. n + Len(t) : b < p /\ ring'[r][b].id = t[i]
      BY Zenon
    <3>2. p - n \in 1 .. Len(t) /\ t[p - n] = t[j]
      BY <1>2, <1>5, <3>1
    <3>3. p - n = j
      BY <1>2, <3>2
    <3>4. i + n \in 1 .. n + Len(t) /\ i + n < p
      BY <1>1, <3>1, <3>3
    <3> QED
      BY <1>4, <3>4
  <2>4. InOrder(u)'
    BY <1>4, <2>1, <2>2, <2>3 DEF InOrder, Ordered
  <2>5. Progressed(u)'
    BY <1>1, <2>1 DEF Progressed
  <2> QED
    BY <2>4, <2>5
<1>11. UrbsInv'
  BY <1>9, <1>10 DEF UrbsInv
<1> QED
  BY <1>8, <1>11

(* URBs are freed and nothing else.                                        *)
LEMMA FreeKeepsTrbs ==
  ASSUME TrbInv, UrbsInv, UNCHANGED <<ring, acked, events>>,
         \A v \in Urbs : heap'[v].live => heap'[v] = heap[v]
  PROVE  TrbInv' /\ UrbsInv'
<1>1. TrbInv'
  BY DEF TrbInv
<1>2. ASSUME NEW v \in Urbs, heap'[v].live PROVE InOrder(v)' /\ Progressed(v)'
  <2>1. heap'[v] = heap[v] /\ InOrder(v) /\ Progressed(v) /\ ring' = ring /\ acked' = acked
    BY <1>2 DEF UrbsInv
  <2>2. InOrder(v)'
    BY <2>1 DEF InOrder
  <2>3. Progressed(v)'
    BY <2>1 DEF Progressed
  <2> QED
    BY <2>2, <2>3
<1>3. UrbsInv'
  BY <1>2 DEF UrbsInv
<1> QED
  BY <1>1, <1>3

(* What the xHC does with a ring: nothing, it completes the first TRB, a   *)
(* command fails, or all TRBs are skipped.                                 *)
Completes(r) == /\ ring[r] # <<>> /\ ring'[r] = Tail(ring[r])
                /\ acked'[r] = acked[r] \cup {ring[r][1].id}
RingStep(r) ==
  \/ ring'[r] = ring[r] /\ acked'[r] = acked[r]
  \/ Completes(r)
  \/ r = Cmd /\ ring[r] # <<>> /\ ring'[r] = Tail(ring[r]) /\ acked'[r] = acked[r]
  \/ ring'[r] = <<>> /\ acked'[r] = acked[r]
XhcStep ==
  /\ UNCHANGED <<heap, link, pc, chk, found, cur, recovery, mUrb, mNext, cb, abandoned>>
  /\ ring' \in [Rings -> Seq(Trbs)] /\ acked' \in [Rings -> SUBSET Nat]
  /\ \A r \in Rings : RingStep(r)
  /\ \E e \in Events : events' = Append(events, e) /\ (e.code = "ok" => e.id \in acked'[e.ring])

(* So they do when the xHC takes TRBs off its rings and posts an event.    *)
LEMMA XhcKeepsTrbs ==
  ASSUME Typed, TrbInv, UrbsInv, XhcStep
  PROVE  TrbInv' /\ UrbsInv'
<1>1. ASSUME NEW r \in Rings
      PROVE  /\ \A i, j \in 1 .. Len(ring'[r]) : ring'[r][i].id = ring'[r][j].id => i = j
             /\ \A i \in 1 .. Len(ring'[r]) : ring'[r][i].id \notin acked'[r]
             /\ \A x : x \in acked[r] => x \in acked'[r]
  <2>1. /\ \A i, j \in 1 .. Len(ring[r]) : ring[r][i].id = ring[r][j].id => i = j
        /\ \A i \in 1 .. Len(ring[r]) : ring[r][i].id \notin acked[r]
        /\ ring[r] \in Seq(Trbs)
    BY TypesAre DEF TrbInv
  <2>2. CASE ring'[r] = ring[r] /\ acked'[r] = acked[r]
    BY <2>1, <2>2
  <2>3. CASE ring[r] # <<>> /\ ring'[r] = Tail(ring[r])
             /\ (acked'[r] = acked[r] \cup {ring[r][1].id} \/ acked'[r] = acked[r])
    <3> DEFINE n == Len(ring[r]) - 1
    <3>1. Len(ring'[r]) = n /\ n \in Nat /\ \A i \in 1 .. n : ring'[r][i] = ring[r][i + 1]
      BY <2>1, <2>3, WithoutFirst
    <3>2. \A i \in 1 .. n : i + 1 \in 1 .. Len(ring[r]) /\ i + 1 # 1 /\ 1 \in 1 .. Len(ring[r])
      BY <3>1
    <3>3. \A i \in 1 .. n : ring'[r][i].id = ring[r][i + 1].id /\ ring[r][i + 1].id # ring[r][1].id
                            /\ ring[r][i + 1].id \notin acked[r]
      BY <2>1, <3>1, <3>2
    <3>4. \A i, j \in 1 .. n : ring'[r][i].id = ring'[r][j].id => i + 1 = j + 1
      BY <2>1, <3>2, <3>3
    <3>5. \A i, j \in 1 .. n : i + 1 = j + 1 => i = j
      BY <3>1
    <3>6. \A i \in 1 .. n : ring'[r][i].id \notin acked'[r]
      BY <2>3, <3>3
    <3> HIDE DEF n
    <3> QED
      BY <2>3, <3>1, <3>4, <3>5, <3>6
  <2>4. CASE ring'[r] = <<>> /\ acked'[r] = acked[r]
    <3>1. \A i \in 1 .. 0 : FALSE
      OBVIOUS
    <3>2. Len(ring'[r]) = 0
      BY <2>4
    <3> QED
      BY <2>4, <3>1, <3>2
  <2> QED
    BY <2>2, <2>3, <2>4 DEF XhcStep, RingStep, Completes
<1>2. PICK e \in Events : events' = Append(events, e) /\ (e.code = "ok" => e.id \in acked'[e.ring])
  BY DEF XhcStep
<1>3. \A i \in 1 .. Len(events') : events'[i].code = "ok" => events'[i].id \in acked'[events'[i].ring]
  <2>1. /\ Len(events') = Len(events) + 1 /\ Len(events) \in Nat
        /\ \A i \in 1 .. Len(events) : events'[i] = events[i]
        /\ events'[Len(events) + 1] = e
    BY <1>2, TypesAre, WithLast
  <2>2. \A i \in 1 .. Len(events) : events[i].code = "ok" => events[i].id \in acked'[events[i].ring]
    BY <1>1, TypesAre DEF TrbInv
  <2>3. \A i \in 1 .. Len(events) + 1 : i \in 1 .. Len(events) \/ i = Len(events) + 1
    BY <2>1
  <2> QED
    BY <1>2, <2>1, <2>2, <2>3
<1>4. TrbInv'
  BY <1>1, <1>3 DEF TrbInv
<1>5. ASSUME NEW v \in Urbs, heap'[v].live PROVE InOrder(v)' /\ Progressed(v)'
  <2> DEFINE s == heap[v].trbs
             r == heap[v].ring
  <2>1. heap'[v] = heap[v] /\ heap[v].live /\ InOrder(v) /\ Progressed(v) /\ r \in Rings
        /\ ring[r] \in Seq(Trbs) /\ Len(s) \in Nat
    BY <1>5, TypesAre DEF UrbsInv, XhcStep
  <2>2. Ordered(s, ring[r], acked[r]) /\ Len(s) > 0 /\ (r = Cmd => Len(s) = 1)
    BY <2>1 DEF InOrder, Progressed
  <2>3. Progressed(v)'
    BY <1>1, <2>1 DEF Progressed
  <2> HIDE DEF s, r
  <2>4. Ordered(s, ring'[r], acked'[r])
    <3>1. CASE ring'[r] = ring[r] /\ acked'[r] = acked[r]
      BY <2>2, <3>1
    <3>2. CASE Completes(r)
      <4>1. ring[r] # <<>> /\ ring'[r] = Tail(ring[r]) /\ acked'[r] = acked[r] \cup {ring[r][1].id}
        BY <3>2 DEF Completes
      <4> DEFINE n == Len(ring[r])
      <4>2. Len(ring'[r]) = n - 1 /\ n \in Nat \ {0} /\ \A i \in 1 .. n - 1 : ring'[r][i] = ring[r][i + 1]
        BY <2>1, <4>1, WithoutFirst
      <4> HIDE DEF n
      <4>3. ASSUME NEW i \in 1 .. Len(s), NEW j \in 1 .. Len(s), i < j, s[j] \in acked'[r]
            PROVE  s[i] \in acked'[r]
        <5>1. CASE s[j] \in acked[r]
          BY <2>2, <4>1, <4>3, <5>1 DEF Ordered
        <5>2. CASE s[j] = ring[r][1].id
          <6>1. 1 \in 1 .. n /\ \A b \in 1 .. n : ~(b < 1)
            BY <4>2
          <6> QED
            BY <2>2, <4>1, <4>3, <5>2, <6>1 DEF n, Ordered
        <5> QED
          BY <4>1, <4>3, <5>1, <5>2
      <4>4. ASSUME NEW i \in 1 .. Len(s), NEW j \in 1 .. Len(s), NEW p \in 1 .. n - 1,
                   i < j, ring'[r][p].id = s[j], s[i] \notin acked'[r]
            PROVE  \E b \in 1 .. n - 1 : b < p /\ ring'[r][b].id = s[i]
        <5>1. p + 1 \in 1 .. n /\ ring[r][p + 1].id = s[j] /\ s[i] \notin acked[r] /\ s[i] # ring[r][1].id
          BY <4>1, <4>2, <4>4
        <5>2. PICK b \in 1 .. n : b < p + 1 /\ ring[r][b].id = s[i]
          BY <2>2, <4>4, <5>1 DEF n, Ordered
        <5>3. b # 1
          BY <5>1, <5>2
        <5>4. b - 1 \in 1 .. n - 1 /\ b - 1 < p /\ b - 1 + 1 = b
          BY <4>2, <5>2, <5>3
        <5> QED
          BY <4>2, <5>2, <5>4
      <4>5. PICK q, d : q = ring'[r] /\ d = acked'[r] /\ Len(q) = n - 1
        BY <4>2
      <4>6. \A i, j \in 1 .. Len(s) : i < j /\ s[j] \in d => s[i] \in d
        BY <4>3, <4>5
      <4>7. \A i, j \in 1 .. Len(s), p \in 1 .. Len(q) :
              i < j /\ q[p].id = s[j] => s[i] \in d \/ \E b \in 1 .. Len(q) : b < p /\ q[b].id = s[i]
        BY <4>4, <4>5
      <4>8. Ordered(s, q, d)
        BY <4>6, <4>7 DEF Ordered
      <4> QED
        BY <4>5, <4>8
    <3>3. CASE r = Cmd /\ acked'[r] = acked[r]
      <4>1. \A i, j \in 1 .. Len(s) : ~(i < j)
        <5>1. Len(s) = 1
          BY <2>2, <3>3
        <5> QED
          BY <5>1
      <4> QED
        BY <4>1 DEF Ordered
    <3>4. CASE ring'[r] = <<>> /\ acked'[r] = acked[r]
      <4>1. \A i \in 1 .. 0 : FALSE
        OBVIOUS
      <4>2. Len(ring'[r]) = 0
        BY <3>4
      <4> QED
        BY <2>2, <3>4, <4>1, <4>2 DEF Ordered
    <3> QED
      BY <2>1, <3>1, <3>2, <3>3, <3>4 DEF XhcStep, RingStep
  <2>5. InOrder(v)'
    BY <2>1, <2>4 DEF InOrder, s, r
  <2> QED
    BY <2>3, <2>5
<1> QED
  BY <1>4, <1>5 DEF UrbsInv

-----------------------------------------------------------------------------
(* The handling of an event.                                               *)

(* The URB that is checked is live.                                        *)
LEMMA CheckedIsLive ==
  ASSUME Typed, Control, RoundInv, pc # "user"
  PROVE  chk \in Urbs /\ heap[chk].live
<1>1. CASE cur # None
  BY <1>1 DEF Control, CurIsBusy
<1>2. CASE cur = None
  <2>1. mUrb # None /\ chk = mUrb /\ cb = "none"
    BY <1>2 DEF Control
  <2>2. mUrb \in Urbs
    BY <2>1 DEF Typed, TypeOK
  <2> QED
    BY <2>1, <2>2 DEF RoundInv
<1> QED
  BY <1>1, <1>2

(* The URB of an event is that one or one of the list.                     *)
LEMMA CheckedUrbIs ==
  ASSUME Typed, Control, ListInv, RoundInv, pc = "check", NEW e, NEW u, u = CheckedUrb(e)
  PROVE  /\ u = None => /\ heap[chk].ring # e.ring
                        /\ \A i \in 1 .. Len(List) : heap[List[i]].ring = e.ring =>
                             e.id \notin Range(heap[List[i]].trbs)
         /\ u # None => /\ u \in Urbs /\ heap[u].live /\ heap[u].ring = e.ring
                        /\ u = chk \/ \E i \in 1 .. Len(List) : u = List[i]
<1>1. chk \in Urbs /\ heap[chk].live /\ None \notin Urbs
  BY CheckedIsLive, TransferAssumption
<1>2. /\ List \in Seq(Urbs)
      /\ \A i \in 1 .. Len(List) : List[i] \in Urbs /\ List[i] # None /\ heap[List[i]].live
  BY ChainIs DEF ListInv, ListOf, IsListed
<1>3. CASE heap[chk].ring = e.ring
  BY <1>1, <1>3 DEF CheckedUrb
<1>4. CASE heap[chk].ring # e.ring
  <2> DEFINE us == {v \in Urbs : heap[v].ring = e.ring /\ e.id \in Range(heap[v].trbs)}
  <2>1. u = FirstOf(us)
    BY <1>4 DEF CheckedUrb
  <2>2. \A i \in 1 .. Len(List) :
          List[i] \in us <=> heap[List[i]].ring = e.ring /\ e.id \in Range(heap[List[i]].trbs)
    BY <1>2
  <2> HIDE DEF us
  <2>3. \/ u = None /\ \A i \in 1 .. Len(List) : List[i] \notin us
        \/ \E i \in 1 .. Len(List) : u = List[i] /\ List[i] \in us
    BY <1>2, <2>1, FirstIs
  <2> QED
    BY <1>2, <1>4, <2>2, <2>3
<1> QED
  BY <1>3, <1>4

(* What the event e does to the URB u                                      *)
Notes(u, e) ==
  LET old == heap[u]
      new == heap'[u]
      t   == old.trbs
  IN  /\ new.live = old.live /\ new.kind = old.kind /\ new.ring = old.ring /\ new.trbs = old.trbs
      /\ e.code = "ok" =>
           /\ new.result = old.result
           /\ new.startDone = (old.startDone \/ e.id = t[1])
           /\ new.endDone = (old.endDone \/ e.id = t[Len(t)])
           /\ new.finished = (old.finished \/ (new.startDone /\ new.endDone))
      /\ e.code # "ok" =>
           /\ new.result # {} /\ new.finished
           /\ new.startDone = old.startDone /\ new.endDone = old.endDone

(* What XhcCheckUrbResult does with an event: it notes it in one URB.      *)
LEMMA HandleEventDoes ==
  ASSUME Typed, Control, ListInv, RoundInv, HandleEvent, NEW e, e = events[1]
  PROVE  /\ pc = "check" /\ found \in Nat \ {0} /\ e \in Events
         /\ UNCHANGED <<link, ring, state, acked, pc, chk, cur, recovery, mUrb, mNext, cb, abandoned>>
         /\ events # <<>> /\ events' = Tail(events) /\ found' \in {0, found - 1}
         /\ heap' \in [Urbs -> Urb]
         /\ \A v \in Urbs : v # CheckedUrb(e) => heap'[v] = heap[v]
         /\ CheckedUrb(e) # None => Notes(CheckedUrb(e), e)
<1> DEFINE u == CheckedUrb(e)
<1>1. /\ pc = "check" /\ found > 0 /\ events' = Tail(events)
      /\ UNCHANGED <<link, mUrb, mNext, cb, ring, state, acked, pc, chk, cur, recovery, abandoned>>
      /\ \/ u = None /\ found' = found - 1 /\ UNCHANGED heap
         \/ /\ u # None /\ e.code = "ok" /\ found' = found - 1
            /\ heap' = [heap EXCEPT ![u] = Progress(@, e)]
         \/ /\ u # None /\ e.code # "ok" /\ found' = 0
            /\ heap' = [heap EXCEPT ![u].result = @ \cup {e.code}, ![u].finished = TRUE]
  BY DEF HandleEvent, listVars, ringVars
<1>2. found \in Nat \ {0} /\ Len(events) \in Nat \ {0}
  BY <1>1, TypesAre DEF Typed, TypeOK
<1>3. events # <<>> /\ e \in Events
  <2>1. 1 \in 1 .. Len(events)
    BY <1>2
  <2>2. events # <<>>
    BY <1>2
  <2> QED
    BY <2>1, <2>2, TypesAre
<1>4. heap \in [Urbs -> Urb] /\ (u # None => u \in Urbs)
  BY <1>1, CheckedUrbIs DEF Typed, TypeOK
<1> HIDE DEF u
<1>5. /\ heap' \in [Urbs -> Urb] /\ (u # None => Notes(u, e))
      /\ \A v \in Urbs : v # u => heap'[v] = heap[v]
  <2>1. CASE u = None /\ UNCHANGED heap
    BY <1>4, <2>1
  <2>2. CASE u # None /\ e.code = "ok" /\ heap' = [heap EXCEPT ![u] = Progress(@, e)]
    <3>1. u \in Urbs /\ heap[u] \in Urb
      BY <1>4, <2>2
    <3>2. Progress(heap[u], e) \in Urb
      <4> DEFINE old == heap[u]
                 start == old.startDone \/ e.id = old.trbs[1]
                 end == old.endDone \/ e.id = old.trbs[Len(old.trbs)]
                 done == old.finished \/ (start /\ end)
      <4>1. start \in BOOLEAN /\ end \in BOOLEAN /\ done \in BOOLEAN
        OBVIOUS
      <4>2. Progress(old, e) = [old EXCEPT !.completed = @ + 1, !.startDone = start, !.endDone = end,
                                           !.finished = done]
        BY DEF Progress
      <4> HIDE DEF start, end, done
      <4>3. old \in Urb /\ old.completed + 1 \in Nat
        BY <3>1 DEF Urb
      <4> DEFINE n == old.completed + 1
      <4>4. Progress(old, e) = [old EXCEPT !.completed = n, !.startDone = start, !.endDone = end,
                                           !.finished = done]
        BY <4>2
      <4> HIDE DEF n, old
      <4>5. [old EXCEPT !.completed = n, !.startDone = start, !.endDone = end, !.finished = done] \in Urb
        BY <4>1, <4>3 DEF Urb, n
      <4> QED
        BY <4>4, <4>5 DEF old
    <3>3. heap'[u] = Progress(heap[u], e) /\ heap' \in [Urbs -> Urb]
      BY <1>4, <2>2, <3>1, <3>2
    <3>4. Notes(u, e)
      <4> DEFINE old == heap[u]
                 new == Progress(old, e)
                 t   == old.trbs
      <4>1. /\ new.live = old.live /\ new.kind = old.kind /\ new.ring = old.ring /\ new.trbs = old.trbs
            /\ new.result = old.result
        BY <3>1 DEF Progress, Urb
      <4>2. /\ new.startDone = (old.startDone \/ e.id = t[1])
            /\ new.endDone = (old.endDone \/ e.id = t[Len(t)])
            /\ new.finished = (old.finished \/ (new.startDone /\ new.endDone))
        BY <3>1 DEF Progress, Urb
      <4> QED
        BY <2>2, <3>3, <4>1, <4>2 DEF Notes
    <3> QED
      BY <1>4, <2>2, <3>1, <3>3, <3>4
  <2>3. CASE /\ u # None /\ e.code # "ok"
             /\ heap' = [heap EXCEPT ![u].result = @ \cup {e.code}, ![u].finished = TRUE]
    <3> DEFINE old == heap[u]
               new == [old EXCEPT !.result = @ \cup {e.code}, !.finished = TRUE]
    <3>1. u \in Urbs /\ old \in Urb /\ e.code \in {"stall", "error"}
      BY <1>3, <1>4, <2>3 DEF Events
    <3>2. new \in Urb
      BY <3>1 DEF Urb
    <3>3. heap' = [heap EXCEPT ![u] = new]
      BY <1>4, <2>3, <3>1
    <3>4. heap'[u] = new /\ heap' \in [Urbs -> Urb] /\ \A v \in Urbs : v # u => heap'[v] = heap[v]
      <4> HIDE DEF new
      <4> QED
        BY <1>4, <3>1, <3>2, <3>3
    <3>5. /\ new.live = old.live /\ new.kind = old.kind /\ new.ring = old.ring /\ new.trbs = old.trbs
          /\ new.result # {} /\ new.finished
          /\ new.startDone = old.startDone /\ new.endDone = old.endDone
      BY <3>1 DEF Urb
    <3> QED
      BY <2>3, <3>4, <3>5 DEF Notes
  <2> QED
    BY <1>1, <2>1, <2>2, <2>3
<1> QED
  BY <1>1, <1>2, <1>3, <1>5 DEF u

(* What a URB then says of its first and last TRB is true.                 *)
LEMMA HandleKeepsTrbs ==
  ASSUME Typed, Control, ListInv, RoundInv, TrbInv, UrbsInv, HandleEvent
  PROVE  TrbInv' /\ UrbsInv'
<1> DEFINE e == events[1]
           u == CheckedUrb(e)
<1>1. /\ pc = "check" /\ UNCHANGED <<ring, acked>> /\ events # <<>> /\ events' = Tail(events)
      /\ \A v \in Urbs : v # u => heap'[v] = heap[v]
      /\ u # None => Notes(u, e)
  BY HandleEventDoes
<1>2. u # None => u \in Urbs /\ heap[u].live /\ heap[u].ring = e.ring
  BY <1>1, CheckedUrbIs
<1>3. /\ Len(events') = Len(events) - 1 /\ Len(events) \in Nat \ {0}
      /\ \A i \in 1 .. Len(events) - 1 : events'[i] = events[i + 1]
  BY <1>1, TypesAre, WithoutFirst
<1>4. TrbInv'
  <2>1. \A i \in 1 .. Len(events) - 1 : i + 1 \in 1 .. Len(events)
    BY <1>3
  <2>2. \A i \in 1 .. Len(events') : events'[i].code = "ok" => events'[i].id \in acked[events'[i].ring]
    BY <1>3, <2>1 DEF TrbInv
  <2> QED
    BY <1>1, <2>2 DEF TrbInv
<1>5. e.code = "ok" => e.id \in acked[e.ring]
  <2>1. 1 \in 1 .. Len(events)
    BY <1>3
  <2> QED
    BY <2>1 DEF TrbInv
<1> HIDE DEF e, u
<1>6. ASSUME NEW v \in Urbs, heap'[v].live PROVE InOrder(v)' /\ Progressed(v)'
  <2>1. CASE v # u
    <3>1. heap'[v] = heap[v] /\ InOrder(v) /\ Progressed(v) /\ ring' = ring /\ acked' = acked
      BY <1>1, <1>6, <2>1 DEF UrbsInv
    <3> QED
      BY <3>1 DEF InOrder, Progressed
  <2>2. CASE v = u
    <3>1. heap[v].live /\ heap[v].ring = e.ring /\ Notes(v, e)
      BY <1>1, <1>2, <2>2, TransferAssumption
    <3>2. InOrder(v) /\ Progressed(v) /\ ring' = ring /\ acked' = acked
      BY <1>1, <3>1 DEF UrbsInv
    <3>3. heap'[v].trbs = heap[v].trbs /\ heap'[v].ring = heap[v].ring
      BY <3>1 DEF Notes
    <3>4. InOrder(v)'
      BY <3>2, <3>3 DEF InOrder
    <3>5. Progressed(v)'
      <4>1. CASE e.code = "ok"
        BY <1>5, <3>1, <3>2, <3>3, <4>1 DEF Progressed, Notes
      <4>2. CASE e.code # "ok"
        BY <3>1, <3>2, <3>3, <4>2 DEF Progressed, Notes
      <4> QED
        BY <4>1, <4>2
    <3> QED
      BY <3>4, <3>5
  <2> QED
    BY <2>1, <2>2
<1> QED
  BY <1>4, <1>6 DEF UrbsInv

-----------------------------------------------------------------------------
(* The steps of the xHC.                                                   *)

(* Nothing is skipped, or all.                                             *)
LEMMA SkippedIs ==
  ASSUME NEW q \in Seq(Trbs), NEW ids
  PROVE  /\ ids = {} => Skipped(q, ids) = q
         /\ (\A i \in 1 .. Len(q) : q[i].id \in ids) => Skipped(q, ids) = <<>>
<1> DEFINE at == {i \in 1 .. Len(q) : q[i].id \in ids}
<1>1. Len(q) \in Nat /\ Skipped(q, ids) = IF at = {} THEN q ELSE SubSeq(q, Max(at) + 1, Len(q))
  BY SeqIsFunction DEF Skipped
<1>2. ASSUME ids = {} PROVE Skipped(q, ids) = q
  BY <1>1, <1>2
<1>3. ASSUME \A i \in 1 .. Len(q) : q[i].id \in ids PROVE Skipped(q, ids) = <<>>
  <2>1. at = 1 .. Len(q)
    BY <1>3
  <2> HIDE DEF at
  <2>2. CASE Len(q) = 0
    <3>1. at = {}
      BY <2>1, <2>2
    <3> QED
      BY <1>1, <2>2, <3>1
  <2>3. CASE Len(q) # 0
    <3> DEFINE n == Len(q)
    <3>0. n \in Nat /\ n # 0 /\ at = 1 .. n
      BY <1>1, <2>1, <2>3
    <3> HIDE DEF n
    <3>1. n \in at /\ at # {} /\ at \subseteq 1 .. n
      <4>1. n \in 1 .. n
        BY <3>0
      <4> QED
        BY <3>0, <4>1, Zenon
    <3>2. Max(at) \in at /\ \A i \in at : i <= Max(at)
      BY <3>0, <3>1, Extremes
    <3>3. Max(at) = n
      BY <3>0, <3>1, <3>2
    <3>4. SubSeq(q, Len(q) + 1, Len(q)) = <<>>
      BY <1>1, SubSeqEmpty
    <3> QED
      BY <1>1, <3>1, <3>3, <3>4 DEF n
  <2> QED
    BY <2>2, <2>3
<1> QED
  BY <1>2, <1>3

(* A TRB of an endpoint: it is completed, or it fails and stays.           *)
LEMMA CompleteTrbDoes ==
  ASSUME Typed, NEW ep \in Eps, CompleteTrb(ep)
  PROVE  /\ XhcStep /\ Len(events) < MaxEvents /\ ring[ep] # <<>> /\ state[ep] = "running"
         /\ \E e \in Events :
              /\ events' = Append(events, e) /\ e.ring = ep /\ e.id = ring[ep][1].id
              /\ \/ /\ e.code = "ok" /\ Completes(ep) /\ UNCHANGED state
                    /\ \A q \in Rings \ {ep} : ring'[q] = ring[q] /\ acked'[q] = acked[q]
                 \/ /\ e.code # "ok" /\ UNCHANGED <<ring, acked>>
                    /\ state' = [state EXCEPT ![ep] = "halted"]
<1> DEFINE id == ring[ep][1].id
<1>1. ep \in Rings /\ ring[ep] # <<>> /\ state[ep] = "running"
  BY DEF Rings, CompleteTrb
<1>2. ring[ep] \in Seq(Trbs) /\ id \in Nat
  <2>1. ring[ep] \in Seq(Trbs) /\ ring[ep][1] \in Trbs
    BY <1>1, TypesAre, WithoutFirst
  <2> QED
    BY <2>1 DEF Trbs
<1>3. PICK code \in {"ok", "stall", "error"} :
        /\ Post(ep, id, code)
        /\ \/ /\ code = "ok" /\ ring' = [ring EXCEPT ![ep] = Tail(@)] /\ UNCHANGED state
              /\ acked' = [acked EXCEPT ![ep] = @ \cup {id}]
           \/ code # "ok" /\ state' = [state EXCEPT ![ep] = "halted"] /\ UNCHANGED <<ring, acked>>
  BY DEF CompleteTrb
<1> DEFINE e == [ring |-> ep, id |-> id, code |-> code]
<1>4. e \in Events /\ e.ring = ep /\ e.id = id /\ e.code = code
  BY <1>1, <1>2 DEF Events
<1>5. /\ Len(events) < MaxEvents /\ events' = Append(events, e)
      /\ UNCHANGED <<heap, link, mUrb, mNext, cb, pc, chk, found, cur, recovery, abandoned>>
  BY <1>3 DEF Post, listVars
<1> HIDE DEF e
<1>6. ring \in [Rings -> Seq(Trbs)] /\ acked \in [Rings -> SUBSET Nat]
  BY DEF Typed
<1>7. CASE code = "ok" /\ ring' = [ring EXCEPT ![ep] = Tail(@)] /\ UNCHANGED state
             /\ acked' = [acked EXCEPT ![ep] = @ \cup {id}]
  <2>1. Tail(ring[ep]) \in Seq(Trbs)
    BY <1>1, <1>2, WithoutFirst
  <2>2. /\ ring' \in [Rings -> Seq(Trbs)] /\ acked' \in [Rings -> SUBSET Nat]
        /\ ring'[ep] = Tail(ring[ep]) /\ acked'[ep] = acked[ep] \cup {id}
        /\ \A q \in Rings \ {ep} : ring'[q] = ring[q] /\ acked'[q] = acked[q]
    BY <1>1, <1>2, <1>6, <1>7, <2>1
  <2>3. Completes(ep)
    BY <1>1, <2>2 DEF Completes
  <2>4. e.id \in acked'[e.ring]
    BY <1>4, <2>2
  <2>5. \A q \in Rings : RingStep(q)
    BY <2>2, <2>3 DEF RingStep
  <2>6. XhcStep
    BY <1>4, <1>5, <2>2, <2>4, <2>5 DEF XhcStep
  <2> QED
    BY <1>1, <1>4, <1>5, <1>7, <2>2, <2>3, <2>6
<1>8. CASE code # "ok" /\ state' = [state EXCEPT ![ep] = "halted"] /\ UNCHANGED <<ring, acked>>
  <2>1. \A q \in Rings : RingStep(q)
    BY <1>8 DEF RingStep
  <2>2. XhcStep
    BY <1>4, <1>5, <1>6, <1>8, <2>1 DEF XhcStep
  <2> QED
    BY <1>1, <1>4, <1>5, <1>8, <2>2
<1> QED
  BY <1>3, <1>7, <1>8

(* A command is executed, or it is answered with an error.                 *)
LEMMA ExecuteCommandDoes ==
  ASSUME Typed, CommandsInv, ExecuteCommand, NEW trb, trb = ring[Cmd][1], NEW ep, ep = trb.job.ep
  PROVE  /\ XhcStep /\ Len(events) < MaxEvents /\ ring[Cmd] # <<>> /\ ep \in SyncEps /\ CommandIs(trb, 1)
         /\ ring'[Cmd] = Tail(ring[Cmd])
         /\ \A q \in Rings \ {Cmd} : acked'[q] = acked[q]
         /\ \E e \in Events :
              /\ events' = Append(events, e) /\ e.ring = Cmd /\ e.id = trb.id
              /\ \/ /\ e.code = "ok" /\ Completes(Cmd) /\ state[ep] = Needs[trb.job.op]
                    /\ state' = [state EXCEPT ![ep] = "stopped"]
                    /\ ring'[ep] = IF trb.job.op = "deq" THEN <<>> ELSE ring[ep]
                    /\ \A q \in Rings \ {Cmd, ep} : ring'[q] = ring[q]
                 \/ /\ e.code # "ok" /\ UNCHANGED <<state, acked>>
                    /\ \A q \in Rings \ {Cmd} : ring'[q] = ring[q]
<1>1. ring[Cmd] # <<>> /\ Cmd \in Rings
  BY DEF ExecuteCommand, Rings
<1>2. ring[Cmd] \in Seq(Trbs) /\ trb \in Trbs /\ trb.id \in Nat /\ Len(ring[Cmd]) \in Nat \ {0}
      /\ Tail(ring[Cmd]) \in Seq(Trbs)
  <2>1. ring[Cmd] \in Seq(Trbs) /\ trb \in Trbs /\ Len(ring[Cmd]) \in Nat \ {0} /\ Tail(ring[Cmd]) \in Seq(Trbs)
    BY <1>1, TypesAre, WithoutFirst
  <2> QED
    BY <2>1 DEF Trbs
<1>3. CommandIs(trb, 1)
  <2>1. 1 \in 1 .. Len(ring[Cmd])
    BY <1>2
  <2> QED
    BY <2>1 DEF CommandsInv
<1>4. ep \in SyncEps /\ ep \in Rings /\ ep # Cmd /\ ring[ep] \in Seq(Trbs)
  <2>1. ep \in SyncEps
    BY <1>3 DEF CommandIs
  <2> QED
    BY <2>1, TransferAssumption, TypesAre DEF Rings, Eps
<1>5. PICK code \in {"ok", "error"} :
        /\ Post(Cmd, trb.id, code)
        /\ \/ /\ code = "ok" /\ state[ep] = Needs[trb.job.op]
              /\ state' = [state EXCEPT ![ep] = "stopped"]
              /\ ring' = [ring EXCEPT ![Cmd] = Tail(@), ![ep] = Skipped(@, trb.job.skip)]
              /\ acked' = [acked EXCEPT ![Cmd] = @ \cup {trb.id}]
           \/ code # "ok" /\ ring' = [ring EXCEPT ![Cmd] = Tail(@)] /\ UNCHANGED <<state, acked>>
  BY DEF ExecuteCommand
<1> DEFINE e == [ring |-> Cmd, id |-> trb.id, code |-> code]
<1>6. e \in Events /\ e.ring = Cmd /\ e.id = trb.id /\ e.code = code
  BY <1>1, <1>2 DEF Events
<1>7. /\ Len(events) < MaxEvents /\ events' = Append(events, e)
      /\ UNCHANGED <<heap, link, mUrb, mNext, cb, pc, chk, found, cur, recovery, abandoned>>
  BY <1>5 DEF Post, listVars
<1> HIDE DEF e
<1>8. ring \in [Rings -> Seq(Trbs)] /\ acked \in [Rings -> SUBSET Nat]
  BY DEF Typed
<1>9. CASE /\ code = "ok" /\ state[ep] = Needs[trb.job.op]
           /\ state' = [state EXCEPT ![ep] = "stopped"]
           /\ ring' = [ring EXCEPT ![Cmd] = Tail(@), ![ep] = Skipped(@, trb.job.skip)]
           /\ acked' = [acked EXCEPT ![Cmd] = @ \cup {trb.id}]
  <2>1. Skipped(ring[ep], trb.job.skip) = IF trb.job.op = "deq" THEN <<>> ELSE ring[ep]
    <3>1. CASE trb.job.op = "deq"
      <4>1. state[ep] = "stopped"
        BY <1>9, <3>1 DEF Needs
      <4>2. \A j \in 1 .. Len(ring[ep]) : ring[ep][j].id \in trb.job.skip
        BY <1>3, <3>1, <4>1 DEF CommandIs
      <4> QED
        BY <1>4, <3>1, <4>2, SkippedIs
    <3>2. CASE trb.job.op # "deq"
      <4>1. trb.job.skip = {}
        BY <1>3, <3>2 DEF CommandIs
      <4> QED
        BY <1>4, <3>2, <4>1, SkippedIs
    <3> QED
      BY <3>1, <3>2
  <2> DEFINE rest == IF trb.job.op = "deq" THEN <<>> ELSE ring[ep]
  <2>2. ring' = [ring EXCEPT ![Cmd] = Tail(@), ![ep] = rest] /\ rest \in Seq(Trbs)
    BY <1>4, <1>8, <1>9, <2>1
  <2>3. ring'[ep] = rest /\ (rest = ring[ep] \/ rest = <<>>)
    <3> HIDE DEF rest
    <3>1. ring'[ep] = rest
      BY <1>1, <1>4, <1>8, <2>2
    <3> QED
      BY <3>1 DEF rest
  <2> HIDE DEF rest
  <2>4. /\ ring' \in [Rings -> Seq(Trbs)] /\ acked' \in [Rings -> SUBSET Nat]
        /\ ring'[Cmd] = Tail(ring[Cmd]) /\ acked'[Cmd] = acked[Cmd] \cup {trb.id}
        /\ \A q \in Rings \ {Cmd, ep} : ring'[q] = ring[q]
        /\ \A q \in Rings \ {Cmd} : acked'[q] = acked[q]
    <3>1. /\ ring' \in [Rings -> Seq(Trbs)] /\ ring'[Cmd] = Tail(ring[Cmd])
          /\ \A q \in Rings \ {Cmd, ep} : ring'[q] = ring[q]
      <4> DEFINE new == Tail(ring[Cmd])
      <4>1. new \in Seq(Trbs) /\ ring' = [ring EXCEPT ![Cmd] = new, ![ep] = rest]
        BY <1>2, <2>2
      <4> HIDE DEF new
      <4>2. ring' \in [Rings -> Seq(Trbs)] /\ ring'[Cmd] = new /\ \A q \in Rings \ {Cmd, ep} : ring'[q] = ring[q]
        <5>1. ring' \in [Rings -> Seq(Trbs)]
          BY <1>1, <1>4, <1>8, <2>2, <4>1
        <5>2. ring'[Cmd] = new
          BY <1>1, <1>4, <1>8, <4>1
        <5>3. \A q \in Rings \ {Cmd, ep} : ring'[q] = ring[q]
          BY <1>8, <4>1
        <5> QED
          BY <5>1, <5>2, <5>3
      <4> QED
        BY <4>2 DEF new
    <3>2. /\ acked' \in [Rings -> SUBSET Nat] /\ acked'[Cmd] = acked[Cmd] \cup {trb.id}
          /\ \A q \in Rings \ {Cmd} : acked'[q] = acked[q]
      BY <1>1, <1>2, <1>8, <1>9
    <3> QED
      BY <3>1, <3>2
  <2>5. Completes(Cmd)
    BY <1>1, <2>4 DEF Completes
  <2>6. \A q \in Rings : RingStep(q)
    BY <2>3, <2>4, <2>5 DEF RingStep
  <2>7. e.id \in acked'[e.ring]
    BY <1>6, <2>4
  <2>8. XhcStep
    BY <1>6, <1>7, <2>4, <2>6, <2>7 DEF XhcStep
  <2>9. ring'[ep] = IF trb.job.op = "deq" THEN <<>> ELSE ring[ep]
    BY <2>3 DEF rest
  <2>10. code = "ok" /\ state[ep] = Needs[trb.job.op] /\ state' = [state EXCEPT ![ep] = "stopped"]
    BY <1>9
  <2> QED
    BY <1>1, <1>3, <1>4, <1>6, <1>7, <2>4, <2>5, <2>8, <2>9, <2>10
<1>10. CASE code # "ok" /\ ring' = [ring EXCEPT ![Cmd] = Tail(@)] /\ UNCHANGED <<state, acked>>
  <2>1. ring' \in [Rings -> Seq(Trbs)] /\ ring'[Cmd] = Tail(ring[Cmd]) /\ \A q \in Rings \ {Cmd} : ring'[q] = ring[q]
    BY <1>1, <1>2, <1>8, <1>10
  <2>2. \A q \in Rings : RingStep(q)
    BY <1>1, <1>10, <2>1 DEF RingStep
  <2>3. XhcStep
    BY <1>6, <1>7, <1>8, <1>10, <2>1, <2>2 DEF XhcStep
  <2> QED
    BY <1>1, <1>3, <1>4, <1>6, <1>7, <1>10, <2>1, <2>3
<1> QED
  BY <1>5, <1>9, <1>10

-----------------------------------------------------------------------------
(* The steps of the driver that put TRBs.                                  *)

(* The fields of a URB that is created.                                    *)
LEMMA NewUrbIs ==
  ASSUME NEW kind \in {"sync", "async", "cmd"}, NEW r \in Rings, NEW t \in Seq(Nat),
         NEW urb, urb = NewUrb(kind, r, t)
  PROVE  /\ urb \in Urb /\ urb.live /\ urb.kind = kind /\ urb.ring = r /\ urb.trbs = t
         /\ ~urb.startDone /\ ~urb.endDone /\ ~urb.finished /\ urb.result = {}
  BY DEF NewUrb, Urb

(* The URB u is set, and no other one.                                     *)
HeapSets(u, urb) ==
  /\ heap' \in [Urbs -> Urb] /\ heap'[u] = urb
  /\ \A v \in Urbs \ {u} : heap'[v] = heap[v]

(* An assignment to one URB sets it and leaves the others.                 *)
LEMMA HeapIsSet ==
  ASSUME Typed, NEW u \in Urbs, NEW urb \in Urb, heap' = [heap EXCEPT ![u] = urb]
  PROVE  HeapSets(u, urb)
  BY DEF HeapSets, Typed, TypeOK

(* What the submission of a synchronous transfer changes.                  *)
LEMMA SubmitSyncDoes ==
  ASSUME Typed, NEW ep \in SyncEps, NEW n \in 1 .. MaxTd, SubmitSync(ep, n)
  PROVE  /\ pc = "user" /\ cb \in {"none", "error"} /\ pc' = "wait" /\ Doorbell(ep)
         /\ UNCHANGED <<link, mUrb, mNext, cb, events, found, recovery, abandoned>>
         /\ \E u \in Urbs : \E t : /\ ~heap[u].live /\ Fresh(ep, u, t) /\ Put(ep, t, Transfer)
                            /\ HeapSets(u, NewUrb("sync", ep, t)) /\ cur' = u /\ chk' = u
<1>1. PICK u \in Alloc(Dead) :
        /\ HasRoom(ep, u, n)
        /\ heap' = [heap EXCEPT ![u] = NewUrb("sync", ep, NewTrbs(ep, u, n))]
        /\ PutTrbs(ep, NewTrbs(ep, u, n), Transfer)
        /\ cur' = u /\ chk' = u
  BY DEF SubmitSync
<1>2. u \in Urbs /\ ~heap[u].live
  BY <1>1, AllocAssumption DEF Dead
<1>3. ep \in Rings /\ n \in Nat \ {0} /\ Transfer \in Jobs
  BY TransferAssumption DEF Rings, Eps, Transfer, Jobs
<1>4. PICK t : t = NewTrbs(ep, u, n)
  OBVIOUS
<1>5. Fresh(ep, u, t) /\ Put(ep, t, Transfer)
  BY <1>1, <1>2, <1>3, <1>4, PutTrbsPuts
<1>6. HeapSets(u, NewUrb("sync", ep, t))
  <2>1. t \in Seq(Nat)
    BY <1>5 DEF Fresh
  <2>2. NewUrb("sync", ep, t) \in Urb
    BY <1>3, <2>1, NewUrbIs
  <2> QED
    BY <1>1, <1>2, <1>4, <2>2, HeapIsSet
<1>7. /\ pc = "user" /\ cb \in {"none", "error"} /\ pc' = "wait" /\ Doorbell(ep)
      /\ UNCHANGED <<link, mUrb, mNext, cb, events, found, recovery, abandoned>>
  BY DEF SubmitSync, listVars
<1> QED
  BY <1>1, <1>2, <1>5, <1>6, <1>7

(* A command, or an asynchronous transfer, is one TRB on its ring.         *)
LEMMA OneTrbIsPut ==
  ASSUME Typed, NEW u \in Urbs, NEW t, NEW job \in Jobs, NEW r \in Rings,
         HasRoom(r, u, 1), PutTrbs(r, NewTrbs(r, u, 1), job), t = NewTrbs(r, u, 1)
  PROVE  Fresh(r, u, t) /\ Len(t) = 1 /\ Put(r, t, job)
<1>1. ASSUME NEW n \in Nat \ {0}, HasRoom(r, u, n), PutTrbs(r, NewTrbs(r, u, n), job)
      PROVE  Fresh(r, u, NewTrbs(r, u, n)) /\ Len(NewTrbs(r, u, n)) = n /\ Put(r, NewTrbs(r, u, n), job)
  BY <1>1, PutTrbsPuts
<1>2. 1 \in Nat \ {0}
  OBVIOUS
<1> QED
  BY <1>1, <1>2

(* What a command does to the state, with the heap h before it.            *)
LEMMA CommandDoes ==
  ASSUME Typed, NEW op \in {"stop", "reset", "deq"}, NEW h, h \in [Urbs -> Urb],
         h[cur].ring = heap[cur].ring, heap[cur].ring \in SyncEps, Command(op, h)
  PROVE  /\ pc' = "wait" /\ recovery' = op
         /\ UNCHANGED <<link, mUrb, mNext, cb, state, events, found, cur>>
         /\ \E u \in Urbs : \E t :
              /\ ~h[u].live /\ Fresh(Cmd, u, t) /\ Len(t) = 1
              /\ Put(Cmd, t, CommandJob(op, heap[cur].ring))
              /\ heap' \in [Urbs -> Urb] /\ heap'[u] = NewUrb("cmd", Cmd, t)
              /\ \A v \in Urbs \ {u} : heap'[v] = h[v]
              /\ chk' = u
<1> DEFINE ep == heap[cur].ring
           job == CommandJob(op, ep)
<1>1. PICK u \in Urbs :
        /\ ~h[u].live /\ HasRoom(Cmd, u, 1)
        /\ heap' = [h EXCEPT ![u] = NewUrb("cmd", Cmd, NewTrbs(Cmd, u, 1))]
        /\ PutTrbs(Cmd, NewTrbs(Cmd, u, 1), job)
        /\ chk' = u
  <2>1. Alloc({v \in Urbs : ~h[v].live}) \subseteq {v \in Urbs : ~h[v].live}
    BY AllocAssumption
  <2> QED
    BY <2>1 DEF Command
<1>2. Cmd \in Rings /\ 1 \in Nat \ {0} /\ job \in Jobs
  <2>1. ep \in Rings /\ ep \in Eps \cup {None} /\ Cmd \in Rings
    BY DEF Rings, Eps
  <2>2. ring[ep] \in Seq(Trbs) /\ \A i \in DOMAIN ring[ep] : ring[ep][i].id \in Nat
    BY <2>1, TypesAre, SeqIsFunction
  <2>3. {ring[ep][i].id : i \in DOMAIN ring[ep]} \in SUBSET Nat
    BY <2>2
  <2> HIDE DEF ep
  <2>4. CASE op = "deq"
    BY <2>1, <2>3, <2>4 DEF CommandJob, Jobs
  <2>5. CASE op # "deq"
    BY <2>1, <2>5 DEF CommandJob, Jobs
  <2> QED
    BY <2>1, <2>4, <2>5
<1> HIDE DEF job
<1>3. PICK t : t = NewTrbs(Cmd, u, 1)
  OBVIOUS
<1>4. Fresh(Cmd, u, t) /\ Len(t) = 1 /\ Put(Cmd, t, job)
  <2>1. PICK r \in Rings : r = Cmd
    BY <1>2
  <2> QED
    BY <1>1, <1>2, <1>3, <2>1, OneTrbIsPut
<1>5. heap' \in [Urbs -> Urb] /\ heap'[u] = NewUrb("cmd", Cmd, t) /\ \A v \in Urbs \ {u} : heap'[v] = h[v]
  <2>1. t \in Seq(Nat)
    BY <1>4 DEF Fresh
  <2>2. NewUrb("cmd", Cmd, t) \in Urb
    BY <1>2, <2>1, NewUrbIs
  <2> QED
    BY <1>1, <1>3, <2>2
<1>6. pc' = "wait" /\ recovery' = op /\ UNCHANGED <<link, mUrb, mNext, cb, state, events, found, cur>>
  BY DEF Command, listVars
<1> QED
  BY <1>1, <1>4, <1>5, <1>6 DEF job

(* What the submission of an asynchronous transfer changes.                *)
LEMMA SubmitAsyncDoes ==
  ASSUME Typed, ListInv, NEW ep \in IntEps, SubmitAsync(ep)
  PROVE  /\ pc = "user" /\ Doorbell(ep) /\ \A i \in 1 .. Len(List) : heap[List[i]].ring # ep
         /\ \/ cb = "none" /\ cb' = "none"
            \/ cb = "deleted" /\ ep = heap[mUrb].ring /\ cb' = "resubmitted"
         /\ UNCHANGED <<events, pc, chk, found, cur, recovery, mUrb, mNext, abandoned>>
         /\ \E u \in Urbs : \E t :
              /\ ~heap[u].live /\ Fresh(ep, u, t) /\ Len(t) = 1 /\ Put(ep, t, Transfer)
              /\ HeapSets(u, NewUrb("async", ep, t))
              /\ link' = [link EXCEPT ![u] = link[ListHead], ![ListHead] = u]
<1>1. PICK u \in Alloc(Dead) :
        /\ HasRoom(ep, u, 2)
        /\ heap' = [heap EXCEPT ![u] = NewUrb("async", ep, NewTrbs(ep, u, 1))]
        /\ PutTrbs(ep, NewTrbs(ep, u, 1), Transfer)
        /\ link' = Inserted(u)
  BY DEF SubmitAsync
<1>2. u \in Urbs /\ ~heap[u].live
  BY <1>1, AllocAssumption DEF Dead
<1>3. ep \in Rings /\ 1 \in Nat \ {0} /\ Transfer \in Jobs
  BY DEF Rings, Eps, Transfer, Jobs
<1>4. PICK t : t = NewTrbs(ep, u, 1)
  OBVIOUS
<1>5. HasRoom(ep, u, 1)
  <2> DEFINE free == TrbIds(ep) \ InUse(ep, u)
  <2>1. IsFiniteSet(free)
    <3> DEFINE top == Room[ep] - 1
    <3>1. 0 \in Int /\ top \in Int
      BY <1>3, TransferAssumption
    <3> HIDE DEF top
    <3>2. IsFiniteSet(0 .. top)
      BY <3>1, FS_Interval
    <3>3. free \in SUBSET (0 .. top)
      BY DEF TrbIds, top
    <3> HIDE DEF free
    <3> QED
      BY <3>2, <3>3, FS_Subset
  <2>2. Cardinality(free) \in Nat
    <3> HIDE DEF free
    <3> QED
      BY <2>1, FS_CardinalityType
  <2>3. Cardinality(free) >= 2
    BY <1>1 DEF HasRoom
  <2>4. Cardinality(free) >= 1
    <3> HIDE DEF free
    <3> QED
      BY <2>2, <2>3
  <2> QED
    BY <2>4 DEF HasRoom
<1>6. Fresh(ep, u, t) /\ Len(t) = 1 /\ Put(ep, t, Transfer)
  BY <1>1, <1>2, <1>3, <1>4, <1>5, OneTrbIsPut
<1>7. HeapSets(u, NewUrb("async", ep, t))
  <2>1. t \in Seq(Nat)
    BY <1>6 DEF Fresh
  <2>2. NewUrb("async", ep, t) \in Urb
    BY <1>3, <2>1, NewUrbIs
  <2> QED
    BY <1>1, <1>2, <1>4, <2>2, HeapIsSet
<1>8. link' = [link EXCEPT ![u] = link[ListHead], ![ListHead] = u]
  BY <1>1 DEF Inserted
<1>9. \A i \in 1 .. Len(List) : heap[List[i]].ring # ep
  <2> DEFINE us == {v \in Urbs : heap[v].ring = ep}
  <2>1. List \in Seq(Urbs) /\ \A i \in 1 .. Len(List) : List[i] \in Urbs /\ List[i] # None
    BY ChainIs DEF ListInv, ListOf
  <2>2. FirstOf(us) = None
    BY DEF SubmitAsync, Listed
  <2> HIDE DEF us
  <2>3. \A i \in 1 .. Len(List) : List[i] \notin us
    BY <2>1, <2>2, FirstIs
  <2> QED
    BY <2>1, <2>3 DEF us
<1>10. /\ pc = "user" /\ Doorbell(ep)
       /\ \/ cb = "none" /\ cb' = "none"
          \/ cb = "deleted" /\ ep = heap[mUrb].ring /\ cb' = "resubmitted"
       /\ UNCHANGED <<events, pc, chk, found, cur, recovery, mUrb, mNext, abandoned>>
  BY DEF SubmitAsync
<1> QED
  BY <1>1, <1>2, <1>6, <1>7, <1>8, <1>9, <1>10

(* What XhcUpdateAsyncRequest changes: it submits the URB again, or none.  *)
LEMMA UpdateDoes ==
  ASSUME Typed, NEW u \in Urbs, UpdateAsyncRequest(u), heap[u].result = {} => Len(heap[u].trbs) > 0,
         NEW r, r = heap[u].ring
  PROVE  \/ /\ heap[u].result = {} /\ Doorbell(r)
            /\ \E t : /\ Fresh(r, u, t) /\ Len(t) = Len(heap[u].trbs) /\ Put(r, t, Transfer)
                      /\ HeapSets(u, [NewUrb(heap[u].kind, r, t) EXCEPT !.live = heap[u].live])
         \/ (heap[u].result # {} \/ heap[u].kind = "cmd") /\ UNCHANGED <<heap, ring, state, acked>>
<1>1. CASE heap[u].result # {} \/ heap[u].kind = "cmd"
  BY <1>1 DEF UpdateAsyncRequest, ringVars
<1>2. CASE heap[u].result = {} /\ heap[u].kind # "cmd"
  <2> DEFINE n == Len(heap[u].trbs)
             old == heap[u]
  <2>1. /\ HasRoom(r, u, n) /\ PutTrbs(r, NewTrbs(r, u, n), Transfer) /\ Doorbell(r)
        /\ heap' = [heap EXCEPT ![u] = [NewUrb(old.kind, r, NewTrbs(r, u, n)) EXCEPT !.live = old.live]]
    BY <1>2 DEF UpdateAsyncRequest, Typed, TypeOK
  <2>2. r \in Rings /\ n \in Nat \ {0} /\ Transfer \in Jobs /\ old \in Urb
    BY <1>2, TypesAre DEF Transfer, Jobs
  <2> HIDE DEF n
  <2>3. PICK t : t = NewTrbs(r, u, n)
    OBVIOUS
  <2>4. Fresh(r, u, t) /\ Len(t) = n /\ Put(r, t, Transfer)
    BY <2>1, <2>2, <2>3, PutTrbsPuts
  <2> DEFINE new == [NewUrb(old.kind, r, t) EXCEPT !.live = old.live]
  <2>5. new \in Urb
    <3>1. t \in Seq(Nat)
      BY <2>4 DEF Fresh
    <3> QED
      BY <2>2, <3>1 DEF NewUrb, Urb
  <2>6. HeapSets(u, new)
    <3>1. heap' = [heap EXCEPT ![u] = new]
      BY <2>1, <2>3
    <3> HIDE DEF new
    <3> QED
      BY <2>5, <3>1, HeapIsSet
  <2> QED
    BY <1>2, <2>1, <2>4, <2>6 DEF n
<1> QED
  BY <1>1, <1>2

-----------------------------------------------------------------------------
(* The list and the round, step by step.                                   *)

(* The list depends on the links only.                                     *)
LEMMA ListStays ==
  ASSUME link' = link
  PROVE  List' = List
  BY DEF List, From

(* A sequence that the links lead through is the list, now and next.       *)
OneList == \A s : ListOf(s) => List = s /\ ListInv

(* Such a sequence is unique.                                              *)
LEMMA ListOfIs == OneList
  BY ListIs DEF ListOf, ListInv, OneList

(* In the next state too.                                                  *)
LEMMA ListOfIsNext == OneList'
  BY ListOfIs, PTL

(* A sequence that will be the list names the next list.                   *)
LEMMA ListIsNext ==
  ASSUME NEW s, ListOf(s)'
  PROVE  List' = s /\ ListInv'
  BY ListOfIsNext DEF OneList

(* Who is in the list: the live URBs of asynchronous transfers, and not    *)
(* the one that a caller waits for.                                        *)
LEMMA WhoIsListed ==
  ASSUME Typed, Control, ListInv
  PROVE  /\ List \in Seq(Urbs) /\ Len(List) \in Nat /\ Chain(link, link[ListHead], List)
         /\ \A i \in 1 .. Len(List) : List[i] \in Urbs /\ List[i] # ListHead /\ List[i] # None
         /\ \A i \in 1 .. Len(List) : IsListed(heap, List[i])
         /\ \A i, j \in 1 .. Len(List) : heap[List[i]].ring = heap[List[j]].ring => i = j
         /\ \A u \in Urbs : heap[u].live /\ heap[u].ring \in IntEps => \E i \in 1 .. Len(List) : u = List[i]
         /\ \A u \in Urbs : heap[u].live /\ cur = None => \E i \in 1 .. Len(List) : u = List[i]
         /\ cur # None => \A i \in 1 .. Len(List) : List[i] \notin {cur, chk}
<1>1. ListOf(List)
  BY DEF ListInv
<1>2. /\ Chain(link, link[ListHead], List)
      /\ \A i \in 1 .. Len(List) : IsListed(heap, List[i])
      /\ \A i, j \in 1 .. Len(List) : heap[List[i]].ring = heap[List[j]].ring => i = j
      /\ \A u \in Urbs : heap[u].live => \/ cur # None /\ u \in {cur, chk}
                                         \/ \E i \in 1 .. Len(List) : u = List[i]
  BY <1>1 DEF ListOf
<1>3. /\ List \in Seq(Urbs) /\ Len(List) \in Nat
      /\ \A i \in 1 .. Len(List) : List[i] \in Urbs /\ List[i] # ListHead /\ List[i] # None
  BY <1>2, ChainIs
<1>4. cur # None => heap[cur].ring \notin IntEps /\ heap[chk].ring \notin IntEps
  <2>1. SyncEps \cap IntEps = {} /\ Cmd \notin IntEps
    BY TransferAssumption
  <2> QED
    BY <2>1 DEF Control, CurIsBusy
<1>5. \A i \in 1 .. Len(List) : heap[List[i]].ring \in IntEps
  BY <1>2 DEF IsListed
<1>6. \A u \in Urbs : heap[u].live /\ heap[u].ring \in IntEps => \E i \in 1 .. Len(List) : u = List[i]
  BY <1>2, <1>4
<1>7. cur # None => \A i \in 1 .. Len(List) : List[i] \notin {cur, chk}
  BY <1>4, <1>5
<1>8. \A u \in Urbs : heap[u].live /\ cur = None => \E i \in 1 .. Len(List) : u = List[i]
  BY <1>2
<1> QED
  BY <1>2, <1>3, <1>6, <1>7, <1>8

(* The links stay, and the URBs of the list stay in it.                    *)
LEMMA ListKept ==
  ASSUME Typed, Control, ListInv, link' = link,
         \A i \in 1 .. Len(List) : IsListed(heap', List[i]) /\ heap'[List[i]].ring = heap[List[i]].ring,
         \A u \in Urbs : heap'[u].live => \/ cur' # None /\ u \in {cur', chk'}
                                          \/ \E i \in 1 .. Len(List) : u = List[i]
  PROVE  ListInv' /\ List' = List
<1> DEFINE s == List
<1>1. PICK q : q = s
  OBVIOUS
<1>2. /\ Chain(link, link[ListHead], s)
      /\ \A i, j \in 1 .. Len(s) : heap[s[i]].ring = heap[s[j]].ring => i = j
  BY WhoIsListed
<1> HIDE DEF s
<1>3. \A i, j \in 1 .. Len(q) : heap'[q[i]].ring = heap'[q[j]].ring => i = j
  BY <1>1, <1>2 DEF s
<1>4. Chain(link', link'[ListHead], q)
  BY <1>1, <1>2
<1>5. ListOf(q)'
  BY <1>1, <1>3, <1>4 DEF ListOf, s
<1> QED
  BY <1>1, <1>5, ListIsNext DEF s

(* The round goes on when what it is about stays.                          *)
LEMMA RoundKept ==
  ASSUME Typed, Control, ListInv, RoundInv, List' = List, UNCHANGED <<mUrb, mNext, cb>>,
         \A i \in 1 .. Len(List) : heap'[List[i]].ring = heap[List[i]].ring,
         mUrb # None => /\ heap'[mUrb].ring = heap[mUrb].ring /\ heap'[mUrb].live = heap[mUrb].live
                        /\ heap[mUrb].result # {} => heap'[mUrb].result # {}
                        /\ cb = "ok" => heap'[mUrb].result = heap[mUrb].result
  PROVE  RoundInv'
<1>1. SUFFICES ASSUME mUrb # None PROVE RoundInv'
  BY DEF RoundInv
<1>2. /\ heap'[mUrb].ring \in IntEps
      /\ cb \in {"none", "ok", "error"} => heap'[mUrb].live
      /\ cb = "ok" => heap'[mUrb].result = {}
      /\ cb = "error" \/ ~heap'[mUrb].live => heap'[mUrb].result # {}
  BY <1>1 DEF RoundInv
<1>3. PICK k \in 1 .. Len(List) + 1 : RestIs(List, k)
  BY <1>1 DEF RoundInv
<1>4. \A j \in k .. Len(List) : j \in 1 .. Len(List)
  BY <1>3, WhoIsListed
<1>5. RestIs(List, k)'
  BY <1>1, <1>3, <1>4 DEF RestIs
<1> QED
  BY <1>1, <1>2, <1>3, <1>5 DEF RoundInv

-----------------------------------------------------------------------------
(* The listed transfers are armed.                                         *)

(* A TRB of the ring is still there, or its event.                         *)
ArmedAt(r, id) ==
  \/ \E i \in 1 .. Len(ring[r]) : ring[r][i].id = id
  \/ \E i \in 1 .. Len(events) : events[i].ring = r /\ events[i].id = id
ArmedList == \A i \in 1 .. Len(List) :
  ~heap[List[i]].finished => ArmedAt(heap[List[i]].ring, heap[List[i]].trbs[1])

(* That is the property, as a listed transfer has one TRB.                 *)
LEMMA ArmedIs == Typed /\ ListInv => (AsyncArmed <=> ArmedList)
<1> SUFFICES ASSUME Typed, ListInv PROVE AsyncArmed <=> ArmedList
  OBVIOUS
<1>1. /\ List \in Seq(Urbs) /\ \A i \in 1 .. Len(List) : List[i] \in Urbs /\ IsListed(heap, List[i])
  BY ChainIs DEF ListInv, ListOf
<1>2. Range(List) = {List[i] : i \in 1 .. Len(List)}
  BY <1>1, SeqIsFunction
<1>3. \A u \in Urbs : Len(heap[u].trbs) = 1 => Range(heap[u].trbs) = {heap[u].trbs[1]}
  <2>1. \A t \in Seq(Nat) : Len(t) = 1 => Range(t) = {t[1]}
    <3>1. \A t \in Seq(Nat) : Range(t) = {t[i] : i \in 1 .. Len(t)}
      BY SeqIsFunction
    <3> QED
      BY <3>1
  <2> QED
    BY <2>1, TypesAre
<1>4. \A r \in Rings : DOMAIN ring[r] = 1 .. Len(ring[r])
  BY TypesAre, SeqIsFunction
<1>5. DOMAIN events = 1 .. Len(events)
  BY TypesAre, SeqIsFunction
<1>6. ASSUME NEW i \in 1 .. Len(List)
      PROVE  LET u == List[i]
                 r == heap[u].ring
             IN  ArmedAt(r, heap[u].trbs[1]) <=>
                   \/ \E j \in DOMAIN ring[r] : ring[r][j].id \in Range(heap[u].trbs)
                   \/ \E j \in DOMAIN events : events[j].ring = r /\ events[j].id \in Range(heap[u].trbs)
  <2>1. PICK u \in Urbs : u = List[i] /\ IsListed(heap, u)
    BY <1>1
  <2>2. PICK r \in Rings : r = heap[u].ring
    BY TypesAre
  <2>3. Range(heap[u].trbs) = {heap[u].trbs[1]}
    BY <1>3, <2>1 DEF IsListed
  <2> QED
    BY <1>4, <1>5, <2>1, <2>2, <2>3 DEF ArmedAt
<1> QED
  BY <1>2, <1>6 DEF AsyncArmed, ArmedList

(* The same in the next state.                                             *)
LEMMA ArmedIsNext == (Typed /\ ListInv => (AsyncArmed <=> ArmedList))'
  BY ArmedIs, PTL

(* Nothing that arms a transfer goes away.                                 *)
LEMMA ArmedKept ==
  ASSUME Typed, ListInv, AsyncArmed, Typed', ListInv',
         NEW s, s = List', \A i \in 1 .. Len(s) :
           ~heap'[s[i]].finished =>
             \/ /\ \E j \in 1 .. Len(List) : s[i] = List[j]
                /\ ~heap[s[i]].finished
                /\ heap'[s[i]].ring = heap[s[i]].ring /\ heap'[s[i]].trbs = heap[s[i]].trbs
             \/ ArmedAt(heap[s[i]].ring, heap[s[i]].trbs[1])',
         \A r \in IntEps, id \in Nat : ArmedAt(r, id) => ArmedAt(r, id)'
  PROVE  AsyncArmed'
<1>1. ASSUME NEW j \in 1 .. Len(List)
      PROVE  heap[List[j]].ring \in IntEps /\ heap[List[j]].trbs[1] \in Nat
  <2>1. List[j] \in Urbs /\ IsListed(heap, List[j])
    BY ChainIs DEF ListInv, ListOf
  <2>2. PICK t \in Seq(Nat) : t = heap[List[j]].trbs
    BY <2>1, TypesAre
  <2>3. Len(t) = 1 => t[1] \in Nat
    BY <2>2
  <2> QED
    BY <2>1, <2>2, <2>3 DEF IsListed
<1>2. ArmedList
  BY ArmedIs
<1>3. \A i \in 1 .. Len(s) : ~heap'[s[i]].finished => ArmedAt(heap[s[i]].ring, heap[s[i]].trbs[1])'
  <2>1. SUFFICES ASSUME NEW i \in 1 .. Len(s), ~heap'[s[i]].finished
                 PROVE  ArmedAt(heap[s[i]].ring, heap[s[i]].trbs[1])'
    OBVIOUS
  <2>2. PICK u : u = s[i]
    OBVIOUS
  <2>3. SUFFICES ASSUME NEW j \in 1 .. Len(List), u = List[j],
                        ~heap[u].finished, heap'[u].ring = heap[u].ring, heap'[u].trbs = heap[u].trbs
                 PROVE  ArmedAt(heap[u].ring, heap[u].trbs[1])'
    BY <2>1, <2>2
  <2>4. PICK r \in IntEps, id \in Nat : r = heap[u].ring /\ id = heap[u].trbs[1]
    BY <1>1, <2>3
  <2>5. ArmedAt(r, id)
    BY <1>2, <2>3, <2>4 DEF ArmedList
  <2>6. ArmedAt(r, id)'
    BY <2>5
  <2> QED
    BY <2>3, <2>4, <2>6 DEF ArmedAt
<1>4. ArmedList'
  BY <1>3 DEF ArmedList
<1> QED
  BY <1>4, ArmedIsNext

-----------------------------------------------------------------------------
(* Steps of the driver that change neither URBs nor TRBs.                  *)

NoEffect ==
  /\ UNCHANGED <<heap, link, ring, state, acked, events, cur, recovery, abandoned>>
  /\ cur # None => chk' = chk

(* What is about URBs, TRBs and events is as it was.                       *)
LEMMA NoEffectKeeps ==
  ASSUME Inv, NoEffect
  PROVE  /\ ListInv' /\ List' = List /\ TrbInv' /\ UrbsInv'
         /\ CommandsInv' /\ RecoveryInv' /\ IdleInv' /\ BusyInv'
         /\ Typed' => AsyncArmed'
<1>1. Typed /\ Control /\ ListInv /\ TrbInv /\ UrbsInv /\ CommandsInv /\ RecoveryInv /\ IdleInv /\ BusyInv
      /\ AsyncArmed
  BY DEF Inv
<1>2. UNCHANGED <<heap, link, ring, state, acked, events, cur, recovery, abandoned>>
  BY DEF NoEffect
<1>3. ListInv' /\ List' = List
  <2>1. \A i \in 1 .. Len(List) : IsListed(heap', List[i]) /\ heap'[List[i]].ring = heap[List[i]].ring
    BY <1>1, <1>2, WhoIsListed
  <2>2. \A u \in Urbs : heap[u].live => \/ cur # None /\ u \in {cur, chk}
                                        \/ \E i \in 1 .. Len(List) : u = List[i]
    BY <1>1 DEF ListInv, ListOf
  <2>3. \A u \in Urbs : heap'[u].live => \/ cur' # None /\ u \in {cur', chk'}
                                         \/ \E i \in 1 .. Len(List) : u = List[i]
    BY <1>2, <2>2 DEF NoEffect
  <2> QED
    BY <1>1, <1>2, <2>1, <2>3, ListKept
<1>4. TrbInv' /\ UrbsInv'
  BY <1>1, <1>2, FreeKeepsTrbs
<1>5. CommandsInv'
  BY <1>1, <1>2 DEF CommandsInv, CommandIs
<1>6. IdleInv' /\ BusyInv'
  BY <1>1, <1>2 DEF IdleInv, BusyInv, QuietFrom
<1>7. RecoveryInv'
  <2>1. recovery # "none" => chk' = chk
    BY <1>1 DEF Control, NoEffect
  <2> QED
    BY <1>1, <1>2, <2>1 DEF RecoveryInv, QuietFrom
<1>8. ASSUME Typed' PROVE AsyncArmed'
  <2>1. PICK s : s = List'
    OBVIOUS
  <2>2. \A r \in IntEps, id \in Nat : ArmedAt(r, id) => ArmedAt(r, id)'
    BY <1>2 DEF ArmedAt
  <2>3. \A i \in 1 .. Len(s) : ~heap'[s[i]].finished =>
           /\ \E j \in 1 .. Len(List) : s[i] = List[j]
           /\ ~heap[s[i]].finished
           /\ heap'[s[i]].ring = heap[s[i]].ring /\ heap'[s[i]].trbs = heap[s[i]].trbs
    BY <1>2, <1>3, <2>1
  <2> QED
    BY <1>1, <1>3, <1>8, <2>1, <2>2, <2>3, ArmedKept
<1> QED
  BY <1>3, <1>4, <1>5, <1>6, <1>7, <1>8

-----------------------------------------------------------------------------
(* The monitor goes from one URB to the next.                              *)

(* What the steps of the monitor say of its variables and of the checks    *)
ControlTyped ==
  /\ pc \in {"user", "wait", "check", "checked"} /\ {chk, cur, mUrb} \subseteq Urbs \cup {None}
  /\ mNext \in Urbs \cup {ListHead, None} /\ found \in 0 .. Len(events)
  /\ recovery \in {"none", "stop", "reset", "deq"}
  /\ cb \in {"none", "ok", "error", "deleted", "resubmitted"}

(* The monitor visits the k-th URB of the list.                            *)
LEMMA VisitKeeps ==
  ASSUME Typed, Control, ListInv, cur = None, NEW k \in 1 .. Len(List), NEW h, Visit(List[k], h),
         List' = List, UNCHANGED <<events, cur, recovery>>, cb' = "none",
         \A i \in 1 .. Len(List) : IsListed(heap', List[i]) /\ heap'[List[i]].ring = heap[List[i]].ring
  PROVE  ControlTyped' /\ Control' /\ RoundInv'
<1>0. PICK s : s = List
  OBVIOUS
<1>1. /\ s \in Seq(Urbs) /\ Len(s) \in Nat /\ Chain(link, link[ListHead], s)
      /\ \A i \in 1 .. Len(s) : s[i] \in Urbs /\ s[i] # ListHead /\ s[i] # None
      /\ \A i, j \in 1 .. Len(s) : heap[s[i]].ring = heap[s[j]].ring => i = j
  BY <1>0, WhoIsListed
<1>2. /\ mUrb' = s[k] /\ mNext' = link[s[k]] /\ chk' = s[k]
      /\ found' \in {0, Len(events)} /\ pc' \in {"checked", "check"}
  BY <1>0 DEF Visit
<1>3. \A i \in 1 .. Len(s) : IsListed(heap', s[i]) /\ heap'[s[i]].ring = heap[s[i]].ring
  BY <1>0
<1>4. List' = s
  BY <1>0
<1>6. k \in 1 .. Len(s)
  BY <1>0
<1>5. mNext' = IF k < Len(s) THEN s[k + 1] ELSE ListHead
  BY <1>1, <1>2, <1>6 DEF Chain
<1>7. k + 1 \in 1 .. Len(s) + 1 /\ (k < Len(s) => k + 1 \in 1 .. Len(s))
  BY <1>1, <1>6
<1>8. mNext' \in Urbs \cup {ListHead} /\ mNext' # None /\ mUrb' \in Urbs /\ mUrb' # None
  BY <1>1, <1>2, <1>5, <1>6, <1>7, TransferAssumption
<1>9. ControlTyped'
  <2>1. Len(events') \in Nat /\ events' = events
    BY TypesAre
  <2>2. found' \in 0 .. Len(events')
    BY <1>2, <2>1
  <2> QED
    BY <1>2, <1>8, <2>2 DEF ControlTyped, Typed, TypeOK
<1>10. Control'
  BY <1>2, <1>8 DEF Control
<1>11. RestIs(s, k + 1)'
  <2>1. mNext' = IF k + 1 <= Len(s) THEN s[k + 1] ELSE ListHead
    <3>1. k < Len(s) <=> k + 1 <= Len(s)
      BY <1>1, <1>6
    <3> QED
      BY <1>5, <3>1
  <2>2. ASSUME NEW j \in k + 1 .. Len(s)
        PROVE  heap'[s[j]].ring # heap'[mUrb'].ring
    <3>1. j \in 1 .. Len(s) /\ j # k
      BY <1>1, <1>6
    <3> QED
      BY <1>1, <1>2, <1>3, <1>6, <3>1
  <2> QED
    BY <1>7, <2>1, <2>2 DEF RestIs
<1>12. IsListed(heap', mUrb')
  BY <1>2, <1>3, <1>6
<1>13. \E j \in 1 .. Len(List') + 1 : RestIs(List, j)'
  <2>1. PICK j \in 1 .. Len(s) + 1 : j = k + 1
    BY <1>7
  <2>2. RestIs(List, j)'
    BY <1>4, <1>11, <2>1 DEF RestIs
  <2> QED
    BY <1>4, <2>2
<1> QED
  BY <1>9, <1>10, <1>12, <1>13 DEF RoundInv, IsListed

(* It moves on, or the round is over.                                      *)
LEMMA MoveOnKeeps ==
  ASSUME Typed, Control, ListInv, RoundInv, cur = None, mUrb # None, NEW h, MoveOn(h),
         List' = List, UNCHANGED <<events, cur, recovery>>, cb' = "none",
         \A i \in 1 .. Len(List) : IsListed(heap', List[i]) /\ heap'[List[i]].ring = heap[List[i]].ring
  PROVE  ControlTyped' /\ Control' /\ RoundInv'
<1>1. CASE mNext # ListHead
  <2>1. Visit(mNext, h)
    BY <1>1 DEF MoveOn
  <2>2. PICK k \in 1 .. Len(List) + 1 : RestIs(List, k)
    BY DEF RoundInv
  <2>3. k \in 1 .. Len(List) /\ mNext = List[k]
    <3>1. k <= Len(List) /\ mNext = List[k]
      BY <1>1, <2>2 DEF RestIs
    <3>2. Len(List) \in Nat
      BY WhoIsListed
    <3> QED
      BY <2>2, <3>1, <3>2
  <2> QED
    BY <2>1, <2>3, VisitKeeps
<1>2. CASE mNext = ListHead
  <2>1. mUrb' = None /\ mNext' = None /\ chk' = None /\ pc' = "user" /\ found' = found
    BY <1>2 DEF MoveOn
  <2>2. ControlTyped'
    BY <2>1 DEF ControlTyped, Typed, TypeOK
  <2>3. Control' /\ RoundInv'
    BY <2>1 DEF Control, RoundInv
  <2> QED
    BY <2>2, <2>3
<1> QED
  BY <1>1, <1>2

(* The typing of the variables of the control is all that can change.      *)
LEMMA TypedKept ==
  ASSUME Typed, ControlTyped', UNCHANGED <<heap, link, ring, state, acked, events, abandoned>>
  PROVE  Typed'
  BY DEF Typed, TypeOK, ControlTyped

(* A step without an effect keeps the invariant when it keeps the control. *)
LEMMA NoEffectStep ==
  ASSUME Inv, NoEffect, ControlTyped', Control', RoundInv'
  PROVE  Inv'
<1>1. Typed'
  BY TypedKept DEF Inv, NoEffect
<1> QED
  BY <1>1, NoEffectKeeps DEF Inv

(* A check begins.                                                         *)
LEMMA StartCheckStep ==
  ASSUME Inv, StartCheck
  PROVE  Inv'
<1>1. Typed /\ Control /\ ListInv /\ RoundInv
  BY DEF Inv
<1>2. /\ pc = "wait" /\ pc' = "check" /\ found' = Len(events)
      /\ UNCHANGED <<heap, link, ring, state, acked, events, cur, recovery, abandoned, chk, mUrb, mNext, cb>>
  BY DEF StartCheck, listVars, ringVars
<1>3. NoEffect
  BY <1>2 DEF NoEffect
<1>4. ControlTyped'
  <2>1. found' \in 0 .. Len(events')
    BY <1>1, <1>2, TypesAre
  <2> QED
    BY <1>1, <1>2, <2>1 DEF ControlTyped, Typed, TypeOK
<1>5. Control'
  BY <1>1, <1>2 DEF Control, CurIsBusy
<1>6. RoundInv'
  BY <1>1, <1>2, <1>3, NoEffectKeeps, RoundKept
<1> QED
  BY <1>3, <1>4, <1>5, <1>6, NoEffectStep

(* A check ends: it was the monitor's or that of a caller.                 *)
LEMMA EndCheckStep ==
  ASSUME Inv, EndCheck
  PROVE  Inv'
<1>1. Typed /\ Control /\ ListInv /\ RoundInv
  BY DEF Inv
<1>2. /\ pc = "check" /\ pc' = IF heap[chk].kind = "async" THEN "checked" ELSE "wait"
      /\ UNCHANGED <<heap, link, ring, state, acked, events, cur, recovery, abandoned, chk, mUrb, mNext, cb, found>>
  BY DEF EndCheck, listVars, ringVars
<1>3. NoEffect
  BY <1>2 DEF NoEffect
<1>4. ControlTyped'
  BY <1>1, <1>2 DEF ControlTyped, Typed, TypeOK
<1>5. Control'
  <2>1. CASE cur # None
    <3>1. heap[chk].kind # "async"
      BY <1>1, <2>1 DEF Control, CurIsBusy
    <3> QED
      BY <1>1, <1>2, <2>1, <3>1 DEF Control, CurIsBusy
  <2>2. CASE cur = None
    <3>1. mUrb # None /\ chk = mUrb /\ cb = "none" /\ recovery = "none" /\ (mUrb = None <=> mNext = None)
      BY <1>1, <1>2, <2>2 DEF Control
    <3>2. heap[chk].kind = "async"
      <4>1. chk \in Urbs /\ heap[chk].live
        BY <1>1, <1>2, CheckedIsLive
      <4>2. PICK i \in 1 .. Len(List) : chk = List[i]
        BY <1>1, <2>2, <4>1, WhoIsListed
      <4> QED
        BY <1>1, <4>2, WhoIsListed DEF IsListed
    <3> QED
      BY <1>2, <2>2, <3>1, <3>2 DEF Control
  <2> QED
    BY <2>1, <2>2
<1>6. RoundInv'
  BY <1>1, <1>2, <1>3, NoEffectKeeps, RoundKept
<1> QED
  BY <1>3, <1>4, <1>5, <1>6, NoEffectStep

(* The timer starts a round at the first URB of the list.                  *)
LEMMA MonitorStartsStep ==
  ASSUME Inv, MonitorStarts
  PROVE  Inv'
<1>1. Typed /\ Control /\ ListInv /\ RoundInv
  BY DEF Inv
<1>2. /\ pc = "user" /\ mUrb = None /\ link[ListHead] # ListHead /\ Visit(link[ListHead], heap)
      /\ UNCHANGED <<heap, link, ring, state, acked, events, cur, recovery, cb, abandoned>>
  BY DEF MonitorStarts, ringVars
<1>3. cur = None /\ cb = "none"
  BY <1>1, <1>2 DEF Control, CurIsBusy
<1>4. NoEffect
  BY <1>2, <1>3 DEF NoEffect
<1>5. 1 \in 1 .. Len(List) /\ link[ListHead] = List[1]
  BY <1>1, <1>2, WhoIsListed DEF Chain
<1>6. \A i \in 1 .. Len(List) : IsListed(heap', List[i]) /\ heap'[List[i]].ring = heap[List[i]].ring
  BY <1>1, <1>2, WhoIsListed
<1>7. ControlTyped' /\ Control' /\ RoundInv'
  <2>1. PICK k \in 1 .. Len(List) : k = 1
    BY <1>5
  <2>2. Visit(List[k], heap)
    BY <1>2, <1>5, <2>1
  <2>3. PICK h : h = heap
    OBVIOUS
  <2>4. Visit(List[k], h)
    BY <2>2, <2>3
  <2>5. List' = List
    BY <1>4, NoEffectKeeps
  <2> QED
    BY <1>1, <1>2, <1>3, <1>6, <2>4, <2>5, VisitKeeps
<1> QED
  BY <1>4, <1>7, NoEffectStep

(* The URB that was checked is not finished.                               *)
LEMMA StillActiveStep ==
  ASSUME Inv, StillActive
  PROVE  Inv'
<1>1. Typed /\ Control /\ ListInv /\ RoundInv
  BY DEF Inv
<1>2. /\ pc = "checked" /\ MoveOn(heap)
      /\ UNCHANGED <<heap, link, ring, state, acked, events, cur, recovery, cb, abandoned>>
  BY DEF StillActive, ringVars
<1>3. cur = None /\ cb = "none" /\ mUrb # None
  BY <1>1, <1>2 DEF Control, CurIsBusy
<1>4. NoEffect
  BY <1>2, <1>3 DEF NoEffect
<1>5. \A i \in 1 .. Len(List) : IsListed(heap', List[i]) /\ heap'[List[i]].ring = heap[List[i]].ring
  BY <1>1, <1>2, WhoIsListed
<1>6. ControlTyped' /\ Control' /\ RoundInv'
  <2>1. PICK h : h = heap
    OBVIOUS
  <2>2. MoveOn(h)
    BY <1>2, <2>1
  <2>3. List' = List
    BY <1>4, NoEffectKeeps
  <2> QED
    BY <1>1, <1>2, <1>3, <1>5, <2>2, <2>3, MoveOnKeeps
<1> QED
  BY <1>4, <1>6, NoEffectStep

(* The callback begins.                                                    *)
LEMMA CallBackStep ==
  ASSUME Inv, CallBack
  PROVE  Inv'
<1>1. Typed /\ Control /\ ListInv /\ RoundInv
  BY DEF Inv
<1>2. /\ pc = "checked" /\ pc' = "user" /\ chk' = None
      /\ cb' = IF heap[mUrb].result = {} THEN "ok" ELSE "error"
      /\ UNCHANGED <<heap, link, ring, state, acked, events, cur, recovery, abandoned, found, mUrb, mNext>>
  BY DEF CallBack, ringVars
<1>3. cur = None /\ mUrb # None /\ cb = "none" /\ recovery = "none" /\ mNext # None
  BY <1>1, <1>2 DEF Control, CurIsBusy
<1>4. NoEffect
  BY <1>2, <1>3 DEF NoEffect
<1>5. ControlTyped'
  BY <1>1, <1>2 DEF ControlTyped, Typed, TypeOK
<1>6. Control'
  BY <1>2, <1>3 DEF Control
<1>7. RoundInv'
  <2>1. List' = List
    BY <1>4, NoEffectKeeps
  <2>2. PICK k \in 1 .. Len(List) + 1 : RestIs(List, k)
    BY <1>1, <1>3 DEF RoundInv
  <2>3. RestIs(List, k)'
    BY <1>2, <2>1, <2>2 DEF RestIs
  <2>4. heap[mUrb].live /\ heap[mUrb].ring \in IntEps
    BY <1>1, <1>3 DEF RoundInv
  <2> QED
    BY <1>2, <2>1, <2>3, <2>4 DEF RoundInv
<1> QED
  BY <1>4, <1>5, <1>6, <1>7, NoEffectStep

-----------------------------------------------------------------------------
(* An event is handled.                                                    *)

(* What is quiet behind the first event is quiet without it.               *)
LEMMA QuietTail ==
  ASSUME Typed, events # <<>>, events' = Tail(events), NEW ep, NEW i \in Nat \ {0}, QuietFrom(ep, i + 1)
  PROVE  QuietFrom(ep, i)'
<1>1. Len(events') = Len(events) - 1 /\ Len(events) \in Nat
      /\ \A j \in 1 .. Len(events) - 1 : events'[j] = events[j + 1]
  BY TypesAre, WithoutFirst
<1>2. \A j \in i .. Len(events') : j \in 1 .. Len(events) - 1 /\ j + 1 \in i + 1 .. Len(events)
  BY <1>1
<1> QED
  BY <1>1, <1>2 DEF QuietFrom

(* The event of a listed URB is found to be that of this URB.              *)
LEMMA EventOfListed ==
  ASSUME Typed, Control, ListInv, RoundInv, pc = "check", NEW e, NEW i \in 1 .. Len(List),
         e.ring = heap[List[i]].ring, e.id = heap[List[i]].trbs[1]
  PROVE  CheckedUrb(e) = List[i]
<1>1. PICK u : u = CheckedUrb(e)
  OBVIOUS
<1>2. List[i] \in Urbs /\ IsListed(heap, List[i])
  BY WhoIsListed
<1>3. e.id \in Range(heap[List[i]].trbs)
  <2>1. PICK t \in Seq(Nat) : t = heap[List[i]].trbs
    BY <1>2, TypesAre
  <2>2. Len(t) = 1 => t[1] \in Range(t)
    BY <2>1, SeqIsFunction
  <2> QED
    BY <1>2, <2>1, <2>2 DEF IsListed
<1>4. /\ u = None => /\ heap[chk].ring # e.ring
                     /\ \A j \in 1 .. Len(List) : heap[List[j]].ring = e.ring =>
                          e.id \notin Range(heap[List[j]].trbs)
      /\ u # None => /\ u \in Urbs /\ heap[u].live /\ heap[u].ring = e.ring
                     /\ u = chk \/ \E j \in 1 .. Len(List) : u = List[j]
  BY <1>1, CheckedUrbIs
<1>5. u \in Urbs /\ heap[u].live /\ heap[u].ring = e.ring
  BY <1>3, <1>4
<1>6. PICK j \in 1 .. Len(List) : u = List[j]
  BY <1>2, <1>5, WhoIsListed DEF IsListed
<1>7. j = i
  BY <1>5, <1>6, WhoIsListed
<1> QED
  BY <1>1, <1>6, <1>7

(* The control and the list at the event                                   *)
LEMMA HandleKeepsControl ==
  ASSUME Inv, HandleEvent
  PROVE  /\ Typed' /\ Control' /\ ListInv' /\ List' = List /\ RoundInv'
         /\ \A v \in Urbs : /\ heap'[v].live = heap[v].live /\ heap'[v].kind = heap[v].kind
                            /\ heap'[v].ring = heap[v].ring /\ heap'[v].trbs = heap[v].trbs
<1>1. PICK e : e = events[1]
  OBVIOUS
<1>2. PICK u : u = CheckedUrb(e)
  OBVIOUS
<1>3. Typed /\ Control /\ ListInv /\ RoundInv
  BY DEF Inv
<1>4. /\ pc = "check" /\ found \in Nat \ {0} /\ e \in Events
      /\ UNCHANGED <<link, ring, state, acked, pc, chk, cur, recovery, mUrb, mNext, cb, abandoned>>
      /\ events # <<>> /\ events' = Tail(events) /\ found' \in {0, found - 1}
      /\ heap' \in [Urbs -> Urb]
      /\ \A v \in Urbs : v # u => heap'[v] = heap[v]
      /\ u # None => Notes(u, e)
  BY <1>1, <1>2, <1>3, HandleEventDoes
<1>5. \A v \in Urbs : /\ heap'[v].live = heap[v].live /\ heap'[v].kind = heap[v].kind
                      /\ heap'[v].ring = heap[v].ring /\ heap'[v].trbs = heap[v].trbs
                      /\ heap[v].result # {} => heap'[v].result # {}
  <2>1. u # None => u \in Urbs
    BY <1>2, <1>3, <1>4, CheckedUrbIs
  <2>2. None \notin Urbs
    BY TransferAssumption
  <2>3. SUFFICES ASSUME NEW v \in Urbs, v = u
                 PROVE  /\ heap'[v].live = heap[v].live /\ heap'[v].kind = heap[v].kind
                        /\ heap'[v].ring = heap[v].ring /\ heap'[v].trbs = heap[v].trbs
                        /\ heap[v].result # {} => heap'[v].result # {}
    BY <1>4
  <2>4. Notes(v, e)
    BY <1>4, <2>2, <2>3
  <2> QED
    BY <2>4 DEF Notes
<1>6. Typed'
  <2>1. /\ events' \in Seq(Events) /\ Len(events') = Len(events) - 1 /\ Len(events) \in Nat
    BY <1>3, <1>4, TypesAre, WithoutFirst
  <2>2. found' \in 0 .. Len(events')
    <3>1. found \in 0 .. Len(events)
      BY <1>3 DEF Typed, TypeOK
    <3> QED
      BY <1>4, <2>1, <3>1
  <2> QED
    BY <1>3, <1>4, <2>1, <2>2 DEF Typed, TypeOK
<1>7. Control'
  <2>1. chk \in Urbs
    BY <1>3, <1>4, CheckedIsLive
  <2>2. cur # None => cur \in Urbs
    BY <1>3 DEF Typed, TypeOK
  <2> QED
    BY <1>3, <1>4, <1>5, <2>1, <2>2 DEF Control, CurIsBusy
<1>8. ListInv' /\ List' = List
  <2>1. \A i \in 1 .. Len(List) : IsListed(heap', List[i]) /\ heap'[List[i]].ring = heap[List[i]].ring
    BY <1>3, <1>5, WhoIsListed DEF IsListed
  <2>2. \A v \in Urbs : heap[v].live => \/ cur # None /\ v \in {cur, chk}
                                        \/ \E i \in 1 .. Len(List) : v = List[i]
    BY <1>3 DEF ListInv, ListOf
  <2>3. \A v \in Urbs : heap'[v].live => \/ cur' # None /\ v \in {cur', chk'}
                                         \/ \E i \in 1 .. Len(List) : v = List[i]
    BY <1>4, <1>5, <2>2
  <2> QED
    BY <1>3, <1>4, <2>1, <2>3, ListKept
<1>9. RoundInv'
  <2>1. cb # "ok"
    BY <1>3, <1>4 DEF Control, CurIsBusy
  <2>2. mUrb # None => mUrb \in Urbs
    BY <1>3 DEF Typed, TypeOK
  <2>3. \A i \in 1 .. Len(List) : heap'[List[i]].ring = heap[List[i]].ring
    BY <1>3, <1>5, WhoIsListed
  <2> QED
    BY <1>3, <1>4, <1>5, <1>8, <2>1, <2>2, <2>3, RoundKept
<1> QED
  BY <1>5, <1>6, <1>7, <1>8, <1>9

(* A listed transfer loses its event only when it is finished by it.       *)
LEMMA HandleKeepsArmed ==
  ASSUME Inv, HandleEvent
  PROVE  AsyncArmed'
<1>1. PICK e : e = events[1]
  OBVIOUS
<1>2. PICK u : u = CheckedUrb(e)
  OBVIOUS
<1>3. Typed /\ Control /\ ListInv /\ RoundInv /\ UrbsInv
  BY DEF Inv
<1>4. /\ pc = "check" /\ e \in Events /\ ring' = ring
      /\ events # <<>> /\ events' = Tail(events)
      /\ \A v \in Urbs : v # u => heap'[v] = heap[v]
      /\ u # None => Notes(u, e)
  BY <1>1, <1>2, <1>3, HandleEventDoes
<1>5. /\ Typed' /\ ListInv' /\ List' = List
      /\ \A v \in Urbs : heap'[v].ring = heap[v].ring /\ heap'[v].trbs = heap[v].trbs
  BY HandleKeepsControl
<1>6. PICK s : s = List
  OBVIOUS
<1>7. \A i \in 1 .. Len(s) : s[i] \in Urbs /\ s[i] # None /\ IsListed(heap, s[i])
  BY <1>3, <1>6, WhoIsListed
<1>8. /\ Len(events) \in Nat /\ Len(events') = Len(events) - 1
      /\ \A j \in 1 .. Len(events) - 1 : events'[j] = events[j + 1]
  BY <1>3, <1>4, TypesAre, WithoutFirst
<1>9. ASSUME NEW i \in 1 .. Len(s), ~heap'[s[i]].finished
      PROVE  ArmedAt(heap[s[i]].ring, heap[s[i]].trbs[1])'
  <2>1. PICK v \in Urbs : v = s[i] /\ v # None /\ IsListed(heap, v)
    BY <1>7
  <2>2. PICK r, id : r = heap[v].ring /\ id = heap[v].trbs[1]
    OBVIOUS
  <2>3. ~(e.ring = r /\ e.id = id)
    <3>1. SUFFICES ASSUME e.ring = r, e.id = id PROVE FALSE
      OBVIOUS
    <3>2. u = v
      BY <1>2, <1>3, <1>4, <1>6, <2>1, <2>2, <3>1, EventOfListed
    <3>3. Notes(v, e) /\ Len(heap[v].trbs) = 1
      BY <1>4, <2>1, <3>2 DEF IsListed
    <3> QED
      BY <1>9, <2>1, <2>2, <3>1, <3>3 DEF Notes
  <2>4. ~heap[v].finished
    <3>1. CASE u # v
      BY <1>4, <1>9, <2>1, <3>1
    <3>2. CASE u = v
      <4>1. Notes(v, e)
        BY <1>4, <2>1, <3>2
      <4> QED
        BY <1>9, <2>1, <4>1 DEF Notes
    <3> QED
      BY <3>1, <3>2
  <2>5. ArmedAt(r, id)
    <3>1. ArmedList
      BY <1>3, ArmedIs DEF Inv
    <3> QED
      BY <1>6, <2>1, <2>2, <2>4, <3>1 DEF ArmedList
  <2>6. ArmedAt(r, id)'
    <3>1. CASE \E j \in 1 .. Len(ring[r]) : ring[r][j].id = id
      BY <1>4, <3>1 DEF ArmedAt
    <3>2. CASE \E j \in 1 .. Len(events) : events[j].ring = r /\ events[j].id = id
      <4>1. PICK j \in 1 .. Len(events) : events[j].ring = r /\ events[j].id = id
        BY <3>2
      <4>2. j # 1
        BY <1>1, <2>3, <4>1
      <4>3. j - 1 \in 1 .. Len(events) - 1 /\ j - 1 + 1 = j
        BY <1>8, <4>2
      <4>4. events'[j - 1] = events[j] /\ j - 1 \in 1 .. Len(events')
        BY <1>8, <4>3
      <4> QED
        BY <4>1, <4>4 DEF ArmedAt
    <3> QED
      BY <2>5, <3>1, <3>2 DEF ArmedAt
  <2>7. heap'[v].ring = r /\ heap'[v].trbs[1] = id
    BY <1>5, <2>2
  <2> QED
    BY <2>1, <2>6, <2>7 DEF ArmedAt
<1>10. ArmedList'
  BY <1>5, <1>6, <1>9 DEF ArmedList
<1> QED
  BY <1>5, <1>10, ArmedIsNext

(* When the last TRB of the URB waited for is acknowledged, the endpoint   *)
(* is quiet: the events are handled in their order.                        *)
LEMMA HandleKeepsQuiet ==
  ASSUME Inv, HandleEvent
  PROVE  CommandsInv' /\ RecoveryInv' /\ IdleInv' /\ BusyInv'
<1>1. PICK e : e = events[1]
  OBVIOUS
<1>2. PICK u : u = CheckedUrb(e)
  OBVIOUS
<1>3. /\ Typed /\ Control /\ ListInv /\ RoundInv /\ UrbsInv
      /\ CommandsInv /\ RecoveryInv /\ IdleInv /\ BusyInv
  BY DEF Inv
<1>4. /\ pc = "check" /\ e \in Events
      /\ UNCHANGED <<link, ring, state, acked, pc, chk, cur, recovery, mUrb, mNext, cb, abandoned>>
      /\ events # <<>> /\ events' = Tail(events)
      /\ \A v \in Urbs : v # u => heap'[v] = heap[v]
      /\ u # None => Notes(u, e)
  BY <1>1, <1>2, <1>3, HandleEventDoes
<1>5. \A v \in Urbs : heap'[v].ring = heap[v].ring /\ heap'[v].trbs = heap[v].trbs
  BY HandleKeepsControl
<1>6. /\ Len(events) \in Nat /\ Len(events) > 0 /\ Len(events') = Len(events) - 1
      /\ \A j \in 1 .. Len(events) - 1 : events'[j] = events[j + 1]
  <2>1. Len(events) \in Nat \ {0} /\ Len(events') = Len(events) - 1
      /\ \A j \in 1 .. Len(events) - 1 : events'[j] = events[j + 1]
    BY <1>3, <1>4, TypesAre, WithoutFirst
  <2> QED
    BY <2>1
<1>7. \A ep : QuietFrom(ep, 1) \/ QuietFrom(ep, 2) => QuietFrom(ep, 1)'
  <2>1. \A ep : QuietFrom(ep, 1) => QuietFrom(ep, 2)
    BY <1>6 DEF QuietFrom
  <2>2. ASSUME NEW ep, QuietFrom(ep, 2) PROVE QuietFrom(ep, 1)'
    <3>1. PICK i \in Nat \ {0} : i = 1
      OBVIOUS
    <3>2. QuietFrom(ep, i + 1)
      BY <2>2, <3>1
    <3>3. QuietFrom(ep, i)'
      BY <1>3, <1>4, <3>2, QuietTail
    <3> QED
      BY <3>1, <3>3
  <2> QED
    BY <2>1, <2>2
<1>8. \A ep : \A i \in Nat \ {0} : QuietFrom(ep, i + 1) => QuietFrom(ep, i)'
  BY <1>3, <1>4, QuietTail
<1>9. CommandsInv'
  BY <1>3, <1>4 DEF CommandsInv, CommandIs
<1>10. IdleInv'
  <2>1. cur # None => cur \in Urbs
    BY <1>3 DEF Typed, TypeOK
  <2> QED
    BY <1>3, <1>4, <1>5, <1>7, <2>1 DEF IdleInv
<1>11. ASSUME NEW v \in Urbs, v # None, v = chk, heap'[v].endDone
       PROVE  heap[v].endDone \/ (e.code = "ok" /\ e.ring = heap[v].ring /\ e.id = heap[v].trbs[Len(heap[v].trbs)])
  <2>1. CASE u # v
    BY <1>4, <1>11, <2>1
  <2>2. CASE u = v
    <3>1. Notes(v, e)
      BY <1>4, <1>11, <2>2
    <3>2. heap[u].ring = e.ring
      <4>1. u # None
        BY <1>11, <2>2
      <4> QED
        BY <1>2, <1>3, <1>4, <4>1, CheckedUrbIs
    <3> QED
      BY <1>11, <2>2, <3>1, <3>2 DEF Notes
  <2> QED
    BY <2>1, <2>2
<1>12. RecoveryInv'
  <2>1. SUFFICES ASSUME recovery # "none" PROVE RecoveryInv'
    BY <1>4 DEF RecoveryInv
  <2>2. cur # None /\ chk \in Urbs /\ cur \in Urbs /\ heap[chk].ring = Cmd /\ heap[chk].live /\ chk # None
    BY <1>3, <2>1, TransferAssumption DEF Control, CurIsBusy, Typed, TypeOK
  <2>3. PICK v, ep, id : v \in Urbs /\ v = chk /\ ep = heap[cur].ring /\ id = heap[v].trbs[1]
    BY <2>2
  <2>4. heap'[cur'].ring = ep /\ heap'[chk'].trbs[1] = id /\ chk' = v
    BY <1>4, <1>5, <2>2, <2>3
  <2>5. Len(heap[v].trbs) = 1
    BY <1>3, <2>2, <2>3 DEF UrbsInv, Progressed
  <2>6. recovery = "deq" => QuietFrom(ep, 1)'
    BY <1>3, <1>7, <2>1, <2>3 DEF RecoveryInv
  <2>7. ASSUME recovery # "deq", heap'[v].endDone
        PROVE  QuietFrom(ep, 1)'
    <3>1. CASE heap[v].endDone
      BY <1>3, <1>7, <2>1, <2>3, <2>7, <3>1 DEF RecoveryInv
    <3>2. CASE e.code = "ok" /\ e.ring = heap[v].ring /\ e.id = heap[v].trbs[Len(heap[v].trbs)]
      <4>1. 1 \in 1 .. Len(events) /\ e.ring = Cmd /\ e.id = id /\ e.code = "ok"
        BY <1>6, <2>2, <2>3, <2>5, <3>2
      <4>2. QuietFrom(ep, 1)
        BY <1>1, <1>3, <2>1, <2>3, <2>7, <4>1 DEF RecoveryInv
      <4> QED
        BY <1>7, <4>2
    <3> QED
      BY <1>11, <2>2, <2>3, <2>7, <3>1, <3>2
  <2>8. ASSUME recovery # "deq", NEW i \in 1 .. Len(events'),
               events'[i].ring = Cmd, events'[i].id = id, events'[i].code = "ok"
        PROVE  QuietFrom(ep, i)'
    <3>1. i + 1 \in 1 .. Len(events) /\ events'[i] = events[i + 1] /\ i \in Nat \ {0}
      BY <1>6
    <3>2. QuietFrom(ep, i + 1)
      BY <1>3, <2>1, <2>3, <2>8, <3>1 DEF RecoveryInv
    <3> QED
      BY <1>8, <3>1, <3>2
  <2>9. /\ Len(ring[Cmd]) > 0 => /\ ring[Cmd][Len(ring[Cmd])].id = id
                                 /\ ring[Cmd][Len(ring[Cmd])].job.op = recovery
                                 /\ ring[Cmd][Len(ring[Cmd])].job.ep = ep
        /\ recovery # "deq" => (id \in acked[Cmd] => state[ep] = "stopped")
        /\ recovery = "deq" => state[ep] = "stopped" /\ (id \in acked[Cmd] => ring[ep] = <<>>)
    BY <1>3, <2>1, <2>3 DEF RecoveryInv
  <2> QED
    BY <1>4, <2>4, <2>6, <2>7, <2>8, <2>9 DEF RecoveryInv
<1>13. BusyInv'
  <2>1. SUFFICES ASSUME cur # None, heap[cur].ring \notin abandoned PROVE BusyInv'
    <3>1. cur # None => cur \in Urbs
      BY <1>3 DEF Typed, TypeOK
    <3> QED
      BY <1>4, <1>5, <3>1 DEF BusyInv
  <2>2. PICK v, ep, t : v \in Urbs /\ v = cur /\ ep = heap[v].ring /\ t = heap[v].trbs
    BY <1>3, <2>1 DEF Typed, TypeOK
  <2>3. heap'[cur'].ring = ep /\ heap'[cur'].trbs = t /\ cur' = v /\ v # None
    BY <1>4, <1>5, <2>1, <2>2
  <2>4. \A i \in 1 .. Len(ring[ep]) : ring[ep][i].id \in Range(t)
    BY <1>3, <2>1, <2>2 DEF BusyInv
  <2>5. ASSUME recovery = "none", heap'[v].endDone
        PROVE  QuietFrom(ep, 1)'
    <3>1. chk = v
      BY <1>3, <2>1, <2>2, <2>5 DEF Control, CurIsBusy
    <3>2. CASE heap[v].endDone
      BY <1>3, <1>7, <2>1, <2>2, <2>5, <3>2 DEF BusyInv
    <3>3. CASE e.code = "ok" /\ e.ring = heap[v].ring /\ e.id = heap[v].trbs[Len(heap[v].trbs)]
      <4>1. 1 \in 1 .. Len(events)
        BY <1>6
      <4>2. QuietFrom(ep, 1 + 1)
        BY <1>1, <1>3, <2>1, <2>2, <2>5, <3>3, <4>1 DEF BusyInv
      <4> QED
        BY <1>7, <4>2
    <3> QED
      BY <1>11, <2>2, <2>3, <2>5, <3>1, <3>2, <3>3
  <2>6. ASSUME recovery = "none", NEW i \in 1 .. Len(events'),
               events'[i].ring = ep, events'[i].id = t[Len(t)], events'[i].code = "ok"
        PROVE  QuietFrom(ep, i + 1)'
    <3>1. i + 1 \in 1 .. Len(events) /\ events'[i] = events[i + 1] /\ i + 1 \in Nat \ {0}
      BY <1>6
    <3>2. QuietFrom(ep, (i + 1) + 1)
      BY <1>3, <2>1, <2>2, <2>6, <3>1 DEF BusyInv
    <3>3. PICK k \in Nat \ {0} : k = i + 1
      BY <3>1
    <3>4. QuietFrom(ep, k)'
      BY <1>8, <3>2, <3>3
    <3> QED
      BY <3>3, <3>4
  <2> QED
    BY <1>4, <2>3, <2>4, <2>5, <2>6 DEF BusyInv
<1> QED
  BY <1>9, <1>10, <1>12, <1>13

(* A check handles an event.                                               *)
LEMMA HandleEventStep ==
  ASSUME Inv, HandleEvent
  PROVE  Inv'
  BY HandleKeepsControl, HandleKeepsTrbs, HandleKeepsArmed, HandleKeepsQuiet DEF Inv

-----------------------------------------------------------------------------
(* The host controller completes a TRB or executes a command.              *)

(* Its typing, and what it does not touch                                  *)
LEMMA XhcKeepsControl ==
  ASSUME Inv, XhcStep, state' \in [Eps -> {"running", "halted", "stopped"}]
  PROVE  Typed' /\ Control' /\ ListInv' /\ List' = List /\ RoundInv' /\ TrbInv' /\ UrbsInv'
<1>1. /\ Typed /\ Control /\ ListInv /\ RoundInv /\ TrbInv /\ UrbsInv
      /\ UNCHANGED <<heap, link, pc, chk, found, cur, recovery, mUrb, mNext, cb, abandoned>>
      /\ ring' \in [Rings -> Seq(Trbs)] /\ acked' \in [Rings -> SUBSET Nat]
      /\ \A r \in Rings : RingStep(r)
  BY DEF Inv, XhcStep
<1>2. PICK e \in Events : events' = Append(events, e)
  BY DEF XhcStep
<1>3. /\ events \in Seq(Events) /\ events' \in Seq(Events)
      /\ Len(events') = Len(events) + 1 /\ Len(events) \in Nat
  BY <1>1, <1>2, TypesAre, WithLast
<1>4. ASSUME NEW r \in Rings
      PROVE  /\ \A i \in 1 .. Len(ring'[r]) : ring'[r][i].id \in TrbIds(r)
             /\ acked'[r] \subseteq TrbIds(r)
  <2>1. /\ \A i \in 1 .. Len(ring[r]) : ring[r][i].id \in TrbIds(r)
        /\ acked[r] \subseteq TrbIds(r) /\ ring[r] \in Seq(Trbs) /\ Len(ring[r]) \in Nat
    BY <1>1, TypesAre DEF Typed, TypeOK
  <2>2. CASE ring'[r] = ring[r] /\ acked'[r] = acked[r]
    BY <2>1, <2>2
  <2>3. CASE ring'[r] = <<>> /\ acked'[r] = acked[r]
    <3>1. \A i \in 1 .. 0 : FALSE
      OBVIOUS
    <3>2. Len(ring'[r]) = 0
      BY <2>3
    <3> QED
      BY <2>1, <2>3, <3>1, <3>2
  <2>4. ASSUME ring[r] # <<>>, ring'[r] = Tail(ring[r])
        PROVE  \A i \in 1 .. Len(ring'[r]) : ring'[r][i].id \in TrbIds(r)
    <3>1. Len(ring'[r]) = Len(ring[r]) - 1 /\ \A i \in 1 .. Len(ring[r]) - 1 : ring'[r][i] = ring[r][i + 1]
      BY <2>1, <2>4, WithoutFirst
    <3>2. \A i \in 1 .. Len(ring'[r]) : i \in 1 .. Len(ring[r]) - 1 /\ i + 1 \in 1 .. Len(ring[r])
      BY <2>1, <3>1
    <3> QED
      BY <2>1, <3>1, <3>2
  <2>5. CASE Completes(r)
    <3>1. ring[r] # <<>> /\ ring'[r] = Tail(ring[r]) /\ acked'[r] = acked[r] \cup {ring[r][1].id}
      BY <2>5 DEF Completes
    <3>2. 1 \in 1 .. Len(ring[r])
      BY <2>1, <3>1
    <3> QED
      BY <2>1, <2>4, <3>1, <3>2
  <2>6. CASE r = Cmd /\ ring[r] # <<>> /\ ring'[r] = Tail(ring[r]) /\ acked'[r] = acked[r]
    BY <2>1, <2>4, <2>6
  <2> QED
    BY <1>1, <2>2, <2>3, <2>5, <2>6 DEF RingStep
<1>5. Typed'
  <2>1. found' \in 0 .. Len(events')
    <3>1. found \in 0 .. Len(events)
      BY <1>1 DEF Typed, TypeOK
    <3> QED
      BY <1>1, <1>3, <3>1
  <2> QED
    BY <1>1, <1>3, <1>4, <2>1 DEF Typed, TypeOK
<1>6. Control'
  BY <1>1 DEF Control, CurIsBusy
<1>7. ListInv' /\ List' = List
  <2>1. \A i \in 1 .. Len(List) : IsListed(heap', List[i]) /\ heap'[List[i]].ring = heap[List[i]].ring
    BY <1>1, WhoIsListed
  <2>2. \A v \in Urbs : heap[v].live => \/ cur # None /\ v \in {cur, chk}
                                        \/ \E i \in 1 .. Len(List) : v = List[i]
    BY <1>1 DEF ListInv, ListOf
  <2>3. \A v \in Urbs : heap'[v].live => \/ cur' # None /\ v \in {cur', chk'}
                                         \/ \E i \in 1 .. Len(List) : v = List[i]
    BY <1>1, <2>2
  <2> QED
    BY <1>1, <2>1, <2>3, ListKept
<1>8. RoundInv'
  BY <1>1, <1>7, RoundKept
<1>9. TrbInv' /\ UrbsInv'
  BY <1>1, XhcKeepsTrbs
<1> QED
  BY <1>5, <1>6, <1>7, <1>8, <1>9

(* A TRB of a listed transfer stays or becomes an event.                   *)
LEMMA XhcKeepsArmed ==
  ASSUME Inv, XhcStep, state' \in [Eps -> {"running", "halted", "stopped"}],
         NEW e \in Events, events' = Append(events, e),
         \A r \in IntEps : ring'[r] = ring[r] \/ (Completes(r) /\ e.ring = r /\ e.id = ring[r][1].id)
  PROVE  AsyncArmed'
<1>1. Typed /\ ListInv /\ AsyncArmed /\ heap' = heap
  BY DEF Inv, XhcStep
<1>2. Typed' /\ ListInv' /\ List' = List
  BY XhcKeepsControl
<1>3. /\ Len(events') = Len(events) + 1 /\ Len(events) \in Nat
      /\ \A i \in 1 .. Len(events) : events'[i] = events[i]
      /\ events'[Len(events) + 1] = e
  BY <1>1, TypesAre, WithLast
<1>4. ASSUME NEW r \in IntEps, NEW id \in Nat, ArmedAt(r, id)
      PROVE  ArmedAt(r, id)'
  <2>1. CASE \E i \in 1 .. Len(events) : events[i].ring = r /\ events[i].id = id
    <3>1. PICK i \in 1 .. Len(events) : events[i].ring = r /\ events[i].id = id
      BY <2>1
    <3>2. i \in 1 .. Len(events') /\ events'[i] = events[i]
      BY <1>3
    <3> QED
      BY <3>1, <3>2 DEF ArmedAt
  <2>2. CASE \E i \in 1 .. Len(ring[r]) : ring[r][i].id = id
    <3>1. PICK i \in 1 .. Len(ring[r]) : ring[r][i].id = id
      BY <2>2
    <3>2. CASE ring'[r] = ring[r]
      BY <3>1, <3>2 DEF ArmedAt
    <3>3. CASE Completes(r) /\ e.ring = r /\ e.id = ring[r][1].id
      <4>1. r \in Rings
        BY DEF Rings, Eps
      <4>2. ring[r] \in Seq(Trbs) /\ ring[r] # <<>> /\ ring'[r] = Tail(ring[r])
        BY <1>1, <3>3, <4>1, TypesAre DEF Completes
      <4>3. /\ Len(ring'[r]) = Len(ring[r]) - 1 /\ Len(ring[r]) \in Nat
            /\ \A j \in 1 .. Len(ring[r]) - 1 : ring'[r][j] = ring[r][j + 1]
        BY <4>2, WithoutFirst
      <4>4. CASE i = 1
        <5>1. Len(events) + 1 \in 1 .. Len(events')
          BY <1>3
        <5>2. events'[Len(events) + 1].ring = r /\ events'[Len(events) + 1].id = id
          BY <1>3, <3>1, <3>3, <4>4
        <5> QED
          BY <5>1, <5>2 DEF ArmedAt
      <4>5. CASE i # 1
        <5>1. i - 1 \in 1 .. Len(ring[r]) - 1 /\ i - 1 + 1 = i
          BY <4>3, <4>5
        <5>2. i - 1 \in 1 .. Len(ring'[r]) /\ ring'[r][i - 1].id = id
          BY <3>1, <4>3, <5>1
        <5> QED
          BY <5>2 DEF ArmedAt
      <4> QED
        BY <4>4, <4>5
    <3> QED
      BY <3>2, <3>3
  <2> QED
    BY <1>4, <2>1, <2>2 DEF ArmedAt
<1>5. PICK s : s = List
  OBVIOUS
<1>6. \A i \in 1 .. Len(s) : ~heap'[s[i]].finished =>
           /\ \E j \in 1 .. Len(List) : s[i] = List[j]
           /\ ~heap[s[i]].finished
           /\ heap'[s[i]].ring = heap[s[i]].ring /\ heap'[s[i]].trbs = heap[s[i]].trbs
  BY <1>1, <1>5
<1> QED
  BY <1>1, <1>2, <1>4, <1>5, <1>6, ArmedKept

(* What is quiet stays quiet when the event of another ring is posted.     *)
LEMMA QuietAppend ==
  ASSUME Typed, NEW e \in Events, events' = Append(events, e), NEW ep, NEW i \in Nat \ {0}
  PROVE  /\ QuietFrom(ep, i) /\ e.ring # ep => QuietFrom(ep, i)'
         /\ i > Len(events) + 1 => QuietFrom(ep, i)'
<1>1. /\ Len(events') = Len(events) + 1 /\ Len(events) \in Nat
      /\ \A j \in 1 .. Len(events) : events'[j] = events[j]
      /\ events'[Len(events) + 1] = e
  BY TypesAre, WithLast
<1>2. ASSUME QuietFrom(ep, i), e.ring # ep, NEW j \in i .. Len(events')
      PROVE  events'[j].ring # ep
  <2>1. CASE j = Len(events) + 1
    BY <1>1, <1>2, <2>1
  <2>2. CASE j # Len(events) + 1
    <3>1. j \in i .. Len(events) /\ j \in 1 .. Len(events)
      BY <1>1, <2>2
    <3> QED
      BY <1>1, <1>2, <3>1 DEF QuietFrom
  <2> QED
    BY <2>1, <2>2
<1>3. i > Len(events) + 1 => \A j \in i .. Len(events') : FALSE
  BY <1>1
<1> QED
  BY <1>2, <1>3 DEF QuietFrom

(* A synchronous transfer of which the last TRB is completed has none left *)
(* on its ring.                                                            *)
LEMMA CompletedIsEmpty ==
  ASSUME Typed, Control, TrbInv, UrbsInv, BusyInv, cur # None, NEW ep \in Rings, ep = heap[cur].ring,
         ep \notin abandoned, heap[cur].trbs[Len(heap[cur].trbs)] \in acked[ep]
  PROVE  Len(ring[ep]) = 0
<1>1. PICK u \in Urbs : u = cur
  BY DEF Typed, TypeOK
<1>2. heap[u].live /\ ep = heap[u].ring
  BY <1>1 DEF Control, CurIsBusy
<1>3. PICK t \in Seq(Nat) : t = heap[u].trbs
  BY TypesAre
<1>4. Ordered(t, ring[ep], acked[ep]) /\ Len(t) > 0 /\ Len(t) \in Nat /\ t[Len(t)] \in acked[ep]
  BY <1>1, <1>2, <1>3, SeqIsFunction DEF UrbsInv, InOrder, Progressed
<1>5. \A i \in 1 .. Len(t) : t[i] \in acked[ep]
  <2>1. \A i \in 1 .. Len(t) : i = Len(t) \/ (i < Len(t) /\ Len(t) \in 1 .. Len(t))
    BY <1>4
  <2> QED
    BY <1>4, <2>1 DEF Ordered
<1>6. \A i \in 1 .. Len(ring[ep]) : ring[ep][i].id \in Range(t) /\ ring[ep][i].id \notin acked[ep]
  BY <1>1, <1>2, <1>3 DEF BusyInv, TrbInv
<1>7. Range(t) = {t[i] : i \in 1 .. Len(t)}
  BY <1>3, SeqIsFunction
<1>8. \A i \in 1 .. Len(ring[ep]) : FALSE
  BY <1>5, <1>6, <1>7
<1>9. Len(ring[ep]) \in Nat
  BY TypesAre
<1> QED
  BY <1>8, <1>9

(* When a TRB completes, no endpoint that must be quiet is disturbed.      *)
LEMMA CompleteTrbKeepsQuiet ==
  ASSUME Inv, NEW ep \in Eps, CompleteTrb(ep)
  PROVE  CommandsInv' /\ RecoveryInv' /\ IdleInv' /\ BusyInv'
<1>1. /\ Typed /\ Control /\ TrbInv /\ UrbsInv
      /\ CommandsInv /\ RecoveryInv /\ IdleInv /\ BusyInv
  BY DEF Inv
<1>2. PICK e \in Events :
        /\ events' = Append(events, e) /\ e.ring = ep /\ e.id = ring[ep][1].id
        /\ \/ /\ e.code = "ok" /\ Completes(ep) /\ UNCHANGED state
              /\ \A q \in Rings \ {ep} : ring'[q] = ring[q] /\ acked'[q] = acked[q]
           \/ /\ e.code # "ok" /\ UNCHANGED <<ring, acked>>
              /\ state' = [state EXCEPT ![ep] = "halted"]
  BY <1>1, CompleteTrbDoes
<1>3. /\ UNCHANGED <<heap, link, pc, chk, found, cur, recovery, mUrb, mNext, cb, abandoned>>
      /\ ring[ep] # <<>> /\ state[ep] = "running"
  BY <1>1, CompleteTrbDoes DEF XhcStep
<1>4. ep \in Rings /\ ep # Cmd /\ Cmd \in Rings
  BY TransferAssumption DEF Rings, Eps
<1>5. /\ \A q \in Rings \ {ep} : ring'[q] = ring[q] /\ acked'[q] = acked[q]
      /\ \A q \in Eps \ {ep} : state'[q] = state[q]
      /\ state'[ep] # "stopped"
  <2>1. state \in [Eps -> {"running", "halted", "stopped"}]
    BY <1>1 DEF Typed, TypeOK
  <2> QED
    BY <1>2, <1>3, <2>1
<1>6. ring[ep] \in Seq(Trbs) /\ Len(ring[ep]) \in Nat \ {0}
  <2>1. ring[ep] \in Seq(Trbs)
    BY <1>1, <1>4, TypesAre
  <2> QED
    BY <1>3, <2>1, WithoutFirst
<1>7. CommandsInv'
  <2>1. ring'[Cmd] = ring[Cmd]
    BY <1>4, <1>5
  <2>2. ASSUME NEW i \in 1 .. Len(ring[Cmd]) PROVE CommandIs(ring[Cmd][i], i)'
    <3>1. PICK trb, q : trb = ring[Cmd][i] /\ q = trb.job.ep
      OBVIOUS
    <3>2. CommandIs(trb, i) /\ q \in SyncEps /\ q \in Eps /\ q \in Rings
      BY <1>1, <3>1 DEF CommandsInv, CommandIs, Eps, Rings
    <3>3. CASE q = ep
      BY <1>5, <3>1, <3>2, <3>3, <2>1 DEF CommandIs
    <3>4. CASE q # ep
      BY <1>5, <3>1, <3>2, <3>4, <2>1 DEF CommandIs
    <3> QED
      BY <3>3, <3>4
  <2> QED
    BY <2>1, <2>2 DEF CommandsInv
<1>8. \A q : \A i \in Nat \ {0} : (QuietFrom(q, i) /\ q # ep => QuietFrom(q, i)')
                                  /\ (i > Len(events) + 1 => QuietFrom(q, i)')
  BY <1>1, <1>2, QuietAppend
<1>9. /\ Len(events') = Len(events) + 1 /\ Len(events) \in Nat
      /\ \A j \in 1 .. Len(events) : events'[j] = events[j]
      /\ events'[Len(events) + 1] = e
  BY <1>1, <1>2, TypesAre, WithLast
<1>10. IdleInv'
  <2>1. SUFFICES ASSUME NEW q \in SyncEps \ abandoned, cur = None \/ heap[cur].ring # q
                 PROVE  ring'[q] = <<>> /\ QuietFrom(q, 1)'
    BY <1>3 DEF IdleInv
  <2>2. ring[q] = <<>> /\ QuietFrom(q, 1)
    BY <1>1, <2>1 DEF IdleInv
  <2>3. q # ep /\ q \in Rings
    BY <1>3, <2>2 DEF Rings, Eps
  <2> QED
    BY <1>5, <1>8, <2>2, <2>3
<1>11. RecoveryInv'
  <2>1. SUFFICES ASSUME recovery # "none" PROVE RecoveryInv'
    BY <1>3 DEF RecoveryInv
  <2>2. PICK E, id : E = heap[cur].ring /\ id = heap[chk].trbs[1]
    OBVIOUS
  <2>3. /\ E \in SyncEps /\ E \in Eps /\ E \in Rings /\ heap[chk].ring = Cmd /\ heap[chk].live
        /\ chk \in Urbs
    BY <1>1, <2>1, <2>2 DEF Control, CurIsBusy, Eps, Rings
  <2>4. heap[chk].endDone => id \in acked[Cmd]
    BY <1>1, <2>2, <2>3 DEF UrbsInv, Progressed
  <2>5. \A i \in 1 .. Len(events) :
          events[i].ring = Cmd /\ events[i].id = id /\ events[i].code = "ok" => id \in acked[Cmd]
    BY <1>1 DEF TrbInv
  <2>6. /\ Len(ring[Cmd]) > 0 => /\ ring[Cmd][Len(ring[Cmd])].id = id
                                 /\ ring[Cmd][Len(ring[Cmd])].job.op = recovery
                                 /\ ring[Cmd][Len(ring[Cmd])].job.ep = E
        /\ recovery # "deq" =>
             /\ id \in acked[Cmd] => state[E] = "stopped"
             /\ heap[chk].endDone => QuietFrom(E, 1)
             /\ \A i \in 1 .. Len(events) :
                  events[i].ring = Cmd /\ events[i].id = id /\ events[i].code = "ok" => QuietFrom(E, i)
        /\ recovery = "deq" => /\ state[E] = "stopped" /\ QuietFrom(E, 1)
                               /\ id \in acked[Cmd] => ring[E] = <<>>
    BY <1>1, <2>1, <2>2 DEF RecoveryInv
  <2>7. ring'[Cmd] = ring[Cmd] /\ acked'[Cmd] = acked[Cmd]
    BY <1>4, <1>5
  <2>8. CASE E = ep
    <3>1. recovery # "deq" /\ id \notin acked[Cmd]
      BY <1>3, <2>6, <2>8
    <3>2. \A i \in 1 .. Len(events') :
            ~(events'[i].ring = Cmd /\ events'[i].id = id /\ events'[i].code = "ok")
      <4>1. \A i \in 1 .. Len(events') : i \in 1 .. Len(events) \/ i = Len(events) + 1
        BY <1>9
      <4> QED
        BY <1>2, <1>4, <1>9, <2>5, <3>1, <4>1
    <3> QED
      BY <1>3, <2>2, <2>4, <2>6, <2>7, <3>1, <3>2 DEF RecoveryInv
  <2>9. CASE E # ep
    <3>1. state'[E] = state[E] /\ ring'[E] = ring[E]
      BY <1>5, <2>3, <2>9
    <3>2. \A i \in Nat \ {0} : QuietFrom(E, i) => QuietFrom(E, i)'
      BY <1>8, <2>9
    <3>3. QuietFrom(E, 1) => QuietFrom(E, 1)'
      BY <3>2
    <3>4. ASSUME recovery # "deq", NEW i \in 1 .. Len(events'),
                 events'[i].ring = Cmd, events'[i].id = id, events'[i].code = "ok"
          PROVE  QuietFrom(E, i)'
      <4>1. i # Len(events) + 1
        BY <1>2, <1>4, <1>9, <3>4
      <4>2. i \in 1 .. Len(events) /\ i \in Nat \ {0}
        BY <1>9, <4>1
      <4>3. QuietFrom(E, i)
        BY <1>9, <2>6, <3>4, <4>2
      <4> QED
        BY <3>2, <4>2, <4>3
    <3> QED
      BY <1>3, <2>2, <2>6, <2>7, <3>1, <3>3, <3>4 DEF RecoveryInv
  <2> QED
    BY <2>8, <2>9
<1>12. BusyInv'
  <2>1. SUFFICES ASSUME cur # None, heap[cur].ring \notin abandoned PROVE BusyInv'
    BY <1>3 DEF BusyInv
  <2>2. PICK u, E, t : u \in Urbs /\ u = cur /\ E = heap[u].ring /\ t = heap[u].trbs
    BY <1>1, <2>1 DEF Typed, TypeOK
  <2>3. heap[u].live /\ E \in SyncEps /\ E \in Rings
    BY <1>1, <2>1, <2>2 DEF Control, CurIsBusy, Rings, Eps
  <2>4. /\ \A i \in 1 .. Len(ring[E]) : ring[E][i].id \in Range(t)
        /\ recovery = "none" =>
             /\ heap[u].endDone => QuietFrom(E, 1)
             /\ \A i \in 1 .. Len(events) :
                  events[i].ring = E /\ events[i].id = t[Len(t)] /\ events[i].code = "ok"
                    => QuietFrom(E, i + 1)
    BY <1>1, <2>1, <2>2 DEF BusyInv
  <2>5. heap[u].endDone => t[Len(t)] \in acked[E]
    BY <1>1, <2>2, <2>3 DEF UrbsInv, Progressed
  <2>6. \A i \in 1 .. Len(events) :
          events[i].ring = E /\ events[i].id = t[Len(t)] /\ events[i].code = "ok" => t[Len(t)] \in acked[E]
    BY <1>1 DEF TrbInv
  <2>7. CASE E = ep
    <3>1. t[Len(t)] \notin acked[E]
      <4>1. SUFFICES ASSUME t[Len(t)] \in acked[E] PROVE FALSE
        OBVIOUS
      <4>2. Len(ring[E]) = 0
        BY <1>1, <2>1, <2>2, <2>3, <4>1, CompletedIsEmpty
      <4> QED
        BY <1>6, <2>7, <4>2
    <3>2. ~heap[u].endDone
      BY <2>5, <3>1
    <3>3. \A i \in 1 .. Len(ring'[E]) : ring'[E][i].id \in Range(t)
      <4>1. CASE Completes(ep)
        <5>1. /\ ring'[E] = Tail(ring[E]) /\ Len(ring'[E]) = Len(ring[E]) - 1
              /\ \A i \in 1 .. Len(ring[E]) - 1 : ring'[E][i] = ring[E][i + 1]
          BY <1>3, <1>6, <2>7, <4>1, WithoutFirst DEF Completes
        <5>2. \A i \in 1 .. Len(ring'[E]) : i \in 1 .. Len(ring[E]) - 1 /\ i + 1 \in 1 .. Len(ring[E])
          BY <1>6, <2>7, <5>1
        <5> QED
          BY <2>4, <5>1, <5>2
      <4>2. CASE ring' = ring
        BY <2>4, <4>2
      <4> QED
        BY <1>2, <4>1, <4>2
    <3>4. ASSUME recovery = "none", NEW i \in 1 .. Len(events'),
                 events'[i].ring = E, events'[i].id = t[Len(t)], events'[i].code = "ok"
          PROVE  QuietFrom(E, i + 1)'
      <4>1. i = Len(events) + 1
        <5>1. i \in 1 .. Len(events) \/ i = Len(events) + 1
          BY <1>9
        <5> QED
          BY <1>9, <2>6, <3>1, <3>4, <5>1
      <4>2. PICK k \in Nat \ {0} : k = i + 1 /\ k > Len(events) + 1
        BY <1>9, <4>1
      <4>3. QuietFrom(E, k)'
        BY <1>8, <4>2
      <4> QED
        BY <4>2, <4>3
    <3> QED
      BY <1>3, <2>2, <3>2, <3>3, <3>4 DEF BusyInv
  <2>8. CASE E # ep
    <3>1. ring'[E] = ring[E]
      BY <1>5, <2>3, <2>8
    <3>2. \A i \in Nat \ {0} : QuietFrom(E, i) => QuietFrom(E, i)'
      BY <1>8, <2>8
    <3>3. QuietFrom(E, 1) => QuietFrom(E, 1)'
      BY <3>2
    <3>4. ASSUME recovery = "none", NEW i \in 1 .. Len(events'),
                 events'[i].ring = E, events'[i].id = t[Len(t)], events'[i].code = "ok"
          PROVE  QuietFrom(E, i + 1)'
      <4>1. i # Len(events) + 1
        BY <1>2, <1>9, <2>8, <3>4
      <4>2. i \in 1 .. Len(events)
        BY <1>9, <4>1
      <4>3. PICK k \in Nat \ {0} : k = i + 1
        BY <4>2
      <4>4. QuietFrom(E, k)
        BY <1>9, <2>4, <3>4, <4>2, <4>3
      <4>5. QuietFrom(E, k)'
        BY <3>2, <4>4
      <4> QED
        BY <4>3, <4>5
    <3> QED
      BY <1>3, <2>2, <2>4, <3>1, <3>3, <3>4 DEF BusyInv
  <2> QED
    BY <2>7, <2>8
<1> QED
  BY <1>7, <1>10, <1>11, <1>12

(* The command of a recovery that is executed without an error has stopped *)
(* the endpoint, and Set TR Dequeue Pointer has emptied its ring.          *)
LEMMA ExecuteCommandKeepsQuiet ==
  ASSUME Inv, ExecuteCommand
  PROVE  CommandsInv' /\ RecoveryInv' /\ IdleInv' /\ BusyInv'
<1>1. /\ Typed /\ Control /\ TrbInv /\ UrbsInv
      /\ CommandsInv /\ RecoveryInv /\ IdleInv /\ BusyInv
  BY DEF Inv
<1>2. PICK trb, ep : trb = ring[Cmd][1] /\ ep = trb.job.ep
  OBVIOUS
<1>3. /\ XhcStep /\ ring[Cmd] # <<>> /\ ep \in SyncEps
      /\ ring'[Cmd] = Tail(ring[Cmd])
      /\ \A q \in Rings \ {Cmd} : acked'[q] = acked[q]
  BY <1>1, <1>2, ExecuteCommandDoes
<1>4. PICK e \in Events :
        /\ events' = Append(events, e) /\ e.ring = Cmd /\ e.id = trb.id
        /\ \/ /\ e.code = "ok" /\ Completes(Cmd) /\ state[ep] = Needs[trb.job.op]
              /\ state' = [state EXCEPT ![ep] = "stopped"]
              /\ ring'[ep] = IF trb.job.op = "deq" THEN <<>> ELSE ring[ep]
              /\ \A q \in Rings \ {Cmd, ep} : ring'[q] = ring[q]
           \/ /\ e.code # "ok" /\ UNCHANGED <<state, acked>>
              /\ \A q \in Rings \ {Cmd} : ring'[q] = ring[q]
  BY <1>1, <1>2, ExecuteCommandDoes
<1>5. /\ UNCHANGED <<heap, link, pc, chk, found, cur, recovery, mUrb, mNext, cb, abandoned>>
  BY <1>3 DEF XhcStep
<1>6. /\ Cmd \in Rings /\ Cmd \notin SyncEps
      /\ \A q \in SyncEps : q \in Rings \ {Cmd} /\ q \in Eps
  BY TransferAssumption DEF Rings, Eps
<1>7. /\ ring[Cmd] \in Seq(Trbs) /\ Len(ring[Cmd]) \in Nat \ {0}
      /\ Len(ring'[Cmd]) = Len(ring[Cmd]) - 1
      /\ \A i \in 1 .. Len(ring[Cmd]) - 1 : ring'[Cmd][i] = ring[Cmd][i + 1]
  <2>1. ring[Cmd] \in Seq(Trbs)
    BY <1>1, <1>6, TypesAre
  <2> QED
    BY <1>3, <2>1, WithoutFirst
<1>8. \A q \in SyncEps : ring'[q] = ring[q] \/ ring'[q] = <<>>
  BY <1>4, <1>6
<1>9. state \in [Eps -> {"running", "halted", "stopped"}]
  BY <1>1 DEF Typed, TypeOK
<1>10. \A q \in SyncEps : state[q] = "stopped" => state'[q] = "stopped"
  BY <1>4, <1>6, <1>9
<1>11. CommandsInv'
  <2>1. ASSUME NEW i \in 1 .. Len(ring'[Cmd]) PROVE CommandIs(ring[Cmd][i], i)'
    <3>1. i + 1 \in 1 .. Len(ring[Cmd]) /\ i + 1 # 1 /\ ring'[Cmd][i] = ring[Cmd][i + 1]
      BY <1>7
    <3>2. CommandIs(ring[Cmd][i + 1], i + 1)
      BY <1>1, <3>1 DEF CommandsInv
    <3> QED
      BY <3>1, <3>2 DEF CommandIs
  <2> QED
    BY <2>1 DEF CommandsInv
<1>12. \A q \in SyncEps : \A i \in Nat \ {0} : QuietFrom(q, i) => QuietFrom(q, i)'
  BY <1>1, <1>4, <1>6, QuietAppend
<1>13. \A q \in SyncEps : QuietFrom(q, 1) => QuietFrom(q, 1)'
  BY <1>12
<1>14. /\ Len(events') = Len(events) + 1 /\ Len(events) \in Nat
       /\ \A j \in 1 .. Len(events) : events'[j] = events[j]
       /\ events'[Len(events) + 1] = e
  BY <1>1, <1>4, TypesAre, WithLast
<1>15. IdleInv'
  <2>1. SUFFICES ASSUME NEW q \in SyncEps \ abandoned, cur = None \/ heap[cur].ring # q
                 PROVE  ring'[q] = <<>> /\ QuietFrom(q, 1)'
    BY <1>5 DEF IdleInv
  <2>2. ring[q] = <<>> /\ QuietFrom(q, 1)
    BY <1>1, <2>1 DEF IdleInv
  <2> QED
    BY <1>8, <1>13, <2>1, <2>2
<1>16. BusyInv'
  <2>1. SUFFICES ASSUME cur # None, heap[cur].ring \notin abandoned PROVE BusyInv'
    BY <1>5 DEF BusyInv
  <2>2. PICK u, E, t : u \in Urbs /\ u = cur /\ E = heap[u].ring /\ t = heap[u].trbs
    BY <1>1, <2>1 DEF Typed, TypeOK
  <2>3. E \in SyncEps
    BY <1>1, <2>1, <2>2 DEF Control, CurIsBusy
  <2>4. /\ \A i \in 1 .. Len(ring[E]) : ring[E][i].id \in Range(t)
        /\ recovery = "none" =>
             /\ heap[u].endDone => QuietFrom(E, 1)
             /\ \A i \in 1 .. Len(events) :
                  events[i].ring = E /\ events[i].id = t[Len(t)] /\ events[i].code = "ok"
                    => QuietFrom(E, i + 1)
    BY <1>1, <2>1, <2>2 DEF BusyInv
  <2>5. \A i \in 1 .. Len(ring'[E]) : ring'[E][i].id \in Range(t)
    <3>1. \A i \in 1 .. 0 : FALSE
      OBVIOUS
    <3>2. Len(<<>>) = 0
      OBVIOUS
    <3> QED
      BY <1>8, <2>3, <2>4, <3>1, <3>2
  <2>6. ASSUME recovery = "none", NEW i \in 1 .. Len(events'),
               events'[i].ring = E, events'[i].id = t[Len(t)], events'[i].code = "ok"
        PROVE  QuietFrom(E, i + 1)'
    <3>1. i # Len(events) + 1
      BY <1>4, <1>6, <1>14, <2>3, <2>6
    <3>2. i \in 1 .. Len(events)
      BY <1>14, <3>1
    <3>3. PICK k \in Nat \ {0} : k = i + 1
      BY <3>2
    <3>4. QuietFrom(E, k)
      BY <1>14, <2>4, <2>6, <3>2, <3>3
    <3>5. QuietFrom(E, k)'
      BY <1>12, <2>3, <3>4
    <3> QED
      BY <3>3, <3>5
  <2> QED
    BY <1>5, <1>13, <2>2, <2>3, <2>4, <2>5, <2>6 DEF BusyInv
<1>17. RecoveryInv'
  <2>1. SUFFICES ASSUME recovery # "none" PROVE RecoveryInv'
    BY <1>5 DEF RecoveryInv
  <2>2. PICK E, id, n : E = heap[cur].ring /\ id = heap[chk].trbs[1] /\ n = Len(ring[Cmd]) /\ n \in Nat
    BY <1>7
  <2>3. E \in SyncEps
    BY <1>1, <2>1, <2>2 DEF Control, CurIsBusy
  <2>4. /\ n > 0 => ring[Cmd][n].id = id /\ ring[Cmd][n].job.op = recovery /\ ring[Cmd][n].job.ep = E
        /\ recovery # "deq" =>
             /\ id \in acked[Cmd] => state[E] = "stopped"
             /\ heap[chk].endDone => QuietFrom(E, 1)
             /\ \A i \in 1 .. Len(events) :
                  events[i].ring = Cmd /\ events[i].id = id /\ events[i].code = "ok" => QuietFrom(E, i)
        /\ recovery = "deq" => /\ state[E] = "stopped" /\ QuietFrom(E, 1)
                               /\ id \in acked[Cmd] => ring[E] = <<>>
    BY <1>1, <2>1, <2>2 DEF RecoveryInv
  <2>5. n > 0 /\ n \in 1 .. n /\ 1 \in 1 .. n
    BY <1>7, <2>2
  <2>6. trb.id = id => n = 1 /\ trb.job.op = recovery /\ ep = E
    <3>1. trb.id = id => n = 1
      BY <1>1, <1>2, <1>6, <2>2, <2>4, <2>5 DEF TrbInv
    <3> QED
      BY <1>2, <2>4, <2>5, <3>1
  <2>7. /\ Len(ring'[Cmd]) > 0 => /\ ring'[Cmd][Len(ring'[Cmd])].id = id
                                  /\ ring'[Cmd][Len(ring'[Cmd])].job.op = recovery
                                  /\ ring'[Cmd][Len(ring'[Cmd])].job.ep = E
    <3>1. SUFFICES ASSUME Len(ring'[Cmd]) > 0 PROVE ring'[Cmd][Len(ring'[Cmd])] = ring[Cmd][n]
      BY <2>4, <2>5
    <3>2. n - 1 \in 1 .. n - 1 /\ n - 1 + 1 = n /\ Len(ring'[Cmd]) = n - 1
      BY <1>7, <2>2, <3>1
    <3> QED
      BY <1>7, <2>2, <3>2
  <2>8. id \in acked'[Cmd] => id \in acked[Cmd] \/ (trb.id = id /\ Completes(Cmd) /\ e.code = "ok")
    BY <1>2, <1>4 DEF Completes
  <2>9. recovery # "deq" => (id \in acked'[Cmd] => state'[E] = "stopped")
    <3>1. SUFFICES ASSUME recovery # "deq", id \in acked'[Cmd] PROVE state'[E] = "stopped"
      OBVIOUS
    <3>2. CASE id \in acked[Cmd]
      BY <1>10, <2>3, <2>4, <3>1, <3>2
    <3>3. CASE trb.id = id /\ e.code = "ok"
      BY <1>4, <1>6, <1>9, <2>3, <2>6, <3>3
    <3> QED
      BY <2>8, <3>1, <3>2, <3>3
  <2>10. recovery # "deq" => (heap'[chk'].endDone => QuietFrom(E, 1)')
    BY <1>5, <1>13, <2>3, <2>4
  <2>11. ASSUME recovery # "deq", NEW i \in 1 .. Len(events'),
                events'[i].ring = Cmd, events'[i].id = id, events'[i].code = "ok"
         PROVE  QuietFrom(E, i)'
    <3>1. i \in Nat \ {0}
      BY <1>14
    <3>2. CASE i = Len(events) + 1
      <4>1. \A j \in i .. Len(events') : events'[j].ring # E
        <5>1. \A j \in i .. Len(events') : j = i
          BY <1>14, <3>2
        <5> QED
          BY <1>6, <2>3, <2>11, <5>1
      <4> QED
        BY <4>1 DEF QuietFrom
    <3>3. CASE i # Len(events) + 1
      <4>1. i \in 1 .. Len(events)
        BY <1>14, <3>3
      <4>2. QuietFrom(E, i)
        BY <1>14, <2>4, <2>11, <4>1
      <4> QED
        BY <1>12, <2>3, <3>1, <4>2
    <3> QED
      BY <3>2, <3>3
  <2>12. recovery = "deq" => /\ state'[E] = "stopped" /\ QuietFrom(E, 1)'
                             /\ id \in acked'[Cmd] => ring'[E] = <<>>
    <3>1. SUFFICES ASSUME recovery = "deq" PROVE id \in acked'[Cmd] => ring'[E] = <<>>
      BY <1>10, <1>13, <2>3, <2>4
    <3>2. CASE id \in acked[Cmd]
      BY <1>8, <2>3, <2>4, <3>1, <3>2
    <3>3. CASE trb.id = id /\ e.code = "ok"
      BY <1>4, <2>6, <3>1, <3>3
    <3> QED
      BY <2>8, <3>2, <3>3
  <2>13. heap'[cur'].ring = E /\ heap'[chk'].trbs[1] = id /\ recovery' = recovery
    BY <1>5, <2>2
  <2> QED
    BY <2>7, <2>9, <2>10, <2>11, <2>12, <2>13 DEF RecoveryInv
<1> QED
  BY <1>11, <1>15, <1>16, <1>17

(* The steps of the host controller                                        *)
LEMMA CompleteTrbStep ==
  ASSUME Inv, NEW ep \in Eps, CompleteTrb(ep)
  PROVE  Inv'
<1>1. Typed
  BY DEF Inv
<1>2. PICK e \in Events :
        /\ events' = Append(events, e) /\ e.ring = ep /\ e.id = ring[ep][1].id
        /\ \/ /\ e.code = "ok" /\ Completes(ep) /\ UNCHANGED state
              /\ \A q \in Rings \ {ep} : ring'[q] = ring[q] /\ acked'[q] = acked[q]
           \/ /\ e.code # "ok" /\ UNCHANGED <<ring, acked>>
              /\ state' = [state EXCEPT ![ep] = "halted"]
  BY <1>1, CompleteTrbDoes
<1>3. XhcStep
  BY <1>1, CompleteTrbDoes
<1>4. state' \in [Eps -> {"running", "halted", "stopped"}]
  BY <1>1, <1>2 DEF Typed, TypeOK
<1>5. \A r \in IntEps : ring'[r] = ring[r] \/ (Completes(r) /\ e.ring = r /\ e.id = ring[r][1].id)
  BY <1>2 DEF Rings, Eps
<1>6. AsyncArmed'
  BY <1>2, <1>3, <1>4, <1>5, XhcKeepsArmed
<1> QED
  BY <1>3, <1>4, <1>6, XhcKeepsControl, CompleteTrbKeepsQuiet DEF Inv

(* The xHC executes or refuses a command.                                  *)
LEMMA ExecuteCommandStep ==
  ASSUME Inv, ExecuteCommand
  PROVE  Inv'
<1>1. Typed /\ CommandsInv
  BY DEF Inv
<1>2. PICK trb, ep : trb = ring[Cmd][1] /\ ep = trb.job.ep
  OBVIOUS
<1>3. XhcStep /\ ep \in SyncEps
  BY <1>1, <1>2, ExecuteCommandDoes
<1>4. PICK e \in Events :
        /\ events' = Append(events, e)
        /\ \/ /\ state' = [state EXCEPT ![ep] = "stopped"]
              /\ \A q \in Rings \ {Cmd, ep} : ring'[q] = ring[q]
           \/ /\ UNCHANGED state
              /\ \A q \in Rings \ {Cmd} : ring'[q] = ring[q]
  BY <1>1, <1>2, ExecuteCommandDoes
<1>5. state' \in [Eps -> {"running", "halted", "stopped"}]
  BY <1>1, <1>4 DEF Typed, TypeOK
<1>6. \A r \in IntEps : ring'[r] = ring[r]
  <2>1. \A r \in IntEps : r \in Rings \ {Cmd, ep}
    BY <1>3, TransferAssumption DEF Rings, Eps
  <2> QED
    BY <1>4, <2>1
<1>7. AsyncArmed'
  BY <1>3, <1>4, <1>5, <1>6, XhcKeepsArmed
<1> QED
  BY <1>3, <1>5, <1>7, XhcKeepsControl, ExecuteCommandKeepsQuiet DEF Inv

-----------------------------------------------------------------------------
(* The driver puts TRBs of a transfer on a ring.                           *)

(* The rings stay typed.                                                   *)
LEMMA PutTyped ==
  ASSUME Typed, NEW r \in Rings, NEW u, NEW t, NEW job, Fresh(r, u, t), Put(r, t, job)
  PROVE  /\ DOMAIN ring' = Rings /\ ring' \in [Rings -> Seq(Trbs)] /\ acked' \in [Rings -> SUBSET Nat]
         /\ \A q \in Rings : \A i \in 1 .. Len(ring'[q]) : ring'[q][i].id \in TrbIds(q)
         /\ \A q \in Rings : acked'[q] \subseteq TrbIds(q)
<1>1. /\ \A q \in Rings : \A i \in 1 .. Len(ring[q]) : ring[q][i].id \in TrbIds(q)
      /\ \A q \in Rings : acked[q] \subseteq TrbIds(q) /\ Len(ring[q]) \in Nat
  BY TypesAre DEF Typed, TypeOK
<1>2. t \in Seq(Nat) /\ Len(t) \in Nat /\ \A i \in 1 .. Len(t) : t[i] \in TrbIds(r)
  BY SeqIsFunction DEF Fresh
<1>3. \A i \in 1 .. Len(ring'[r]) : ring'[r][i].id \in TrbIds(r)
  <2>1. SUFFICES ASSUME NEW i \in 1 .. Len(ring'[r]) PROVE ring'[r][i].id \in TrbIds(r)
    OBVIOUS
  <2>2. Len(ring'[r]) = Len(ring[r]) + Len(t)
    BY DEF Put
  <2>3. CASE i <= Len(ring[r])
    <3>1. i \in 1 .. Len(ring[r])
      BY <1>1, <2>3
    <3> QED
      BY <1>1, <3>1 DEF Put
  <2>4. CASE ~(i <= Len(ring[r]))
    <3>1. i - Len(ring[r]) \in 1 .. Len(t) /\ i - Len(ring[r]) + Len(ring[r]) = i
      BY <1>1, <1>2, <2>1, <2>2, <2>4
    <3>2. PICK j \in 1 .. Len(t) : j + Len(ring[r]) = i
      BY <3>1
    <3>3. ring'[r][i].id = t[j]
      BY <3>2 DEF Put
    <3> QED
      BY <1>2, <3>3
  <2> QED
    BY <2>3, <2>4
<1>4. /\ \A q \in Rings \ {r} : ring'[q] = ring[q] /\ acked'[q] = acked[q]
      /\ \A x : x \in acked'[r] => x \in acked[r]
      /\ ring' \in [Rings -> Seq(Trbs)] /\ acked' \in [Rings -> SUBSET Nat]
  BY DEF Put
<1>5. \A q \in Rings : \A i \in 1 .. Len(ring'[q]) : ring'[q][i].id \in TrbIds(q)
  BY <1>1, <1>3, <1>4
<1>6. \A q \in Rings : acked'[q] \subseteq TrbIds(q)
  <2>1. acked'[r] \subseteq TrbIds(r)
    BY <1>1, <1>4
  <2> QED
    BY <1>1, <1>4, <2>1
<1> QED
  BY <1>4, <1>5, <1>6

(* The doorbell starts a stopped endpoint and no other one.                *)
LEMMA DoorbellIs ==
  ASSUME Typed, NEW ep \in Eps, Doorbell(ep)
  PROVE  /\ state' \in [Eps -> {"running", "halted", "stopped"}] /\ state'[ep] # "stopped"
         /\ \A q \in Eps \ {ep} : state'[q] = state[q]
<1>1. state \in [Eps -> {"running", "halted", "stopped"}]
  BY DEF Typed, TypeOK
<1> QED
  BY <1>1 DEF Doorbell

(* What armed a transfer still does.                                       *)
LEMMA PutKeepsArmedAt ==
  ASSUME Typed, NEW r \in Rings, NEW t, NEW job, Put(r, t, job), t \in Seq(Nat), events' = events,
         NEW q \in Rings, NEW id, ArmedAt(q, id)
  PROVE  ArmedAt(q, id)'
<1>1. Len(ring[q]) \in Nat /\ Len(t) \in Nat
  BY TypesAre, SeqIsFunction
<1>2. \A i \in 1 .. Len(ring[q]) : i \in 1 .. Len(ring'[q]) /\ ring'[q][i] = ring[q][i]
  <2>1. CASE q = r
    <3>1. Len(ring'[q]) = Len(ring[q]) + Len(t) /\ \A i \in 1 .. Len(ring[q]) : ring'[q][i] = ring[q][i]
      BY <2>1 DEF Put
    <3> QED
      BY <1>1, <3>1
  <2>2. CASE q # r
    <3>1. ring'[q] = ring[q]
      BY <2>2 DEF Put
    <3> QED
      BY <3>1
  <2> QED
    BY <2>1, <2>2
<1> QED
  BY <1>2 DEF ArmedAt

(* New TRBs arm the URB they are for.                                      *)
LEMMA PutArms ==
  ASSUME Typed, NEW r \in Rings, NEW u, NEW t, NEW job, Fresh(r, u, t), Put(r, t, job)
  PROVE  ArmedAt(r, t[1])'
<1>1. Len(ring[r]) \in Nat /\ Len(t) \in Nat /\ Len(t) > 0
  BY TypesAre, SeqIsFunction DEF Fresh
<1>2. Len(ring'[r]) = Len(ring[r]) + Len(t) /\ \A i \in 1 .. Len(t) : ring'[r][i + Len(ring[r])].id = t[i]
  BY DEF Put
<1>3. 1 \in 1 .. Len(t) /\ 1 + Len(ring[r]) \in 1 .. Len(ring'[r])
  BY <1>1, <1>2
<1> QED
  BY <1>2, <1>3 DEF ArmedAt

(* A command to skip the TRBs of the endpoint will now be refused.         *)
LEMMA PutKeepsCommands ==
  ASSUME Typed, CommandsInv, NEW ep \in Eps, NEW t, NEW job, Put(ep, t, job), Doorbell(ep)
  PROVE  CommandsInv'
<1>1. ep \in Rings /\ Cmd \in Rings \ {ep}
  BY TransferAssumption DEF Rings, Eps
<1>2. ring'[Cmd] = ring[Cmd]
  BY <1>1 DEF Put
<1>3. ASSUME NEW i \in 1 .. Len(ring[Cmd]) PROVE CommandIs(ring[Cmd][i], i)'
  <2>1. PICK trb, q : trb = ring[Cmd][i] /\ q = trb.job.ep
    OBVIOUS
  <2>2. CommandIs(trb, i) /\ q \in Eps /\ q \in Rings
    BY <2>1 DEF CommandsInv, CommandIs, Eps, Rings
  <2>3. CASE q = ep
    <3>1. state'[ep] # "stopped"
      BY DoorbellIs
    <3> QED
      BY <1>2, <2>1, <2>2, <2>3, <3>1 DEF CommandIs
  <2>4. CASE q # ep
    <3>1. ring'[q] = ring[q] /\ state'[q] = state[q]
      BY <2>2, <2>4, DoorbellIs DEF Put
    <3> QED
      BY <1>2, <2>1, <2>2, <3>1 DEF CommandIs
  <2> QED
    BY <2>3, <2>4
<1> QED
  BY <1>2, <1>3 DEF CommandsInv

(* A synchronous transfer is submitted.                                    *)
LEMMA SubmitSyncStep ==
  ASSUME Inv, NEW ep \in SyncEps, NEW n \in 1 .. MaxTd, SubmitSync(ep, n)
  PROVE  Inv'
<1>1. /\ Typed /\ Control /\ ListInv /\ RoundInv /\ AsyncArmed /\ TrbInv /\ UrbsInv
      /\ CommandsInv /\ IdleInv
  BY DEF Inv
<1>2. /\ pc = "user" /\ cb \in {"none", "error"} /\ pc' = "wait" /\ Doorbell(ep)
      /\ UNCHANGED <<link, mUrb, mNext, cb, events, found, recovery, abandoned>>
  BY <1>1, SubmitSyncDoes
<1>3. PICK u, t : /\ u \in Urbs /\ ~heap[u].live /\ Fresh(ep, u, t) /\ Put(ep, t, Transfer)
               /\ HeapSets(u, NewUrb("sync", ep, t)) /\ cur' = u /\ chk' = u
  <2>1. \E u \in Urbs : \E t : /\ ~heap[u].live /\ Fresh(ep, u, t) /\ Put(ep, t, Transfer)
                               /\ HeapSets(u, NewUrb("sync", ep, t)) /\ cur' = u /\ chk' = u
    BY <1>1, SubmitSyncDoes
  <2> QED
    BY <2>1
<1>4. ep \in Rings /\ ep \in Eps /\ ep # Cmd /\ t \in Seq(Nat) /\ Len(t) \in Nat /\ u # None
  BY <1>3, TransferAssumption, SeqIsFunction DEF Rings, Eps, Fresh
<1>5. /\ heap' \in [Urbs -> Urb] /\ \A v \in Urbs \ {u} : heap'[v] = heap[v]
      /\ heap'[u].live /\ heap'[u].kind = "sync" /\ heap'[u].ring = ep /\ heap'[u].trbs = t
      /\ ~heap'[u].startDone /\ ~heap'[u].endDone /\ ~heap'[u].finished
  <2>1. PICK urb : urb = NewUrb("sync", ep, t)
    OBVIOUS
  <2>2. urb \in Urb /\ urb.live /\ urb.kind = "sync" /\ urb.ring = ep /\ urb.trbs = t
        /\ ~urb.startDone /\ ~urb.endDone /\ ~urb.finished /\ urb.result = {}
    BY <1>4, <2>1, NewUrbIs
  <2> QED
    BY <1>3, <2>1, <2>2 DEF HeapSets
<1>6. cur = None /\ recovery = "none" /\ (mUrb = None <=> cb = "none") /\ (mUrb = None <=> mNext = None)
  BY <1>1, <1>2 DEF Control, CurIsBusy
<1>7. Typed'
  <2>1. /\ DOMAIN ring' = Rings /\ ring' \in [Rings -> Seq(Trbs)] /\ acked' \in [Rings -> SUBSET Nat]
        /\ \A q \in Rings : \A i \in 1 .. Len(ring'[q]) : ring'[q][i].id \in TrbIds(q)
        /\ \A q \in Rings : acked'[q] \subseteq TrbIds(q)
    BY <1>1, <1>3, <1>4, PutTyped
  <2>2. state' \in [Eps -> {"running", "halted", "stopped"}]
    BY <1>1, <1>2, <1>4, DoorbellIs
  <2> QED
    BY <1>1, <1>2, <1>3, <1>5, <2>1, <2>2 DEF Typed, TypeOK
<1>8. Control'
  BY <1>2, <1>3, <1>4, <1>5, <1>6 DEF Control, CurIsBusy
<1>9. ListInv' /\ List' = List
  <2>1. \A i \in 1 .. Len(List) : IsListed(heap', List[i]) /\ heap'[List[i]].ring = heap[List[i]].ring
    BY <1>1, <1>3, <1>5, WhoIsListed DEF IsListed
  <2>2. \A v \in Urbs : heap'[v].live => \/ cur' # None /\ v \in {cur', chk'}
                                         \/ \E i \in 1 .. Len(List) : v = List[i]
    BY <1>1, <1>3, <1>4, <1>5, <1>6, WhoIsListed
  <2> QED
    BY <1>1, <1>2, <2>1, <2>2, ListKept
<1>10. RoundInv'
  <2>1. mUrb # None => mUrb \in Urbs /\ heap[mUrb].live
    BY <1>1, <1>2 DEF RoundInv, Typed, TypeOK
  <2>2. mUrb # None => heap'[mUrb] = heap[mUrb]
    BY <1>3, <1>5, <2>1
  <2>3. \A i \in 1 .. Len(List) : heap'[List[i]].ring = heap[List[i]].ring
    BY <1>1, <1>3, <1>5, WhoIsListed DEF IsListed
  <2> QED
    BY <1>1, <1>2, <1>9, <2>2, <2>3, RoundKept
<1>11. TrbInv' /\ UrbsInv'
  <2>1. UrbGets(u, ep, t)
    BY <1>4, <1>5 DEF UrbGets
  <2> QED
    BY <1>1, <1>2, <1>3, <1>4, <2>1, PutKeepsTrbs
<1>12. AsyncArmed'
  <2>1. PICK s : s = List
    OBVIOUS
  <2>2. \A i \in 1 .. Len(s) : ~heap'[s[i]].finished =>
           /\ \E j \in 1 .. Len(List) : s[i] = List[j]
           /\ ~heap[s[i]].finished
           /\ heap'[s[i]].ring = heap[s[i]].ring /\ heap'[s[i]].trbs = heap[s[i]].trbs
    BY <1>1, <1>3, <1>5, <2>1, WhoIsListed DEF IsListed
  <2>3. \A r \in IntEps, id \in Nat : ArmedAt(r, id) => ArmedAt(r, id)'
    <3>1. \A r \in IntEps : r \in Rings
      BY DEF Rings, Eps
    <3> QED
      BY <1>1, <1>2, <1>3, <1>4, <3>1, PutKeepsArmedAt
  <2> QED
    BY <1>1, <1>7, <1>9, <2>1, <2>2, <2>3, ArmedKept
<1>13. CommandsInv'
  BY <1>1, <1>2, <1>3, <1>4, PutKeepsCommands
<1>14. RecoveryInv'
  BY <1>2, <1>6 DEF RecoveryInv
<1>15. \A q \in SyncEps \ abandoned : ring[q] = <<>> /\ QuietFrom(q, 1)
  BY <1>1, <1>6 DEF IdleInv
<1>16. IdleInv'
  <2>1. SUFFICES ASSUME NEW q \in SyncEps \ abandoned, q # ep
                 PROVE  ring'[q] = <<>> /\ QuietFrom(q, 1)'
    BY <1>2, <1>3, <1>4, <1>5 DEF IdleInv
  <2>2. q \in Rings \ {ep}
    BY <2>1 DEF Rings, Eps
  <2>3. ring'[q] = ring[q]
    BY <1>3, <2>2 DEF Put
  <2> QED
    BY <1>2, <1>15, <2>1, <2>3 DEF QuietFrom
<1>17. BusyInv'
  <2>1. SUFFICES ASSUME ep \notin abandoned PROVE BusyInv'
    BY <1>2, <1>3, <1>5 DEF BusyInv
  <2>2. Len(ring[ep]) = 0 /\ QuietFrom(ep, 1)
    BY <1>15, <2>1
  <2>3. \A i \in 1 .. Len(ring'[ep]) : ring'[ep][i].id \in Range(t)
    <3>1. Len(ring'[ep]) = Len(t) /\ \A i \in 1 .. Len(t) : ring'[ep][i].id = t[i]
      <4>1. Len(ring'[ep]) = 0 + Len(t) /\ \A i \in 1 .. Len(t) : ring'[ep][i + 0].id = t[i]
        BY <1>3, <2>2 DEF Put
      <4> QED
        BY <1>4, <4>1
    <3>2. Range(t) = {t[i] : i \in 1 .. Len(t)}
      BY <1>4, SeqIsFunction
    <3> QED
      BY <3>1, <3>2
  <2>4. \A i \in 1 .. Len(events') : events'[i].ring # ep
    BY <1>2, <2>2 DEF QuietFrom
  <2> QED
    BY <1>2, <1>3, <1>5, <2>3, <2>4 DEF BusyInv
<1> QED
  BY <1>7, <1>8, <1>9, <1>10, <1>11, <1>12, <1>13, <1>14, <1>16, <1>17 DEF Inv

(* An asynchronous transfer is submitted: it is the first of the list.     *)
LEMMA SubmitAsyncStep ==
  ASSUME Inv, NEW ep \in IntEps, SubmitAsync(ep)
  PROVE  Inv'
<1>1. /\ Typed /\ Control /\ ListInv /\ RoundInv /\ AsyncArmed /\ TrbInv /\ UrbsInv
      /\ CommandsInv /\ IdleInv
  BY DEF Inv
<1>2. /\ pc = "user" /\ Doorbell(ep) /\ \A i \in 1 .. Len(List) : heap[List[i]].ring # ep
      /\ \/ cb = "none" /\ cb' = "none"
         \/ cb = "deleted" /\ ep = heap[mUrb].ring /\ cb' = "resubmitted"
      /\ UNCHANGED <<events, pc, chk, found, cur, recovery, mUrb, mNext, abandoned>>
  BY <1>1, SubmitAsyncDoes
<1>3. PICK u, t : /\ u \in Urbs /\ ~heap[u].live /\ Fresh(ep, u, t) /\ Len(t) = 1 /\ Put(ep, t, Transfer)
               /\ HeapSets(u, NewUrb("async", ep, t))
               /\ link' = [link EXCEPT ![u] = link[ListHead], ![ListHead] = u]
  <2>1. \E u \in Urbs : \E t : /\ ~heap[u].live /\ Fresh(ep, u, t) /\ Len(t) = 1 /\ Put(ep, t, Transfer)
                               /\ HeapSets(u, NewUrb("async", ep, t))
                               /\ link' = [link EXCEPT ![u] = link[ListHead], ![ListHead] = u]
    BY <1>1, SubmitAsyncDoes
  <2> QED
    BY <2>1
<1>4. ep \in Rings /\ ep \in Eps /\ ep # Cmd /\ t \in Seq(Nat) /\ u # None
  BY <1>3, TransferAssumption DEF Rings, Eps, Fresh
<1>5. /\ heap' \in [Urbs -> Urb] /\ \A v \in Urbs \ {u} : heap'[v] = heap[v]
      /\ heap'[u].live /\ heap'[u].kind = "async" /\ heap'[u].ring = ep /\ heap'[u].trbs = t
      /\ ~heap'[u].startDone /\ ~heap'[u].endDone /\ ~heap'[u].finished
  <2>1. PICK urb : urb = NewUrb("async", ep, t)
    OBVIOUS
  <2>2. urb \in Urb /\ urb.live /\ urb.kind = "async" /\ urb.ring = ep /\ urb.trbs = t
        /\ ~urb.startDone /\ ~urb.endDone /\ ~urb.finished /\ urb.result = {}
    BY <1>4, <2>1, NewUrbIs
  <2> QED
    BY <1>3, <2>1, <2>2 DEF HeapSets
<1>6. cur = None /\ chk = None /\ recovery = "none" /\ (mUrb = None <=> cb = "none") /\ (mUrb = None <=> mNext = None)
  BY <1>1, <1>2 DEF Control, CurIsBusy
<1>7. PICK s : s = List
  OBVIOUS
<1>8. /\ Chain(link, link[ListHead], s) /\ s \in Seq(Urbs) /\ Len(s) \in Nat
      /\ \A i \in 1 .. Len(s) : s[i] \in Urbs /\ s[i] # None /\ s[i] # u
      /\ \A i \in 1 .. Len(s) : IsListed(heap, s[i]) /\ heap[s[i]].ring # ep
      /\ \A i, j \in 1 .. Len(s) : heap[s[i]].ring = heap[s[j]].ring => i = j
      /\ \A v \in Urbs : heap[v].live => \E i \in 1 .. Len(s) : v = s[i]
  BY <1>1, <1>2, <1>3, <1>6, <1>7, WhoIsListed DEF IsListed
<1>9. Links(link)
  BY <1>1 DEF Links, Typed, TypeOK
<1>10. PICK g : g = link'
  OBVIOUS
<1>11. PICK f : f = link
  OBVIOUS
<1>12. Links(g) /\ \E q : /\ Chain(g, g[ListHead], q) /\ Len(q) = Len(s) + 1 /\ q[1] = u
                          /\ \A i \in 1 .. Len(s) : q[i + 1] = s[i]
  <2>1. /\ Links(f) /\ Chain(f, f[ListHead], s) /\ \A i \in 1 .. Len(s) : s[i] # u
        /\ Inserts(f, g, u)
    BY <1>3, <1>8, <1>9, <1>10, <1>11 DEF Inserts
  <2> QED
    BY <1>3, <2>1, Insertion
<1>13. PICK q : /\ Chain(g, g[ListHead], q) /\ Len(q) = Len(s) + 1 /\ q[1] = u
                /\ \A i \in 1 .. Len(s) : q[i + 1] = s[i]
  BY <1>12
<1>14. \A i \in 1 .. Len(q) : (i = 1 /\ q[i] = u) \/ (i # 1 /\ i - 1 \in 1 .. Len(s) /\ q[i] = s[i - 1])
  <2>1. \A i \in 1 .. Len(q) : i = 1 \/ (i # 1 /\ i - 1 \in 1 .. Len(s) /\ (i - 1) + 1 = i)
    BY <1>8, <1>13
  <2> QED
    BY <1>13, <2>1
<1>15. \A i \in 1 .. Len(s) : heap'[s[i]] = heap[s[i]]
  BY <1>5, <1>8
<1>16. ListOf(q)'
  <2>1. Chain(link', link'[ListHead], q)
    BY <1>10, <1>13
  <2>2. \A i \in 1 .. Len(q) : IsListed(heap', q[i])
    BY <1>3, <1>5, <1>8, <1>14, <1>15 DEF IsListed
  <2>3. \A i, j \in 1 .. Len(q) : heap'[q[i]].ring = heap'[q[j]].ring => i = j
    <3>1. \A i \in 1 .. Len(q) : (heap'[q[i]].ring = ep <=> i = 1)
      BY <1>5, <1>8, <1>14, <1>15
    <3>2. SUFFICES ASSUME NEW i \in 1 .. Len(q), NEW j \in 1 .. Len(q), heap'[q[i]].ring = heap'[q[j]].ring,
                          i # 1, j # 1
                   PROVE  i = j
      BY <3>1
    <3>3. i - 1 \in 1 .. Len(s) /\ j - 1 \in 1 .. Len(s) /\ q[i] = s[i - 1] /\ q[j] = s[j - 1]
      BY <1>14, <3>2
    <3>4. i - 1 = j - 1
      BY <1>3, <1>8, <1>15, <3>2, <3>3
    <3> QED
      BY <3>4
  <2>4. \A v \in Urbs : heap'[v].live => \E i \in 1 .. Len(q) : v = q[i]
    <3>1. 1 \in 1 .. Len(q) /\ \A i \in 1 .. Len(s) : i + 1 \in 1 .. Len(q)
      BY <1>8, <1>13
    <3>2. SUFFICES ASSUME NEW v \in Urbs \ {u}, heap'[v].live PROVE \E i \in 1 .. Len(q) : v = q[i]
      BY <1>13, <3>1
    <3>3. PICK i \in 1 .. Len(s) : v = s[i]
      BY <1>5, <1>8, <3>2
    <3> QED
      BY <1>13, <3>1, <3>3
  <2> QED
    BY <2>1, <2>2, <2>3, <2>4 DEF ListOf
<1>17. ListInv' /\ List' = q
  BY <1>16, ListIsNext
<1>18. Typed'
  <2>1. /\ DOMAIN ring' = Rings /\ ring' \in [Rings -> Seq(Trbs)] /\ acked' \in [Rings -> SUBSET Nat]
        /\ \A r \in Rings : \A i \in 1 .. Len(ring'[r]) : ring'[r][i].id \in TrbIds(r)
        /\ \A r \in Rings : acked'[r] \subseteq TrbIds(r)
    BY <1>1, <1>3, <1>4, PutTyped
  <2>2. state' \in [Eps -> {"running", "halted", "stopped"}]
    BY <1>1, <1>2, <1>4, DoorbellIs
  <2>3. link' \in [Urbs \cup {ListHead} -> Urbs \cup {ListHead}]
    BY <1>10, <1>12 DEF Links
  <2> QED
    BY <1>1, <1>2, <1>5, <2>1, <2>2, <2>3 DEF Typed, TypeOK
<1>19. Control'
  BY <1>2, <1>6 DEF Control
<1>20. RoundInv'
  <2>1. SUFFICES ASSUME mUrb # None PROVE RoundInv'
    BY <1>2 DEF RoundInv
  <2>2. cb = "deleted" /\ ep = heap[mUrb].ring /\ cb' = "resubmitted" /\ mUrb \in Urbs
    BY <1>1, <1>2, <1>6, <2>1 DEF Typed, TypeOK
  <2>3. heap'[mUrb].ring = ep
    BY <1>5, <2>2
  <2>4. ~heap'[mUrb].live => heap'[mUrb].result # {}
    BY <1>1, <1>5, <2>1, <2>2 DEF RoundInv
  <2>5. PICK k \in 1 .. Len(s) + 1 : RestIs(s, k)
    BY <1>1, <1>7, <2>1 DEF RoundInv
  <2>6. PICK m \in 1 .. Len(q) + 1 : m = k + 1
    BY <1>8, <1>13, <2>5
  <2>7. mNext' = IF m <= Len(q) THEN q[m] ELSE ListHead
    <3>1. m <= Len(q) <=> k <= Len(s)
      BY <1>8, <1>13, <2>6
    <3>2. k <= Len(s) => q[m] = s[k]
      BY <1>8, <1>13, <2>6
    <3> QED
      BY <1>2, <2>5, <3>1, <3>2 DEF RestIs
  <2>8. \A j \in m .. Len(q) : heap'[q[j]].ring # ep
    <3>1. \A j \in m .. Len(q) : j \in 1 .. Len(q) /\ j # 1
      BY <2>5, <2>6
    <3>2. SUFFICES ASSUME NEW j \in m .. Len(q) PROVE heap'[q[j]].ring # ep
      OBVIOUS
    <3>3. PICK i \in 1 .. Len(s) : q[j] = s[i]
      BY <1>14, <3>1
    <3> QED
      BY <1>8, <1>15, <3>3
  <2>9. RestIs(q, m)'
    BY <1>2, <2>3, <2>6, <2>7, <2>8 DEF RestIs
  <2>10. \E j \in 1 .. Len(List') + 1 : RestIs(List, j)'
    BY <1>17, <2>6, <2>9 DEF RestIs
  <2> QED
    BY <1>2, <2>2, <2>3, <2>4, <2>10 DEF RoundInv
<1>21. TrbInv' /\ UrbsInv'
  <2>1. UrbGets(u, ep, t)
    BY <1>4, <1>5 DEF UrbGets
  <2> QED
    BY <1>1, <1>2, <1>3, <1>4, <2>1, PutKeepsTrbs
<1>22. AsyncArmed'
  <2>1. ArmedAt(ep, t[1])'
    BY <1>1, <1>3, <1>4, PutArms
  <2>2. ArmedAt(heap[u].ring, heap[u].trbs[1])'
    BY <1>5, <2>1 DEF ArmedAt
  <2>3. ASSUME NEW i \in 1 .. Len(q), ~heap'[q[i]].finished
        PROVE  \/ /\ \E j \in 1 .. Len(List) : q[i] = List[j]
                  /\ ~heap[q[i]].finished
                  /\ heap'[q[i]].ring = heap[q[i]].ring /\ heap'[q[i]].trbs = heap[q[i]].trbs
               \/ ArmedAt(heap[q[i]].ring, heap[q[i]].trbs[1])'
    <3>1. CASE q[i] = u
      BY <2>2, <3>1
    <3>2. CASE i - 1 \in 1 .. Len(s) /\ q[i] = s[i - 1]
      <4>1. PICK j \in 1 .. Len(s) : q[i] = s[j]
        BY <3>2
      <4> QED
        BY <1>7, <1>15, <2>3, <4>1
    <3> QED
      BY <1>14, <3>1, <3>2
  <2>4. \A r \in IntEps, id \in Nat : ArmedAt(r, id) => ArmedAt(r, id)'
    <3>1. \A r \in IntEps : r \in Rings
      BY DEF Rings, Eps
    <3> QED
      BY <1>1, <1>2, <1>3, <1>4, <3>1, PutKeepsArmedAt
  <2> QED
    BY <1>1, <1>17, <1>18, <2>3, <2>4, ArmedKept
<1>23. CommandsInv'
  BY <1>1, <1>2, <1>3, <1>4, PutKeepsCommands
<1>24. RecoveryInv' /\ BusyInv'
  BY <1>2, <1>6 DEF RecoveryInv, BusyInv
<1>25. IdleInv'
  <2>1. \A r \in SyncEps : r \in Rings \ {ep}
    BY TransferAssumption DEF Rings, Eps
  <2>2. \A r \in SyncEps : ring'[r] = ring[r]
    BY <1>3, <2>1 DEF Put
  <2> QED
    BY <1>1, <1>2, <1>6, <2>2 DEF IdleInv, QuietFrom
<1> QED
  BY <1>17, <1>18, <1>19, <1>20, <1>21, <1>22, <1>23, <1>24, <1>25 DEF Inv

-----------------------------------------------------------------------------
(* URBs are freed.                                                         *)

(* Only the allocation of the URB changes.                                 *)
LEMMA FreeIs ==
  ASSUME NEW h \in [Urbs -> Urb], NEW u \in Urbs, NEW g, g = Free(h, u)
  PROVE  /\ g \in [Urbs -> Urb] /\ ~g[u].live /\ g[u].ring = h[u].ring /\ g[u].result = h[u].result
         /\ g[u].kind = h[u].kind /\ g[u].trbs = h[u].trbs
         /\ \A v \in Urbs \ {u} : g[v] = h[v]
<1>1. h[u] \in Urb
  OBVIOUS
<1>2. PICK urb : urb = [h[u] EXCEPT !.live = FALSE]
  OBVIOUS
<1>3. urb \in Urb /\ ~urb.live /\ urb.ring = h[u].ring /\ urb.result = h[u].result
      /\ urb.kind = h[u].kind /\ urb.trbs = h[u].trbs
  BY <1>1, <1>2 DEF Urb
<1>4. g = [h EXCEPT ![u] = urb]
  BY <1>2 DEF Free
<1> QED
  BY <1>3, <1>4

(* The URB that is deleted is the one of the list for the endpoint; what   *)
(* links to it is the one before it or the head.                           *)
LEMMA DeleteAsyncDoes ==
  ASSUME Typed, Control, ListInv, NEW ep \in IntEps, DeleteAsync(ep)
  PROVE  /\ pc = "user" /\ UNCHANGED <<ring, state, acked, events, pc, chk, found, cur, recovery, mUrb, mNext, abandoned>>
         /\ \/ cb = "none" /\ cb' = "none"
            \/ cb = "error" /\ ep = heap[mUrb].ring /\ cb' = "deleted"
         /\ \E k \in 1 .. Len(List) :
              /\ heap[List[k]].ring = ep /\ heap' = Free(heap, List[k])
              /\ \E p : /\ p = ListHead \/ \E i \in 1 .. Len(List) : p = List[i]
                        /\ link[p] = List[k] /\ Removes(link, link', p, List[k])
<1>1. PICK s : s = List
  OBVIOUS
<1>2. /\ s \in Seq(Urbs) /\ Len(s) \in Nat /\ Chain(link, link[ListHead], s)
      /\ \A i \in 1 .. Len(s) : s[i] \in Urbs /\ s[i] # None
  BY <1>1, WhoIsListed
<1>3. PICK u : u = Listed(ep)
  OBVIOUS
<1>4. /\ pc = "user" /\ UNCHANGED <<ring, state, acked, events, pc, chk, found, cur, recovery, mUrb, mNext, abandoned>>
      /\ \/ cb = "none" /\ cb' = "none"
         \/ cb = "error" /\ ep = heap[mUrb].ring /\ cb' = "deleted"
      /\ u # None /\ link' = Removed(u) /\ heap' = Free(heap, u)
  BY <1>3 DEF DeleteAsync, ringVars
<1>5. PICK k \in 1 .. Len(s) : u = s[k] /\ heap[s[k]].ring = ep
  <2> DEFINE us == {v \in Urbs : heap[v].ring = ep}
  <2>1. u = FirstOf(us)
    BY <1>3 DEF Listed
  <2> HIDE DEF us
  <2>2. \E i \in 1 .. Len(s) : u = s[i] /\ s[i] \in us
    BY <1>1, <1>2, <1>4, <2>1, FirstIs
  <2> QED
    BY <2>2 DEF us
<1>6. Range(s) = {s[i] : i \in 1 .. Len(s)}
  BY <1>2, SeqIsFunction
<1> DEFINE P(l) == l \in Range(s) \cup {ListHead} /\ link[l] = u
<1>7. \E l : P(l)
  <2>1. CASE k = 1
    <3>1. link[ListHead] = s[1]
      BY <1>2, <1>5 DEF Chain
    <3> QED
      BY <1>5, <2>1, <3>1
  <2>2. CASE k # 1
    <3>1. k - 1 \in 1 .. Len(s) /\ k - 1 < Len(s) /\ (k - 1) + 1 = k
      BY <1>2, <2>2
    <3>2. link[s[k - 1]] = s[k]
      BY <1>2, <3>1 DEF Chain
    <3> QED
      BY <1>5, <1>6, <3>1, <3>2
  <2> QED
    BY <2>1, <2>2
<1>8. PICK p : p = CHOOSE l \in Range(s) \cup {ListHead} : link[l] = u
  OBVIOUS
<1>9. P(p)
  BY <1>7, <1>8
<1>10. Removes(link, link', p, u)
  BY <1>1, <1>4, <1>8 DEF Removed, Removes
<1> QED
  BY <1>1, <1>4, <1>5, <1>6, <1>9, <1>10

(* An asynchronous transfer is deleted: the list closes over it, and the   *)
(* saved next URB of the round is not the one that is deleted.             *)
LEMMA DeleteAsyncStep ==
  ASSUME Inv, NEW ep \in IntEps, DeleteAsync(ep)
  PROVE  Inv'
<1>1. /\ Typed /\ Control /\ ListInv /\ RoundInv /\ AsyncArmed /\ TrbInv /\ UrbsInv
      /\ CommandsInv /\ IdleInv
  BY DEF Inv
<1>2. PICK s, f, g, h : s = List /\ f = link /\ g = link' /\ h = heap
  OBVIOUS
<1>3. /\ pc = "user" /\ UNCHANGED <<ring, state, acked, events, pc, chk, found, cur, recovery, mUrb, mNext, abandoned>>
      /\ \/ cb = "none" /\ cb' = "none"
         \/ cb = "error" /\ ep = heap[mUrb].ring /\ cb' = "deleted"
  BY <1>1, DeleteAsyncDoes
<1>4. PICK k \in 1 .. Len(s) :
        /\ heap[s[k]].ring = ep /\ heap' = Free(heap, s[k])
        /\ \E p : /\ p = ListHead \/ \E i \in 1 .. Len(s) : p = s[i]
                  /\ f[p] = s[k] /\ Removes(f, g, p, s[k])
  <2>1. \E k \in 1 .. Len(List) :
              /\ heap[List[k]].ring = ep /\ heap' = Free(heap, List[k])
              /\ \E p : /\ p = ListHead \/ \E i \in 1 .. Len(List) : p = List[i]
                        /\ link[p] = List[k] /\ Removes(link, link', p, List[k])
    BY <1>1, DeleteAsyncDoes
  <2> QED
    BY <1>2, <2>1
<1>5. /\ Chain(f, f[ListHead], s) /\ s \in Seq(Urbs) /\ Len(s) \in Nat
      /\ \A i \in 1 .. Len(s) : s[i] \in Urbs /\ s[i] # None /\ IsListed(heap, s[i])
      /\ \A i, j \in 1 .. Len(s) : s[i] = s[j] => i = j
      /\ \A i, j \in 1 .. Len(s) : heap[s[i]].ring = heap[s[j]].ring => i = j
  BY <1>1, <1>2, WhoIsListed, ChainIs
<1>6. PICK u \in Urbs : u = s[k]
  BY <1>5
<1>7. cur = None /\ chk = None /\ recovery = "none" /\ (mUrb = None <=> cb = "none") /\ (mUrb = None <=> mNext = None)
  BY <1>1, <1>3 DEF Control, CurIsBusy
<1>8. /\ heap' \in [Urbs -> Urb] /\ ~heap'[u].live /\ heap'[u].ring = ep /\ heap'[u].result = heap[u].result
      /\ \A v \in Urbs \ {u} : heap'[v] = heap[v]
  <2>1. h \in [Urbs -> Urb]
    BY <1>1, <1>2 DEF Typed, TypeOK
  <2>2. PICK h2 : h2 = heap'
    OBVIOUS
  <2>3. h2 = Free(h, u)
    BY <1>2, <1>4, <1>6, <2>2
  <2> QED
    BY <1>2, <1>4, <1>6, <2>1, <2>2, <2>3, FreeIs
<1>9. Links(g) /\ \E q : Chain(g, g[ListHead], q) /\ Without(s, k, q)
  <2>1. Links(f)
    BY <1>1, <1>2 DEF Links, Typed, TypeOK
  <2>2. PICK p : /\ p = ListHead \/ \E i \in 1 .. Len(s) : p = s[i]
                 /\ f[p] = s[k] /\ Removes(f, g, p, s[k])
    BY <1>4
  <2>3. Leads(f, s, p, s[k])
    BY <2>2 DEF Leads
  <2>4. Chain(f, f[ListHead], s) /\ Removes(f, g, p, s[k])
    BY <1>5, <2>2
  <2> QED
    BY <2>1, <2>3, <2>4, Removal
<1>10. PICK q : /\ Chain(g, g[ListHead], q) /\ Len(q) = Len(s) - 1
                /\ \A i \in 1 .. Len(s) - 1 : q[i] = IF i < k THEN s[i] ELSE s[i + 1]
  BY <1>9 DEF Without
<1> DEFINE Pos(i) == IF i < k THEN i ELSE i + 1
<1>11. \A i \in 1 .. Len(q) : Pos(i) \in 1 .. Len(s) /\ Pos(i) # k /\ q[i] = s[Pos(i)]
  BY <1>5, <1>10
<1>12. \A i, j \in 1 .. Len(q) : Pos(i) = Pos(j) => i = j
  BY <1>5, <1>10
<1>13. \A j \in 1 .. Len(s) : j # k => \E i \in 1 .. Len(q) : Pos(i) = j
  <2>1. \A j \in 1 .. Len(s) : j < k => j \in 1 .. Len(q) /\ Pos(j) = j
    BY <1>5, <1>10
  <2>2. \A j \in 1 .. Len(s) : j > k => j - 1 \in 1 .. Len(q) /\ Pos(j - 1) = j
    BY <1>5, <1>10
  <2>3. \A j \in 1 .. Len(s) : j # k => j < k \/ j > k
    OBVIOUS
  <2> HIDE DEF Pos
  <2> QED
    BY <2>1, <2>2, <2>3
<1> HIDE DEF Pos
<1>14. \A i \in 1 .. Len(q) : /\ q[i] \in Urbs \ {u} /\ heap'[q[i]] = heap[q[i]]
                              /\ IsListed(heap, q[i]) /\ heap[q[i]].ring # ep
  <2>1. \A i \in 1 .. Len(s) : i # k => /\ s[i] \in Urbs \ {u} /\ heap'[s[i]] = heap[s[i]]
                                        /\ IsListed(heap, s[i]) /\ heap[s[i]].ring # ep
    BY <1>4, <1>5, <1>6, <1>8
  <2> QED
    BY <1>11, <2>1
<1>15. ListOf(q)'
  <2>1. Chain(link', link'[ListHead], q)
    BY <1>2, <1>10
  <2>2. \A i \in 1 .. Len(q) : IsListed(heap', q[i])
    BY <1>14 DEF IsListed
  <2>3. \A i, j \in 1 .. Len(q) : heap'[q[i]].ring = heap'[q[j]].ring => i = j
    <3>1. SUFFICES ASSUME NEW i \in 1 .. Len(q), NEW j \in 1 .. Len(q), heap'[q[i]].ring = heap'[q[j]].ring
                   PROVE  i = j
      OBVIOUS
    <3>2. PICK a \in 1 .. Len(s), b \in 1 .. Len(s) : a = Pos(i) /\ b = Pos(j)
      BY <1>11
    <3>3. heap[s[a]].ring = heap[s[b]].ring
      BY <1>11, <1>14, <3>1, <3>2
    <3>4. a = b
      BY <1>5, <3>3
    <3> QED
      BY <1>12, <3>2, <3>4
  <2>4. \A v \in Urbs : heap'[v].live => \E i \in 1 .. Len(q) : v = q[i]
    <3>1. SUFFICES ASSUME NEW v \in Urbs, heap'[v].live PROVE \E i \in 1 .. Len(q) : v = q[i]
      OBVIOUS
    <3>2. v # u /\ heap[v].live
      BY <1>8, <3>1
    <3>3. PICK j \in 1 .. Len(s) : v = s[j]
      BY <1>1, <1>2, <1>7, <3>2, WhoIsListed
    <3>4. j # k
      BY <1>6, <3>2, <3>3
    <3>5. PICK i \in 1 .. Len(q) : Pos(i) = j
      BY <1>13, <3>4
    <3> QED
      BY <1>11, <3>3, <3>5
  <2> QED
    BY <2>1, <2>2, <2>3, <2>4 DEF ListOf
<1>16. ListInv' /\ List' = q
  BY <1>15, ListIsNext
<1>17. Typed'
  <2>1. link' \in [Urbs \cup {ListHead} -> Urbs \cup {ListHead}]
    BY <1>2, <1>9 DEF Links
  <2> QED
    BY <1>1, <1>3, <1>8, <2>1 DEF Typed, TypeOK
<1>18. Control'
  BY <1>3, <1>7 DEF Control
<1>19. RoundInv'
  <2>1. SUFFICES ASSUME mUrb # None PROVE RoundInv'
    BY <1>3 DEF RoundInv
  <2>2. cb = "error" /\ ep = heap[mUrb].ring /\ cb' = "deleted" /\ mUrb \in Urbs
    BY <1>1, <1>3, <1>7, <2>1 DEF Typed, TypeOK
  <2>3. heap'[mUrb].ring = ep /\ heap'[mUrb].result # {}
    <3>1. heap[mUrb].result # {}
      BY <1>1, <2>1, <2>2 DEF RoundInv
    <3> QED
      BY <1>8, <2>2, <3>1
  <2>4. PICK m \in 1 .. Len(s) + 1 : RestIs(s, m)
    BY <1>1, <1>2, <2>1 DEF RoundInv
  <2>5. k < m
    <3>1. \A j \in m .. Len(s) : heap[s[j]].ring # ep
      BY <2>2, <2>4 DEF RestIs
    <3> QED
      BY <1>4, <1>5, <2>4, <3>1
  <2>6. PICK n \in 1 .. Len(q) + 1 : n = m - 1
    <3>1. m - 1 \in 1 .. Len(q) + 1
      BY <1>5, <1>10, <2>5
    <3> QED
      BY <3>1
  <2>7. mNext' = IF n <= Len(q) THEN q[n] ELSE ListHead
    <3>1. n <= Len(q) <=> m <= Len(s)
      BY <1>5, <1>10, <2>6
    <3>2. n <= Len(q) => q[n] = s[m]
      <4>1. n <= Len(q) => n \in 1 .. Len(s) - 1 /\ ~(n < k) /\ n + 1 = m
        BY <1>5, <1>10, <2>5, <2>6
      <4> QED
        BY <1>10, <4>1
    <3> QED
      BY <1>3, <2>4, <3>1, <3>2 DEF RestIs
  <2>8. \A j \in n .. Len(q) : heap'[q[j]].ring # ep
    <3>1. \A j \in n .. Len(q) : j \in 1 .. Len(q)
      BY <2>6
    <3> QED
      BY <1>14, <3>1
  <2>9. RestIs(q, n)'
    BY <1>3, <2>3, <2>6, <2>7, <2>8 DEF RestIs
  <2>10. \E j \in 1 .. Len(List') + 1 : RestIs(List, j)'
    BY <1>16, <2>6, <2>9 DEF RestIs
  <2>11. ep \in IntEps
    OBVIOUS
  <2> QED
    BY <1>3, <2>2, <2>3, <2>10, <2>11 DEF RoundInv
<1>20. TrbInv' /\ UrbsInv'
  <2>1. \A v \in Urbs : heap'[v].live => heap'[v] = heap[v]
    BY <1>8
  <2> QED
    BY <1>1, <1>3, <2>1, FreeKeepsTrbs
<1>21. AsyncArmed'
  <2>1. \A i \in 1 .. Len(q) : ~heap'[q[i]].finished =>
           /\ \E j \in 1 .. Len(List) : q[i] = List[j]
           /\ ~heap[q[i]].finished
           /\ heap'[q[i]].ring = heap[q[i]].ring /\ heap'[q[i]].trbs = heap[q[i]].trbs
    BY <1>2, <1>11, <1>14
  <2>2. \A r \in IntEps, id \in Nat : ArmedAt(r, id) => ArmedAt(r, id)'
    BY <1>3 DEF ArmedAt
  <2> QED
    BY <1>1, <1>16, <1>17, <2>1, <2>2, ArmedKept
<1>22. CommandsInv' /\ RecoveryInv' /\ BusyInv'
  BY <1>1, <1>3, <1>7 DEF CommandsInv, CommandIs, RecoveryInv, BusyInv
<1>23. IdleInv'
  BY <1>1, <1>3, <1>7 DEF IdleInv, QuietFrom
<1> QED
  BY <1>16, <1>17, <1>18, <1>19, <1>20, <1>21, <1>22, <1>23 DEF Inv

-----------------------------------------------------------------------------
(* A synchronous transfer returns to its caller.                           *)

(* Its URB and that of the command are freed.                              *)
Returned ==
  /\ cur # None /\ cur' = None /\ chk' = None /\ recovery' = "none" /\ pc = "wait" /\ pc' = "user"
  /\ UNCHANGED <<link, mUrb, mNext, cb, ring, acked, events, found>>
  /\ heap' \in [Urbs -> Urb] /\ ~heap'[cur].live /\ ~heap'[chk].live
  /\ \A v \in Urbs \ {cur, chk} : heap'[v] = heap[v]

(* Who waits, and for what                                                 *)
LEMMA WaitingIs ==
  ASSUME Typed, Control
  PROVE  /\ pc = "wait" => /\ cur \in Urbs /\ cur # None /\ heap[cur].live /\ heap[cur].ring \in SyncEps
                           /\ chk \in Urbs /\ chk # None /\ heap[chk].live
         /\ Waiting("sync") => recovery = "none" /\ chk = cur
         /\ Waiting("cmd") => recovery # "none" /\ chk # cur /\ heap[chk].ring = Cmd
<1>1. pc = "wait" => cur # None
  BY DEF Control
<1>2. cur # None => cur \in Urbs
  BY DEF Typed, TypeOK
<1>3. None \notin Urbs
  BY TransferAssumption
<1> QED
  BY <1>1, <1>2, <1>3 DEF Control, CurIsBusy, Waiting

(* ReturnToCaller, with the URB of a command freed before it.              *)
LEMMA ReturnDoes ==
  ASSUME Typed, Control, pc = "wait", NEW h,
         \/ h = heap /\ recovery = "none"
         \/ h = Free(heap, chk) /\ recovery # "none",
         ReturnToCaller(h)
  PROVE  Returned
<1>1. /\ cur \in Urbs /\ cur # None /\ chk \in Urbs /\ heap \in [Urbs -> Urb]
  BY WaitingIs DEF Typed, TypeOK
<1>2. PICK u, w, g, k : u = cur /\ w = chk /\ g = heap' /\ k = heap
  OBVIOUS
<1>3. u \in Urbs /\ w \in Urbs /\ k \in [Urbs -> Urb] /\ g = Free(h, u)
  BY <1>1, <1>2 DEF ReturnToCaller
<1>4. /\ h \in [Urbs -> Urb] /\ \A v \in Urbs \ {u, w} : h[v] = k[v]
      /\ w = u \/ ~h[w].live
  <2>1. CASE h = heap /\ recovery = "none"
    <3>1. w = u
      BY <1>1, <1>2, <2>1 DEF Control, CurIsBusy
    <3> QED
      BY <1>2, <1>3, <2>1, <3>1
  <2>2. CASE h = Free(heap, chk) /\ recovery # "none"
    <3>1. h = Free(k, w)
      BY <1>2, <2>2
    <3>2. h \in [Urbs -> Urb] /\ ~h[w].live /\ \A v \in Urbs \ {w} : h[v] = k[v]
      BY <1>3, <3>1, FreeIs
    <3> QED
      BY <3>2
  <2> QED
    BY <2>1, <2>2
<1>5. g \in [Urbs -> Urb] /\ ~g[u].live /\ \A v \in Urbs \ {u} : g[v] = h[v]
  BY <1>3, <1>4, FreeIs
<1>6. ~g[w].live /\ \A v \in Urbs \ {u, w} : g[v] = k[v]
  BY <1>3, <1>4, <1>5
<1>7. /\ cur' = None /\ chk' = None /\ recovery' = "none" /\ pc' = "user"
      /\ UNCHANGED <<link, mUrb, mNext, cb, ring, acked, events, found>>
  BY DEF ReturnToCaller, listVars
<1> QED
  BY <1>1, <1>2, <1>5, <1>6, <1>7 DEF Returned

(* Nothing else changes.                                                   *)
LEMMA ReturnKeeps ==
  ASSUME Inv, Returned, state' \in [Eps -> {"running", "halted", "stopped"}], abandoned' \subseteq SyncEps
  PROVE  /\ Typed' /\ Control' /\ ListInv' /\ RoundInv' /\ AsyncArmed' /\ TrbInv' /\ UrbsInv'
         /\ RecoveryInv' /\ BusyInv'
<1>1. /\ Typed /\ Control /\ ListInv /\ RoundInv /\ AsyncArmed /\ TrbInv /\ UrbsInv
  BY DEF Inv
<1>2. /\ cur # None /\ cur' = None /\ chk' = None /\ recovery' = "none" /\ pc = "wait" /\ pc' = "user"
      /\ UNCHANGED <<link, mUrb, mNext, cb, ring, acked, events, found>>
      /\ heap' \in [Urbs -> Urb] /\ ~heap'[cur].live /\ ~heap'[chk].live
      /\ \A v \in Urbs \ {cur, chk} : heap'[v] = heap[v]
  BY DEF Returned
<1>3. Typed'
  BY <1>1, <1>2 DEF Typed, TypeOK
<1>4. Control'
  BY <1>1, <1>2 DEF Control, CurIsBusy
<1>5. \A i \in 1 .. Len(List) : List[i] \in Urbs \ {cur, chk} /\ IsListed(heap, List[i])
  BY <1>1, <1>2, WhoIsListed
<1>6. ListInv' /\ List' = List
  <2>1. \A i \in 1 .. Len(List) : IsListed(heap', List[i]) /\ heap'[List[i]].ring = heap[List[i]].ring
    BY <1>2, <1>5 DEF IsListed
  <2>2. \A v \in Urbs : heap[v].live => \/ cur # None /\ v \in {cur, chk}
                                        \/ \E i \in 1 .. Len(List) : v = List[i]
    BY <1>1 DEF ListInv, ListOf
  <2>3. \A v \in Urbs : heap'[v].live => \E i \in 1 .. Len(List) : v = List[i]
    BY <1>2, <2>2
  <2> QED
    BY <1>1, <1>2, <2>1, <2>3, ListKept
<1>7. RoundInv'
  <2>1. mUrb # None => mUrb \in Urbs \ {cur, chk}
    <3>1. SUFFICES ASSUME mUrb # None PROVE mUrb \in Urbs \ {cur, chk}
      OBVIOUS
    <3>2. mUrb \in Urbs /\ heap[mUrb].ring \in IntEps
      BY <1>1, <3>1 DEF RoundInv, Typed, TypeOK
    <3>3. heap[cur].ring \notin IntEps /\ heap[chk].ring \notin IntEps
      BY <1>1, <1>2, TransferAssumption DEF Control, CurIsBusy
    <3> QED
      BY <3>2, <3>3
  <2>2. mUrb # None => heap'[mUrb] = heap[mUrb]
    BY <1>2, <2>1
  <2>3. \A i \in 1 .. Len(List) : heap'[List[i]].ring = heap[List[i]].ring
    BY <1>2, <1>5
  <2> QED
    BY <1>1, <1>2, <1>6, <2>2, <2>3, RoundKept
<1>8. TrbInv' /\ UrbsInv'
  <2>1. \A v \in Urbs : heap'[v].live => heap'[v] = heap[v]
    BY <1>2
  <2> QED
    BY <1>1, <1>2, <2>1, FreeKeepsTrbs
<1>9. AsyncArmed'
  <2>1. PICK s : s = List
    OBVIOUS
  <2>2. \A i \in 1 .. Len(s) : ~heap'[s[i]].finished =>
           /\ \E j \in 1 .. Len(List) : s[i] = List[j]
           /\ ~heap[s[i]].finished
           /\ heap'[s[i]].ring = heap[s[i]].ring /\ heap'[s[i]].trbs = heap[s[i]].trbs
    BY <1>2, <1>5, <2>1
  <2>3. \A r \in IntEps, id \in Nat : ArmedAt(r, id) => ArmedAt(r, id)'
    BY <1>2 DEF ArmedAt
  <2> QED
    BY <1>1, <1>3, <1>6, <2>1, <2>2, <2>3, ArmedKept
<1>10. RecoveryInv' /\ BusyInv'
  BY <1>2 DEF RecoveryInv, BusyInv
<1> QED
  BY <1>3, <1>4, <1>6, <1>7, <1>8, <1>9, <1>10

(* Commands to skip TRBs are for endpoints that are stopped.               *)
LEMMA StateKeepsCommands ==
  ASSUME CommandsInv, ring' = ring, \A q \in SyncEps : state'[q] = "stopped" => state[q] = "stopped"
  PROVE  CommandsInv'
  BY DEF CommandsInv, CommandIs

(* What the endpoint must be like when it is not left abandoned            *)
LEMMA ReturnKeepsIdle ==
  ASSUME Inv, Returned, NEW ep, ep = heap[cur].ring,
         \A q \in SyncEps : q \notin abandoned' => q = ep \/ q \notin abandoned,
         ep \notin abandoned' => ring[ep] = <<>> /\ QuietFrom(ep, 1)
  PROVE  IdleInv'
<1>1. SUFFICES ASSUME NEW q \in SyncEps \ abandoned'
               PROVE  ring'[q] = <<>> /\ QuietFrom(q, 1)'
  BY DEF IdleInv
<1>2. CASE q = ep
  BY <1>1, <1>2 DEF Returned, QuietFrom
<1>3. CASE q # ep
  BY <1>1, <1>3 DEF Returned, QuietFrom, Inv, IdleInv
<1> QED
  BY <1>2, <1>3

(* A return is a step of the invariant when it leaves the endpoint empty   *)
(* or abandoned.                                                           *)
LEMMA ReturnStep ==
  ASSUME Inv, Returned, state' \in [Eps -> {"running", "halted", "stopped"}], abandoned' \subseteq SyncEps,
         NEW ep, ep = heap[cur].ring,
         \A q \in SyncEps : state'[q] = "stopped" => state[q] = "stopped",
         \A q \in SyncEps : q \notin abandoned' => q = ep \/ q \notin abandoned,
         ep \notin abandoned' => ring[ep] = <<>> /\ QuietFrom(ep, 1)
  PROVE  Inv'
<1>1. /\ Typed' /\ Control' /\ ListInv' /\ RoundInv' /\ AsyncArmed' /\ TrbInv' /\ UrbsInv'
      /\ RecoveryInv' /\ BusyInv'
  BY ReturnKeeps
<1>2. CommandsInv'
  <2>1. ring' = ring /\ CommandsInv
    BY DEF Returned, Inv
  <2> QED
    BY <2>1, StateKeepsCommands
<1>3. IdleInv'
  BY ReturnKeepsIdle
<1> QED
  BY <1>1, <1>2, <1>3 DEF Inv

(* A transfer that succeeded has all its TRBs completed and their events   *)
(* handled.                                                                *)
LEMMA TransferSucceedsStep ==
  ASSUME Inv, TransferSucceeds
  PROVE  Inv'
<1>1. /\ Typed /\ Control /\ TrbInv /\ UrbsInv /\ BusyInv
  BY DEF Inv
<1>2. /\ Waiting("sync") /\ pc = "wait" /\ heap[chk].finished /\ heap[chk].result = {}
      /\ state' = state /\ abandoned' = abandoned /\ ReturnToCaller(heap)
  BY DEF TransferSucceeds, Waiting
<1>3. /\ cur \in Urbs /\ cur # None /\ heap[cur].live /\ recovery = "none" /\ chk = cur
      /\ heap[cur].ring \in SyncEps
  BY <1>1, <1>2, WaitingIs
<1>4. PICK ep \in SyncEps : ep = heap[cur].ring
  BY <1>3
<1>5. Returned
  <2>1. PICK h : h = heap
    OBVIOUS
  <2> QED
    BY <1>1, <1>2, <1>3, <2>1, ReturnDoes
<1>6. heap[cur].endDone /\ heap[cur].trbs[Len(heap[cur].trbs)] \in acked[ep]
  BY <1>1, <1>2, <1>3, <1>4 DEF UrbsInv, Progressed
<1>7. ep \notin abandoned => ring[ep] = <<>> /\ QuietFrom(ep, 1)
  <2>1. SUFFICES ASSUME ep \notin abandoned PROVE ring[ep] = <<>> /\ QuietFrom(ep, 1)
    OBVIOUS
  <2>2. ep \in Rings
    BY DEF Rings, Eps
  <2>3. Len(ring[ep]) = 0
    BY <1>1, <1>3, <1>4, <1>6, <2>1, <2>2, CompletedIsEmpty
  <2>4. ring[ep] = <<>>
    BY <2>2, <2>3, TypesAre, <1>1
  <2>5. QuietFrom(ep, 1)
    BY <1>1, <1>3, <1>4, <1>6, <2>1 DEF BusyInv
  <2> QED
    BY <2>4, <2>5
<1>8. state' \in [Eps -> {"running", "halted", "stopped"}] /\ abandoned' \subseteq SyncEps
  BY <1>1, <1>2 DEF Typed, TypeOK
<1> QED
  BY <1>2, <1>4, <1>5, <1>7, <1>8, ReturnStep

(* A transfer or a recovery that fails abandons the endpoint.              *)
LEMMA TransferFailsStep ==
  ASSUME Inv, TransferFails
  PROVE  Inv'
<1>1. Typed /\ Control
  BY DEF Inv
<1>2. /\ Waiting("sync") /\ pc = "wait" /\ state' = state /\ abandoned' = abandoned \cup {heap[cur].ring}
      /\ ReturnToCaller(heap)
  BY DEF TransferFails, Waiting
<1>3. recovery = "none" /\ heap[cur].ring \in SyncEps
  BY <1>1, <1>2, WaitingIs
<1>4. PICK ep \in SyncEps : ep = heap[cur].ring
  BY <1>3
<1>5. Returned
  <2>1. PICK h : h = heap
    OBVIOUS
  <2> QED
    BY <1>1, <1>2, <1>3, <2>1, ReturnDoes
<1>6. state' \in [Eps -> {"running", "halted", "stopped"}] /\ abandoned' \subseteq SyncEps
  BY <1>1, <1>2, <1>3 DEF Typed, TypeOK
<1> QED
  BY <1>2, <1>4, <1>5, <1>6, ReturnStep

(* The recovery fails: the command is refused or not answered in time.     *)
LEMMA CommandFailsStep ==
  ASSUME Inv, CommandFails
  PROVE  Inv'
<1>1. Typed /\ Control
  BY DEF Inv
<1>2. /\ Waiting("cmd") /\ pc = "wait" /\ state' = state /\ abandoned' = abandoned \cup {heap[cur].ring}
      /\ ReturnToCaller(Free(heap, chk))
  BY DEF CommandFails, Waiting
<1>3. recovery # "none" /\ heap[cur].ring \in SyncEps
  BY <1>1, <1>2, WaitingIs
<1>4. PICK ep \in SyncEps : ep = heap[cur].ring
  BY <1>3
<1>5. Returned
  <2>1. PICK h : h = Free(heap, chk)
    OBVIOUS
  <2> QED
    BY <1>1, <1>2, <1>3, <2>1, ReturnDoes
<1>6. state' \in [Eps -> {"running", "halted", "stopped"}] /\ abandoned' \subseteq SyncEps
  BY <1>1, <1>2, <1>3 DEF Typed, TypeOK
<1> QED
  BY <1>2, <1>4, <1>5, <1>6, ReturnStep

(* The answer to Set TR Dequeue Pointer ends a recovery that succeeded:    *)
(* the endpoint is empty.                                                  *)
LEMMA RecoveryEndsStep ==
  ASSUME Inv, CommandSucceeds, recovery = "deq"
  PROVE  Inv'
<1>1. Typed /\ Control /\ UrbsInv /\ RecoveryInv
  BY DEF Inv
<1>2. /\ Waiting("cmd") /\ pc = "wait" /\ heap[chk].finished /\ heap[chk].result = {}
      /\ Doorbell(heap[cur].ring) /\ abandoned' = abandoned \ {heap[cur].ring}
      /\ ReturnToCaller(Free(heap, chk))
  BY DEF CommandSucceeds, Waiting
<1>3. /\ recovery # "none" /\ heap[cur].ring \in SyncEps
      /\ chk \in Urbs /\ heap[chk].live /\ heap[chk].ring = Cmd
  BY <1>1, <1>2, WaitingIs
<1>4. PICK ep \in SyncEps : ep = heap[cur].ring
  BY <1>3
<1>5. Returned
  <2>1. PICK h : h = Free(heap, chk)
    OBVIOUS
  <2> QED
    BY <1>1, <1>2, <1>3, <2>1, ReturnDoes
<1>6. heap[chk].trbs[1] \in acked[Cmd]
  BY <1>1, <1>2, <1>3 DEF UrbsInv, Progressed
<1>7. ring[ep] = <<>> /\ QuietFrom(ep, 1)
  BY <1>1, <1>4, <1>6 DEF RecoveryInv
<1>8. ep \in Eps
  BY DEF Eps
<1>9. /\ state' \in [Eps -> {"running", "halted", "stopped"}]
      /\ state'[ep] # "stopped" /\ \A q \in Eps \ {ep} : state'[q] = state[q]
  BY <1>1, <1>2, <1>4, <1>8, DoorbellIs
<1>10. \A q \in SyncEps : state'[q] = "stopped" => state[q] = "stopped"
  BY <1>9 DEF Eps
<1>11. abandoned' \subseteq SyncEps
  BY <1>1, <1>2 DEF Typed, TypeOK
<1>12. \A q \in SyncEps : q \notin abandoned' => q = ep \/ q \notin abandoned
  BY <1>2, <1>4
<1> QED
  BY <1>4, <1>5, <1>7, <1>9, <1>10, <1>11, <1>12, ReturnStep

-----------------------------------------------------------------------------
(* The driver sends a command.                                             *)

(* The heap h before it, in which the URB of the command before may be     *)
(* freed, and the TRB t of the URB u of the new one                        *)
HeapBefore(h) ==
  /\ h \in [Urbs -> Urb] /\ h[cur] = heap[cur]
  /\ \A v \in Urbs : h[v].live => h[v] = heap[v] /\ (v = cur \/ \E i \in 1 .. Len(List) : v = List[i])
  /\ \A i \in 1 .. Len(List) : h[List[i]] = heap[List[i]] /\ h[List[i]].live
  /\ mUrb # None => h[mUrb] = heap[mUrb] /\ h[mUrb].live
CommandSent(u, t) ==
  /\ u \in Urbs /\ u # None /\ u # cur /\ u # mUrb /\ \A i \in 1 .. Len(List) : List[i] # u
  /\ heap' \in [Urbs -> Urb] /\ heap'[cur] = heap[cur]
  /\ \A v \in Urbs \ {u} : heap'[v].live =>
       heap'[v] = heap[v] /\ (v = cur \/ \E i \in 1 .. Len(List) : v = List[i])
  /\ \A i \in 1 .. Len(List) : heap'[List[i]] = heap[List[i]]
  /\ mUrb # None => heap'[mUrb] = heap[mUrb]
  /\ heap'[u].live /\ heap'[u].kind = "cmd" /\ heap'[u].ring = Cmd /\ heap'[u].trbs = t
  /\ ~heap'[u].startDone /\ ~heap'[u].endDone /\ ~heap'[u].finished

(* The one that is waited for is the only one that may be freed.           *)
LEMMA HeapBeforeIs ==
  ASSUME Typed, Control, ListInv, RoundInv, pc = "wait", NEW h,
         \/ h = heap /\ recovery = "none"
         \/ h = Free(heap, chk) /\ recovery # "none"
  PROVE  HeapBefore(h)
<1>1. /\ cur \in Urbs /\ cur # None /\ chk \in Urbs /\ heap \in [Urbs -> Urb] /\ heap[cur].live
      /\ heap[cur].ring \in SyncEps
  BY WaitingIs DEF Typed, TypeOK
<1>2. /\ recovery = "none" => chk = cur
      /\ recovery # "none" => chk # cur /\ heap[chk].ring = Cmd
      /\ cb \in {"none", "error"}
  BY <1>1 DEF Control, CurIsBusy
<1>3. PICK w, k, s : w = chk /\ k = heap /\ s = List
  OBVIOUS
<1>4. h \in [Urbs -> Urb] /\ \A v \in Urbs \ {w} : h[v] = k[v]
  <2>1. CASE h = heap
    BY <1>1, <1>3, <2>1
  <2>2. CASE h = Free(heap, chk)
    BY <1>1, <1>3, <2>2, FreeIs
  <2> QED
    BY <2>1, <2>2
<1>5. recovery # "none" => ~h[w].live
  <2>1. SUFFICES ASSUME recovery # "none" PROVE ~h[w].live
    OBVIOUS
  <2>2. h = Free(k, w)
    BY <1>3, <2>1
  <2> QED
    BY <1>1, <1>3, <2>2, FreeIs
<1>6. recovery = "none" => h = heap
  OBVIOUS
<1>7. h[cur] = heap[cur]
  BY <1>1, <1>2, <1>3, <1>4, <1>6
<1>8. \A i \in 1 .. Len(s) : s[i] \in Urbs \ {w} /\ heap[s[i]].live
  BY <1>1, <1>3, WhoIsListed DEF IsListed
<1>9. \A v \in Urbs : heap[v].live => v \in {cur, chk} \/ \E i \in 1 .. Len(s) : v = s[i]
  <2>1. \A v \in Urbs : heap[v].live => \/ cur # None /\ v \in {cur, chk}
                                        \/ \E i \in 1 .. Len(s) : v = s[i]
    BY <1>3 DEF ListInv, ListOf
  <2> QED
    BY <2>1
<1>10. ASSUME NEW v \in Urbs, h[v].live
       PROVE  h[v] = heap[v] /\ (v = cur \/ \E i \in 1 .. Len(s) : v = s[i])
  <2>1. CASE recovery = "none"
    BY <1>2, <1>6, <1>9, <1>10, <2>1
  <2>2. CASE recovery # "none"
    <3>1. v # w
      BY <1>5, <1>10, <2>2
    <3> QED
      BY <1>3, <1>4, <1>9, <1>10, <3>1
  <2> QED
    BY <2>1, <2>2
<1>11. mUrb # None => h[mUrb] = heap[mUrb] /\ h[mUrb].live
  <2>1. SUFFICES ASSUME mUrb # None PROVE h[mUrb] = heap[mUrb] /\ h[mUrb].live
    OBVIOUS
  <2>2. mUrb \in Urbs /\ heap[mUrb].ring \in IntEps /\ heap[mUrb].live
    BY <1>2, <2>1 DEF RoundInv, Typed, TypeOK
  <2>3. heap[cur].ring \notin IntEps /\ (recovery # "none" => heap[chk].ring \notin IntEps)
    BY <1>1, <1>2, TransferAssumption
  <2>4. mUrb # w
    BY <1>2, <1>3, <2>2, <2>3
  <2> QED
    BY <1>3, <1>4, <2>2, <2>4
<1>12. \A i \in 1 .. Len(s) : h[s[i]] = heap[s[i]] /\ h[s[i]].live
  BY <1>3, <1>4, <1>8
<1> QED
  BY <1>3, <1>4, <1>7, <1>10, <1>11, <1>12 DEF HeapBefore

(* What Command changes when it starts from such a heap.                   *)
LEMMA CommandIsSent ==
  ASSUME Typed, Control, pc = "wait", NEW op \in {"stop", "reset", "deq"},
         ListInv, NEW h, HeapBefore(h), Command(op, h)
  PROVE  /\ pc' = "wait" /\ recovery' = op
         /\ UNCHANGED <<link, mUrb, mNext, cb, state, events, found, cur>>
         /\ \E u, t : /\ Fresh(Cmd, u, t) /\ Len(t) = 1 /\ Put(Cmd, t, CommandJob(op, heap[cur].ring))
                      /\ CommandSent(u, t) /\ chk' = u
<1>1. /\ h \in [Urbs -> Urb] /\ h[cur] = heap[cur]
      /\ \A v \in Urbs : h[v].live => h[v] = heap[v] /\ (v = cur \/ \E i \in 1 .. Len(List) : v = List[i])
      /\ \A i \in 1 .. Len(List) : h[List[i]] = heap[List[i]] /\ h[List[i]].live
      /\ mUrb # None => h[mUrb] = heap[mUrb] /\ h[mUrb].live
  BY DEF HeapBefore
<1>2. /\ cur \in Urbs /\ cur # None /\ heap[cur].live /\ heap[cur].ring \in SyncEps
  BY WaitingIs
<1>3. PICK u, t :
        /\ u \in Urbs /\ ~h[u].live /\ Fresh(Cmd, u, t) /\ Len(t) = 1
        /\ Put(Cmd, t, CommandJob(op, heap[cur].ring))
        /\ heap' \in [Urbs -> Urb] /\ heap'[u] = NewUrb("cmd", Cmd, t)
        /\ \A v \in Urbs \ {u} : heap'[v] = h[v]
        /\ chk' = u
  <2>1. \E u \in Urbs : \E t :
          /\ ~h[u].live /\ Fresh(Cmd, u, t) /\ Len(t) = 1
          /\ Put(Cmd, t, CommandJob(op, heap[cur].ring))
          /\ heap' \in [Urbs -> Urb] /\ heap'[u] = NewUrb("cmd", Cmd, t)
          /\ \A v \in Urbs \ {u} : heap'[v] = h[v]
          /\ chk' = u
    BY <1>1, <1>2, CommandDoes
  <2> QED
    BY <2>1
<1>4. pc' = "wait" /\ recovery' = op /\ UNCHANGED <<link, mUrb, mNext, cb, state, events, found, cur>>
  BY <1>1, <1>2, CommandDoes
<1>5. /\ heap'[u].live /\ heap'[u].kind = "cmd" /\ heap'[u].ring = Cmd /\ heap'[u].trbs = t
      /\ ~heap'[u].startDone /\ ~heap'[u].endDone /\ ~heap'[u].finished
  <2>1. t \in Seq(Nat) /\ Cmd \in Rings
    BY <1>3 DEF Fresh, Rings
  <2>2. PICK urb : urb = NewUrb("cmd", Cmd, t)
    OBVIOUS
  <2>3. urb.live /\ urb.kind = "cmd" /\ urb.ring = Cmd /\ urb.trbs = t
        /\ ~urb.startDone /\ ~urb.endDone /\ ~urb.finished /\ urb.result = {}
    BY <2>1, <2>2, NewUrbIs
  <2> QED
    BY <1>3, <2>2, <2>3
<1>6. u # None /\ u # cur /\ u # mUrb /\ \A i \in 1 .. Len(List) : List[i] # u
  BY <1>1, <1>2, <1>3, TransferAssumption
<1>7. mUrb # None => mUrb \in Urbs
  BY DEF Typed, TypeOK
<1>8. \A i \in 1 .. Len(List) : List[i] \in Urbs
  BY WhoIsListed
<1> QED
  BY <1>1, <1>2, <1>3, <1>4, <1>5, <1>6, <1>7, <1>8 DEF CommandSent

(* The list, the round and the control when a command was sent             *)
LEMMA CommandKeepsControl ==
  ASSUME Inv, pc = "wait", NEW op \in {"stop", "reset", "deq"}, NEW u, NEW t,
         Fresh(Cmd, u, t), Len(t) = 1, NEW job, Put(Cmd, t, job), CommandSent(u, t), chk' = u,
         pc' = "wait", recovery' = op, abandoned' = abandoned,
         UNCHANGED <<link, mUrb, mNext, cb, state, events, found, cur>>
  PROVE  /\ Typed' /\ Control' /\ ListInv' /\ RoundInv' /\ AsyncArmed' /\ TrbInv' /\ UrbsInv'
<1>1. /\ Typed /\ Control /\ ListInv /\ RoundInv /\ AsyncArmed /\ TrbInv /\ UrbsInv
  BY DEF Inv
<1>2. /\ cur \in Urbs /\ cur # None /\ heap[cur].live /\ heap[cur].ring \in SyncEps /\ heap[cur].kind = "sync"
      /\ cb \in {"none", "error"} /\ (mUrb = None <=> cb = "none") /\ (mUrb = None <=> mNext = None)
  BY <1>1, WaitingIs DEF Control, CurIsBusy
<1>3. /\ u \in Urbs /\ u # None /\ u # cur /\ u # mUrb /\ \A i \in 1 .. Len(List) : List[i] # u
      /\ heap' \in [Urbs -> Urb] /\ heap'[cur] = heap[cur]
      /\ \A v \in Urbs \ {u} : heap'[v].live =>
           heap'[v] = heap[v] /\ (v = cur \/ \E i \in 1 .. Len(List) : v = List[i])
      /\ \A i \in 1 .. Len(List) : heap'[List[i]] = heap[List[i]]
      /\ mUrb # None => heap'[mUrb] = heap[mUrb]
      /\ heap'[u].live /\ heap'[u].kind = "cmd" /\ heap'[u].ring = Cmd /\ heap'[u].trbs = t
      /\ ~heap'[u].startDone /\ ~heap'[u].endDone /\ ~heap'[u].finished
  BY DEF CommandSent
<1>4. Cmd \in Rings /\ t \in Seq(Nat)
  BY DEF Rings, Fresh
<1>5. Typed'
  <2>1. /\ DOMAIN ring' = Rings /\ ring' \in [Rings -> Seq(Trbs)] /\ acked' \in [Rings -> SUBSET Nat]
        /\ \A q \in Rings : \A i \in 1 .. Len(ring'[q]) : ring'[q][i].id \in TrbIds(q)
        /\ \A q \in Rings : acked'[q] \subseteq TrbIds(q)
    BY <1>1, <1>4, PutTyped
  <2> QED
    BY <1>1, <1>3, <2>1 DEF Typed, TypeOK
<1>6. Control'
  BY <1>2, <1>3 DEF Control, CurIsBusy
<1>7. ListInv' /\ List' = List
  <2>1. \A i \in 1 .. Len(List) : IsListed(heap', List[i]) /\ heap'[List[i]].ring = heap[List[i]].ring
    BY <1>1, <1>3, WhoIsListed DEF IsListed
  <2>2. \A v \in Urbs : heap'[v].live => \/ cur' # None /\ v \in {cur', chk'}
                                         \/ \E i \in 1 .. Len(List) : v = List[i]
    BY <1>2, <1>3
  <2> QED
    BY <1>1, <2>1, <2>2, ListKept
<1>8. RoundInv'
  <2>1. \A i \in 1 .. Len(List) : heap'[List[i]].ring = heap[List[i]].ring
    BY <1>3
  <2> QED
    BY <1>1, <1>3, <1>7, <2>1, RoundKept
<1>9. TrbInv' /\ UrbsInv'
  <2>1. UrbGets(u, Cmd, t)
    BY <1>3 DEF UrbGets
  <2>2. PICK r \in Rings : r = Cmd
    BY <1>4
  <2> QED
    BY <1>1, <1>3, <2>1, <2>2, PutKeepsTrbs
<1>10. AsyncArmed'
  <2>1. PICK s : s = List
    OBVIOUS
  <2>2. \A i \in 1 .. Len(s) : ~heap'[s[i]].finished =>
           /\ \E j \in 1 .. Len(List) : s[i] = List[j]
           /\ ~heap[s[i]].finished
           /\ heap'[s[i]].ring = heap[s[i]].ring /\ heap'[s[i]].trbs = heap[s[i]].trbs
    BY <1>3, <2>1
  <2>3. \A r \in IntEps, id \in Nat : ArmedAt(r, id) => ArmedAt(r, id)'
    <3>1. \A r \in IntEps : r \in Rings
      BY DEF Rings, Eps
    <3> QED
      BY <1>1, <1>4, <3>1, PutKeepsArmedAt
  <2> QED
    BY <1>1, <1>5, <1>7, <2>1, <2>2, <2>3, ArmedKept
<1> QED
  BY <1>5, <1>6, <1>7, <1>8, <1>9, <1>10

(* The commands and the recovery when a command was sent                   *)
LEMMA CommandKeepsQuiet ==
  ASSUME Inv, pc = "wait", NEW op \in {"stop", "reset", "deq"}, NEW u, NEW t, NEW ep, ep = heap[cur].ring,
         Fresh(Cmd, u, t), Len(t) = 1, Put(Cmd, t, CommandJob(op, ep)), CommandSent(u, t), chk' = u,
         pc' = "wait", recovery' = op, abandoned' = abandoned,
         UNCHANGED <<link, mUrb, mNext, cb, state, events, found, cur>>,
         op = "deq" => Len(ring[Cmd]) = 0 /\ state[ep] = "stopped" /\ QuietFrom(ep, 1)
  PROVE  CommandsInv' /\ RecoveryInv' /\ IdleInv' /\ BusyInv'
<1>1. /\ Typed /\ Control /\ CommandsInv /\ IdleInv /\ BusyInv
  BY DEF Inv
<1>2. /\ cur \in Urbs /\ cur # None /\ ep \in SyncEps /\ ep \in Rings /\ ep # Cmd
      /\ \A q \in SyncEps : q \in Rings \ {Cmd}
  BY <1>1, WaitingIs, TransferAssumption DEF Rings, Eps
<1>3. /\ heap'[cur] = heap[cur] /\ heap'[u].trbs = t /\ ~heap'[u].endDone
  BY DEF CommandSent
<1>4. PICK n \in Nat : n = Len(ring[Cmd])
  BY <1>1, TypesAre DEF Rings
<1>5. PICK job : job = CommandJob(op, ep)
  OBVIOUS
<1>6. /\ \A q \in SyncEps : ring'[q] = ring[q] /\ acked'[q] = acked[q]
      /\ Len(ring'[Cmd]) = n + 1 /\ \A i \in 1 .. n : ring'[Cmd][i] = ring[Cmd][i]
      /\ ring'[Cmd][n + 1].id = t[1] /\ ring'[Cmd][n + 1].job = job
      /\ t[1] \notin acked'[Cmd]
  <2>1. /\ \A q \in Rings \ {Cmd} : ring'[q] = ring[q] /\ acked'[q] = acked[q]
        /\ Len(ring'[Cmd]) = n + Len(t) /\ \A i \in 1 .. n : ring'[Cmd][i] = ring[Cmd][i]
        /\ \A i \in 1 .. Len(t) : ring'[Cmd][i + n].id = t[i] /\ ring'[Cmd][i + n].job = job
        /\ \A x : x \in acked'[Cmd] <=> x \in acked[Cmd] /\ \A i \in 1 .. Len(t) : t[i] # x
    BY <1>4, <1>5 DEF Put
  <2>2. 1 \in 1 .. Len(t) /\ 1 + n = n + 1
    BY <1>4
  <2> QED
    BY <1>2, <2>1, <2>2
<1>7. /\ job.op = op /\ job.ep = ep /\ (op # "deq" => job.skip = {})
      /\ op = "deq" => \A j \in 1 .. Len(ring[ep]) : ring[ep][j].id \in job.skip
  <2>1. DOMAIN ring[ep] = 1 .. Len(ring[ep])
    BY <1>1, <1>2, TypesAre, SeqIsFunction
  <2>2. job = [op |-> op, ep |-> ep,
               skip |-> IF op = "deq" THEN {ring[ep][i].id : i \in DOMAIN ring[ep]} ELSE {}]
    BY <1>5 DEF CommandJob
  <2>3. job.op = op /\ job.ep = ep
        /\ job.skip = IF op = "deq" THEN {ring[ep][i].id : i \in DOMAIN ring[ep]} ELSE {}
    BY <2>2
  <2> QED
    BY <2>1, <2>3
<1>8. CommandsInv'
  <2>1. ASSUME NEW i \in 1 .. n
        PROVE  CommandIs(ring[Cmd][i], i)'
    <3>1. PICK trb, q : trb = ring[Cmd][i] /\ q = trb.job.ep
      OBVIOUS
    <3>2. CommandIs(trb, i) /\ q \in SyncEps
      BY <1>1, <1>4, <3>1 DEF CommandsInv, CommandIs
    <3>3. ring'[q] = ring[q] /\ state' = state /\ ring'[Cmd][i] = trb
      BY <1>6, <3>1, <3>2
    <3> QED
      BY <3>1, <3>2, <3>3 DEF CommandIs
  <2>2. ASSUME NEW i, i = n + 1
        PROVE  CommandIs(ring[Cmd][i], i)'
    <3>1. PICK trb : trb = ring'[Cmd][i]
      OBVIOUS
    <3>2. trb.job = job /\ ring'[ep] = ring[ep] /\ (op = "deq" => i = 1)
      BY <1>2, <1>4, <1>6, <2>2, <3>1
    <3> QED
      BY <1>2, <1>7, <3>1, <3>2 DEF CommandIs
  <2>3. \A i \in 1 .. Len(ring'[Cmd]) : i \in 1 .. n \/ i = n + 1
    BY <1>4, <1>6
  <2>4. \A i \in 1 .. Len(ring'[Cmd]) : CommandIs(ring[Cmd][i], i)'
    BY <2>1, <2>2, <2>3
  <2> QED
    BY <2>4 DEF CommandsInv
<1>9. RecoveryInv'
  <2>1. heap'[cur'].ring = ep /\ heap'[chk'].trbs[1] = t[1] /\ ~heap'[chk'].endDone
    BY <1>3
  <2>2. PICK m : m = Len(ring'[Cmd])
    OBVIOUS
  <2>3. ring'[Cmd][m].id = t[1] /\ ring'[Cmd][m].job.op = op /\ ring'[Cmd][m].job.ep = ep
    BY <1>6, <1>7, <2>2
  <2>4. \A i \in 1 .. Len(events') : ~(events'[i].ring = Cmd /\ events'[i].id = t[1])
    <3>1. 1 \in 1 .. Len(t)
      OBVIOUS
    <3> QED
      BY <3>1 DEF Fresh
  <2>5. op = "deq" => state'[ep] = "stopped" /\ QuietFrom(ep, 1)'
    BY DEF QuietFrom
  <2> QED
    BY <1>6, <2>1, <2>2, <2>3, <2>4, <2>5 DEF RecoveryInv
<1>10. IdleInv'
  <2>1. \A q \in SyncEps : QuietFrom(q, 1)' <=> QuietFrom(q, 1)
    BY DEF QuietFrom
  <2> QED
    BY <1>1, <1>2, <1>3, <1>6, <2>1 DEF IdleInv
<1>11. BusyInv'
  BY <1>1, <1>2, <1>3, <1>6 DEF BusyInv
<1> QED
  BY <1>8, <1>9, <1>10, <1>11

(* A command that is sent is a step of the invariant.                      *)
LEMMA CommandStep ==
  ASSUME Inv, pc = "wait", NEW op \in {"stop", "reset", "deq"},
         NEW h, \/ h = heap /\ recovery = "none"
                \/ h = Free(heap, chk) /\ recovery # "none",
         Command(op, h), abandoned' = abandoned, NEW ep, ep = heap[cur].ring,
         op = "deq" => Len(ring[Cmd]) = 0 /\ state[ep] = "stopped" /\ QuietFrom(ep, 1)
  PROVE  Inv'
<1>1. Typed /\ Control /\ ListInv /\ RoundInv
  BY DEF Inv
<1>2. HeapBefore(h)
  BY <1>1, HeapBeforeIs
<1>3. /\ pc' = "wait" /\ recovery' = op
      /\ UNCHANGED <<link, mUrb, mNext, cb, state, events, found, cur>>
      /\ \E u, t : /\ Fresh(Cmd, u, t) /\ Len(t) = 1 /\ Put(Cmd, t, CommandJob(op, heap[cur].ring))
                   /\ CommandSent(u, t) /\ chk' = u
  BY <1>1, <1>2, CommandIsSent
<1>4. PICK u, t : /\ Fresh(Cmd, u, t) /\ Len(t) = 1 /\ Put(Cmd, t, CommandJob(op, heap[cur].ring))
                  /\ CommandSent(u, t) /\ chk' = u
  BY <1>3
<1>5. PICK job : job = CommandJob(op, heap[cur].ring) /\ Put(Cmd, t, job)
  BY <1>4
<1>6. Put(Cmd, t, CommandJob(op, ep))
  BY <1>4
<1>7. Typed' /\ Control' /\ ListInv' /\ RoundInv' /\ AsyncArmed' /\ TrbInv' /\ UrbsInv'
  BY <1>3, <1>4, <1>5, CommandKeepsControl
<1>8. CommandsInv' /\ RecoveryInv' /\ IdleInv' /\ BusyInv'
  BY <1>3, <1>4, <1>6, CommandKeepsQuiet
<1> QED
  BY <1>7, <1>8 DEF Inv

(* The recovery begins with Reset Endpoint or with Stop Endpoint.          *)
LEMMA RecoveryBeginsStep ==
  ASSUME Inv, TransferStalls \/ TransferTimesOut
  PROVE  Inv'
<1>1. Typed /\ Control
  BY DEF Inv
<1>2. PICK op \in {"stop", "reset"} :
        Waiting("sync") /\ Command(op, heap) /\ abandoned' = abandoned
  BY DEF TransferStalls, TransferTimesOut
<1>3. PICK h : h = heap
  OBVIOUS
<1>4. pc = "wait" /\ recovery = "none" /\ Command(op, h)
  BY <1>1, <1>2, <1>3, WaitingIs DEF Waiting
<1>5. PICK ep : ep = heap[cur].ring
  OBVIOUS
<1> QED
  BY <1>2, <1>3, <1>4, <1>5, CommandStep

(* A TRB of the last command that is completed leaves its ring empty.      *)
LEMMA LastCommandDone ==
  ASSUME Typed, TrbInv, RecoveryInv, recovery # "none", heap[chk].trbs[1] \in acked[Cmd]
  PROVE  Len(ring[Cmd]) = 0
<1>1. PICK n \in Nat : n = Len(ring[Cmd])
  BY TypesAre DEF Rings
<1>2. n > 0 => ring[Cmd][n].id \in acked[Cmd]
  BY <1>1 DEF RecoveryInv
<1>3. \A i \in 1 .. n : ring[Cmd][i].id \notin acked[Cmd]
  BY <1>1 DEF TrbInv, Rings
<1>4. n > 0 => n \in 1 .. n
  BY <1>1
<1> QED
  BY <1>1, <1>2, <1>3, <1>4

(* It goes on with Set TR Dequeue Pointer.                                 *)
LEMMA RecoveryGoesOnStep ==
  ASSUME Inv, CommandSucceeds, recovery # "deq"
  PROVE  Inv'
<1>1. Typed /\ Control /\ TrbInv /\ UrbsInv /\ RecoveryInv
  BY DEF Inv
<1>2. /\ Waiting("cmd") /\ pc = "wait" /\ heap[chk].finished /\ heap[chk].result = {}
      /\ Command("deq", Free(heap, chk)) /\ abandoned' = abandoned
  BY DEF CommandSucceeds, Waiting
<1>3. recovery # "none" /\ chk \in Urbs /\ heap[chk].live /\ heap[chk].ring = Cmd
  BY <1>1, <1>2, WaitingIs
<1>4. heap[chk].endDone /\ heap[chk].trbs[1] \in acked[Cmd]
  BY <1>1, <1>2, <1>3 DEF UrbsInv, Progressed
<1>5. PICK ep : ep = heap[cur].ring
  OBVIOUS
<1>6. Len(ring[Cmd]) = 0
  BY <1>1, <1>3, <1>4, LastCommandDone
<1>7. state[ep] = "stopped" /\ QuietFrom(ep, 1)
  BY <1>1, <1>3, <1>4, <1>5 DEF RecoveryInv
<1>8. PICK h, op : h = Free(heap, chk) /\ op = "deq"
  OBVIOUS
<1> QED
  BY <1>2, <1>3, <1>5, <1>6, <1>7, <1>8, CommandStep

-----------------------------------------------------------------------------
(* The monitor submits a transfer again and moves on.                      *)

(* What it leaves alone                                                    *)
MovesOn(h) ==
  /\ cur = None /\ mUrb # None /\ MoveOn(h) /\ cb' = "none"
  /\ UNCHANGED <<link, events, cur, recovery, abandoned>>

(* The URB has new TRBs.                                                   *)
LEMMA ResubmitStep ==
  ASSUME Inv, NEW h, MovesOn(h), NEW u \in Urbs, u = mUrb, NEW ep, ep = heap[u].ring, NEW t,
         heap[u].live, Doorbell(ep), Fresh(ep, u, t), Len(t) = Len(heap[u].trbs), Put(ep, t, Transfer),
         NEW urb, urb = [NewUrb(heap[u].kind, ep, t) EXCEPT !.live = heap[u].live],
         HeapSets(u, urb)
  PROVE  Inv'
<1>1. /\ Typed /\ Control /\ ListInv /\ RoundInv /\ AsyncArmed /\ TrbInv /\ UrbsInv
      /\ CommandsInv /\ RecoveryInv /\ IdleInv /\ BusyInv
  BY DEF Inv
<1>2. /\ cur = None /\ mUrb # None /\ MoveOn(h) /\ cb' = "none"
      /\ UNCHANGED <<link, events, cur, recovery, abandoned>> /\ recovery = "none"
  BY <1>1 DEF MovesOn, Control
<1>3. PICK s : s = List
  OBVIOUS
<1>4. /\ \A i \in 1 .. Len(s) : s[i] \in Urbs /\ IsListed(heap, s[i])
      /\ \A v \in Urbs : heap[v].live => \E i \in 1 .. Len(s) : v = s[i]
      /\ IsListed(heap, u)
  <2>1. /\ \A i \in 1 .. Len(s) : s[i] \in Urbs /\ IsListed(heap, s[i])
        /\ \A v \in Urbs : heap[v].live => \E i \in 1 .. Len(s) : v = s[i]
    BY <1>1, <1>2, <1>3, WhoIsListed
  <2> QED
    BY <2>1
<1>5. ep \in IntEps /\ ep \in Eps /\ ep \in Rings /\ ep # Cmd /\ ep \notin SyncEps
      /\ t \in Seq(Nat) /\ Len(t) = 1 /\ heap[u].kind = "async"
  BY <1>4, TransferAssumption DEF IsListed, Rings, Eps, Fresh
<1>6. /\ heap' \in [Urbs -> Urb] /\ \A v \in Urbs \ {u} : heap'[v] = heap[v]
      /\ heap'[u].live /\ heap'[u].kind = "async" /\ heap'[u].ring = ep /\ heap'[u].trbs = t
      /\ ~heap'[u].startDone /\ ~heap'[u].endDone /\ ~heap'[u].finished
  <2>1. urb.live /\ urb.kind = "async" /\ urb.ring = ep /\ urb.trbs = t
        /\ ~urb.startDone /\ ~urb.endDone /\ ~urb.finished
    BY <1>5 DEF NewUrb
  <2> QED
    BY <2>1 DEF HeapSets
<1>7. List' = List
  BY <1>2, ListStays
<1>8. \A i \in 1 .. Len(List) : IsListed(heap', List[i]) /\ heap'[List[i]].ring = heap[List[i]].ring
  <2>1. \A i \in 1 .. Len(s) : IsListed(heap', s[i]) /\ heap'[s[i]].ring = heap[s[i]].ring
    BY <1>4, <1>5, <1>6 DEF IsListed
  <2> QED
    BY <1>3, <2>1
<1>9. ControlTyped' /\ Control' /\ RoundInv'
  BY <1>1, <1>2, <1>7, <1>8, MoveOnKeeps
<1>10. Typed'
  <2>1. /\ DOMAIN ring' = Rings /\ ring' \in [Rings -> Seq(Trbs)] /\ acked' \in [Rings -> SUBSET Nat]
        /\ \A q \in Rings : \A i \in 1 .. Len(ring'[q]) : ring'[q][i].id \in TrbIds(q)
        /\ \A q \in Rings : acked'[q] \subseteq TrbIds(q)
    BY <1>1, <1>5, PutTyped
  <2>2. state' \in [Eps -> {"running", "halted", "stopped"}]
    BY <1>1, <1>5, DoorbellIs
  <2> QED
    BY <1>1, <1>2, <1>6, <1>9, <2>1, <2>2 DEF Typed, TypeOK, ControlTyped
<1>11. ListInv'
  <2>1. \A v \in Urbs : heap'[v].live => \/ cur' # None /\ v \in {cur', chk'}
                                         \/ \E i \in 1 .. Len(List) : v = List[i]
    BY <1>3, <1>4, <1>6
  <2> QED
    BY <1>1, <1>2, <1>8, <2>1, ListKept
<1>12. TrbInv' /\ UrbsInv'
  <2>1. UrbGets(u, ep, t)
    BY <1>5, <1>6 DEF UrbGets
  <2> QED
    BY <1>1, <1>2, <1>5, <2>1, PutKeepsTrbs
<1>13. AsyncArmed'
  <2>1. \A i \in 1 .. Len(s) : ~heap'[s[i]].finished =>
           \/ /\ \E j \in 1 .. Len(List) : s[i] = List[j]
              /\ ~heap[s[i]].finished
              /\ heap'[s[i]].ring = heap[s[i]].ring /\ heap'[s[i]].trbs = heap[s[i]].trbs
           \/ ArmedAt(heap[s[i]].ring, heap[s[i]].trbs[1])'
    <3>1. SUFFICES ASSUME NEW i \in 1 .. Len(s), ~heap'[s[i]].finished
                   PROVE  \/ /\ \E j \in 1 .. Len(List) : s[i] = List[j]
                             /\ ~heap[s[i]].finished
                             /\ heap'[s[i]].ring = heap[s[i]].ring /\ heap'[s[i]].trbs = heap[s[i]].trbs
                          \/ ArmedAt(heap[s[i]].ring, heap[s[i]].trbs[1])'
      OBVIOUS
    <3>2. PICK v \in Urbs : v = s[i]
      BY <1>4
    <3>3. CASE v = u
      <4>1. ArmedAt(ep, t[1])'
        BY <1>1, <1>5, PutArms
      <4>2. heap'[v].ring = ep /\ heap'[v].trbs[1] = t[1]
        BY <1>6, <3>3
      <4>3. ArmedAt(heap[v].ring, heap[v].trbs[1])'
        BY <4>1, <4>2 DEF ArmedAt
      <4> QED
        BY <3>2, <4>3
    <3>4. CASE v # u
      BY <1>3, <1>6, <3>1, <3>2, <3>4
    <3> QED
      BY <3>3, <3>4
  <2>2. \A r \in IntEps, id \in Nat : ArmedAt(r, id) => ArmedAt(r, id)'
    <3>1. \A r \in IntEps : r \in Rings
      BY DEF Rings, Eps
    <3> QED
      BY <1>1, <1>2, <1>5, <3>1, PutKeepsArmedAt
  <2> QED
    BY <1>1, <1>3, <1>7, <1>10, <1>11, <2>1, <2>2, ArmedKept
<1>14. CommandsInv'
  BY <1>1, <1>5, PutKeepsCommands
<1>15. RecoveryInv' /\ BusyInv'
  BY <1>2 DEF RecoveryInv, BusyInv
<1>16. IdleInv'
  <2>1. SUFFICES ASSUME NEW q \in SyncEps \ abandoned
                 PROVE  ring'[q] = <<>> /\ QuietFrom(q, 1)'
    BY <1>2 DEF IdleInv
  <2>2. q \in Rings \ {ep}
    BY <1>5 DEF Rings, Eps
  <2>3. ring'[q] = ring[q] /\ ring[q] = <<>> /\ QuietFrom(q, 1)
    BY <1>1, <1>2, <2>2 DEF Put, IdleInv
  <2> QED
    BY <1>2, <2>3 DEF QuietFrom
<1> QED
  BY <1>9, <1>10, <1>11, <1>12, <1>13, <1>14, <1>15, <1>16 DEF Inv

(* It has none when it was removed by the callback or reported an error.   *)
LEMMA MovesOnStep ==
  ASSUME Inv, NEW h, MovesOn(h), UNCHANGED <<heap, ring, state, acked>>
  PROVE  Inv'
<1>1. /\ Typed /\ Control /\ ListInv /\ RoundInv
  BY DEF Inv
<1>2. /\ cur = None /\ mUrb # None /\ MoveOn(h) /\ cb' = "none"
      /\ UNCHANGED <<link, events, cur, recovery, abandoned>>
  BY DEF MovesOn
<1>3. List' = List
  BY <1>2, ListStays
<1>4. \A i \in 1 .. Len(List) : IsListed(heap', List[i]) /\ heap'[List[i]].ring = heap[List[i]].ring
  BY <1>1, WhoIsListed
<1>5. ControlTyped' /\ Control' /\ RoundInv'
  BY <1>1, <1>2, <1>3, <1>4, MoveOnKeeps
<1>6. NoEffect
  BY <1>2 DEF NoEffect
<1> QED
  BY <1>5, <1>6, NoEffectStep

(* Either way                                                              *)
LEMMA UpdateStep ==
  ASSUME Inv, NEW h, h = heap', MovesOn(h), UpdateAsyncRequest(mUrb)
  PROVE  Inv'
<1>1. /\ Typed /\ Control /\ ListInv /\ RoundInv
  BY DEF Inv
<1>2. PICK u \in Urbs : u = mUrb
  BY <1>1 DEF MovesOn, Typed, TypeOK
<1>3. heap[u].result = {} => heap[u].live /\ Len(heap[u].trbs) = 1
  <2>1. SUFFICES ASSUME heap[u].result = {} PROVE heap[u].live /\ Len(heap[u].trbs) = 1
    OBVIOUS
  <2>2. heap[u].live
    BY <1>1, <1>2, <2>1 DEF RoundInv, MovesOn
  <2>3. PICK i \in 1 .. Len(List) : u = List[i]
    BY <1>1, <1>2, <2>2, WhoIsListed DEF MovesOn
  <2>4. IsListed(heap, u)
    BY <1>1, <2>3, WhoIsListed
  <2> QED
    BY <2>4 DEF IsListed
<1>4. UpdateAsyncRequest(u)
  BY <1>2
<1>5. PICK r : r = heap[u].ring
  OBVIOUS
<1>6. \/ /\ heap[u].result = {} /\ Doorbell(r)
         /\ \E t : /\ Fresh(r, u, t) /\ Len(t) = Len(heap[u].trbs) /\ Put(r, t, Transfer)
                   /\ HeapSets(u, [NewUrb(heap[u].kind, r, t) EXCEPT !.live = heap[u].live])
      \/ UNCHANGED <<heap, ring, state, acked>>
  BY <1>1, <1>3, <1>4, <1>5, UpdateDoes
<1>7. CASE UNCHANGED <<heap, ring, state, acked>>
  BY <1>7, MovesOnStep
<1>8. ASSUME heap[u].result = {}, Doorbell(r),
             NEW t, Fresh(r, u, t), Len(t) = Len(heap[u].trbs), Put(r, t, Transfer),
             HeapSets(u, [NewUrb(heap[u].kind, r, t) EXCEPT !.live = heap[u].live])
      PROVE  Inv'
  <2>1. PICK urb : urb = [NewUrb(heap[u].kind, r, t) EXCEPT !.live = heap[u].live]
    OBVIOUS
  <2>2. HeapSets(u, urb)
    BY <1>8, <2>1
  <2> QED
    BY <1>2, <1>3, <1>5, <1>8, <2>1, <2>2, ResubmitStep
<1> QED
  BY <1>6, <1>7, <1>8

(* After a callback, or without one                                        *)
LEMMA CallbackReturnsStep ==
  ASSUME Inv, CallbackReturns \/ SkipCallback
  PROVE  Inv'
<1>1. PICK h : h = heap'
  OBVIOUS
<1>2. Control
  BY DEF Inv
<1>3. CASE CallbackReturns
  <2>1. cur = None
    BY <1>2, <1>3 DEF CallbackReturns, Control, CurIsBusy
  <2>2. MovesOn(h) /\ UpdateAsyncRequest(mUrb)
    BY <1>1, <1>3, <2>1 DEF CallbackReturns, MovesOn
  <2> QED
    BY <1>1, <2>2, UpdateStep
<1>4. CASE SkipCallback
  <2>1. cur = None /\ mUrb # None /\ cb = "none"
    BY <1>2, <1>4 DEF SkipCallback, Control, CurIsBusy
  <2>2. MovesOn(h) /\ UpdateAsyncRequest(mUrb)
    BY <1>1, <1>4, <2>1 DEF SkipCallback, MovesOn
  <2> QED
    BY <1>1, <2>2, UpdateStep
<1> QED
  BY <1>3, <1>4

-----------------------------------------------------------------------------
(* The invariant holds at first and every step keeps it.                   *)

(* At first the list is empty and nothing is allocated.                    *)
LEMMA InitInv == Init => Inv
<1> SUFFICES ASSUME Init PROVE Inv
  OBVIOUS
<1>1. heap \in [Urbs -> Urb] /\ \A u \in Urbs : ~heap[u].live
  <2>1. PICK h : h = [v \in Urbs |-> NewUrb("cmd", Cmd, <<>>)]
    OBVIOUS
  <2>2. h \in [Urbs -> Urb]
    <3>1. Cmd \in Rings /\ <<>> \in Seq(Nat)
      BY DEF Rings
    <3>2. PICK urb : urb = NewUrb("cmd", Cmd, <<>>)
      OBVIOUS
    <3>3. urb \in Urb
      BY <3>1, <3>2, NewUrbIs
    <3> QED
      BY <2>1, <3>2, <3>3
  <2>3. heap = [u \in Urbs |-> Free(h, u)[u]]
    BY <2>1 DEF Init
  <2>4. ASSUME NEW u \in Urbs
        PROVE  Free(h, u)[u] \in Urb /\ ~Free(h, u)[u].live
    <3>1. PICK g : g = Free(h, u)
      OBVIOUS
    <3>2. g \in [Urbs -> Urb] /\ ~g[u].live
      BY <2>2, <3>1, FreeIs
    <3> QED
      BY <3>1, <3>2
  <2> QED
    BY <2>3, <2>4
<1>2. /\ link = [l \in Urbs \cup {ListHead} |-> ListHead]
      /\ ring = [r \in Rings |-> <<>>] /\ state = [ep \in Eps |-> "running"] /\ events = <<>>
      /\ pc = "user" /\ chk = None /\ found = 0 /\ cur = None /\ recovery = "none"
      /\ mUrb = None /\ mNext = None /\ cb = "none" /\ acked = [r \in Rings |-> {}] /\ abandoned = {}
  BY DEF Init
<1>3. /\ \A r \in Rings : ring[r] = <<>> /\ Len(ring[r]) = 0 /\ acked[r] = {}
      /\ Len(events) = 0
  BY <1>2
<1>4. Typed
  <2>1. TypeOK
    BY <1>1, <1>2, <1>3 DEF TypeOK
  <2>2. ring \in [Rings -> Seq(Trbs)] /\ acked \in [Rings -> SUBSET Nat] /\ events \in Seq(Events)
    BY <1>2
  <2>3. \A r \in Rings : \A i \in 1 .. Len(ring[r]) : ring[r][i].id \in TrbIds(r)
    BY <1>3
  <2> QED
    BY <2>1, <2>2, <2>3 DEF Typed
<1>5. ListInv /\ Len(List) = 0
  <2>1. PICK s : s = <<>>
    OBVIOUS
  <2>2. s \in Seq(Urbs) /\ Len(s) = 0
    BY <2>1
  <2>3. Chain(link, link[ListHead], s)
    BY <1>2, <2>2 DEF Chain
  <2>4. ListOf(s)
    BY <1>1, <2>2, <2>3 DEF ListOf
  <2> QED
    BY <2>2, <2>4, ListOfIs DEF OneList
<1>6. Control /\ RoundInv /\ RecoveryInv /\ BusyInv
  BY <1>2 DEF Control, RoundInv, RecoveryInv, BusyInv
<1>7. AsyncArmed
  BY <1>4, <1>5, ArmedIs DEF ArmedList
<1>8. TrbInv /\ UrbsInv /\ CommandsInv
  <2>1. Cmd \in Rings
    BY DEF Rings
  <2> QED
    BY <1>1, <1>3, <2>1 DEF TrbInv, UrbsInv, CommandsInv
<1>9. IdleInv
  <2>1. \A ep \in SyncEps : ep \in Rings
    BY DEF Rings, Eps
  <2> QED
    BY <1>3, <2>1 DEF IdleInv, QuietFrom
<1> QED
  BY <1>4, <1>5, <1>6, <1>7, <1>8, <1>9 DEF Inv

(* A step that changes nothing                                             *)
LEMMA StutterStep ==
  ASSUME Inv, UNCHANGED vars
  PROVE  Inv'
<1>1. Typed /\ Control /\ ListInv /\ RoundInv
  BY DEF Inv
<1>2. UNCHANGED <<heap, link, ring, state, acked, events, cur, recovery, abandoned, pc, chk, found,
                  mUrb, mNext, cb>>
  BY DEF vars
<1>3. NoEffect
  BY <1>2 DEF NoEffect
<1>4. ControlTyped'
  BY <1>1, <1>2 DEF ControlTyped, Typed, TypeOK
<1>5. Control'
  BY <1>1, <1>2 DEF Control, CurIsBusy
<1>6. RoundInv'
  BY <1>1, <1>2, <1>3, NoEffectKeeps, RoundKept
<1> QED
  BY <1>3, <1>4, <1>5, <1>6, NoEffectStep

(* Every step of the driver, of its users and of the xHC                   *)
LEMMA NextInv == Inv /\ [Next]_vars => Inv'
<1> SUFFICES ASSUME Inv, [Next]_vars PROVE Inv'
  OBVIOUS
<1>1. CASE User
  <2>1. CASE \E ep \in SyncEps, n \in 1 .. MaxTd : SubmitSync(ep, n)
    BY <2>1, SubmitSyncStep
  <2>2. CASE \E ep \in IntEps : SubmitAsync(ep)
    BY <2>2, SubmitAsyncStep
  <2>3. CASE \E ep \in IntEps : DeleteAsync(ep)
    BY <2>3, DeleteAsyncStep
  <2> QED
    BY <1>1, <2>1, <2>2, <2>3 DEF User
<1>2. CASE Check
  BY <1>2, StartCheckStep, HandleEventStep, EndCheckStep DEF Check
<1>3. CASE Sync
  <2>1. CASE CommandSucceeds
    BY <2>1, RecoveryGoesOnStep, RecoveryEndsStep
  <2> QED
    BY <1>3, <2>1, TransferSucceedsStep, TransferFailsStep, RecoveryBeginsStep, CommandFailsStep DEF Sync
<1>4. CASE Monitor
  BY <1>4, MonitorStartsStep, StillActiveStep, CallBackStep, CallbackReturnsStep DEF Monitor
<1>5. CASE Xhc
  BY <1>5, ExecuteCommandStep, CompleteTrbStep DEF Xhc
<1>6. CASE UNCHANGED vars
  BY <1>6, StutterStep
<1> QED
  BY <1>1, <1>2, <1>3, <1>4, <1>5, <1>6 DEF Next

-----------------------------------------------------------------------------
(* What the invariant says of the list, of a success and of what is left.  *)

(* The set and the number of the elements of a sequence without repetition *)
LEMMA RangeIs ==
  ASSUME NEW S, NEW s \in Seq(S), \A i, j \in 1 .. Len(s) : s[i] = s[j] => i = j
  PROVE  Range(s) = {s[i] : i \in 1 .. Len(s)} /\ Cardinality(Range(s)) = Len(s)
<1>1. PICK n, R : n = Len(s) /\ n \in Nat /\ R = Range(s) /\ R = {s[i] : i \in 1 .. n} /\ s \in [1 .. n -> S]
  BY SeqIsFunction
<1>2. s \in Surjection(1 .. n, R)
  BY <1>1 DEF Surjection
<1>3. s \in Injection(1 .. n, R)
  <2>1. \A i, j \in 1 .. n : s[i] = s[j] => i = j
    BY <1>1
  <2>2. DOMAIN s = 1 .. n /\ s \in [1 .. n -> R]
    BY <1>1
  <2>3. IsInjective(s)
    BY <2>1, <2>2 DEF IsInjective
  <2> QED
    BY <2>2, <2>3 DEF Injection
<1>4. IsFiniteSet(1 .. n) /\ Cardinality(1 .. n) = n
  <2>1. PICK a : a = 1 /\ a \in Int /\ n \in Int
    BY <1>1
  <2>2. IsFiniteSet(a .. n) /\ Cardinality(a .. n) = IF a > n THEN 0 ELSE n - a + 1
    BY <2>1, FS_Interval
  <2> QED
    BY <1>1, <2>1, <2>2
<1>5. Cardinality(R) = n
  BY <1>2, <1>3, <1>4, FS_Surjection
<1> QED
  BY <1>1, <1>5

(* The list has the live URBs of asynchronous transfers.                   *)
LEMMA ListIntactFollows ==
  ASSUME Inv
  PROVE  UrbInv
<1>1. Typed /\ Control /\ ListInv
  BY DEF Inv
<1>2. PICK s : s = List
  OBVIOUS
<1>3. /\ s \in Seq(Urbs) /\ Chain(link, link[ListHead], s)
      /\ \A i \in 1 .. Len(s) : IsListed(heap, s[i]) /\ s[i] \in Urbs
      /\ \A u \in Urbs : heap[u].live => \/ cur # None /\ u \in {cur, chk}
                                         \/ \E i \in 1 .. Len(s) : u = s[i]
  BY <1>1, <1>2, WhoIsListed DEF ListInv, ListOf
<1>4. Range(s) = {s[i] : i \in 1 .. Len(s)} /\ Cardinality(Range(s)) = Len(s)
  <2>1. \A i, j \in 1 .. Len(s) : s[i] = s[j] => i = j
    BY <1>3 DEF Chain
  <2> QED
    BY <1>3, <2>1, RangeIs
<1>5. cur # None => heap[cur].kind # "async" /\ heap[chk].kind # "async"
  BY <1>1 DEF Control, CurIsBusy
<1>6. Range(s) = {u \in Urbs : heap[u].live /\ heap[u].kind = "async"}
  <2>1. \A i \in 1 .. Len(s) : s[i] \in Urbs /\ heap[s[i]].live /\ heap[s[i]].kind = "async"
    BY <1>3 DEF IsListed
  <2>2. ASSUME NEW u \in Urbs, heap[u].live, heap[u].kind = "async"
        PROVE  \E i \in 1 .. Len(s) : u = s[i]
    <3>1. ~(cur # None /\ u \in {cur, chk})
      BY <1>5, <2>2
    <3>2. \/ cur # None /\ u \in {cur, chk}
          \/ \E i \in 1 .. Len(s) : u = s[i]
      BY <1>3, <2>2
    <3> QED
      BY <3>1, <3>2
  <2>3. PICK R : R = Range(s) /\ R = {s[i] : i \in 1 .. Len(s)}
    BY <1>4
  <2>4. \A u \in R : u \in Urbs /\ heap[u].live /\ heap[u].kind = "async"
    BY <2>1, <2>3
  <2>5. \A u \in Urbs : heap[u].live /\ heap[u].kind = "async" => u \in R
    BY <2>2, <2>3
  <2> QED
    BY <2>3, <2>4, <2>5
<1> QED
  BY <1>1, <1>2, <1>4, <1>6 DEF UrbInv, ListIntact, Typed

(* What is left of the round is the end of the list.                       *)
LEMMA RestOfRoundFollows ==
  ASSUME Inv
  PROVE  RestOfRound
<1>1. Typed /\ Control /\ ListInv /\ RoundInv
  BY DEF Inv
<1>2. SUFFICES ASSUME mUrb # None
               PROVE  \A u \in Range(From(mNext)) : u \in Range(List) /\ heap[u].ring # heap[mUrb].ring
  BY DEF RestOfRound
<1>3. PICK s, n : s = List /\ n = Len(s) /\ n \in Nat /\ s \in Seq(Urbs)
  BY <1>1, WhoIsListed
<1>4. /\ \A i \in 1 .. n : s[i] \in Urbs /\ link[s[i]] = IF i < n THEN s[i + 1] ELSE ListHead
      /\ \A i, j \in 1 .. n : s[i] = s[j] => i = j
  BY <1>1, <1>3, WhoIsListed DEF Chain
<1>5. PICK k \in 1 .. n + 1 :
        /\ mNext = IF k <= n THEN s[k] ELSE ListHead
        /\ \A j \in k .. n : heap[s[j]].ring # heap[mUrb].ring
  BY <1>1, <1>2, <1>3 DEF RoundInv, RestIs
<1>6. PICK m \in Nat : m = n - k + 1
  BY <1>3, <1>5
<1>7. PICK t : t = [i \in 1 .. m |-> s[i + k - 1]]
  OBVIOUS
<1>8. \A i \in 1 .. m : i + k - 1 \in 1 .. n /\ i + k - 1 \in k .. n /\ t[i] = s[i + k - 1]
  BY <1>3, <1>5, <1>6, <1>7
<1>9. t \in Seq(Urbs) /\ Len(t) = m
  <2>1. t \in [1 .. m -> Urbs]
    BY <1>4, <1>7, <1>8
  <2> QED
    BY <1>6, <2>1, FunctionIsSeq
<1>10. Chain(link, mNext, t)
  <2>1. mNext = IF Len(t) = 0 THEN ListHead ELSE t[1]
    <3>1. CASE k <= n
      <4>1. 1 \in 1 .. m /\ 1 + k - 1 = k /\ m # 0
        BY <1>3, <1>5, <1>6, <3>1
      <4> QED
        BY <1>5, <1>8, <1>9, <3>1, <4>1
    <3>2. CASE ~(k <= n)
      <4>1. m = 0
        BY <1>3, <1>5, <1>6, <3>2
      <4> QED
        BY <1>5, <1>9, <3>2, <4>1
    <3> QED
      BY <3>1, <3>2
  <2>2. ASSUME NEW i \in 1 .. m
        PROVE  link[t[i]] = IF i < m THEN t[i + 1] ELSE ListHead
    <3>1. CASE i < m
      <4>1. i + 1 \in 1 .. m /\ i + 1 + k - 1 = i + k - 1 + 1 /\ i + k - 1 < n
        BY <1>3, <1>5, <1>6, <3>1
      <4>2. t[i + 1] = s[i + k - 1 + 1]
        BY <1>8, <4>1
      <4> QED
        BY <1>4, <1>8, <3>1, <4>1, <4>2
    <3>2. CASE ~(i < m)
      <4>1. ~(i + k - 1 < n)
        BY <1>3, <1>5, <1>6, <3>2
      <4> QED
        BY <1>4, <1>8, <3>2, <4>1
    <3> QED
      BY <3>1, <3>2
  <2>3. ASSUME NEW i \in 1 .. m, NEW j \in 1 .. m, t[i] = t[j]
        PROVE  i = j
    <3>1. i + k - 1 = j + k - 1
      BY <1>4, <1>8, <2>3
    <3> QED
      BY <1>5, <3>1
  <2> QED
    BY <1>9, <2>1, <2>2, <2>3 DEF Chain
<1>11. From(mNext) = t
  BY <1>10, FromIs
<1>12. Range(t) = {t[i] : i \in 1 .. m} /\ Range(s) = {s[i] : i \in 1 .. n}
  BY <1>3, <1>9, SeqIsFunction
<1>13. \A i \in 1 .. m : t[i] \in Range(s) /\ heap[t[i]].ring # heap[mUrb].ring
  BY <1>5, <1>8, <1>12
<1> QED
  BY <1>3, <1>11, <1>12, <1>13

(* The TRBs of a URB complete in order, and it has seen the last one.      *)
LEMMA SuccessFollows ==
  ASSUME Inv
  PROVE  SuccessIsReal
<1>1. Typed /\ UrbsInv
  BY DEF Inv
<1>2. SUFFICES ASSUME NEW u \in Urbs, heap[u].live, heap[u].finished, heap[u].result = {}
               PROVE  Range(heap[u].trbs) \subseteq acked[heap[u].ring]
  BY DEF SuccessIsReal
<1>3. PICK t, r : t = heap[u].trbs /\ r = heap[u].ring /\ t \in Seq(Nat) /\ Len(t) \in Nat
  BY <1>1, TypesAre
<1>4. Ordered(t, ring[r], acked[r]) /\ Len(t) > 0 /\ t[Len(t)] \in acked[r]
  BY <1>1, <1>2, <1>3 DEF UrbsInv, InOrder, Progressed
<1>5. \A i \in 1 .. Len(t) : t[i] \in acked[r]
  <2>1. \A i \in 1 .. Len(t) : i = Len(t) \/ (i < Len(t) /\ Len(t) \in 1 .. Len(t))
    BY <1>3, <1>4
  <2> QED
    BY <1>4, <2>1 DEF Ordered
<1>6. Range(t) = {t[i] : i \in 1 .. Len(t)}
  BY <1>3, SeqIsFunction
<1> QED
  BY <1>3, <1>5, <1>6

(* With no transfer in progress there is nothing of one.                   *)
LEMMA NothingLeftFollows ==
  ASSUME Inv
  PROVE  NothingLeftBehind
<1>1. Typed /\ Control /\ ListInv /\ IdleInv
  BY DEF Inv
<1>2. pc = "user" => cur = None
  BY <1>1 DEF Control, CurIsBusy
<1>3. NoTrbsLeft
  <2>1. DOMAIN events = 1 .. Len(events)
    BY <1>1, TypesAre, SeqIsFunction
  <2> QED
    BY <1>1, <1>2, <2>1 DEF NoTrbsLeft, IdleInv, QuietFrom
<1>4. NoUrbLeft
  <2>1. SUFFICES ASSUME pc = "user" PROVE Range(List) = Urbs \ Dead
    BY DEF NoUrbLeft
  <2>2. PICK s : s = List
    OBVIOUS
  <2>3. /\ s \in Seq(Urbs) /\ \A i \in 1 .. Len(s) : s[i] \in Urbs /\ heap[s[i]].live
        /\ \A u \in Urbs : heap[u].live => \E i \in 1 .. Len(s) : u = s[i]
    BY <1>1, <1>2, <2>1, <2>2, WhoIsListed DEF IsListed
  <2>4. Range(s) = {s[i] : i \in 1 .. Len(s)}
    BY <2>3, SeqIsFunction
  <2> QED
    BY <2>2, <2>3, <2>4 DEF Dead
<1> QED
  BY <1>3, <1>4 DEF NothingLeftBehind

-----------------------------------------------------------------------------
(* The theorems.                                                           *)

(* The invariant holds in every state that the driver comes to.            *)
LEMMA Invariance == SafeSpec => []Inv
  BY InitInv, NextInv, PTL DEF SafeSpec

(* The list of the asynchronous transfers has each of their URBs that is   *)
(* not freed once, and no other: through the insertions, removals and      *)
(* callbacks in the middle of a round (XhcAsyncInterruptTransfer,          *)
(* XhciDelAsyncIntTransfer, XhcMonitorAsyncRequests).                      *)
THEOREM UrbsAndListIntact == SafeSpec => []UrbInv
<1>1. Inv => UrbInv
  BY ListIntactFollows
<1> QED
  BY <1>1, Invariance, PTL

(* The entry that XhcMonitorAsyncRequests has saved as the next one, and   *)
(* all behind it, stay in the list whatever the callback does, and the     *)
(* transfer that it submits again is not among them.                       *)
THEOREM RestOfRoundIsListed == SafeSpec => []RestOfRound
<1>1. Inv => RestOfRound
  BY RestOfRoundFollows
<1> QED
  BY <1>1, Invariance, PTL

(* A listed transfer that is not finished has its TRB on the ring or an    *)
(* event that is not handled: XhcCheckUrbResult, whoever it is called for, *)
(* and XhcUpdateAsyncRequest never lose it.                                *)
THEOREM NeverForgotten == SafeSpec => []AsyncArmed
<1>1. Inv => AsyncArmed
  BY DEF Inv
<1> QED
  BY <1>1, Invariance, PTL

(* XhcCheckUrbResult finishes a URB without an error only when the xHC has *)
(* completed all its TRBs, however the events of other URBs, of commands   *)
(* and of the endpoint's earlier transfers mix with its own.               *)
THEOREM SuccessWasReal == SafeSpec => []SuccessIsReal
<1>1. Inv => SuccessIsReal
  BY SuccessFollows
<1> QED
  BY <1>1, Invariance, PTL

(* When a synchronous transfer has returned, by success or through Stop or *)
(* Reset Endpoint and Set TR Dequeue Pointer (XhcDequeueTrbFromEndpoint,   *)
(* XhcRecoverHaltedEndpoint), its ring is empty, no event of it is to come *)
(* and every URB is freed, unless its recovery failed or was not tried.    *)
THEOREM NothingIsLeftBehind == SafeSpec => []NothingLeftBehind
<1>1. Inv => NothingLeftBehind
  BY NothingLeftFollows
<1> QED
  BY <1>1, Invariance, PTL

=============================================================================
