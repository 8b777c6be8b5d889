-------------------------- MODULE UsbKeyboardProofs --------------------------
(***************************************************************************)
(* Proofs about KeyQueue and UsbKeyboard, for queues of any size, any keys *)
(* and any number of reports: the queues are first-in first-out, the shift *)
(* state and the case of the letters are those of the reports, keystrokes  *)
(* are read in the order of the presses, and the polling of the keyboard   *)
(* is never submitted twice.                                               *)
(***************************************************************************)
EXTENDS UsbKeyboard, FiniteSetTheorems, WellFoundedInduction, TLAPS

-----------------------------------------------------------------------------
(* The ring of a queue.                                                    *)

(* A position in the ring, wrapped around once at most                     *)
Wrap(x) == IF x <= MaxKeys THEN x ELSE x - (MaxKeys + 1)
\* The remainder of a position is that position, wrapped around.
LEMMA Wrapped ==
  ASSUME NEW x \in 0 .. 2 * MaxKeys + 1
  PROVE  x % (MaxKeys + 1) = Wrap(x)
<1>1. MaxKeys \in Nat \ {0}
  BY QueueSizeAssumption
<1> DEFINE M == MaxKeys + 1
<1>2. M \in Nat \ {0} /\ x \in Nat /\ x < 2 * M
  BY <1>1
<1> HIDE DEF M
<1>3. x % M = IF x < M THEN x ELSE x - M
  BY <1>2
<1> QED
  BY <1>1, <1>3 DEF M, Wrap

(* Where the i-th entry is                                                 *)
At(q, i) == Wrap(q.head + i - 1)

(* How many entries there are, and which                                   *)
LEMMA CountIs ==
  ASSUME NEW Item, NEW q \in Queue(Item)
  PROVE  /\ Count(q) = IF q.head <= q.tail THEN q.tail - q.head ELSE q.tail + (MaxKeys + 1) - q.head
         /\ Count(q) \in 0 .. MaxKeys
         /\ IsQueueEmpty(q) <=> Count(q) = 0
         /\ IsQueueFull(q) <=> Count(q) = MaxKeys
         /\ \A i \in 1 .. MaxKeys + 1 : At(q, i) \in Slots
         /\ Contents(q) \in Seq(Item) /\ Len(Contents(q)) = Count(q)
         /\ \A i \in 1 .. Count(q) : Contents(q)[i] = q.buf[At(q, i)]
<1>1. MaxKeys \in Nat \ {0}
  BY QueueSizeAssumption
<1>2. q.head \in 0 .. MaxKeys /\ q.tail \in 0 .. MaxKeys /\ q.buf \in [Slots -> Item]
  BY DEF Queue, Slots
<1>3. Count(q) = IF q.head <= q.tail THEN q.tail - q.head ELSE q.tail + (MaxKeys + 1) - q.head
  <2>1. q.tail + (MaxKeys + 1) - q.head \in 0 .. 2 * MaxKeys + 1
    BY <1>1, <1>2
  <2>2. Count(q) = Wrap(q.tail + (MaxKeys + 1) - q.head)
    BY <2>1, Wrapped, Zenon DEF Count
  <2> QED
    BY <1>1, <1>2, <2>2 DEF Wrap
<1>4. Count(q) \in 0 .. MaxKeys /\ (q.head = q.tail <=> Count(q) = 0)
  BY <1>1, <1>2, <1>3
<1>5. IsQueueFull(q) <=> Count(q) = MaxKeys
  <2>1. After(q.tail) = Wrap(q.tail + 1)
    <3>1. q.tail + 1 \in 0 .. 2 * MaxKeys + 1
      BY <1>1, <1>2
    <3> QED
      BY <3>1, Wrapped, Zenon DEF After
  <2> QED
    BY <1>1, <1>2, <1>3, <2>1 DEF IsQueueFull, Wrap
<1>6. \A i \in 1 .. MaxKeys + 1 : At(q, i) \in Slots
  BY <1>1, <1>2 DEF At, Wrap, Slots
<1>7. \A i \in 1 .. Count(q) : (q.head + i - 1) % (MaxKeys + 1) = At(q, i)
  <2> SUFFICES ASSUME NEW i \in 1 .. Count(q)
               PROVE  (q.head + i - 1) % (MaxKeys + 1) = At(q, i)
    OBVIOUS
  <2>1. q.head + i - 1 \in 0 .. 2 * MaxKeys + 1
    BY <1>1, <1>2, <1>4
  <2> QED
    BY <2>1, Wrapped, Zenon DEF At
<1>8. Contents(q) = [i \in 1 .. Count(q) |-> q.buf[At(q, i)]]
  BY <1>7 DEF Contents
<1>9. \A i \in 1 .. Count(q) : q.buf[At(q, i)] \in Item
  BY <1>1, <1>2, <1>4, <1>6
<1>10. Contents(q) \in Seq(Item) /\ Len(Contents(q)) = Count(q)
  <2> DEFINE n == Count(q)
             f == [i \in 1 .. n |-> q.buf[At(q, i)]]
  <2>1. n \in Nat /\ f \in [1 .. n -> Item]
    BY <1>4, <1>9
  <2> HIDE DEF n
  <2>2. f \in Seq(Item) /\ Len(f) = n
    BY <2>1
  <2> QED
    BY <1>8, <2>2 DEF n
<1> QED
  BY <1>3, <1>4, <1>5, <1>6, <1>8, <1>10 DEF IsQueueEmpty

(* A queue just initialised                                                *)
LEMMA NewIsEmpty ==
  ASSUME NEW Item, NEW g \in Item
  PROVE  NewQueue(g) \in Queue(Item) /\ Count(NewQueue(g)) = 0
<1>1. NewQueue(g) \in Queue(Item) /\ IsQueueEmpty(NewQueue(g))
  BY QueueSizeAssumption DEF NewQueue, Queue, Slots, IsQueueEmpty
<1> QED
  BY <1>1, CountIs

(* The oldest entries are taken out.                                       *)
LEMMA Taken ==
  ASSUME NEW Item, NEW q \in Queue(Item), NEW k \in 0 .. Count(q),
         NEW d, d = [q EXCEPT !.head = (@ + k) % (MaxKeys + 1)]
  PROVE  /\ d \in Queue(Item) /\ Count(d) = Count(q) - k
         /\ \A i \in 1 .. Count(d) : Contents(d)[i] = Contents(q)[i + k]
<1>1. MaxKeys \in Nat \ {0}
  BY QueueSizeAssumption
<1>2. q.head \in 0 .. MaxKeys /\ q.tail \in 0 .. MaxKeys /\ q.buf \in [Slots -> Item]
  BY DEF Queue, Slots
<1>3. Count(q) \in 0 .. MaxKeys
  BY CountIs
<1>4. (q.head + k) % (MaxKeys + 1) = At(q, k + 1) /\ At(q, k + 1) \in 0 .. MaxKeys
  <2>1. q.head + k \in 0 .. 2 * MaxKeys + 1
    BY <1>1, <1>2, <1>3
  <2>2. (q.head + k) % (MaxKeys + 1) = Wrap(q.head + k)
    BY <2>1, Wrapped, Zenon
  <2>3. q.head + (k + 1) - 1 = q.head + k
    BY <1>2, <1>3
  <2>4. At(q, k + 1) = Wrap(q.head + k)
    BY <2>3 DEF At
  <2>5. Wrap(q.head + k) \in 0 .. MaxKeys
    BY <1>1, <1>2, <1>3 DEF Wrap
  <2> QED
    BY <2>2, <2>4, <2>5
<1>5. d = [head |-> At(q, k + 1), tail |-> q.tail, buf |-> q.buf]
  BY <1>4 DEF Queue
<1>6. d \in Queue(Item) /\ d.head = At(q, k + 1) /\ d.tail = q.tail /\ d.buf = q.buf
  BY <1>2, <1>4, <1>5 DEF Queue, Slots
<1> HIDE DEF At
<1>7. Count(d) = Count(q) - k
  <2>1. Count(q) = IF q.head <= q.tail THEN q.tail - q.head ELSE q.tail + (MaxKeys + 1) - q.head
    BY CountIs
  <2>2. Count(d) = IF d.head <= d.tail THEN d.tail - d.head ELSE d.tail + (MaxKeys + 1) - d.head
    BY <1>6, CountIs
  <2> QED
    BY <1>1, <1>2, <1>3, <1>6, <2>1, <2>2 DEF At, Wrap
<1>8. \A i \in 1 .. Count(d) : At(d, i) = At(q, i + k)
  BY <1>1, <1>2, <1>3, <1>6, <1>7 DEF At, Wrap
<1>9. \A i \in 1 .. Count(d) : Contents(d)[i] = d.buf[At(d, i)]
  BY <1>6, CountIs
<1>10. \A i \in 1 .. Count(q) : Contents(q)[i] = q.buf[At(q, i)]
  BY CountIs
<1> QED
  BY <1>3, <1>6, <1>7, <1>8, <1>9, <1>10

(* An entry is put in, if there is room.                                   *)
LEMMA Added ==
  ASSUME NEW Item, NEW q \in Queue(Item), NEW x \in Item, ~IsQueueFull(q),
         NEW d, d = [head |-> q.head, tail |-> After(q.tail), buf |-> [q.buf EXCEPT ![q.tail] = x]]
  PROVE  /\ d \in Queue(Item) /\ Count(d) = Count(q) + 1
         /\ \A i \in 1 .. Count(d) : Contents(d)[i] = IF i <= Count(q) THEN Contents(q)[i] ELSE x
<1>1. MaxKeys \in Nat \ {0}
  BY QueueSizeAssumption
<1>2. q.head \in 0 .. MaxKeys /\ q.tail \in 0 .. MaxKeys /\ q.buf \in [Slots -> Item]
  BY DEF Queue, Slots
<1>3. Count(q) \in 0 .. MaxKeys - 1
  BY <1>1, CountIs
<1>4. After(q.tail) = Wrap(q.tail + 1)
  <2>1. q.tail + 1 \in 0 .. 2 * MaxKeys + 1
    BY <1>1, <1>2
  <2> QED
    BY <2>1, Wrapped, Zenon DEF After
<1>5. d \in Queue(Item) /\ d.head = q.head /\ d.tail = After(q.tail) /\ d.buf = [q.buf EXCEPT ![q.tail] = x]
  BY <1>1, <1>2, <1>4 DEF Queue, Slots, Wrap
<1>6. Count(q) = IF q.head <= q.tail THEN q.tail - q.head ELSE q.tail + (MaxKeys + 1) - q.head
  BY CountIs
<1>7. Count(d) = Count(q) + 1
  <2>1. Count(d) = IF d.head <= d.tail THEN d.tail - d.head ELSE d.tail + (MaxKeys + 1) - d.head
    BY <1>5, CountIs
  <2> QED
    BY <1>1, <1>2, <1>3, <1>4, <1>5, <1>6, <2>1 DEF Wrap
<1>8. /\ \A i \in 1 .. Count(q) : At(q, i) # q.tail /\ At(q, i) \in Slots
      /\ At(q, Count(q) + 1) = q.tail
  <2>1. At(q, Count(q) + 1) = q.tail
    BY <1>1, <1>2, <1>3, <1>6 DEF At, Wrap
  <2> DEFINE n == Count(q)
  <2>2. n \in 0 .. MaxKeys - 1 /\ n = IF q.head <= q.tail THEN q.tail - q.head ELSE q.tail + (MaxKeys + 1) - q.head
    BY <1>3, <1>6
  <2> HIDE DEF n
  <2>3. \A i \in 1 .. n : At(q, i) # q.tail /\ At(q, i) \in 0 .. MaxKeys
    BY <1>1, <1>2, <2>2 DEF At, Wrap
  <2> QED
    BY <2>1, <2>3 DEF n, Slots
<1>9. \A i \in 1 .. Count(d) : Contents(d)[i] = d.buf[At(q, i)]
  <2>1. \A i \in 1 .. Count(d) : Contents(d)[i] = d.buf[At(d, i)]
    BY <1>5, CountIs
  <2>2. \A i : At(d, i) = At(q, i)
    BY <1>5 DEF At
  <2> QED
    BY <2>1, <2>2
<1>10. \A i \in 1 .. Count(q) : Contents(q)[i] = q.buf[At(q, i)]
  BY CountIs
<1>11. q.tail \in Slots
  BY <1>2 DEF Slots
<1> HIDE DEF At
<1>12. ASSUME NEW i \in 1 .. Count(d)
       PROVE  Contents(d)[i] = IF i <= Count(q) THEN Contents(q)[i] ELSE x
  <2>1. CASE i <= Count(q)
    <3>1. i \in 1 .. Count(q)
      BY <1>3, <1>7, <2>1
    <3> QED
      BY <1>2, <1>5, <1>8, <1>9, <1>10, <1>11, <2>1, <3>1
  <2>2. CASE ~(i <= Count(q))
    <3>1. i = Count(q) + 1
      BY <1>3, <1>7, <2>2
    <3> QED
      BY <1>2, <1>5, <1>8, <1>9, <1>11, <2>2, <3>1
  <2> QED
    BY <2>1, <2>2
<1> QED
  BY <1>5, <1>7, <1>12

(* A write to the slot at the tail changes no entry.                       *)
LEMMA AtTail ==
  ASSUME NEW Item, NEW q \in Queue(Item), NEW d \in Queue(Item), NEW x,
         d.head = q.head, d.tail = q.tail, d.buf = [q.buf EXCEPT ![q.tail] = x]
  PROVE  Count(d) = Count(q) /\ Contents(d) = Contents(q)
<1>1. MaxKeys \in Nat \ {0} /\ q.head \in 0 .. MaxKeys /\ q.tail \in 0 .. MaxKeys /\ q.buf \in [Slots -> Item]
  BY QueueSizeAssumption DEF Queue, Slots
<1>2. Count(d) = Count(q)
  BY DEF Count
<1> DEFINE n == Count(q)
<1>3. n \in 0 .. MaxKeys /\ n = IF q.head <= q.tail THEN q.tail - q.head ELSE q.tail + (MaxKeys + 1) - q.head
  BY CountIs
<1>4. \A i \in 1 .. n : (q.head + i - 1) % (MaxKeys + 1) = At(q, i)
  <2> SUFFICES ASSUME NEW i \in 1 .. n
               PROVE  (q.head + i - 1) % (MaxKeys + 1) = At(q, i)
    OBVIOUS
  <2> HIDE DEF n
  <2>1. q.head + i - 1 \in 0 .. 2 * MaxKeys + 1
    BY <1>1, <1>3
  <2> QED
    BY <2>1, Wrapped, Zenon DEF At
<1> HIDE DEF n
<1>5. \A i \in 1 .. n : At(q, i) # q.tail /\ At(q, i) \in Slots
  BY <1>1, <1>3 DEF At, Wrap, Slots
<1>6. \A i \in 1 .. n : d.buf[(q.head + i - 1) % (MaxKeys + 1)] = q.buf[(q.head + i - 1) % (MaxKeys + 1)]
  BY <1>1, <1>4, <1>5
<1>7. /\ Contents(d) = [i \in 1 .. n |-> d.buf[(q.head + i - 1) % (MaxKeys + 1)]]
      /\ Contents(q) = [i \in 1 .. n |-> q.buf[(q.head + i - 1) % (MaxKeys + 1)]]
  BY <1>2 DEF Contents, n
<1> QED
  BY <1>2, <1>6, <1>7

(* A set of natural numbers has a least one.                               *)
LEMMA LeastNat ==
  ASSUME NEW T, T \subseteq Nat, T # {}
  PROVE  \E x \in T : \A y \in T : x <= y
<1>1. \E R : IsWellFoundedOn(R, Nat) /\ \A m, k \in Nat : m < k => <<m, k>> \in R
  <2>1. \A m, k \in Nat : m < k => <<m, k>> \in OpToRel(<, Nat)
    BY DEF OpToRel
  <2> QED
    BY <2>1, NatLessThanWellFounded, Zenon
<1>2. PICK R : IsWellFoundedOn(R, Nat) /\ \A m, k \in Nat : m < k => <<m, k>> \in R
  BY <1>1
<1>3. PICK x \in T : \A y \in T : ~(<<y, x>> \in R)
  <2>1. IsWellFoundedOn(R, Nat)
    BY <1>2
  <2> QED
    BY <2>1, WFMin, Zenon
<1>4. \A y \in T : ~(y < x)
  BY <1>2, <1>3
<1>5. \A y \in T : x <= y
  <2>1. \A m, k \in Nat : ~(m < k) => k <= m
    OBVIOUS
  <2> QED
    BY <1>4, <2>1
<1> QED
  BY <1>5

(* Enqueue: the oldest entry gives way to the new one in a full queue.     *)
LEMMA Enqueued ==
  ASSUME NEW Item, NEW q \in Queue(Item), NEW x \in Item, NEW d, d = Enqueue(q, x),
         NEW k, k = IF IsQueueFull(q) THEN 1 ELSE 0
  PROVE  /\ d \in Queue(Item) /\ Count(d) = Count(q) + 1 - k /\ k \in 0 .. Count(q)
         /\ \A i \in 1 .. Count(d) :
              Contents(d)[i] = IF i + k <= Count(q) THEN Contents(q)[i + k] ELSE x
<1>1. MaxKeys \in Nat \ {0} /\ Count(q) \in 0 .. MaxKeys /\ (IsQueueFull(q) <=> Count(q) = MaxKeys)
  BY QueueSizeAssumption, CountIs
<1> DEFINE r == IF IsQueueFull(q) THEN Drop(q) ELSE q
<1>2. k \in 0 .. Count(q)
  BY <1>1
<1>3. /\ r \in Queue(Item) /\ Count(r) = Count(q) - k
      /\ \A i \in 1 .. Count(r) : Contents(r)[i] = Contents(q)[i + k]
  <2>1. CASE IsQueueFull(q)
    <3>1. r = [q EXCEPT !.head = (@ + k) % (MaxKeys + 1)]
      BY <2>1 DEF Drop, After
    <3> QED
      BY <1>2, <3>1, Taken
  <2>2. CASE ~IsQueueFull(q)
    <3>1. r = q /\ k = 0
      BY <2>2
    <3>2. \A i \in 1 .. Count(q) : i + 0 = i
      BY <1>1
    <3> QED
      BY <1>1, <3>1, <3>2
  <2> QED
    BY <2>1, <2>2
<1>4. ~IsQueueFull(r)
  <2>1. IsQueueFull(r) <=> Count(r) = MaxKeys
    BY <1>3, CountIs
  <2> QED
    BY <1>1, <1>3, <2>1
<1>5. d = [head |-> r.head, tail |-> After(r.tail), buf |-> [r.buf EXCEPT ![r.tail] = x]]
  <2>1. d = Put(r, x)
    BY DEF Enqueue
  <2> HIDE DEF r
  <2> QED
    BY <1>3, <2>1 DEF Put, Queue
<1> HIDE DEF r
<1>6. /\ d \in Queue(Item) /\ Count(d) = Count(r) + 1
      /\ \A i \in 1 .. Count(d) : Contents(d)[i] = IF i <= Count(r) THEN Contents(r)[i] ELSE x
  BY <1>3, <1>4, <1>5, Added
<1> QED
  BY <1>1, <1>2, <1>3, <1>6

(* The recursive function of EnqueueAll exists.                            *)
Enqueues(f, q, xs, n) == f = [j \in 0 .. n |-> IF j = 0 THEN q ELSE Enqueue(f[j - 1], xs[j])]

\* Entries can be given to a queue one after the other.
LEMMA Enqueueing ==
  ASSUME NEW q, NEW xs
  PROVE  \A n \in Nat : \E f : Enqueues(f, q, xs, n)
<1> DEFINE Is(f, m) == f = [j \in 0 .. m |-> IF j = 0 THEN q ELSE Enqueue(f[j - 1], xs[j])]
           Bad == {m \in Nat : ~\E f : Is(f, m)}
<1> SUFFICES ASSUME Bad # {} PROVE FALSE
  BY DEF Enqueues
<1>1. PICK m \in Bad : \A j \in Bad : m <= j
  <2>1. Bad \subseteq Nat
    OBVIOUS
  <2> HIDE DEF Bad
  <2> QED
    BY <2>1, LeastNat
<1>2. m \in Nat /\ ~\E f : Is(f, m)
  BY <1>1
<1>3. m # 0
  <2>1. ASSUME m = 0 PROVE Is([j \in 0 .. 0 |-> q], m)
    BY <2>1
  <2> QED
    BY <1>2, <2>1
<1>4. m - 1 \in Nat /\ m - 1 \notin Bad
  BY <1>1, <1>2, <1>3
<1>5. PICK f : Is(f, m - 1)
  BY <1>4
<1> DEFINE g == [j \in 0 .. m |-> IF j = m THEN Enqueue(f[m - 1], xs[m]) ELSE f[j]]
<1>6. \A j \in 0 .. m : g[j] = IF j = 0 THEN q ELSE Enqueue(g[j - 1], xs[j])
  <2> SUFFICES ASSUME NEW j \in 0 .. m
               PROVE  g[j] = IF j = 0 THEN q ELSE Enqueue(g[j - 1], xs[j])
    OBVIOUS
  <2>1. CASE j = m
    <3>1. g[j - 1] = f[m - 1]
      BY <1>2, <1>3, <2>1
    <3> QED
      BY <1>2, <1>3, <2>1, <3>1
  <2>2. CASE j # m
    <3>1. j \in 0 .. m - 1 /\ g[j] = f[j]
      BY <1>2, <2>2
    <3>2. f[j] = IF j = 0 THEN q ELSE Enqueue(f[j - 1], xs[j])
      BY <1>5, <3>1
    <3>3. j # 0 => g[j - 1] = f[j - 1]
      BY <1>2, <2>2
    <3> QED
      BY <3>1, <3>2, <3>3
  <2> QED
    BY <2>1, <2>2
<1>7. Is(g, m)
  <2>1. g = [j \in 0 .. m |-> g[j]]
    OBVIOUS
  <2> QED
    BY <1>6, <2>1
<1> QED
  BY <1>2, <1>7

(* A queue that was given n entries holds the last of them, no more than   *)
(* it has room for.                                                        *)
Given(q, d, xs, n) ==
  LET k == IF Count(q) + n > MaxKeys THEN Count(q) + n - MaxKeys ELSE 0 IN
  /\ Count(d) = Count(q) + n - k
  /\ \A i \in 1 .. Count(d) :
       Contents(d)[i] = IF i + k <= Count(q) THEN Contents(q)[i + k] ELSE xs[i + k - Count(q)]

\* One more entry is given.
LEMMA GivenOne ==
  ASSUME NEW Item, NEW q \in Queue(Item), NEW d \in Queue(Item), NEW xs,
         NEW n \in Nat, xs[n + 1] \in Item, Given(q, d, xs, n), NEW e, e = Enqueue(d, xs[n + 1])
  PROVE  e \in Queue(Item) /\ Given(q, e, xs, n + 1)
<1> DEFINE x == xs[n + 1]
           j == IF IsQueueFull(d) THEN 1 ELSE 0
           k == IF Count(q) + n > MaxKeys THEN Count(q) + n - MaxKeys ELSE 0
           l == IF Count(q) + (n + 1) > MaxKeys THEN Count(q) + (n + 1) - MaxKeys ELSE 0
<1>1. MaxKeys \in Nat \ {0} /\ Count(q) \in 0 .. MaxKeys
  BY QueueSizeAssumption, CountIs
<1>2. IsQueueFull(d) <=> Count(d) = MaxKeys
  BY CountIs
<1>3. x \in Item
  OBVIOUS
<1>4. /\ e \in Queue(Item) /\ Count(e) = Count(d) + 1 - j /\ j \in 0 .. Count(d)
      /\ \A i \in 1 .. Count(e) : Contents(e)[i] = IF i + j <= Count(d) THEN Contents(d)[i + j] ELSE x
  BY <1>3, Enqueued
<1>5. /\ Count(d) = Count(q) + n - k
      /\ \A i \in 1 .. Count(d) :
           Contents(d)[i] = IF i + k <= Count(q) THEN Contents(q)[i + k] ELSE xs[i + k - Count(q)]
  BY DEF Given
<1>6. k \in Nat /\ l \in Nat /\ l = k + j /\ j \in {0, 1} /\ Count(q) \in Nat /\ Count(d) \in Nat
  <2>1. Count(d) = Count(q) + n - k
    BY <1>5
  <2> QED
    BY <1>1, <1>2, <2>1
<1>7. x = xs[n + 1]
  OBVIOUS
<1> HIDE DEF j, k, x
<1>8. Count(e) = Count(q) + (n + 1) - l
  BY <1>1, <1>4, <1>5, <1>6
<1> HIDE DEF l
<1>9. ASSUME NEW i \in 1 .. Count(e)
      PROVE  Contents(e)[i] = IF i + l <= Count(q) THEN Contents(q)[i + l] ELSE xs[i + l - Count(q)]
  <2>1. CASE i + j <= Count(d)
    <3>1. i + j \in 1 .. Count(d) /\ Contents(e)[i] = Contents(d)[i + j]
      BY <1>1, <1>4, <1>6, <2>1
    <3>4. Count(e) \in Nat /\ i \in Int /\ i + j \in Int
      BY <1>4, <1>6
    <3>2. (i + j) + k = i + l
      BY <1>6, <3>4
    <3>3. Contents(d)[i + j] = IF (i + j) + k <= Count(q) THEN Contents(q)[(i + j) + k]
                               ELSE xs[(i + j) + k - Count(q)]
      BY <1>5, <3>1
    <3> QED
      BY <1>6, <3>1, <3>2, <3>3, <3>4
  <2>2. CASE ~(i + j <= Count(d))
    <3>1. Contents(e)[i] = x
      BY <1>4, <2>2
    <3>2. i + l = Count(q) + (n + 1) /\ ~(i + l <= Count(q)) /\ i + l - Count(q) = n + 1
      <4>1. Count(d) = Count(q) + n - k /\ Count(e) = Count(d) + 1 - j
        BY <1>4, <1>5
      <4> QED
        BY <1>6, <2>2, <4>1
    <3> QED
      BY <1>7, <3>1, <3>2
  <2> QED
    BY <2>1, <2>2
<1> QED
  BY <1>4, <1>8, <1>9 DEF Given, l

(* EnqueueAll                                                              *)
LEMMA AllEnqueued ==
  ASSUME NEW Item, NEW q \in Queue(Item), NEW xs \in Seq(Item), NEW d, d = EnqueueAll(q, xs)
  PROVE  d \in Queue(Item) /\ Given(q, d, xs, Len(xs))
<1> DEFINE N == Len(xs)
           all[n \in 0 .. N] == IF n = 0 THEN q ELSE Enqueue(all[n - 1], xs[n])
           Bad == {n \in 0 .. N : ~(all[n] \in Queue(Item) /\ Given(q, all[n], xs, n))}
<1>1. d = all[N]
  BY DEF EnqueueAll
<1>2. N \in Nat
  OBVIOUS
<1>3. all = [n \in 0 .. N |-> IF n = 0 THEN q ELSE Enqueue(all[n - 1], xs[n])]
  <2>1. \E f : f = [n \in 0 .. N |-> IF n = 0 THEN q ELSE Enqueue(f[n - 1], xs[n])]
    <3> HIDE DEF N
    <3>1. \E f : Enqueues(f, q, xs, N)
      BY <1>2, Enqueueing
    <3> QED
      BY <3>1 DEF Enqueues
  <2> QED
    BY <2>1
<1> HIDE DEF all
<1>4. all[0] = q /\ \A n \in 0 .. N : n # 0 => all[n] = Enqueue(all[n - 1], xs[n])
  <2>1. 0 \in 0 .. N
    BY <1>2
  <2> QED
    BY <1>3, <2>1
<1>5. Given(q, q, xs, 0)
  <2>1. MaxKeys \in Nat /\ Count(q) \in 0 .. MaxKeys
    BY QueueSizeAssumption, CountIs
  <2>2. \A i \in 1 .. Count(q) : i + 0 = i /\ i <= Count(q)
    BY <2>1
  <2> QED
    BY <2>1, <2>2 DEF Given
<1>6. Bad = {}
  <2> SUFFICES ASSUME Bad # {} PROVE FALSE
    OBVIOUS
  <2>1. PICK m \in Bad : \A j \in Bad : m <= j
    <3>1. Bad \subseteq Nat
      BY <1>2
    <3> HIDE DEF Bad
    <3> QED
      BY <3>1, LeastNat
  <2>2. m # 0
    BY <1>4, <1>5, <2>1
  <2>3. m - 1 \in 0 .. N /\ m - 1 \notin Bad /\ m - 1 < N
    BY <1>2, <2>1, <2>2
  <2>4. all[m - 1] \in Queue(Item) /\ Given(q, all[m - 1], xs, m - 1)
    BY <2>3
  <2>5. all[m] = Enqueue(all[m - 1], xs[m])
    BY <1>4, <2>1, <2>2
  <2> DEFINE n == m - 1
             a == all[m - 1]
             e == all[m]
  <2>6. n \in Nat /\ n < N /\ n + 1 = m
    BY <1>2, <2>1, <2>3
  <2>7. a \in Queue(Item) /\ Given(q, a, xs, n) /\ e = Enqueue(a, xs[n + 1])
    BY <2>4, <2>5, <2>6
  <2>8. m \in 0 .. N /\ ~(e \in Queue(Item) /\ Given(q, e, xs, m))
    BY <2>1
  <2>10. xs[n + 1] \in Item
    BY <1>2, <2>6
  <2> HIDE DEF n, a, e, Bad
  <2>9. e \in Queue(Item) /\ Given(q, e, xs, n + 1)
    BY <2>6, <2>7, <2>10, GivenOne
  <2> QED
    BY <2>6, <2>8, <2>9
<1>7. N \in 0 .. N /\ N \notin Bad
  BY <1>2, <1>6
<1> QED
  BY <1>1, <1>7

-----------------------------------------------------------------------------
(* The inductive invariant.                                                *)

(* The press of a letter, and the shift state v after the first k events   *)
(* of c, if it is s before                                                 *)
Press(e) == e.down /\ e.code \in Letters
Decides(c, s, k, v) ==
  \/ \E i \in 1 .. k : /\ c[i].code \in Shifts /\ (c[i].down <=> v)
                       /\ \A j \in i + 1 .. k : c[j].code \notin Shifts
  \/ (s <=> v) /\ \A j \in 1 .. k : c[j].code \notin Shifts

U == Contents(usbq)
E == Contents(efiq)
Held == last \cap Shifts # {}
Resetting == app.pc \in {"flags", "last"}
Writing == cb.pc \in {"copy", "tail"}
Newest == IF Writing /\ cb.item.code # None THEN count.presses - 1 ELSE count.presses

(* The repeat handler: it has room for its letter, and writes to the slot  *)
(* that is at the tail of UsbKeyQueue, if no one else did.                 *)
RepeatOk ==
  /\ cb.item.code \in Letters \cup {None} /\ (Writing => cb.item.down)
  /\ cb.pc \in {"load", "drop", "slot"} => count.presses < MaxPresses
  /\ "garbled" \notin happened /\ Writing =>
       cb.slot = usbq.tail /\ (cb.pc = "tail" => usbq.buf[usbq.tail] = cb.item)
  /\ repeat \in last \cup {None} \/ ("RepeatTimer" \notin timer /\ cb.pc = "idle")

(* The events that wait lead to the shift state that was reported, and     *)
(* each press to the one it was made with.                                 *)
ShiftOk ==
  /\ Resetting => Count(usbq) = 0 /\ ~Writing
  /\ app.pc = "last" => ~shift
  /\ ~Resetting => /\ Decides(U, shift, Count(usbq), Held)
                   /\ \A i \in 1 .. Count(usbq) : Press(U[i]) => Decides(U, shift, i - 1, U[i].cap)
  /\ Writing => (cb.item.cap <=> Held)
CaseOk == \A i \in Slots : efiq.buf[i].upper <=> efiq.buf[i].cap

(* What waits is newer than what was read, and in the order of the presses.*)
PressesOk ==
  \A i \in 1 .. Count(usbq) : Press(U[i]) =>
    /\ U[i].n <= Newest /\ read < U[i].n
    /\ \A j \in 1 .. Count(efiq) : E[j].n < U[i].n
    /\ \A j \in 1 .. Count(usbq) : i < j /\ Press(U[j]) => U[i].n < U[j].n
KeysOk ==
  /\ \A i \in 1 .. Count(efiq) : read < E[i].n /\ E[i].n <= Newest
  /\ \A i, j \in 1 .. Count(efiq) : i < j => E[i].n < E[j].n
ReadOk ==
  /\ read <= Newest
  /\ Writing /\ cb.item.code # None => cb.item.n = count.presses
  /\ app.pc \in {"slot", "copied"} => app.slot = efiq.head /\ Count(efiq) > 0
  /\ app.pc = "copied" => app.item = E[1]

(* A press that was not read is kept; no other event has a number.         *)
Kept(n) ==
  \/ \E i \in 1 .. Count(efiq) : E[i].n = n
  \/ \E i \in 1 .. Count(usbq) : U[i].n = n
  \/ Writing /\ cb.item.n = n
Wanted == \A n \in read + 1 .. count.presses : Kept(n)
Marked ==
  /\ \A i \in 1 .. Count(usbq) : U[i].n # 0 => Press(U[i])
  /\ Writing /\ cb.item.n # 0 => Press(cb.item)

IInv ==
  /\ TypeOK /\ RepeatOk /\ PolledOrRecovering /\ NotifyIsSignalled
  /\ No({"lost", "garbled", "pair"}) => ShiftOk /\ CaseOk
  /\ No({"garbled", "overrun"}) => PressesOk /\ KeysOk /\ ReadOk
  /\ "overrun" \in happened => "dropped" \in happened
  /\ No({"garbled", "dropped"}) => Marked /\ Wanted

-----------------------------------------------------------------------------
(* What the operators of the handlers return.                              *)

(* Any order of the keys of a report                                       *)
LEMMA Ordered ==
  ASSUME NEW S, IsFiniteSet(S), NEW f \in SetToSeqs(S)
  PROVE  f \in Seq(S) /\ Len(f) = Cardinality(S) /\ (Len(f) = 0 <=> S = {})
<1>1. Cardinality(S) \in Nat /\ (Cardinality(S) = 0 <=> S = {})
  BY FS_CardinalityType, FS_EmptySet
<1>2. f \in [1 .. Cardinality(S) -> S]
  BY DEF SetToSeqs
<1> DEFINE n == Cardinality(S)
<1>3. n \in Nat /\ f \in [1 .. n -> S]
  BY <1>1, <1>2
<1> HIDE DEF n
<1>4. f \in Seq(S) /\ Len(f) = n
  BY <1>3
<1> QED
  BY <1>1, <1>4 DEF n

(* Two sequences one after the other                                       *)
LEMMA Joined ==
  ASSUME NEW Item, NEW s \in Seq(Item), NEW t \in Seq(Item)
  PROVE  /\ s \o t \in Seq(Item) /\ Len(s \o t) = Len(s) + Len(t)
         /\ Len(s) \in Nat /\ Len(t) \in Nat
         /\ \A i \in 1 .. Len(s) : (s \o t)[i] = s[i] /\ s[i] \in Item
         /\ \A i \in 1 .. Len(t) : (s \o t)[i + Len(s)] = t[i] /\ t[i] \in Item
  OBVIOUS

(* The events that USBParseKey takes out: those before the first press, and *)
(* that press                                                              *)
Parses(q, k) ==
  /\ k \in 0 .. Count(q) /\ Parsed(q) = SubSeq(Contents(q), 1, k)
  /\ \A i \in 1 .. k - 1 : ~Contents(q)[i].down \/ Contents(q)[i].code = None
  /\ k = 0 => Count(q) = 0
\* What USBParseKey takes out are the events before the first press, and that press.
LEMMA Parsing ==
  ASSUME NEW q \in Queue(UsbKeys)
  PROVE  \E k : Parses(q, k)
<1> DEFINE c == Contents(q)
           n == Count(q)
           P == {i \in DOMAIN c : c[i].down /\ c[i].code # None}
           k == IF P = {} THEN Len(c) ELSE Min(P)
<1>1. c \in Seq(UsbKeys) /\ Len(c) = n /\ n \in Nat
  BY CountIs, QueueSizeAssumption
<1>2. DOMAIN c = 1 .. n
  BY <1>1
<1>3. Parsed(q) = SubSeq(c, 1, k)
  BY DEF Parsed
<1> HIDE DEF c, n
<1>4. CASE P = {}
  <2>1. k = n
    BY <1>1, <1>4
  <2>2. \A i \in 1 .. n : ~c[i].down \/ c[i].code = None
    <3> SUFFICES ASSUME NEW i \in 1 .. n, c[i].down /\ c[i].code # None PROVE i \in P
      BY <1>4
    <3> QED
      BY <1>2
  <2> HIDE DEF k
  <2>3. k \in 0 .. n /\ (\A i \in 1 .. k - 1 : i \in 1 .. n) /\ (k = 0 => n = 0)
    BY <1>1, <2>1
  <2> QED
    BY <1>1, <1>3, <2>1, <2>2, <2>3 DEF Parses, c, n
<1>5. CASE P # {}
  <2>1. P \subseteq Nat
    BY <1>2
  <2>2. \E x \in P : \A y \in P : x <= y
    <3> HIDE DEF P
    <3> QED
      BY <1>5, <2>1, LeastNat
  <2>3. k \in P /\ \A y \in P : k <= y
    <3>1. k = Min(P)
      BY <1>5
    <3> HIDE DEF P, k
    <3> QED
      BY <2>2, <3>1 DEF Min
  <2> HIDE DEF k
  <2>4. k \in 1 .. n
    BY <1>2, <2>3
  <2>5. \A i \in 1 .. k - 1 : ~c[i].down \/ c[i].code = None
    <3> SUFFICES ASSUME NEW i \in 1 .. k - 1 PROVE i \notin P
      BY <1>1, <1>2, <2>4
    <3> QED
      BY <1>1, <2>3, <2>4
  <2> QED
    BY <1>1, <1>3, <2>4, <2>5 DEF Parses, c, n
<1> QED
  BY <1>4, <1>5

(* The part of a sequence that was parsed                                  *)
LEMMA Prefix ==
  ASSUME NEW Item, NEW c \in Seq(Item), NEW k \in 0 .. Len(c)
  PROVE  /\ SubSeq(c, 1, k) \in Seq(Item) /\ Len(SubSeq(c, 1, k)) = k
         /\ \A i \in 1 .. k : SubSeq(c, 1, k)[i] = c[i]
         /\ k > 0 => Last(SubSeq(c, 1, k)) = c[k] /\ c[k] \in Item
<1>1. SubSeq(c, 1, k) \in Seq(Item) /\ Len(SubSeq(c, 1, k)) = k
  OBVIOUS
<1>2. \A i \in 1 .. k : SubSeq(c, 1, k)[i] = c[i]
  OBVIOUS
<1>3. k > 0 => k \in 1 .. k /\ k \in 1 .. Len(c)
  OBVIOUS
<1> QED
  BY <1>1, <1>2, <1>3 DEF Last

-----------------------------------------------------------------------------
(* The shift state after some of the events.                               *)

(* There is one.                                                           *)
LEMMA DecidesOnce ==
  ASSUME NEW c, NEW s \in BOOLEAN, NEW k \in Nat, NEW v \in BOOLEAN, NEW w \in BOOLEAN,
         Decides(c, s, k, v), Decides(c, s, k, w)
  PROVE  v = w
<1>1. CASE \A j \in 1 .. k : c[j].code \notin Shifts
  BY <1>1 DEF Decides
<1>2. CASE ~\A j \in 1 .. k : c[j].code \notin Shifts
  <2>1. PICK i \in 1 .. k : /\ c[i].code \in Shifts /\ (c[i].down <=> v)
                            /\ \A j \in i + 1 .. k : c[j].code \notin Shifts
    BY <1>2 DEF Decides
  <2>2. PICK h \in 1 .. k : /\ c[h].code \in Shifts /\ (c[h].down <=> w)
                            /\ \A j \in h + 1 .. k : c[j].code \notin Shifts
    BY <1>2 DEF Decides
  <2>3. i = h
    BY <2>1, <2>2
  <2> QED
    BY <2>1, <2>2, <2>3
<1> QED
  BY <1>1, <1>2

(* The first n of d are those of c from a on; no shift key is among them    *)
Agree(d, c, a, n) == \A i \in 1 .. n : d[i] = c[i + a]
NoShift(d, a, b) == \A i \in a + 1 .. b : d[i].code \notin Shifts

(* The first a events are taken out.                                       *)
LEMMA DecidesLater ==
  ASSUME NEW c, NEW s \in BOOLEAN, NEW a \in Nat, NEW b \in Nat, a <= b,
         NEW t \in BOOLEAN, NEW v \in BOOLEAN,
         Decides(c, s, a, t), Decides(c, s, b, v),
         NEW d, NEW n, n = b - a, Agree(d, c, a, n)
  PROVE  Decides(d, t, n, v)
<1>0. n = b - a /\ \A i \in 1 .. b - a : d[i] = c[i + a]
  BY DEF Agree
<1>1. CASE \A j \in a + 1 .. b : c[j].code \notin Shifts
  <2>1. Decides(c, s, a, v)
    <3>1. CASE \A j \in 1 .. b : c[j].code \notin Shifts
      <4>1. \A j \in 1 .. a : j \in 1 .. b
        OBVIOUS
      <4> QED
        BY <3>1, <4>1 DEF Decides
    <3>2. CASE ~\A j \in 1 .. b : c[j].code \notin Shifts
      <4>1. PICK i \in 1 .. b : /\ c[i].code \in Shifts /\ (c[i].down <=> v)
                                /\ \A j \in i + 1 .. b : c[j].code \notin Shifts
        BY <3>2 DEF Decides
      <4>2. i \in 1 .. a /\ \A j \in i + 1 .. a : j \in i + 1 .. b
        BY <1>1, <4>1
      <4> QED
        BY <4>1, <4>2 DEF Decides
    <3> QED
      BY <3>1, <3>2
  <2>2. t = v
    BY <2>1, DecidesOnce
  <2>3. \A j \in 1 .. b - a : j + a \in a + 1 .. b
    OBVIOUS
  <2>4. \A j \in 1 .. b - a : d[j].code \notin Shifts
    BY <1>0, <1>1, <2>3
  <2> QED
    BY <1>0, <2>2, <2>4 DEF Decides
<1>2. CASE ~\A j \in a + 1 .. b : c[j].code \notin Shifts
  <2>1. PICK h \in a + 1 .. b : c[h].code \in Shifts
    BY <1>2
  <2>2. h \in 1 .. b
    OBVIOUS
  <2>3. PICK i \in 1 .. b : /\ c[i].code \in Shifts /\ (c[i].down <=> v)
                            /\ \A j \in i + 1 .. b : c[j].code \notin Shifts
    BY <2>1, <2>2 DEF Decides
  <2>4. i - a \in 1 .. b - a /\ (i - a) + a = i /\ \A j \in (i - a) + 1 .. b - a : j + a \in i + 1 .. b
    <3>1. ~(h \in i + 1 .. b)
      BY <2>1, <2>3
    <3> QED
      BY <3>1
  <2>5. d[i - a] = c[i]
    BY <1>0, <2>4
  <2>6. \A j \in (i - a) + 1 .. b - a : d[j].code \notin Shifts
    <3>1. \A j \in (i - a) + 1 .. b - a : j \in 1 .. b - a
      BY <2>4
    <3> QED
      BY <1>0, <2>3, <2>4, <3>1
  <2> QED
    BY <1>0, <2>3, <2>4, <2>5, <2>6 DEF Decides
<1> QED
  BY <1>1, <1>2

(* More events are put in.                                                 *)
LEMMA DecidesStill ==
  ASSUME NEW c, NEW s \in BOOLEAN, NEW a \in Nat, NEW b \in Nat, a <= b,
         NEW v \in BOOLEAN, Decides(c, s, a, v),
         NEW d, Agree(d, c, 0, a), NoShift(d, a, b)
  PROVE  Decides(d, s, b, v)
<1>0. /\ \A i \in 1 .. a : d[i] = c[i]
      /\ \A i \in a + 1 .. b : d[i].code \notin Shifts
  <2>1. \A i \in 1 .. a : i + 0 = i
    OBVIOUS
  <2> QED
    BY <2>1 DEF Agree, NoShift
<1>1. CASE \A j \in 1 .. a : c[j].code \notin Shifts
  <2>1. \A j \in 1 .. b : j \in 1 .. a \/ j \in a + 1 .. b
    OBVIOUS
  <2>2. \A j \in 1 .. b : d[j].code \notin Shifts
    BY <1>0, <1>1, <2>1
  <2>3. s <=> v
    BY <1>1 DEF Decides
  <2> QED
    BY <2>2, <2>3 DEF Decides
<1>2. CASE ~\A j \in 1 .. a : c[j].code \notin Shifts
  <2>1. PICK i \in 1 .. a : /\ c[i].code \in Shifts /\ (c[i].down <=> v)
                            /\ \A j \in i + 1 .. a : c[j].code \notin Shifts
    BY <1>2 DEF Decides
  <2>2. i \in 1 .. b /\ \A j \in i + 1 .. b : (j \in i + 1 .. a /\ j \in 1 .. a) \/ j \in a + 1 .. b
    OBVIOUS
  <2>3. \A j \in i + 1 .. b : d[j].code \notin Shifts
    BY <1>0, <2>1, <2>2
  <2>4. d[i] = c[i]
    BY <1>0
  <2> QED
    BY <2>1, <2>2, <2>3, <2>4 DEF Decides
<1> QED
  BY <1>1, <1>2

(* A set of positions that is not empty has a last one.                    *)
LEMMA LastOne ==
  ASSUME NEW n \in Nat, NEW T, T \subseteq 1 .. n, T # {}
  PROVE  \E x \in T : \A y \in T : y <= x
<1> DEFINE R == {n - x : x \in T}
<1>1. R \subseteq Nat /\ R # {}
  <2>1. \A x \in T : n - x \in Nat
    <3>1. \A x \in 1 .. n : n - x \in Nat
      OBVIOUS
    <3> QED
      BY <3>1
  <2>2. PICK x \in T : TRUE
    OBVIOUS
  <2> QED
    BY <2>1, <2>2
<1>2. PICK r \in R : \A y \in R : r <= y
  <2> HIDE DEF R
  <2> QED
    BY <1>1, LeastNat
<1>3. PICK x \in T : r = n - x
  OBVIOUS
<1>4. ASSUME NEW y \in T PROVE y <= x
  <2>1. n - y \in R
    OBVIOUS
  <2>2. n - x <= n - y
    BY <1>2, <1>3, <2>1
  <2>3. x \in Int /\ y \in Int
    OBVIOUS
  <2> QED
    BY <2>2, <2>3
<1> QED
  BY <1>4

(* USBParseKey leaves ShiftOn as the events it takes out decide.           *)
LEMMA ParsedDecides ==
  ASSUME NEW q \in Queue(UsbKeys), NEW s \in BOOLEAN, NEW k, Parses(q, k)
  PROVE  /\ ShiftAfter(Parsed(q), s) \in BOOLEAN
         /\ Decides(Contents(q), s, k, ShiftAfter(Parsed(q), s))
<1> DEFINE c == Contents(q)
           ks == Parsed(q)
           v == ShiftAfter(ks, s)
<1>1. /\ k \in 0 .. Count(q) /\ ks = SubSeq(c, 1, k)
      /\ \A i \in 1 .. k - 1 : ~c[i].down \/ c[i].code = None
  BY DEF Parses
<1>2. c \in Seq(UsbKeys) /\ Len(c) = Count(q) /\ Count(q) \in Nat
  BY CountIs, QueueSizeAssumption
<1> HIDE DEF c, ks
<1>3. /\ ks \in Seq(UsbKeys) /\ Len(ks) = k /\ k \in Nat
      /\ \A i \in 1 .. k : ks[i] = c[i]
      /\ k > 0 => Last(ks) = c[k]
  BY <1>1, <1>2, Prefix
<1>4. ks # <<>> <=> k > 0
  BY <1>3
<1>5. HasShift(ks) <=> \E i \in 1 .. k : c[i].code \in Shifts
  <2>1. DOMAIN ks = 1 .. k
    BY <1>3
  <2> QED
    BY <1>3, <2>1 DEF HasShift
<1>6. v = IF ks # <<>> /\ Last(ks).code \in Shifts /\ Last(ks).down THEN TRUE
          ELSE s /\ ~HasShift(ks)
  BY DEF ShiftAfter
<1>7. v \in BOOLEAN
  BY <1>6
<1> HIDE DEF v
<1>8. CASE k > 0 /\ c[k].code \in Shifts /\ c[k].down
  <2>1. v = TRUE
    BY <1>3, <1>4, <1>6, <1>8
  <2>2. k \in 1 .. k /\ \A j \in k + 1 .. k : FALSE
    BY <1>3, <1>8
  <2>3. Decides(c, s, k, v)
    BY <1>8, <2>1, <2>2 DEF Decides
  <2> QED
    BY <1>7, <2>3 DEF c, ks, v
<1>9. CASE ~(k > 0 /\ c[k].code \in Shifts /\ c[k].down) /\ HasShift(ks)
  <2>1. v = FALSE
    BY <1>3, <1>4, <1>6, <1>9
  <2> DEFINE T == {i \in 1 .. k : c[i].code \in Shifts}
  <2>2. T \subseteq 1 .. k /\ T # {}
    BY <1>5, <1>9
  <2>3. PICK x \in T : \A y \in T : y <= x
    <3> HIDE DEF T
    <3> QED
      BY <1>3, <2>2, LastOne
  <2>4. x \in 1 .. k /\ c[x].code \in Shifts
    OBVIOUS
  <2>5. ~c[x].down
    <3>1. None \notin Shifts
      BY KeyboardAssumption DEF Codes
    <3>2. x = k \/ x \in 1 .. k - 1
      BY <1>3, <2>4
    <3> QED
      BY <1>1, <1>3, <1>9, <2>4, <3>1, <3>2
  <2>6. \A j \in x + 1 .. k : c[j].code \notin Shifts
    <3>1. \A j \in x + 1 .. k : j \in 1 .. k /\ ~(j <= x)
      BY <1>3, <2>4
    <3> QED
      BY <2>3, <3>1
  <2>7. Decides(c, s, k, v)
    BY <2>1, <2>4, <2>5, <2>6 DEF Decides
  <2> QED
    BY <1>7, <2>7 DEF c, ks, v
<1>10. CASE ~(k > 0 /\ c[k].code \in Shifts /\ c[k].down) /\ ~HasShift(ks)
  <2>1. v = s
    BY <1>3, <1>4, <1>6, <1>10
  <2>2. \A j \in 1 .. k : c[j].code \notin Shifts
    BY <1>5, <1>10
  <2>3. Decides(c, s, k, v)
    BY <2>1, <2>2 DEF Decides
  <2> QED
    BY <1>7, <2>3 DEF c, ks, v
<1> QED
  BY <1>8, <1>9, <1>10

-----------------------------------------------------------------------------
(* The events of a report: the shift keys that changed, the letters that   *)
(* were released, and those that were pressed.                             *)
Changed(now) == (Released(now) \cup Pressed(now)) \cap Shifts

Reported(now, mods, ups, downs, ev) ==
  /\ ev \in Seq(UsbKeys) /\ Len(ev) = Len(mods) + Len(ups) + Len(downs)
  /\ Len(mods) \in Nat /\ Len(ups) \in Nat /\ Len(downs) \in Nat
  /\ Len(mods) = 0 <=> Changed(now) = {}
  /\ Len(downs) = Cardinality(Pressed(now) \cap Letters)
  /\ \A i \in 1 .. Len(downs) : downs[i] \in Letters \cap now
  /\ \A i \in 1 .. Len(mods) : /\ ev[i].code \in Changed(now)
                               /\ ev[i].down <=> ev[i].code \in now
  /\ \A i \in Len(mods) + 1 .. Len(ev) : ev[i].code \in Letters
  /\ \A i \in Len(mods) + 1 .. Len(ev) : Press(ev[i]) =>
       /\ ev[i].n = count.presses + (i - Len(mods) - Len(ups)) /\ i > Len(mods) + Len(ups)
       /\ ev[i].cap <=> now \cap Shifts # {}
  /\ \A i \in 1 .. Len(ev) : ev[i].n # 0 => Press(ev[i])
  /\ \A i \in 1 .. Len(downs) : ev[i + (Len(mods) + Len(ups))].n = count.presses + i

\* KeyEvents puts the events of a report in that order.
LEMMA Events3 ==
  ASSUME TypeOK, NEW now \in SUBSET Codes,
         count.presses + Cardinality(Pressed(now) \cap Letters) <= MaxPresses,
         NEW mods \in SetToSeqs(Changed(now)),
         NEW ups \in SetToSeqs(Released(now) \cap Letters),
         NEW downs \in SetToSeqs(Pressed(now) \cap Letters)
  PROVE  Reported(now, mods, ups, downs, KeyEvents(now, mods, ups, downs))
<1> DEFINE ev == KeyEvents(now, mods, ups, downs)
           s == now \cap Shifts # {}
           a == [i \in DOMAIN mods |-> UsbKey(mods[i], mods[i] \in now, 0, FALSE)]
           b == [i \in DOMAIN ups |-> UsbKey(ups[i], FALSE, 0, FALSE)]
           c == [i \in DOMAIN downs |-> UsbKey(downs[i], TRUE, count.presses + i, s)]
           l == Len(mods)
           m == Len(ups)
           n == Len(downs)
<1>1. last \in SUBSET Codes /\ count.presses \in 0 .. MaxPresses /\ MaxPresses \in Nat
  BY KeyboardAssumption DEF TypeOK
<1>2. /\ IsFiniteSet(Changed(now)) /\ IsFiniteSet(Released(now) \cap Letters)
      /\ IsFiniteSet(Pressed(now) \cap Letters)
  <2>1. \A S \in SUBSET Codes : IsFiniteSet(S)
    BY KeyboardAssumption, FS_Subset
  <2> QED
    BY <1>1, <2>1 DEF Changed, Released, Pressed
<1>3. /\ mods \in Seq(Changed(now)) /\ (l = 0 <=> Changed(now) = {})
      /\ ups \in Seq(Released(now) \cap Letters)
      /\ downs \in Seq(Pressed(now) \cap Letters) /\ n = Cardinality(Pressed(now) \cap Letters)
  BY <1>2, Ordered
<1>4. /\ l \in Nat /\ DOMAIN mods = 1 .. l /\ \A i \in 1 .. l : mods[i] \in Changed(now)
      /\ m \in Nat /\ DOMAIN ups = 1 .. m /\ \A i \in 1 .. m : ups[i] \in Letters
      /\ n \in Nat /\ DOMAIN downs = 1 .. n /\ \A i \in 1 .. n : downs[i] \in Letters \cap now
  <2>1. \A S : \A f \in Seq(S) : /\ Len(f) \in Nat /\ DOMAIN f = 1 .. Len(f)
                                 /\ \A i \in 1 .. Len(f) : f[i] \in S
    OBVIOUS
  <2>2. Pressed(now) \subseteq now
    BY DEF Pressed
  <2>3. l \in Nat /\ DOMAIN mods = 1 .. l /\ \A i \in 1 .. l : mods[i] \in Changed(now)
    BY <1>3, <2>1
  <2>4. m \in Nat /\ DOMAIN ups = 1 .. m /\ \A i \in 1 .. m : ups[i] \in Letters
    BY <1>3, <2>1
  <2>6. n \in Nat /\ DOMAIN downs = 1 .. n /\ \A i \in 1 .. n : downs[i] \in Pressed(now) \cap Letters
    BY <1>3, <2>1
  <2>5. n \in Nat /\ DOMAIN downs = 1 .. n /\ \A i \in 1 .. n : downs[i] \in Letters \cap now
    BY <2>2, <2>6
  <2> QED
    BY <2>3, <2>4, <2>5
<1>5. ev = a \o b \o c
  BY DEF KeyEvents
<1> HIDE DEF ev, l, m, n, s
<1>6. 0 \in 0 .. MaxPresses /\ \A i \in 1 .. n : count.presses + i \in 0 .. MaxPresses
  BY <1>1, <1>3, <1>4
<1>7. /\ \A i \in 1 .. l : UsbKey(mods[i], mods[i] \in now, 0, FALSE) \in UsbKeys
      /\ \A i \in 1 .. m : UsbKey(ups[i], FALSE, 0, FALSE) \in UsbKeys
      /\ \A i \in 1 .. n : UsbKey(downs[i], TRUE, count.presses + i, s) \in UsbKeys
  <2>1. Changed(now) \subseteq Codes /\ Letters \subseteq Codes
    BY <1>1 DEF Changed, Codes
  <2>2. \A x, y : (x \in y) \in BOOLEAN
    OBVIOUS
  <2>3. s \in BOOLEAN
    BY DEF s
  <2> QED
    BY <1>4, <1>6, <2>1, <2>2, <2>3 DEF UsbKey, UsbKeys
<1>8. a \in [1 .. l -> UsbKeys] /\ b \in [1 .. m -> UsbKeys] /\ c \in [1 .. n -> UsbKeys]
  BY <1>4, <1>7
<1>9. /\ \A i \in 1 .. l : a[i] = UsbKey(mods[i], mods[i] \in now, 0, FALSE)
      /\ \A i \in 1 .. m : b[i] = UsbKey(ups[i], FALSE, 0, FALSE)
      /\ \A i \in 1 .. n : c[i] = UsbKey(downs[i], TRUE, count.presses + i, s)
  BY <1>4
<1> HIDE DEF a, b, c
<1>10. /\ a \in Seq(UsbKeys) /\ Len(a) = l /\ b \in Seq(UsbKeys) /\ Len(b) = m
       /\ c \in Seq(UsbKeys) /\ Len(c) = n
  BY <1>4, <1>8
<1>11. /\ a \o b \in Seq(UsbKeys) /\ Len(a \o b) = l + m
       /\ \A i \in 1 .. l : (a \o b)[i] = a[i]
       /\ \A i \in 1 .. m : (a \o b)[i + l] = b[i]
  <2>1. a \o b \in Seq(UsbKeys) /\ Len(a \o b) = Len(a) + Len(b)
    BY <1>10, Joined
  <2>2. \A i \in 1 .. Len(a) : (a \o b)[i] = a[i]
    BY <1>10, Joined
  <2>3. \A i \in 1 .. Len(b) : (a \o b)[i + Len(a)] = b[i]
    BY <1>10, Joined
  <2> QED
    BY <1>10, <2>1, <2>2, <2>3
<1>12. /\ ev \in Seq(UsbKeys) /\ Len(ev) = l + m + n
       /\ \A i \in 1 .. l + m : ev[i] = (a \o b)[i]
       /\ \A i \in 1 .. n : ev[i + (l + m)] = c[i]
  <2> DEFINE d == a \o b
  <2>1. d \in Seq(UsbKeys) /\ Len(d) = l + m /\ ev = d \o c
    BY <1>5, <1>11
  <2> HIDE DEF d
  <2>2. d \o c \in Seq(UsbKeys) /\ Len(d \o c) = Len(d) + Len(c)
    BY <1>10, <2>1, Joined
  <2>3. \A i \in 1 .. Len(d) : (d \o c)[i] = d[i]
    BY <1>10, <2>1, Joined
  <2>6. d \in Seq(UsbKeys) /\ c \in Seq(UsbKeys)
    BY <1>10, <2>1
  <2>4. \A i \in 1 .. Len(c) : (d \o c)[i + Len(d)] = c[i]
    BY <2>6, Joined
  <2>5. /\ ev \in Seq(UsbKeys) /\ Len(ev) = l + m + n
        /\ \A i \in 1 .. l + m : ev[i] = d[i]
        /\ \A i \in 1 .. n : ev[i + (l + m)] = c[i]
    BY <1>10, <2>1, <2>2, <2>3, <2>4
  <2> QED
    BY <2>5 DEF d
<1>13. ASSUME NEW i \in 1 .. l
       PROVE  ev[i].code \in Changed(now) /\ (ev[i].down <=> ev[i].code \in now)
  <2>1. i \in 1 .. l + m
    BY <1>4
  <2>2. ev[i] = UsbKey(mods[i], mods[i] \in now, 0, FALSE)
    BY <1>9, <1>11, <1>12, <2>1
  <2>5. ASSUME NEW d \in BOOLEAN, ev[i] = UsbKey(mods[i], d, 0, FALSE)
        PROVE  ev[i].code = mods[i] /\ (ev[i].down <=> d)
    BY <2>5 DEF UsbKey
  <2>3. ev[i].code = mods[i] /\ (ev[i].down <=> mods[i] \in now)
    <3>1. CASE mods[i] \in now
      <4>1. (mods[i] \in now) = TRUE
        BY <3>1
      <4>2. ev[i] = UsbKey(mods[i], TRUE, 0, FALSE)
        BY <2>2, <4>1
      <4> QED
        BY <2>5, <3>1, <4>2
    <3>2. CASE mods[i] \notin now
      <4>1. (mods[i] \in now) = FALSE
        BY <3>2
      <4>2. ev[i] = UsbKey(mods[i], FALSE, 0, FALSE)
        BY <2>2, <4>1
      <4> QED
        BY <2>5, <3>2, <4>2
    <3> QED
      BY <3>1, <3>2
  <2> QED
    BY <1>4, <2>3
<1>14. ASSUME NEW i \in l + 1 .. Len(ev)
       PROVE  /\ ev[i].code \in Letters
              /\ Press(ev[i]) => /\ ev[i].n = count.presses + (i - l - m) /\ i > l + m
                                 /\ ev[i].cap <=> s
  <2>1. CASE i <= l + m
    <3>1. i - l \in 1 .. m /\ (i - l) + l = i /\ i \in 1 .. l + m
      BY <1>4, <1>12, <2>1
    <3>2. ev[i] = UsbKey(ups[i - l], FALSE, 0, FALSE)
      BY <1>9, <1>11, <1>12, <3>1
    <3> QED
      BY <1>4, <3>1, <3>2 DEF UsbKey, Press
  <2>2. CASE ~(i <= l + m)
    <3>1. i - l - m \in 1 .. n /\ (i - l - m) + (l + m) = i /\ i > l + m
      BY <1>4, <1>12, <2>2
    <3>2. ev[i] = UsbKey(downs[i - l - m], TRUE, count.presses + (i - l - m), s)
      BY <1>9, <1>12, <3>1
    <3> QED
      BY <1>4, <3>1, <3>2 DEF UsbKey, Press
  <2> QED
    BY <2>1, <2>2
<1>15. /\ ev \in Seq(UsbKeys) /\ Len(ev) = l + m + n /\ l \in Nat /\ m \in Nat /\ n \in Nat
       /\ (l = 0 <=> Changed(now) = {}) /\ n = Cardinality(Pressed(now) \cap Letters)
       /\ \A i \in 1 .. n : downs[i] \in Letters \cap now
  BY <1>3, <1>4, <1>12
<1>16. ASSUME NEW i \in 1 .. Len(ev), ev[i].n # 0
       PROVE  Press(ev[i])
  <2>1. CASE i <= l
    <3>1. i \in 1 .. l /\ i \in 1 .. l + m
      BY <1>4, <2>1
    <3>2. ev[i] = UsbKey(mods[i], mods[i] \in now, 0, FALSE)
      BY <1>9, <1>11, <1>12, <3>1
    <3> QED
      BY <1>16, <3>2 DEF UsbKey
  <2>2. CASE ~(i <= l) /\ i <= l + m
    <3>1. i - l \in 1 .. m /\ (i - l) + l = i /\ i \in 1 .. l + m
      BY <1>4, <1>12, <2>2
    <3>2. ev[i] = UsbKey(ups[i - l], FALSE, 0, FALSE)
      BY <1>9, <1>11, <1>12, <3>1
    <3> QED
      BY <1>16, <3>2 DEF UsbKey
  <2>3. CASE ~(i <= l + m)
    <3>1. i - l - m \in 1 .. n /\ (i - l - m) + (l + m) = i
      BY <1>4, <1>12, <2>3
    <3>2. ev[i] = UsbKey(downs[i - l - m], TRUE, count.presses + (i - l - m), s)
      BY <1>9, <1>12, <3>1
    <3> QED
      BY <1>4, <3>1, <3>2 DEF UsbKey, Press
  <2> QED
    BY <2>1, <2>2, <2>3
<1>17. ASSUME NEW i \in 1 .. n
       PROVE  ev[i + (l + m)].n = count.presses + i
  <2>1. ev[i + (l + m)] = UsbKey(downs[i], TRUE, count.presses + i, s)
    BY <1>9, <1>12
  <2> QED
    BY <2>1 DEF UsbKey
<1> QED
  BY <1>13, <1>14, <1>15, <1>16, <1>17 DEF Reported, ev, l, m, n, s

-----------------------------------------------------------------------------
(* Types.                                                                  *)

Basics == TypeOK /\ RepeatOk /\ PolledOrRecovering /\ NotifyIsSignalled

(* The members of a queue                                                  *)
LEMMA QueueParts ==
  ASSUME NEW Item
  PROVE  /\ \A i \in Slots : After(i) \in Slots
         /\ \A q \in Queue(Item) : /\ q.head \in Slots /\ q.tail \in Slots
                                   /\ \A i \in Slots : q.buf[i] \in Item
                                   /\ q = [head |-> q.head, tail |-> q.tail, buf |-> q.buf]
         /\ \A q \in Queue(Item), i \in Slots : [q EXCEPT !.head = i] \in Queue(Item)
         /\ \A q \in Queue(Item), i \in Slots : [q EXCEPT !.tail = i] \in Queue(Item)
         /\ \A q \in Queue(Item), i \in Slots, x \in Item : [q EXCEPT !.buf[i] = x] \in Queue(Item)
<1>1. \A i \in Slots : After(i) \in Slots
  BY QueueSizeAssumption DEF After, Slots
<1>2. \A q \in Queue(Item) : /\ q.head \in Slots /\ q.tail \in Slots
                             /\ q.buf \in [Slots -> Item]
                             /\ q = [head |-> q.head, tail |-> q.tail, buf |-> q.buf]
  BY DEF Queue
<1>3. \A q \in Queue(Item), i \in Slots : /\ [q EXCEPT !.head = i] \in Queue(Item)
                                          /\ [q EXCEPT !.tail = i] \in Queue(Item)
  BY DEF Queue
<1>4. ASSUME NEW q \in Queue(Item), NEW i \in Slots, NEW x \in Item
      PROVE  [q EXCEPT !.buf[i] = x] \in Queue(Item)
  <2>1. [q.buf EXCEPT ![i] = x] \in [Slots -> Item]
    BY <1>2
  <2> DEFINE f == [q.buf EXCEPT ![i] = x]
  <2> HIDE DEF f
  <2>2. [q EXCEPT !.buf = f] \in Queue(Item)
    BY <2>1 DEF Queue, f
  <2>3. [q EXCEPT !.buf[i] = x] = [q EXCEPT !.buf = f]
    BY DEF f, Queue
  <2> QED
    BY <2>2, <2>3
<1> QED
  BY <1>1, <1>2, <1>3, <1>4

(* The letter that the timer's handler takes, if it does                   *)
LEMMA LastParsed ==
  ASSUME NEW q \in Queue(UsbKeys), NEW k, Parses(q, k), Parsed(q) # <<>>
  PROVE  /\ k \in 1 .. Count(q) /\ Len(Parsed(q)) = k /\ Last(Parsed(q)) = Contents(q)[k]
         /\ Contents(q)[k] \in UsbKeys
<1> DEFINE c == Contents(q)
<1>1. k \in 0 .. Count(q) /\ Parsed(q) = SubSeq(c, 1, k)
  BY DEF Parses
<1>2. c \in Seq(UsbKeys) /\ Len(c) = Count(q) /\ Count(q) \in Nat
  BY CountIs, QueueSizeAssumption
<1> HIDE DEF c
<1>3. SubSeq(c, 1, k) \in Seq(UsbKeys) /\ Len(SubSeq(c, 1, k)) = k /\ (k > 0 => Last(SubSeq(c, 1, k)) = c[k])
  BY <1>1, <1>2, Prefix
<1>4. k # 0
  BY <1>1, <1>3
<1>5. c[k] \in UsbKeys
  BY <1>1, <1>2, <1>4
<1> QED
  BY <1>1, <1>2, <1>3, <1>4, <1>5 DEF c

(* TimerHandler takes events out of UsbKeyQueue, and adds one key to       *)
(* EfiKeyQueue.                                                            *)
LEMMA TimerTypes ==
  ASSUME TypeOK, TimerHandler
  PROVE  /\ usbq' \in Queue(UsbKeys) /\ efiq' \in Queue(KeyData) /\ ntfq' \in Queue(KeyData)
         /\ shift' \in BOOLEAN
         /\ ~IsQueueEmpty(ntfq') => ~IsQueueEmpty(ntfq) \/ "KeyNotifyProcessEvent" \in timer'
<1> DEFINE ks == Parsed(usbq)
           on == ShiftAfter(ks, shift)
           key == Convert(Last(ks), on)
<1>1. usbq \in Queue(UsbKeys) /\ efiq \in Queue(KeyData) /\ ntfq \in Queue(KeyData) /\ shift \in BOOLEAN
  BY DEF TypeOK
<1>2. PICK k : Parses(usbq, k)
  BY <1>1, Parsing
<1>3. /\ ks # <<>> /\ usbq' = Popped(usbq, ks) /\ shift' = on
      /\ \/ UNCHANGED <<efiq, ntfq, timer>>
         \/ /\ Last(ks).code \in Letters
            /\ efiq' = Enqueue(efiq, key) /\ ntfq' = EnqueueAll(ntfq, Matches(key))
            /\ timer' = timer \cup SignalFor(key)
  BY DEF TimerHandler
<1>4. k \in 1 .. Count(usbq) /\ Len(ks) = k /\ Last(ks) \in UsbKeys
  BY <1>1, <1>2, <1>3, LastParsed
<1>5. usbq' \in Queue(UsbKeys)
  <2>1. k \in 0 .. Count(usbq)
    BY <1>4
  <2>2. usbq' = [usbq EXCEPT !.head = (@ + k) % (MaxKeys + 1)]
    BY <1>3, <1>4 DEF Popped
  <2> HIDE DEF ks
  <2> QED
    BY <1>1, <2>1, <2>2, Taken
<1>6. on \in BOOLEAN
  BY <1>1, <1>2, ParsedDecides
<1> HIDE DEF on, ks
<1>7. CASE UNCHANGED <<efiq, ntfq, timer>>
  BY <1>1, <1>3, <1>5, <1>6, <1>7
<1>8. CASE /\ Last(ks).code \in Letters
           /\ efiq' = Enqueue(efiq, key) /\ ntfq' = EnqueueAll(ntfq, Matches(key))
           /\ timer' = timer \cup SignalFor(key)
  <2>1. key \in KeyData
    BY <1>4, <1>6, <1>8 DEF Convert, UsbKeys, KeyData
  <2> HIDE DEF key
  <2>2. efiq' \in Queue(KeyData)
    BY <1>1, <1>8, <2>1, Enqueued
  <2> DEFINE S == {g \in Fns : Watched[g] = key.code}
  <2>3. Matches(key) = [f \in 1 .. Cardinality(S) |-> key]
    BY DEF Matches
  <2>4. Cardinality(S) \in Nat
    BY KeyboardAssumption, FS_Subset, FS_CardinalityType
  <2> HIDE DEF S
  <2>5. Matches(key) \in Seq(KeyData)
    BY <2>1, <2>3, <2>4
  <2>6. ntfq' \in Queue(KeyData) /\ Given(ntfq, ntfq', Matches(key), Len(Matches(key)))
    BY <1>1, <1>8, <2>5, AllEnqueued
  <2>7. CASE Matches(key) = <<>>
    <3>1. Count(ntfq') = Count(ntfq)
      <4>1. Count(ntfq) \in 0 .. MaxKeys /\ MaxKeys \in Nat
        BY <1>1, CountIs, QueueSizeAssumption
      <4>2. Len(Matches(key)) = 0
        BY <2>7
      <4>3. Given(ntfq, ntfq', Matches(key), 0)
        BY <2>6, <4>2
      <4> QED
        BY <4>1, <4>3 DEF Given
    <3>2. IsQueueEmpty(ntfq) <=> Count(ntfq) = 0
      BY <1>1, CountIs
    <3>3. IsQueueEmpty(ntfq') <=> Count(ntfq') = 0
      BY <2>6, CountIs
    <3> QED
      BY <1>3, <1>5, <1>6, <2>2, <2>6, <3>1, <3>2, <3>3
  <2>8. CASE Matches(key) # <<>>
    <3>1. "KeyNotifyProcessEvent" \in timer'
      BY <1>8, <2>8 DEF SignalFor
    <3> QED
      BY <1>3, <1>5, <1>6, <2>2, <2>6, <3>1
  <2> QED
    BY <2>7, <2>8
<1> QED
  BY <1>3, <1>7, <1>8

(* The report of a keyboard keeps the types; its presses are counted.      *)
LEMMA ReportTypes ==
  ASSUME TypeOK, NEW now \in SUBSET Codes, Report(now)
  PROVE  /\ usbq' \in Queue(UsbKeys) /\ last' = now
         /\ repeat' \in (now \cap Letters) \cup {repeat} \cup {None}
         /\ repeat' \in now \/ repeat' = None \/ (repeat' = repeat /\ repeat \notin Released(now))
         /\ "RepeatTimer" \in timer' => repeat' \in now \/ "RepeatTimer" \in timer
         /\ timer' \subseteq Events
         /\ "DelayedRecoveryEvent" \in timer' <=> "DelayedRecoveryEvent" \in timer
         /\ "KeyNotifyProcessEvent" \in timer' <=> "KeyNotifyProcessEvent" \in timer
         /\ count' \in [presses : 0 .. MaxPresses, reports : 0 .. MaxReports]
         /\ cb.pc # "idle" => count'.presses < MaxPresses
         /\ count'.presses >= count.presses
         /\ happened' \subseteq Mishaps /\ happened \subseteq happened'
<1>1. PICK mods \in SetToSeqs(Changed(now)), ups \in SetToSeqs(Released(now) \cap Letters),
           downs \in SetToSeqs(Pressed(now) \cap Letters) :
             LET events == KeyEvents(now, mods, ups, downs)
             IN /\ usbq' = EnqueueAll(usbq, events)
                /\ repeat' = RepeatAfter(now, downs)
                /\ timer' = RepeatTimerAfter(now, downs)
                /\ last' = now
                /\ count' = [count EXCEPT !.presses = @ + Len(downs), !.reports = @ + 1]
                /\ happened' = happened \cup ReportMishaps(now, events)
  BY Zenon DEF Report, Changed
<1> DEFINE ev == KeyEvents(now, mods, ups, downs)
<1>2. /\ count.presses + Cardinality(Pressed(now) \cap Letters) + (IF Repeating THEN 1 ELSE 0) <= MaxPresses
      /\ count.reports < MaxReports
  BY DEF Report
<1>3. /\ count.presses \in 0 .. MaxPresses /\ count.reports \in 0 .. MaxReports
      /\ MaxPresses \in Nat /\ MaxReports \in Nat /\ last \in SUBSET Codes
      /\ usbq \in Queue(UsbKeys) /\ timer \subseteq Events /\ happened \subseteq Mishaps
  BY KeyboardAssumption DEF TypeOK
<1>4. Cardinality(Pressed(now) \cap Letters) \in Nat
  <2>1. Pressed(now) \cap Letters \subseteq Codes
    BY DEF Pressed
  <2> QED
    BY <2>1, KeyboardAssumption, FS_Subset, FS_CardinalityType
<1>5. count.presses + Cardinality(Pressed(now) \cap Letters) <= MaxPresses
  BY <1>2, <1>3, <1>4
<1>6. Reported(now, mods, ups, downs, ev)
  BY <1>5, Events3
<1>7. ev \in Seq(UsbKeys) /\ Len(downs) = Cardinality(Pressed(now) \cap Letters)
  BY <1>6 DEF Reported
<1>8. usbq' \in Queue(UsbKeys)
  <2> HIDE DEF ev
  <2>1. usbq' = EnqueueAll(usbq, ev)
    BY <1>1 DEF ev
  <2> QED
    BY <1>3, <1>7, <2>1, AllEnqueued
<1>9. downs # <<>> => Last(downs) \in now \cap Letters
  <2>1. /\ Len(downs) \in Nat /\ \A i \in 1 .. Len(downs) : downs[i] \in Letters \cap now
    BY <1>6 DEF Reported
  <2>2. downs # <<>> => Len(downs) # 0
    <3>1. downs \in Seq(Pressed(now) \cap Letters)
      <4>1. IsFiniteSet(Pressed(now) \cap Letters)
        BY KeyboardAssumption, FS_Subset DEF Pressed
      <4> QED
        BY <4>1, Ordered
    <3> QED
      BY <3>1
  <2> QED
    BY <2>1, <2>2 DEF Last
<1>10. /\ repeat' \in (now \cap Letters) \cup {repeat} \cup {None}
       /\ repeat' \in now \/ repeat' = None \/ (repeat' = repeat /\ repeat \notin Released(now))
  BY <1>1, <1>9 DEF RepeatAfter
<1>11. /\ "RepeatTimer" \in timer' => repeat' \in now \/ "RepeatTimer" \in timer
       /\ timer' \subseteq Events
       /\ "DelayedRecoveryEvent" \in timer' <=> "DelayedRecoveryEvent" \in timer
       /\ "KeyNotifyProcessEvent" \in timer' <=> "KeyNotifyProcessEvent" \in timer
  <2>2. downs # <<>> => repeat' \in now
    BY <1>1, <1>9 DEF RepeatAfter
  <2>3. timer' = RepeatTimerAfter(now, downs)
    BY <1>1
  <2> QED
    BY <1>3, <2>2, <2>3 DEF RepeatTimerAfter, Armed, Closed, Events
<1>12. /\ count' \in [presses : 0 .. MaxPresses, reports : 0 .. MaxReports]
       /\ cb.pc # "idle" => count'.presses < MaxPresses
       /\ count'.presses >= count.presses
  <2>1. /\ count.presses + Len(downs) \in 0 .. MaxPresses /\ count.reports + 1 \in 0 .. MaxReports
        /\ count.presses + Len(downs) >= count.presses
        /\ cb.pc # "idle" => count.presses + Len(downs) < MaxPresses
    <3>1. cb.pc # "idle" => count.presses + Cardinality(Pressed(now) \cap Letters) + 1 <= MaxPresses
      BY <1>2 DEF Repeating
    <3> HIDE DEF ev
    <3> QED
      BY <1>2, <1>3, <1>4, <1>5, <1>7, <3>1
  <2>2. count \in [presses : 0 .. MaxPresses, reports : 0 .. MaxReports]
    BY DEF TypeOK
  <2>3. count' = [presses |-> count.presses + Len(downs), reports |-> count.reports + 1]
    BY <1>1, <2>2
  <2> QED
    BY <2>1, <2>3
<1>13. happened' \subseteq Mishaps /\ happened \subseteq happened'
  BY <1>1, <1>3 DEF ReportMishaps, Mishap, Mishaps
<1> QED
  BY <1>1, <1>8, <1>10, <1>11, <1>12, <1>13

(* The handlers at the highest level keep what holds for good.             *)
LEMMA BasicsAtNotify ==
  ASSUME Basics, AtNotify
  PROVE  Basics'
<1> USE DEF Basics
<1>1. ASSUME NEW now \in SUBSET Codes, Report(now)
      PROVE  Basics'
  <2>1. /\ transfer /\ UNCHANGED <<shift, efiq, ntfq, transfer, cb, app, read>>
    BY <1>1 DEF Report
  <2>2. /\ usbq' \in Queue(UsbKeys) /\ last' = now
        /\ repeat' \in (now \cap Letters) \cup {repeat} \cup {None}
        /\ timer' \subseteq Events /\ happened' \subseteq Mishaps
        /\ count' \in [presses : 0 .. MaxPresses, reports : 0 .. MaxReports]
    BY <1>1, ReportTypes
  <2>3. /\ repeat' \in now \/ repeat' = None \/ (repeat' = repeat /\ repeat \notin Released(now))
        /\ "RepeatTimer" \in timer' => repeat' \in now \/ "RepeatTimer" \in timer
        /\ "DelayedRecoveryEvent" \in timer' <=> "DelayedRecoveryEvent" \in timer
        /\ "KeyNotifyProcessEvent" \in timer' <=> "KeyNotifyProcessEvent" \in timer
        /\ cb.pc # "idle" => count'.presses < MaxPresses
        /\ happened \subseteq happened'
    BY <1>1, ReportTypes
  <2>4. TypeOK'
    BY <1>1, <2>1, <2>2 DEF TypeOK
  <2>5. "garbled" \notin happened' => cb.pc \notin {"copy", "tail"}
    <3>1. PICK ev : happened' = happened \cup ReportMishaps(now, ev)
      BY <1>1 DEF Report
    <3> QED
      BY <3>1 DEF ReportMishaps, Mishap
  <2>6. repeat' \in last' \cup {None} \/ ("RepeatTimer" \notin timer' /\ cb'.pc = "idle")
    BY <1>1, <2>1, <2>2, <2>3 DEF RepeatOk, Released
  <2>7. RepeatOk'
    BY <2>1, <2>3, <2>5, <2>6 DEF RepeatOk, Writing
  <2>8. NotifyIsSignalled'
    BY <2>1, <2>3 DEF Stopping, NotifyIsSignalled, IsQueueEmpty
  <2>9. PolledOrRecovering'
    <3>1. /\ "cut" \in happened' <=> "cut" \in happened
          /\ "failed" \in happened' <=> "failed" \in happened
      <4>1. PICK ev : happened' = happened \cup ReportMishaps(now, ev)
        BY <1>1 DEF Report
      <4> QED
        BY <4>1 DEF ReportMishaps, Mishap
    <3> QED
      BY <2>1, <2>3, <3>1 DEF PolledOrRecovering, Stopping, No
  <2> QED
    BY <2>4, <2>7, <2>8, <2>9
<1>2. ASSUME ReportError
      PROVE  Basics'
  <2>1. /\ transfer /\ transfer' = FALSE /\ repeat' = None
        /\ timer' = Armed("DelayedRecoveryEvent") \ {"RepeatTimer"}
        /\ happened' = happened \cup Mishap("cut", "DelayedRecoveryEvent" \notin timer')
        /\ UNCHANGED <<last, shift, usbq, efiq, ntfq, cb, app, count, read>>
    BY <1>2 DEF ReportError, queues
  <2>2. timer' \subseteq Events /\ happened' \subseteq Mishaps
    BY <2>1 DEF TypeOK, Armed, Events, Mishap, Mishaps
  <2>3. TypeOK'
    BY <2>1, <2>2 DEF TypeOK
  <2>4. /\ "KeyNotifyProcessEvent" \in timer' <=> "KeyNotifyProcessEvent" \in timer
        /\ \A m \in {"garbled", "failed"} : m \in happened' <=> m \in happened
        /\ "cut" \in happened' <=> "cut" \in happened \/ "DelayedRecoveryEvent" \notin timer'
    BY <2>1 DEF Armed, Mishap
  <2>5. RepeatOk'
    BY <2>1, <2>4 DEF RepeatOk, Writing
  <2>6. NotifyIsSignalled'
    BY <2>1, <2>4 DEF Stopping, NotifyIsSignalled, IsQueueEmpty
  <2>7. PolledOrRecovering'
    BY <2>1, <2>4 DEF PolledOrRecovering, Stopping, No
  <2> QED
    BY <2>3, <2>5, <2>6, <2>7
<1>3. ASSUME NEW b \in BOOLEAN, Recover(b)
      PROVE  Basics'
  <2>1. /\ "DelayedRecoveryEvent" \in timer /\ timer' = timer \ {"DelayedRecoveryEvent"} /\ transfer' = b
        /\ happened' = happened \cup Mishap("failed", ~b)
        /\ UNCHANGED <<last, repeat, shift, usbq, efiq, ntfq, cb, app, count, read>>
    BY <1>3 DEF Recover, queues
  <2>2. app.pc # "gone"
    BY DEF AtNotify
  <2>3. TypeOK'
    <3>1. happened' \subseteq Mishaps
      BY <2>1 DEF TypeOK, Mishap, Mishaps
    <3> QED
      BY <2>1, <3>1 DEF TypeOK
  <2>4. /\ \A m \in {"garbled", "cut"} : m \in happened' <=> m \in happened
        /\ "failed" \in happened' <=> "failed" \in happened \/ ~b
    BY <2>1 DEF Mishap
  <2>5. RepeatOk'
    BY <2>1, <2>4 DEF RepeatOk, Writing
  <2>6. NotifyIsSignalled'
    BY <2>1, <2>2, <2>4 DEF Stopping, NotifyIsSignalled, IsQueueEmpty
  <2>7. PolledOrRecovering'
    BY <2>1, <2>4 DEF PolledOrRecovering, Stopping, No
  <2> QED
    BY <2>3, <2>5, <2>6, <2>7
<1>4. ASSUME TimerHandler
      PROVE  Basics'
  <2>1. /\ usbq' \in Queue(UsbKeys) /\ efiq' \in Queue(KeyData) /\ ntfq' \in Queue(KeyData)
        /\ shift' \in BOOLEAN
        /\ ~IsQueueEmpty(ntfq') => ~IsQueueEmpty(ntfq) \/ "KeyNotifyProcessEvent" \in timer'
    BY <1>4, TimerTypes
  <2>2. /\ UNCHANGED <<last, repeat, transfer, cb, app, count, read>>
        /\ timer \subseteq timer' /\ timer' \subseteq timer \cup {"KeyNotifyProcessEvent"}
        /\ happened \subseteq happened' /\ happened' \subseteq happened \cup {"dropped", "overrun"}
    <3>1. \/ UNCHANGED <<timer, happened>>
          \/ /\ \E key : timer' = timer \cup SignalFor(key)
             /\ \E c, d : happened' = happened \cup Mishap("dropped", d) \cup Mishap("overrun", c)
      BY <1>4 DEF TimerHandler
    <3>2. UNCHANGED <<last, repeat, transfer, cb, app, count, read>>
      BY <1>4 DEF TimerHandler
    <3> QED
      BY <3>1, <3>2 DEF SignalFor, Mishap
  <2>3. TypeOK'
    BY <2>1, <2>2 DEF TypeOK, Events, Mishaps
  <2>4. Writing => usbq'.tail = usbq.tail /\ usbq'.buf = usbq.buf
    <3>1. usbq \in Queue(UsbKeys)
      BY DEF TypeOK
    <3> QED
      BY <1>4, <3>1 DEF TimerHandler, Popped, Queue
  <2>5. RepeatOk'
    BY <2>2, <2>4 DEF RepeatOk, Writing
  <2>6. NotifyIsSignalled' /\ PolledOrRecovering'
    BY <2>1, <2>2 DEF Stopping, NotifyIsSignalled, PolledOrRecovering, No
  <2> QED
    BY <2>3, <2>5, <2>6
<1> QED
  BY <1>1, <1>2, <1>3, <1>4 DEF AtNotify

(* The handlers at TPL_CALLBACK keep what holds for good.                  *)
LEMMA BasicsAtCallback ==
  ASSUME Basics, AtCallback
  PROVE  Basics'
<1> USE DEF Basics
<1>1. /\ usbq \in Queue(UsbKeys) /\ ntfq \in Queue(KeyData) /\ repeat \in Letters \cup {None}
      /\ cb.pc \in {"idle", "load", "drop", "slot", "copy", "tail"} /\ cb.slot \in Slots /\ cb.item \in UsbKeys
      /\ cb = [pc |-> cb.pc, slot |-> cb.slot, item |-> cb.item]
      /\ count.presses \in 0 .. MaxPresses /\ count.reports \in 0 .. MaxReports
      /\ count = [presses |-> count.presses, reports |-> count.reports]
      /\ MaxPresses \in Nat /\ MaxReports \in Nat /\ 0 \in 0 .. MaxPresses
  BY KeyboardAssumption DEF TypeOK
<1>2. None \in Codes \cup {None} /\ Letters \subseteq Codes /\ Waiting.item \in UsbKeys /\ 0 \in Slots
  <2>1. MaxKeys \in Nat
    BY QueueSizeAssumption
  <2> QED
    BY <1>1, <2>1 DEF Codes, Waiting, NoUsbKey, UsbKey, UsbKeys, Slots
<1>3. ASSUME RepeatFires
      PROVE  Basics'
  <2>1. /\ cb.pc = "idle" /\ "RepeatTimer" \in timer /\ count.presses < MaxPresses
        /\ timer' = timer \ {"RepeatTimer"}
        /\ cb' = [cb EXCEPT !.pc = IF repeat # None THEN "load" ELSE "idle"]
        /\ UNCHANGED <<last, repeat, shift, usbq, efiq, ntfq, transfer, app, count, read, happened>>
    BY <1>3 DEF RepeatFires, Goto, queues
  <2>2. cb' = [pc |-> IF repeat # None THEN "load" ELSE "idle", slot |-> cb.slot, item |-> cb.item]
    BY <1>1, <2>1
  <2>3. TypeOK'
    BY <1>1, <2>1, <2>2 DEF TypeOK
  <2>4. RepeatOk'
    BY <2>1, <2>2 DEF RepeatOk, Writing
  <2>5. NotifyIsSignalled' /\ PolledOrRecovering'
    BY <2>1 DEF Stopping, NotifyIsSignalled, PolledOrRecovering, No
  <2> QED
    BY <2>3, <2>4, <2>5
<1>4. ASSUME RepeatLoad
      PROVE  Basics'
  <2>1. /\ cb.pc = "load"
        /\ cb' = [cb EXCEPT !.pc = IF IsQueueFull(usbq) THEN "drop" ELSE "slot",
                            !.item = UsbKey(repeat, TRUE, 0, FALSE)]
        /\ UNCHANGED <<last, repeat, shift, usbq, efiq, ntfq, timer, transfer, app, count, read, happened>>
    BY <1>4 DEF RepeatLoad, queues
  <2>2. UsbKey(repeat, TRUE, 0, FALSE) \in UsbKeys
    BY <1>1, <1>2 DEF UsbKey, UsbKeys
  <2>3. /\ cb'.pc \in {"drop", "slot"} /\ cb'.slot = cb.slot /\ cb'.item = UsbKey(repeat, TRUE, 0, FALSE)
        /\ cb' = [pc |-> cb'.pc, slot |-> cb'.slot, item |-> cb'.item]
    BY <1>1, <2>1
  <2>4. TypeOK'
    BY <1>1, <2>1, <2>2, <2>3 DEF TypeOK
  <2>5. RepeatOk'
    BY <1>1, <2>1, <2>3 DEF RepeatOk, Writing, UsbKey
  <2>6. NotifyIsSignalled' /\ PolledOrRecovering'
    BY <2>1 DEF Stopping, NotifyIsSignalled, PolledOrRecovering, No
  <2> QED
    BY <2>4, <2>5, <2>6
<1>5. ASSUME RepeatDrop
      PROVE  Basics'
  <2>1. /\ cb.pc = "drop" /\ usbq' = Drop(usbq) /\ cb' = [cb EXCEPT !.pc = "slot"]
        /\ happened' = happened \cup Mishap("lost", First(usbq).code \in Shifts)
                                \cup Mishap("dropped", First(usbq).n # 0)
                                \cup Mishap("garbled", IsQueueEmpty(usbq))
        /\ UNCHANGED <<last, repeat, shift, efiq, ntfq, timer, transfer, app, count, read>>
    BY <1>5 DEF RepeatDrop, Goto
  <2>2. usbq' \in Queue(UsbKeys)
    <3>1. usbq.head \in Slots /\ After(usbq.head) \in Slots
      BY <1>1, QueueParts
    <3>2. usbq' = [usbq EXCEPT !.head = After(usbq.head)]
      BY <2>1 DEF Drop
    <3> QED
      BY <1>1, <3>1, <3>2, QueueParts
  <2>3. cb' = [pc |-> "slot", slot |-> cb.slot, item |-> cb.item]
    BY <1>1, <2>1
  <2>4. happened \subseteq happened' /\ happened' \subseteq happened \cup {"lost", "dropped", "garbled"}
    BY <2>1 DEF Mishap
  <2>5. TypeOK'
    BY <1>1, <2>1, <2>2, <2>3, <2>4 DEF TypeOK, Mishaps
  <2>6. RepeatOk'
    BY <1>1, <2>1, <2>3 DEF RepeatOk, Writing
  <2>7. NotifyIsSignalled' /\ PolledOrRecovering'
    BY <2>1, <2>4 DEF Stopping, NotifyIsSignalled, PolledOrRecovering, No
  <2> QED
    BY <2>5, <2>6, <2>7
<1>6. ASSUME RepeatSlot
      PROVE  Basics'
  <2> DEFINE real == IF cb.item.code = None THEN 0 ELSE 1
             item == UsbKey(cb.item.code, TRUE, (count.presses + 1) * real, last \cap Shifts # {})
  <2>1. /\ cb.pc = "slot" /\ cb' = [pc |-> "copy", slot |-> usbq.tail, item |-> item]
        /\ count' = [count EXCEPT !.presses = @ + real]
        /\ happened' = happened \cup Mishap("lost", app.pc \in {"flags", "last"})
        /\ UNCHANGED <<last, repeat, shift, usbq, efiq, ntfq, timer, transfer, app, read>>
    BY <1>6 DEF RepeatSlot, queues
  <2>2. count.presses < MaxPresses /\ cb.item.code \in Letters \cup {None}
    BY <2>1 DEF RepeatOk
  <2>3. (count.presses + 1) * real \in 0 .. MaxPresses /\ count.presses + real \in 0 .. MaxPresses
    BY <1>1, <2>2
  <2>4. item \in UsbKeys /\ item.code = cb.item.code /\ item.down
    <3> DEFINE s == last \cap Shifts # {}
               n == (count.presses + 1) * real
               c == cb.item.code
    <3>1. s \in BOOLEAN /\ n \in 0 .. MaxPresses /\ c \in Codes \cup {None}
      BY <1>2, <2>2, <2>3
    <3> HIDE DEF s, n, c
    <3>2. UsbKey(c, TRUE, n, s) \in UsbKeys /\ UsbKey(c, TRUE, n, s).code = c /\ UsbKey(c, TRUE, n, s).down
      BY <3>1 DEF UsbKey, UsbKeys
    <3> QED
      BY <3>2 DEF s, n, c
  <2>5. usbq.tail \in Slots
    BY <1>1, QueueParts
  <2>6. count' = [presses |-> count.presses + real, reports |-> count.reports]
    BY <1>1, <2>1
  <2>7. happened \subseteq happened' /\ happened' \subseteq happened \cup {"lost"}
    BY <2>1 DEF Mishap
  <2> HIDE DEF real, item
  <2>8. TypeOK'
    BY <1>1, <2>1, <2>3, <2>4, <2>5, <2>6, <2>7 DEF TypeOK, Mishaps
  <2>9. RepeatOk'
    BY <1>1, <2>1, <2>2, <2>4 DEF RepeatOk, Writing
  <2>10. NotifyIsSignalled' /\ PolledOrRecovering'
    BY <2>1, <2>7 DEF Stopping, NotifyIsSignalled, PolledOrRecovering, No
  <2> QED
    BY <2>8, <2>9, <2>10
<1>7. ASSUME RepeatCopy
      PROVE  Basics'
  <2>1. /\ cb.pc = "copy" /\ usbq' = [usbq EXCEPT !.buf[cb.slot] = cb.item] /\ cb' = [cb EXCEPT !.pc = "tail"]
        /\ UNCHANGED <<last, repeat, shift, efiq, ntfq, timer, transfer, app, count, read, happened>>
    BY <1>7 DEF RepeatCopy, Goto
  <2>2. usbq' \in Queue(UsbKeys)
    BY <1>1, <2>1, QueueParts
  <2>3. cb' = [pc |-> "tail", slot |-> cb.slot, item |-> cb.item]
    BY <1>1, <2>1
  <2>4. TypeOK'
    BY <1>1, <2>1, <2>2, <2>3 DEF TypeOK
  <2>5. usbq'.tail = usbq.tail /\ usbq'.buf[cb.slot] = cb.item
    BY <1>1, <2>1 DEF Queue
  <2>6. RepeatOk'
    BY <1>1, <2>1, <2>3, <2>5 DEF RepeatOk, Writing
  <2>7. NotifyIsSignalled' /\ PolledOrRecovering'
    BY <2>1 DEF Stopping, NotifyIsSignalled, PolledOrRecovering, No
  <2> QED
    BY <2>4, <2>6, <2>7
<1>8. ASSUME RepeatEnds
      PROVE  Basics'
  <2>1. /\ cb.pc = "tail" /\ usbq' = [usbq EXCEPT !.tail = After(@)] /\ cb' = Waiting
        /\ timer' = Armed("RepeatTimer")
        /\ happened' = happened \cup Mishap("garbled", IsQueueFull(usbq))
        /\ UNCHANGED <<last, repeat, shift, efiq, ntfq, transfer, app, count, read>>
    BY <1>8 DEF RepeatEnds
  <2>2. usbq' \in Queue(UsbKeys)
    <3>1. usbq.tail \in Slots /\ After(usbq.tail) \in Slots
      BY <1>1, QueueParts
    <3>2. usbq' = [usbq EXCEPT !.tail = After(usbq.tail)]
      BY <2>1
    <3> QED
      BY <1>1, <3>1, <3>2, QueueParts
  <2>3. cb'.pc = "idle" /\ cb'.item.code = None /\ cb'.item = Waiting.item
        /\ cb' = [pc |-> "idle", slot |-> 0, item |-> Waiting.item]
    BY <2>1 DEF Waiting, NoUsbKey, UsbKey
  <2>4. happened \subseteq happened' /\ happened' \subseteq happened \cup {"garbled"}
    BY <2>1 DEF Mishap
  <2>5. timer \subseteq timer' /\ timer' \subseteq timer \cup {"RepeatTimer"}
    BY <2>1 DEF Armed
  <2>6. TypeOK'
    BY <1>1, <1>2, <2>1, <2>2, <2>3, <2>4, <2>5 DEF TypeOK, Mishaps, Events
  <2>7. RepeatOk'
    BY <1>1, <2>1, <2>3, <2>5 DEF RepeatOk, Writing
  <2>8. NotifyIsSignalled' /\ PolledOrRecovering'
    BY <2>1, <2>4, <2>5 DEF Stopping, NotifyIsSignalled, PolledOrRecovering, No
  <2> QED
    BY <2>6, <2>7, <2>8
<1>9. ASSUME NotifyHandler
      PROVE  Basics'
  <2>1. /\ cb.pc = "idle" /\ timer' = timer \ {"KeyNotifyProcessEvent"}
        /\ ntfq' = [ntfq EXCEPT !.head = ntfq.tail]
        /\ UNCHANGED <<last, repeat, shift, usbq, efiq, transfer, cb, app, count, read, happened>>
    BY <1>9 DEF NotifyHandler
  <2>2. ntfq' \in Queue(KeyData) /\ IsQueueEmpty(ntfq')
    BY <1>1, <2>1 DEF IsQueueEmpty, Queue
  <2>3. TypeOK'
    BY <2>1, <2>2 DEF TypeOK
  <2>4. RepeatOk'
    BY <2>1 DEF RepeatOk, Writing
  <2>5. NotifyIsSignalled' /\ PolledOrRecovering'
    BY <2>1, <2>2 DEF Stopping, NotifyIsSignalled, PolledOrRecovering, No
  <2> QED
    BY <2>3, <2>4, <2>5
<1> QED
  BY <1>3, <1>4, <1>5, <1>6, <1>7, <1>8, <1>9 DEF AtCallback, RepeatHandler

(* New queues                                                              *)
LEMMA NewQueues ==
  /\ NewQueue(NoUsbKey) \in Queue(UsbKeys) /\ Count(NewQueue(NoUsbKey)) = 0
  /\ NewQueue(NoKey) \in Queue(KeyData) /\ Count(NewQueue(NoKey)) = 0
  /\ IsQueueEmpty(NewQueue(NoKey))
  /\ \A i \in Slots : NewQueue(NoKey).buf[i] = NoKey
<1>1. NoUsbKey \in UsbKeys /\ NoKey \in KeyData
  BY KeyboardAssumption DEF NoUsbKey, UsbKey, UsbKeys, NoKey, KeyData
<1>2. IsQueueEmpty(NewQueue(NoKey)) /\ \A i \in Slots : NewQueue(NoKey).buf[i] = NoKey
  BY DEF IsQueueEmpty, NewQueue
<1> QED
  BY <1>1, <1>2, NewIsEmpty

(* The calls of a client keep what holds for good.                         *)
LEMMA BasicsOfClient ==
  ASSUME Basics, Client
  PROVE  Basics'
<1> USE DEF Basics
<1>1. /\ usbq \in Queue(UsbKeys) /\ efiq \in Queue(KeyData) /\ ntfq \in Queue(KeyData)
      /\ app = [pc |-> app.pc, slot |-> app.slot, item |-> app.item]
      /\ app.slot \in Slots /\ app.item \in KeyData
      /\ timer \subseteq Events /\ happened \subseteq Mishaps
      /\ count.presses \in 0 .. MaxPresses /\ cb.pc = "idle"
  BY DEF TypeOK, Client
<1>2. NoKey \in KeyData /\ 0 \in Slots /\ Idle = [pc |-> "idle", slot |-> 0, item |-> NoKey]
  BY KeyboardAssumption, QueueSizeAssumption DEF NoKey, KeyData, Slots, Idle
<1>3. ASSUME ReadStarts
      PROVE  Basics'
  <2>1. /\ app.pc = "idle" /\ app' = [app EXCEPT !.pc = "slot", !.slot = efiq.head]
        /\ UNCHANGED <<last, repeat, shift, usbq, efiq, ntfq, timer, transfer, cb, count, read, happened>>
    BY <1>3 DEF ReadStarts, queues
  <2>2. app' = [pc |-> "slot", slot |-> efiq.head, item |-> app.item] /\ efiq.head \in Slots
    BY <1>1, <2>1, QueueParts
  <2>3. TypeOK'
    BY <1>1, <2>1, <2>2 DEF TypeOK
  <2>4. RepeatOk' /\ NotifyIsSignalled' /\ PolledOrRecovering'
    BY <2>1, <2>2 DEF RepeatOk, Writing, Stopping, NotifyIsSignalled, PolledOrRecovering, No
  <2> QED
    BY <2>3, <2>4
<1>4. ASSUME ReadCopies
      PROVE  Basics'
  <2>1. /\ app.pc = "slot" /\ app' = [pc |-> "copied", slot |-> efiq.head, item |-> efiq.buf[app.slot]]
        /\ UNCHANGED <<last, repeat, shift, usbq, efiq, ntfq, timer, transfer, cb, count, read, happened>>
    BY <1>4 DEF ReadCopies, queues
  <2>2. efiq.head \in Slots /\ efiq.buf[app.slot] \in KeyData
    BY <1>1, QueueParts
  <2>3. TypeOK'
    BY <1>1, <2>1, <2>2 DEF TypeOK
  <2>4. RepeatOk' /\ NotifyIsSignalled' /\ PolledOrRecovering'
    BY <2>1 DEF RepeatOk, Writing, Stopping, NotifyIsSignalled, PolledOrRecovering, No
  <2> QED
    BY <2>3, <2>4
<1>5. ASSUME ReadEnds
      PROVE  Basics'
  <2>1. /\ app.pc = "copied" /\ read' = app.item.n /\ app' = Idle
        /\ UNCHANGED <<last, repeat, shift, usbq, ntfq, timer, transfer, cb, count, happened>>
    BY <1>5 DEF ReadEnds
  <2>2. PICK head \in {app.slot, efiq.head} : efiq' = [efiq EXCEPT !.head = After(head)]
    BY <1>5 DEF ReadEnds
  <2>3. After(head) \in Slots
    BY <1>1, QueueParts
  <2>4. efiq' \in Queue(KeyData)
    BY <1>1, <2>2, <2>3, QueueParts
  <2>5. app.item.n \in 0 .. MaxPresses
    BY <1>1 DEF KeyData
  <2>6. TypeOK'
    BY <1>1, <1>2, <2>1, <2>4, <2>5 DEF TypeOK
  <2>7. RepeatOk' /\ NotifyIsSignalled' /\ PolledOrRecovering'
    BY <1>2, <2>1 DEF RepeatOk, Writing, Stopping, NotifyIsSignalled, PolledOrRecovering, No
  <2> QED
    BY <2>6, <2>7
<1>6. ASSUME NEW b \in BOOLEAN, Reset(b)
      PROVE  Basics'
  <2>1. /\ app.pc = "idle" /\ usbq' = NewQueue(NoUsbKey) /\ efiq' = NewQueue(NoKey) /\ ntfq' = NewQueue(NoKey)
        /\ app' = [app EXCEPT !.pc = IF b THEN "flags" ELSE "idle"]
        /\ happened' = happened \cup Mishap("lost", HasShift(Contents(usbq)))
        /\ read' = count.presses
        /\ UNCHANGED <<last, repeat, shift, timer, transfer, cb, count>>
    BY <1>6 DEF Reset, Goto
  <2>2. happened \subseteq happened' /\ happened' \subseteq happened \cup {"lost"}
    BY <2>1 DEF Mishap
  <2>3. app' = [pc |-> IF b THEN "flags" ELSE "idle", slot |-> app.slot, item |-> app.item]
    BY <1>1, <2>1
  <2>4. TypeOK'
    BY <1>1, <2>1, <2>2, <2>3, NewQueues DEF TypeOK, Mishaps
  <2>5. NotifyIsSignalled'
    BY <2>1, NewQueues DEF NotifyIsSignalled
  <2>6. RepeatOk' /\ PolledOrRecovering'
    BY <1>1, <2>1, <2>2, <2>3 DEF RepeatOk, Writing, Stopping, PolledOrRecovering, No
  <2> QED
    BY <2>4, <2>5, <2>6
<1>7. ASSUME InitUSBKeyboard
      PROVE  Basics'
  <2>1. /\ app.pc \in {"flags", "last", "repeat", "recovery"}
        /\ \E p \in {"last", "repeat", "recovery", "idle"} : app' = [app EXCEPT !.pc = p]
        /\ UNCHANGED <<repeat, usbq, efiq, ntfq, transfer, cb, count, read>>
        /\ last' = last \/ (last' = {} /\ "RepeatTimer" \notin timer')
        /\ shift' \in {shift, FALSE} /\ timer' \subseteq timer
        /\ "KeyNotifyProcessEvent" \in timer' <=> "KeyNotifyProcessEvent" \in timer
        /\ happened \subseteq happened' /\ happened' \subseteq happened \cup {"cut"}
        /\ \/ "DelayedRecoveryEvent" \in timer' <=> "DelayedRecoveryEvent" \in timer
           \/ "cut" \in happened' /\ "DelayedRecoveryEvent" \notin timer' /\ "DelayedRecoveryEvent" \in timer
        /\ "cut" \in happened' <=> "cut" \in happened \/
             ("DelayedRecoveryEvent" \in timer /\ "DelayedRecoveryEvent" \notin timer')
    <3>1. CASE ResetFlags
      BY <3>1 DEF ResetFlags, Goto, queues
    <3>2. CASE ResetLast
      BY <3>2 DEF ResetLast, Goto, queues
    <3>3. CASE ResetRecovery
      BY <3>3 DEF ResetRecovery, Goto, queues, Mishap
    <3>4. CASE ResetEnds
      BY <3>4 DEF ResetEnds, Goto, queues
    <3> QED
      BY <1>7, <3>1, <3>2, <3>3, <3>4 DEF InitUSBKeyboard
  <2>2. PICK p \in {"last", "repeat", "recovery", "idle"} : app' = [pc |-> p, slot |-> app.slot, item |-> app.item]
    BY <1>1, <2>1
  <2>3. TypeOK'
    BY <1>1, <2>1, <2>2 DEF TypeOK, Mishaps
  <2>4. RepeatOk'
    BY <1>1, <2>1 DEF RepeatOk, Writing
  <2>5. NotifyIsSignalled'
    BY <2>1, <2>2 DEF Stopping, NotifyIsSignalled
  <2>6. PolledOrRecovering'
    <3>1. ~Stopping /\ transfer \in BOOLEAN
      BY <2>1 DEF Stopping, TypeOK
    <3>2. CASE No({"cut", "failed"})'
      <4>1. No({"cut", "failed"}) /\ ("DelayedRecoveryEvent" \in timer' <=> "DelayedRecoveryEvent" \in timer)
        BY <2>1, <3>2 DEF No
      <4>2. transfer <=> ~("DelayedRecoveryEvent" \in timer)
        BY <3>1, <4>1 DEF PolledOrRecovering
      <4>3. transfer' <=> ~("DelayedRecoveryEvent" \in timer')
        BY <2>1, <4>1, <4>2
      <4>4. transfer' # ("DelayedRecoveryEvent" \in timer')
        BY <2>3, <4>3 DEF TypeOK
      <4> QED
        BY <3>2, <4>4 DEF PolledOrRecovering
    <3>3. CASE ~No({"cut", "failed"})'
      <4>1. ~transfer /\ "DelayedRecoveryEvent" \notin timer'
        <5>1. CASE No({"cut", "failed"})
          <6>1. "DelayedRecoveryEvent" \in timer /\ "DelayedRecoveryEvent" \notin timer'
            BY <2>1, <3>3, <5>1 DEF No
          <6>2. ~transfer
            BY <3>1, <5>1, <6>1 DEF PolledOrRecovering
          <6> QED
            BY <6>1, <6>2
        <5>2. CASE ~No({"cut", "failed"})
          BY <2>1, <3>1, <5>2 DEF PolledOrRecovering
        <5> QED
          BY <5>1, <5>2
      <4> QED
        BY <2>1, <3>3, <4>1 DEF PolledOrRecovering
    <3> QED
      BY <3>2, <3>3
  <2> QED
    BY <2>3, <2>4, <2>5, <2>6
<1>8. ASSUME StopTransfer
      PROVE  Basics'
  <2>1. /\ app.pc = "idle" /\ transfer' = FALSE /\ app' = [app EXCEPT !.pc = "deleted"]
        /\ UNCHANGED <<last, repeat, shift, usbq, efiq, ntfq, timer, cb, count, read, happened>>
    BY <1>8 DEF StopTransfer, Goto, queues
  <2>2. app' = [pc |-> "deleted", slot |-> app.slot, item |-> app.item]
    BY <1>1, <2>1
  <2>3. TypeOK'
    BY <1>1, <2>1, <2>2 DEF TypeOK
  <2>4. RepeatOk' /\ NotifyIsSignalled' /\ PolledOrRecovering'
    BY <2>1, <2>2 DEF RepeatOk, Writing, Stopping, NotifyIsSignalled, PolledOrRecovering, No
  <2> QED
    BY <2>3, <2>4
<1>9. ASSUME StopEnds
      PROVE  Basics'
  <2>1. /\ app.pc = "deleted" /\ app' = [app EXCEPT !.pc = "gone"] /\ timer' = {}
        /\ usbq' = NewQueue(NoUsbKey) /\ efiq' = NewQueue(NoKey) /\ ntfq' = NewQueue(NoKey)
        /\ last' = {} /\ repeat' = None /\ shift' = FALSE /\ read' = count.presses
        /\ UNCHANGED <<transfer, cb, count, happened>>
    BY <1>9 DEF StopEnds, Goto
  <2>2. app' = [pc |-> "gone", slot |-> app.slot, item |-> app.item]
    BY <1>1, <2>1
  <2>3. TypeOK'
    BY <1>1, <2>1, <2>2, NewQueues DEF TypeOK
  <2>4. NotifyIsSignalled'
    BY <2>1, NewQueues DEF NotifyIsSignalled
  <2>5. RepeatOk' /\ PolledOrRecovering'
    BY <1>1, <2>1, <2>2 DEF RepeatOk, Writing, Stopping, PolledOrRecovering, No
  <2> QED
    BY <2>3, <2>4, <2>5
<1> QED
  BY <1>3, <1>4, <1>5, <1>6, <1>7, <1>8, <1>9 DEF Client, ReadKeyStroke, Stop

(* What holds for good does.                                               *)
LEMMA BasicsNext ==
  ASSUME Basics, [Next]_vars
  PROVE  Basics'
<1>1. CASE Next
  BY <1>1, BasicsAtNotify, BasicsAtCallback, BasicsOfClient DEF Next
<1>2. CASE UNCHANGED vars
  BY <1>2 DEF vars, Basics, TypeOK, RepeatOk, Writing, Stopping, NotifyIsSignalled, PolledOrRecovering, No
<1> QED
  BY <1>1, <1>2

-----------------------------------------------------------------------------
(* The shift state and the case of the letters.                            *)

(* The events w lead from the shift state s to h, and each press among them *)
(* to its own                                                              *)
Settled(w, s, h) ==
  /\ Decides(w, s, Len(w), h)
  /\ \A i \in 1 .. Len(w) : Press(w[i]) => Decides(w, s, i - 1, w[i].cap)

(* They do so when the first are taken out.                                *)
LEMMA SettledTaken ==
  ASSUME NEW w \in Seq(UsbKeys), NEW s \in BOOLEAN, NEW h \in BOOLEAN, Settled(w, s, h),
         NEW k \in 0 .. Len(w), NEW t \in BOOLEAN, Decides(w, s, k, t),
         NEW d, Len(d) = Len(w) - k, \A i \in 1 .. Len(d) : d[i] = w[i + k]
  PROVE  Settled(d, t, h)
<1>1. Len(w) \in Nat /\ k \in Nat /\ k <= Len(w) /\ Len(d) \in Nat
  OBVIOUS
<1>2. Decides(d, t, Len(d), h)
  <2>1. Decides(w, s, Len(w), h)
    BY DEF Settled
  <2>2. Agree(d, w, k, Len(d)) /\ Len(d) = Len(w) - k
    BY DEF Agree
  <2> QED
    BY <1>1, <2>1, <2>2, DecidesLater
<1>3. ASSUME NEW i \in 1 .. Len(d), Press(d[i])
      PROVE  Decides(d, t, i - 1, d[i].cap)
  <2>1. d[i] = w[i + k] /\ i + k \in 1 .. Len(w)
    BY <1>1
  <2>2. Decides(w, s, i + k - 1, w[i + k].cap)
    BY <1>3, <2>1 DEF Settled
  <2> DEFINE b == i + k - 1
  <2>3. b \in Nat /\ k <= b /\ b - k = i - 1 /\ \A j \in 1 .. b - k : j \in 1 .. Len(d)
    BY <1>1
  <2>4. w[i + k].cap \in BOOLEAN
    <3>1. w[i + k] \in UsbKeys
      BY <2>1
    <3> QED
      BY <3>1 DEF UsbKeys
  <2> DEFINE v == w[i + k].cap
  <2>5. Decides(w, s, b, v) /\ v \in BOOLEAN
    BY <2>2, <2>4
  <2>8. Press(d[i]) /\ d[i].cap = v
    BY <1>3, <2>1
  <2> HIDE DEF b, v
  <2>6. Agree(d, w, k, b - k)
    BY <2>3 DEF Agree
  <2>7. Decides(d, t, b - k, v)
    <3> DEFINE m == b - k
    <3>1. m = b - k /\ Agree(d, w, k, m)
      BY <2>6
    <3> HIDE DEF m
    <3>2. Decides(d, t, m, v)
      BY <1>1, <2>3, <2>5, <3>1, DecidesLater
    <3> QED
      BY <3>1, <3>2
  <2> QED
    BY <2>3, <2>7, <2>8
<1> QED
  BY <1>2, <1>3 DEF Settled

(* w is u and then x                                                       *)
Follows(w, u, x) == w = u \o x

(* The events of x: l shift keys that lead to the state g, and letters     *)
Tells(x, l, g) ==
  /\ \A i \in 1 .. l : x[i].code \in Shifts /\ (x[i].down <=> g)
  /\ \A i \in l + 1 .. Len(x) : x[i].code \notin Shifts
  /\ \A i \in l + 1 .. Len(x) : Press(x[i]) => (x[i].cap <=> g)

(* They do so when events are put in: l shift keys that were pressed, or l  *)
(* that were released, and then letters.                                   *)
LEMMA SettledJoined ==
  ASSUME NEW u \in Seq(UsbKeys), NEW x \in Seq(UsbKeys), NEW w, Follows(w, u, x),
         NEW s \in BOOLEAN, NEW h \in BOOLEAN, NEW g \in BOOLEAN, Settled(u, s, h),
         NEW l \in 0 .. Len(x), l = 0 => (g <=> h), Tells(x, l, g)
  PROVE  w \in Seq(UsbKeys) /\ Settled(w, s, g)
<1> DEFINE n == Len(u)
           m == Len(x)
<1>1. /\ w \in Seq(UsbKeys) /\ Len(w) = n + m /\ n \in Nat /\ m \in Nat /\ l \in 0 .. m
      /\ \A i \in 1 .. n : w[i] = u[i]
  BY Joined DEF Follows
<1>2. \A i \in 1 .. m : w[i + n] = x[i]
  BY Joined DEF Follows
<1> HIDE DEF n, m
<1>3. /\ \A i \in 1 .. l : x[i].code \in Shifts /\ (x[i].down <=> g)
      /\ \A i \in l + 1 .. m : x[i].code \notin Shifts
      /\ \A i \in l + 1 .. m : Press(x[i]) => (x[i].cap <=> g)
  BY DEF m, Tells
<1>4. \A i \in n + l + 1 .. n + m : w[i].code \notin Shifts
  <2> SUFFICES ASSUME NEW i \in n + l + 1 .. n + m PROVE w[i].code \notin Shifts
    OBVIOUS
  <2>1. i - n \in l + 1 .. m /\ i - n \in 1 .. m /\ (i - n) + n = i
    BY <1>1
  <2> QED
    BY <1>2, <1>3, <2>1
<1>5. \A b \in n + l .. n + m : Decides(w, s, b, g)
  <2> SUFFICES ASSUME NEW b \in n + l .. n + m PROVE Decides(w, s, b, g)
    OBVIOUS
  <2>1. CASE l = 0
    <3>0. g = h
      BY <2>1
    <3>1. Decides(u, s, n, g)
      BY <3>0 DEF Settled, n
    <3>2. b \in Nat /\ n <= b /\ \A i \in n + 1 .. b : i \in n + l + 1 .. n + m
      BY <1>1, <2>1
    <3>3. NoShift(w, n, b)
      BY <1>4, <3>2 DEF NoShift
    <3>4. Agree(w, u, 0, n)
      BY <1>1 DEF Agree
    <3> QED
      BY <1>1, <3>1, <3>2, <3>3, <3>4, DecidesStill
  <2>2. CASE l # 0
    <3> DEFINE i == l + n
    <3>1. l \in 1 .. l /\ l \in 1 .. m /\ i \in 1 .. b /\ \A j \in i + 1 .. b : j \in n + l + 1 .. n + m
      BY <1>1, <2>2
    <3>2. w[i] = x[l]
      BY <1>2, <3>1
    <3>3. w[i].code \in Shifts /\ (w[i].down <=> g)
      BY <1>3, <3>1, <3>2
    <3>4. \A j \in i + 1 .. b : w[j].code \notin Shifts
      BY <1>4, <3>1
    <3> HIDE DEF i
    <3> QED
      BY <3>1, <3>3, <3>4 DEF Decides
  <2> QED
    BY <2>1, <2>2
<1>6. ASSUME NEW i \in 1 .. n + m, Press(w[i])
      PROVE  Decides(w, s, i - 1, w[i].cap)
  <2>1. CASE i <= n
    <3>1. i \in 1 .. n /\ w[i] = u[i] /\ i - 1 \in Nat /\ \A j \in 1 .. i - 1 : j \in 1 .. n
      BY <1>1, <2>1
    <3>2. Decides(u, s, i - 1, u[i].cap)
      BY <1>6, <3>1 DEF Settled, n
    <3>3. \A j \in 1 .. i - 1 : w[j] = u[j]
      BY <1>1, <3>1
    <3> DEFINE b == i - 1
               v == u[i].cap
    <3>5. b \in Nat /\ b <= b /\ NoShift(w, b, b)
      BY <1>1 DEF NoShift
    <3>6. v \in BOOLEAN
      <4>1. u[i] \in UsbKeys
        BY <3>1 DEF n
      <4> QED
        BY <4>1 DEF UsbKeys
    <3>7. Decides(u, s, b, v) /\ Agree(w, u, 0, b) /\ w[i].cap = v
      <4>1. \A j \in 1 .. b : j + 0 = j
        OBVIOUS
      <4> QED
        BY <3>1, <3>2, <3>3, <4>1 DEF Agree
    <3> HIDE DEF b, v
    <3>4. Decides(w, s, b, v)
      BY <3>5, <3>6, <3>7, DecidesStill
    <3> QED
      BY <3>4, <3>7 DEF b
  <2>2. CASE ~(i <= n)
    <3>1. i - n \in 1 .. m /\ (i - n) + n = i
      BY <1>1, <2>2
    <3>2. w[i] = x[i - n]
      BY <1>2, <3>1
    <3>3. i - n \notin 1 .. l
      <4>1. w[i].code \notin Shifts
        BY <1>6, KeyboardAssumption DEF Press
      <4> QED
        BY <1>3, <3>2, <4>1
    <3>4. i - n \in l + 1 .. m /\ i - 1 \in n + l .. n + m
      BY <1>1, <3>1, <3>3
    <3>5. x[i - n].cap <=> g
      BY <1>3, <1>6, <3>2, <3>4
    <3>6. x[i - n].cap \in BOOLEAN
      <4>1. x[i - n] \in UsbKeys
        BY <3>1 DEF m
      <4> QED
        BY <4>1 DEF UsbKeys
    <3>7. w[i].cap = g
      BY <3>2, <3>5, <3>6
    <3>8. Decides(w, s, i - 1, g)
      BY <1>5, <3>4
    <3> QED
      BY <3>7, <3>8
  <2> QED
    BY <2>1, <2>2
<1>7. Decides(w, s, n + m, g)
  BY <1>1, <1>5
<1> QED
  BY <1>1, <1>6, <1>7 DEF Settled

ShiftPart == No({"lost", "garbled", "pair"}) => ShiftOk /\ CaseOk

(* In terms of Settled                                                     *)
LEMMA ShiftOkIs ==
  ASSUME usbq \in Queue(UsbKeys)
  PROVE  /\ U \in Seq(UsbKeys) /\ Len(U) = Count(usbq) /\ Count(usbq) \in Nat
         /\ Settled(U, shift, Held) <=>
              /\ Decides(U, shift, Count(usbq), Held)
              /\ \A i \in 1 .. Count(usbq) : Press(U[i]) => Decides(U, shift, i - 1, U[i].cap)
  BY CountIs, QueueSizeAssumption DEF Settled, U

(* What the report of a keyboard adds to the events leads to the shift     *)
(* state it reports, unless one of two shift keys was released.            *)
LEMMA ShiftReport ==
  ASSUME TypeOK, TypeOK', ShiftPart, NEW now \in SUBSET Codes, Report(now),
         No({"lost", "garbled", "pair"})'
  PROVE  ShiftOk' /\ CaseOk'
<1>1. PICK mods \in SetToSeqs(Changed(now)), ups \in SetToSeqs(Released(now) \cap Letters),
           downs \in SetToSeqs(Pressed(now) \cap Letters) :
             LET events == KeyEvents(now, mods, ups, downs)
             IN /\ usbq' = EnqueueAll(usbq, events)
                /\ last' = now
                /\ happened' = happened \cup ReportMishaps(now, events)
  BY Zenon DEF Report, Changed
<1> DEFINE ev == KeyEvents(now, mods, ups, downs)
           w == U \o ev
           k == IF Len(w) > MaxKeys THEN Len(w) - MaxKeys ELSE 0
           l == Len(mods)
           g == now \cap Shifts # {}
<1>2. UNCHANGED <<shift, efiq, app, cb>>
  BY DEF Report
<1>3. /\ No({"lost", "garbled", "pair"}) /\ ~Resetting /\ ~Writing
      /\ ~(Released(now) \cap Shifts # {} /\ now \cap Shifts # {})
      /\ Len(w) > MaxKeys => ~HasShift(SubSeq(w, 1, Len(w) - MaxKeys))
  <2>1. happened' = happened \cup ReportMishaps(now, ev)
    BY <1>1
  <2>2. ReportMishaps(now, ev) \cap {"lost", "garbled", "pair"} = {} /\ No({"lost", "garbled", "pair"})
    BY <2>1 DEF No
  <2>3. ReportMishaps(now, ev) =
          Mishap("lost", HasShift(IF Len(w) > MaxKeys THEN SubSeq(w, 1, Len(w) - MaxKeys) ELSE <<>>)
                         \/ app.pc \in {"flags", "last"})
          \cup Mishap("dropped", HasPress(IF Len(w) > MaxKeys THEN SubSeq(w, 1, Len(w) - MaxKeys) ELSE <<>>))
          \cup Mishap("garbled", cb.pc \in {"copy", "tail"})
          \cup Mishap("pair", Released(now) \cap Shifts # {} /\ now \cap Shifts # {})
    BY DEF ReportMishaps, U
  <2> HIDE DEF w, ev
  <2> QED
    BY <2>2, <2>3 DEF Mishap, Resetting, Writing
<1>4. ShiftOk /\ CaseOk /\ usbq \in Queue(UsbKeys) /\ usbq' \in Queue(UsbKeys)
  BY <1>3 DEF ShiftPart, TypeOK
<1>5. Reported(now, mods, ups, downs, ev)
  <2>1. /\ count.presses + Cardinality(Pressed(now) \cap Letters) + (IF Repeating THEN 1 ELSE 0) <= MaxPresses
    BY DEF Report
  <2>2. Cardinality(Pressed(now) \cap Letters) \in Nat
    <3>1. Pressed(now) \cap Letters \subseteq Codes
      BY DEF Pressed
    <3> QED
      BY <3>1, KeyboardAssumption, FS_Subset, FS_CardinalityType
  <2>3. count.presses + Cardinality(Pressed(now) \cap Letters) <= MaxPresses
    BY <2>1, <2>2, KeyboardAssumption DEF TypeOK
  <2> QED
    BY <2>3, Events3
<1>6. /\ ev \in Seq(UsbKeys) /\ l \in 0 .. Len(ev) /\ Len(ev) \in Nat /\ (l = 0 <=> Changed(now) = {})
      /\ \A i \in 1 .. l : ev[i].code \in Changed(now) /\ (ev[i].down <=> ev[i].code \in now)
      /\ \A i \in l + 1 .. Len(ev) : ev[i].code \in Letters
      /\ \A i \in l + 1 .. Len(ev) : Press(ev[i]) => (ev[i].cap <=> g)
  <2> HIDE DEF ev
  <2>1. /\ ev \in Seq(UsbKeys) /\ Len(ev) = Len(mods) + Len(ups) + Len(downs)
        /\ Len(mods) \in Nat /\ Len(ups) \in Nat /\ Len(downs) \in Nat
        /\ Len(mods) = 0 <=> Changed(now) = {}
    BY <1>5 DEF Reported
  <2>2. /\ \A i \in 1 .. Len(mods) : ev[i].code \in Changed(now) /\ (ev[i].down <=> ev[i].code \in now)
        /\ \A i \in Len(mods) + 1 .. Len(ev) : ev[i].code \in Letters
    BY <1>5 DEF Reported
  <2>3. \A i \in Len(mods) + 1 .. Len(ev) : Press(ev[i]) => (ev[i].cap <=> now \cap Shifts # {})
    BY <1>5 DEF Reported
  <2>4. l \in 0 .. Len(ev) /\ Len(ev) \in Nat
    BY <2>1
  <2> QED
    BY <2>1, <2>2, <2>3, <2>4
<1>7. /\ U \in Seq(UsbKeys) /\ Len(U) = Count(usbq) /\ Count(usbq) \in Nat /\ Settled(U, shift, Held)
  BY <1>3, <1>4, ShiftOkIs DEF ShiftOk
<1>8. /\ shift \in BOOLEAN /\ Held \in BOOLEAN /\ g \in BOOLEAN
  BY DEF TypeOK, Held
<1>9. l = 0 => g = Held
  <2>1. Changed(now) = {} => now \cap Shifts = last \cap Shifts
    BY DEF Changed, Released, Pressed
  <2> QED
    BY <1>6, <2>1 DEF Held
<1>10. \A i \in 1 .. l : ev[i].code \in Shifts /\ (ev[i].down <=> g)
  <2>1. \A c \in Changed(now) : c \in Shifts /\ (c \in now <=> g)
    BY <1>3 DEF Changed, Released, Pressed
  <2> HIDE DEF ev, l, g
  <2> QED
    BY <1>6, <2>1
<1>11. \A i \in l + 1 .. Len(ev) : ev[i].code \notin Shifts
  BY <1>6, KeyboardAssumption
<1>12. usbq' = EnqueueAll(usbq, ev) /\ (Held' <=> g)
  BY <1>1 DEF Held
<1> HIDE DEF ev, l, g
<1>13. w \in Seq(UsbKeys) /\ Settled(w, shift, g)
  <2> DEFINE v == w
  <2>1. v = U \o ev
    OBVIOUS
  <2>2. Tells(ev, l, g)
    BY <1>6, <1>10, <1>11 DEF Tells
  <2>3. Settled(U, shift, Held) /\ l \in 0 .. Len(ev) /\ ev \in Seq(UsbKeys) /\ U \in Seq(UsbKeys)
    BY <1>6, <1>7
  <2> DEFINE h == Held
             u == U
  <2>5. /\ shift \in BOOLEAN /\ h \in BOOLEAN /\ g \in BOOLEAN /\ (l = 0 => (g <=> h))
        /\ Settled(u, shift, h) /\ u \in Seq(UsbKeys) /\ Follows(v, u, ev)
    BY <1>8, <1>9, <2>1, <2>3 DEF Follows
  <2> HIDE DEF v, w, k, h, u
  <2>4. v \in Seq(UsbKeys) /\ Settled(v, shift, g)
    <3>1. l \in 0 .. Len(ev) /\ ev \in Seq(UsbKeys)
      BY <2>3
    <3> QED
      BY <2>2, <2>5, <3>1, SettledJoined
  <2> QED
    BY <2>4 DEF v, w
<1>14. /\ Len(w) = Count(usbq) + Len(ev)
       /\ \A i \in 1 .. Count(usbq) : w[i] = U[i]
       /\ \A i \in 1 .. Len(ev) : w[i + Count(usbq)] = ev[i]
  <2>0. U \in Seq(UsbKeys) /\ ev \in Seq(UsbKeys)
    BY <1>6, <1>7
  <2>1. Len(U \o ev) = Len(U) + Len(ev)
    BY <2>0, Joined
  <2>2. \A i \in 1 .. Len(U) : (U \o ev)[i] = U[i]
    BY <2>0, Joined
  <2>3. \A i \in 1 .. Len(ev) : (U \o ev)[i + Len(U)] = ev[i]
    BY <2>0, Joined
  <2> QED
    BY <1>7, <2>1, <2>2, <2>3
<1>15. k \in 0 .. Len(w) /\ MaxKeys \in Nat /\ Len(w) \in Nat
  BY <1>6, <1>7, <1>14, QueueSizeAssumption
<1>16. Len(U') = Len(w) - k /\ \A i \in 1 .. Len(U') : U'[i] = w[i + k]
  <2>1. Given(usbq, usbq', ev, Len(ev))
    BY <1>4, <1>6, <1>12, AllEnqueued
  <2>2. Len(U') = Count(usbq')
    BY <1>4, CountIs DEF U
  <2>3. k = IF Count(usbq) + Len(ev) > MaxKeys THEN Count(usbq) + Len(ev) - MaxKeys ELSE 0
    <3>1. /\ Len(w) = Count(usbq) + Len(ev) /\ MaxKeys \in Nat
          /\ Len(w) \in Nat /\ Len(ev) \in Nat /\ Count(usbq) \in Nat
      BY <1>6, <1>7, <1>14, <1>15
    <3> HIDE DEF w
    <3> QED
      BY <3>1
  <2> HIDE DEF w, k
  <2>4. /\ Count(usbq') = Count(usbq) + Len(ev) - k
        /\ \A i \in 1 .. Count(usbq') :
             Contents(usbq')[i] = IF i + k <= Count(usbq) THEN Contents(usbq)[i + k] ELSE ev[i + k - Count(usbq)]
    BY <2>1, <2>3 DEF Given
  <2>5. \A i \in 1 .. Count(usbq') :
           /\ i + k <= Count(usbq) => i + k \in 1 .. Count(usbq)
           /\ ~(i + k <= Count(usbq)) => /\ i + k - Count(usbq) \in 1 .. Len(ev)
                                         /\ (i + k - Count(usbq)) + Count(usbq) = i + k
    BY <1>6, <1>7, <1>14, <1>15, <2>4
  <2>6. \A i \in 1 .. Count(usbq') : Contents(usbq')[i] = w[i + k]
    BY <1>14, <2>4, <2>5 DEF U
  <2>7. U' = Contents(usbq') /\ Count(usbq') = Len(w) - k
    <3>1. U' = Contents(usbq')
      BY DEF U
    <3>2. Count(usbq') = Len(w) - k
      BY <1>6, <1>7, <1>14, <1>15, <2>4
    <3> QED
      BY <3>1, <3>2
  <2> QED
    BY <2>2, <2>6, <2>7
<1>17. Decides(w, shift, k, shift)
  <2>1. \A i \in 1 .. k : w[i].code \notin Shifts
    <3>1. CASE Len(w) > MaxKeys
      <4> DEFINE p == SubSeq(w, 1, k)
      <4>1. ~HasShift(p)
        BY <1>3, <3>1
      <4> HIDE DEF w, k
      <4>2. DOMAIN p = 1 .. k /\ \A i \in 1 .. k : p[i] = w[i]
        <5>1. p \in Seq(UsbKeys) /\ Len(p) = k /\ \A i \in 1 .. k : p[i] = w[i]
          BY <1>13, <1>15, Prefix
        <5> QED
          BY <5>1
      <4> QED
        BY <4>1, <4>2 DEF HasShift
    <3>2. CASE ~(Len(w) > MaxKeys)
      BY <3>2
    <3> QED
      BY <3>1, <3>2
  <2> HIDE DEF w, k
  <2> QED
    BY <2>1 DEF Decides
<1>18. Settled(U', shift, g)
  <2> DEFINE d == U'
  <2>1. Len(d) = Len(w) - k /\ \A i \in 1 .. Len(d) : d[i] = w[i + k]
    BY <1>16
  <2> HIDE DEF w, k, d
  <2>2. Settled(d, shift, g)
    BY <1>8, <1>13, <1>15, <1>17, <2>1, SettledTaken
  <2> QED
    BY <2>2 DEF d
<1>19. Settled(U', shift', Held')
  <2>1. shift' = shift /\ Held' = g
    BY <1>2, <1>8, <1>12 DEF Held
  <2> QED
    BY <1>18, <2>1
<1>20. ~Resetting' /\ ~Writing'
  BY <1>2, <1>3 DEF Resetting, Writing
<1>21. ShiftOk'
  <2>1. /\ Decides(U', shift', Count(usbq'), Held')
        /\ \A i \in 1 .. Count(usbq') : Press(U'[i]) => Decides(U', shift', i - 1, U'[i].cap)
    <3>1. Len(U') = Count(usbq')
      BY <1>4, CountIs DEF U
    <3> QED
      BY <1>19, <3>1 DEF Settled
  <2> QED
    BY <1>20, <2>1 DEF ShiftOk, Resetting
<1>22. CaseOk'
  BY <1>2, <1>4 DEF CaseOk
<1> QED
  BY <1>21, <1>22

(* The events that the timer's handler takes out leave the rest leading to *)
(* the same state; the letter among them is converted in its own.          *)
LEMMA ShiftTimer ==
  ASSUME TypeOK, TypeOK', ShiftPart, TimerHandler, No({"lost", "garbled", "pair"})'
  PROVE  ShiftOk' /\ CaseOk'
<1> DEFINE ks == Parsed(usbq)
           on == ShiftAfter(ks, shift)
           key == Convert(Last(ks), on)
<1>1. /\ ks # <<>> /\ usbq' = Popped(usbq, ks) /\ shift' = on
      /\ \/ UNCHANGED <<efiq, happened>>
         \/ /\ Last(ks).down /\ Last(ks).code \in Letters
            /\ efiq' = Enqueue(efiq, key)
            /\ \E c, d : happened' = happened \cup Mishap("dropped", d) \cup Mishap("overrun", c)
      /\ UNCHANGED <<last, app, cb>>
  BY DEF TimerHandler
<1>2. No({"lost", "garbled", "pair"})
  <2>1. happened \subseteq happened'
    BY <1>1
  <2> QED
    BY <2>1 DEF No
<1>3. /\ ShiftOk /\ CaseOk /\ usbq \in Queue(UsbKeys) /\ usbq' \in Queue(UsbKeys)
      /\ shift \in BOOLEAN /\ efiq \in Queue(KeyData)
  BY <1>2 DEF ShiftPart, TypeOK
<1>4. PICK k : Parses(usbq, k)
  BY <1>3, Parsing
<1>5. k \in 1 .. Count(usbq) /\ Len(ks) = k /\ Last(ks) = U[k] /\ U[k] \in UsbKeys
  BY <1>1, <1>3, <1>4, LastParsed DEF U
<1>6. on \in BOOLEAN /\ Decides(U, shift, k, on)
  BY <1>3, <1>4, ParsedDecides DEF U
<1> HIDE DEF ks, on
<1>7. Count(usbq) \in Nat /\ Count(usbq) # 0 /\ k \in Nat
  BY <1>3, <1>5, CountIs, QueueSizeAssumption
<1>8. ~Resetting
  BY <1>3, <1>7 DEF ShiftOk
<1>9. U \in Seq(UsbKeys) /\ Len(U) = Count(usbq) /\ Settled(U, shift, Held) /\ Held \in BOOLEAN
  BY <1>3, <1>8, ShiftOkIs DEF ShiftOk, Held
<1>10. Len(U') = Len(U) - k /\ \A i \in 1 .. Len(U') : U'[i] = U[i + k]
  <2>1. usbq' = [usbq EXCEPT !.head = (@ + k) % (MaxKeys + 1)] /\ k \in 0 .. Count(usbq)
    BY <1>1, <1>5, <1>7 DEF Popped
  <2>2. /\ Count(usbq') = Count(usbq) - k
        /\ \A i \in 1 .. Count(usbq') : Contents(usbq')[i] = Contents(usbq)[i + k]
    BY <1>3, <2>1, Taken
  <2>3. Len(U') = Count(usbq') /\ U' = Contents(usbq') /\ U = Contents(usbq)
    BY <1>3, CountIs DEF U
  <2> QED
    BY <1>9, <2>2, <2>3
<1>11. Settled(U', on, Held)
  <2> DEFINE d == U'
             w == U
             h == Held
  <2>1. Len(d) = Len(w) - k /\ \A i \in 1 .. Len(d) : d[i] = w[i + k]
    BY <1>10
  <2>2. w \in Seq(UsbKeys) /\ Settled(w, shift, h) /\ h \in BOOLEAN /\ Decides(w, shift, k, on)
    BY <1>6, <1>9
  <2>3. k \in 0 .. Len(w)
    BY <1>5, <1>7, <1>9
  <2> HIDE DEF d, w, h
  <2>4. Settled(d, on, h)
    BY <1>3, <1>6, <2>1, <2>2, <2>3, SettledTaken
  <2> QED
    BY <2>4 DEF d, h
<1>12. ShiftOk'
  <2>1. Held' = Held /\ shift' = on /\ ~Resetting' /\ Writing' = Writing /\ cb' = cb /\ app' = app
    BY <1>1, <1>8 DEF Held, Resetting, Writing
  <2>2. Settled(U', shift', Held')
    BY <1>11, <2>1
  <2>3. /\ Decides(U', shift', Count(usbq'), Held')
        /\ \A i \in 1 .. Count(usbq') : Press(U'[i]) => Decides(U', shift', i - 1, U'[i].cap)
    <3>1. Len(U') = Count(usbq')
      BY <1>3, CountIs DEF U
    <3> QED
      BY <2>2, <3>1 DEF Settled
  <2> QED
    BY <1>3, <2>1, <2>3 DEF ShiftOk, Resetting
<1>13. CaseOk'
  <2>1. CASE UNCHANGED efiq
    BY <1>3, <2>1 DEF CaseOk
  <2>2. CASE /\ Last(ks).down /\ Last(ks).code \in Letters
             /\ efiq' = Enqueue(efiq, key)
    <3>1. Press(U[k]) /\ U[k].cap \in BOOLEAN
      BY <1>5, <2>2 DEF Press, UsbKeys
    <3>2. Decides(U, shift, k - 1, U[k].cap)
      BY <1>5, <1>9, <3>1 DEF Settled
    <3>3. on = U[k].cap
      <4> DEFINE w == U
                 v == U[k].cap
                 a == k - 1
      <4>1. /\ a \in Nat /\ k \in Nat /\ a <= k /\ Agree(w, w, 0, a) /\ NoShift(w, a, k)
        <5>1. a \in Nat /\ a <= k /\ \A i \in a + 1 .. k : i = k
          BY <1>5, <1>7
        <5>2. U[k].code \notin Shifts
          BY <3>1, KeyboardAssumption DEF Press
        <5>3. \A i \in 1 .. a : i + 0 = i
          OBVIOUS
        <5> QED
          BY <1>7, <5>1, <5>2, <5>3 DEF Agree, NoShift
      <4>2. Decides(w, shift, a, v) /\ v \in BOOLEAN /\ Decides(w, shift, k, on)
        BY <1>6, <3>1, <3>2
      <4> HIDE DEF w, v, a
      <4>3. Decides(w, shift, k, v)
        BY <1>3, <4>1, <4>2, DecidesStill
      <4>4. on = v
        BY <1>3, <1>6, <4>1, <4>2, <4>3, DecidesOnce
      <4> QED
        BY <4>4 DEF v
    <3>4. key.upper <=> key.cap
      BY <1>5, <3>3 DEF Convert
    <3> HIDE DEF key
    <3>5. efiq.tail \in Slots /\ efiq'.buf = [efiq.buf EXCEPT ![efiq.tail] = key]
      <4>1. Enqueue(efiq, key).buf = [efiq.buf EXCEPT ![efiq.tail] = key]
        BY <1>3 DEF Enqueue, Put, Drop, Queue
      <4> QED
        BY <1>3, <2>2, <4>1 DEF Queue
    <3>6. efiq.buf \in [Slots -> KeyData]
      BY <1>3 DEF Queue
    <3>7. ASSUME NEW i \in Slots
          PROVE  efiq'.buf[i].upper <=> efiq'.buf[i].cap
      <4>1. efiq'.buf[i] = IF i = efiq.tail THEN key ELSE efiq.buf[i]
        BY <3>5, <3>6
      <4>2. CASE i = efiq.tail
        BY <3>4, <4>1, <4>2
      <4>3. CASE i # efiq.tail
        BY <1>3, <4>1, <4>3 DEF CaseOk
      <4> QED
        BY <4>2, <4>3
    <3> QED
      BY <3>7 DEF CaseOk
  <2> QED
    BY <1>1, <2>1, <2>2
<1> QED
  BY <1>12, <1>13

(* What leaves the events and the shift keys alone                         *)
LEMMA ShiftFrame ==
  ASSUME ShiftOk, CaseOk, U' = U, Count(usbq') = Count(usbq), UNCHANGED <<shift, last>>, efiq'.buf = efiq.buf,
         Resetting' <=> Resetting, app'.pc = "last" => app.pc = "last",
         Writing' => Writing /\ cb'.item = cb.item
  PROVE  ShiftOk' /\ CaseOk'
<1>1. CaseOk'
  BY DEF CaseOk
<1>2. Held' = Held
  BY DEF Held
<1>3. Count(usbq)' = Count(usbq)
  OBVIOUS
<1>4. ShiftOk'
  BY <1>2, <1>3 DEF ShiftOk
<1> QED
  BY <1>1, <1>4

(* The repeat handler adds no event of a shift key, and throws none away   *)
(* without a mishap.                                                       *)
LEMMA ShiftRepeat ==
  ASSUME TypeOK, TypeOK', RepeatOk, ShiftPart, RepeatHandler, No({"lost", "garbled", "pair"})'
  PROVE  ShiftOk' /\ CaseOk'
<1>1. happened \subseteq happened' /\ UNCHANGED <<last, shift, efiq, app>>
  BY DEF RepeatHandler, RepeatFires, RepeatLoad, RepeatDrop, RepeatSlot, RepeatCopy, RepeatEnds, queues
<1>2. No({"lost", "garbled", "pair"}) /\ "garbled" \notin happened
  BY <1>1 DEF No
<1>3. /\ ShiftOk /\ CaseOk /\ usbq \in Queue(UsbKeys) /\ usbq' \in Queue(UsbKeys)
      /\ shift \in BOOLEAN /\ Held \in BOOLEAN /\ Held' = Held /\ (Resetting' <=> Resetting)
      /\ app' = app
  BY <1>1, <1>2 DEF ShiftPart, TypeOK, Held, Resetting
<1>4. /\ U \in Seq(UsbKeys) /\ Len(U) = Count(usbq) /\ Count(usbq) \in Nat
      /\ Settled(U, shift, Held) <=>
           /\ Decides(U, shift, Count(usbq), Held)
           /\ \A i \in 1 .. Count(usbq) : Press(U[i]) => Decides(U, shift, i - 1, U[i].cap)
  BY <1>3, ShiftOkIs
<1>5. /\ U' \in Seq(UsbKeys) /\ Len(U') = Count(usbq') /\ U' = Contents(usbq') /\ U = Contents(usbq)
  BY <1>3, CountIs DEF U
<1>6. CaseOk'
  BY <1>1, <1>3 DEF CaseOk
<1>7. CASE RepeatFires \/ RepeatLoad
  <2>1. usbq' = usbq /\ ~Writing'
    BY <1>7 DEF RepeatFires, RepeatLoad, queues, Goto, Writing, TypeOK
  <2>2. U' = U
    BY <1>5, <2>1
  <2> QED
    BY <1>1, <1>3, <2>1, <2>2, ShiftFrame
<1>8. CASE RepeatDrop
  <2>1. /\ usbq' = Drop(usbq) /\ ~Writing' /\ First(usbq).code \notin Shifts /\ ~IsQueueEmpty(usbq)
    BY <1>8 DEF RepeatDrop, Goto, Writing, Mishap, No, TypeOK
  <2>2. Count(usbq) # 0
    BY <1>3, <2>1, CountIs
  <2>3. ~Resetting
    BY <1>3, <2>2 DEF ShiftOk
  <2>4. 1 \in 0 .. Count(usbq) /\ 1 \in 1 .. Count(usbq) /\ usbq' = [usbq EXCEPT !.head = (@ + 1) % (MaxKeys + 1)]
    BY <1>4, <2>1, <2>2 DEF Drop, After
  <2>5. /\ Count(usbq') = Count(usbq) - 1
        /\ \A i \in 1 .. Count(usbq') : Contents(usbq')[i] = Contents(usbq)[i + 1]
    BY <1>3, <2>4, Taken
  <2>6. U[1] = First(usbq)
    <3>1. U[1] = usbq.buf[At(usbq, 1)]
      BY <1>3, <1>5, <2>4, CountIs
    <3>2. At(usbq, 1) = usbq.head
      <4>1. usbq.head \in 0 .. MaxKeys /\ MaxKeys \in Nat
        BY <1>3, QueueSizeAssumption DEF Queue, Slots
      <4> QED
        BY <4>1 DEF At, Wrap
    <3> QED
      BY <3>1, <3>2 DEF First
  <2>7. Decides(U, shift, 1, shift)
    <3>1. \A i \in 1 .. 1 : U[i].code \notin Shifts
      BY <2>1, <2>6
    <3> QED
      BY <3>1 DEF Decides
  <2>8. Settled(U', shift, Held)
    <3> DEFINE d == U'
               w == U
               h == Held
               k == 1
    <3>1. /\ Len(d) = Len(w) - k /\ (\A i \in 1 .. Len(d) : d[i] = w[i + k]) /\ k \in 0 .. Len(w)
          /\ Decides(w, shift, k, shift) /\ h \in BOOLEAN /\ w \in Seq(UsbKeys)
      BY <1>3, <1>4, <1>5, <2>4, <2>5, <2>7
    <3>2. Settled(w, shift, h)
      BY <1>3, <1>4, <2>3 DEF ShiftOk
    <3> HIDE DEF d, w, h, k
    <3>3. Settled(d, shift, h)
      BY <1>3, <3>1, <3>2, SettledTaken
    <3> QED
      BY <3>3 DEF d, h
  <2>9. Settled(U', shift', Held')
    BY <1>1, <1>3, <2>8
  <2>10. /\ Decides(U', shift', Count(usbq'), Held')
         /\ \A i \in 1 .. Count(usbq') : Press(U'[i]) => Decides(U', shift', i - 1, U'[i].cap)
    BY <1>5, <2>9 DEF Settled
  <2>11. ShiftOk'
    BY <1>3, <2>1, <2>3, <2>10 DEF ShiftOk, Resetting
  <2> QED
    BY <1>6, <2>11
<1>9. CASE RepeatSlot
  <2>1. usbq' = usbq /\ ~Resetting /\ cb'.item.cap = (last \cap Shifts # {})
    BY <1>9 DEF RepeatSlot, queues, Mishap, No, Resetting, UsbKey
  <2>2. U' = U
    BY <1>5, <2>1
  <2>3. /\ Decides(U', shift', Count(usbq'), Held')
        /\ \A i \in 1 .. Count(usbq') : Press(U'[i]) => Decides(U', shift', i - 1, U'[i].cap)
    BY <1>1, <1>3, <2>1, <2>2 DEF ShiftOk
  <2>4. cb'.item.cap <=> Held'
    BY <1>3, <2>1 DEF Held
  <2>5. ShiftOk'
    BY <1>3, <2>1, <2>3, <2>4 DEF ShiftOk, Resetting
  <2> QED
    BY <1>6, <2>5
<1>10. CASE RepeatCopy
  <2>1. cb.pc = "copy" /\ usbq' = [usbq EXCEPT !.buf[cb.slot] = cb.item] /\ cb'.item = cb.item
    BY <1>10 DEF RepeatCopy, Goto, TypeOK
  <2>2. cb.slot = usbq.tail
    BY <1>2, <2>1 DEF RepeatOk, Writing
  <2>3. U' = U /\ Count(usbq') = Count(usbq)
    <3>1. usbq'.head = usbq.head /\ usbq'.tail = usbq.tail /\ usbq'.buf = [usbq.buf EXCEPT ![usbq.tail] = cb.item]
      BY <1>3, <2>1, <2>2 DEF Queue
    <3> QED
      BY <1>3, <1>5, <3>1, AtTail
  <2>4. Writing
    BY <2>1 DEF Writing
  <2> QED
    BY <1>1, <1>3, <2>1, <2>3, <2>4, ShiftFrame
<1>11. CASE RepeatEnds
  <2>1. /\ cb.pc = "tail" /\ usbq' = [usbq EXCEPT !.tail = After(@)] /\ cb' = Waiting /\ ~IsQueueFull(usbq)
    BY <1>11 DEF RepeatEnds, Mishap, No
  <2>2. usbq.buf[usbq.tail] = cb.item /\ cb.item.code \in Letters \cup {None} /\ Writing
    BY <1>2, <2>1 DEF RepeatOk, Writing
  <2>3. ~Resetting /\ (cb.item.cap <=> Held) /\ cb.item \in UsbKeys
    BY <1>3, <2>2 DEF ShiftOk, TypeOK
  <2>4. usbq' = [head |-> usbq.head, tail |-> After(usbq.tail), buf |-> [usbq.buf EXCEPT ![usbq.tail] = cb.item]]
    <3>1. [usbq.buf EXCEPT ![usbq.tail] = cb.item] = usbq.buf
      BY <1>3, <2>2 DEF Queue
    <3> QED
      BY <1>3, <2>1, <3>1 DEF Queue
  <2>5. /\ Count(usbq') = Count(usbq) + 1
        /\ \A i \in 1 .. Count(usbq') :
             Contents(usbq')[i] = IF i <= Count(usbq) THEN Contents(usbq)[i] ELSE cb.item
    <3> DEFINE d == usbq'
               y == cb.item
    <3>1. /\ d = [head |-> usbq.head, tail |-> After(usbq.tail), buf |-> [usbq.buf EXCEPT ![usbq.tail] = y]]
          /\ y \in UsbKeys /\ usbq \in Queue(UsbKeys) /\ ~IsQueueFull(usbq)
      BY <1>3, <2>1, <2>3, <2>4
    <3> HIDE DEF d, y
    <3>2. Count(d) = Count(usbq) + 1
      BY <3>1, Added
    <3>3. \A i \in 1 .. Count(d) : Contents(d)[i] = IF i <= Count(usbq) THEN Contents(usbq)[i] ELSE y
      BY <3>1, Added
    <3> QED
      BY <3>2, <3>3 DEF d, y
  <2> DEFINE x == <<cb.item>>
  <2>6. x \in Seq(UsbKeys) /\ Len(x) = 1 /\ x[1] = cb.item
    BY <2>3
  <2>7. U' = U \o x
    <3>1. U' \in Seq(UsbKeys) /\ Len(U') = Len(U) + 1 /\ Len(U) \in Nat
      BY <1>4, <1>5, <2>5
    <3>2. \A i \in 1 .. Len(U) + 1 : U'[i] = IF i <= Len(U) THEN U[i] ELSE cb.item
      BY <1>4, <1>5, <2>5
    <3>3. U \o x \in Seq(UsbKeys) /\ Len(U \o x) = Len(U) + 1
      BY <1>4, <2>6
    <3>4. \A i \in 1 .. Len(U) + 1 : (U \o x)[i] = IF i <= Len(U) THEN U[i] ELSE cb.item
      BY <1>4, <2>6
    <3> DEFINE a == U'
               b == U \o x
               n == Len(U) + 1
    <3>5. a \in Seq(UsbKeys) /\ b \in Seq(UsbKeys) /\ Len(a) = n /\ Len(b) = n /\ \A i \in 1 .. n : a[i] = b[i]
      BY <3>1, <3>2, <3>3, <3>4
    <3> HIDE DEF a, b, n
    <3>6. a = b
      BY <3>5
    <3> QED
      BY <3>6 DEF a, b
  <2>8. Settled(U', shift, Held)
    <3> DEFINE w == U'
               u == U
               h == Held
               l == 0
    <3>1. Follows(w, u, x) /\ x \in Seq(UsbKeys) /\ u \in Seq(UsbKeys) /\ h \in BOOLEAN /\ l \in 0 .. Len(x) /\ (l = 0 => (h <=> h))
      BY <1>3, <1>4, <2>6, <2>7 DEF Follows
    <3>2. Settled(u, shift, h)
      BY <1>3, <1>4, <2>3 DEF ShiftOk
    <3>3. Tells(x, l, h)
      <4>1. Len(x) = 1 /\ (\A i \in l + 1 .. Len(x) : x[i] = cb.item) /\ \A i \in 1 .. l : FALSE
        BY <2>6
      <4>2. cb.item.code \notin Shifts
        BY <2>2, KeyboardAssumption DEF Codes
      <4> QED
        BY <2>3, <4>1, <4>2 DEF Tells
    <3> HIDE DEF w, u, h, l, x
    <3>4. Settled(w, shift, h)
      BY <1>3, <3>1, <3>2, <3>3, SettledJoined
    <3> QED
      BY <3>4 DEF w, h
  <2>9. Settled(U', shift', Held')
    BY <1>1, <1>3, <2>8
  <2>10. /\ Decides(U', shift', Count(usbq'), Held')
         /\ \A i \in 1 .. Count(usbq') : Press(U'[i]) => Decides(U', shift', i - 1, U'[i].cap)
    BY <1>5, <2>9 DEF Settled
  <2>11. ShiftOk'
    BY <1>3, <2>1, <2>3, <2>10 DEF ShiftOk, Resetting, Writing, Waiting
  <2> QED
    BY <1>6, <2>11
<1> QED
  BY <1>7, <1>8, <1>9, <1>10, <1>11 DEF RepeatHandler

(* The calls of a client                                                   *)
LEMMA ShiftClient ==
  ASSUME TypeOK, TypeOK', ShiftPart, Client, No({"lost", "garbled", "pair"})'
  PROVE  ShiftOk' /\ CaseOk'
<1>1. happened \subseteq happened' /\ UNCHANGED cb /\ cb.pc = "idle"
  BY DEF Client, ReadKeyStroke, ReadStarts, ReadCopies, ReadEnds, Reset, InitUSBKeyboard, ResetFlags,
         ResetLast, ResetRecovery, ResetEnds, Stop, StopTransfer, StopEnds, Goto
<1>2. No({"lost", "garbled", "pair"}) /\ ~Writing /\ ~Writing'
  BY <1>1 DEF No, Writing
<1>3. /\ ShiftOk /\ CaseOk /\ usbq \in Queue(UsbKeys) /\ usbq' \in Queue(UsbKeys)
      /\ shift \in BOOLEAN /\ Held \in BOOLEAN /\ efiq \in Queue(KeyData)
      /\ app = [pc |-> app.pc, slot |-> app.slot, item |-> app.item]
  BY <1>2 DEF ShiftPart, TypeOK, Held
<1>4. U \in Seq(UsbKeys) /\ Len(U) = Count(usbq) /\ Count(usbq) \in Nat /\ U' = Contents(usbq')
  BY <1>3, CountIs, QueueSizeAssumption DEF U
<1>5. CASE ReadKeyStroke
  <2>1. /\ UNCHANGED <<usbq, shift, last>>
        /\ app.pc \in {"idle", "slot", "copied"} /\ app'.pc \in {"idle", "slot", "copied"}
    <3>1. CASE ReadStarts
      BY <1>3, <3>1 DEF ReadStarts, queues
    <3>2. CASE ReadCopies
      BY <3>2 DEF ReadCopies, queues
    <3>3. CASE ReadEnds
      BY <3>3 DEF ReadEnds, Idle
    <3> QED
      BY <1>5, <3>1, <3>2, <3>3 DEF ReadKeyStroke
  <2>2. efiq'.buf = efiq.buf
    BY <1>3, <1>5 DEF ReadKeyStroke, ReadStarts, ReadCopies, ReadEnds, queues, Queue
  <2>3. U' = U /\ Count(usbq') = Count(usbq)
    BY <1>4, <2>1 DEF U
  <2> QED
    BY <1>2, <1>3, <2>1, <2>2, <2>3, ShiftFrame DEF Resetting
<1>6. ASSUME NEW b \in BOOLEAN, Reset(b)
      PROVE  ShiftOk' /\ CaseOk'
  <2>1. /\ app.pc = "idle" /\ app'.pc \in {"flags", "idle"}
        /\ usbq' = NewQueue(NoUsbKey) /\ efiq' = NewQueue(NoKey)
        /\ ~HasShift(Contents(usbq)) /\ UNCHANGED <<last, shift>>
    BY <1>3, <1>6 DEF Reset, Goto, Mishap, No
  <2>2. Count(usbq') = 0 /\ \A i \in Slots : efiq'.buf[i] = NoKey
    BY <2>1, NewQueues
  <2>3. CaseOk'
    BY <2>2 DEF CaseOk, NoKey
  <2>4. shift <=> Held
    <3>1. Decides(U, shift, Count(usbq), Held)
      BY <1>3, <2>1 DEF ShiftOk, Resetting
    <3>2. \A i \in 1 .. Count(usbq) : U[i].code \notin Shifts
      <4>1. DOMAIN U = 1 .. Count(usbq)
        BY <1>4
      <4> QED
        BY <2>1, <4>1 DEF HasShift, U
    <3> QED
      BY <3>1, <3>2 DEF Decides
  <2>5. \A i \in 1 .. 0 : FALSE
    OBVIOUS
  <2>6. Decides(U', shift', 0, Held')
    BY <2>1, <2>4, <2>5 DEF Decides, Held
  <2>7. ShiftOk'
    BY <1>2, <2>1, <2>2, <2>5, <2>6 DEF ShiftOk, Resetting
  <2> QED
    BY <2>3, <2>7
<1>7. CASE ResetFlags
  <2>1. app.pc = "flags" /\ app'.pc = "last" /\ ~shift' /\ UNCHANGED <<usbq, efiq>>
    BY <1>3, <1>7 DEF ResetFlags, Goto, queues
  <2>2. Count(usbq') = 0
    BY <1>3, <2>1 DEF ShiftOk, Resetting
  <2> QED
    BY <1>2, <1>3, <2>1, <2>2 DEF ShiftOk, CaseOk, Resetting
<1>8. CASE ResetLast
  <2>1. app.pc = "last" /\ app'.pc = "repeat" /\ ~shift /\ shift' = shift /\ last' = {} /\ UNCHANGED <<usbq, efiq>>
    BY <1>3, <1>8 DEF ResetLast, Goto, queues, ShiftOk
  <2>2. Count(usbq') = 0
    BY <1>3, <2>1 DEF ShiftOk, Resetting
  <2>3. \A i \in 1 .. 0 : FALSE
    OBVIOUS
  <2>4. Decides(U', shift', 0, Held')
    BY <2>1, <2>3 DEF Decides, Held
  <2> QED
    BY <1>2, <1>3, <2>1, <2>2, <2>3, <2>4 DEF ShiftOk, CaseOk, Resetting
<1>9. CASE ResetRecovery \/ ResetEnds \/ StopTransfer
  <2>1. /\ UNCHANGED <<usbq, shift, last, efiq>>
        /\ app.pc \notin {"flags", "last"} /\ app'.pc \notin {"flags", "last"}
    BY <1>3, <1>9 DEF ResetRecovery, ResetEnds, StopTransfer, Goto, queues
  <2>2. U' = U /\ Count(usbq') = Count(usbq) /\ efiq'.buf = efiq.buf
    BY <1>4, <2>1 DEF U
  <2> QED
    BY <1>2, <1>3, <2>1, <2>2, ShiftFrame DEF Resetting
<1>10. CASE StopEnds
  <2>1. /\ app.pc = "deleted" /\ app'.pc = "gone"
        /\ usbq' = NewQueue(NoUsbKey) /\ efiq' = NewQueue(NoKey) /\ last' = {} /\ ~shift'
    BY <1>3, <1>10 DEF StopEnds, Goto
  <2>2. Count(usbq') = 0 /\ \A i \in Slots : efiq'.buf[i] = NoKey
    BY <2>1, NewQueues
  <2>3. CaseOk'
    BY <2>2 DEF CaseOk, NoKey
  <2>4. \A i \in 1 .. 0 : FALSE
    OBVIOUS
  <2>5. Decides(U', shift', 0, Held')
    BY <2>1, <2>4 DEF Decides, Held
  <2>6. ShiftOk'
    BY <1>2, <2>1, <2>2, <2>4, <2>5 DEF ShiftOk, Resetting
  <2> QED
    BY <2>3, <2>6
<1> QED
  BY <1>5, <1>6, <1>7, <1>8, <1>9, <1>10 DEF Client, InitUSBKeyboard, Stop

(* The shift state and the case of the letters are right after a step.     *)
LEMMA ShiftNext ==
  ASSUME Basics, Basics', ShiftPart, [Next]_vars
  PROVE  ShiftPart'
<1> SUFFICES ASSUME No({"lost", "garbled", "pair"})'
             PROVE  ShiftOk' /\ CaseOk'
  BY DEF ShiftPart
<1>1. TypeOK /\ TypeOK' /\ RepeatOk
  BY DEF Basics
<1>2. CASE \E now \in SUBSET Codes : Report(now)
  BY <1>1, <1>2, ShiftReport
<1>3. CASE ReportError \/ (\E b \in BOOLEAN : Recover(b)) \/ NotifyHandler \/ UNCHANGED vars
  <2>1. UNCHANGED <<usbq, efiq, shift, last, app, cb>> /\ happened \subseteq happened'
    BY <1>3 DEF ReportError, Recover, NotifyHandler, queues, vars
  <2>2. ShiftOk /\ CaseOk
    BY <2>1 DEF ShiftPart, No
  <2>3. U' = U /\ Count(usbq') = Count(usbq)
    BY <2>1 DEF U
  <2> QED
    BY <2>1, <2>2, <2>3, ShiftFrame DEF Resetting, Writing
<1>4. CASE TimerHandler
  BY <1>1, <1>4, ShiftTimer
<1>5. CASE RepeatHandler
  BY <1>1, <1>5, ShiftRepeat
<1>6. CASE Client
  BY <1>1, <1>6, ShiftClient
<1> QED
  BY <1>2, <1>3, <1>4, <1>5, <1>6 DEF Next, AtNotify, AtCallback

-----------------------------------------------------------------------------
(* The order of the keystrokes.                                            *)

KeyPart == No({"garbled", "overrun"}) => PressesOk /\ KeysOk /\ ReadOk

(* The presses in w are numbered upwards, above a and up to b              *)
Rising(w, a, b) ==
  \A i \in 1 .. Len(w) : Press(w[i]) =>
    /\ a < w[i].n /\ w[i].n <= b
    /\ \A j \in 1 .. Len(w) : i < j /\ Press(w[j]) => w[i].n < w[j].n

(* The numbers are natural.                                                *)
KeyTyped ==
  /\ U \in Seq(UsbKeys) /\ Len(U) = Count(usbq) /\ Count(usbq) \in Nat
  /\ E \in Seq(KeyData) /\ Len(E) = Count(efiq) /\ Count(efiq) \in Nat
  /\ \A i \in 1 .. Count(usbq) : U[i].n \in Nat
  /\ \A i \in 1 .. Count(efiq) : E[i].n \in Nat
  /\ read \in Nat /\ count.presses \in Nat /\ Newest \in Int
  /\ usbq \in Queue(UsbKeys) /\ efiq \in Queue(KeyData)
\* Types of the queues are types of their entries.
LEMMA KeyTypes ==
  TypeOK => KeyTyped
<1> SUFFICES ASSUME TypeOK PROVE KeyTyped
  OBVIOUS
<1>1. usbq \in Queue(UsbKeys) /\ efiq \in Queue(KeyData) /\ MaxPresses \in Nat
  BY KeyboardAssumption DEF TypeOK
<1>2. /\ U \in Seq(UsbKeys) /\ Len(U) = Count(usbq) /\ Count(usbq) \in Nat
  BY <1>1, CountIs, QueueSizeAssumption DEF U
<1>3. /\ E \in Seq(KeyData) /\ Len(E) = Count(efiq) /\ Count(efiq) \in Nat
  BY <1>1, CountIs, QueueSizeAssumption DEF E
<1>4. \A i \in 1 .. Count(usbq) : U[i].n \in Nat
  <2>1. \A i \in 1 .. Count(usbq) : U[i] \in UsbKeys
    BY <1>2
  <2> QED
    BY <1>1, <2>1 DEF UsbKeys
<1>5. \A i \in 1 .. Count(efiq) : E[i].n \in Nat
  <2>1. \A i \in 1 .. Count(efiq) : E[i] \in KeyData
    BY <1>3
  <2> QED
    BY <1>1, <2>1 DEF KeyData
<1>6. read \in Nat /\ count.presses \in Nat
  BY <1>1 DEF TypeOK
<1>7. Newest \in Int
  BY <1>6 DEF Newest
<1> QED
  BY <1>1, <1>2, <1>3, <1>4, <1>5, <1>6, <1>7 DEF KeyTyped

(* So they are after a step.                                               *)
LEMMA KeyTypesNext ==
  TypeOK' => KeyTyped'
BY KeyTypes, PTL

(* What leaves the queues alone                                            *)
LEMMA KeyFrame ==
  ASSUME TypeOK, TypeOK', PressesOk, KeysOk, UNCHANGED read, U' = U, E' = E,
         Count(usbq') = Count(usbq), Count(efiq') = Count(efiq), Newest <= Newest'
  PROVE  PressesOk' /\ KeysOk'
<1> DEFINE m == Newest
           n == Newest'
<1>1. m \in Int /\ n \in Int /\ m <= n
  BY KeyTypes, KeyTypesNext DEF KeyTyped
<1>2. /\ \A i \in 1 .. Count(usbq) : U[i].n \in Nat
      /\ \A i \in 1 .. Count(efiq) : E[i].n \in Nat
  BY KeyTypes DEF KeyTyped
<1>3. /\ \A i \in 1 .. Count(usbq) : Press(U[i]) => U[i].n <= m
      /\ \A i \in 1 .. Count(efiq) : E[i].n <= m
  BY DEF PressesOk, KeysOk
<1> HIDE DEF m, n
<1>4. /\ \A i \in 1 .. Count(usbq) : Press(U[i]) => U[i].n <= n
      /\ \A i \in 1 .. Count(efiq) : E[i].n <= n
  BY <1>1, <1>2, <1>3
<1>5. PressesOk'
  BY <1>4 DEF PressesOk, n
<1>6. KeysOk'
  BY <1>4 DEF KeysOk, n
<1> QED
  BY <1>5, <1>6

(* Some of the first entries of w are taken out.                           *)
LEMMA RisingTaken ==
  ASSUME NEW w \in Seq(UsbKeys), NEW a \in Int, NEW b \in Int, Rising(w, a, b), NEW k \in 0 .. Len(w),
         NEW d, Len(d) = Len(w) - k, Agree(d, w, k, Len(d))
  PROVE  Rising(d, a, b)
<1>1. Len(w) \in Nat /\ Len(d) \in Nat /\ \A i \in 1 .. Len(d) : i + k \in 1 .. Len(w)
  OBVIOUS
<1>2. \A i \in 1 .. Len(d) : d[i] = w[i + k]
  BY DEF Agree
<1>3. \A i, j \in 1 .. Len(d) : i < j => i + k < j + k
  BY <1>1
<1> QED
  BY <1>1, <1>2, <1>3 DEF Rising

(* New presses are put in.                                                 *)
LEMMA RisingJoined ==
  ASSUME NEW u \in Seq(UsbKeys), NEW x \in Seq(UsbKeys), NEW w, Follows(w, u, x),
         NEW a \in Int, NEW b \in Int, NEW c \in Int, a <= b, b <= c, Rising(u, a, b), Rising(x, b, c),
         \A i \in 1 .. Len(u) : u[i].n \in Nat, \A i \in 1 .. Len(x) : x[i].n \in Nat
  PROVE  Rising(w, a, c)
<1> DEFINE n == Len(u)
           m == Len(x)
<1>1. /\ Len(w) = n + m /\ n \in Nat /\ m \in Nat
      /\ \A i \in 1 .. n : w[i] = u[i]
  BY Joined DEF Follows
<1>2. \A i \in 1 .. m : w[i + n] = x[i]
  BY Joined DEF Follows
<1>3. ASSUME NEW i \in 1 .. n, Press(u[i])
      PROVE  /\ a < u[i].n /\ u[i].n <= b /\ u[i].n \in Nat
             /\ \A j \in 1 .. n : i < j /\ Press(u[j]) => u[i].n < u[j].n
  BY <1>3 DEF Rising
<1>4. ASSUME NEW i \in 1 .. m, Press(x[i])
      PROVE  /\ b < x[i].n /\ x[i].n <= c /\ x[i].n \in Nat
             /\ \A j \in 1 .. m : i < j /\ Press(x[j]) => x[i].n < x[j].n
  BY <1>4 DEF Rising
<1> HIDE DEF n, m
<1>5. \A i \in 1 .. n + m : i \in 1 .. n \/ (i - n \in 1 .. m /\ (i - n) + n = i)
  BY <1>1
<1>6. ASSUME NEW i \in 1 .. n + m, Press(w[i])
      PROVE  /\ a < w[i].n /\ w[i].n <= c
             /\ \A j \in 1 .. n + m : i < j /\ Press(w[j]) => w[i].n < w[j].n
  <2>1. CASE i \in 1 .. n
    <3>1. w[i] = u[i] /\ Press(u[i])
      BY <1>1, <1>6, <2>1
    <3>2. /\ a < w[i].n /\ w[i].n <= b /\ w[i].n \in Nat
          /\ \A j \in 1 .. n : i < j /\ Press(u[j]) => w[i].n < u[j].n
      BY <1>3, <2>1, <3>1
    <3>3. ASSUME NEW j \in 1 .. n + m, i < j, Press(w[j])
          PROVE  w[i].n < w[j].n
      <4>1. CASE j \in 1 .. n
        <5>1. w[j] = u[j]
          BY <1>1, <4>1
        <5> QED
          BY <3>2, <3>3, <4>1, <5>1
      <4>2. CASE j \notin 1 .. n
        <5>1. j - n \in 1 .. m /\ w[j] = x[j - n]
          BY <1>2, <1>5, <4>2
        <5>2. b < w[j].n /\ w[j].n \in Nat
          BY <1>4, <3>3, <5>1
        <5> QED
          BY <3>2, <5>2
      <4> QED
        BY <4>1, <4>2
    <3> QED
      BY <3>2, <3>3
  <2>2. CASE i \notin 1 .. n
    <3>1. i - n \in 1 .. m /\ w[i] = x[i - n]
      BY <1>2, <1>5, <2>2
    <3>2. /\ b < w[i].n /\ w[i].n <= c /\ w[i].n \in Nat
          /\ \A j \in 1 .. m : i - n < j /\ Press(x[j]) => w[i].n < x[j].n
      BY <1>4, <1>6, <3>1
    <3>3. ASSUME NEW j \in 1 .. n + m, i < j, Press(w[j])
          PROVE  w[i].n < w[j].n
      <4>1. j - n \in 1 .. m /\ (j - n) + n = j /\ i - n < j - n
        BY <1>1, <2>2, <3>3
      <4>2. w[j] = x[j - n]
        BY <1>2, <4>1
      <4> QED
        BY <3>2, <3>3, <4>1, <4>2
    <3>4. a < w[i].n
      BY <3>2
    <3> QED
      BY <3>2, <3>3, <3>4
  <2> QED
    BY <2>1, <2>2
<1> QED
  BY <1>1, <1>6 DEF Rising

(* In terms of Rising                                                      *)
LEMMA PressesAre ==
  ASSUME TypeOK
  PROVE  PressesOk <=> /\ Rising(U, read, Newest)
                       /\ \A i \in 1 .. Count(usbq), j \in 1 .. Count(efiq) : Press(U[i]) => E[j].n < U[i].n
<1>1. Len(U) = Count(usbq)
  BY KeyTypes DEF KeyTyped
<1> QED
  BY <1>1 DEF PressesOk, Rising

(* The presses of a report are newer than all before.                      *)
LEMMA KeyReport ==
  ASSUME TypeOK, TypeOK', KeyPart, NEW now \in SUBSET Codes, Report(now), No({"garbled", "overrun"})'
  PROVE  PressesOk' /\ KeysOk' /\ ReadOk'
<1>1. PICK mods \in SetToSeqs(Changed(now)), ups \in SetToSeqs(Released(now) \cap Letters),
           downs \in SetToSeqs(Pressed(now) \cap Letters) :
             LET events == KeyEvents(now, mods, ups, downs)
             IN /\ usbq' = EnqueueAll(usbq, events)
                /\ count' = [count EXCEPT !.presses = @ + Len(downs), !.reports = @ + 1]
                /\ happened' = happened \cup ReportMishaps(now, events)
  BY Zenon DEF Report, Changed
<1> DEFINE ev == KeyEvents(now, mods, ups, downs)
           w == U \o ev
           k == IF Len(w) > MaxKeys THEN Len(w) - MaxKeys ELSE 0
           p == count.presses
           q == count.presses + Len(downs)
<1>2. UNCHANGED <<shift, efiq, app, cb, read>>
  BY DEF Report
<1>3. No({"garbled", "overrun"}) /\ ~Writing
  <2> HIDE DEF ev
  <2>1. happened' = happened \cup ReportMishaps(now, ev)
    BY <1>1 DEF ev
  <2> QED
    BY <2>1 DEF ReportMishaps, Mishap, No, Writing
<1>4. PressesOk /\ KeysOk /\ ReadOk /\ KeyTyped /\ KeyTyped'
  BY <1>3, KeyTypes, KeyTypesNext DEF KeyPart
<1>5. Reported(now, mods, ups, downs, ev)
  <2>1. /\ count.presses + Cardinality(Pressed(now) \cap Letters) + (IF Repeating THEN 1 ELSE 0) <= MaxPresses
    BY DEF Report
  <2>2. Cardinality(Pressed(now) \cap Letters) \in Nat
    <3>1. Pressed(now) \cap Letters \subseteq Codes
      BY DEF Pressed
    <3> QED
      BY <3>1, KeyboardAssumption, FS_Subset, FS_CardinalityType
  <2>3. count.presses + Cardinality(Pressed(now) \cap Letters) <= MaxPresses
    BY <2>1, <2>2, KeyboardAssumption DEF TypeOK
  <2> QED
    BY <2>3, Events3
<1> DEFINE l == Len(mods)
           m == Len(ups)
           n == Len(downs)
<1>6. /\ ev \in Seq(UsbKeys) /\ Len(ev) = l + m + n /\ l \in Nat /\ m \in Nat /\ n \in Nat
      /\ \A i \in l + 1 .. Len(ev) : Press(ev[i]) => ev[i].n = p + (i - l - m) /\ i > l + m
      /\ \A i \in 1 .. l : ev[i].code \in Changed(now)
  <2> HIDE DEF ev
  <2> QED
    BY <1>5 DEF Reported
<1>7. usbq' = EnqueueAll(usbq, ev) /\ count'.presses = p + n
  BY <1>1 DEF TypeOK
<1>8. Newest = p /\ Newest' = p + n /\ p \in Nat /\ read \in Nat /\ read <= p /\ ~Writing'
  BY <1>2, <1>3, <1>4, <1>7 DEF Newest, Writing, KeyTyped, ReadOk
<1> HIDE DEF ev, l, m, n, p, q
<1>9. Rising(ev, p, p + n)
  <2>1. \A i \in 1 .. l : ~Press(ev[i])
    BY <1>6, KeyboardAssumption DEF Changed, Press
  <2>2. \A i \in 1 .. Len(ev) : i \in 1 .. l \/ i \in l + 1 .. Len(ev)
    BY <1>6
  <2>3. \A i \in 1 .. Len(ev) : Press(ev[i]) => ev[i].n = p + (i - l - m) /\ i > l + m
    BY <1>6, <2>1, <2>2
  <2>4. \A i \in 1 .. Len(ev) : i > l + m => /\ p < p + (i - l - m) /\ p + (i - l - m) <= p + n
                                             /\ \A j \in 1 .. Len(ev) : i < j => p + (i - l - m) < p + (j - l - m)
    BY <1>6, <1>8
  <2> QED
    BY <2>3, <2>4 DEF Rising
<1>10. Rising(U, read, p)
  BY <1>4, <1>8, PressesAre DEF KeyTyped, TypeOK
<1>11. /\ U \in Seq(UsbKeys) /\ Len(U) = Count(usbq) /\ Count(usbq) \in Nat
       /\ usbq \in Queue(UsbKeys) /\ usbq' \in Queue(UsbKeys) /\ Len(U') = Count(usbq')
       /\ U' = Contents(usbq')
  BY <1>4 DEF KeyTyped, U
<1>12. w \in Seq(UsbKeys) /\ Rising(w, read, p + n)
  <2> DEFINE v == w
             u == U
             c == p + n
             r == read
  <2>1. Follows(v, u, ev) /\ u \in Seq(UsbKeys) /\ ev \in Seq(UsbKeys) /\ Rising(u, r, p) /\ Rising(ev, p, c)
    BY <1>6, <1>9, <1>10, <1>11 DEF Follows
  <2>2. r \in Int /\ p \in Int /\ c \in Int /\ r <= p /\ p <= c
    BY <1>6, <1>8
  <2>3. (\A i \in 1 .. Len(u) : u[i].n \in Nat) /\ \A i \in 1 .. Len(ev) : ev[i].n \in Nat
    <3>1. \A i \in 1 .. Len(ev) : ev[i] \in UsbKeys
      BY <1>6
    <3> QED
      BY <1>4, <1>11, <3>1, KeyboardAssumption DEF KeyTyped, UsbKeys
  <2>4. v \in Seq(UsbKeys)
    BY <1>6, <1>11
  <2> HIDE DEF v, u, c, r, w
  <2>5. Rising(v, r, c)
    BY <2>1, <2>2, <2>3, RisingJoined
  <2> QED
    BY <2>4, <2>5 DEF v, c, r, w
<1>14. /\ Len(w) = Count(usbq) + Len(ev)
       /\ \A i \in 1 .. Count(usbq) : w[i] = U[i]
       /\ \A i \in 1 .. Len(ev) : w[i + Count(usbq)] = ev[i]
  <2>0. U \in Seq(UsbKeys) /\ ev \in Seq(UsbKeys)
    BY <1>6, <1>11
  <2>1. Len(U \o ev) = Len(U) + Len(ev)
    BY <2>0, Joined
  <2>2. \A i \in 1 .. Len(U) : (U \o ev)[i] = U[i]
    BY <2>0, Joined
  <2>3. \A i \in 1 .. Len(ev) : (U \o ev)[i + Len(U)] = ev[i]
    BY <2>0, Joined
  <2> QED
    BY <1>11, <2>1, <2>2, <2>3
<1>15. k \in 0 .. Len(w) /\ MaxKeys \in Nat /\ Len(w) \in Nat /\ Len(ev) \in Nat
  BY <1>6, <1>11, <1>14, QueueSizeAssumption
<1>16. Len(U') = Len(w) - k /\ \A i \in 1 .. Len(U') : U'[i] = w[i + k]
  <2>1. Given(usbq, usbq', ev, Len(ev))
    BY <1>6, <1>7, <1>11, AllEnqueued
  <2>3. k = IF Count(usbq) + Len(ev) > MaxKeys THEN Count(usbq) + Len(ev) - MaxKeys ELSE 0
    <3>1. /\ Len(w) = Count(usbq) + Len(ev) /\ MaxKeys \in Nat
          /\ Len(w) \in Nat /\ Len(ev) \in Nat /\ Count(usbq) \in Nat
      BY <1>11, <1>14, <1>15
    <3> HIDE DEF w
    <3> QED
      BY <3>1
  <2> HIDE DEF w, k
  <2>4. /\ Count(usbq') = Count(usbq) + Len(ev) - k
        /\ \A i \in 1 .. Count(usbq') :
             Contents(usbq')[i] = IF i + k <= Count(usbq) THEN Contents(usbq)[i + k] ELSE ev[i + k - Count(usbq)]
    BY <2>1, <2>3 DEF Given
  <2>5. \A i \in 1 .. Count(usbq') :
           /\ i + k <= Count(usbq) => i + k \in 1 .. Count(usbq)
           /\ ~(i + k <= Count(usbq)) => /\ i + k - Count(usbq) \in 1 .. Len(ev)
                                         /\ (i + k - Count(usbq)) + Count(usbq) = i + k
    BY <1>11, <1>14, <1>15, <2>4
  <2>6. \A i \in 1 .. Count(usbq') : Contents(usbq')[i] = w[i + k]
    BY <1>14, <2>4, <2>5 DEF U
  <2>7. Count(usbq') = Len(w) - k
    BY <1>11, <1>14, <1>15, <2>4
  <2> QED
    BY <1>11, <2>6, <2>7
<1>17. Rising(U', read, p + n)
  <2> DEFINE d == U'
             c == p + n
             r == read
  <2>1. /\ Len(d) = Len(w) - k /\ Agree(d, w, k, Len(d))
    BY <1>16 DEF Agree
  <2>2. r \in Int /\ c \in Int
    BY <1>6, <1>8
  <2>3. w \in Seq(UsbKeys) /\ Rising(w, r, c) /\ k \in 0 .. Len(w)
    BY <1>12, <1>15
  <2> HIDE DEF d, c, r, w, k
  <2>4. Rising(d, r, c)
    BY <2>1, <2>2, <2>3, RisingTaken
  <2> QED
    BY <2>4 DEF d, c, r
<1>18. ASSUME NEW i \in 1 .. Count(usbq'), NEW j \in 1 .. Count(efiq), Press(U'[i])
       PROVE  E[j].n < U'[i].n
  <2> HIDE DEF w, k
  <2>1. U'[i] = w[i + k] /\ i + k \in 1 .. Len(w)
    BY <1>11, <1>15, <1>16
  <2>2. E[j].n <= p /\ E[j].n \in Nat
    BY <1>4, <1>8 DEF KeysOk, KeyTyped
  <2>3. CASE i + k <= Count(usbq)
    <3>1. i + k \in 1 .. Count(usbq) /\ w[i + k] = U[i + k]
      BY <1>14, <2>1, <2>3
    <3> QED
      BY <1>4, <1>18, <2>1, <3>1 DEF PressesOk
  <2>4. CASE ~(i + k <= Count(usbq))
    <3>1. i + k - Count(usbq) \in 1 .. Len(ev) /\ (i + k - Count(usbq)) + Count(usbq) = i + k
      BY <1>11, <1>14, <1>15, <2>1, <2>4
    <3>2. U'[i] = ev[i + k - Count(usbq)]
      BY <1>14, <2>1, <3>1
    <3>3. p < U'[i].n
      BY <1>9, <1>18, <3>1, <3>2 DEF Rising
    <3>4. U'[i].n \in Nat
      BY <1>4 DEF KeyTyped
    <3> QED
      BY <1>8, <2>2, <3>3, <3>4
  <2> QED
    BY <2>3, <2>4
<1>19. E' = E /\ Count(efiq') = Count(efiq)
  BY <1>2 DEF E
<1>20. PressesOk'
  <2>1. Rising(U', read', Newest')
    BY <1>2, <1>8, <1>17
  <2>2. \A i \in 1 .. Count(usbq'), j \in 1 .. Count(efiq') : Press(U'[i]) => E'[j].n < U'[i].n
    BY <1>18, <1>19
  <2> QED
    BY <1>11, <2>1, <2>2 DEF PressesOk, Rising
<1>21. KeysOk'
  <2>1. \A j \in 1 .. Count(efiq) : E[j].n <= p + n
    <3>1. \A j \in 1 .. Count(efiq) : E[j].n <= p /\ E[j].n \in Nat
      BY <1>4, <1>8 DEF KeysOk, KeyTyped
    <3>2. \A x \in Nat : x <= p => x <= p + n
      BY <1>6, <1>8
    <3> QED
      BY <3>1, <3>2
  <2> QED
    BY <1>2, <1>4, <1>8, <1>19, <2>1 DEF KeysOk
<1>22. ReadOk'
  <2>1. read' <= Newest'
    BY <1>2, <1>6, <1>8
  <2> QED
    BY <1>2, <1>4, <1>8, <1>19, <2>1 DEF ReadOk
<1> QED
  BY <1>20, <1>21, <1>22

(* The letter that the timer's handler moves is newer than the keystrokes  *)
(* that wait, and older than the presses that are left.                    *)
LEMMA KeyTimer ==
  ASSUME TypeOK, TypeOK', KeyPart, TimerHandler, No({"garbled", "overrun"})'
  PROVE  PressesOk' /\ KeysOk' /\ ReadOk'
<1> DEFINE ks == Parsed(usbq)
           on == ShiftAfter(ks, shift)
           key == Convert(Last(ks), on)
           r == read
           m == Newest
<1>1. /\ ks # <<>> /\ usbq' = Popped(usbq, ks)
      /\ \/ UNCHANGED <<efiq, happened>>
         \/ /\ Last(ks).down /\ Last(ks).code \in Letters
            /\ efiq' = Enqueue(efiq, key)
            /\ happened' = happened \cup Mishap("dropped", IsQueueFull(efiq))
                     \cup Mishap("overrun", IsQueueFull(efiq) /\ app.pc \in {"slot", "copied"})
      /\ UNCHANGED <<app, cb, count, read>>
  BY DEF TimerHandler
<1>2. /\ PressesOk /\ KeysOk /\ ReadOk /\ KeyTyped /\ KeyTyped'
  <2>1. happened \subseteq happened'
    BY <1>1
  <2> QED
    BY <2>1, KeyTypes, KeyTypesNext DEF KeyPart, No
<1>3. /\ usbq \in Queue(UsbKeys) /\ usbq' \in Queue(UsbKeys) /\ efiq \in Queue(KeyData)
      /\ Count(usbq) \in Nat /\ Count(efiq) \in Nat /\ Len(U) = Count(usbq)
      /\ r \in Nat /\ m \in Int /\ shift \in BOOLEAN /\ U = Contents(usbq) /\ E = Contents(efiq)
      /\ U' = Contents(usbq') /\ E' = Contents(efiq')
  BY <1>2 DEF KeyTyped, TypeOK, U, E
<1>4. PICK k : Parses(usbq, k)
  BY <1>3, Parsing
<1>5. k \in 1 .. Count(usbq) /\ Len(ks) = k /\ Last(ks) = U[k] /\ U[k] \in UsbKeys
  BY <1>1, <1>3, <1>4, LastParsed DEF U
<1>6. on \in BOOLEAN
  BY <1>3, <1>4, ParsedDecides
<1> HIDE DEF ks, on
<1>7. Newest' = m /\ read' = r
  BY <1>1 DEF Newest, Writing
<1>8. /\ Count(usbq') = Count(usbq) - k
      /\ \A i \in 1 .. Count(usbq') : U'[i] = U[i + k] /\ i + k \in 1 .. Count(usbq) /\ k < i + k
  <2>1. usbq' = [usbq EXCEPT !.head = (@ + k) % (MaxKeys + 1)] /\ k \in 0 .. Count(usbq)
    BY <1>1, <1>3, <1>5 DEF Popped
  <2>2. /\ Count(usbq') = Count(usbq) - k
        /\ \A i \in 1 .. Count(usbq') : Contents(usbq')[i] = Contents(usbq)[i + k]
    BY <1>3, <2>1, Taken
  <2>3. \A i \in 1 .. Count(usbq') : i + k \in 1 .. Count(usbq) /\ k < i + k
    BY <1>3, <1>5, <2>2
  <2> QED
    BY <1>3, <2>2, <2>3
<1>9. /\ \A i \in 1 .. Count(usbq) : Press(U[i]) => /\ U[i].n <= m /\ r < U[i].n
                                                    /\ \A j \in 1 .. Count(efiq) : E[j].n < U[i].n
      /\ \A i, j \in 1 .. Count(usbq) : Press(U[i]) /\ i < j /\ Press(U[j]) => U[i].n < U[j].n
  BY <1>2 DEF PressesOk
<1> HIDE DEF r, m
<1>10. ASSUME NEW i \in 1 .. Count(usbq'), Press(U'[i])
       PROVE  /\ U'[i].n <= m /\ r < U'[i].n
              /\ \A j \in 1 .. Count(efiq) : E[j].n < U'[i].n
              /\ \A j \in 1 .. Count(usbq') : i < j /\ Press(U'[j]) => U'[i].n < U'[j].n
              /\ Press(U[k]) => U[k].n < U'[i].n
  <2>1. U'[i] = U[i + k] /\ i + k \in 1 .. Count(usbq) /\ k < i + k
    BY <1>8
  <2>2. ASSUME NEW j \in 1 .. Count(usbq'), i < j, Press(U'[j])
        PROVE  U'[i].n < U'[j].n
    <3>1. U'[j] = U[j + k] /\ j + k \in 1 .. Count(usbq)
      BY <1>8
    <3>2. i + k < j + k
      BY <1>3, <1>5, <1>8, <2>2
    <3> QED
      BY <1>9, <1>10, <2>1, <2>2, <3>1, <3>2
  <2> QED
    BY <1>5, <1>9, <1>10, <2>1, <2>2
<1>11. CASE UNCHANGED efiq
  <2>1. E' = E /\ Count(efiq') = Count(efiq)
    BY <1>11 DEF E
  <2>2. PressesOk'
    BY <1>7, <1>10, <2>1 DEF PressesOk
  <2>3. KeysOk'
    BY <1>2, <1>7, <2>1 DEF KeysOk, r, m
  <2>4. ReadOk'
    BY <1>1, <1>2, <1>7, <1>11, <2>1 DEF ReadOk, Writing, r, m
  <2> QED
    BY <2>2, <2>3, <2>4
<1>12. CASE /\ Last(ks).down /\ Last(ks).code \in Letters
            /\ efiq' = Enqueue(efiq, key)
            /\ happened' = happened \cup Mishap("dropped", IsQueueFull(efiq))
                     \cup Mishap("overrun", IsQueueFull(efiq) /\ app.pc \in {"slot", "copied"})
  <2> DEFINE f == IF IsQueueFull(efiq) THEN 1 ELSE 0
             d == efiq'
             N == Count(efiq)
  <2>1. key \in KeyData /\ key.n = U[k].n /\ Press(U[k])
    BY <1>5, <1>6, <1>12 DEF Convert, UsbKeys, KeyData, Press
  <2>2. /\ key.n <= m /\ r < key.n /\ key.n \in Nat
        /\ \A j \in 1 .. N : E[j].n < key.n
    BY <1>2, <1>5, <1>9, <2>1 DEF KeyTyped
  <2> HIDE DEF key
  <2>3. d = Enqueue(efiq, key) /\ f = IF IsQueueFull(efiq) THEN 1 ELSE 0
    BY <1>12
  <2> HIDE DEF d, f
  <2>4. d \in Queue(KeyData) /\ Count(d) = N + 1 - f /\ f \in 0 .. N
    BY <1>3, <2>1, <2>3, Enqueued
  <2>5. \A i \in 1 .. Count(d) : Contents(d)[i] = IF i + f <= N THEN Contents(efiq)[i + f] ELSE key
    BY <1>3, <2>1, <2>3, Enqueued
  <2> HIDE DEF N
  <2>6. N \in Nat /\ N = Count(efiq) /\ E' = Contents(d) /\ Count(efiq') = Count(d) /\ f \in {0, 1}
    BY <1>3, <2>3 DEF N, d, f
  <2>7. \A i \in 1 .. Count(d) : \/ i + f \in 1 .. N /\ E'[i] = E[i + f]
                                 \/ i = Count(d) /\ E'[i] = key
    <3>1. \A i \in 1 .. Count(d) : (i + f <= N /\ i + f \in 1 .. N) \/ (~(i + f <= N) /\ i = Count(d))
      BY <2>4, <2>6
    <3> QED
      BY <1>3, <2>5, <2>6, <3>1
  <2>8. /\ \A i \in 1 .. N : r < E[i].n /\ E[i].n <= m
        /\ \A i, j \in 1 .. N : i < j => E[i].n < E[j].n
    BY <1>2, <2>6 DEF KeysOk, r, m
  <2>9. PressesOk'
    <3>1. ASSUME NEW i \in 1 .. Count(usbq'), Press(U'[i]), NEW j \in 1 .. Count(d)
          PROVE  E'[j].n < U'[i].n
      BY <1>10, <2>1, <2>2, <2>6, <2>7, <3>1
    <3> QED
      BY <1>7, <1>10, <2>6, <3>1 DEF PressesOk
  <2>10. KeysOk'
    <3>1. \A i \in 1 .. Count(d) : r < E'[i].n /\ E'[i].n <= m
      BY <2>2, <2>7, <2>8
    <3>2. ASSUME NEW i \in 1 .. Count(d), NEW j \in 1 .. Count(d), i < j
          PROVE  E'[i].n < E'[j].n
      <4>1. i # Count(d) /\ i + f < j + f
        BY <2>4, <2>6, <3>2
      <4>2. i + f \in 1 .. N /\ E'[i] = E[i + f]
        BY <2>7, <4>1
      <4>3. CASE j + f \in 1 .. N /\ E'[j] = E[j + f]
        BY <2>8, <4>1, <4>2, <4>3
      <4>4. CASE E'[j] = key
        BY <2>2, <4>2, <4>4
      <4> QED
        BY <2>7, <4>3, <4>4
    <3> QED
      BY <1>7, <2>6, <3>1, <3>2 DEF KeysOk
  <2>11. ReadOk'
    <3>1. ASSUME app.pc \in {"slot", "copied"}
          PROVE  efiq'.head = efiq.head /\ Count(efiq') > 0 /\ E'[1] = E[1]
      <4>1. ~IsQueueFull(efiq)
        BY <1>12, <3>1 DEF Mishap, No
      <4>2. efiq'.head = efiq.head
        BY <1>3, <1>12, <4>1 DEF Enqueue, Put, Queue
      <4>3. N > 0
        BY <1>2, <2>6, <3>1 DEF ReadOk
      <4>4. f = 0
        BY <4>1 DEF f
      <4>5. Count(d) = N + 1 /\ 1 \in 1 .. Count(d) /\ 1 + f = 1 /\ 1 # Count(d)
        BY <2>4, <2>6, <4>3, <4>4
      <4>6. E'[1] = E[1]
        BY <2>7, <4>5
      <4> QED
        BY <2>6, <4>2, <4>3, <4>5, <4>6
    <3>2. read' <= Newest'
      BY <1>2, <1>7 DEF ReadOk, r, m
    <3> QED
      BY <1>1, <1>2, <3>1, <3>2 DEF ReadOk, Writing
  <2> QED
    BY <2>9, <2>10, <2>11
<1> QED
  BY <1>1, <1>11, <1>12

(* The letter of the repeat handler is the newest when it comes in.        *)
LEMMA KeyRepeat ==
  ASSUME TypeOK, TypeOK', RepeatOk, KeyPart, RepeatHandler, No({"garbled", "overrun"})'
  PROVE  PressesOk' /\ KeysOk' /\ ReadOk'
<1>1. happened \subseteq happened' /\ UNCHANGED <<efiq, app, read>>
  BY DEF RepeatHandler, RepeatFires, RepeatLoad, RepeatDrop, RepeatSlot, RepeatCopy, RepeatEnds, queues
<1>2. /\ PressesOk /\ KeysOk /\ ReadOk /\ KeyTyped /\ KeyTyped' /\ "garbled" \notin happened
  BY <1>1, KeyTypes, KeyTypesNext DEF KeyPart, No
<1>3. /\ usbq \in Queue(UsbKeys) /\ usbq' \in Queue(UsbKeys)
      /\ Count(usbq) \in Nat /\ Len(U) = Count(usbq) /\ U \in Seq(UsbKeys)
      /\ read \in Nat /\ Newest \in Int /\ Newest' \in Int /\ U = Contents(usbq) /\ U' = Contents(usbq')
      /\ E' = E /\ Count(efiq') = Count(efiq)
      /\ count.presses \in Nat
  BY <1>1, <1>2 DEF KeyTyped, U, E
<1>4. ASSUME Newest <= Newest', U' = U, Count(usbq') = Count(usbq),
             Writing' /\ cb'.item.code # None => cb'.item.n = count'.presses
      PROVE  PressesOk' /\ KeysOk' /\ ReadOk'
  <2>1. PressesOk' /\ KeysOk'
    BY <1>1, <1>2, <1>3, <1>4, KeyFrame
  <2>2. read' <= Newest'
    BY <1>1, <1>2, <1>3, <1>4 DEF ReadOk
  <2>3. ReadOk'
    BY <1>1, <1>2, <1>3, <1>4, <2>2 DEF ReadOk
  <2> QED
    BY <2>1, <2>3
<1>5. CASE RepeatFires \/ RepeatLoad
  <2>1. usbq' = usbq /\ ~Writing /\ ~Writing' /\ count' = count
    BY <1>5 DEF RepeatFires, RepeatLoad, queues, Goto, Writing, TypeOK
  <2>2. Newest' = Newest /\ U' = U
    BY <1>3, <2>1 DEF Newest
  <2>3. Newest <= Newest'
    BY <1>3, <2>2
  <2> QED
    BY <1>4, <2>1, <2>2, <2>3
<1>6. CASE RepeatDrop
  <2>1. /\ usbq' = Drop(usbq) /\ ~Writing /\ ~Writing' /\ ~IsQueueEmpty(usbq) /\ count' = count
    BY <1>6 DEF RepeatDrop, Goto, Writing, Mishap, No, TypeOK
  <2>2. Count(usbq) # 0
    BY <1>3, <2>1, CountIs
  <2>3. 1 \in 0 .. Count(usbq) /\ usbq' = [usbq EXCEPT !.head = (@ + 1) % (MaxKeys + 1)]
    BY <1>3, <2>1, <2>2 DEF Drop, After
  <2>4. /\ Count(usbq') = Count(usbq) - 1
        /\ \A i \in 1 .. Count(usbq') : Contents(usbq')[i] = Contents(usbq)[i + 1]
    BY <1>3, <2>3, Taken
  <2>5. Newest' = Newest
    BY <2>1 DEF Newest
  <2>6. \A i \in 1 .. Count(usbq') : U'[i] = U[i + 1] /\ i + 1 \in 1 .. Count(usbq)
    <3>1. \A i \in 1 .. Count(usbq') : i + 1 \in 1 .. Count(usbq)
      BY <1>3, <2>2, <2>4
    <3> QED
      BY <1>3, <2>4, <3>1
  <2>7. \A i, j \in 1 .. Count(usbq') : i < j => i + 1 < j + 1
    BY <1>3, <2>4
  <2>8. PressesOk'
    BY <1>1, <1>2, <1>3, <2>5, <2>6, <2>7 DEF PressesOk
  <2>9. KeysOk'
    BY <1>1, <1>2, <1>3, <2>5 DEF KeysOk
  <2>10. ReadOk'
    BY <1>1, <1>2, <1>3, <2>1, <2>5 DEF ReadOk
  <2> QED
    BY <2>8, <2>9, <2>10
<1>7. CASE RepeatSlot
  <2> DEFINE real == IF cb.item.code = None THEN 0 ELSE 1
  <2>1. /\ usbq' = usbq /\ cb.pc = "slot" /\ cb'.pc = "copy"
        /\ cb'.item.code = cb.item.code /\ cb'.item.n = (count.presses + 1) * real
        /\ count'.presses = count.presses + real
    BY <1>7 DEF RepeatSlot, queues, UsbKey, TypeOK
  <2>2. Newest = count.presses /\ Newest' = IF cb.item.code # None THEN count'.presses - 1 ELSE count'.presses
    BY <2>1 DEF Newest, Writing
  <2>3. Newest <= Newest' /\ (cb'.item.code # None => cb'.item.n = count'.presses)
    BY <1>3, <2>1, <2>2
  <2>4. U' = U
    BY <1>3, <2>1
  <2> QED
    BY <1>4, <2>1, <2>3, <2>4
<1>8. CASE RepeatCopy
  <2>1. /\ cb.pc = "copy" /\ usbq' = [usbq EXCEPT !.buf[cb.slot] = cb.item]
        /\ cb'.item = cb.item /\ cb'.pc = "tail" /\ count' = count
    BY <1>8 DEF RepeatCopy, Goto, TypeOK
  <2>2. cb.slot = usbq.tail
    BY <1>2, <2>1 DEF RepeatOk, Writing
  <2>3. U' = U /\ Count(usbq') = Count(usbq)
    <3>1. usbq'.head = usbq.head /\ usbq'.tail = usbq.tail /\ usbq'.buf = [usbq.buf EXCEPT ![usbq.tail] = cb.item]
      BY <1>3, <2>1, <2>2 DEF Queue
    <3> QED
      BY <1>3, <3>1, AtTail
  <2>4. Newest' = Newest /\ Writing
    BY <2>1 DEF Newest, Writing
  <2>5. Newest <= Newest' /\ (cb'.item.code # None => cb'.item.n = count'.presses)
    BY <1>2, <1>3, <2>1, <2>4 DEF ReadOk
  <2> QED
    BY <1>4, <2>3, <2>5
<1>9. CASE RepeatEnds
  <2> DEFINE y == cb.item
             N == Count(usbq)
             m == Newest
             p == count.presses
             r == read
  <2>1. /\ cb.pc = "tail" /\ usbq' = [usbq EXCEPT !.tail = After(@)] /\ cb' = Waiting /\ ~IsQueueFull(usbq)
        /\ count' = count
    BY <1>9 DEF RepeatEnds, Mishap, No
  <2>2. usbq.buf[usbq.tail] = y /\ Writing /\ y \in UsbKeys
    BY <1>2, <2>1 DEF RepeatOk, Writing, TypeOK
  <2>3. usbq' = [head |-> usbq.head, tail |-> After(usbq.tail), buf |-> [usbq.buf EXCEPT ![usbq.tail] = y]]
    <3>1. [usbq.buf EXCEPT ![usbq.tail] = y] = usbq.buf
      BY <1>3, <2>2 DEF Queue
    <3> QED
      BY <1>3, <2>1, <3>1 DEF Queue
  <2>4. /\ Count(usbq') = Count(usbq) + 1
        /\ \A i \in 1 .. Count(usbq') :
             Contents(usbq')[i] = IF i <= Count(usbq) THEN Contents(usbq)[i] ELSE y
    <3> DEFINE d == usbq'
    <3>1. /\ d = [head |-> usbq.head, tail |-> After(usbq.tail), buf |-> [usbq.buf EXCEPT ![usbq.tail] = y]]
          /\ y \in UsbKeys /\ usbq \in Queue(UsbKeys) /\ ~IsQueueFull(usbq)
      BY <1>3, <2>1, <2>2, <2>3
    <3> HIDE DEF d, y
    <3>2. Count(d) = Count(usbq) + 1
      BY <3>1, Added
    <3>3. \A i \in 1 .. Count(d) : Contents(d)[i] = IF i <= Count(usbq) THEN Contents(usbq)[i] ELSE y
      BY <3>1, Added
    <3> QED
      BY <3>2, <3>3 DEF d
  <2>5. \A i \in 1 .. Count(usbq') : \/ i \in 1 .. N /\ U'[i] = U[i]
                                     \/ i = N + 1 /\ U'[i] = y
    <3>1. \A i \in 1 .. N + 1 : (i <= N /\ i \in 1 .. N) \/ (~(i <= N) /\ i = N + 1)
      BY <1>3
    <3> HIDE DEF y
    <3> QED
      BY <1>3, <2>4, <3>1
  <2>6. /\ Newest' = p /\ m = (IF y.code # None THEN p - 1 ELSE p)
        /\ y.code # None => y.n = p
    BY <1>2, <2>1, <2>2 DEF Newest, Writing, ReadOk, Waiting
  <2>7. /\ p \in Nat /\ m \in Int /\ m <= p /\ (Press(y) => m < y.n /\ y.n <= p)
        /\ r \in Nat /\ r <= m
    <3>1. None \notin Letters
      BY KeyboardAssumption DEF Codes
    <3>2. Press(y) => y.code # None
      BY <3>1 DEF Press
    <3>3. r \in Nat /\ r <= m /\ p \in Nat /\ m \in Int
      BY <1>2, <1>3 DEF ReadOk
    <3> HIDE DEF y, m, p, r
    <3> QED
      BY <2>6, <3>2, <3>3
  <2>8. /\ \A i \in 1 .. N : Press(U[i]) => /\ U[i].n <= m /\ r < U[i].n /\ U[i].n \in Nat
                                            /\ \A j \in 1 .. Count(efiq) : E[j].n < U[i].n
        /\ \A i, j \in 1 .. N : Press(U[i]) /\ i < j /\ Press(U[j]) => U[i].n < U[j].n
        /\ \A j \in 1 .. Count(efiq) : r < E[j].n /\ E[j].n <= m /\ E[j].n \in Nat
    BY <1>2 DEF PressesOk, KeysOk, KeyTyped
  <2>9. y.n \in Nat /\ N \in Nat
    BY <1>3, <2>2, KeyboardAssumption DEF UsbKeys
  <2> HIDE DEF y, N, m, p, r
  <2>10. ASSUME NEW i \in 1 .. Count(usbq'), Press(U'[i])
         PROVE  /\ U'[i].n <= p /\ r < U'[i].n
                /\ \A j \in 1 .. Count(efiq) : E[j].n < U'[i].n
                /\ \A j \in 1 .. Count(usbq') : i < j /\ Press(U'[j]) => U'[i].n < U'[j].n
    <3>1. CASE i \in 1 .. N /\ U'[i] = U[i]
      <4>1. /\ U[i].n <= m /\ r < U[i].n /\ U[i].n \in Nat
            /\ \A j \in 1 .. Count(efiq) : E[j].n < U[i].n
        BY <2>8, <2>10, <3>1
      <4>2. ASSUME NEW j \in 1 .. Count(usbq'), i < j, Press(U'[j])
            PROVE  U[i].n < U'[j].n
        <5>1. CASE j \in 1 .. N /\ U'[j] = U[j]
          BY <2>8, <2>10, <3>1, <4>2, <5>1
        <5>2. CASE U'[j] = y
          BY <2>7, <2>9, <4>1, <4>2, <5>2
        <5> QED
          BY <2>5, <5>1, <5>2
      <4>3. U[i].n <= p
        BY <2>7, <4>1
      <4> QED
        BY <3>1, <4>1, <4>2, <4>3
    <3>2. CASE i = N + 1 /\ U'[i] = y
      <4>1. \A j \in 1 .. Count(usbq') : ~(i < j)
        BY <2>4, <2>9, <3>2 DEF N
      <4>2. /\ y.n <= p /\ m < y.n
        BY <2>7, <2>10, <3>2
      <4>3. r < y.n /\ \A j \in 1 .. Count(efiq) : E[j].n < y.n
        BY <2>7, <2>8, <2>9, <4>2
      <4> QED
        BY <3>2, <4>1, <4>2, <4>3
    <3> QED
      BY <2>5, <3>1, <3>2
  <2>11. Newest' = p /\ read' = r
    BY <1>1, <2>6 DEF r
  <2>12. PressesOk'
    BY <1>3, <2>10, <2>11 DEF PressesOk
  <2>13. KeysOk'
    <3>1. \A j \in 1 .. Count(efiq) : E[j].n <= p
      BY <2>7, <2>8
    <3>2. /\ \A i \in 1 .. Count(efiq) : r < E[i].n
          /\ \A i, j \in 1 .. Count(efiq) : i < j => E[i].n < E[j].n
      BY <1>2 DEF KeysOk, r
    <3> QED
      BY <1>3, <2>11, <3>1, <3>2 DEF KeysOk
  <2>14. ReadOk'
    <3>1. r <= p
      BY <2>7
    <3> QED
      BY <1>1, <1>2, <1>3, <2>1, <2>11, <3>1 DEF ReadOk, Writing, Waiting
  <2> QED
    BY <2>12, <2>13, <2>14
<1> QED
  BY <1>5, <1>6, <1>7, <1>8, <1>9 DEF RepeatHandler

(* A client reads the oldest keystroke.                                    *)
LEMMA KeyClient ==
  ASSUME TypeOK, TypeOK', KeyPart, Client, No({"garbled", "overrun"})'
  PROVE  PressesOk' /\ KeysOk' /\ ReadOk'
<1>1. happened \subseteq happened' /\ UNCHANGED <<cb, count>> /\ cb.pc = "idle"
  BY DEF Client, ReadKeyStroke, ReadStarts, ReadCopies, ReadEnds, Reset, InitUSBKeyboard, ResetFlags,
         ResetLast, ResetRecovery, ResetEnds, Stop, StopTransfer, StopEnds, Goto
<1>2. /\ PressesOk /\ KeysOk /\ ReadOk /\ KeyTyped /\ KeyTyped'
  BY <1>1, KeyTypes, KeyTypesNext DEF KeyPart, No
<1>3. /\ usbq \in Queue(UsbKeys) /\ efiq \in Queue(KeyData) /\ efiq' \in Queue(KeyData)
      /\ Count(usbq) \in Nat /\ Count(efiq) \in Nat
      /\ read \in Nat /\ Newest \in Int
      /\ E = Contents(efiq) /\ E' = Contents(efiq')
      /\ app = [pc |-> app.pc, slot |-> app.slot, item |-> app.item]
  BY <1>2 DEF KeyTyped, E, TypeOK
<1>4. Newest' = Newest /\ ~Writing /\ ~Writing' /\ Newest <= Newest'
  <2>1. Newest' = Newest /\ ~Writing /\ ~Writing'
    BY <1>1 DEF Newest, Writing
  <2> QED
    BY <1>3, <2>1
<1>5. ASSUME UNCHANGED <<usbq, efiq, read>>,
             app'.pc \in {"slot", "copied"} => app'.slot = efiq.head /\ Count(efiq) > 0,
             app'.pc = "copied" => app'.item = E[1]
      PROVE  PressesOk' /\ KeysOk' /\ ReadOk'
  <2>1. U' = U /\ E' = E /\ Count(usbq') = Count(usbq) /\ Count(efiq') = Count(efiq)
    BY <1>5 DEF U, E
  <2>2. PressesOk' /\ KeysOk'
    BY <1>2, <1>4, <1>5, <2>1, KeyFrame
  <2>3. ReadOk'
    BY <1>2, <1>4, <1>5, <2>1 DEF ReadOk
  <2> QED
    BY <2>2, <2>3
<1>6. ASSUME usbq' = NewQueue(NoUsbKey), efiq' = NewQueue(NoKey), read' = count.presses,
             app'.pc \notin {"slot", "copied"}
      PROVE  PressesOk' /\ KeysOk' /\ ReadOk'
  <2>1. Count(usbq') = 0 /\ Count(efiq') = 0 /\ \A i \in 1 .. 0 : FALSE
    BY <1>6, NewQueues
  <2>2. read' = Newest' /\ read' <= Newest'
    BY <1>3, <1>4, <1>6 DEF Newest
  <2> QED
    BY <1>2, <1>4, <1>6, <2>1, <2>2 DEF PressesOk, KeysOk, ReadOk
<1>7. CASE ReadStarts
  <2>1. /\ ~IsQueueEmpty(efiq) /\ app'.pc = "slot" /\ app'.slot = efiq.head
        /\ UNCHANGED <<usbq, efiq, read>>
    BY <1>3, <1>7 DEF ReadStarts, queues
  <2>2. Count(efiq) > 0
    <3>1. Count(efiq) # 0
      BY <1>3, <2>1, CountIs
    <3> QED
      BY <1>3, <3>1
  <2> QED
    BY <1>5, <2>1, <2>2
<1>8. CASE ReadCopies
  <2>1. /\ app.pc = "slot" /\ app'.pc = "copied" /\ app'.slot = efiq.head /\ app'.item = efiq.buf[app.slot]
        /\ UNCHANGED <<usbq, efiq, read>>
    BY <1>8 DEF ReadCopies, queues
  <2>2. app.slot = efiq.head /\ Count(efiq) > 0
    BY <1>2, <2>1 DEF ReadOk
  <2>3. E[1] = efiq.buf[efiq.head]
    <3>1. 1 \in 1 .. Count(efiq)
      BY <1>3, <2>2
    <3>2. E[1] = efiq.buf[At(efiq, 1)]
      BY <1>3, <3>1, CountIs
    <3>3. At(efiq, 1) = efiq.head
      <4>1. efiq.head \in 0 .. MaxKeys /\ MaxKeys \in Nat
        BY <1>3, QueueSizeAssumption DEF Queue, Slots
      <4> QED
        BY <4>1 DEF At, Wrap
    <3> QED
      BY <3>2, <3>3
  <2> QED
    BY <1>5, <2>1, <2>2, <2>3
<1>9. CASE ReadEnds
  <2>1. app.pc = "copied" /\ read' = app.item.n /\ app' = Idle /\ usbq' = usbq
    BY <1>9 DEF ReadEnds
  <2>2. app.slot = efiq.head /\ Count(efiq) > 0 /\ app.item = E[1]
    BY <1>2, <2>1 DEF ReadOk
  <2>3. 1 \in 0 .. Count(efiq) /\ 1 \in 1 .. Count(efiq)
    BY <1>3, <2>2
  <2>4. efiq' = [efiq EXCEPT !.head = (@ + 1) % (MaxKeys + 1)]
    BY <1>9, <2>2 DEF ReadEnds, After
  <2>5. /\ Count(efiq') = Count(efiq) - 1
        /\ \A i \in 1 .. Count(efiq') : Contents(efiq')[i] = Contents(efiq)[i + 1]
    BY <1>3, <2>3, <2>4, Taken
  <2>6. \A i \in 1 .. Count(efiq') : E'[i] = E[i + 1] /\ i + 1 \in 1 .. Count(efiq) /\ 1 < i + 1
    <3>1. \A i \in 1 .. Count(efiq') : i + 1 \in 1 .. Count(efiq) /\ 1 < i + 1
      BY <1>3, <2>3, <2>5
    <3> QED
      BY <1>3, <2>5, <3>1
  <2>7. \A i, j \in 1 .. Count(efiq') : i < j => i + 1 < j + 1
    BY <1>3, <2>5
  <2>8. read' = E[1].n /\ U' = U
    BY <2>1, <2>2 DEF U
  <2>9. /\ \A i \in 1 .. Count(efiq) : E[i].n <= Newest
        /\ \A i, j \in 1 .. Count(efiq) : i < j => E[i].n < E[j].n
    BY <1>2 DEF KeysOk
  <2>10. PressesOk'
    <3>1. \A i \in 1 .. Count(usbq) : Press(U[i]) =>
            /\ U[i].n <= Newest
            /\ \A j \in 1 .. Count(efiq) : E[j].n < U[i].n
            /\ \A j \in 1 .. Count(usbq) : i < j /\ Press(U[j]) => U[i].n < U[j].n
      BY <1>2 DEF PressesOk
    <3>2. \A i \in 1 .. Count(usbq) : Press(U[i]) =>
            read' < U[i].n /\ \A j \in 1 .. Count(efiq') : E'[j].n < U[i].n
      BY <2>3, <2>6, <2>8, <3>1
    <3> QED
      BY <1>4, <2>1, <2>8, <3>1, <3>2 DEF PressesOk
  <2>11. KeysOk'
    BY <1>4, <2>3, <2>6, <2>7, <2>8, <2>9 DEF KeysOk
  <2>12. ReadOk'
    BY <1>4, <2>1, <2>3, <2>8, <2>9 DEF ReadOk, Idle
  <2> QED
    BY <2>10, <2>11, <2>12
<1>10. ASSUME NEW b \in BOOLEAN, Reset(b)
       PROVE  PressesOk' /\ KeysOk' /\ ReadOk'
  <2>1. /\ app'.pc \in {"flags", "idle"} /\ usbq' = NewQueue(NoUsbKey) /\ efiq' = NewQueue(NoKey) /\ read' = count.presses
    BY <1>3, <1>10 DEF Reset, Goto
  <2> QED
    BY <1>6, <2>1
<1>11. CASE InitUSBKeyboard \/ StopTransfer
  <2>1. /\ UNCHANGED <<usbq, efiq, read>> /\ app'.pc \notin {"slot", "copied"}
    BY <1>3, <1>11 DEF InitUSBKeyboard, ResetFlags, ResetLast, ResetRecovery, ResetEnds, StopTransfer, Goto, queues
  <2> QED
    BY <1>5, <2>1
<1>12. CASE StopEnds
  <2>1. /\ app'.pc = "gone" /\ usbq' = NewQueue(NoUsbKey) /\ efiq' = NewQueue(NoKey) /\ read' = count.presses
    BY <1>3, <1>12 DEF StopEnds, Goto
  <2> QED
    BY <1>6, <2>1
<1> QED
  BY <1>7, <1>8, <1>9, <1>10, <1>11, <1>12 DEF Client, ReadKeyStroke, Stop

(* The keystrokes are in order after a step.                               *)
LEMMA KeyNext ==
  ASSUME Basics, Basics', KeyPart, [Next]_vars
  PROVE  KeyPart'
<1> SUFFICES ASSUME No({"garbled", "overrun"})'
             PROVE  PressesOk' /\ KeysOk' /\ ReadOk'
  BY DEF KeyPart
<1>1. TypeOK /\ TypeOK' /\ RepeatOk
  BY DEF Basics
<1>2. CASE \E now \in SUBSET Codes : Report(now)
  BY <1>1, <1>2, KeyReport
<1>3. CASE ReportError \/ (\E b \in BOOLEAN : Recover(b)) \/ NotifyHandler \/ UNCHANGED vars
  <2>1. UNCHANGED <<usbq, efiq, app, cb, count, read>> /\ happened \subseteq happened'
    BY <1>3 DEF ReportError, Recover, NotifyHandler, queues, vars
  <2>2. PressesOk /\ KeysOk /\ ReadOk
    BY <2>1 DEF KeyPart, No
  <2>3. U' = U /\ E' = E /\ Count(usbq') = Count(usbq) /\ Count(efiq') = Count(efiq)
    BY <2>1 DEF U, E
  <2>4. Newest' = Newest /\ Newest \in Int
    BY <1>1, <2>1, KeyTypes DEF Newest, Writing, KeyTyped
  <2>5. PressesOk' /\ KeysOk'
    BY <1>1, <2>1, <2>2, <2>3, <2>4, KeyFrame
  <2>6. ReadOk'
    BY <2>1, <2>2, <2>3, <2>4 DEF ReadOk, Writing
  <2> QED
    BY <2>5, <2>6
<1>4. CASE TimerHandler
  BY <1>1, <1>4, KeyTimer
<1>5. CASE RepeatHandler
  BY <1>1, <1>5, KeyRepeat
<1>6. CASE Client
  BY <1>1, <1>6, KeyClient
<1> QED
  BY <1>2, <1>3, <1>4, <1>5, <1>6 DEF Next, AtNotify, AtCallback

-----------------------------------------------------------------------------
(* No press is lost.                                                       *)

LostPart ==
  /\ "overrun" \in happened => "dropped" \in happened
  /\ No({"garbled", "dropped"}) => Marked /\ Wanted

(* A full EfiKeyQueue that is written under the client's read has thrown a *)
(* letter out.                                                             *)
LEMMA OverrunDrops ==
  ASSUME LostPart, [Next]_vars
  PROVE  happened \subseteq happened' /\ ("overrun" \in happened' => "dropped" \in happened')
<1> USE DEF LostPart, Mishap
<1>1. CASE \E now \in SUBSET Codes : Report(now)
  <2>1. PICK now, ev : happened' = happened \cup ReportMishaps(now, ev)
    BY <1>1 DEF Report
  <2> QED
    BY <2>1 DEF ReportMishaps
<1>2. CASE ReportError \/ \E b \in BOOLEAN : Recover(b)
  BY <1>2 DEF ReportError, Recover
<1>3. CASE TimerHandler
  <2>1. \/ UNCHANGED happened
        \/ happened' = happened \cup Mishap("dropped", IsQueueFull(efiq)) \cup
                         Mishap("overrun", IsQueueFull(efiq) /\ app.pc \in {"slot", "copied"})
    BY <1>3 DEF TimerHandler
  <2> QED
    BY <2>1
<1>4. CASE RepeatHandler
  BY <1>4 DEF RepeatHandler, RepeatFires, RepeatLoad, RepeatDrop, RepeatSlot, RepeatCopy, RepeatEnds
<1>5. CASE NotifyHandler \/ UNCHANGED vars
  BY <1>5 DEF NotifyHandler, vars
<1>6. CASE Client
  BY <1>6 DEF Client, ReadKeyStroke, ReadStarts, ReadCopies, ReadEnds, Reset, InitUSBKeyboard, ResetFlags,
              ResetLast, ResetRecovery, ResetEnds, Stop, StopTransfer, StopEnds
<1> QED
  BY <1>1, <1>2, <1>3, <1>4, <1>5, <1>6 DEF Next, AtNotify, AtCallback

(* The presses of a report are put in, and none is thrown out for them.    *)
LEMMA LostReport ==
  ASSUME TypeOK, TypeOK', Marked, Wanted, NEW now \in SUBSET Codes, Report(now),
         No({"garbled", "dropped"})'
  PROVE  Marked' /\ Wanted'
<1>1. PICK mods \in SetToSeqs(Changed(now)), ups \in SetToSeqs(Released(now) \cap Letters),
           downs \in SetToSeqs(Pressed(now) \cap Letters) :
             LET events == KeyEvents(now, mods, ups, downs)
             IN /\ usbq' = EnqueueAll(usbq, events)
                /\ count' = [count EXCEPT !.presses = @ + Len(downs), !.reports = @ + 1]
                /\ happened' = happened \cup ReportMishaps(now, events)
  BY Zenon DEF Report, Changed
<1> DEFINE ev == KeyEvents(now, mods, ups, downs)
           w == U \o ev
           C == Count(usbq)
           N == Len(ev)
           p == count.presses
           l == Len(mods) + Len(ups)
           n == Len(downs)
           k == IF C + N > MaxKeys THEN C + N - MaxKeys ELSE 0
<1>2. UNCHANGED <<efiq, app, cb, read>>
  BY DEF Report
<1>3. ~Writing /\ ~HasPress(IF Len(w) > MaxKeys THEN SubSeq(w, 1, Len(w) - MaxKeys) ELSE <<>>)
  <2>1. happened' = happened \cup ReportMishaps(now, ev)
    BY <1>1
  <2>2. ReportMishaps(now, ev) \cap {"garbled", "dropped"} = {}
    BY <2>1 DEF No
  <2>3. ReportMishaps(now, ev) =
          Mishap("lost", HasShift(IF Len(w) > MaxKeys THEN SubSeq(w, 1, Len(w) - MaxKeys) ELSE <<>>)
                         \/ app.pc \in {"flags", "last"})
          \cup Mishap("dropped", HasPress(IF Len(w) > MaxKeys THEN SubSeq(w, 1, Len(w) - MaxKeys) ELSE <<>>))
          \cup Mishap("garbled", cb.pc \in {"copy", "tail"})
          \cup Mishap("pair", Released(now) \cap Shifts # {} /\ now \cap Shifts # {})
    BY DEF ReportMishaps, U
  <2> HIDE DEF w, ev
  <2> QED
    BY <2>2, <2>3 DEF Mishap, Writing
<1>4. KeyTyped /\ KeyTyped'
  BY KeyTypes, KeyTypesNext
<1>5. Reported(now, mods, ups, downs, ev)
  <2>1. /\ count.presses + Cardinality(Pressed(now) \cap Letters) + (IF Repeating THEN 1 ELSE 0) <= MaxPresses
    BY DEF Report
  <2>2. Cardinality(Pressed(now) \cap Letters) \in Nat
    <3>1. Pressed(now) \cap Letters \subseteq Codes
      BY DEF Pressed
    <3> QED
      BY <3>1, KeyboardAssumption, FS_Subset, FS_CardinalityType
  <2>3. count.presses + Cardinality(Pressed(now) \cap Letters) <= MaxPresses
    BY <2>1, <2>2, KeyboardAssumption DEF TypeOK
  <2> QED
    BY <2>3, Events3
<1>6. /\ ev \in Seq(UsbKeys) /\ N = l + n /\ l \in Nat /\ n \in Nat
      /\ \A i \in 1 .. N : ev[i].n # 0 => Press(ev[i])
      /\ \A i \in 1 .. n : ev[i + l].n = p + i
  <2> HIDE DEF ev
  <2>1. /\ ev \in Seq(UsbKeys) /\ Len(ev) = Len(mods) + Len(ups) + Len(downs)
        /\ Len(mods) \in Nat /\ Len(ups) \in Nat /\ n \in Nat
        /\ \A i \in 1 .. Len(ev) : ev[i].n # 0 => Press(ev[i])
    BY <1>5 DEF Reported
  <2>2. \A i \in 1 .. n : ev[i + l].n = p + i
    BY <1>5, Zenon DEF Reported
  <2> QED
    BY <2>1, <2>2
<1>7. usbq' = EnqueueAll(usbq, ev) /\ count'.presses = p + n
  BY <1>1 DEF TypeOK
<1> HIDE DEF ev
<1>8. /\ C \in Nat /\ N \in Nat /\ MaxKeys \in Nat /\ p \in Nat /\ read \in Nat
      /\ U \in Seq(UsbKeys) /\ Len(U) = C /\ usbq \in Queue(UsbKeys)
  BY <1>4, <1>6, QueueSizeAssumption DEF KeyTyped
<1>9. /\ w \in Seq(UsbKeys) /\ Len(w) = C + N
      /\ \A i \in 1 .. C : w[i] = U[i]
      /\ \A i \in 1 .. N : w[i + C] = ev[i]
  <2>0. U \in Seq(UsbKeys) /\ ev \in Seq(UsbKeys)
    BY <1>6, <1>8
  <2>1. U \o ev \in Seq(UsbKeys) /\ Len(U \o ev) = Len(U) + Len(ev)
    BY <2>0, Joined
  <2>2. \A i \in 1 .. Len(U) : (U \o ev)[i] = U[i]
    BY <2>0, Joined
  <2>3. \A i \in 1 .. Len(ev) : (U \o ev)[i + Len(U)] = ev[i]
    BY <2>0, Joined
  <2> QED
    BY <1>8, <2>1, <2>2, <2>3
<1>10. k \in 0 .. C + N
  BY <1>8
<1>11. /\ Count(usbq') = C + N - k
       /\ \A i \in 1 .. Count(usbq') : U'[i] = IF i + k <= C THEN U[i + k] ELSE ev[i + k - C]
  <2>1. Given(usbq, usbq', ev, N)
    BY <1>6, <1>7, <1>8, AllEnqueued
  <2> QED
    BY <2>1 DEF Given, U
<1>12. \A i \in 1 .. k : w[i].n = 0
  <2> HIDE DEF w, C, N
  <2>1. CASE C + N > MaxKeys
    <3>1. k = C + N - MaxKeys /\ k \in 0 .. Len(w)
      BY <1>8, <1>9, <2>1
    <3> HIDE DEF k
    <3>4. Len(w) > MaxKeys /\ k = Len(w) - MaxKeys
      BY <1>8, <1>9, <2>1, <3>1
    <3>5. ~HasPress(SubSeq(w, 1, Len(w) - MaxKeys))
      BY <1>3, <3>4
    <3>2. ~HasPress(SubSeq(w, 1, k))
      BY <3>4, <3>5
    <3>3. DOMAIN SubSeq(w, 1, k) = 1 .. k /\ \A i \in 1 .. k : SubSeq(w, 1, k)[i] = w[i]
      <4>1. SubSeq(w, 1, k) \in Seq(UsbKeys) /\ Len(SubSeq(w, 1, k)) = k
        BY <1>9, <3>1, Prefix
      <4>2. \A i \in 1 .. k : SubSeq(w, 1, k)[i] = w[i]
        BY <1>9, <3>1, Prefix
      <4> QED
        BY <4>1, <4>2
    <3> QED
      BY <3>2, <3>3 DEF HasPress
  <2>2. CASE ~(C + N > MaxKeys)
    BY <2>2
  <2> QED
    BY <2>1, <2>2
<1> HIDE DEF k, w, C, N, l, n, p
<1>13. \A i \in 1 .. Count(usbq') :
         \/ i + k \in 1 .. C /\ U'[i] = U[i + k]
         \/ i + k - C \in 1 .. N /\ U'[i] = ev[i + k - C]
  <2>1. \A i \in 1 .. Count(usbq') : /\ i + k <= C => i + k \in 1 .. C
                                     /\ ~(i + k <= C) => i + k - C \in 1 .. N
    BY <1>8, <1>10, <1>11
  <2> QED
    BY <1>11, <2>1
<1>14. Marked'
  <2>1. \A i \in 1 .. Count(usbq') : U'[i].n # 0 => Press(U'[i])
    BY <1>6, <1>13 DEF Marked, C
  <2>2. ~Writing'
    BY <1>2, <1>3 DEF Writing
  <2> QED
    BY <2>1, <2>2 DEF Marked
<1>15. ASSUME NEW x \in 1 .. C + N, w[x].n # 0
       PROVE  \E i \in 1 .. Count(usbq') : U'[i].n = w[x].n
  <2>1. x > k
    BY <1>8, <1>10, <1>12, <1>15
  <2>2. x - k \in 1 .. Count(usbq') /\ (x - k) + k = x
    BY <1>8, <1>10, <1>11, <2>1
  <2>3. CASE x <= C
    <3>1. U'[x - k] = U[x] /\ w[x] = U[x]
      BY <1>8, <1>9, <1>11, <2>2, <2>3
    <3> QED
      BY <2>2, <3>1
  <2>4. CASE ~(x <= C)
    <3>1. x - C \in 1 .. N /\ (x - C) + C = x
      BY <1>8, <2>4
    <3>3. w[x] = ev[x - C]
      BY <1>9, <3>1
    <3>4. U'[x - k] = IF (x - k) + k <= C THEN U[(x - k) + k] ELSE ev[(x - k) + k - C]
      BY <1>11, <2>2
    <3>5. ~((x - k) + k <= C) /\ (x - k) + k - C = x - C
      BY <1>8, <1>10, <2>2, <2>4
    <3>6. U'[x - k] = ev[(x - k) + k - C]
      BY <3>4, <3>5
    <3>2. U'[x - k] = ev[x - C] /\ w[x] = ev[x - C]
      BY <3>3, <3>5, <3>6
    <3> QED
      BY <2>2, <3>2
  <2> QED
    BY <2>3, <2>4
<1>16. ASSUME NEW y \in read' + 1 .. count'.presses
       PROVE  Kept(y)'
  <2>1. y \in read + 1 .. p + n /\ y # 0
    BY <1>2, <1>6, <1>7, <1>8
  <2>2. CASE y <= p
    <3>1. Kept(y)
      <4>1. y \in read + 1 .. p
        BY <1>6, <1>8, <2>1, <2>2
      <4> QED
        BY <4>1 DEF Wanted, p
    <3>2. CASE \E i \in 1 .. Count(efiq) : E[i].n = y
      BY <1>2, <3>2 DEF Kept, E
    <3>3. CASE \E i \in 1 .. C : U[i].n = y
      <4>1. PICK i \in 1 .. C : U[i].n = y
        BY <3>3
      <4>2. i \in 1 .. C + N /\ w[i].n = y
        BY <1>8, <1>9, <4>1
      <4> QED
        BY <1>15, <2>1, <4>2 DEF Kept
    <3> QED
      BY <1>3, <3>1, <3>2, <3>3 DEF Kept, C
  <2>3. CASE ~(y <= p)
    <3>1. y - p \in 1 .. n /\ p + (y - p) = y
      BY <1>6, <1>8, <2>1, <2>3
    <3>4. ev[(y - p) + l].n = p + (y - p)
      BY <1>6, <3>1
    <3>2. (y - p) + l \in 1 .. N /\ ev[(y - p) + l].n = y
      BY <1>6, <1>8, <3>1, <3>4
    <3>3. (y - p) + l + C \in 1 .. C + N /\ w[(y - p) + l + C] = ev[(y - p) + l]
      BY <1>6, <1>8, <1>9, <3>1, <3>2
    <3> QED
      BY <1>15, <2>1, <3>2, <3>3 DEF Kept
  <2> QED
    BY <1>8, <2>2, <2>3
<1> QED
  BY <1>14, <1>16 DEF Wanted

(* What leaves the queues and the number of the last press alone           *)
LEMMA LostFrame ==
  ASSUME Marked, Wanted, U' = U, E' = E, Count(usbq') = Count(usbq), Count(efiq') = Count(efiq),
         read' = read, count'.presses = count.presses,
         Writing' <=> Writing, Writing => cb'.item = cb.item
  PROVE  Marked' /\ Wanted'
<1>1. Marked'
  BY DEF Marked
<1>2. \A n : Kept(n) => Kept(n)'
  BY DEF Kept
<1> QED
  BY <1>1, <1>2 DEF Wanted

(* The letter that the timer's handler takes from one queue it puts into   *)
(* the other.                                                              *)
LEMMA LostTimer ==
  ASSUME TypeOK, TypeOK', Marked, Wanted, TimerHandler, No({"garbled", "dropped"})'
  PROVE  Marked' /\ Wanted'
<1> DEFINE ks == Parsed(usbq)
           on == ShiftAfter(ks, shift)
           key == Convert(Last(ks), on)
           N == Count(efiq)
           C == Count(usbq)
<1>1. /\ ks # <<>> /\ usbq' = Popped(usbq, ks)
      /\ \/ ~(Last(ks).down /\ Last(ks).code \in Letters) /\ UNCHANGED efiq
         \/ /\ Last(ks).down /\ Last(ks).code \in Letters
            /\ efiq' = Enqueue(efiq, key) /\ ~IsQueueFull(efiq)
      /\ UNCHANGED <<app, cb, count, read>>
  BY DEF TimerHandler, Mishap, No
<1>2. KeyTyped /\ KeyTyped' /\ shift \in BOOLEAN
  BY KeyTypes, KeyTypesNext DEF TypeOK
<1>3. /\ usbq \in Queue(UsbKeys) /\ efiq \in Queue(KeyData)
      /\ C \in Nat /\ N \in Nat /\ read \in Nat
      /\ U = Contents(usbq) /\ E = Contents(efiq) /\ U' = Contents(usbq') /\ E' = Contents(efiq')
  BY <1>2 DEF KeyTyped, U, E
<1>4. PICK k : Parses(usbq, k)
  BY <1>3, Parsing
<1>5. k \in 1 .. C /\ Len(ks) = k /\ Last(ks) = U[k] /\ U[k] \in UsbKeys
  BY <1>1, <1>3, <1>4, LastParsed DEF U
<1>6. on \in BOOLEAN
  BY <1>2, <1>3, <1>4, ParsedDecides
<1>7. \A i \in 1 .. k - 1 : U[i].n = 0
  <2>1. None \notin Letters
    BY KeyboardAssumption DEF Codes
  <2>2. \A i \in 1 .. k - 1 : ~Press(U[i])
    BY <1>4, <2>1 DEF Parses, Press, U
  <2>3. \A i \in 1 .. k - 1 : i \in 1 .. C
    BY <1>3, <1>5
  <2> QED
    BY <2>2, <2>3 DEF Marked
<1> HIDE DEF ks, on
<1>8. /\ Count(usbq') = C - k
      /\ \A i \in 1 .. Count(usbq') : U'[i] = U[i + k] /\ i + k \in 1 .. C
  <2>1. usbq' = [usbq EXCEPT !.head = (@ + k) % (MaxKeys + 1)] /\ k \in 0 .. Count(usbq)
    BY <1>1, <1>3, <1>5 DEF Popped
  <2>2. /\ Count(usbq') = Count(usbq) - k
        /\ \A i \in 1 .. Count(usbq') : Contents(usbq')[i] = Contents(usbq)[i + k]
    BY <1>3, <2>1, Taken
  <2>3. \A i \in 1 .. Count(usbq') : i + k \in 1 .. Count(usbq)
    BY <1>3, <1>5, <2>2
  <2> QED
    BY <1>3, <2>2, <2>3
<1>9. /\ \A i \in 1 .. N : \E j \in 1 .. Count(efiq') : E'[j].n = E[i].n
      /\ Press(U[k]) => \E j \in 1 .. Count(efiq') : E'[j].n = U[k].n
  <2>1. CASE ~(Last(ks).down /\ Last(ks).code \in Letters) /\ UNCHANGED efiq
    BY <1>3, <1>5, <2>1 DEF Press
  <2>2. CASE /\ Last(ks).down /\ Last(ks).code \in Letters
             /\ efiq' = Enqueue(efiq, key) /\ ~IsQueueFull(efiq)
    <3> DEFINE d == efiq'
               f == IF IsQueueFull(efiq) THEN 1 ELSE 0
    <3>1. key \in KeyData /\ key.n = U[k].n
      BY <1>5, <1>6, <2>2 DEF Convert, UsbKeys, KeyData
    <3> HIDE DEF key
    <3>2. d = Enqueue(efiq, key) /\ f = 0
      BY <2>2
    <3>3. f = IF IsQueueFull(efiq) THEN 1 ELSE 0
      OBVIOUS
    <3> HIDE DEF d, f
    <3>4. Count(d) = N + 1 - f
      BY <1>3, <3>1, <3>2, <3>3, Enqueued
    <3>5. \A i \in 1 .. Count(d) : Contents(d)[i] = IF i + f <= N THEN Contents(efiq)[i + f] ELSE key
      BY <1>3, <3>1, <3>2, <3>3, Enqueued
    <3>6. Count(d) = N + 1 /\ \A i \in 1 .. N + 1 : Contents(d)[i] = IF i <= N THEN E[i] ELSE key
      BY <1>3, <3>2, <3>4, <3>5
    <3>7. \A i \in 1 .. N : i \in 1 .. N + 1 /\ i <= N
      BY <1>3
    <3>8. N + 1 \in 1 .. N + 1 /\ ~(N + 1 <= N)
      BY <1>3
    <3> HIDE DEF N
    <3> QED
      BY <1>3, <3>1, <3>6, <3>7, <3>8 DEF d
  <2> QED
    BY <1>1, <2>1, <2>2
<1>10. Marked'
  <2>1. \A i \in 1 .. Count(usbq') : U'[i].n # 0 => Press(U'[i])
    BY <1>8 DEF Marked
  <2> QED
    BY <1>1, <2>1 DEF Marked, Writing
<1>11. ASSUME NEW y \in read' + 1 .. count'.presses
       PROVE  Kept(y)'
  <2>1. Kept(y) /\ y # 0
    <3>1. y \in read + 1 .. count.presses /\ y # 0
      BY <1>1, <1>2 DEF KeyTyped
    <3> QED
      BY <3>1 DEF Wanted
  <2>2. CASE \E i \in 1 .. N : E[i].n = y
    BY <1>9, <2>2 DEF Kept
  <2>3. CASE \E i \in 1 .. C : U[i].n = y
    <3>1. PICK i \in 1 .. C : U[i].n = y
      BY <2>3
    <3>2. CASE i = k
      <4>1. Press(U[k])
        BY <2>1, <3>1, <3>2 DEF Marked
      <4> QED
        BY <1>9, <3>1, <3>2, <4>1 DEF Kept
    <3>3. CASE i # k
      <4>1. i \notin 1 .. k - 1
        BY <1>7, <2>1, <3>1
      <4>2. i - k \in 1 .. Count(usbq') /\ (i - k) + k = i
        BY <1>3, <1>5, <1>8, <3>1, <3>3, <4>1
      <4>3. U'[i - k] = U[i]
        BY <1>8, <4>2
      <4> QED
        BY <3>1, <4>2, <4>3 DEF Kept
    <3> QED
      BY <3>2, <3>3
  <2>4. CASE Writing /\ cb.item.n = y
    BY <1>1, <2>4 DEF Kept, Writing
  <2> QED
    BY <2>1, <2>2, <2>3, <2>4 DEF Kept
<1> QED
  BY <1>10, <1>11 DEF Wanted

(* The letter of the repeat handler is in its hands until it is queued.    *)
LEMMA LostRepeat ==
  ASSUME TypeOK, TypeOK', RepeatOk, Marked, Wanted, RepeatHandler, No({"garbled", "dropped"})'
  PROVE  Marked' /\ Wanted'
<1> DEFINE C == Count(usbq)
<1>1. /\ happened \subseteq happened' /\ UNCHANGED <<efiq, app, read>>
  BY DEF RepeatHandler, RepeatFires, RepeatLoad, RepeatDrop, RepeatSlot, RepeatCopy, RepeatEnds, queues
<1>2. KeyTyped /\ KeyTyped' /\ "garbled" \notin happened
  BY <1>1, KeyTypes, KeyTypesNext DEF No
<1>3. /\ usbq \in Queue(UsbKeys) /\ usbq' \in Queue(UsbKeys) /\ C \in Nat /\ read \in Nat /\ count.presses \in Nat
      /\ U = Contents(usbq) /\ U' = Contents(usbq') /\ E' = E /\ Count(efiq') = Count(efiq)
  BY <1>1, <1>2 DEF KeyTyped, U, E
<1>4. ASSUME UNCHANGED <<usbq, count>>, ~Writing, ~Writing'
      PROVE  Marked' /\ Wanted'
  BY <1>1, <1>3, <1>4, LostFrame
<1>5. CASE RepeatFires \/ RepeatLoad
  <2>1. usbq' = usbq /\ ~Writing /\ ~Writing' /\ count' = count
    BY <1>5 DEF RepeatFires, RepeatLoad, queues, Goto, Writing, TypeOK
  <2> QED
    BY <1>4, <2>1
<1>6. CASE RepeatDrop
  <2>1. /\ usbq' = Drop(usbq) /\ ~Writing /\ ~Writing' /\ count' = count
        /\ ~IsQueueEmpty(usbq) /\ First(usbq).n = 0
    BY <1>6 DEF RepeatDrop, Goto, Writing, Mishap, No, TypeOK
  <2>2. C # 0
    BY <1>3, <2>1, CountIs
  <2>3. 1 \in 0 .. C /\ usbq' = [usbq EXCEPT !.head = (@ + 1) % (MaxKeys + 1)]
    BY <1>3, <2>1, <2>2 DEF Drop, After
  <2>4. /\ Count(usbq') = C - 1
        /\ \A i \in 1 .. Count(usbq') : U'[i] = U[i + 1]
    BY <1>3, <2>3, Taken
  <2>5. U[1].n = 0
    <3>1. 1 \in 1 .. C /\ usbq.head \in 0 .. MaxKeys /\ MaxKeys \in Nat
      BY <1>3, <2>2, QueueSizeAssumption DEF Queue, Slots
    <3>2. U[1] = usbq.buf[At(usbq, 1)]
      BY <1>3, <3>1, CountIs
    <3>3. At(usbq, 1) = usbq.head
      BY <3>1 DEF At, Wrap
    <3> QED
      BY <2>1, <3>2, <3>3 DEF First
  <2>6. Marked'
    <3>1. \A i \in 1 .. Count(usbq') : i + 1 \in 1 .. C
      BY <1>3, <2>2, <2>4
    <3> QED
      BY <2>1, <2>4, <3>1 DEF Marked
  <2>7. ASSUME NEW y \in read' + 1 .. count'.presses
        PROVE  Kept(y)'
    <3>1. Kept(y) /\ y # 0
      <4>1. y \in read + 1 .. count.presses /\ y # 0
        BY <1>1, <1>3, <2>1
      <4> QED
        BY <4>1 DEF Wanted
    <3>2. ASSUME NEW i \in 1 .. C, U[i].n = y
          PROVE  Kept(y)'
      <4>1. i - 1 \in 1 .. Count(usbq') /\ (i - 1) + 1 = i
        BY <1>3, <2>4, <2>5, <3>1, <3>2
      <4> QED
        BY <2>4, <3>2, <4>1 DEF Kept
    <3> QED
      BY <1>3, <2>1, <3>1, <3>2 DEF Kept
  <2> QED
    BY <2>6, <2>7 DEF Wanted
<1>7. CASE RepeatSlot
  <2> DEFINE real == IF cb.item.code = None THEN 0 ELSE 1
  <2>1. /\ usbq' = usbq /\ ~Writing /\ Writing'
        /\ cb'.item.code = cb.item.code /\ cb'.item.down /\ cb'.item.n = (count.presses + 1) * real
        /\ count'.presses = count.presses + real
    BY <1>7 DEF RepeatSlot, queues, UsbKey, TypeOK, Writing
  <2>2. cb'.item.n # 0 => cb.item.code \in Letters
    BY <1>3, <2>1 DEF RepeatOk
  <2>3. Marked'
    BY <1>3, <2>1, <2>2 DEF Marked, Press
  <2>4. ASSUME NEW y \in read' + 1 .. count'.presses
        PROVE  Kept(y)'
    <3>1. CASE y <= count.presses
      <4>1. y \in read + 1 .. count.presses
        BY <1>1, <1>3, <2>1, <3>1
      <4>2. Kept(y)
        BY <4>1 DEF Wanted
      <4> QED
        BY <1>3, <2>1, <4>2 DEF Kept
    <3>2. CASE ~(y <= count.presses)
      <4>1. real = 1 /\ y = count.presses + 1
        BY <1>1, <1>3, <2>1, <3>2
      <4>2. cb'.item.n = y
        BY <1>3, <2>1, <4>1
      <4> QED
        BY <2>1, <4>2 DEF Kept
    <3> QED
      BY <3>1, <3>2
  <2> QED
    BY <2>3, <2>4 DEF Wanted
<1>8. CASE RepeatCopy
  <2>1. /\ cb.pc = "copy" /\ usbq' = [usbq EXCEPT !.buf[cb.slot] = cb.item]
        /\ cb'.item = cb.item /\ cb'.pc = "tail" /\ count' = count
    BY <1>8 DEF RepeatCopy, Goto, TypeOK
  <2>2. cb.slot = usbq.tail
    BY <1>2, <2>1 DEF RepeatOk, Writing
  <2>3. U' = U /\ Count(usbq') = Count(usbq)
    <3>1. usbq'.head = usbq.head /\ usbq'.tail = usbq.tail /\ usbq'.buf = [usbq.buf EXCEPT ![usbq.tail] = cb.item]
      BY <1>3, <2>1, <2>2 DEF Queue
    <3> QED
      BY <1>3, <3>1, AtTail
  <2>4. Writing /\ Writing'
    BY <2>1 DEF Writing
  <2> QED
    BY <1>1, <1>3, <2>1, <2>3, <2>4, LostFrame
<1>9. CASE RepeatEnds
  <2> DEFINE y == cb.item
  <2>1. /\ cb.pc = "tail" /\ usbq' = [usbq EXCEPT !.tail = After(@)] /\ cb' = Waiting /\ ~IsQueueFull(usbq)
        /\ count' = count
    BY <1>9 DEF RepeatEnds, Mishap, No
  <2>2. usbq.buf[usbq.tail] = y /\ Writing /\ ~Writing' /\ y \in UsbKeys
    BY <1>2, <2>1 DEF RepeatOk, Writing, TypeOK, Waiting
  <2>3. usbq' = [head |-> usbq.head, tail |-> After(usbq.tail), buf |-> [usbq.buf EXCEPT ![usbq.tail] = y]]
    <3>1. [usbq.buf EXCEPT ![usbq.tail] = y] = usbq.buf
      BY <1>3, <2>2 DEF Queue
    <3> QED
      BY <1>3, <2>1, <3>1 DEF Queue
  <2>4. /\ Count(usbq') = C + 1
        /\ \A i \in 1 .. C + 1 : U'[i] = IF i <= C THEN U[i] ELSE y
    <3> DEFINE d == usbq'
    <3>1. /\ d = [head |-> usbq.head, tail |-> After(usbq.tail), buf |-> [usbq.buf EXCEPT ![usbq.tail] = y]]
          /\ y \in UsbKeys /\ usbq \in Queue(UsbKeys) /\ ~IsQueueFull(usbq)
      BY <1>3, <2>1, <2>2, <2>3
    <3> HIDE DEF d, y
    <3>2. Count(d) = Count(usbq) + 1
      BY <3>1, Added
    <3>3. \A i \in 1 .. Count(d) : Contents(d)[i] = IF i <= Count(usbq) THEN Contents(usbq)[i] ELSE y
      BY <3>1, Added
    <3> QED
      BY <1>3, <3>2, <3>3 DEF d
  <2> HIDE DEF y, C
  <2>5. /\ \A i \in 1 .. C : i \in 1 .. C + 1 /\ U'[i] = U[i]
        /\ C + 1 \in 1 .. C + 1 /\ U'[C + 1] = y
        /\ \A i \in 1 .. C + 1 : i \in 1 .. C \/ i = C + 1
    BY <1>3, <2>4
  <2>6. Marked'
    BY <2>2, <2>4, <2>5 DEF Marked, y, C
  <2>7. ASSUME NEW x \in read' + 1 .. count'.presses
        PROVE  Kept(x)'
    <3>1. Kept(x)
      BY <1>1, <2>1 DEF Wanted
    <3> QED
      BY <1>3, <2>4, <2>5, <3>1 DEF Kept, y, C
  <2> QED
    BY <2>6, <2>7 DEF Wanted
<1> QED
  BY <1>5, <1>6, <1>7, <1>8, <1>9 DEF RepeatHandler

(* What a client takes out is the keystroke that it reads.                 *)
LEMMA LostClient ==
  ASSUME TypeOK, TypeOK', Marked, Wanted, KeysOk, ReadOk, Client
  PROVE  Marked' /\ Wanted'
<1>1. UNCHANGED <<cb, count>> /\ cb.pc = "idle"
  BY DEF Client, ReadKeyStroke, ReadStarts, ReadCopies, ReadEnds, Reset, InitUSBKeyboard, ResetFlags,
         ResetLast, ResetRecovery, ResetEnds, Stop, StopTransfer, StopEnds, Goto
<1>2. /\ KeyTyped /\ ~Writing /\ ~Writing'
  BY <1>1, KeyTypes DEF Writing
<1>3. ASSUME UNCHANGED <<usbq, efiq, read>>
      PROVE  Marked' /\ Wanted'
  <2>1. U' = U /\ E' = E /\ Count(usbq') = Count(usbq) /\ Count(efiq') = Count(efiq)
    BY <1>3 DEF U, E
  <2> QED
    BY <1>1, <1>2, <1>3, <2>1, LostFrame
<1>4. ASSUME usbq' = NewQueue(NoUsbKey), read' = count.presses
      PROVE  Marked' /\ Wanted'
  <2>1. Count(usbq') = 0 /\ \A i \in 1 .. 0 : FALSE
    BY <1>4, NewQueues
  <2>2. \A n \in read' + 1 .. count'.presses : FALSE
    BY <1>1, <1>2, <1>4 DEF KeyTyped
  <2> QED
    BY <1>2, <2>1, <2>2 DEF Marked, Wanted
<1>5. CASE ReadStarts \/ ReadCopies \/ InitUSBKeyboard \/ StopTransfer
  <2>1. UNCHANGED <<usbq, efiq, read>>
    BY <1>5 DEF ReadStarts, ReadCopies, InitUSBKeyboard, ResetFlags, ResetLast, ResetRecovery, ResetEnds,
                StopTransfer, queues
  <2> QED
    BY <1>3, <2>1
<1>6. CASE (\E b \in BOOLEAN : Reset(b)) \/ StopEnds
  <2>1. usbq' = NewQueue(NoUsbKey) /\ read' = count.presses
    BY <1>6 DEF Reset, StopEnds
  <2> QED
    BY <1>4, <2>1
<1>7. CASE ReadEnds
  <2> DEFINE N == Count(efiq)
  <2>1. app.pc = "copied" /\ read' = app.item.n /\ usbq' = usbq
    BY <1>7 DEF ReadEnds
  <2>2. app.slot = efiq.head /\ N > 0 /\ app.item = E[1]
    BY <2>1 DEF ReadOk
  <2>3. N \in Nat /\ efiq \in Queue(KeyData) /\ E = Contents(efiq) /\ E' = Contents(efiq')
    BY <1>2 DEF KeyTyped, E
  <2>4. 1 \in 0 .. N /\ efiq' = [efiq EXCEPT !.head = (@ + 1) % (MaxKeys + 1)]
    BY <1>7, <2>2, <2>3 DEF ReadEnds, After
  <2>5. Count(efiq') = N - 1 /\ \A i \in 1 .. Count(efiq') : E'[i] = E[i + 1]
    BY <2>3, <2>4, Taken
  <2>6. read < read' /\ read' = E[1].n /\ read \in Nat /\ read' \in Nat
    <3>1. 1 \in 1 .. N
      BY <2>2, <2>3
    <3> QED
      BY <1>2, <2>1, <2>2, <3>1 DEF KeysOk, KeyTyped
  <2>7. U' = U /\ Count(usbq') = Count(usbq)
    BY <2>1 DEF U
  <2>8. Marked'
    BY <1>2, <2>7 DEF Marked
  <2>9. ASSUME NEW y \in read' + 1 .. count'.presses
        PROVE  Kept(y)'
    <3>1. Kept(y) /\ y # E[1].n
      <4>1. y \in read + 1 .. count.presses /\ y # E[1].n
        BY <1>1, <1>2, <2>6 DEF KeyTyped
      <4> QED
        BY <4>1 DEF Wanted
    <3>2. ASSUME NEW i \in 1 .. N, E[i].n = y
          PROVE  Kept(y)'
      <4>1. i - 1 \in 1 .. Count(efiq') /\ (i - 1) + 1 = i
        BY <2>3, <2>5, <3>1, <3>2
      <4> QED
        BY <2>5, <3>2, <4>1 DEF Kept
    <3> QED
      BY <1>2, <2>7, <3>1, <3>2 DEF Kept
  <2> QED
    BY <2>8, <2>9 DEF Wanted
<1> QED
  BY <1>5, <1>6, <1>7 DEF Client, ReadKeyStroke, Stop

(* No press is lost by a step.                                             *)
LEMMA LostNext ==
  ASSUME Basics, Basics', KeyPart, LostPart, [Next]_vars
  PROVE  LostPart'
<1>1. TypeOK /\ TypeOK' /\ RepeatOk
  BY DEF Basics
<1>2. happened \subseteq happened' /\ ("overrun" \in happened' => "dropped" \in happened')
  BY OverrunDrops
<1> SUFFICES ASSUME No({"garbled", "dropped"})'
             PROVE  Marked' /\ Wanted'
  BY <1>2 DEF LostPart
<1>3. Marked /\ Wanted /\ KeysOk /\ ReadOk
  BY <1>2 DEF LostPart, KeyPart, No
<1>4. CASE \E now \in SUBSET Codes : Report(now)
  BY <1>1, <1>3, <1>4, LostReport
<1>5. CASE ReportError \/ (\E b \in BOOLEAN : Recover(b)) \/ NotifyHandler \/ UNCHANGED vars
  <2>1. UNCHANGED <<usbq, efiq, cb, count, read>>
    BY <1>5 DEF ReportError, Recover, NotifyHandler, queues, vars
  <2>2. U' = U /\ E' = E /\ Count(usbq') = Count(usbq) /\ Count(efiq') = Count(efiq) /\ (Writing' <=> Writing)
    BY <2>1 DEF U, E, Writing
  <2> QED
    BY <1>3, <2>1, <2>2, LostFrame
<1>6. CASE TimerHandler
  BY <1>1, <1>3, <1>6, LostTimer
<1>7. CASE RepeatHandler
  BY <1>1, <1>3, <1>7, LostRepeat
<1>8. CASE Client
  BY <1>1, <1>3, <1>8, LostClient
<1> QED
  BY <1>4, <1>5, <1>6, <1>7, <1>8 DEF Next, AtNotify, AtCallback

-----------------------------------------------------------------------------
(* The invariant, and what follows from it.                                *)

(* A keyboard that just started satisfies the invariant.                   *)
LEMMA InitOk ==
  ASSUME Init
  PROVE  IInv
<1>1. /\ usbq \in Queue(UsbKeys) /\ Count(usbq) = 0 /\ ~Writing /\ cb = Waiting
      /\ efiq \in Queue(KeyData) /\ Count(efiq) = 0
      /\ ntfq \in Queue(KeyData) /\ IsQueueEmpty(ntfq)
      /\ \A i \in Slots : efiq.buf[i] = NoKey
  BY NewQueues DEF Init, Writing, Waiting
<1>2. /\ MaxPresses \in Nat /\ MaxReports \in Nat /\ 0 \in 0 .. MaxPresses /\ 0 \in 0 .. MaxReports /\ 0 \in Slots
      /\ \A i \in 1 .. 0 : FALSE
  BY KeyboardAssumption, QueueSizeAssumption DEF Slots
<1>3. NoUsbKey \in UsbKeys /\ NoKey \in KeyData
  BY <1>2 DEF NoUsbKey, UsbKey, UsbKeys, NoKey, KeyData
<1>4. TypeOK
  <2>1. cb \in [pc : {"idle", "load", "drop", "slot", "copy", "tail"}, slot : Slots, item : UsbKeys]
    BY <1>1, <1>2, <1>3 DEF Waiting
  <2>2. app \in [pc : {"idle", "slot", "copied", "flags", "last", "repeat", "recovery", "deleted", "gone"},
                 slot : Slots, item : KeyData]
    BY <1>2, <1>3 DEF Init, Idle
  <2>3. count \in [presses : 0 .. MaxPresses, reports : 0 .. MaxReports] /\ read \in 0 .. MaxPresses
    BY <1>2 DEF Init
  <2>4. /\ last \subseteq Codes /\ repeat \in Letters \cup {None} /\ shift \in BOOLEAN
        /\ timer \subseteq Events /\ transfer \in BOOLEAN /\ happened \subseteq Mishaps
    BY DEF Init, Events
  <2> QED
    BY <1>1, <2>1, <2>2, <2>3, <2>4 DEF TypeOK
<1>5. RepeatOk
  BY <1>1 DEF RepeatOk, Init, Waiting, NoUsbKey, UsbKey
<1>6. PolledOrRecovering /\ NotifyIsSignalled
  BY <1>1 DEF PolledOrRecovering, NotifyIsSignalled, Init, Idle, Stopping, No
<1>7. ShiftOk /\ CaseOk
  <2>1. ~Held /\ ~shift /\ ~Resetting
    BY DEF Init, Held, Resetting, Idle
  <2>2. Decides(U, shift, 0, Held)
    BY <1>2, <2>1 DEF Decides
  <2>3. CaseOk
    BY <1>1 DEF CaseOk, NoKey
  <2> QED
    BY <1>1, <1>2, <2>1, <2>2, <2>3 DEF ShiftOk
<1>8. PressesOk /\ KeysOk /\ ReadOk
  <2>1. Newest = 0 /\ read = 0 /\ app.pc = "idle"
    BY <1>1 DEF Newest, Init, Idle
  <2> QED
    BY <1>1, <1>2, <2>1 DEF PressesOk, KeysOk, ReadOk
<1>9. /\ No({"garbled", "dropped"}) => Marked /\ Wanted
      /\ "overrun" \notin happened
  <2>1. \A n \in 0 + 1 .. 0 : FALSE
    OBVIOUS
  <2>2. read = 0 /\ count.presses = 0
    BY DEF Init
  <2>3. Wanted
    BY <2>1, <2>2 DEF Wanted
  <2>4. Marked
    BY <1>1, <1>2 DEF Marked
  <2> QED
    BY <2>3, <2>4 DEF Init
<1> QED
  BY <1>4, <1>5, <1>6, <1>7, <1>8, <1>9 DEF IInv

(* Every step of the handlers and of a client keeps the invariant.         *)
LEMMA NextOk ==
  ASSUME IInv, [Next]_vars
  PROVE  IInv'
<1>1. Basics /\ ShiftPart /\ KeyPart /\ LostPart
  BY DEF IInv, Basics, ShiftPart, KeyPart, LostPart
<1>2. Basics'
  BY <1>1, BasicsNext
<1>3. ShiftPart' /\ KeyPart' /\ LostPart'
  BY <1>1, <1>2, ShiftNext, KeyNext, LostNext
<1> QED
  BY <1>2, <1>3 DEF IInv, Basics, ShiftPart, KeyPart, LostPart

(* So it holds at all times.                                               *)
LEMMA InvOk ==
  Spec => []IInv
BY InitOk, NextOk, PTL DEF Spec

(* The last event of a shift key that waits in UsbKeyQueue decides what    *)
(* ShiftOn comes to, and it is what was reported.                          *)
LEMMA ComesToReport ==
  ASSUME IInv
  PROVE  ShiftFollowsReport
<1> SUFFICES ASSUME No({"lost", "garbled", "pair"}), app.pc \notin {"flags", "last"}
             PROVE  ShiftToCome <=> Held
  BY DEF ShiftFollowsReport, Held
<1> DEFINE n == Count(usbq)
           on == {i \in DOMAIN U : U[i].code \in Shifts}
<1>1. Decides(U, shift, n, Held)
  BY DEF IInv, ShiftOk, Resetting
<1>2. U \in Seq(UsbKeys) /\ Len(U) = n /\ n \in Nat
  BY ShiftOkIs DEF IInv, TypeOK
<1>3. on \subseteq 1 .. n /\ \A i \in 1 .. n : i \in on <=> U[i].code \in Shifts
  BY <1>2
<1>4. ShiftToCome = IF on = {} THEN shift ELSE U[Max(on)].down
  BY DEF ShiftToCome, U
<1>5. CASE on = {}
  <2>1. ShiftToCome = shift
    BY <1>4, <1>5
  <2>2. \A i \in 1 .. n : U[i].code \notin Shifts
    BY <1>3, <1>5
  <2> HIDE DEF n
  <2> QED
    BY <1>1, <2>1, <2>2 DEF Decides
<1>6. CASE on # {}
  <2> DEFINE m == Max(on)
  <2> HIDE DEF n, on
  <2>1. m \in on /\ \A y \in on : y <= m
    <3>1. PICK x \in on : \A y \in on : y <= x
      BY <1>2, <1>3, <1>6, LastOne
    <3>2. \A y \in on : x >= y /\ x \in Int /\ y \in Int
      BY <1>3, <3>1
    <3>3. Max(on) \in on /\ \A y \in on : Max(on) >= y
      BY <3>2 DEF Max
    <3> QED
      BY <1>3, <3>3
  <2>2. ShiftToCome = U[m].down
    BY <1>4, <1>6
  <2> HIDE DEF m
  <2>3. m \in 1 .. n /\ U[m].code \in Shifts
    BY <1>3, <2>1
  <2>4. PICK i \in 1 .. n : /\ U[i].code \in Shifts /\ (U[i].down <=> Held)
                            /\ \A j \in i + 1 .. n : U[j].code \notin Shifts
    BY <1>1, <2>3 DEF Decides
  <2>5. i <= m /\ m \notin i + 1 .. n
    BY <1>3, <2>1, <2>3, <2>4
  <2>6. i = m
    BY <1>2, <2>3, <2>5
  <2> QED
    BY <2>2, <2>4, <2>6
<1> QED
  BY <1>5, <1>6

(* The letters that wait in EfiKeyQueue have the case of their press.      *)
LEMMA CaseFollows ==
  ASSUME IInv
  PROVE  CaseIsRight
<1> SUFFICES ASSUME No({"lost", "garbled", "pair"}), NEW i \in 1 .. Count(efiq)
             PROVE  Contents(efiq)[i].upper = Contents(efiq)[i].cap
  BY DEF CaseIsRight
<1> DEFINE k == At(efiq, i)
<1>1. efiq \in Queue(KeyData) /\ efiq.buf \in [Slots -> KeyData]
  BY DEF IInv, TypeOK, Queue
<1>2. k \in Slots /\ Contents(efiq)[i] = efiq.buf[k]
  <2>1. /\ Count(efiq) \in 0 .. MaxKeys
        /\ \A j \in 1 .. MaxKeys + 1 : At(efiq, j) \in Slots
        /\ \A j \in 1 .. Count(efiq) : Contents(efiq)[j] = efiq.buf[At(efiq, j)]
    BY <1>1, CountIs
  <2>2. i \in 1 .. MaxKeys + 1
    BY <2>1, QueueSizeAssumption
  <2> QED
    BY <2>1, <2>2
<1> HIDE DEF k
<1>3. efiq.buf[k].upper <=> efiq.buf[k].cap
  BY <1>2 DEF IInv, CaseOk
<1>4. efiq.buf[k].upper \in BOOLEAN /\ efiq.buf[k].cap \in BOOLEAN
  <2>1. efiq.buf[k] \in KeyData
    BY <1>1, <1>2
  <2> QED
    BY <2>1 DEF KeyData
<1> QED
  BY <1>2, <1>3, <1>4

(* The keystrokes of EfiKeyQueue, and the one that is read, are in order.  *)
LEMMA OrderFollows ==
  ASSUME IInv
  PROVE  KeysInOrder
<1> SUFFICES ASSUME No({"garbled", "overrun"})
             PROVE  /\ \A i, j \in 1 .. Count(efiq) :
                         /\ i < j => E[i].n < E[j].n
                         /\ read < E[i].n
                    /\ app.pc = "copied" => read < app.item.n
  BY DEF KeysInOrder, E
<1>1. KeysOk /\ ReadOk /\ KeyTyped
  BY KeyTypes DEF IInv
<1>2. app.pc = "copied" => 1 \in 1 .. Count(efiq) /\ app.item = E[1]
  BY <1>1 DEF ReadOk, KeyTyped
<1> QED
  BY <1>1, <1>2 DEF KeysOk

(* A press that was not read is kept.                                      *)
LEMMA KeptFollows ==
  ASSUME IInv
  PROVE  NoneIsLost
BY DEF IInv, NoneIsLost, Wanted, Kept, E, U, Writing

(* What KeyboardInv says follows from the invariant.                       *)
LEMMA RestFollows ==
  ASSUME IInv
  PROVE  KeyboardInv
<1>1. RepeatIsHeld
  BY DEF IInv, RepeatOk, RepeatIsHeld
<1> QED
  BY <1>1, ComesToReport DEF IInv, KeyboardInv

-----------------------------------------------------------------------------
(* The theorems.                                                           *)

(* What the handlers of the keyboard keep among them: the shift state that *)
(* ShiftOn comes to is the one of the last report, whatever repeats,       *)
(* recoveries and resets come between; only a key that is held repeats;    *)
(* the transfer is submitted or is to be submitted by the recovery, never  *)
(* both; and a keystroke that waits to be notified has its event signalled *)
(* (KeyboardHandler, USBKeyboardRecoveryHandler, USBKeyboardRepeatHandler, *)
(* KeyNotifyProcessHandler).                                               *)
THEOREM KeyboardIsSafe ==
  Spec => []KeyboardInv
BY InvOk, RestFollows, PTL

(* A client of USBKeyboardReadKeyStroke gets the keystrokes in the order   *)
(* of the presses, each once, with the Enqueue of the timer at any point   *)
(* of its Dequeue.                                                         *)
THEOREM KeysStayInOrder ==
  Spec => []KeysInOrder
BY InvOk, OrderFollows, PTL

(* UsbKeyCodeToEfiInputKey gives each letter the case that the shift keys  *)
(* had when it was pressed.                                                *)
THEOREM CaseIsAlwaysRight ==
  Spec => []CaseIsRight
BY InvOk, CaseFollows, PTL

(* Every letter that is pressed, repeats included, comes to the client or  *)
(* waits for it, although USBKeyboardTimerHandler takes one at a time and  *)
(* its queues are written at three priority levels, until a full queue     *)
(* throws one out.                                                         *)
THEOREM NothingIsLost ==
  Spec => []NoneIsLost
BY InvOk, KeptFollows, PTL

=============================================================================
