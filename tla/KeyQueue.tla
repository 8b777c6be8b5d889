------------------------------ MODULE KeyQueue ------------------------------
(***************************************************************************)
(* USB_SIMPLE_QUEUE of the USB keyboard driver (UsbKbDxe/EfiKey.h and      *)
(* KeyBoard.c): a ring of MAX_KEY_ALLOWED + 1 slots of which one is always *)
(* free, whose oldest entry gives way to a new one when it is full.        *)
(***************************************************************************)
EXTENDS Naturals, SequencesExt

CONSTANT MaxKeys        \* MAX_KEY_ALLOWED

ASSUME QueueSizeAssumption == MaxKeys \in Nat \ {0}

Slots == 0..MaxKeys

After(i) == (i + 1) % (MaxKeys + 1)

\* InitQueue: the memory of the slots is new; nothing of it is in the queue.
NewQueue(garbage) == [head |-> 0, tail |-> 0, buf |-> [i \in Slots |-> garbage]]

IsQueueEmpty(q) == q.head = q.tail

IsQueueFull(q) == After(q.tail) = q.head

First(q) == q.buf[q.head]

Drop(q) == [q EXCEPT !.head = After(@)]

Put(q, x) == [q EXCEPT !.buf[q.tail] = x, !.tail = After(@)]

Enqueue(q, x) == Put(IF IsQueueFull(q) THEN Drop(q) ELSE q, x)

EnqueueAll(q, xs) ==
    LET all[n \in 0..Len(xs)] == IF n = 0 THEN q ELSE Enqueue(all[n - 1], xs[n])
    IN all[Len(xs)]

Count(q) == (q.tail + (MaxKeys + 1) - q.head) % (MaxKeys + 1)

\* The entries from the oldest to the newest.
Contents(q) == [i \in 1..Count(q) |-> q.buf[(q.head + i - 1) % (MaxKeys + 1)]]

=============================================================================
