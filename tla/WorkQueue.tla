------------------------------ MODULE WorkQueue ------------------------------
(***************************************************************************)
(* What a ring of work items promises to the driver that fills it, with    *)
(* no slots, cycle bits or laps: a first-in first-out queue.  The producer *)
(* puts items, the consumer takes each of them once and in order.  The     *)
(* producer may suspend the consumer, drop everything that was not taken   *)
(* yet, and let the consumer go on.  TransferRing and EventRing do that.   *)
(***************************************************************************)
EXTENDS Sequences

CONSTANTS Items,    \* the work items
          NoItem    \* what "taken" holds before the first item is taken

VARIABLES queue,      \* the items put and not taken, oldest first
          taken,      \* the item taken last
          suspended   \* the producer has stopped the consumer

vars == <<queue, taken, suspended>>

Init == /\ queue = <<>>
        /\ taken = NoItem
        /\ suspended = FALSE

Put(item) == /\ queue' = Append(queue, item)
             /\ UNCHANGED <<taken, suspended>>

Take == /\ ~suspended
        /\ queue # <<>>
        /\ taken' = Head(queue)
        /\ queue' = Tail(queue)
        /\ UNCHANGED suspended

Suspend == /\ suspended' = TRUE
           /\ UNCHANGED <<queue, taken>>

\* Only a suspended consumer can be told to forget what it was given.
Discard == /\ suspended
           /\ queue' = <<>>
           /\ UNCHANGED <<taken, suspended>>

Resume == /\ suspended' = FALSE
          /\ UNCHANGED <<queue, taken>>

Next == \/ \E item \in Items : Put(item)
        \/ Take
        \/ Suspend
        \/ Discard
        \/ Resume

SafeSpec == Init /\ [][Next]_vars

\* A consumer that is not suspended does not leave an item in the queue.
Spec == SafeSpec /\ WF_vars(Take)
=============================================================================
