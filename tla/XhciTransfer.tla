---------------------------- MODULE XhciTransfer ----------------------------
(***************************************************************************)
(* The transfers of the xHCI driver above its rings: the URBs.  A          *)
(* synchronous transfer (control, bulk, interrupt) submits a URB, polls    *)
(* the event ring until the URB is finished or the time is up, and         *)
(* recovers the endpoint with commands that are polled the same way.  An   *)
(* asynchronous interrupt transfer stays in a list which the timer handler *)
(* XhcMonitorAsyncRequests walks; it calls the user back and submits the   *)
(* URB again.  Every poll handles the events of all URBs.                  *)
(*                                                                         *)
(* All entry points raise the TPL to TPL_NOTIFY, so they do not preempt    *)
(* one another; a callback may call them.  The xHC works in between.       *)
(* A ring is the queue of the TRBs the xHC has not completed, as           *)
(* TransferRing implements it; the event ring is the queue of EventRing.   *)
(***************************************************************************)
EXTENDS Integers, Sequences, FiniteSets, SequencesExt

CONSTANTS
  Urbs,        \* the addresses AllocateZeroPool returns for a URB
  Alloc(_),    \* those of a set of free addresses that it may return next
  SyncEps,     \* endpoints of synchronous transfers
  IntEps,      \* endpoints of asynchronous interrupt transfers
  Cmd,         \* the command ring
  ListHead,    \* the head of the list Xhc->AsyncIntTransfers
  None,
  Room,        \* the TRBs of each ring
  MaxTd,       \* the longest synchronous transfer, in TRBs
  MaxEvents    \* the capacity of the event ring

Eps   == SyncEps \cup IntEps
Rings == Eps \cup {Cmd}

ASSUME TransferAssumption ==
  /\ Cmd \notin SyncEps \cup IntEps /\ SyncEps \cap IntEps = {}
  /\ IsFiniteSet(Urbs) /\ ListHead \notin Urbs /\ None \notin Urbs \cup {ListHead}
  /\ Room \in [Rings -> Nat \ {0}] /\ MaxTd \in Nat \ {0} /\ MaxEvents \in Nat \ {0}

ASSUME AllocAssumption == \A us \in SUBSET Urbs : Alloc(us) \subseteq us

VARIABLES
  heap,       \* the URB at each address, "live" until it is freed
  link,       \* the forward links of the list of asynchronous transfers
  ring,       \* the TRBs of each ring that the xHC has not completed
  state,      \* xHC: each endpoint is "running", "halted" or "stopped"
  events,     \* the event ring: posted and not handled
  pc,         \* "user" (caller or callback), "wait" (XhcExecTransfer),
              \* "check" (XhcCheckUrbResult), "checked" (the monitor after it)
  chk,        \* the URB passed to XhcCheckUrbResult
  found,      \* events of the current scan that are not handled yet
  cur,        \* the URB of the synchronous transfer in progress
  recovery,   \* the command of the recovery in progress: "stop", "reset", "deq"
  mUrb,       \* the monitor: the URB it visits
  mNext,      \* the monitor: the saved NextEntry
  cb,         \* the callback in progress: "none", "ok" or "error" (what it was
              \* given), "deleted", "resubmitted" (what it did)
  acked,      \* history: the TRBs of each ring that completed without an error
  abandoned   \* history: the endpoints left without a successful recovery

listVars == <<link, mUrb, mNext, cb>>
ringVars == <<ring, state, acked>>
vars == <<heap, link, ring, state, events, pc, chk, found, cur, recovery,
          mUrb, mNext, cb, acked, abandoned>>

-----------------------------------------------------------------------------
(* URBs, TRBs and the list. *)

Dead == {u \in Urbs : ~heap[u].live}

\* The list from l on: the forward links are followed to the head.
From(l) ==
  LET hop[n \in 0..Cardinality(Urbs)] ==
        IF n = 0 THEN l ELSE IF hop[n - 1] = ListHead THEN ListHead ELSE link[hop[n - 1]]
      on == {n \in 0..Cardinality(Urbs) : hop[n] # ListHead}
  IN  [n \in 1..Cardinality(on) |-> hop[n - 1]]
List == From(link[ListHead])

\* The first of the list among us.
FirstOf(us) ==
  LET at == {i \in DOMAIN List : List[i] \in us}
  IN  IF at = {} THEN None ELSE List[Min(at)]

\* A ring has room, so that a TRB is not taken again before its event was
\* handled: see TransferRing!RoomFor.
InUse(r, u) == {ring[r][i].id : i \in DOMAIN ring[r]}
               \cup {events[i].id : i \in {j \in DOMAIN events : events[j].ring = r}}
               \cup UNION {Range(heap[v].trbs) :
                            v \in {w \in Urbs \ {u} : heap[w].live /\ heap[w].ring = r}}
TrbIds(r) == 0..(Room[r] - 1)
HasRoom(r, u, n) == Cardinality(TrbIds(r) \ InUse(r, u)) >= n
NewTrbs(r, u, n) == CHOOSE s \in [1..n -> TrbIds(r) \ InUse(r, u)] :
                      \A i, j \in 1..n : i < j => s[i] < s[j]

NewUrb(kind, r, trbs) ==
  [live |-> TRUE, kind |-> kind, ring |-> r, trbs |-> trbs,
   startDone |-> FALSE, endDone |-> FALSE, finished |-> FALSE,
   completed |-> 0, result |-> {}]

Free(h, u) == [h EXCEPT ![u].live = FALSE]

Transfer == [op |-> "transfer", ep |-> None, skip |-> {}]

\* XhcCreateTransferTrb or XhcCreateCmdTrb, and the doorbell.
PutTrbs(r, trbs, job) ==
  /\ ring' = [ring EXCEPT ![r] = @ \o [i \in DOMAIN trbs |-> [id |-> trbs[i], job |-> job]]]
  /\ acked' = [acked EXCEPT ![r] = @ \ Range(trbs)]
Doorbell(ep) ==
  state' = IF state[ep] = "stopped" THEN [state EXCEPT ![ep] = "running"] ELSE state

-----------------------------------------------------------------------------
(* XhcCheckUrbResult. *)

\* IsTransferRingTrb, or else IsAsyncIntTrb.
CheckedUrb(e) ==
  IF heap[chk].ring = e.ring THEN chk
  ELSE FirstOf({u \in Urbs : heap[u].ring = e.ring /\ e.id \in Range(heap[u].trbs)})

\* Mutant: the TRB of the event is not compared with those of the URB.
ProgressOfAnyEvent(urb, e) ==
  [urb EXCEPT !.completed = @ + 1, !.startDone = TRUE, !.endDone = TRUE, !.finished = TRUE]

\* What an event that reports no error does to its URB.  Completed grows by at
\* most the length of the TRB: it is counted in TRBs, from above.
Progress(urb, e) ==
  LET start == urb.startDone \/ e.id = urb.trbs[1]
      end   == urb.endDone \/ e.id = urb.trbs[Len(urb.trbs)]
  IN  [urb EXCEPT !.completed = @ + 1,
                  !.startDone = start,
                  !.endDone   = end,
                  !.finished  = @ \/ (start /\ end)]

StartCheck ==
  /\ pc = "wait"
  /\ ~heap[chk].finished
  /\ found' = Len(events)
  /\ pc' = "check"
  /\ UNCHANGED <<heap, listVars, ringVars, events, chk, cur, recovery, abandoned>>

HandleEvent ==
  /\ pc = "check"
  /\ found > 0
  /\ LET e == events[1]
         u == CheckedUrb(e)
     IN  \/ /\ u = None
            /\ found' = found - 1
            /\ UNCHANGED heap
         \/ /\ u # None
            /\ e.code = "ok"
            /\ heap' = [heap EXCEPT ![u] = Progress(@, e)]
            /\ found' = found - 1
         \/ /\ u # None
            /\ e.code # "ok"
            /\ heap' = [heap EXCEPT ![u].result = @ \cup {e.code}, ![u].finished = TRUE]
            /\ found' = 0
  /\ events' = Tail(events)
  /\ UNCHANGED <<listVars, ringVars, pc, chk, cur, recovery, abandoned>>

EndCheck ==
  /\ pc = "check"
  /\ found = 0
  /\ pc' = IF heap[chk].kind = "async" THEN "checked" ELSE "wait"
  /\ UNCHANGED <<heap, listVars, ringVars, events, chk, found, cur, recovery, abandoned>>

-----------------------------------------------------------------------------
(* Synchronous transfers: XhcControlTransfer, XhcBulkTransfer,             *)
(* XhcSyncInterruptTransfer, and the commands of the recovery.             *)

\* The callbacks of this program (KeyboardHandler, UsbOnHubInterrupt) call the
\* driver only when they are given an error: they clear a stall with a control
\* transfer, delete their own transfer, and the hub's submits it again.
SubmitSync(ep, n) ==
  /\ pc = "user"
  /\ cb \in {"none", "error"}
  /\ \E u \in Alloc(Dead) :
       /\ HasRoom(ep, u, n)
       /\ HasRoom(Cmd, u, 2)
       /\ LET trbs == NewTrbs(ep, u, n)
          IN  /\ heap' = [heap EXCEPT ![u] = NewUrb("sync", ep, trbs)]
              /\ PutTrbs(ep, trbs, Transfer)
       /\ cur' = u
       /\ chk' = u
  /\ Doorbell(ep)
  /\ pc' = "wait"
  /\ UNCHANGED <<listVars, events, found, recovery, abandoned>>

\* Mutant: the dequeue pointer is set to where it was.
CommandJobKeepsTrbs(op, ep) == [op |-> op, ep |-> ep, skip |-> {}]

\* What a command asks of the xHC.  Set TR Dequeue Pointer skips all TRBs that
\* are on the ring of the endpoint.
CommandJob(op, ep) ==
  [op |-> op, ep |-> ep,
   skip |-> IF op = "deq" THEN {ring[ep][i].id : i \in DOMAIN ring[ep]} ELSE {}]

\* XhcCmdTransfer: the command works on the endpoint of cur.  h is the heap
\* before its URB is allocated.
Command(op, h) ==
  /\ \E u \in Alloc({v \in Urbs : ~h[v].live}) :
       /\ HasRoom(Cmd, u, 1)
       /\ LET trbs == NewTrbs(Cmd, u, 1)
          IN  /\ heap' = [h EXCEPT ![u] = NewUrb("cmd", Cmd, trbs)]
              /\ PutTrbs(Cmd, trbs, CommandJob(op, h[cur].ring))
       /\ chk' = u
  /\ recovery' = op
  /\ pc' = "wait"
  /\ UNCHANGED <<listVars, state, events, found, cur>>

\* The URB is freed and the caller gets its answer.
ReturnToCaller(h) ==
  /\ heap' = Free(h, cur)
  /\ cur' = None
  /\ chk' = None
  /\ recovery' = "none"
  /\ pc' = "user"
  /\ UNCHANGED <<listVars, ring, acked, events, found>>

Waiting(kind) == pc = "wait" /\ heap[chk].kind = kind

TransferSucceeds ==
  /\ Waiting("sync") /\ heap[chk].finished /\ heap[chk].result = {}
  /\ ReturnToCaller(heap)
  /\ UNCHANGED <<state, abandoned>>

\* Babble, buffer and transaction errors: no recovery.
TransferFails ==
  /\ Waiting("sync") /\ heap[chk].finished /\ heap[chk].result \notin {{}, {"stall"}}
  /\ abandoned' = abandoned \cup {heap[cur].ring}
  /\ ReturnToCaller(heap)
  /\ UNCHANGED state

\* XhcRecoverHaltedEndpoint
TransferStalls ==
  /\ Waiting("sync") /\ heap[chk].finished /\ heap[chk].result = {"stall"}
  /\ Command("reset", heap)
  /\ UNCHANGED abandoned

\* XhcDequeueTrbFromEndpoint
TransferTimesOut ==
  /\ Waiting("sync") /\ ~heap[chk].finished
  /\ Command("stop", heap)
  /\ UNCHANGED abandoned

CommandSucceeds ==
  /\ Waiting("cmd") /\ heap[chk].finished /\ heap[chk].result = {}
  /\ \/ /\ recovery \in {"stop", "reset"}
        /\ Command("deq", Free(heap, chk))
        /\ UNCHANGED abandoned
     \/ /\ recovery = "deq"
        /\ Doorbell(heap[cur].ring)
        /\ abandoned' = abandoned \ {heap[cur].ring}
        /\ ReturnToCaller(Free(heap, chk))

\* Mutant: a command is waited for without a limit.
CommandFailsIfAnswered ==
  /\ Waiting("cmd") /\ heap[chk].finished /\ heap[chk].result # {}
  /\ abandoned' = abandoned \cup {heap[cur].ring}
  /\ ReturnToCaller(Free(heap, chk))
  /\ UNCHANGED state

\* It was answered with an error, or not in time.
CommandFails ==
  /\ Waiting("cmd") /\ (heap[chk].finished => heap[chk].result # {})
  /\ abandoned' = abandoned \cup {heap[cur].ring}
  /\ ReturnToCaller(Free(heap, chk))
  /\ UNCHANGED state

-----------------------------------------------------------------------------
(* Asynchronous interrupt transfers. *)

Listed(ep) == FirstOf({u \in Urbs : heap[u].ring = ep})

\* Mutant: a new URB goes to the end of the list.
InsertedAtTail(u) == LET last == IF List = <<>> THEN ListHead ELSE Last(List)
                     IN  [link EXCEPT ![u] = ListHead, ![last] = u]
Inserted(u) == [link EXCEPT ![u] = link[ListHead], ![ListHead] = u]

\* Mutant: the URB is not unlinked.
NotRemoved(u) == link
Removed(u) == LET prev == CHOOSE l \in Range(List) \cup {ListHead} : link[l] = u
              IN  [link EXCEPT ![prev] = link[u]]

\* XhcAsyncInterruptTransfer with IsNewTransfer; the users keep at most one
\* transfer per endpoint.
SubmitAsync(ep) ==
  /\ pc = "user"
  /\ cb = "none" \/ (cb = "deleted" /\ ep = heap[mUrb].ring)
  /\ cb' = IF cb = "none" THEN "none" ELSE "resubmitted"
  /\ Listed(ep) = None
  /\ \E u \in Alloc(Dead) :
       /\ HasRoom(ep, u, 2)
       /\ LET trbs == NewTrbs(ep, u, 1)
          IN  /\ heap' = [heap EXCEPT ![u] = NewUrb("async", ep, trbs)]
              /\ PutTrbs(ep, trbs, Transfer)
       /\ link' = Inserted(u)
  /\ Doorbell(ep)
  /\ UNCHANGED <<events, pc, chk, found, cur, recovery, mUrb, mNext, abandoned>>

\* XhciDelAsyncIntTransfer: the endpoint is not stopped.
DeleteAsync(ep) ==
  /\ pc = "user"
  /\ cb = "none" \/ (cb = "error" /\ ep = heap[mUrb].ring)
  /\ cb' = IF cb = "none" THEN "none" ELSE "deleted"
  /\ Listed(ep) # None
  /\ link' = Removed(Listed(ep))
  /\ heap' = Free(heap, Listed(ep))
  /\ UNCHANGED <<ringVars, events, pc, chk, found, cur, recovery, mUrb, mNext, abandoned>>

\* XhcMonitorAsyncRequests comes to u, with the heap h.
Visit(u, h) ==
  /\ mUrb' = u
  /\ mNext' = link[u]
  /\ chk' = u
  /\ found' = IF h[u].finished THEN 0 ELSE Len(events)
  /\ pc' = IF h[u].finished THEN "checked" ELSE "check"

MoveOn(h) ==
  \/ mNext # ListHead /\ Visit(mNext, h)
  \/ /\ mNext = ListHead
     /\ mUrb' = None
     /\ mNext' = None
     /\ chk' = None
     /\ pc' = "user"
     /\ UNCHANGED found

\* The timer expires.
MonitorStarts ==
  /\ pc = "user"
  /\ mUrb = None
  /\ link[ListHead] # ListHead
  /\ Visit(link[ListHead], heap)
  /\ UNCHANGED <<heap, link, ringVars, events, cur, recovery, cb, abandoned>>

\* Mutant: the result of the check is not looked at.
StillActiveOrNot ==
  /\ pc = "checked"
  /\ MoveOn(heap)
  /\ UNCHANGED <<heap, link, ringVars, events, cur, recovery, cb, abandoned>>

StillActive ==
  /\ pc = "checked"
  /\ ~heap[mUrb].finished
  /\ MoveOn(heap)
  /\ UNCHANGED <<heap, link, ringVars, events, cur, recovery, cb, abandoned>>

CallBack ==
  /\ pc = "checked"
  /\ heap[mUrb].finished
  /\ cb' = IF heap[mUrb].result = {} THEN "ok" ELSE "error"
  /\ chk' = None
  /\ pc' = "user"
  /\ UNCHANGED <<heap, link, ringVars, events, found, cur, recovery, mUrb, mNext, abandoned>>

\* Mutant: the URB is initialised again without TRBs for it.
UpdateAsyncRequestNoTrbs(u) ==
  \/ /\ heap[u].result = {} /\ heap[u].kind # "cmd"
     /\ heap' = [heap EXCEPT ![u] = [NewUrb(@.kind, @.ring, @.trbs) EXCEPT !.live = heap[u].live]]
     /\ UNCHANGED ringVars
  \/ /\ heap[u].result # {} \/ heap[u].kind = "cmd"
     /\ UNCHANGED <<heap, ringVars>>

\* XhcUpdateAsyncRequest; a command's URB has no device address.
UpdateAsyncRequest(u) ==
  \/ /\ heap[u].result = {} /\ heap[u].kind # "cmd"
     /\ HasRoom(heap[u].ring, u, Len(heap[u].trbs))
     /\ LET trbs == NewTrbs(heap[u].ring, u, Len(heap[u].trbs))
        IN  /\ heap' = [heap EXCEPT ![u] =
                          [NewUrb(@.kind, @.ring, trbs) EXCEPT !.live = heap[u].live]]
            /\ PutTrbs(heap[u].ring, trbs, Transfer)
     /\ Doorbell(heap[u].ring)
  \/ /\ heap[u].result # {} \/ heap[u].kind = "cmd"
     /\ UNCHANGED <<heap, ringVars>>

CallbackReturns ==
  /\ pc = "user"
  /\ mUrb # None
  /\ UpdateAsyncRequest(mUrb)
  /\ MoveOn(heap')
  /\ cb' = "none"
  /\ UNCHANGED <<link, events, cur, recovery, abandoned>>

\* The buffer for the callback cannot be allocated.
SkipCallback ==
  /\ pc = "checked"
  /\ heap[mUrb].finished /\ heap[mUrb].result = {}
  /\ UpdateAsyncRequest(mUrb)
  /\ MoveOn(heap')
  /\ UNCHANGED <<link, events, cur, recovery, cb, abandoned>>

-----------------------------------------------------------------------------
(* The host controller and the devices, external to the driver. *)

Post(r, id, code) ==
  /\ Len(events) < MaxEvents
  /\ events' = Append(events, [ring |-> r, id |-> id, code |-> code])
  /\ UNCHANGED <<heap, listVars, pc, chk, found, cur, recovery, abandoned>>

\* Every TRB asks for an event; one that fails halts the endpoint.
CompleteTrb(ep) ==
  /\ state[ep] = "running"
  /\ ring[ep] # <<>>
  /\ LET id == ring[ep][1].id
     IN  \/ /\ Post(ep, id, "ok")
            /\ ring' = [ring EXCEPT ![ep] = Tail(@)]
            /\ acked' = [acked EXCEPT ![ep] = @ \cup {id}]
            /\ UNCHANGED state
         \/ /\ \E code \in {"stall", "error"} : Post(ep, id, code)
            /\ state' = [state EXCEPT ![ep] = "halted"]
            /\ UNCHANGED <<ring, acked>>

\* Stop Endpoint, Reset Endpoint and Set TR Dequeue Pointer each need the
\* endpoint in one state; in another one they are answered with an error.
Needs == [stop |-> "running", reset |-> "halted", deq |-> "stopped"]

\* The TRBs behind the last one to be skipped.
Skipped(q, ids) ==
  LET at == {i \in DOMAIN q : q[i].id \in ids}
  IN  IF at = {} THEN q ELSE SubSeq(q, Max(at) + 1, Len(q))

ExecuteCommand ==
  /\ ring[Cmd] # <<>>
  /\ LET trb == ring[Cmd][1]
         ep  == trb.job.ep
     IN  \/ /\ state[ep] = Needs[trb.job.op]
            /\ Post(Cmd, trb.id, "ok")
            /\ state' = [state EXCEPT ![ep] = "stopped"]
            /\ ring' = [ring EXCEPT ![Cmd] = Tail(@),
                                    ![ep] = Skipped(@, trb.job.skip)]
            /\ acked' = [acked EXCEPT ![Cmd] = @ \cup {trb.id}]
         \/ /\ state[ep] # Needs[trb.job.op]
            /\ Post(Cmd, trb.id, "error")
            /\ ring' = [ring EXCEPT ![Cmd] = Tail(@)]
            /\ UNCHANGED <<state, acked>>

-----------------------------------------------------------------------------
Init ==
  /\ heap = [u \in Urbs |-> Free([v \in Urbs |-> NewUrb("cmd", Cmd, <<>>)], u)[u]]
  /\ link = [l \in Urbs \cup {ListHead} |-> ListHead]
  /\ ring = [r \in Rings |-> <<>>]
  /\ state = [ep \in Eps |-> "running"]
  /\ events = <<>>
  /\ pc = "user"
  /\ chk = None /\ found = 0 /\ cur = None /\ recovery = "none"
  /\ mUrb = None /\ mNext = None /\ cb = "none"
  /\ acked = [r \in Rings |-> {}]
  /\ abandoned = {}

User == \/ \E ep \in SyncEps, n \in 1..MaxTd : SubmitSync(ep, n)
        \/ \E ep \in IntEps : SubmitAsync(ep) \/ DeleteAsync(ep)

Check == StartCheck \/ HandleEvent \/ EndCheck

Sync == \/ TransferSucceeds \/ TransferFails \/ TransferStalls \/ TransferTimesOut
        \/ CommandSucceeds \/ CommandFails

Monitor == MonitorStarts \/ StillActive \/ CallBack \/ SkipCallback \/ CallbackReturns

Xhc == ExecuteCommand \/ \E ep \in Eps : CompleteTrb(ep)

Next == User \/ Check \/ Sync \/ Monitor \/ Xhc

SafeSpec == Init /\ [][Next]_vars

\* The driver finishes what it began and a callback returns.  The timer keeps
\* expiring, and its handler runs when a synchronous transfer lowers the TPL,
\* however soon the next one follows.  The polling loop of XhcExecTransfer is
\* bounded: it cannot check for ever.
Spec == SafeSpec /\ WF_vars(Check) /\ SF_vars(Sync) /\ SF_vars(Monitor)

-----------------------------------------------------------------------------
(* Properties. *)

Urb == [live : BOOLEAN, kind : {"sync", "async", "cmd"}, ring : Rings,
        trbs : Seq(Nat),
        startDone : BOOLEAN, endDone : BOOLEAN, finished : BOOLEAN,
        completed : Nat, result : SUBSET {"stall", "error"}]

\* Type invariant.
TypeOK ==
  /\ heap \in [Urbs -> Urb]
  /\ link \in [Urbs \cup {ListHead} -> Urbs \cup {ListHead}]
  /\ DOMAIN ring = Rings
  /\ state \in [Eps -> {"running", "halted", "stopped"}]
  /\ pc \in {"user", "wait", "check", "checked"}
  /\ {chk, cur, mUrb} \subseteq Urbs \cup {None}
  /\ mNext \in Urbs \cup {ListHead, None}
  /\ found \in 0..Len(events)
  /\ recovery \in {"none", "stop", "reset", "deq"}
  /\ cb \in {"none", "ok", "error", "deleted", "resubmitted"}
  /\ \A r \in Rings : acked[r] \subseteq TrbIds(r)
  /\ abandoned \subseteq SyncEps

\* A transfer or command that is finished without an error was carried out to
\* its last TRB, whatever events of other URBs were handled while it waited.
SuccessIsReal ==
  \A u \in Urbs : heap[u].live /\ heap[u].finished /\ heap[u].result = {} =>
                   Range(heap[u].trbs) \subseteq acked[heap[u].ring]

\* When a synchronous transfer has returned, nothing of it is left on its ring
\* or in the event ring, unless its recovery failed or was not tried.
NoTrbsLeft ==
  pc = "user" => \A ep \in SyncEps \ abandoned :
                    ring[ep] = <<>> /\ \A i \in DOMAIN events : events[i].ring # ep

\* Every URB that is not of a listed transfer was freed when its own returned.
NoUrbLeft == pc = "user" /\ mUrb = None => Range(List) = Urbs \ Dead

\* A transfer that returned has left neither TRBs nor its URB behind.
NothingLeftBehind == NoTrbsLeft /\ NoUrbLeft

\* The list links the asynchronous URBs that are not freed, each of them once.
ListIntact == /\ Range(List) = {u \in Urbs : heap[u].live /\ heap[u].kind = "async"}
              /\ Cardinality(Range(List)) = Len(List)

\* The URBs and their list, at every step of a check, a round or a callback.
UrbInv == TypeOK /\ ListIntact

\* A listed transfer that is not finished has a TRB with the xHC or an event
\* to be handled: it cannot be forgotten.
AsyncArmed ==
  \A u \in Range(List) : ~heap[u].finished =>
    LET r == heap[u].ring IN
    \/ \E i \in DOMAIN ring[r] : ring[r][i].id \in Range(heap[u].trbs)
    \/ \E i \in DOMAIN events : events[i].ring = r /\ events[i].id \in Range(heap[u].trbs)

\* What is left of the monitor's round are transfers of the list, and not the
\* one it just called back for: "the re-submitted interrupt transfer's callback
\* function will not be called again in this round".
RestOfRound ==
  mUrb # None => \A u \in Range(From(mNext)) :
                   u \in Range(List) /\ heap[u].ring # heap[mUrb].ring

\* The monitor calls the user of a finished asynchronous transfer back, unless
\* the transfer is deleted.
IsReported == \A ep \in IntEps :
  (\E u \in Range(List) : heap[u].ring = ep /\ heap[u].finished) ~>
    \A u \in Range(List) : heap[u].ring = ep /\ heap[u].finished => pc = "user" /\ mUrb = u

\* A synchronous transfer returns to its caller whatever the xHC does.
Returns == pc = "wait" ~> pc = "user"

-----------------------------------------------------------------------------
\* What the source says of itself and the code does not do: TLC refutes each of
\* these when it is added to the cfg of the run xhci_transfer.

\* XhcMonitorAsyncRequests: "Don't touch this URB after the callback, it may
\* have been removed by the callback."
CallbackMayRemove == [][CallbackReturns => heap[mUrb].live]_vars

\* ASSERT (Urb->Completed <= Urb->DataLen) in XhcMonitorAsyncRequests.
CompletedFits ==
  pc = "checked" /\ heap[mUrb].finished /\ heap[mUrb].result = {} =>
    heap[mUrb].completed <= Len(heap[mUrb].trbs)

\* XhcRecoverHaltedEndpoint: "System software shall use a Reset Endpoint
\* Command to remove the Halted condition in the xHC", so that a transfer does
\* not return and leave its endpoint halted with no command sent.
HaltedIsReset == [][TransferFails => state[heap[cur].ring] # "halted"]_vars
=============================================================================
