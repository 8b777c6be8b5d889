---------------------------- MODULE EhciSchedule ----------------------------
(***************************************************************************)
(* The two schedules of the EHCI driver and the controller that walks them *)
(* while the driver changes them.                                          *)
(*                                                                         *)
(* The periodic schedule is an array of frames, each the head of a list of *)
(* queue heads (QHs) sorted by decreasing poll interval.  The intervals    *)
(* are powers of two, so that the lists share their tails: a QH is linked  *)
(* into all frames that are multiples of its interval by few stores.       *)
(* The asynchronous schedule is a ring of the reclamation head and at most *)
(* one other QH; the doorbell handshake tells the driver that the          *)
(* controller has left a QH that was unlinked from it.                     *)
(*                                                                         *)
(* Each store of the driver that the controller can see is one step.  All  *)
(* of the driver's operations run at TPL_NOTIFY, one at a time.            *)
(***************************************************************************)
EXTENDS Integers

CONSTANTS
  Qhs,           \* the QHs of the memory pool
  ReclaimHead,   \* the head of the asynchronous list
  PeriodOne,     \* the dummy QH that ends, or nearly ends, the periodic lists
  Null,          \* NULL, or a link with the terminate bit
  NFrames,       \* EHC_FRAME_LEN
  Intervals,     \* what EhcConvertPollRate yields for the requests
  MaxTimeouts    \* bound: doorbells not acknowledged in time

Nodes  == Qhs \cup {ReclaimHead, PeriodOne}
Frames == 0 .. NFrames - 1

ASSUME ScheduleAssumption ==
  /\ ReclaimHead # PeriodOne /\ Null \notin {ReclaimHead, PeriodOne}
  /\ Qhs \cap {ReclaimHead, PeriodOne, Null} = {}
  /\ NFrames \in Nat \ {0} /\ MaxTimeouts \in Nat
  /\ \A m \in Intervals \cup {NFrames}, n \in Intervals :
       n \in Nat \ {0} /\ (m % n = 0 \/ n % m = 0) /\ NFrames % n = 0

VARIABLES
  use,        \* a QH: "free", "held" by the running operation, "period" (the
              \* QH of an asynchronous interrupt transfer) or "lost"
  interval,   \* Qh->Interval
  frame,      \* PeriodFrameHost and
  frameHw,    \*   PeriodFrame
  nextQh,     \* Qh->NextQh and
  horizon,    \*   Qh->QhHw.HorizonLink
  op,         \* the running operation: its step, its QH, and Index
  iaad, iaa,  \* the doorbell (USBCMD) and its acknowledgement (USBSTS)
  timeouts,   \* doorbells that timed out
  walker,     \* the controller in the periodic schedule
  async       \* the QH the controller is at in the asynchronous schedule

lists  == <<frame, frameHw, nextQh, horizon>>
bell   == <<iaad, iaa, timeouts>>
driver == <<use, interval, lists, op>>
scheduleVars == <<driver, bell, walker, async>>

OpSteps == {"idle", "link", "hook", "poll", "unlink", "free", "append", "hookAsync",
          "run", "ring", "wait"}

ScheduleTypeOK ==
  /\ use \in [Qhs -> {"free", "held", "period", "lost"}]
  /\ interval \in [Nodes -> Intervals \cup {1}]
  /\ frame \in [Frames -> Nodes] /\ frameHw \in [Frames -> Nodes]
  /\ nextQh \in [Nodes -> Nodes \cup {Null}] /\ horizon \in [Nodes -> Nodes \cup {Null}]
  /\ op \in [pc : OpSteps, q : Qhs \cup {Null}, sync : BOOLEAN, index : Frames]
  /\ iaad \in BOOLEAN /\ iaa \in BOOLEAN /\ timeouts \in 0 .. MaxTimeouts
  /\ walker \in [frame : Frames, at : Nodes \cup {Null}, due : SUBSET Qhs, stale : BOOLEAN]
  /\ async \in Nodes

Idle == [pc |-> "idle", q |-> Null, sync |-> FALSE, index |-> 0]

ScheduleInit ==
  /\ use = [q \in Qhs |-> "free"]
  /\ interval = [n \in Nodes |-> 1]
  /\ frame = [i \in Frames |-> PeriodOne] /\ frameHw = frame
  /\ nextQh = [n \in Nodes |-> IF n = ReclaimHead THEN ReclaimHead ELSE Null]
  /\ horizon = nextQh
  /\ op = Idle /\ iaad = FALSE /\ iaa = FALSE /\ timeouts = 0
  /\ walker = [frame |-> 0, at |-> Null, due |-> {}, stale |-> FALSE]
  /\ async = ReclaimHead

-----------------------------------------------------------------------------
(* What a walk along the links from the node n on meets                    *)

On(link, n) ==
  LET f[m \in Nodes \cup {Null}] == IF m = Null THEN {} ELSE {m} \cup f[link[m]] IN f[n]

(* The QH before n in the list of frame i, or Null                         *)
Before(i, n) ==
  LET prevs == {m \in On(nextQh, frame[i]) : nextQh[m] = n}
  IN IF frame[i] = n \/ prevs = {} THEN Null ELSE CHOOSE m \in prevs : TRUE

(* EhcLinkQhToPeriod: the first in the list of frame i that is not polled  *)
(* less often than q                                                       *)
NotLonger(i, q) ==
  LET later == {n \in On(nextQh, frame[i]) : interval[n] <= interval[q]}
  IN CHOOSE n \in later : later \subseteq On(nextQh, n)
SameInterval(i, q) == interval[NotLonger(i, q)] = interval[q]

(* One store into the list: after prev, or at the head of frame i          *)
Store(i, prev, to, toHw) ==
  IF prev = Null
  THEN /\ frame' = [frame EXCEPT ![i] = to] /\ frameHw' = [frameHw EXCEPT ![i] = toHw]
       /\ UNCHANGED <<nextQh, horizon>>
  ELSE /\ nextQh' = [nextQh EXCEPT ![prev] = to] /\ horizon' = [horizon EXCEPT ![prev] = toHw]
       /\ UNCHANGED <<frame, frameHw>>

-----------------------------------------------------------------------------
(* Creating and freeing a QH.                                              *)

(* EhcCreateQh, after EhcAckAllInterrupt                                   *)
Create(q, n, o) ==
  /\ op.pc = "idle" /\ use[q] = "free"
  /\ use' = [use EXCEPT ![q] = "held"]
  /\ interval' = [interval EXCEPT ![q] = n]
  /\ nextQh' = [nextQh EXCEPT ![q] = Null] /\ horizon' = [horizon EXCEPT ![q] = Null]
  /\ iaa' = FALSE
  /\ op' = o
  /\ UNCHANGED <<frame, frameHw, iaad, timeouts, walker, async>>

(* EhcFreeUrb                                                              *)
Free ==
  /\ op.pc = "free"
  /\ use' = [use EXCEPT ![op.q] = "free"]
  /\ op' = Idle
  /\ UNCHANGED <<interval, lists, bell, walker, async>>

-----------------------------------------------------------------------------
(* The periodic schedule.                                                  *)

AsyncInterruptTransfer(q, n) == Create(q, n, [pc |-> "link", q |-> q, sync |-> FALSE, index |-> 0])
(* The interval of a synchronous transfer is 1.                            *)
SyncInterruptTransfer(q) == Create(q, 1, [pc |-> "link", q |-> q, sync |-> TRUE, index |-> 0])

(* EhciDelAsyncIntTransfer                                                 *)
DeleteAsync(q) ==
  /\ op.pc = "idle" /\ use[q] = "period"
  /\ use' = [use EXCEPT ![q] = "held"]
  /\ walker' = [walker EXCEPT !.due = @ \ {q}]
  /\ op' = [pc |-> "unlink", q |-> q, sync |-> FALSE, index |-> 0]
  /\ UNCHANGED <<interval, lists, bell, async>>

(* The loop goes on at the next frame, or goes to pc with what is done.    *)
NextIndex(q, pc, done) ==
  IF op.index + interval[q] < NFrames
  THEN op' = [op EXCEPT !.pc = pc, !.index = @ + interval[q]] /\ UNCHANGED use
  ELSE done

Linked(q) ==
  IF op.sync THEN op' = [op EXCEPT !.pc = "poll", !.index = 0] /\ UNCHANGED use
  ELSE op' = Idle /\ use' = [use EXCEPT ![q] = "period"]

(* Mutant: the link that the controller reads is left out.                 *)
LinkHostOnly ==
  LET q == op.q
      n == NotLonger(op.index, q)
      to(link) == IF SameInterval(op.index, q) THEN link[n] ELSE n
  IN /\ op.pc = "link"
     /\ IF n = q
        THEN NextIndex(q, "link", Linked(q)) /\ UNCHANGED <<nextQh, horizon>>
        ELSE /\ nextQh' = IF nextQh[q] = Null THEN [nextQh EXCEPT ![q] = to(nextQh)] ELSE nextQh
             /\ op' = [op EXCEPT !.pc = "hook"] /\ UNCHANGED <<use, horizon>>
     /\ UNCHANGED <<interval, frame, frameHw, bell, walker, async>>

(* The links of the new QH are set once, before it can be reached ...      *)
LinkPeriod ==
  LET q == op.q
      n == NotLonger(op.index, q)
      to(link) == IF SameInterval(op.index, q) THEN link[n] ELSE n
  IN /\ op.pc = "link"
     /\ IF n = q
        THEN NextIndex(q, "link", Linked(q)) /\ UNCHANGED <<nextQh, horizon>>
        ELSE /\ IF nextQh[q] = Null
                THEN /\ nextQh' = [nextQh EXCEPT ![q] = to(nextQh)]
                     /\ horizon' = [horizon EXCEPT ![q] = to(horizon)]
                ELSE UNCHANGED <<nextQh, horizon>>
             /\ op' = [op EXCEPT !.pc = "hook"] /\ UNCHANGED use
     /\ UNCHANGED <<interval, frame, frameHw, bell, walker, async>>

(* ... and then it is hooked into the frame; one store into a shared tail, *)
(* and behind a QH of the same interval, is enough for all the frames.     *)
HookPeriod ==
  LET q == op.q
      n == NotLonger(op.index, q)
  IN /\ op.pc = "hook"
     /\ IF SameInterval(op.index, q)
        THEN Store(op.index, n, q, q) /\ Linked(q)
        ELSE Store(op.index, Before(op.index, n), q, q) /\ NextIndex(q, "link", Linked(q))
     /\ UNCHANGED <<interval, bell, walker, async>>

(* EhcExecTransfer of a synchronous transfer is over.                      *)
SyncInterruptEnds ==
  /\ op.pc = "poll"
  /\ op' = [op EXCEPT !.pc = "unlink"]
  /\ UNCHANGED <<use, interval, lists, bell, walker, async>>

(* EhcUnlinkQhFromPeriod.  EhcSyncInterruptTransfer returns without        *)
(* EhcFreeUrb: the QH is lost.  The controller may be in the middle of the *)
(* QH: it is then "stale" until its next frame.                            *)
Unlinked(q) ==
  IF op.sync THEN op' = Idle /\ use' = [use EXCEPT ![q] = "lost"]
  ELSE op' = [op EXCEPT !.pc = "free"] /\ UNCHANGED use

(* Mutant: only the first frame is unlinked.                               *)
UnlinkOnce ==
  LET q == op.q
  IN /\ op.pc = "unlink"
     /\ Store(0, Before(0, q), nextQh[q], horizon[q])
     /\ Unlinked(q)
     /\ walker' = [walker EXCEPT !.stale = @ \/ walker.at = q]
     /\ UNCHANGED <<interval, bell, async>>

UnlinkPeriod ==
  LET q == op.q
  IN /\ op.pc = "unlink"
     /\ IF q \in On(nextQh, frame[op.index])
        THEN Store(op.index, Before(op.index, q), nextQh[q], horizon[q])
        ELSE UNCHANGED lists
     /\ NextIndex(q, "unlink", Unlinked(q))
     /\ walker' = [walker EXCEPT !.stale = @ \/ (op'.pc # "unlink" /\ walker.at = q)]
     /\ UNCHANGED <<interval, bell, async>>

-----------------------------------------------------------------------------
(* The asynchronous schedule: EhcControlTransfer and EhcBulkTransfer.      *)

AsyncTransfer(q) == Create(q, 1, [pc |-> "append", q |-> q, sync |-> TRUE, index |-> 0])

(* EhcLinkQhToAsync                                                        *)
AppendAsync ==
  /\ op.pc = "append"
  /\ nextQh' = [nextQh EXCEPT ![op.q] = nextQh[ReclaimHead], ![ReclaimHead] = op.q]
  /\ horizon' = [horizon EXCEPT ![op.q] = nextQh[ReclaimHead]]
  /\ op' = [op EXCEPT !.pc = "hookAsync"]
  /\ UNCHANGED <<use, interval, frame, frameHw, bell, walker, async>>

HookAsync ==
  /\ op.pc = "hookAsync"
  /\ horizon' = [horizon EXCEPT ![ReclaimHead] = op.q]
  /\ op' = [op EXCEPT !.pc = "run"]
  /\ UNCHANGED <<use, interval, frame, frameHw, nextQh, bell, walker, async>>

(* EhcUnlinkQhFromAsync, once EhcExecTransfer is over                      *)
LoopBack ==
  /\ op.pc = "run"
  /\ nextQh' = [nextQh EXCEPT ![ReclaimHead] = nextQh[op.q], ![op.q] = Null]
  /\ horizon' = [horizon EXCEPT ![ReclaimHead] = nextQh[op.q]]
  /\ op' = [op EXCEPT !.pc = "ring"]
  /\ UNCHANGED <<use, interval, frame, frameHw, bell, walker, async>>

(* EhcSetAndWaitDoorBell                                                   *)
SetDoorBell ==
  /\ op.pc = "ring" /\ iaad' = TRUE
  /\ op' = [op EXCEPT !.pc = "wait"]
  /\ UNCHANGED <<use, interval, lists, iaa, timeouts, walker, async>>

(* Mutant: the wait ends without an acknowledgement.                       *)
WaitDoorBellAnyway ==
  /\ op.pc = "wait" /\ UNCHANGED timeouts
  /\ iaa' = FALSE
  /\ op' = [op EXCEPT !.pc = "free"]
  /\ UNCHANGED <<use, interval, lists, iaad, walker, async>>

(* The acknowledgement is seen, or the time-out is only logged; IAA is     *)
(* cleared then, and all the status bits before the URB is freed.          *)
WaitDoorBell ==
  /\ op.pc = "wait"
  /\ \/ iaa /\ UNCHANGED timeouts
     \/ ~iaa /\ timeouts < MaxTimeouts /\ timeouts' = timeouts + 1
  /\ iaa' = FALSE
  /\ op' = [op EXCEPT !.pc = "free"]
  /\ UNCHANGED <<use, interval, lists, iaad, walker, async>>

-----------------------------------------------------------------------------
(* The controller.                                                         *)

(* A frame begins: "due" are the QHs that are still to be visited in it.   *)
PeriodQhs(i) == {q \in Qhs : use[q] = "period" /\ i % interval[q] = 0}

StartFrame ==
  /\ walker.at = Null
  /\ \E i \in Frames :
       walker' = [frame |-> i, at |-> frameHw[i], due |-> PeriodQhs(i) \ {frameHw[i]},
                  stale |-> FALSE]
  /\ UNCHANGED <<driver, bell, async>>

FollowPeriod ==
  /\ walker.at # Null
  /\ walker' = [walker EXCEPT !.at = horizon[walker.at], !.due = @ \ {horizon[walker.at]}]
  /\ UNCHANGED <<driver, bell, async>>

FollowAsync ==
  /\ horizon[async] # Null
  /\ async' = horizon[async]
  /\ UNCHANGED <<driver, bell, walker>>

(* The doorbell is acknowledged when the controller holds no QH that can   *)
(* no longer be reached.                                                   *)
Acknowledge ==
  /\ iaad /\ async \in {ReclaimHead, horizon[ReclaimHead]}
  /\ iaad' = FALSE /\ iaa' = TRUE
  /\ UNCHANGED <<driver, timeouts, walker, async>>

ControllerSteps == StartFrame \/ FollowPeriod \/ FollowAsync \/ Acknowledge

-----------------------------------------------------------------------------
Goes == Free \/ LinkPeriod \/ HookPeriod \/ SyncInterruptEnds \/ UnlinkPeriod
          \/ AppendAsync \/ HookAsync \/ LoopBack \/ SetDoorBell \/ WaitDoorBell

ScheduleNext ==
  \/ ControllerSteps \/ Goes
  \/ \E q \in Qhs :
       \/ \E n \in Intervals : AsyncInterruptTransfer(q, n)
       \/ SyncInterruptTransfer(q) \/ DeleteAsync(q) \/ AsyncTransfer(q)

ScheduleSpec == ScheduleInit /\ [][ScheduleNext]_scheduleVars

-----------------------------------------------------------------------------
(* Properties.                                                             *)

(* EhcLinkQhToPeriod and EhcUnlinkQhFromPeriod keep the discipline of the  *)
(* lists: between two operations each frame's list holds the QHs whose     *)
(* interval divides the frame, and the dummy, by decreasing interval, and  *)
(* the controller sees the same list as the driver.                        *)
ListsSorted ==
  op.pc \notin {"link", "hook", "poll", "unlink"} =>
    \A i \in Frames :
      /\ On(nextQh, frame[i]) = PeriodQhs(i) \cup {PeriodOne}
      /\ \A n \in On(nextQh, frame[i]) : nextQh[n] # Null => interval[nextQh[n]] <= interval[n]
      /\ frameHw[i] = frame[i] /\ \A n \in On(nextQh, frame[i]) : horizon[n] = nextQh[n]

(* At any moment, in the middle of an operation on another QH too, the     *)
(* controller can reach each QH of the schedule from its frames.           *)
LinkedStayReachable == \A i \in Frames : PeriodQhs(i) \subseteq On(horizon, frameHw[i])

(* The assertion in EhcLinkQhToPeriod: a QH of the same interval is met in *)
(* frame 0 or not at all.                                                  *)
SameMetInFrameZero ==
  op.pc = "link" /\ NotLonger(op.index, op.q) # op.q /\ SameInterval(op.index, op.q) =>
    op.index = 0 /\ nextQh[op.q] = Null

(* The lists, at every store of an operation on them                       *)
ScheduleInv == ScheduleTypeOK /\ ListsSorted /\ LinkedStayReachable /\ SameMetInFrameZero

(* Whatever the driver does meanwhile, the controller visits in each frame *)
(* all the QHs that are due, and polls none out of its turn.               *)
EachIsPolled == walker.at = Null /\ ~walker.stale => walker.due = {}
PolledInTurn == walker.at \in Qhs /\ ~walker.stale => walker.frame % interval[walker.at] = 0
PolledWhenDue == EachIsPolled /\ PolledInTurn

(* The controller never comes upon a freed QH: in the asynchronous         *)
(* schedule thanks to the doorbell (as long as none times out), in the     *)
(* periodic one unless it is in a QH at the moment when it is unlinked.    *)
NoFreedQh ==
  /\ timeouts = 0 /\ async \in Qhs => use[async] = "held"
  /\ ~walker.stale /\ walker.at \in Qhs => use[walker.at] # "free"

-----------------------------------------------------------------------------
(* What the source says of itself and the code does not do: TLC refutes    *)
(* each of these when it is added to the cfg of the run ehci_schedule.     *)

(* "Synchronized with the hardware" (EhcSetAndWaitDoorBell, EFI_SUCCESS):  *)
(* an acknowledgement that is seen means that the QH is left.              *)
Synchronized ==
  [][op.pc = "wait" /\ op'.pc = "free" /\ UNCHANGED timeouts => async # op.q]_scheduleVars
=============================================================================
