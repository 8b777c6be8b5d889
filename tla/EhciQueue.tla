------------------------------ MODULE EhciQueue ------------------------------
(***************************************************************************)
(* One endpoint of the EHCI driver: the queue head (QH), its transfer      *)
(* descriptors (qTDs), the controller that executes them, and the driver   *)
(* that polls them without a lock: EhcCheckUrbResult reads one qTD after   *)
(* the other and then the data toggle of the QH, and EhcUpdateAsyncRequest *)
(* rewrites the QH of an interrupt transfer that stays in the schedule.    *)
(*                                                                         *)
(* The controller copies a qTD into the overlay area of the QH, executes   *)
(* it there, writes its status back into the qTD and advances by the links *)
(* of the overlay: by AltQtd after a short read, if its terminate bit is   *)
(* clear, and by NextQtd otherwise.  Data is counted in packets.           *)
(***************************************************************************)
EXTENDS Integers, Sequences, FiniteSets

CONSTANTS
  Packets,    \* packets that a data qTD holds
  DataQtds,   \* data qTDs of a control read: one for up to 16 KB
  MaxSkips    \* bound: rounds without a buffer for the callback

ASSUME QueueAssumption == Packets \in Nat \ {0} /\ DataQtds \in {1, 2} /\ MaxSkips \in Nat

(* The qTDs of EhcCreateQtds, by kind of transfer.                         *)
Pids(kind) ==
  CASE kind = "in"        -> <<"in", "in">>
    [] kind = "out"       -> <<"out", "out">>
    [] kind = "control"   -> <<"setup">> \o [i \in 1 .. DataQtds |-> "in"] \o <<"status">>
    [] kind = "interrupt" -> <<"in">>
    [] kind = "none"      -> <<>>
Kinds == {"in", "out", "control", "interrupt"}

(* Links, apart from the numbers of the qTDs: with the terminate bit, to   *)
(* the ShortReadStop qTD, and the address 0 without the terminate bit      *)
Terminate == -1
Stop      == -2
Zero      == 0
Links     == {Terminate, Stop} \cup 0 .. 4

DataLen(kind) == Packets * Cardinality({i \in DOMAIN Pids(kind) : Pids(kind)[i] \in {"in", "out"}})
Capacity(pid) == CASE pid \in {"in", "out"} -> Packets [] pid = "setup" -> 1 [] pid = "status" -> 0

VARIABLES
  qtds,      \* the qTDs of the URB, as the controller and the driver see them
  overlay,   \* the overlay area of the QH
  linked,    \* the QH is in a schedule
  retire,    \* controller: the overlay is still to be written back
  device,    \* the endpoint: its toggle, and what it did in this round
  call,      \* the driver: the URB and the function that works on it
  toggle,    \* the data toggle that the owner of the endpoint keeps
  skips      \* callbacks left out for want of memory

queueVars == <<qtds, overlay, linked, retire, device, call, toggle, skips>>

(* A queue halts at a stall, at an error that was retried in vain, and at a *)
(* stall of a qTD whose earlier transaction error was retried: that one     *)
(* leaves the error bit set and the error counter above 0.                  *)
Halts == {"stall", "error", "retried"}

Results == {"noerror", "stall", "error", "notexecute"}
Steps == {"none", "poll", "wait", "read", "exit", "unlink", "qtds", "alt", "total", "next", "callback"}

QueueTypeOK ==
  /\ call \in [pc : Steps, kind : Kinds \cup {"none"}, by : {"sync", "monitor", "delete"},
               i : 1 .. 5, completed : 0 .. 2 * Packets, result : Results,
               finished : BOOLEAN, toggle : 0 .. 1, inStep : BOOLEAN]
  /\ call.completed <= DataLen(call.kind)    \* the assertion in EhcMonitorAsyncRequests
  /\ Len(qtds) = Len(Pids(call.kind))
  /\ \A i \in DOMAIN qtds : qtds[i] \in [status : {"active", "done"} \cup Halts, total : 0 .. Packets]
  /\ overlay \in [status : {"idle", "active"} \cup Halts, total : 0 .. Packets,
                  cur : 0 .. 4, next : Links, alt : Links, toggle : 0 .. 1]
  /\ linked \in BOOLEAN /\ retire \in BOOLEAN
  /\ device \in [toggle : 0 .. 1, moved : 0 .. 2 * Packets + 1, short : BOOLEAN,
                 status : BOOLEAN, over : BOOLEAN, stalled : BOOLEAN]
  /\ toggle \in 0 .. 1 /\ skips \in 0 .. MaxSkips

NoCall == [pc |-> "none", kind |-> "none", by |-> "sync", i |-> 1, completed |-> 0,
           result |-> "noerror", finished |-> FALSE, toggle |-> 0, inStep |-> TRUE]
Fresh(d) == [d EXCEPT !.moved = 0, !.short = FALSE, !.status = FALSE, !.over = FALSE,
                           !.stalled = FALSE]
NoQh == [status |-> "idle", total |-> 0, cur |-> 0, next |-> Terminate, alt |-> Zero, toggle |-> 0]

QueueInit ==
  /\ qtds = <<>> /\ overlay = NoQh /\ linked = FALSE /\ retire = FALSE
  /\ device = [toggle |-> 0, moved |-> 0, short |-> FALSE, status |-> FALSE, over |-> FALSE,
               stalled |-> FALSE]
  /\ call = NoCall /\ toggle = 0 /\ skips = 0

-----------------------------------------------------------------------------
(* The links that EhcCreateQtds writes.                                    *)

NextQtd(kind, i) == IF i < Len(Pids(kind)) THEN i + 1 ELSE Terminate

(* Mutant: a short read never goes to the status stage.                    *)
AltNextStop(kind, i) == IF Pids(kind)[i] = "in" THEN Stop ELSE Terminate

AltNext(kind, i) ==
  IF Pids(kind)[i] # "in" THEN Terminate
  ELSE IF kind = "control" THEN Len(Pids(kind)) ELSE Stop

NewQtds(kind) == [i \in DOMAIN Pids(kind) |-> [status |-> "active", total |-> Capacity(Pids(kind)[i])]]

-----------------------------------------------------------------------------
(* The controller and the device.                                          *)

Pid == Pids(call.kind)[overlay.cur]

(* Where an overlay that is not active leads to                            *)
Leads == IF overlay.total # 0 /\ overlay.alt # Terminate THEN overlay.alt ELSE overlay.next

(* Only an active qTD is taken.                                            *)
TakeQtd ==
  /\ linked /\ overlay.status = "idle" /\ ~retire
  /\ Leads \in DOMAIN qtds /\ qtds[Leads].status = "active"
  /\ overlay' = [overlay EXCEPT !.status = "active", !.total = qtds[Leads].total, !.cur = Leads,
                                !.next = NextQtd(call.kind, Leads), !.alt = AltNext(call.kind, Leads)]
  /\ UNCHANGED <<qtds, linked, retire, device, call, toggle, skips>>

(* A packet is taken by both sides, or by one of them if their toggles     *)
(* differ: the other takes it for a packet it has seen.  A control         *)
(* transfer has toggles of its own.                                        *)
Agree == call.kind = "control" \/ overlay.toggle = device.toggle
Flip(t) == IF call.kind = "control" THEN t ELSE 1 - t

PacketTaken(host, dev) ==
  /\ overlay' = IF ~host THEN overlay
                ELSE [overlay EXCEPT !.toggle = Flip(@), !.total = IF @ = 0 THEN 0 ELSE @ - 1,
                                     !.status = IF overlay.total <= 1 THEN "idle" ELSE @]
  /\ device' = IF ~dev THEN device
               ELSE [device EXCEPT !.toggle = Flip(@),
                                   !.moved = IF Pid \in {"in", "out"} THEN @ + 1 ELSE @,
                                   !.status = Pid = "status",
                                   !.over = @ \/ (device.short /\ Pid = "in")]
  /\ retire' = (host /\ overlay.total <= 1)

Packet ==
  /\ linked /\ overlay.status = "active"
  /\ PacketTaken(Agree \/ Pid = "out", Agree \/ Pid = "in")
  /\ UNCHANGED <<qtds, linked, call, toggle, skips>>

ShortPacket ==
  /\ linked /\ overlay.status = "active" /\ Pid = "in" /\ Agree
  /\ overlay' = [overlay EXCEPT !.toggle = Flip(@), !.status = "idle"]
  /\ device' = [device EXCEPT !.toggle = Flip(@), !.short = TRUE, !.over = @ \/ device.short]
  /\ retire' = TRUE
  /\ UNCHANGED <<qtds, linked, call, toggle, skips>>

Halt ==
  /\ linked /\ overlay.status = "active"
  /\ \E bad \in Halts : /\ overlay' = [overlay EXCEPT !.status = bad]
                        /\ device' = [device EXCEPT !.stalled = bad # "error"]
  /\ retire' = TRUE
  /\ UNCHANGED <<qtds, linked, call, toggle, skips>>

WriteBack ==
  /\ retire /\ retire' = FALSE
  /\ qtds' = [qtds EXCEPT ![overlay.cur] =
                [status |-> IF overlay.status = "idle" THEN "done" ELSE overlay.status,
                 total |-> overlay.total]]
  /\ UNCHANGED <<overlay, linked, device, call, toggle, skips>>

Ehc == TakeQtd \/ Packet \/ ShortPacket \/ Halt \/ WriteBack

-----------------------------------------------------------------------------
(* The driver: submission and deletion.                                    *)

(* EhcCreateUrb and the link into a schedule                               *)
SubmitUrb(kind) ==
  /\ call.pc = "none"
  /\ qtds' = NewQtds(kind)
  /\ overlay' = [NoQh EXCEPT !.next = 1, !.toggle = IF kind = "control" THEN 0 ELSE toggle]
  /\ linked' = TRUE
  /\ device' = Fresh(device)
  /\ call' = [NoCall EXCEPT !.pc = IF kind = "interrupt" THEN "wait" ELSE "poll",
                            !.kind = kind, !.inStep = kind = "control" \/ toggle = device.toggle]
  /\ UNCHANGED <<retire, toggle, skips>>

(* EhcCheckUrbResult starts: polled by EhcExecTransfer, by the monitor, or *)
(* by EhciDelAsyncIntTransfer.                                             *)
StartCheck(by) ==
  /\ call.pc = IF by = "sync" THEN "poll" ELSE "wait"
  /\ call' = [call EXCEPT !.pc = "read", !.by = by, !.i = 1, !.completed = 0,
                          !.result = "noerror", !.finished = TRUE]
  /\ UNCHANGED <<qtds, overlay, linked, retire, device, toggle, skips>>

(* One qTD is read.  No branch of the code takes up a stall behind a       *)
(* retried error: the transfer is finished, and its result is no error.    *)
Good(i) == qtds[i].status = "done"
Moved(i) == IF Pids(call.kind)[i] = "setup" THEN 0
            ELSE Capacity(Pids(call.kind)[i]) - qtds[i].total
StopsAt(i) == qtds[i].total # 0 /\ Pids(call.kind)[i] = "in" /\ AltNext(call.kind, i) = Stop

ReadQtd ==
  LET i == call.i IN
  /\ call.pc = "read"
  /\ \/ /\ Good(i)
        /\ call' = [call EXCEPT !.completed = @ + Moved(i), !.i = i + 1,
                                !.pc = IF StopsAt(i) \/ i = Len(qtds) THEN "exit" ELSE "read"]
     \/ /\ ~Good(i)
        /\ call' = [call EXCEPT !.pc = "exit", !.finished = qtds[i].status # "active",
                                !.result = CASE qtds[i].status = "active"  -> "notexecute"
                                             [] qtds[i].status = "retried" -> "noerror"
                                             [] OTHER -> qtds[i].status]
  /\ UNCHANGED <<qtds, overlay, linked, retire, device, toggle, skips>>

(* ON_EXIT: the toggle is read last.  Then EhcExecTransfer ends, polls     *)
(* again or times out; the monitor takes up a finished transfer; or the    *)
(* transfer is deleted whatever its state.                                 *)
ReadToggle ==
  /\ call.pc = "exit"
  /\ \E pc \in CASE call.by = "sync"    -> IF call.finished THEN {"unlink"} ELSE {"poll", "unlink"}
                 [] call.by = "monitor" -> IF ~call.finished THEN {"wait"}
                                           ELSE IF call.result = "noerror" THEN {"qtds"} ELSE {"callback"}
                 [] call.by = "delete"  -> {"unlink"} :
       call' = [call EXCEPT !.toggle = overlay.toggle, !.pc = pc]
  /\ UNCHANGED <<qtds, overlay, linked, retire, device, toggle, skips>>

(* The QH is unlinked and the URB freed; the owner of the endpoint keeps   *)
(* the toggle, or clears the halted endpoint, which resets both toggles.   *)
Return ==
  /\ call.pc = "unlink" /\ ~retire
  /\ linked' = FALSE /\ call' = NoCall /\ qtds' = <<>> /\ overlay' = NoQh
  /\ \/ /\ call.result = "noerror" \/ ~call.finished
        /\ toggle' = IF call.kind = "control" THEN toggle ELSE call.toggle
        /\ UNCHANGED device
     \/ /\ call.result # "noerror" /\ call.kind # "control"
        /\ toggle' = 0 /\ device' = [device EXCEPT !.toggle = 0]
     \/ /\ call.result # "noerror" /\ call.finished /\ call.kind = "control"
        /\ UNCHANGED <<toggle, device>>
  /\ UNCHANGED <<retire, skips>>

-----------------------------------------------------------------------------
(* The monitor: EhcUpdateAsyncRequest and the callback.  The buffer for    *)
(* the callback is allocated first; without it the round is skipped.       *)

UpdateQtds ==
  /\ call.pc = "qtds"
  /\ qtds' = NewQtds(call.kind)
  /\ call' = [call EXCEPT !.pc = "alt"]
  /\ UNCHANGED <<overlay, linked, retire, device, toggle, skips>>

(* CurQtd, AltQtd and Status; TotalBytes; NextQtd                          *)
UpdateAlt ==
  /\ call.pc = "alt"
  /\ overlay' = [overlay EXCEPT !.alt = Zero, !.status = "idle"]
  /\ call' = [call EXCEPT !.pc = "total"]
  /\ UNCHANGED <<qtds, linked, retire, device, toggle, skips>>

(* Mutant: TotalBytes of the overlay is not cleared.                       *)
UpdateTotalNot ==
  /\ call.pc = "total" /\ UNCHANGED overlay
  /\ call' = [call EXCEPT !.pc = "next"]
  /\ UNCHANGED <<qtds, linked, retire, device, toggle, skips>>

UpdateTotal ==
  /\ call.pc = "total"
  /\ overlay' = [overlay EXCEPT !.total = 0]
  /\ call' = [call EXCEPT !.pc = "next"]
  /\ UNCHANGED <<qtds, linked, retire, device, toggle, skips>>

(* Mutant: NextQtd of the overlay is not set.                              *)
UpdateNextNot ==
  /\ call.pc = "next" /\ UNCHANGED overlay
  /\ device' = Fresh(device)
  /\ \/ call' = [call EXCEPT !.pc = "callback"] /\ UNCHANGED skips
     \/ skips < MaxSkips /\ skips' = skips + 1 /\ call' = [call EXCEPT !.pc = "wait"]
  /\ UNCHANGED <<qtds, linked, retire, toggle>>

UpdateNext ==
  /\ call.pc = "next"
  /\ overlay' = [overlay EXCEPT !.next = 1]
  /\ device' = Fresh(device)
  /\ \/ call' = [call EXCEPT !.pc = "callback"] /\ UNCHANGED skips
     \/ skips < MaxSkips /\ skips' = skips + 1 /\ call' = [call EXCEPT !.pc = "wait"]
  /\ UNCHANGED <<qtds, linked, retire, toggle>>

(* The callback takes the data.  After an error it deletes the transfer,   *)
(* as KeyboardHandler and UsbOnHubInterrupt do; it may at any time.        *)
Callback ==
  /\ call.pc = "callback"
  /\ \/ call.result = "noerror" /\ call' = [call EXCEPT !.pc = "wait"]
     \/ call' = [call EXCEPT !.pc = "read", !.by = "delete", !.i = 1, !.completed = 0,
                             !.result = "noerror", !.finished = TRUE]
  /\ UNCHANGED <<qtds, overlay, linked, retire, device, toggle, skips>>

Update == UpdateQtds \/ UpdateAlt \/ UpdateTotal \/ UpdateNext

-----------------------------------------------------------------------------
Works == ReadQtd \/ ReadToggle \/ Return \/ Update \/ Callback
           \/ StartCheck("sync") \/ StartCheck("monitor")

QueueNext ==
  \/ Ehc \/ Works
  \/ (\E kind \in Kinds : SubmitUrb(kind)) \/ StartCheck("delete")

QueueSafeSpec == QueueInit /\ [][QueueNext]_queueVars

(* The functions of the driver and the monitor's timer run, the controller *)
(* executes the schedule, and the device does not refuse for ever.         *)
QueueSpec ==
  /\ QueueSafeSpec
  /\ WF_queueVars(Works) /\ WF_queueVars(TakeQtd) /\ WF_queueVars(WriteBack)
  /\ WF_queueVars(Packet \/ ShortPacket \/ Halt)
-----------------------------------------------------------------------------
(* Properties.                                                             *)

Succeeded == call.pc = "unlink" /\ call.by = "sync" /\ call.finished /\ call.result = "noerror"
Told == call.pc \in {"qtds", "alt", "total", "next"}

(* The data it reports were moved; and if the device did not stall it is   *)
(* all that was moved, all that was asked for unless a short packet ended  *)
(* a read, and the status stage of a control transfer was executed         *)
(* (EhcCheckUrbResult).                                                    *)
DataIsReal ==
  (Succeeded \/ Told) /\ call.inStep =>
    /\ call.completed <= device.moved
    /\ ~device.stalled =>
         /\ call.completed = device.moved
         /\ device.short \/ device.moved = DataLen(call.kind)
         /\ call.kind = "control" => device.status

(* The device is not asked for more data behind a short packet: the queue  *)
(* stops at ShortReadStop, or goes to the status stage.                    *)
ShortIsLast == ~device.over

(* "Don't move DT update before the loop, otherwise there is a race        *)
(* condition that DT is wrong" (EhcCheckUrbResult): the toggle that a      *)
(* finished transfer returns is the one the device expects next.           *)
ToggleOfFinished ==
  call.pc \in {"unlink", "qtds", "callback"} /\ call.by # "delete" /\ call.finished
    /\ call.kind # "control" /\ call.inStep /\ (call.pc = "callback" => call.result # "noerror")
    => call.toggle = device.toggle

(* What a finished transfer reports is what the device did.                *)
CompletedIsReal == DataIsReal /\ ToggleOfFinished

(* The controller is done with a queue that is found finished: it does not *)
(* write into what the driver updates or frees.                            *)
FinishedIsQuiet ==
  call.pc \in {"qtds", "alt", "total"} \/ (call.pc = "unlink" /\ call.finished)
    => overlay.status # "active" /\ ~retire

(* The controller never follows the null link that EhcUpdateAsyncRequest   *)
(* stores into AltQtd, except between that store and the one that clears   *)
(* the total of a short read.                                              *)
NullLinkUnseen == linked /\ overlay.status = "idle" /\ ~retire /\ Leads = Zero => call.pc = "total"

(* An interrupt transfer that waits is executed, or has a result for the   *)
(* monitor: it is never left with neither.                                 *)
AsyncArmed ==
  call.pc = "wait" =>
    \/ overlay.status = "active" \/ retire
    \/ overlay.status = "idle" /\ Leads = 1 /\ qtds[1].status = "active"
    \/ qtds[1].status # "active"

(* The queue that is shared with the controller, at every store of a check *)
(* and of an update                                                        *)
QueueInv == QueueTypeOK /\ ShortIsLast /\ FinishedIsQuiet /\ NullLinkUnseen /\ AsyncArmed

(* Each round of an interrupt transfer leads to a callback.                *)
IsReported == (call.pc = "wait") ~> (call.pc = "callback" \/ call.pc = "none")

-----------------------------------------------------------------------------
(* What the source says of itself and the code does not do: TLC refutes    *)
(* each of these when it is added to the cfg of the run ehci_queue.        *)

(* What ToggleOfFinished says, of each transfer that returns, one that     *)
(* timed out or was deleted included: "on output, it is updated to         *)
(* indicate the next data toggle" (EhcAsyncInterruptTransfer).             *)
ToggleIsNext ==
  call.pc = "unlink" /\ call.kind # "control" /\ call.inStep => call.toggle = device.toggle

(* "EFI_SUCCESS The transfer finished OK" (EhcExecTransfer), and a round   *)
(* that the monitor passes on without an error: the device did not stall.  *)
SuccessIsOk == Succeeded \/ Told => ~device.stalled

(* "Only need to zero out the overlay area": not even in between.           *)
NullLinkNeverSeen == ~(linked /\ overlay.status = "idle" /\ ~retire /\ Leads = Zero)

(* When the controller has nothing more to execute, the transfer is found  *)
(* finished: "need to check the Status Stage of the setup transfer to get  *)
(* the final result" (EhcCheckUrbResult).                                  *)
AllExecuted == overlay.status # "active" /\ ~retire
                 /\ (overlay.status = "idle" => Leads \notin DOMAIN qtds \/ qtds[Leads].status # "active")
FoundFinished ==
  \A i \in DOMAIN qtds :
    qtds[i].status = "active" => \E j \in 1 .. i - 1 : ~Good(j) \/ StopsAt(j)
ExecutedIsFound == call.pc = "poll" /\ AllExecuted => FoundFinished
=============================================================================
