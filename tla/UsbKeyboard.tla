----------------------------- MODULE UsbKeyboard -----------------------------
(***************************************************************************)
(* The USB keyboard driver (src/Speedup/Bus/Usb/UsbKbDxe): the reports of  *)
(* the asynchronous interrupt transfer become key events in UsbKeyQueue, a *)
(* periodic timer turns them into keystrokes in EfiKeyQueue (and in        *)
(* EfiKeyQueueForNotify for the registered notifications), and a client    *)
(* reads them.                                                             *)
(*                                                                         *)
(* One processor runs everything, at three task priority levels.  The      *)
(* handlers at TPL_NOTIFY (KeyboardHandler, USBKeyboardTimerHandler,       *)
(* USBKeyboardRecoveryHandler) interrupt what runs below them, and are one *)
(* action each.  The handlers at TPL_CALLBACK (USBKeyboardRepeatHandler,   *)
(* KeyNotifyProcessHandler) and the calls of a client below them (read,    *)
(* reset, stop) are cut into the steps between which a higher level may    *)
(* run: the queues have no other protection.                               *)
(***************************************************************************)
EXTENDS KeyQueue, FiniteSets

CONSTANTS
    Letters,        \* keys that repeat and give a character, upper case under shift
    Shifts,         \* the shift keys
    Fns, Watched,   \* registered notifications, and the key each is for
    MaxPresses,     \* bound: letters queued, repeats included
    MaxReports      \* bound: reports that differ from the last

None == "none"          \* the code 0, which no key has
Codes == Letters \cup Shifts

ASSUME KeyboardAssumption ==
    /\ IsFiniteSet(Codes) /\ None \notin Codes
    /\ Letters \cap Shifts = {}
    /\ IsFiniteSet(Fns) /\ Watched \in [Fns -> Letters]
    /\ MaxPresses \in Nat
    /\ MaxReports \in Nat

VARIABLES
    last,       \* LastKeyCodeArray: the codes of the last report
    repeat,     \* RepeatKey
    shift,      \* ShiftOn
    usbq,       \* UsbKeyQueue
    efiq,       \* EfiKeyQueue
    ntfq,       \* EfiKeyQueueForNotify
    timer,      \* the events that are armed or signalled
    transfer,   \* whether the asynchronous transfer is submitted
    cb,         \* the handler at TPL_CALLBACK: where it is and what it loaded
    app,        \* the client's call: where it is and what it loaded
    count,      \* the bounded events so far
    read,       \* history: number of the last keystroke read, or given up by a reset
    happened    \* history: the mishaps of Mishaps

vars == <<last, repeat, shift, usbq, efiq, ntfq, timer, transfer, cb, app, count,
          read, happened>>
queues == <<usbq, efiq, ntfq>>

\* TimerEvent is periodic: it is there until Stop closes it.
Events == {"TimerEvent", "RepeatTimer", "DelayedRecoveryEvent", "KeyNotifyProcessEvent"}

(***************************************************************************)
(* What can go wrong for good, each at one place of the code:              *)
(*   lost      the release of a shift key was thrown away                  *)
(*   dropped   a letter was thrown out of a full queue                     *)
(*   garbled   UsbKeyQueue was changed under the repeat handler's Enqueue  *)
(*   overrun   EfiKeyQueue was full and written under the client's read    *)
(*   pair      one of two shift keys was released                          *)
(*   cut       DelayedRecoveryEvent was closed when it was needed          *)
(*   failed    the transfer could not be submitted again                   *)
(***************************************************************************)
Mishaps == {"lost", "dropped", "garbled", "overrun", "pair", "cut", "failed"}

\* USB_KEY, with the number of the letter and whether a shift was held then.
UsbKey(c, d, i, s) == [code |-> c, down |-> d, n |-> i, cap |-> s]
NoUsbKey == UsbKey(None, FALSE, 0, FALSE)

\* EFI_KEY_DATA: the letter and its case.
NoKey == [code |-> None, upper |-> FALSE, n |-> 0, cap |-> FALSE]

Idle == [pc |-> "idle", slot |-> 0, item |-> NoKey]
Waiting == [pc |-> "idle", slot |-> 0, item |-> NoUsbKey]

UsbKeys == [code : Codes \cup {None}, down : BOOLEAN, n : 0..MaxPresses, cap : BOOLEAN]
KeyData == [code : Letters \cup {None}, upper : BOOLEAN, n : 0..MaxPresses, cap : BOOLEAN]
Queue(Item) == [head : Slots, tail : Slots, buf : [Slots -> Item]]

\* Every variable has its type.
TypeOK ==
    /\ last \subseteq Codes
    /\ repeat \in Letters \cup {None}
    /\ shift \in BOOLEAN
    /\ usbq \in Queue(UsbKeys)
    /\ efiq \in Queue(KeyData)
    /\ ntfq \in Queue(KeyData)
    /\ timer \subseteq Events
    /\ transfer \in BOOLEAN
    /\ cb \in [pc : {"idle", "load", "drop", "slot", "copy", "tail"},
               slot : Slots, item : UsbKeys]
    /\ app \in [pc : {"idle", "slot", "copied", "flags", "last", "repeat", "recovery",
                      "deleted", "gone"},
                slot : Slots, item : KeyData]
    /\ count \in [presses : 0..MaxPresses, reports : 0..MaxReports]
    /\ read \in 0..MaxPresses
    /\ happened \subseteq Mishaps

\* A keyboard just started (USBKeyboardDriverBindingStart, InitUSBKeyboard).
Init ==
    /\ last = {}
    /\ repeat = None
    /\ shift = FALSE
    /\ usbq = NewQueue(NoUsbKey)
    /\ efiq = NewQueue(NoKey)
    /\ ntfq = NewQueue(NoKey)
    /\ timer = {"TimerEvent"}
    /\ transfer = TRUE
    /\ cb = Waiting
    /\ app = Idle
    /\ count = [presses |-> 0, reports |-> 0]
    /\ read = 0
    /\ happened = {}

-----------------------------------------------------------------------------
(* KeyboardHandler                                                         *)

Released(now) == last \ now
Pressed(now) == now \ last

\* Mutant: the letters are queued before the modifiers.
KeyEventsLettersFirst(now, mods, ups, downs) ==
    [i \in DOMAIN ups |-> UsbKey(ups[i], FALSE, 0, FALSE)]
    \o [i \in DOMAIN downs |-> UsbKey(downs[i], TRUE, count.presses + i, now \cap Shifts # {})]
    \o [i \in DOMAIN mods |-> UsbKey(mods[i], mods[i] \in now, 0, FALSE)]

\* The modifiers that changed come first; then the letters released, then the
\* letters pressed.  The order within each is that of the bits or bytes of the
\* reports, here any.
KeyEvents(now, mods, ups, downs) ==
    [i \in DOMAIN mods |-> UsbKey(mods[i], mods[i] \in now, 0, FALSE)]
    \o [i \in DOMAIN ups |-> UsbKey(ups[i], FALSE, 0, FALSE)]
    \o [i \in DOMAIN downs |-> UsbKey(downs[i], TRUE, count.presses + i, now \cap Shifts # {})]

\* Mutant: a release does not stop the repeats.
RepeatAfterKept(now, downs) == IF downs # <<>> THEN Last(downs) ELSE repeat

\* RepeatKey after the report: the last letter pressed, none if it was released.
RepeatAfter(now, downs) ==
    IF downs # <<>> THEN Last(downs)
    ELSE IF repeat \in Released(now) THEN None ELSE repeat

\* While InitUSBKeyboard replaces an event, SetTimer finds none.
Closed == [repeat |-> "RepeatTimer", recovery |-> "DelayedRecoveryEvent"]
Armed(e) == IF app.pc \in DOMAIN Closed /\ Closed[app.pc] = e THEN timer ELSE timer \cup {e}

RepeatTimerAfter(now, downs) ==
    IF downs # <<>> THEN Armed("RepeatTimer")
    ELSE IF RepeatAfter(now, downs) = None THEN timer \ {"RepeatTimer"}
    ELSE timer

Mishap(m, condition) == IF condition THEN {m} ELSE {}

HasShift(ks) == \E i \in DOMAIN ks : ks[i].code \in Shifts
HasPress(ks) == \E i \in DOMAIN ks : ks[i].n # 0

\* The letters of an interrupted repeat handler count as pressed.
Repeating == cb.pc # "idle"

ReportMishaps(now, events) ==
    LET all == Contents(usbq) \o events
        thrown == IF Len(all) > MaxKeys THEN SubSeq(all, 1, Len(all) - MaxKeys) ELSE <<>>
    IN Mishap("lost", HasShift(thrown) \/ app.pc \in {"flags", "last"})
       \cup Mishap("dropped", HasPress(thrown))
       \cup Mishap("garbled", cb.pc \in {"copy", "tail"})
       \cup Mishap("pair", Released(now) \cap Shifts # {} /\ now \cap Shifts # {})

\* A report that differs from the last one.
Report(now) ==
    /\ transfer
    /\ now # last
    /\ count.reports < MaxReports
    /\ count.presses + Cardinality(Pressed(now) \cap Letters) + (IF Repeating THEN 1 ELSE 0)
         <= MaxPresses
    /\ \E mods \in SetToSeqs((Released(now) \cup Pressed(now)) \cap Shifts),
          ups \in SetToSeqs(Released(now) \cap Letters),
          downs \in SetToSeqs(Pressed(now) \cap Letters) :
        LET events == KeyEvents(now, mods, ups, downs)
        IN /\ usbq' = EnqueueAll(usbq, events)
           /\ repeat' = RepeatAfter(now, downs)
           /\ timer' = RepeatTimerAfter(now, downs)
           /\ last' = now
           /\ count' = [count EXCEPT !.presses = @ + Len(downs), !.reports = @ + 1]
           /\ happened' = happened \cup ReportMishaps(now, events)
    /\ UNCHANGED <<shift, efiq, ntfq, transfer, cb, app, read>>

\* A transfer that failed: no more repeats, the transfer is deleted, and the
\* delayed recovery is to submit it again.
ReportError ==
    /\ transfer
    /\ transfer' = FALSE
    /\ repeat' = None
    /\ timer' = Armed("DelayedRecoveryEvent") \ {"RepeatTimer"}
    /\ happened' = happened \cup Mishap("cut", "DelayedRecoveryEvent" \notin timer')
    /\ UNCHANGED <<last, shift, queues, cb, app, count, read>>

\* USBKeyboardRecoveryHandler: it does not look at what the submission returns.
Recover(submitted) ==
    /\ "DelayedRecoveryEvent" \in timer
    /\ timer' = timer \ {"DelayedRecoveryEvent"}
    /\ transfer' = submitted
    /\ happened' = happened \cup Mishap("failed", ~submitted)
    /\ UNCHANGED <<last, repeat, shift, queues, cb, app, count, read>>

-----------------------------------------------------------------------------
(* USBKeyboardTimerHandler                                                 *)

\* Mutant: the parsing goes on to the last press.
ParsedToLast(q) ==
    LET c == Contents(q)
        presses == {i \in DOMAIN c : c[i].down /\ c[i].code # None}
        upto == IF presses = {} THEN Len(c) ELSE Max(presses)
    IN SubSeq(c, 1, upto)

\* USBParseKey pops events until it has a press; a code without a descriptor
\* is passed over.
Parsed(q) ==
    LET c == Contents(q)
        presses == {i \in DOMAIN c : c[i].down /\ c[i].code # None}
        upto == IF presses = {} THEN Len(c) ELSE Min(presses)
    IN SubSeq(c, 1, upto)

ShiftAfter(ks, on) ==
    IF ks # <<>> /\ Last(ks).code \in Shifts /\ Last(ks).down THEN TRUE
    ELSE on /\ ~HasShift(ks)

\* Mutant: the event that ends the parsing stays in the queue.
PoppedButLast(q, ks) == [q EXCEPT !.head = (@ + (Len(ks) - 1)) % (MaxKeys + 1)]

Popped(q, ks) == [q EXCEPT !.head = (@ + Len(ks)) % (MaxKeys + 1)]

\* One entry of EfiKeyQueueForNotify for each registration that matches.
Matches(key) == [f \in 1..Cardinality({g \in Fns : Watched[g] = key.code}) |-> key]

SignalFor(key) == IF Matches(key) # <<>> THEN {"KeyNotifyProcessEvent"} ELSE {}

\* UsbKeyCodeToEfiInputKey: a letter is upper case when ShiftOn is set.
Convert(k, on) == [code |-> k.code, upper |-> on, n |-> k.n, cap |-> k.cap]

TimerHandler ==
    LET ks == Parsed(usbq)
        on == ShiftAfter(ks, shift)
        letter == ks # <<>> /\ Last(ks).down /\ Last(ks).code \in Letters
        key == Convert(Last(ks), on)
    IN /\ "TimerEvent" \in timer
       /\ ks # <<>>
       /\ usbq' = Popped(usbq, ks)
       /\ shift' = on
       /\ \/ /\ ~letter
             /\ UNCHANGED <<efiq, ntfq, timer, happened>>
          \/ /\ letter
             /\ efiq' = Enqueue(efiq, key)
             /\ ntfq' = EnqueueAll(ntfq, Matches(key))
             /\ timer' = timer \cup SignalFor(key)
             /\ happened' = happened \cup Mishap("dropped", IsQueueFull(efiq)) \cup
                  Mishap("overrun", IsQueueFull(efiq) /\ app.pc \in {"slot", "copied"})
       /\ UNCHANGED <<last, repeat, transfer, cb, app, count, read>>

-----------------------------------------------------------------------------
(* USBKeyboardRepeatHandler, at TPL_CALLBACK: its Enqueue is not protected *)
(* from that of KeyboardHandler.                                           *)

Goto(handler, pc) == handler' = [handler EXCEPT !.pc = pc]

RepeatFires ==
    /\ cb.pc = "idle"
    /\ "RepeatTimer" \in timer
    /\ count.presses < MaxPresses
    /\ timer' = timer \ {"RepeatTimer"}
    /\ Goto(cb, IF repeat # None THEN "load" ELSE "idle")
    /\ UNCHANGED <<last, repeat, shift, queues, transfer, app, count, read, happened>>

\* RepeatKey is read again; IsQueueFull.
RepeatLoad ==
    /\ cb.pc = "load"
    /\ cb' = [cb EXCEPT !.pc = IF IsQueueFull(usbq) THEN "drop" ELSE "slot",
                        !.item = UsbKey(repeat, TRUE, 0, FALSE)]
    /\ UNCHANGED <<last, repeat, shift, queues, timer, transfer, app, count, read, happened>>

RepeatDrop ==
    /\ cb.pc = "drop"
    /\ usbq' = Drop(usbq)
    /\ Goto(cb, "slot")
    /\ happened' = happened \cup Mishap("lost", First(usbq).code \in Shifts)
                            \cup Mishap("dropped", First(usbq).n # 0)
                            \cup Mishap("garbled", IsQueueEmpty(usbq))
    /\ UNCHANGED <<last, repeat, shift, efiq, ntfq, timer, transfer, app, count, read>>

RepeatSlot ==
    /\ cb.pc = "slot"
    /\ LET real == IF cb.item.code = None THEN 0 ELSE 1
       IN /\ cb' = [pc |-> "copy", slot |-> usbq.tail,
                    item |-> UsbKey(cb.item.code, TRUE, (count.presses + 1) * real,
                                    last \cap Shifts # {})]
          /\ count' = [count EXCEPT !.presses = @ + real]
    /\ happened' = happened \cup Mishap("lost", app.pc \in {"flags", "last"})
    /\ UNCHANGED <<last, repeat, shift, queues, timer, transfer, app, read>>

RepeatCopy ==
    /\ cb.pc = "copy"
    /\ usbq' = [usbq EXCEPT !.buf[cb.slot] = cb.item]
    /\ Goto(cb, "tail")
    /\ UNCHANGED <<last, repeat, shift, efiq, ntfq, timer, transfer, app, count, read, happened>>

\* The step of Tail, and the timer for the next repeat.
RepeatEnds ==
    /\ cb.pc = "tail"
    /\ usbq' = [usbq EXCEPT !.tail = After(@)]
    /\ timer' = Armed("RepeatTimer")
    /\ cb' = Waiting
    /\ happened' = happened \cup Mishap("garbled", IsQueueFull(usbq))
    /\ UNCHANGED <<last, repeat, shift, efiq, ntfq, transfer, app, count, read>>

RepeatHandler ==
    \/ RepeatFires \/ RepeatLoad \/ RepeatDrop \/ RepeatSlot \/ RepeatCopy \/ RepeatEnds

-----------------------------------------------------------------------------
(* KeyNotifyProcessHandler, at TPL_CALLBACK: it dequeues, at TPL_NOTIFY,   *)
(* until the queue is empty.  What the timer adds in between is signalled  *)
(* again, so the loop is one action.                                       *)

NotifyHandler ==
    /\ cb.pc = "idle"
    /\ "KeyNotifyProcessEvent" \in timer
    /\ timer' = timer \ {"KeyNotifyProcessEvent"}
    /\ ntfq' = [ntfq EXCEPT !.head = ntfq.tail]
    /\ UNCHANGED <<last, repeat, shift, usbq, efiq, transfer, cb, app, count, read, happened>>

-----------------------------------------------------------------------------
(* The calls of a client.  They run when no handler at TPL_CALLBACK does.  *)

\* USBKeyboardReadKeyStrokeWorker.
ReadStarts ==
    /\ app.pc = "idle"
    /\ ~IsQueueEmpty(efiq)
    /\ app' = [app EXCEPT !.pc = "slot", !.slot = efiq.head]
    /\ UNCHANGED <<last, repeat, shift, queues, timer, transfer, cb, count, read, happened>>

ReadCopies ==
    /\ app.pc = "slot"
    /\ app' = [pc |-> "copied", slot |-> efiq.head, item |-> efiq.buf[app.slot]]
    /\ UNCHANGED <<last, repeat, shift, queues, timer, transfer, cb, count, read, happened>>

\* Head is stepped from what it was after the copy, or from what it is.
ReadEnds ==
    /\ app.pc = "copied"
    /\ \E head \in {app.slot, efiq.head} : efiq' = [efiq EXCEPT !.head = After(head)]
    /\ read' = app.item.n
    /\ app' = Idle
    /\ UNCHANGED <<last, repeat, shift, usbq, ntfq, timer, transfer, cb, count, happened>>

ReadKeyStroke == ReadStarts \/ ReadCopies \/ ReadEnds

\* USBKeyboardReset: the three queues; then InitUSBKeyboard for an exhaustive
\* reset, when the device can be configured.
Reset(exhaustive) ==
    /\ app.pc = "idle"
    /\ usbq' = NewQueue(NoUsbKey)
    /\ efiq' = NewQueue(NoKey)
    /\ ntfq' = NewQueue(NoKey)
    /\ Goto(app, IF exhaustive THEN "flags" ELSE "idle")
    /\ happened' = happened \cup Mishap("lost", HasShift(Contents(usbq)))
    /\ read' = count.presses
    /\ UNCHANGED <<last, repeat, shift, timer, transfer, cb, count>>

\* The modifiers; then LastKeyCodeArray, so that what is still held comes back,
\* and the old RepeatTimer.
ResetFlags ==
    /\ app.pc = "flags"
    /\ shift' = FALSE
    /\ Goto(app, "last")
    /\ UNCHANGED <<last, repeat, queues, timer, transfer, cb, count, read, happened>>

ResetLast ==
    /\ app.pc = "last"
    /\ last' = {}
    /\ timer' = timer \ {"RepeatTimer"}
    /\ Goto(app, "repeat")
    /\ UNCHANGED <<repeat, shift, queues, transfer, cb, count, read, happened>>

\* DelayedRecoveryEvent is closed, armed or not.
ResetRecovery ==
    /\ app.pc = "repeat"
    /\ timer' = timer \ {"DelayedRecoveryEvent"}
    /\ happened' = happened \cup Mishap("cut", "DelayedRecoveryEvent" \in timer)
    /\ Goto(app, "recovery")
    /\ UNCHANGED <<last, repeat, shift, queues, transfer, cb, count, read>>

ResetEnds ==
    /\ app.pc = "recovery"
    /\ Goto(app, "idle")
    /\ UNCHANGED <<last, repeat, shift, queues, timer, transfer, cb, count, read, happened>>

InitUSBKeyboard == ResetFlags \/ ResetLast \/ ResetRecovery \/ ResetEnds

\* USBKeyboardDriverBindingStop: the transfer, the events, the memory.
StopTransfer ==
    /\ app.pc = "idle"
    /\ transfer' = FALSE
    /\ Goto(app, "deleted")
    /\ UNCHANGED <<last, repeat, shift, queues, timer, cb, count, read, happened>>

\* The events are closed; the queues and the device are freed.
StopEnds ==
    /\ app.pc = "deleted"
    /\ Goto(app, "gone")
    /\ timer' = {}
    /\ usbq' = NewQueue(NoUsbKey)
    /\ efiq' = NewQueue(NoKey)
    /\ ntfq' = NewQueue(NoKey)
    /\ last' = {}
    /\ repeat' = None
    /\ shift' = FALSE
    /\ read' = count.presses
    /\ UNCHANGED <<transfer, cb, count, happened>>

Stop == StopTransfer \/ StopEnds

Client ==
    /\ cb.pc = "idle"
    /\ ReadKeyStroke \/ (\E b \in BOOLEAN : Reset(b)) \/ InitUSBKeyboard \/ Stop

-----------------------------------------------------------------------------
AtNotify ==
    /\ app.pc # "gone"
    /\ \/ \E now \in SUBSET Codes : Report(now)
       \/ ReportError
       \/ \E b \in BOOLEAN : Recover(b)
       \/ TimerHandler

AtCallback == RepeatHandler \/ NotifyHandler

Next == AtNotify \/ AtCallback \/ Client

Spec == Init /\ [][Next]_vars

-----------------------------------------------------------------------------
(* Properties                                                              *)

No(mishaps) == happened \cap mishaps = {}
Stopping == app.pc \in {"deleted", "gone"}

\* The keystrokes that wait, and the one in a client's hands, are newer than
\* those read before and in the order of the presses, each once.  Enqueue at
\* TPL_NOTIFY against Dequeue below it: true until the full queue is written
\* under a read or UsbKeyQueue under the repeat handler.
KeysInOrder ==
    No({"garbled", "overrun"}) =>
        /\ \A i, j \in 1..Count(efiq) :
             /\ i < j => Contents(efiq)[i].n < Contents(efiq)[j].n
             /\ app.pc \notin {"slot", "copied"} => read < Contents(efiq)[i].n
        /\ app.pc = "copied" => read < app.item.n

\* A press that was not read waits in a queue, or is being put into one by the
\* repeat handler: every press comes to the client, one by one, although the timer
\* takes only one letter at a time and the handlers interrupt one another.  True
\* until a full queue throws "the first key out" (Enqueue).
NoneIsLost ==
    No({"garbled", "dropped"}) =>
        \A n \in read + 1..count.presses :
            \/ \E i \in 1..Count(efiq) : Contents(efiq)[i].n = n
            \/ \E i \in 1..Count(usbq) : Contents(usbq)[i].n = n
            \/ cb.pc \in {"copy", "tail"} /\ cb.item.n = n

\* ShiftOn once the pending events are parsed: the last of them decides.
ShiftToCome ==
    LET c == Contents(usbq)
        on == {i \in DOMAIN c : c[i].code \in Shifts}
    IN IF on = {} THEN shift ELSE c[Max(on)].down

\* The shift state never ends up other than the keyboard reports it, whatever
\* repeats, recoveries and resets come between: true until an event of a shift
\* key is thrown away, or one of two shift keys is released (USBParseKey).
ShiftFollowsReport ==
    (No({"lost", "garbled", "pair"}) /\ app.pc \notin {"flags", "last"}) =>
        (ShiftToCome <=> last \cap Shifts # {})

\* A letter has the case that the shift keys had when it was pressed, however
\* late it is converted.
CaseIsRight ==
    No({"lost", "garbled", "pair"}) =>
        \A i \in 1..Count(efiq) : LET key == Contents(efiq)[i] IN key.upper = key.cap

\* Only a key that is held repeats: the timer is armed with none released.
RepeatIsHeld == "RepeatTimer" \in timer => repeat \in last \cup {None}

\* The keyboard is polled or is to be polled again, and never submitted twice:
\* true until a reset within the recovery delay, or a submission that fails,
\* leaves it alone for good (KeyboardHandler, USBKeyboardRecoveryHandler).
PolledOrRecovering ==
    ~Stopping =>
        IF No({"cut", "failed"}) THEN transfer # ("DelayedRecoveryEvent" \in timer)
        ELSE ~transfer /\ "DelayedRecoveryEvent" \notin timer

\* No keystroke waits to be notified without an event that will do it.
NotifyIsSignalled == ~IsQueueEmpty(ntfq) => "KeyNotifyProcessEvent" \in timer

\* What the handlers at three priority levels keep among them.
KeyboardInv ==
    TypeOK /\ ShiftFollowsReport /\ RepeatIsHeld /\ PolledOrRecovering /\ NotifyIsSignalled

-----------------------------------------------------------------------------
\* What the source says of itself and the code does not do: TLC refutes each of
\* these when it is added to the cfg of the run keyboard.

\* "Handler of DelayedRecoveryEvent triggered by timer will re-submit the
\* interrupt" (KeyBoard.c:1036): it does not when the event is closed before.
AlwaysRecovers ==
    (~transfer /\ ~Stopping /\ No({"failed"})) => "DelayedRecoveryEvent" \in timer

\* "Delete the Asynchronous Interrupt Transfer from this device" (EfiKey.c:537):
\* the recovery may submit it again before Stop closes its event.
TransferIsDeleted == app.pc = "gone" => ~transfer

=============================================================================
