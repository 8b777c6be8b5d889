# bareBoot in TLA+

bareBoot boots macOS on computers with a legacy BIOS.  It is a UEFI environment
that is loaded from a boot sector: an EDK II core with its own drivers for USB,
disks, keyboard and video, a boot manager and patches for the kernel.  This
directory holds TLA+ models of the parts of it where actors interleave, TLC
configurations that check them, and TLAPS proofs about them.

The program runs on one processor, without threads.  What interleaves is

* the processor and the devices, above all host controllers that read and write
  memory by themselves;
* the code at `TPL_APPLICATION` and the timer handlers and callbacks at
  `TPL_CALLBACK` and `TPL_NOTIFY` that interrupt it or that it calls;
* a request and the late, lost or repeated answers to earlier ones.

That is where its bugs are hard to test, and what the models are about.

## The system

| part | where | state | what makes it correct | status |
|---|---|---|---|---|
| xHCI producer rings | `Speedup/Bus/Pci/XhciDxe/XhciSched.c` | `TRANSFER_RING`: segment, `RingEnqueue`, `RingPCS` | The xHC takes every TRB once, in order, whole | modelled, proved |
| xHCI event ring | same | `EVENT_RING`: segment, dequeue and enqueue pointers, `EventRingCCS`; `ERDP` | every event is handled once, in order | modelled, proved |
| xHCI transfers | `XhciDxe/Xhci.c`, `XhciSched.c` | `URB`s, `AsyncIntTransfers` | a transfer returns, its answer is true, nothing of it is left behind | partly |
| xHCI slots | same | `UsbDevContext[]`, `DCBAA` | a slot for each device, none for one that is gone | partly, proved |
| xHCI start, stop, memory pool | `Xhci.c`, `UsbHcMem.c` | registers, bitmap of blocks | the pool is a variant of that of UHCI | not modelled |
| USB bus and hubs | `Speedup/Bus/Usb/UsbBusDxe` | `Devices[]`, `ChangeMap`, `HubNotify` | the table follows the ports; no change is lost | partly, proved |
| USB mass storage (BOT) | `Speedup/Bus/Usb/UsbMassStorageDxe` | `CbwTag`, retries, the phases | all blocks or an error; host and device in step | partly, proved |
| USB mass storage (CBI) | same, `UsbMassCbi.c` | retries | as above | not modelled |
| USB keyboard | `Speedup/Bus/Usb/UsbKbDxe` | three queues, repeat and recovery timers | keys once, in order, in the right case; never deaf | partly, proved |
| EHCI | `Speedup/Bus/Pci/EhciDxe` | periodic and asynchronous schedules, QHs and qTDs | nothing is lost from a schedule or freed while the controller may read it | partly, proved |
| UHCI | `Speedup/Bus/Pci/UhciDxe` | frame list, QHs, `AsyncIntList`, `RecycleWait`, `Recycle`; the bitmaps of `MemPool` | as EHCI; memory has one owner and none is lost | partly, proved |
| OHCI | `OhciDxe` | ED and TD lists, done queue | as EHCI | not modelled |
| ATA and AHCI | `MdeModulePkg/Bus/Ata/AtaAtapiPassThru` | `NonBlockingTaskList`, command list and table | each task ends once, in order; one command at a time | partly, proved |
| SATA controller, IDE mode | `MdeModulePkg/Bus` | transfer modes, registers | sequential | not modelled |
| BIOS keyboard | `BiosKeyboard` | one-entry queue | no key lost between timer and reader | not modelled |
| BIOS block I/O | `BlockIoDxe` | bounce buffer below 1 MB | sequential | not modelled |
| Partitions | `PartitionDxe` | none | valid GPT or its backup | not modelled |
| Property lists | `Library/PListLib` | reference counts | a shared node is freed once | not modelled |
| Boot selection and manager | `BdsDxe` | handles, options | sequential, driven by the user | not modelled |
| macOS support | `BdsDxe/macosx` | tables, NVRAM variables | transformations of binary data | not modelled |
| Boot sector, loaders, CPU, PCI, ACPI, video, helpers, tools | the rest of `src` | one-shot set-up | no interleaving | not modelled |

How they call each other, for a block that is read from a USB stick:
`UsbMassReadBlocks` splits the request into SCSI commands; each goes through
`UsbBotExecCommand` in three bulk or control transfers of the bus driver;
each of these is a URB in `XhcBulkTransfer` or `XhcControlTransfer`, which puts
TRBs on the transfer ring of an endpoint, rings a doorbell, and polls the event
ring in `XhcExecTransfer`.  With an EHCI controller it is a queue head with its
qTDs that `EhcLinkQhToAsync` puts on the asynchronous list, and
`EhcExecTransfer` polls the qTDs.  At the same time keyboards and hubs have
asynchronous interrupt transfers pending on the same controller.
`XhcMonitorAsyncRequests` and `EhcMonitorAsyncRequests`, timer handlers at
`TPL_NOTIFY`, call `KeyboardHandler` and `UsbOnHubInterrupt` back, and these may
call into the controller driver again.  `UsbOnHubInterrupt` signals an event at
`TPL_CALLBACK`, which enumerates the hub's ports: it reads their status, resets
them, and gives the devices addresses, and the xHCI driver opens and closes its
slots by watching those requests go by.

The hazards that follow from this, each with its line and the properties that
cover it, are the list `hazards` of `PROJECT.json`.

## The modules

```
   UsbKeyboard      UsbBot              UsbEnumeration
    | (extends)        .                  | (extends)
   KeyQueue            .                XhciSlots
      .                .                  .
      . (reports)      . (transfers)      . (requests)
   XhciTransfer                         EhciQueue     one QH and its qTDs
      .  (queues of TRBs and events)      .
   WorkQueue           abstract         EhciSchedule  the lists of QHs
      ^ implemented by (proved)
   TransferRing   EventRing             AhciTasks     tasks and commands of disks

   UhciRequests --- HcMemPool           the interrupt transfers of UHCI, and their memory
```

A solid line is EXTENDS or a refinement by INSTANCE; a dotted one says which module
models what another takes for granted.  A module `XProofs` holds the
theorems about module `X`, `UsbHostProofs` those about `UhciRequests`, `EhciQueue` and
`EhciSchedule`; the `MC` modules hold the instances for TLC.  Names
follow the source.  In each module the host controller, the device and the timer are
external: they are modelled from what the driver relies on, and they take their
steps at any time.  Operators whose comment begins with "Mutant" are plausible
bugs of the definition behind them; nothing uses them in a specification, they
show that the properties notice such a bug.  The last section of a module holds
what the source says of itself and the code does not do.

### TransferRing

| variable | code |
|---|---|
| `seg` | `RingSeg0`: cycle bit and contents of each TRB, the Link TRB in the last slot |
| `RingEnqueue`, `RingPCS` | the fields of `TRANSFER_RING` |
| `pc`, `todo` | where `XhcCreateTransferTrb` or `XhcCreateCmdTrb` is |
| `xDequeue`, `xCCS`, `endpoint`, `current` | the xHC: its cursor, its state, what it fetched |

A store that the xHC can tell apart is an action: `StartTd` (the synchronisation at
the beginning), `WriteBody` (fields), `SetCycleBit`, `SyncAfterTrb`,
`RingDoorBell`; then the recovery `StopEndpoint`, `SetTrDequeuePointer`,
`RecoveryFails`.  `XhcSyncTrsRing` itself is one step: its loop reads cycle bits
that only the driver writes, and its two stores (the cycle bit of the Link TRB,
the contents of a slot that the xHC does not own) do not depend on each other's
order for a reader that stops at the first TRB it does not own.

`RoomFor` is an assumption on the callers, not a check in the code: neither
function looks for room.  Rings have 0x100 slots and the callers have a
handful of descriptors outstanding.  The last TRB of a transfer ring's
capacity cannot be used, because the driver already clears the next slot.

A command TRB differs from a transfer TRB: it is copied from a template whose cycle
bit is 1 before `RingPCS` is stored in it, and the ring is not synchronised behind
it.  `CommandRing` selects between the two.

### EventRing

`SyncEventRing` is the scan at the start of `XhcCheckUrbResult`, `HandleEvent` one
turn of its loop, `AdvanceErdp` its exit.  The scan is one step although the xHC may
post events during it.  A longer scan sees a later end of the ring, which is the
same as a scan that starts later: slots that were found new stay new.
`lap` is a history variable, the cycle state of the lap `EventRingDequeue` is in.
The code has no such variable; it has `EventRingCCS`, and where the two differ
is where it goes wrong (see below).

### XhciTransfer

| variable | code |
|---|---|
| `heap` | the URB at each address, with `TrbStart` .. `TrbEnd` as the sequence `trbs`; a freed URB keeps its contents, and its address may be used again |
| `link` | the forward links of `AsyncIntTransfers` |
| `ring`, `events` | the queues that `TransferRing` and `EventRing` implement |
| `state` | the endpoint states of the xHC |
| `pc`, `chk`, `found`, `cur`, `recovery`, `mUrb`, `mNext`, `cb` | which of the nested calls are active, and their local variables |
| `acked`, `abandoned` | history for the properties |

All entry points raise the TPL to `TPL_NOTIFY`, so a synchronous transfer is not
interrupted by the monitor; the xHC works between any two of their steps, and a
callback calls in.  `SubmitSync` .. `CommandFails` are `XhcBulkTransfer`,
`XhcControlTransfer` and `XhcSyncInterruptTransfer`, which are the same in what is
modelled here, with `XhcRecoverHaltedEndpoint` and `XhcDequeueTrbFromEndpoint`.
`SubmitAsync`, `DeleteAsync` are the two halves of `XhcAsyncInterruptTransfer`.
`MonitorStarts` .. `CallbackReturns` are `XhcMonitorAsyncRequests`, with
`EFI_LIST_FOR_EACH_SAFE` as `mUrb` and `mNext`.

The callbacks are those of this program.  `KeyboardHandler` and
`UsbOnHubInterrupt`, when given an error, clear a stall with a control transfer
and delete their own transfer; the hub's submits it again at once.  A callback
without an error calls nothing.  Users have at most one transfer per endpoint.

The event ring is the ideal queue here.  That a check ends at an event with an error
is kept (`found' = 0`); that it may lose the events behind it is the matter of
`EventRing`.

### UsbBot

`pc` is where the host is: `loop` in `UsbBootExecCmdWithRetry`; `send`, `data` and
`status` in the phases of `UsbBotExecCommand`; `failed` before the reset in
`UsbMassReadBlocks`.  `sense` tells a REQUEST SENSE from the command itself.
The device waits for a CBW, works on it, has data, has a CSW, and may have an
endpoint halted.  `prompt`, chosen in the initial state, separates two kinds of
device.  A prompt one answers within the time-out and obeys resets, but stalls,
fails commands, reports phase errors and transfers less data than asked for.  Any
other one may in addition be late with everything, lose resets and
return bus errors.  `Expire` is the timer of 60 seconds.

### XhciSlots and UsbEnumeration

`XhciSlots` is the table `UsbDevContext` with the functions that search or change it:
`XhcBusDevAddrToSlotId`, `XhcRouteStringToSlotId`, `XhcInitializeDeviceSlot`,
`XhcDisableSlotCmd`, `XhcPollPortStatusChange`, and the hooks of
`XhcControlTransfer`.  Each is an operator from a table to a table, because the
commands to the xHC are synchronous at `TPL_NOTIFY`.  `UsbEnumeration` has the
world, the ports and the bus driver around it.

| variable | code |
|---|---|
| `port` | the port of a hub: the device attached, `enable`, and its change bits |
| `slots` | `UsbDevContext`: what is enabled, `SlotId`, `BusDevAddr`, `RouteString`, whether descriptors and rings are there, and the slot's state in the xHC |
| `dev` | `Bus->Devices[]`: port, parent, `Configured`, `DisconnectFail` |
| `urb`, `map`, `notify` | a hub's interrupt transfer, `HubIf->ChangeMap`, `HubNotify` signalled |
| `job` | where `UsbRootHubEnumeration` or `UsbHubEnumeration` is, with the locals of `UsbEnumeratePort` and `UsbEnumerateNewDev` |

Each request to the host controller driver is a step of its own, since the world
changes between two of them: `ReadStatus`, `RemoveDevice`, `ResetPort`, `WaitReset`,
`CreateDevice`, `SetAddress`, `Configure`, `ConnectDriver`, `ClearChange`.  `HubReports` and
`HubError` are `UsbOnHubInterrupt`, which runs at `TPL_NOTIFY` and interrupts
an enumeration.  `UsbIoPortReset` is called by a device's driver.  `Faults` are
the failures that are injected: an Address Device or a Disable Slot command, a
driver that does not disconnect, an error of the interrupt transfer, a status
request, a request to a new device.  A request to a device that is gone must fail.
The slot that the xHC gives out is the least one that is free; two twins of each
function, for contexts of 32 and of 64 bytes, do the same.

### EhciSchedule

| variable | code |
|---|---|
| `frame`, `frameHw` | `PeriodFrameHost`, `PeriodFrame` |
| `nextQh`, `horizon` | `NextQh` and `HorizonLink` of a QH: what the driver follows, and what the controller does |
| `interval`, `use` | `Interval`; who holds the QH: the pool, an operation, a transfer, nobody |
| `op` | the running operation and the point in its loop over the frames |
| `iaad`, `iaa` | the doorbell in USBCMD and its acknowledgement in USBSTS |
| `walker`, `async` | the controller: the QH it read last in each schedule |

`EhcLinkQhToPeriod` and `EhcUnlinkQhFromPeriod` are one step per frame and two per
link (the controller sees the first of the two stores), `EhcLinkQhToAsync` and
`EhcUnlinkQhFromAsync` with `EhcSetAndWaitDoorBell` likewise.  The controller walks
the list of a frame and then goes to the next frame, and goes around the
asynchronous ring, at any time.  `due` is what it should meet in the frame: the QHs whose interval
divides it and which were linked all the while it walked.

### EhciQueue

The other half of EHCI: the qTDs of one QH that stays in a schedule.  The controller
copies a qTD to the overlay, executes it packet by packet, writes it back and
advances; `EhcCheckUrbResult` reads the qTDs one by one, and at last the toggle;
`EhcUpdateAsyncRequest` rewrites qTDs and QH store by store.  Each load and store is
an action, and the controller may work between any two.  All kinds of
`EhcCreateQtds` are there, bulk in and out, interrupt, and control reads of
one and of two data qTDs, with the alternate pointers to `ShortReadStop`.

`Halt` ends a transaction in one of three ways: "stall", "error" (retried until the error
counter is 0, babble or a buffer error), and "retried", a stall of a qTD that had a transaction error
which a retry got over.  Its error bit is still set and its counter is not 0, so
none of the four conditions in `EhcCheckUrbResult` (`EhciSched.c:591-613`) holds: `Finished` is set,
`Result` stays `EFI_USB_NOERROR`, and the caller is told a success.  `ReadQtd` does the same.
`device.stalled` remembers that the device refused a transaction of this round.

### KeyQueue and UsbKeyboard

`KeyQueue` is `USB_SIMPLE_QUEUE`, a ring that drops its oldest entry when it is full.

| variable | code |
|---|---|
| `last`, `repeat`, `shift` | `LastKeyCodeArray`, `RepeatKey`, `ShiftOn` |
| `usbq`, `efiq`, `ntfq` | `UsbKeyQueue`, `EfiKeyQueue`, `EfiKeyQueueForNotify` |
| `timer` | `TimerEvent`, `RepeatTimer`, `DelayedRecoveryEvent`, `KeyNotifyProcessEvent`: armed or signalled |
| `transfer` | whether the asynchronous transfer is submitted |
| `cb`, `app` | where the handler at `TPL_CALLBACK` and the client's call are, with the entry they loaded |

The handlers at `TPL_NOTIFY` (`KeyboardHandler`, `USBKeyboardTimerHandler`,
`USBKeyboardRecoveryHandler`) are one action each, since nothing interrupts them.
`USBKeyboardRepeatHandler` and `KeyNotifyProcessHandler` at `TPL_CALLBACK`, and the client's
`ReadKeyStroke`, `Reset` and the driver's stop, are cut wherever a higher level can
come between two accesses: the slot, the copy and the index of a queue are
separate steps.  Keystrokes carry a number and the shift state of their press, so
that order and case can be compared with what was pressed.  `happened` records
mishaps that the properties excuse, each at one line of the code: among them "garbled" and "overrun" (an
entry changes under the copy of the repeat handler or of the client), "dropped" (a press is thrown out of
a full queue), "cut" and "failed" (the recovery does not come, or its submission fails).  `read` is the number of the last keystroke that was read, or given up
by a reset or a stop.

### AhciTasks

| variable | code |
|---|---|
| `task`, `list` | `ATA_NONBLOCK_TASK`s, `NonBlockingTaskList` |
| `routine`, `call` | where `AsyncNonBlockingTransferRoutine` and a blocking command are |
| `table` | the command list entry and command table of slot 0, shared by all ports |
| `issued`, `hba`, `fis` | per port: the CI bit, the command in execution, the received FIS |
| `mapped`, `notify` | buffers mapped for DMA; events that are signalled |

The timer at `TPL_NOTIFY` executes tasks between any two steps of a blocking
command: `StartTask`, `PollFinds`, `PollFails` and `NotReady` are the paths of
`AhciDmaTransfer` for a task, `RemoveTask` and `DestroyAsynTaskList` what the routine does with
the result.  A blocking command begins by draining the list, at a raised level
which it lowers before it starts.  PIO commands, commands without data, and ATAPI
packets do neither.  The callbacks of the events queue further tasks.  The stop of
the driver, a controller that does not stop a command, and a buffer that is mapped
in part only may happen at any time (`MaxMishaps` bounds how many).

### HcMemPool and UhciRequests

`HcMemPool` is `UsbHcMem.c`: operators from a pool, which is the blocks it holds and the units
that are marked, to the pools a call may leave.  The bitmap is searched as the code does, for
the first run that is long enough, in the first block and then in the others, whose
order is left open.  A new block is taken only if no run is found, and goes when its
last bit is cleared.

| variable | code |
|---|---|
| `pool` | `Uhc->MemPool` |
| `req` | `UHCI_ASYNC_REQUEST`s: in `AsyncIntList`, on `RecycleWait`, on `Recycle`, or none; endpoint, memory, state of the TD |
| `list`, `next` | `AsyncIntList`; `HorizonLink` and `NextQh` |
| `hc` | the controller: runs, the QH it stands at, whether a frame began since the last tick |
| `mon` | `UhciMonitorAsyncReqList`: `AsyncReq` and `Link` |
| `drv`, `happened` | whether the driver runs; mishaps that properties excuse |

`Submit` is `Uhci2AsyncInterruptTransfer`, with each of its three allocations and the request
itself failing, and what it then frees; `RemoveAsyncReq` the same function's other half.
The controller gives no sign that it has left a queue head, so a removed request waits
for two ticks: `Tick` frees what is on `Recycle` and moves `RecycleWait` there, then begins a
round of the monitor, whose steps are the turns of its loop and the callbacks.  The
controller stands at some QH, follows links, which those of a removed one still are, and
begins a new frame at any moment.  A tick follows the last one after a frame at least,
unless it was held off by a raised TPL and is followed by the next one at once (`late`).

A request has one TD (all clients ask for one packet) and the interval 1, so that every frame
has every QH; `CtrlQh` is the end of the list and stands for `BulkQh` too.  Everything in the
driver runs at `TPL_NOTIFY`, as does the bus driver that calls it.  The exception is the stop
of the driver, `StopBegins` to `StopEnds`, during which `Tick` may come, and `TickAmidStop`
once it comes amid the loop that frees.

## What TLC checks

| run | instance | properties | states |
|---|---|---|---|
| `transfer_ring` | 5 slots, 2 kinds of TRB, descriptors of up to 3 TRBs | `RingInv` (`TypeOK`, `OwnedAreWritten`, the cycle bits tell the laps apart, the xHC is never ahead of the driver nor a lap behind, there is room), refinement of `WorkQueue` with its fairness | 26k |
| `event_ring` | 4 slots, 2 good events, 1 error | `EventInv` (`TypeOK`, `NothingOverwritten`, the cycle bits tell the laps apart, what an early exit leaves a scan to find), refinement of `WorkQueue`, `ServedUnlessCut` | 22k |
| `xhci_transfer` | 1 synchronous endpoint, 2 asynchronous ones, one of a hub, 2 addresses | `UrbInv` (`TypeOK`, `ListIntact`), `RestOfRound`, `AsyncArmed` | 1.2M |
| `xhci_live` | 1 synchronous endpoint with transfers of up to 2 TRBs, 1 asynchronous one, 3 addresses | `NothingLeftBehind` (`NoTrbsLeft`, `NoUrbLeft`), `SuccessIsReal`, `Returns`, `IsReported` | 119k |
| `usb_enum` | 2 root ports and the port of a hub, 3 slots, 2 addresses, 3 devices plugged in, 1 unplugged, 1 port reset, 1 failure of 6 kinds | `BusInv` (`TypeOK`, `TableIsTree`, `RequestHasHub`), `AddressNamesItsDevice`, `SlotsMatchPorts` (`SlotsAreUnique`, `SlotsFollowTree`), `Settles` | 127k |
| `bot` | 2 chunks, 3 tries of a command, 3 of a status, tags modulo 3 | `BotInv` (`TypeOK`, `InStep`), `CswIsOurs`, `Returns` | 293k |
| `keyboard` | a letter, a shift key, queues of 2, 2 presses, 2 reports | `KeyboardInv` (`TypeOK`, `ShiftFollowsReport`, `RepeatIsHeld`, `PolledOrRecovering`, `NotifyIsSignalled`), `KeysInOrder`, `CaseIsRight`, `NoneIsLost` | 283k |
| `ehci_schedule` | 8 frames, 3 queue heads, intervals 2 and 4, 1 doorbell time-out | `ScheduleInv` (`ScheduleTypeOK`, `ListsSorted`, `LinkedStayReachable`, `SameMetInFrameZero`), `PolledWhenDue` (`EachIsPolled`, `PolledInTurn`), `NoFreedQh` | 984k |
| `ehci_queue` | 2 packets in a qTD, 2 data qTDs, 1 round without memory | `QueueInv` (`QueueTypeOK`, `ShortIsLast`, `FinishedIsQuiet`, `NullLinkUnseen`, `AsyncArmed`), `CompletedIsReal` (`DataIsReal`, `ToggleOfFinished`), `IsReported` | 27k |
| `ahci_tasks` | 2 ports, 2 tasks, 1 blocking command, 2 tries, 1 mishap | `TasksInv` (`TypeOK`, `QuietBetween`, `NoStray`), `ToldInOrder`, `MappedInProgress`, `OneInProgress`, `SuccessIsReal`, `EachEnds` (`EachIsTold`, `CallReturns`) | 210k |
| `uhci_requests` | 3 requests, 2 endpoints, one of a hub, 2 blocks of 4 units, data of 2 units | `UhciInv` (`TypeOK`, `NoneLost`, `ChainIsList`, `LinkIsListed`), `OneOwner`, `NoFreedHeld`, `EachIsFreed` | 142k |

Bounds, and why they are enough.

* A ring of 5 slots has 4 for TRBs and one for the Link TRB: descriptors of 3 TRBs
  begin in every slot, straddle the end and meet a full ring, in laps of both
  cycle states.  The proofs cover every size.
* An event ring of 4 holds 3 events: a scan can find none, some or all, before and
  behind the last slot, and an error can be the first or the last of them.
* `Room` bounds the TRBs of each ring that are outstanding.  `xhci_transfer` has 3 on one
  asynchronous ring: a TRB of a deleted transfer waits in front of that of a new one, which
  the callback submits when it is given an error.
  On the synchronous ring one is left by a failed recovery when the next is queued; in
  `xhci_live` it has room for a transfer of two TRBs.  Both in one run (6.0M states) pass.  TRB
  identifiers are reused only after their event was handled, as on a ring of 0x100.
* `MaxEvents` is 2 in `xhci_live`, so that an event waits behind another one; it is 1 in
  `xhci_transfer`, where the endpoints fill it in turn and it holds the xHC back.
* Two addresses let a freed URB be reused at once; the third in `xhci_live` lets the command
  of a recovery have one beside two transfers.  `Alloc` says which free address
  `AllocateZeroPool` may return: any in `xhci_transfer`, always the first in `xhci_live`, so
  that it is reused as soon as it can be.  Addresses are symmetric in
  `xhci_transfer`, which checks no liveness.  The runs with liveness use no symmetry.
* `CommandRetry` is 2 where the code has 5: the loop has to go on at least once and to
  end by its count.  `CswRetry` is the code's 3.  Tags modulo 3 distinguish
  the last, the current and the next command; the code has 32 bits.
* The tree of `usb_enum` is the smallest with a hub whose own port can change and
  with a second root port that the next address and slot can go to.  Three devices
  refill a port once; two addresses for three devices run out.  Two unplugged
  devices (589k states), two failures (2.0M) and four devices (290k) pass as well.
* Eight frames with intervals 2 and 4 give lists that share tails in two stages;
  three QHs stand before, at and behind the place of a link.  Intervals 1, 2
  and 4 (4.4M states) pass as well.  Queue heads are symmetric.
* Two packets in a qTD make a qTD finish, end short with and without data, or be seen
  half done; two data qTDs in a control read make the alternate pointer skip one.
* `UsbKeyQueue` with 2 places fills and drops with the letters and shift keys of two reports; the
  code has 32.  The 2 presses are one before and one after a change of the shift key.
  With 3 presses (2.8M states), which fill `EfiKeyQueue` too, 4 (17.4M) and two shift keys
  (1.9M) the properties pass as well.
* Two tasks on two ports or on one: one started and one that waits, with a
  blocking command before, between or behind.  DMA commands have a time-out or none and PIO commands
  have one, so that a blocking DMA command which has to drain the list ends by itself, and a
  started task is polled until its tries are used up; the three protocols with and without (884k) pass as well.  Two mishaps and two commands (10.0M)
  and three tasks on one port (639k) pass for safety; the proofs cover every number.

* Three requests are one in the list, one that waits and one on `Recycle`, or three links in a
  row.  A request takes 4 units of 8: in a pool of 2 blocks of 4 the data, the QH and the TD
  of one request may be in two blocks, blocks come and go, and submissions fail at each
  allocation.  Two blocks of 5 (4.6M states) and three of 3 (1.9M) pass for safety; the
  proofs cover every number.

Deadlock is checked for the rings and for `UsbBot`.  It is off elsewhere: a driver
with nothing to do, that is stopped, or whose rings are filled by transfers that
an error left behind, may stop, and so may a world whose bounds are used up.

### Fairness

* `TransferRing`: the driver finishes a descriptor it began (one call, at
  `TPL_NOTIFY`), and the xHC works on an active endpoint.  No fairness for new
  descriptors or recoveries.
* `EventRing`: the driver keeps checking (a transfer polls every microsecond, the
  monitor on every timer tick).  None for the xHC.
* `XhciTransfer`: weak fairness of the steps of a check and of a round.  Strong
  fairness for `Sync`, the steps that follow a check: the loop in `XhcExecTransfer`
  is bounded, so it cannot check for ever and never reach its end, although each
  check disables those steps for a while.  Strong fairness for the monitor too: its timer
  expires however often synchronous transfers raise the level.  None for the xHC or for
  the user: the calls return even if the controller is dead.
* `UsbBot`: the host's calls return, because each transfer has a time-out; time passes;
  a prompt device keeps working.  None for the other devices.
* `UsbEnumeration`: the timer of the root hub is periodic, an enumeration goes on, and
  a hub reports its changes (weak).  The event of a hub is dispatched when the level
  allows it, which an enumeration of the root hub disables again and again
  (strong).  None for plugging, unplugging and failures.
* `EhciQueue`: the driver's loops go on, the controller works and the device answers in one
  of the ways it can.
* `AhciTasks`: the timer is periodic and its routine finishes (weak); the steps of a blocking
  command are disabled while the routine runs (strong).  None for the device:
  tasks with a time-out are told all the same, and the property excepts the others.

* `UhciRequests`: the timer's handler runs whenever the level is lowered, however soon it is
  raised again (strong for `Tick`); a round and the stop of the driver go on (weak).  None for
  the controller.

`EhciSchedule` and `UsbKeyboard` state safety only.

### What the code does not do

A scan of the event ring may lose events, against a promise that the code states
itself.  `event_ring_lost` shows it, and `findings` of `PROJECT.json` quotes the promise:
`XhcSyncEventRing` inverts `EventRingCCS` when its *scan* passes the last slot.  When a
check then leaves at an event with an error, the dequeue pointer is still before
that slot, and the next scan compares the old lap with the new cycle state: it
finds nothing, now or later, until the ring is full.  `ServedUnlessCut` shows that
nothing else goes wrong: as long as `EventRingCCS` and the dequeue pointer are in the
same lap between calls, all events are handled.

The other disagreements between the source's words and its behaviour are properties
in the last section of their module.  None of them is in a cfg; TLC refutes each when
it is added to the run named.

| property | run | source | what happens |
|---|---|---|---|
| `CallbackMayRemove` | `xhci_transfer` | `XhciSched.c:1530` | the monitor reads a URB after its callback, which may have deleted it, in `XhcUpdateAsyncRequest` |
| `CompletedFits` | `xhci_transfer` | `XhciSched.c:1512` | a deleted asynchronous transfer leaves its TRB with the running endpoint; its event is counted for the next URB |
| `HaltedIsReset` | `xhci_transfer` | `XhciSched.c:627` | only a stall leads to a Reset Endpoint command; after another error the endpoint stays halted |
| `CswMatchesCbw` | `bot` | `UsbMassBot.c:116` | the tag of a CSW is not compared with that of the CBW; a late status is taken for that of the next command |
| `AllBlocksOrError` | `bot` | `UsbMassImpl.c:84` | length and result of the data phase are ignored: a command that passes after a part of its data makes the request succeed |
| `HubReleasable` | `usb_enum` | `UsbHub.c:619` | a hub whose interrupt request could not be submitted again has no request to delete, so `UsbHubRelease` fails |
| `ConfiguredHasEndpoints` | `usb_enum` | `UsbBus.c:868` | after `UsbIoPortReset` the device has a new slot, for which Set_Configuration finds the endpoints of nothing |
| `Synchronized` | `ehci_schedule` | `EhciReg.c:302` | the doorbell handshake takes a late acknowledgement of the one that timed out for its own |
| `ToggleIsNext` | `ehci_queue` | `Ehci.c:973` | the toggle of a transfer that timed out or was deleted is read while the controller may still work |
| `NullLinkNeverSeen` | `ehci_queue` | `EhciSched.c:928` | between two stores of `EhcUpdateAsyncRequest` the overlay's link is 0 without the terminate bit |
| `ExecutedIsFound` | `ehci_queue` | `EhciSched.c:637` | a short control read of several data qTDs goes on to its status stage, but the check stops at the qTDs that were skipped: the transfer times out |
| `SuccessIsOk` | `ehci_queue` | `EhciSched.c:680` | a transfer that the device stalled, after a transaction error that was retried, finishes without an error: the sticky error bit is neither a stall nor, with a counter above 0, a time-out |
| `TransferIsDeleted` | `keyboard` | `EfiKey.c:537` | the recovery may submit the transfer again between the deletion and the closing of its event |
| `AlwaysRecovers` | `keyboard` | `KeyBoard.c:1036` | an exhaustive `Reset` within the recovery delay closes the event that would submit the transfer again |
| `KeptLongEnough` | `uhci_requests` | `UhciSched.c:889` | a removed queue head is said to be kept for at least 50 ms; the timer has a period of 1 ms, and a tick that was held off is followed at once by the next |
| `FreedWasMarked` | `uhci_requests` | `UsbHcMem.c:539` | the timer is armed while `UhciCleanDevUp` frees the requests at a lower level: both may free the same ones, against the `ASSERT` |

Where a property holds except after such a mishap, it says so by name: `orphan` and
`missed` in `UsbEnumeration` (an enumeration given up after the slot was made, which the
next Set_Address then names), `stale` and `timeouts` in `EhciSchedule` (a QH of the periodic
list is freed without waiting for the controller; a doorbell that timed out is only
logged), `device.stalled` in `DataIsReal` of `EhciQueue` (the data reported were moved, but not all that was
asked for), `happened` in `UsbKeyboard`, `AhciTasks` and `UhciRequests`.

Seen on the way and not a property: `IsTransferRingTrb` compares a TRB with
all slots of the ring, although its comment speaks of the URB; the endpoint of an
asynchronous transfer that failed is not reset by anyone, so that submitting it
again, which a comment in the monitor suggests, queues it on a halted endpoint;
`EhcSyncInterruptTransfer` never frees its URB; `EhcCreateQtds` drops a status qTD on an
error; a keyboard with two notifications for one key calls each twice;
a non-exhaustive `Reset` drops the release of a shift key that waits in the queue; a port
whose device is replaced between two reads of its status is enumerated as if nothing
had happened; the stop of the AHCI driver frees a started task without stopping its command;
`Uhci2AsyncInterruptTransfer` does not free its TDs when there is no memory for the request;
`UhciUpdateAsyncReq` does not reset the error count of a TD; synchronous transfers of UHCI
destroy their TDs right after a time-out, while the controller may execute one.

## What TLAPS proves

For every value of the constants: any size of the rings, the queues and the pool, any
TRBs, events and keys, any number of tasks, commands, requests, retries, ports, slots and
devices, and any number of mishaps:

| theorem | of | says |
|---|---|---|
| `RingSafety` | TransferRing | `SafeSpec => []RingInv`, with `TypeOK` and `OwnedAreWritten` among its conjuncts |
| `TypeCorrect`, `NeverHalfWritten` | TransferRing | the conjuncts `TypeOK` and `OwnedAreWritten` by themselves |
| `RingImplementsQueue` | TransferRing | `SafeSpec => ImplementsQueue`: the ring is a FIFO queue |
| `RecoveryEmptiesRing` | TransferRing | a recovery that succeeds leaves the xHC nothing |
| `EventInvHolds` | EventRing | `SafeSpec => []EventInv` |
| `FoundWerePosted` | EventRing | what a scan found was posted in the current lap |
| `ScanAlwaysEnds` | EventRing | `ASSERT (FALSE)` in `XhcSyncEventRing` is out of reach |
| `NeverOverwritten` | EventRing | no event is overwritten before it was handled |
| `EventRingImplementsQueue` | EventRing | events are handled at most once and in order |
| `InOrder` | AhciTasks | `Spec => []ToldInOrder`: no task is lost, told twice or out of order |
| `OneAtATime` | AhciTasks | `Spec => []OneInProgress`, unless commands were mixed |
| `MappedWhileInProgress` | AhciTasks | `Spec => []MappedInProgress` |
| `SuccessWasExecuted` | AhciTasks | `Spec => []SuccessIsReal`: what is told to be a success was executed, unless commands were mixed or one would not stop |
| `TasksAreSafe` | AhciTasks | `Spec => []TasksInv`: types, and no data moves to a buffer that is not mapped |
| `QuietOtherwise` | AhciTasks | `Spec => []QuietBetween`: the controller has commands of requests in progress only |
| `NeverHeldWhenFreed` | UhciRequests | `SafeSpec => []NoFreedHeld`: two ticks are enough, unless one was held off |
| `OneOwnerHolds` | UhciRequests | `SafeSpec => []OneOwner`: no unit of the pool has two owners |
| `UhciInvHolds` | UhciRequests | `SafeSpec => []UhciInv`: types, no memory lost, the schedule is the list, the monitor's loop is delete safe |
| `FinishedIsReal` | EhciQueue | `QueueSafeSpec => []CompletedIsReal`: what a transfer reports that is found finished without an error was moved, and all of it unless the device stalled, for qTDs of any number of packets |
| `QueueIsSafe` | EhciQueue | `QueueSafeSpec => []QueueInv`: types, the controller is done with what is restored or freed, nothing follows a short packet, a transfer that waits is armed |
| `ListsAreInOrder` | EhciSchedule | `ScheduleSpec => []ScheduleInv`: sorted lists of just what is due, the same for driver and controller, at any moment within reach |
| `AlwaysPolledWhenDue` | EhciSchedule | `ScheduleSpec => []PolledWhenDue` |
| `NeverUponFreedQh` | EhciSchedule | `ScheduleSpec => []NoFreedQh`: with the two excuses that it names |
| `InStepAlways` | UsbBot | `SafeSpec => []BotInv`: a prompt device waits for each CBW that is sent; tries are bounded |
| `CswIsOfCommand` | UsbBot | `SafeSpec => CswIsOurs`, an action property: the CSW that is taken is that of the command |
| `BusIsATree` | UsbEnumeration | `SafeSpec => []BusInv`: the table of devices is a tree, one for each port |
| `SlotsAlwaysMatchPorts` | UsbEnumeration | `SafeSpec => []SlotsMatchPorts`: a slot for a port, an address for a slot, none without that of its hub |
| `AddressAlwaysNamesItsDevice` | UsbEnumeration | `SafeSpec => []AddressNamesItsDevice` |
| `KeyboardIsSafe` | UsbKeyboard | `Spec => []KeyboardInv`: shift state, repeat, polling and notification |
| `KeysStayInOrder` | UsbKeyboard | `Spec => []KeysInOrder`: each keystroke once, in order, with a reader that is interrupted |
| `CaseIsAlwaysRight` | UsbKeyboard | `Spec => []CaseIsRight` |
| `NothingIsLost` | UsbKeyboard | `Spec => []NoneIsLost`: each press is read, waits in a queue or is in the repeat handler's hands |
| `UrbsAndListIntact` | XhciTransfer | `SafeSpec => []UrbInv`: types, and the list has the live asynchronous URBs, each once |
| `RestOfRoundIsListed` | XhciTransfer | `SafeSpec => []RestOfRound`: the monitor's round survives what a callback does to the list |
| `NeverForgotten` | XhciTransfer | `SafeSpec => []AsyncArmed` |
| `SuccessWasReal` | XhciTransfer | `SafeSpec => []SuccessIsReal`, for transfers of any number of TRBs |
| `NothingIsLeftBehind` | XhciTransfer | `SafeSpec => []NothingLeftBehind`: after a return, or a recovery that succeeded |

Assumptions: `RingAssumption` (at least 3 slots, descriptors of at least one TRB, an
empty slot is not a TRB), `EventRingAssumption` (at least 2 slots, errors are
events, an empty slot is not an event) and `TasksAssumption` (packets have one of
three protocols, at least one try), `PoolAssumption` (the first block is a block, which has
units) and `RequestsAssumption` (the queue heads of the driver are no requests, the data
are not empty); `BotAssumption` (a chunk, a read of a status and a tag at least),
`TreeAssumption` (finitely many ports in two tiers, a slot at least) and
`EnumerationAssumption` (an address at least); `QueueSizeAssumption` (a queue holds a key),
`KeyboardAssumption` (finitely many keys and notifications, no key is letter and
shift key at once, and 0 is none) and `TransferAssumption` (an endpoint is of one kind and not
the command ring, finitely many addresses, the head of the list is none of them, each ring
has a TRB) with `AllocAssumption` (an address that is allocated was free); `QueueAssumption`
(a qTD holds a packet, a control read has one or two data qTDs) and `ScheduleAssumption`
(of two intervals one divides the other, and each divides the number of frames; the heads of
the schedules and `Null` are distinct and no QHs of the pool).

**RingInv.** What matters, that the xHC never owns a half-written TRB and that the
driver never stores into one it owns, is not inductive.  It rests on
`CycleDiscipline`: slots before `RingEnqueue` carry the cycle state, those behind it
do not.  That lets `XhcSyncTrsRing` find its slot by looking at cycle bits alone, and
lemma `SyncEffect` derives that it moves by at most one slot.  `CycleDiscipline`
survives a wrap only if the xHC is less than a lap behind (`ConsumerBehind`), which
needs the room (`RoomKept`), and what is about to be stored depends on the point the
driver has reached (`EnqueuePhase`).  The number of TRBs the xHC owns, `Pending`, is
computed from the two cursors and cycle states; `SyncKeeps` and `StoreAppends` say
that a synchronisation does not change it and that storing a cycle bit
appends one TRB.  The refinement follows: `FetchTrb` is the queue's `Take`, the store of
a cycle bit `Put`, `SetTrDequeuePointer` `Discard`, and the rest stutters.

**EventInv.** Here the roles are exchanged, the xHC is the producer.
`NothingOverwritten` counts the events that are handled and not reported together
with those that are posted: together less than a lap, because the xHC stops before
`ERDP`.  `ScanPhase` is what keeps the early exit harmless for safety: if
`EventRingCCS` and the lap of the dequeue pointer differ, a scan either has an end that
lies in the lap of the xHC or finds nothing at all.

**AhciTasks.**  `Inv` has four parts.  `Numbered`: the tasks told and those in the list are,
one behind the other, 1, 2, 3, ..., which makes order a matter of positions.
`Places`: where the routine and the blocking command are, and of what type.  `Heads`: only
the first of the list is started.  `Alone`: a blocking DMA command behind its drain
finds the list without a started task, unless commands were mixed.  `Enqueued`, `Removed` and
`Destroyed` are what the three changes of the list do to `Numbered`.  The other two
theorems need that mapping, issuing and progress change together: lemma `Steps` shows that
every step begins some requests, ends one, or abandons them, and
`FullInv` follows from that without another look at the actions.  That a success is real
rests on `Real`: the table in memory is that of the one request in progress, the controller has
no other command, and the FIS of its port says so only if the command was executed; it
needs `Stages`, that nothing runs once the driver is stopped.  That nothing strays rests
on `MappedEnough`: a request in progress has its buffer mapped, whatever happened to others.

**UhciRequests.**  `Inv` has five parts.  `Lists` is about what is linked: `Chained`, the
schedule is the list; `Left`, from a removed QH one gets only to QHs that will be freed with it
or later.  `Left` is the reason why the controller may wander over removed ones; it
survives a submission because that comes in at the head, where no removed QH points, and
an unlinking because its own link stays.  `Held` counts the ticks: who stands at a QH on
`Recycle` came there in this frame.  `Memory` and `OnePerEp` are the owners of units and
endpoints, `Monitor` what a round relies on: the entry it goes on with is listed and is not
the one it checks, so that a callback, which removes only that one, leaves it alone.  The
allocator enters through `AllocateTakesFree`, `FreeMemFrees` and `MakeReqOutcome`, which hold for
each way in which a submission may end.

**EhciQueue.**  `QInv` tells where the controller is in the qTDs from what they and the overlay say.
`Stage`: it is about to take a qTD, in one, about to write one back, halted, or done, and
`CallShape` what the driver may be doing meanwhile.  `QtdShape`: a qTD that is active is as it was
made, one that is done has moved all its data unless a short packet ended it, and one with an error is
the one the controller halted in.  `ShortShape`: behind a short packet only the status stage can
follow.  `Toggles` compares the data that the overlay and the qTDs account for with what the device moved; the
two differ by one packet at most, the one whose acknowledgement was lost.  `Reading` says what the
check has summed up of the qTDs it went past, none of which can change any more, and
`Finishing` that nothing moves once a transfer was found finished: what ended without an error
is complete, or the device stalled behind an error that was retried.  Most steps of
the controller need only lemma `Busy`: as long as it has one to take, nothing was found finished and nothing is being updated.

**EhciSchedule.**  The lists share their tails, so `SInv` does not speak of lists but of one chain:
the QHs that are linked have ranks that fall along their links (`Chain`), by decreasing
interval (`Sorted`), and each frame begins with the first of them that is due.  Frames the loop of
an operation has still to visit are the exception: they begin behind a QH that is being
linked, or with one that is being unlinked (`FrameOk`).  `Linking` says where the links of a QH
lead while it is in the chain of some frames or of none, `Mirrored` that the
controller reads what the driver does, `Walking` that what is due in a frame has a rank that
the controller has not reached yet, and `Async` where the controller may be at each point of the
doorbell handshake.  What following the links meets, `On`, is a recursive function; lemma `WalkOfChain`
says that it is the nodes of the chain of no higher rank, by the least rank for which it would fail.
`ChainGrows` and `ChainShrinks` are the two stores, for whatever rank the QH gets; the first store of
a linking (`HookInserts`) and of an unlinking (`UnlinkRemoves`) changes the chain, and those into
the further frames (`HookFrame`, `UnlinkFrame`) only where they begin.  That intervals divide one another is
used where a QH of the same or a longer interval must be met in frame 0 already.

**UsbBot.**  `Together` tells where a prompt device is from where the host is: between commands
it waits and no endpoint is halted; before the data phase the CBW is not looked at, or is
worked on, or was refused with a stall; before a status is read, that status is the one of this
command or the device was reset amid the tries.  The tag is nowhere needed, which is why not
comparing it does no harm with such a device.

**UsbEnumeration.**  `IInv` has two parts.  `Shape` holds whatever happens: types, the table is a
tree of two tiers (`TreeShape`), the enumeration under way is that of a port of a hub that is
there (`JobShape`), and each enabled slot is one that the xHC knows, has a port of its own, and
comes with the slot of its hub (`SlotShape`).  `InOrder` holds as long as `Orderly` does:
`Named`, an address is that of one slot and of the device at its port; `Anew`, at most one
slot waits for an address, that of the port that is being enumerated; `ResetOnce`, the end of
a reset is read by the enumeration that asked for it; `NoticedIn`, that the device of a slot is gone
shows at its port or at that of its hub; `Fails`, what could not be removed is a hub with nothing behind it;
`JobSlots` and `JobHub`, which slots there are at the port being enumerated until the new device has its address;
`OnePerPort`.  `Disorder` shows that `Orderly` does not come back.  What one request does to the
tables is stated once, in `Follow...` for a status read and in `Removal` for a
device that is taken out with those behind it, and each action is put together from these.

**UsbKeyboard.**  The queues are first-in first-out: `CountIs` says where the entries of a ring
are, `Taken`, `Added`, `Enqueued` and `AllEnqueued` what the operations do to their sequence,
the latter for any number of keys, by the least number that would fail.  Of the invariant
one part holds for good (`Basics`).  `ShiftPart` holds until a mishap named in it: the events
that wait lead from `ShiftOn` to the shift state that was reported, and each press among them
to the shift state it was made with (`Settled`).  `SettledTaken` and `SettledJoined` say what parsing some events, and queueing others,
do to this.  `KeyPart` is about order: the
presses in `UsbKeyQueue` are numbered upwards and above all of `EfiKeyQueue`, those in `EfiKeyQueue`
above what was read, and the entry that an interrupted reader or repeat handler has loaded is
where it was (`RepeatOk`, `ReadOk`).  `LostPart` is about numbers: the entries that have one are
letters (`Marked`), which no handler skips, and each press behind the last one read is in a
queue or with the repeat handler (`Kept`).  As an entry is lost under a copy only when a
full queue drops one (`OverrunDrops`), `KeyPart` is at hand wherever nothing was dropped.

**XhciTransfer.**  `Inv` has eleven parts.  `Control` says who waits for which URB.
`ListInv` speaks of the list as a sequence the links lead through (`Chain`), which `FromIs`
shows to be what following the links computes; `Insertion` and `Removal` are what the two
changes of links do to that sequence.  A live URB is one that a caller waits for or is listed,
and no two listed ones are for the same endpoint; with `RestIs`, the rest of the round is the
sequence from its `k`-th element on, a callback that removes its own URB or puts a new one at
the head leaves it alone.  That a success is real rests on three: `TrbInv`, a TRB on a ring is
not completed yet and an event without an error is of one that is; `InOrder`, the TRBs of a URB
complete in their order, so that the last one is enough; `Progressed`, what a URB says of its
first and last TRB is so.  A new TRB may be one that was used before; `Fresh` says what
the room of a ring guarantees, that no live URB, no ring and no event still means the old use.
`NothingLeftBehind` needs the recovery to be followed through its two commands:
`RecoveryInv`, the command that is waited for is the last one on its ring, once Stop or Reset
Endpoint is completed the endpoint is stopped and its events were handled before the answer, and once Set TR
Dequeue Pointer is completed the ring of the endpoint is empty; `CommandsInv`, a Set TR Dequeue
Pointer that was given up skips nothing of a later transfer, for the doorbell of that one has
ended the state the command needs, or it skips all there is; `BusyInv` and `IdleInv`, on which endpoints
there is nothing.  Each action keeps each part by a lemma about the kind of step it is:
one that has no effect on TRBs (`NoEffectKeeps`), one that puts TRBs (`PutKeepsTrbs`,
`PutKeepsCommands`, `PutArms`), one of the xHC (`XhcKeepsTrbs`, `XhcKeepsControl`), a command
that is sent (`CommandStep`) and a return (`ReturnStep`).

TLC checks the properties of all these theorems but `TypeCorrect`, `NeverHalfWritten`,
`FoundWerePosted`, `NeverOverwritten`, `ScanAlwaysEnds`, `RecoveryEmptiesRing` and
`QuietOtherwise` (conjuncts and consequences of the others) under their own names too.  Its run of `TransferRing` is that of a transfer ring; for the command ring the
theorems stand alone (and `CommandRing = TRUE` in `MCTransferRing.cfg` checks the same
properties).

Only model-checked: all liveness (`ServesQueue`, `ServedUnlessCut`, `Returns`, `IsReported`,
`Settles`, `EachEnds`, `EachIsFreed`), since fairness and ENABLED are out of the prover's reach.  Every invariant and every other
action property of a run is a theorem or a conjunct of one.  Where something is computed by a
recursive function (`EnqueueAll`, `On`), its proof goes by the least number for which it would
fail, which needs no theorem with an operator as a parameter.

## What is left out

* In `XhciTransfer`: slots that are disabled under a transfer;
  a halted controller (`Result` is set and `Finished` is not, so each transfer then
  polls to its time-out); DMA mappings; transfers without data;
  bandwidth of periodic endpoints.
* In `UsbBot`: media detection and the media identifier, initialisation, several LUNs,
  and the signature of a CSW apart from its being valid or not.
* In `UsbEnumeration`: over-current; the stop of the bus driver; hubs behind hubs; the
  contents of the contexts; that route strings of ports above 14 collide.
* In `EhciSchedule` and `EhciQueue`: a halted controller, split transactions, DMA mappings, the
  start and the stop of the controller.
* In `UsbKeyboard`: of the modifiers only the shift keys; locks, dead keys, partial keys, the
  change of the layout, registration at run time; that `InitQueue` frees a buffer
  that a handler may be reading.
* In `UhciRequests`: synchronous transfers and the queue heads of control and bulk, requests
  of several TDs, intervals other than 1, the root hub's ports, suspend, DMA mappings; that
  `UhciStopHc` may time out with the controller still running; what a freed unit that is
  freed again would mark.  `FirstFit` of `HcMemPool` is the result of the loop over bytes and bits in
  `UsbHcAllocMemFromBlock` (`UsbHcMem.c:161-221`), the first run that is free; how the
  loop counts to find it is not modelled.
* In `AhciTasks`: IDE mode, enumeration of the devices, resets of ports, checks of the parameters;
  the clients are external (the driver of disks is not in the repository as source).
* Memory ordering: the processor's stores reach memory in program order, which is
  what x86 and the code assume.
* `AllocateZeroPool` failures, except those in the two monitors.

Not modelled at all, and why: the boot manager, the boot sector and the loaders,
descriptor tables, PCI, ACPI, SMBIOS, video modes and kernel patches run once, in
a fixed sequence, and compute on data; there is nothing in them for a state
machine to get wrong that a reference computation would not restate.  File
systems are in the repository as binaries only.

## Plan

1. *Done.*  The xHCI rings with their refinement and proofs; transfers above them;
   slots and enumeration; the block requests of mass storage; the keyboard; both
   schedules and the queue heads of EHCI; the tasks of AHCI with their proofs; the requests
   of UHCI and the memory pool with their proofs.
2. Next: OHCI, whose done queue is polled; media detection in `UsbBot`; the BIOS keyboard; reference counts of property lists; recovery of a GPT.
3. *Done*: the proofs about `UsbBot`, `UsbEnumeration`, `UsbKeyboard` and `XhciTransfer`, the rest of
   `AhciTasks`, `EhciQueue` and `EhciSchedule`.  To come: the proofs about what item 2 adds.
