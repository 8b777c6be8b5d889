------------------------------ MODULE AhciTasks ------------------------------
(***************************************************************************)
(* The ATA pass-through driver in AHCI mode                                *)
(* (src/MdeModulePkg/Bus/Ata/AtaAtapiPassThru).  Commands with an event    *)
(* are tasks in NonBlockingTaskList, which a periodic timer at TPL_NOTIFY  *)
(* executes; commands without one are executed by the caller, below that   *)
(* level, so the timer may run between any two of its steps.  Both use     *)
(* command slot 0 of the port and the one command list and command table   *)
(* that all the ports share, and the controller reads them on its own.     *)
(***************************************************************************)
EXTENDS Integers, Sequences, FiniteSets, Functions

CONSTANTS
    Ports,
    Packets,        \* the commands that clients give: protocol, and no time-out or one
    MaxTasks,       \* bound: tasks queued
    MaxCalls,       \* bound: blocking commands
    MaxMishaps,     \* bound: kinds of mishaps in one behaviour
    Retries         \* RetryTimes of a task with a time-out

\* The protocols of a command, as far as the driver tells them apart.
Protocols == {"udma", "pio", "nodata"}

ASSUME TasksAssumption ==
    /\ Packets \subseteq [kind : Protocols, patient : BOOLEAN]
    /\ MaxTasks \in Nat
    /\ MaxCalls \in Nat
    /\ MaxMishaps \in Nat
    /\ Retries \in Nat \ {0}

Tasks == 1..MaxTasks
Call == 0                       \* the blocking command, one at a time
Requests == Tasks \cup {Call}
None == -1

VARIABLES
    task,       \* ATA_NONBLOCK_TASK of the tasks that are queued
    list,       \* NonBlockingTaskList
    call,       \* the blocking command: where it is, and its outcome
    calls,      \* the blocking commands so far
    routine,    \* where AsyncNonBlockingTransferRoutine is
    table,      \* the command in the shared command list and table
    issued,     \* the ports whose command issue bit is set
    hba,        \* per port, the command the controller executes
    fis,        \* per port, the D2H register FIS received since it was cleared
    mapped,     \* the requests whose data buffer is mapped
    notify,     \* the tasks whose event is signalled and its callback has not run
    driver,     \* "on", "stopping", "freed", "off"
    log,        \* history: the tasks whose event was signalled, with the outcome
    done,       \* history: the requests whose command was executed on their data
    happened    \* history: the mishaps of Mishaps, and "stray"

vars == <<task, list, call, calls, routine, table, issued, hba, fis, mapped, notify, driver,
          log, done, happened>>
controller == <<table, issued, hba, fis>>

(***************************************************************************)
(* What can go wrong for good, each at one place of the code:              *)
(*   mixed      a blocking command and a task were executed at a time      *)
(*   hung       the controller did not stop a command in time              *)
(*   short      a buffer was mapped in part only                           *)
(*   abandoned  the driver was stopped with tasks in the list              *)
(* "stray" is what they may lead to: data went to a buffer that is not     *)
(* mapped, or to memory that was freed.                                    *)
(***************************************************************************)
Mishaps == {"mixed", "hung", "short", "abandoned"}
Happens(m) ==
    /\ Cardinality(happened \ {m, "stray"}) < MaxMishaps
    /\ happened' = happened \cup {m}
HappensIf(m, b) == IF b THEN Happens(m) ELSE UNCHANGED happened

Task(p, x) == [port |-> p, packet |-> x, started |-> FALSE, retry |-> Retries]
Idle == [pc |-> "idle"]

\* A command list entry with its table: the command FIS, and whether it has PRDs.
Command(r, p, d) == [of |-> r, port |-> p, data |-> d]
NoCommand == [of |-> None]

CallPcs == {"drain", "start", "issue", "wait", "end"}
Commands == [of : Requests, port : Ports, data : BOOLEAN] \cup {NoCommand}

TypeOK ==
    /\ DOMAIN task \subseteq Tasks
    /\ \A t \in DOMAIN task :
        task[t] \in [port : Ports, packet : Packets, started : BOOLEAN, retry : 1..Retries]
    /\ list \in Seq(DOMAIN task)
    /\ call \in [pc : CallPcs, port : Ports, packet : Packets,
                 status : {"none", "success", "error"}] \cup {Idle}
    /\ calls \in 0..MaxCalls
    /\ routine \in {"idle", "next", "poll", "wait"}
    /\ table \in Commands
    /\ issued \subseteq Ports
    /\ hba \in [Ports -> Commands]
    /\ fis \in [Ports -> {"none", "success", "error"}]
    /\ mapped \subseteq Requests
    /\ notify \subseteq Tasks
    /\ driver \in {"on", "stopping", "freed", "off"}
    /\ log \in Seq([task : Tasks, told : {"success", "error"}])
    /\ done \subseteq Requests
    /\ happened \subseteq Mishaps \cup {"stray"}

\* AtaAtapiPassThruStart and AhciModeInitialization: a timer, an empty list,
\* and no command issued.
Init ==
    /\ task = <<>>
    /\ list = <<>>
    /\ call = Idle
    /\ calls = 0
    /\ routine = "idle"
    /\ table = NoCommand
    /\ issued = {}
    /\ hba = [p \in Ports |-> NoCommand]
    /\ fis = [p \in Ports |-> "none"]
    /\ mapped = {}
    /\ notify = {}
    /\ driver = "on"
    /\ log = <<>>
    /\ done = {}
    /\ happened = {}

RequestOf(r) == IF r = Call THEN call ELSE task[r]
PortOf(r) == RequestOf(r).port
IsDma(r) == RequestOf(r).packet.kind = "udma"
HasData(r) == RequestOf(r).packet.kind # "nodata"
InfiniteWait(r) == RequestOf(r).packet.patient

\* The task priority level is TPL_NOTIFY: nothing but the controller goes on.
AtNotify == routine # "idle" \/ call.pc = "drain"

(***************************************************************************)
(* The parts of a transfer.                                                *)
(***************************************************************************)
\* Mutant: the received FIS is not cleared.
AhciBuildCommandKeepsFis(r) ==
    /\ UNCHANGED fis
    /\ table' = Command(r, PortOf(r), HasData(r))

\* AhciBuildCommand clears the received FIS of the port and fills the command
\* table and slot 0 of the command list.
AhciBuildCommand(r) ==
    /\ fis' = [fis EXCEPT ![PortOf(r)] = "none"]
    /\ table' = Command(r, PortOf(r), HasData(r))

\* AhciStartCommand sets the command issue bit of slot 0.
AhciStartCommand(p) == issued' = issued \cup {p}

\* AhciStopCommand and AhciDisableFisReceive: the command is gone, unless the
\* controller keeps running for longer than the time-out, if there is one.  The
\* callers do not look at the result.
Stopped(r) ==
    \/ /\ issued' = issued \ {PortOf(r)}
       /\ hba' = [hba EXCEPT ![PortOf(r)] = NoCommand]
       /\ UNCHANGED happened
    \/ /\ hba[PortOf(r)] # NoCommand /\ ~InfiniteWait(r)
       /\ Happens("hung")
       /\ UNCHANGED <<issued, hba>>

\* AhciCheckMemSet, AhciWaitMemSet and the read of PxTFD behind them.  (The read
\* of AhciPioTransfer also looks for a PIO setup FIS and counts the bytes.)
Received(p) == fis[p] # "none"
Succeeded(p) == fis[p] = "success"
Failed(p) == fis[p] = "error"

\* The buffer is mapped, or only in part: then it stays so, for the error
\* return does not unmap it.
Map(r) == mapped' = IF HasData(r) THEN mapped \cup {r} ELSE mapped
CannotMap(r) ==
    /\ HasData(r)
    /\ \/ UNCHANGED <<mapped, happened>>
       \/ mapped' = mapped \cup {r} /\ Happens("short")

(***************************************************************************)
(* Commands with an event: the queue.                                      *)
(***************************************************************************)
\* Mutant: a task is queued before those that wait.
EnqueueAtHead(p, x) ==
    LET t == Len(log) + Len(list) + 1 IN
    /\ driver = "on"
    /\ t \in Tasks
    /\ task' = [i \in DOMAIN task \cup {t} |-> IF i = t THEN Task(p, x) ELSE task[i]]
    /\ list' = <<t>> \o list
    /\ HappensIf("mixed", call # Idle)

\* A task that is queued while a blocking command is under way, past the wait
\* for an empty list, will be started next to it.
Enqueue(p, x) ==
    LET t == Len(log) + Len(list) + 1 IN
    /\ driver = "on"
    /\ t \in Tasks
    /\ task' = [i \in DOMAIN task \cup {t} |-> IF i = t THEN Task(p, x) ELSE task[i]]
    /\ list' = Append(list, t)
    /\ HappensIf("mixed", call # Idle)

\* AtaPassThruPassThru with an event, called between two blocking commands.
Queue ==
    /\ ~AtNotify /\ call = Idle
    /\ \E p \in Ports, x \in Packets : Enqueue(p, x)
    /\ UNCHANGED <<call, calls, routine, controller, mapped, notify, driver, log, done>>

\* The callback of an event runs as soon as the level is below TPL_NOTIFY.
Callback ==
    /\ ~AtNotify
    /\ \E t \in notify : notify' = notify \ {t}
    /\ \/ UNCHANGED <<task, list, happened>>
       \/ \E p \in Ports, x \in Packets : Enqueue(p, x)
    /\ UNCHANGED <<call, calls, routine, controller, mapped, driver, log, done>>

\* The outcome of tasks goes to their status block, their event is signalled,
\* and they are freed.
Tell(ts, told) ==
    /\ log' = log \o [i \in 1..Len(ts) |-> [task |-> ts[i], told |-> told]]
    /\ notify' = notify \cup Range(ts)
    /\ task' = Restrict(task, DOMAIN task \ Range(ts))

\* The first task is finished: on to the next.
RemoveTask ==
    /\ list' = Tail(list)
    /\ Tell(<<Head(list)>>, "success")
    /\ routine' = "next"

\* DestroyAsynTaskList with TRUE: the first task failed, and the rest go with it.
DestroyAsynTaskList ==
    /\ list' = <<>>
    /\ Tell(list, "error")
    /\ routine' = "idle"

(***************************************************************************)
(* AsyncNonBlockingTransferRoutine.                                        *)
(***************************************************************************)
Timer ==
    /\ ~AtNotify /\ driver = "on"
    /\ routine' = "next"
    /\ UNCHANGED <<task, list, call, calls, controller, mapped, notify, driver, log, done, happened>>

NoTask ==
    /\ routine = "next" /\ list = <<>>
    /\ routine' = "idle"
    /\ UNCHANGED <<task, list, call, calls, controller, mapped, notify, driver, log, done, happened>>

\* The head of the list is started: AhciDmaTransfer marks it, and goes on to
\* look for its completion.  AhciPioTransfer and AhciNonDataTransfer know no
\* tasks: they wait for it.
StartTask ==
    /\ routine = "next" /\ list # <<>>
    /\ LET t == Head(list) IN
        /\ ~task[t].started
        /\ task' = [task EXCEPT ![t].started = IsDma(t)]
        /\ Map(t)
        /\ AhciBuildCommand(t)
        /\ AhciStartCommand(PortOf(t))
        /\ routine' = IF IsDma(t) THEN "poll" ELSE "wait"
    /\ UNCHANGED <<list, call, calls, hba, notify, driver, log, done, happened>>

StartTaskFails ==
    /\ routine = "next" /\ list # <<>>
    /\ ~task[Head(list)].started
    /\ CannotMap(Head(list))
    /\ DestroyAsynTaskList
    /\ UNCHANGED <<call, calls, controller, driver, done>>

\* Mutant: the command is stopped only if its FIS came.
ExitIfReceived(r) ==
    /\ IF Received(PortOf(r)) THEN Stopped(r) ELSE UNCHANGED <<issued, hba, happened>>
    /\ mapped' = mapped \ {r}
    /\ UNCHANGED <<table, fis>>

\* Mutant: the buffer stays mapped after an error.
ExitUnmapsIfSuccess(r) ==
    /\ Stopped(r)
    /\ mapped' = IF Succeeded(PortOf(r)) THEN mapped \ {r} ELSE mapped
    /\ UNCHANGED <<table, fis>>

\* The end of a transfer that has an outcome: stopped and unmapped.
Exit(r) ==
    /\ Stopped(r)
    /\ mapped' = mapped \ {r}
    /\ UNCHANGED <<table, fis>>

\* The head is polled, once per run of the routine.
Polls(t) ==
    /\ list # <<>> /\ t = Head(list)
    /\ routine = "poll" \/ (routine = "next" /\ task[t].started)

LastRetry(t) == ~InfiniteWait(t) /\ task[t].retry = 1

PollFinds ==
    /\ \E t \in DOMAIN task :
        /\ Polls(t)
        /\ Succeeded(PortOf(t))
        /\ Exit(t)
        /\ RemoveTask
    /\ UNCHANGED <<call, calls, driver, done>>

PollFails ==
    /\ \E t \in DOMAIN task :
        /\ Polls(t)
        /\ \/ Failed(PortOf(t))
           \/ ~Received(PortOf(t)) /\ LastRetry(t)
        /\ Exit(t)
        /\ DestroyAsynTaskList
    /\ UNCHANGED <<call, calls, driver, done>>

\* Mutant: the tries of a task are not counted.
NotReadyUncounted ==
    /\ \E t \in DOMAIN task :
        /\ Polls(t)
        /\ ~Received(PortOf(t)) /\ ~LastRetry(t)
        /\ routine' = "idle"
    /\ UNCHANGED <<task, list, call, calls, controller, mapped, notify, driver, log, done, happened>>

NotReady ==
    /\ \E t \in DOMAIN task :
        /\ Polls(t)
        /\ ~Received(PortOf(t)) /\ ~LastRetry(t)
        /\ task' = [task EXCEPT ![t].retry = IF InfiniteWait(t) THEN @ ELSE @ - 1]
        /\ routine' = "idle"
    /\ UNCHANGED <<list, call, calls, controller, mapped, notify, driver, log, done, happened>>

\* A task without DMA ends: found, failed, or its time-out over.
WaitFinds ==
    /\ routine = "wait"
    /\ Succeeded(PortOf(Head(list)))
    /\ Exit(Head(list))
    /\ RemoveTask
    /\ UNCHANGED <<call, calls, driver, done>>

WaitFails ==
    /\ routine = "wait"
    /\ LET t == Head(list) IN
        /\ \/ Failed(PortOf(t))
           \/ ~Received(PortOf(t)) /\ ~InfiniteWait(t)
        /\ Exit(t)
    /\ DestroyAsynTaskList
    /\ UNCHANGED <<call, calls, driver, done>>

Routine == NoTask \/ StartTask \/ StartTaskFails \/ PollFinds \/ PollFails \/ NotReady
           \/ WaitFinds \/ WaitFails

(***************************************************************************)
(* Commands without an event: AtaPassThruPassThru for a disk, and          *)
(* AhciPacketCommandExecute for an ATAPI device, which never uses DMA.     *)
(***************************************************************************)
Goto(pc) == call' = [call EXCEPT !.pc = pc]

StartCall ==
    /\ ~AtNotify /\ driver = "on"
    /\ call = Idle /\ calls < MaxCalls
    /\ calls' = calls + 1
    /\ \E p \in Ports, x \in Packets :
        /\ call' = [pc |-> IF x.kind = "udma" THEN "drain" ELSE "start",
                    port |-> p, packet |-> x, status |-> "none"]
        /\ HappensIf("mixed", x.kind # "udma" /\ list # <<>>)
    /\ UNCHANGED <<task, list, routine, controller, mapped, notify, driver, log, done>>

\* Mutant: a DMA command does not wait for the tasks.
DrainNot ==
    /\ call.pc = "drain" /\ routine = "idle"
    /\ Goto("start")
    /\ UNCHANGED <<calls, task, list, routine, controller, mapped, notify, driver, log, done,
                   happened>>

\* AhciDmaTransfer, at TPL_NOTIFY, runs the routine until the list is empty.
Drain ==
    /\ call.pc = "drain" /\ routine = "idle"
    /\ IF list = <<>> THEN Goto("start") /\ UNCHANGED routine
       ELSE routine' = "next" /\ UNCHANGED call
    /\ UNCHANGED <<calls, task, list, controller, mapped, notify, driver, log, done, happened>>

\* RestoreTPL, and the command is built; the timer may run before it is started.
BuildCall ==
    /\ call.pc = "start" /\ ~AtNotify
    /\ Map(Call)
    /\ AhciBuildCommand(Call)
    /\ Goto("issue")
    /\ UNCHANGED <<calls, task, list, routine, issued, hba, notify, driver, log, done, happened>>

BuildCallFails ==
    /\ call.pc = "start" /\ ~AtNotify
    /\ CannotMap(Call)
    /\ call' = Idle
    /\ UNCHANGED <<calls, task, list, routine, controller, notify, driver, log, done>>

IssueCall ==
    /\ call.pc = "issue" /\ ~AtNotify
    /\ AhciStartCommand(PortOf(Call))
    /\ Goto("wait")
    /\ UNCHANGED <<calls, task, list, routine, table, hba, fis, mapped, notify, driver, log, done,
                   happened>>

\* AhciWaitMemSet, or the loop of AhciPioTransfer: the outcome is read.
WaitCall ==
    /\ call.pc = "wait" /\ ~AtNotify
    /\ \/ /\ Succeeded(PortOf(Call))
          /\ call' = [call EXCEPT !.pc = "end", !.status = "success"]
       \/ /\ \/ Failed(PortOf(Call))
             \/ ~Received(PortOf(Call)) /\ ~InfiniteWait(Call)
          /\ call' = [call EXCEPT !.pc = "end", !.status = "error"]
    /\ UNCHANGED <<calls, task, list, routine, controller, mapped, notify, driver, log, done, happened>>

EndCall ==
    /\ call.pc = "end" /\ ~AtNotify
    /\ Exit(Call)
    /\ call' = Idle
    /\ done' = done \ {Call}
    /\ UNCHANGED <<calls, task, list, routine, notify, driver, log>>

BlockingCall == Drain \/ BuildCall \/ BuildCallFails \/ IssueCall \/ WaitCall \/ EndCall

(***************************************************************************)
(* AtaAtapiPassThruStop: the timer and the tasks, the memory, the device.  *)
(***************************************************************************)
StopTasks ==
    /\ ~AtNotify /\ driver = "on" /\ call = Idle
    /\ driver' = "stopping"
    /\ list' = <<>> /\ task' = <<>>
    /\ HappensIf("abandoned", list # <<>>)
    /\ UNCHANGED <<call, calls, routine, controller, mapped, notify, log, done>>

FreeRegisters ==
    /\ driver = "stopping"
    /\ driver' = "freed"
    /\ UNCHANGED <<task, list, call, calls, routine, controller, mapped, notify, log, done, happened>>

DisableDevice ==
    /\ driver = "freed"
    /\ driver' = "off"
    /\ UNCHANGED <<task, list, call, calls, routine, controller, mapped, notify, log, done, happened>>

Stop == StopTasks \/ FreeRegisters \/ DisableDevice

(***************************************************************************)
(* The host controller: it reads the command when it is issued, and its    *)
(* data buffers (the PRDT) when the data goes.                             *)
(***************************************************************************)
Fetch ==
    /\ driver # "off"
    /\ \E p \in issued :
        /\ hba[p] = NoCommand
        /\ hba' = [hba EXCEPT ![p] = table]
    /\ UNCHANGED <<task, list, call, calls, routine, table, issued, fis, mapped, notify, driver, log,
                   done, happened>>

\* The command ends, with its data moved or with an error.
Complete ==
    /\ driver # "off"
    /\ \E p \in Ports, e \in BOOLEAN :
        LET c == hba[p]
            moves == ~e /\ c.data
            real == ~e /\ c = table /\ c.port = p
        IN
        /\ c # NoCommand
        /\ hba' = [hba EXCEPT ![p] = NoCommand]
        /\ issued' = issued \ {p}
        /\ fis' = [fis EXCEPT ![p] = IF e THEN "error" ELSE "success"]
        /\ done' = IF real THEN done \cup {c.of} ELSE done
        /\ happened' = IF driver = "freed" \/ (moves /\ table.of \notin mapped)
                       THEN happened \cup {"stray"} ELSE happened
    /\ UNCHANGED <<task, list, call, calls, routine, table, mapped, notify, driver, log>>

Ahci == Fetch \/ Complete

Next == Queue \/ Callback \/ Timer \/ Routine \/ StartCall \/ BlockingCall \/ Stop \/ Ahci

\* The timer is periodic, its handler goes on once it has begun, and it leaves the
\* code below TPL_NOTIFY time to run.  Nothing is asked of the device.
Fairness == WF_vars(Timer) /\ WF_vars(Routine) /\ SF_vars(BlockingCall)

Spec == Init /\ [][Next]_vars /\ Fairness

(***************************************************************************)
(* Properties.                                                             *)
(***************************************************************************)
Sound(excuses) == happened \cap excuses = {}

\* A task is never lost, told twice or told before one that was queued earlier:
\* those whose event was signalled and those in the list are all the tasks, in
\* the order of the calls.  (AtaAtapiPassThruStop drops the list unsignalled.)
ToldInOrder ==
    /\ \A i \in 1..Len(log) : log[i].task = i
    /\ \A i \in 1..Len(list) : list[i] = Len(log) + i
    /\ DOMAIN task = Range(list)

\* The requests in progress: a started task, or a blocking command.
InProgress ==
    {t \in DOMAIN task : task[t].started}
    \cup (IF routine = "wait" THEN {Head(list)} ELSE {})
    \cup (IF call # Idle /\ call.pc \in {"issue", "wait", "end"} THEN {Call} ELSE {})

\* A data buffer is mapped just while its request is in progress: Task->Map is
\* made once and released once, on each of the ways a task may end.
MappedInProgress ==
    Sound({"short", "abandoned"}) => mapped = {r \in InProgress : HasData(r)}

\* Only the first task of the list is started, and no blocking command is under
\* way with it, unless a client queued a task during a blocking command or gave
\* one without DMA while tasks were waiting.
OneInProgress ==
    /\ InProgress \subseteq {Call} \cup (IF list = <<>> THEN {} ELSE {Head(list)})
    /\ Sound({"mixed"}) => Cardinality(InProgress) <= 1

\* The controller has a command only for the request in progress: what ended was
\* stopped on every way out, unless it would not stop or the driver was stopped.
QuietBetween ==
    Sound({"hung", "abandoned"}) =>
        \A p \in Ports : p \in issued \/ hba[p] # NoCommand =>
            \E r \in InProgress : PortOf(r) = p

\* What is told to be a success was executed by the device of its port, with its
\* own data.
SuccessIsReal ==
    Sound({"mixed", "hung"}) =>
        /\ \A i \in 1..Len(log) : log[i].told = "success" => log[i].task \in done
        /\ call # Idle /\ call.status = "success" => Call \in done

\* The controller moves data only to a buffer that is mapped, and uses no memory
\* that was freed.
NoStray == Sound({"mixed", "hung", "abandoned"}) => "stray" \notin happened

\* The tasks, the buffers and the controller, at every step of a request.
TasksInv == TypeOK /\ QuietBetween /\ NoStray

\* A request without a time-out, which may wait for ever, and with it the rest.
Patient == \E r \in DOMAIN task \cup (IF call = Idle THEN {} ELSE {Call}) : InfiniteWait(r)

\* The event of every task is signalled in the end, whatever the device does,
\* if every command has a time-out and the driver is not stopped.
EachIsTold ==
    \A t \in Tasks :
        t \in DOMAIN task ~> (\E i \in 1..Len(log) : log[i].task = t) \/ Patient \/ driver # "on"

\* A blocking command returns, though it first waits for every task in the list.
CallReturns == call # Idle ~> call = Idle \/ Patient

\* Every request comes to its end.
EachEnds == EachIsTold /\ CallReturns
=============================================================================
