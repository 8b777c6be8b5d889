--------------------------- MODULE AhciTasksProofs ---------------------------
(***************************************************************************)
(* Proofs about AhciTasks, for any ports, commands, numbers of tasks and   *)
(* of calls, retries and mishaps: the tasks are told in the order in which *)
(* they were queued, one request is in progress at a time, its buffer is   *)
(* the one that is mapped, and nothing else is left with the controller.   *)
(***************************************************************************)
EXTENDS AhciTasks, SequenceTheorems, FiniteSetTheorems, TLAPS

LogEntry == [task : Tasks, told : {"success", "error"}]
TaskType == [port : Ports, packet : Packets, started : BOOLEAN, retry : 1..Retries]
CallType == [pc : CallPcs, port : Ports, packet : Packets,
             status : {"none", "success", "error"}]

\* The sequences and the tasks in them.
Numbered ==
    /\ list \in Seq(Tasks)
    /\ log \in Seq(LogEntry)
    /\ \A i \in 1..Len(log) : log[i].task = i
    /\ \A i \in 1..Len(list) : list[i] = Len(log) + i
    /\ DOMAIN task = (Len(log) + 1)..(Len(log) + Len(list))
    /\ \A t \in DOMAIN task : task[t] \in TaskType

\* The number of a task is its place behind those that were told.
LEMMA RangeOfList ==
  ASSUME NEW m \in Nat, NEW s \in Seq(Tasks), \A i \in 1..Len(s) : s[i] = m + i
  PROVE  Range(s) = (m + 1)..(m + Len(s))
<1>1. Range(s) = {s[i] : i \in 1..Len(s)} /\ Len(s) \in Nat
  BY RangeEquality, LenProperties
<1>2. ASSUME NEW x \in (m + 1)..(m + Len(s)) PROVE x \in Range(s)
  <2>1. x - m \in 1..Len(s) /\ m + (x - m) = x
    BY <1>1
  <2> QED
    BY <1>1, <2>1
<1>3. ASSUME NEW x \in Range(s) PROVE x \in (m + 1)..(m + Len(s))
  BY <1>1
<1> QED
  BY <1>2, <1>3

\* What Enqueue does to the list and the tasks.
LEMMA Enqueued ==
  ASSUME Numbered, NEW p \in Ports, NEW x \in Packets, Enqueue(p, x), UNCHANGED log,
         Retries \in Nat \ {0}
  PROVE  /\ Numbered'
         /\ list' # <<>>
         /\ list # <<>> => Head(list') = Head(list)
         /\ \E t \in Tasks : /\ DOMAIN task' = DOMAIN task \cup {t} /\ t \notin DOMAIN task
                             /\ task'[t] = Task(p, x)
         /\ \A t \in DOMAIN task : task'[t] = task[t]
<1> DEFINE n == Len(log) + Len(list) + 1
<1>1. Len(log) \in Nat /\ Len(list) \in Nat /\ n \in Tasks
  BY LenProperties DEF Numbered, Enqueue
<1>2. /\ list' = Append(list, n)
      /\ task' = [i \in DOMAIN task \cup {n} |-> IF i = n THEN Task(p, x) ELSE task[i]]
  BY DEF Enqueue
<1>3. /\ list' \in Seq(Tasks) /\ list' # <<>> /\ Len(list') = Len(list) + 1
      /\ \A i \in 1..Len(list) : list'[i] = list[i]
      /\ list'[Len(list) + 1] = n
  BY <1>1, <1>2, AppendProperties DEF Numbered
<1>4. list # <<>> => Head(list') = Head(list)
  BY <1>1, <1>2, HeadTailAppend DEF Numbered
<1>5. n \notin DOMAIN task
  BY <1>1 DEF Numbered
<1>6. DOMAIN task' = DOMAIN task \cup {n} /\ task'[n] = Task(p, x)
      /\ \A t \in DOMAIN task : task'[t] = task[t]
  BY <1>2, <1>5
<1>7. Task(p, x) \in TaskType
  BY DEF Task, TaskType
<1>8. \A i \in 1..Len(list') : list'[i] = Len(log') + i
  <2> TAKE i \in 1..Len(list')
  <2>1. CASE i = Len(list) + 1
    BY <2>1, <1>1, <1>3
  <2>2. CASE i \in 1..Len(list)
    BY <2>2, <1>1, <1>3 DEF Numbered
  <2> QED
    BY <1>1, <1>3, <2>1, <2>2
<1>9. DOMAIN task' = (Len(log') + 1)..(Len(log') + Len(list'))
  BY <1>1, <1>3, <1>6 DEF Numbered
<1>10. \A t \in DOMAIN task' : task'[t] \in TaskType
  BY <1>6, <1>7 DEF Numbered
<1>11. Numbered'
  BY <1>3, <1>8, <1>9, <1>10 DEF Numbered
<1> QED
  BY <1>1, <1>3, <1>4, <1>5, <1>6, <1>11

\* What RemoveTask does: the first task is gone, and the others are as before.
LEMMA Removed ==
  ASSUME Numbered, list # <<>>, RemoveTask
  PROVE  /\ Numbered'
         /\ DOMAIN task' = DOMAIN task \ {Head(list)}
         /\ \A t \in DOMAIN task' : task'[t] = task[t]
         /\ notify' = notify \cup {Head(list)}
<1> DEFINE e == [task |-> Head(list), told |-> "success"]
<1>1. /\ Len(log) \in Nat /\ Len(list) \in Nat \ {0}
      /\ Head(list) = list[1] /\ Head(list) \in Tasks /\ Head(list) = Len(log) + 1
  <2>1. Len(log) \in Nat /\ Len(list) \in Nat \ {0}
    BY LenProperties, EmptySeq DEF Numbered
  <2>2. Head(list) \in Tasks /\ Head(list) = list[1]
    BY HeadTailProperties DEF Numbered
  <2> QED
    BY <2>1, <2>2 DEF Numbered
<1>2. /\ list' = Tail(list) /\ list' \in Seq(Tasks) /\ Len(list') = Len(list) - 1
      /\ \A i \in 1..Len(list') : list'[i] = list[i + 1]
  BY HeadTailProperties DEF RemoveTask, Numbered
<1>3. /\ Len(<<Head(list)>>) = 1
      /\ Range(<<Head(list)>>) = {Head(list)}
  BY DEF Range
<1>4. log' = log \o <<e>>
  <2>1. [i \in 1..Len(<<Head(list)>>) |-> [task |-> <<Head(list)>>[i], told |-> "success"]] = <<e>>
    BY <1>3
  <2> QED
    BY <2>1 DEF RemoveTask, Tell
<1>5. /\ log' \in Seq(LogEntry) /\ Len(log') = Len(log) + 1
      /\ \A i \in 1..Len(log) : log'[i] = log[i]
      /\ log'[Len(log) + 1] = e
  <2>1. e \in LogEntry
    BY <1>1 DEF LogEntry
  <2>2. <<e>> \in Seq(LogEntry) /\ Len(<<e>>) = 1 /\ <<e>>[1] = e
    BY <2>1
  <2> HIDE DEF e
  <2> QED
    BY <1>1, <1>4, <2>2, ConcatProperties DEF Numbered
<1>6. \A i \in 1..Len(log') : log'[i].task = i
  <2> TAKE i \in 1..Len(log')
  <2>1. CASE i = Len(log) + 1
    BY <2>1, <1>1, <1>5
  <2>2. CASE i \in 1..Len(log)
    BY <2>2, <1>5 DEF Numbered
  <2> QED
    BY <1>1, <1>5, <2>1, <2>2
<1>7. task' = [t \in DOMAIN task \ {Head(list)} |-> task[t]] /\ notify' = notify \cup {Head(list)}
  BY <1>3 DEF RemoveTask, Tell, Restrict
<1>8. \A i \in 1..Len(list') : list'[i] = Len(log') + i
  BY <1>1, <1>2, <1>5 DEF Numbered
<1>9. DOMAIN task' = (Len(log') + 1)..(Len(log') + Len(list'))
  BY <1>1, <1>2, <1>5, <1>7 DEF Numbered
<1>10. Numbered'
  BY <1>2, <1>5, <1>6, <1>7, <1>8, <1>9 DEF Numbered
<1> QED
  BY <1>7, <1>10

\* What DestroyAsynTaskList does: every task is told, and none is left.
LEMMA Destroyed ==
  ASSUME Numbered, DestroyAsynTaskList
  PROVE  /\ Numbered'
         /\ list' = <<>>
         /\ DOMAIN task' = {}
         /\ notify' = notify \cup Range(list) /\ Range(list) \subseteq Tasks
<1> DEFINE es == [i \in 1..Len(list) |-> [task |-> list[i], told |-> "error"]]
<1>1. Len(log) \in Nat /\ Len(list) \in Nat
  BY LenProperties DEF Numbered
<1>2. Range(list) = DOMAIN task /\ Range(list) \subseteq Tasks
  BY <1>1, RangeOfList, RangeOfSeq DEF Numbered
<1>3. es \in Seq(LogEntry) /\ Len(es) = Len(list)
  <2>1. \A i \in 1..Len(list) : list[i] \in Tasks
    BY ElementOfSeq DEF Numbered
  <2>2. es \in [1..Len(list) -> LogEntry]
    BY <2>1 DEF LogEntry
  <2> QED
    BY <1>1, <2>2
<1>4. /\ log' = log \o es /\ list' = <<>>
      /\ task' = [t \in DOMAIN task \ Range(list) |-> task[t]]
      /\ notify' = notify \cup Range(list)
  BY DEF DestroyAsynTaskList, Tell, Restrict
<1>5. /\ log' \in Seq(LogEntry) /\ Len(log') = Len(log) + Len(list)
      /\ \A i \in 1..Len(log') : log'[i] = IF i <= Len(log) THEN log[i] ELSE es[i - Len(log)]
  <2> HIDE DEF es
  <2> QED
    BY <1>3, <1>4, ConcatProperties DEF Numbered
<1>6. \A i \in 1..Len(log') : log'[i].task = i
  <2> TAKE i \in 1..Len(log')
  <2>1. CASE i <= Len(log)
    <3>1. i \in 1..Len(log) /\ log'[i] = log[i]
      <4> HIDE DEF es
      <4> QED
        BY <2>1, <1>1, <1>5
    <3> QED
      BY <3>1 DEF Numbered
  <2>2. CASE i > Len(log)
    <3>1. i - Len(log) \in 1..Len(list) /\ log'[i] = es[i - Len(log)]
      <4> HIDE DEF es
      <4> QED
        BY <2>2, <1>1, <1>5
    <3>2. es[i - Len(log)].task = list[i - Len(log)]
      BY <3>1
    <3>3. list[i - Len(log)] = Len(log) + (i - Len(log))
      BY <3>1 DEF Numbered
    <3>4. Len(log) + (i - Len(log)) = i
      BY <1>1
    <3> HIDE DEF es
    <3> QED
      BY <3>1, <3>2, <3>3, <3>4
  <2> QED
    BY <1>1, <2>1, <2>2
<1>7. DOMAIN task' = {}
  BY <1>2, <1>4
<1>8. Len(list') = 0 /\ list' \in Seq(Tasks)
  BY <1>4, EmptySeq
<1>9. DOMAIN task' = (Len(log') + 1)..(Len(log') + Len(list'))
  BY <1>1, <1>5, <1>7, <1>8
<1>10. Numbered'
  BY <1>5, <1>6, <1>7, <1>8, <1>9 DEF Numbered
<1> QED
  BY <1>2, <1>4, <1>7, <1>10

-----------------------------------------------------------------------------
(* The invariant. *)

\* A blocking command that is past the wait for an empty list.
Busy == call # Idle /\ call.pc \in {"start", "issue", "wait", "end"}

\* No task waits next to it, if the clients see to that.
Alone == Busy /\ "mixed" \notin happened => list = <<>>

\* Only the first task is started, and the routine is not at a task that is gone.
Heads ==
    /\ routine \in {"poll", "wait"} => list # <<>>
    /\ \A t \in DOMAIN task : task[t].started => t = Head(list)

Places ==
    /\ call \in CallType \cup {Idle}
    /\ routine \in {"idle", "next", "poll", "wait"}

Inv == Numbered /\ Places /\ Heads /\ Alone

\* Blocking commands keep their port and their packet.
LEMMA CallSteps ==
  ASSUME Places, call # Idle, NEW pc \in CallPcs, Goto(pc)
  PROVE  /\ call' \in CallType /\ call' # Idle /\ call'.pc = pc
         /\ call'.port = call.port /\ call'.packet = call.packet
  BY DEF Places, CallType, Goto, Idle, CallPcs

\* Whether there is a blocking command shows in its place.
LEMMA IdleIs == Idle.pc = "idle"
  BY DEF Idle

\* Where the routine has polled or waited for the first task, that is one of them.
LEMMA HeadIsTask ==
  ASSUME Numbered, list # <<>>
  PROVE  Head(list) \in DOMAIN task /\ Head(list) \in Tasks
<1>1. Len(log) \in Nat /\ Len(list) \in Nat \ {0}
  BY LenProperties, EmptySeq DEF Numbered
<1>2. Head(list) \in Tasks /\ Head(list) = list[1]
  BY HeadTailProperties DEF Numbered
<1> QED
  BY <1>1, <1>2 DEF Numbered

\* A request is a task or the blocking command, and not both.
LEMMA TasksAreTasks ==
  ASSUME Numbered
  PROVE  /\ \A t \in DOMAIN task : t \in Tasks /\ t # Call
         /\ list = <<>> => DOMAIN task = {}
         /\ list # <<>> => Head(list) # Call
<1>1. Len(log) \in Nat /\ Len(list) \in Nat
  BY LenProperties DEF Numbered
<1>2. Range(list) = DOMAIN task /\ Range(list) \subseteq Tasks
  BY <1>1, RangeOfList, RangeOfSeq DEF Numbered
<1>3. list = <<>> => Len(list) = 0
  OBVIOUS
<1>4. \A t \in Tasks : t # Call
  BY DEF Tasks, Call
<1> QED
  BY <1>1, <1>2, <1>3, <1>4, HeadIsTask DEF Numbered

\* No task and no command to begin with.
LEMMA InvInit == Init => Inv
<1> SUFFICES ASSUME Init PROVE Inv
  OBVIOUS
<1>1. Numbered
  <2>1. list \in Seq(Tasks) /\ Len(list) = 0 /\ log \in Seq(LogEntry) /\ Len(log) = 0
    BY EmptySeq DEF Init
  <2>2. DOMAIN task = {}
    BY DEF Init
  <2> QED
    BY <2>1, <2>2 DEF Numbered
<1>2. Places /\ Heads /\ Alone
  BY DEF Init, Places, Heads, Alone, Busy, Idle
<1> QED
  BY <1>1, <1>2 DEF Inv

\* Each action keeps the order of the tasks and the places of the requests.
LEMMA InvNext == Inv /\ [Next]_vars => Inv'
<1> SUFFICES ASSUME Inv, [Next]_vars PROVE Inv'
  OBVIOUS
<1> USE DEF Inv
<1>0. Retries \in Nat \ {0}
  BY TasksAssumption
<1>e. ASSUME NEW p \in Ports, NEW x \in Packets, Enqueue(p, x),
             UNCHANGED <<call, routine, log>>
      PROVE  Inv'
  <2>1. Numbered'
    BY <1>0, <1>e, Enqueued
  <2>2. Heads'
    <3>1. ~Task(p, x).started
      BY DEF Task
    <3>2. DOMAIN task = {} \/ list # <<>>
      BY EmptySeq DEF Numbered
    <3>3. \A t \in DOMAIN task' : task'[t].started => t \in DOMAIN task /\ task[t].started
      BY <1>0, <1>e, <3>1, Enqueued
    <3> QED
      BY <1>0, <1>e, <3>2, <3>3, Enqueued DEF Heads
  <2>3. Alone'
    <3>1. call # Idle => "mixed" \in happened'
      BY <1>e DEF Enqueue, HappensIf, Happens
    <3> QED
      BY <1>e, <3>1 DEF Alone, Busy
  <2> QED
    BY <1>e, <2>1, <2>2, <2>3 DEF Places
<1>1. CASE Queue
  BY <1>1, <1>e DEF Queue
<1>2. CASE Callback
  <2>1. CASE UNCHANGED <<task, list, happened>>
    BY <1>2, <2>1 DEF Callback, Numbered, Places, Heads, Alone, Busy
  <2> QED
    BY <1>2, <2>1, <1>e DEF Callback
<1>3. CASE Timer
  BY <1>3 DEF Timer, Numbered, Places, Heads, Alone, Busy
<1>4. CASE NoTask
  BY <1>4 DEF NoTask, Numbered, Places, Heads, Alone, Busy
<1>5. CASE StartTask
  <2> DEFINE h == Head(list)
  <2>1. h \in DOMAIN task /\ list # <<>>
    BY <1>5, HeadIsTask DEF StartTask
  <2>2. /\ task' = [task EXCEPT ![h].started = IsDma(h)]
        /\ UNCHANGED <<list, log, call, happened>>
        /\ routine' \in {"poll", "wait"}
    BY <1>5 DEF StartTask
  <2>3. IsDma(h) \in BOOLEAN
    BY DEF IsDma
  <2>4. \A t \in DOMAIN task' : task'[t] \in TaskType /\ (t # h => task'[t] = task[t])
    BY <2>1, <2>2, <2>3 DEF Numbered, TaskType
  <2>5. Numbered'
    BY <2>2, <2>4 DEF Numbered
  <2> QED
    BY <2>1, <2>2, <2>4, <2>5 DEF Places, Heads, Alone, Busy
<1>r. ASSUME RemoveTask, list # <<>>, UNCHANGED call, happened \subseteq happened'
      PROVE  Inv'
  <2>1. Numbered' /\ routine' = "next"
    BY <1>r, Removed DEF RemoveTask
  <2>2. \A t \in DOMAIN task' : ~task'[t].started
    BY <1>r, Removed DEF Heads
  <2>3. Alone'
    BY <1>r DEF Alone, Busy
  <2> QED
    BY <1>r, <2>1, <2>2, <2>3 DEF Places, Heads
<1>d. ASSUME DestroyAsynTaskList, UNCHANGED call
      PROVE  Inv'
  <2>1. Numbered' /\ list' = <<>> /\ DOMAIN task' = {} /\ routine' = "idle"
    BY <1>d, Destroyed DEF DestroyAsynTaskList
  <2> QED
    BY <1>d, <2>1 DEF Places, Heads, Alone, Busy
<1>6. CASE StartTaskFails
  BY <1>6, <1>d DEF StartTaskFails
<1>x. ASSUME NEW r, Exit(r) PROVE happened \subseteq happened'
  BY <1>x DEF Exit, Stopped, Happens
<1>7. CASE PollFinds
  BY <1>7, <1>r, <1>x DEF PollFinds, Polls
<1>8. CASE PollFails
  BY <1>8, <1>d DEF PollFails
<1>9. CASE NotReady
  <2> PICK t \in DOMAIN task :
        /\ Polls(t)
        /\ ~LastRetry(t)
        /\ task' = [task EXCEPT ![t].retry = IF InfiniteWait(t) THEN @ ELSE @ - 1]
        /\ routine' = "idle"
    BY <1>9 DEF NotReady
  <2>1. UNCHANGED <<list, log, call, happened>>
    BY <1>9 DEF NotReady
  <2>2. task[t] \in TaskType /\ (InfiniteWait(t) \/ task[t].retry # 1)
    BY DEF Numbered, LastRetry
  <2>3. (IF InfiniteWait(t) THEN task[t].retry ELSE task[t].retry - 1) \in 1..Retries
    BY <1>0, <2>2 DEF TaskType
  <2>4. /\ DOMAIN task' = DOMAIN task
        /\ \A u \in DOMAIN task : task'[u] \in TaskType /\ task'[u].started = task[u].started
    BY <2>2, <2>3 DEF Numbered, TaskType
  <2> QED
    BY <2>1, <2>4 DEF Numbered, Places, Heads, Alone, Busy
<1>10. CASE WaitFinds
  BY <1>10, <1>r, <1>x DEF WaitFinds, Heads
<1>11. CASE WaitFails
  BY <1>11, <1>d DEF WaitFails
<1>12. CASE StartCall
  <2> PICK p \in Ports, x \in Packets :
        /\ call' = [pc |-> IF x.kind = "udma" THEN "drain" ELSE "start",
                    port |-> p, packet |-> x, status |-> "none"]
        /\ HappensIf("mixed", x.kind # "udma" /\ list # <<>>)
    BY <1>12 DEF StartCall
  <2>1. UNCHANGED <<task, list, log, routine>>
    BY <1>12 DEF StartCall
  <2>2. call' \in CallType /\ (call'.pc = "start" => x.kind # "udma")
    BY DEF CallType, CallPcs
  <2>3. Alone'
    BY <2>1, <2>2 DEF Alone, Busy, HappensIf, Happens
  <2> QED
    BY <2>1, <2>2, <2>3 DEF Numbered, Places, Heads
<1>c. ASSUME NEW pc \in CallPcs, Goto(pc), call # Idle, Busy \/ list = <<>>,
             UNCHANGED <<task, list, log, routine, happened>>
      PROVE  Inv'
  <2>1. call' \in CallType
    BY <1>c, CallSteps
  <2>2. Alone'
    BY <1>c DEF Alone, Busy
  <2> QED
    BY <1>c, <2>1, <2>2 DEF Numbered, Places, Heads
<1>i. ASSUME call' = Idle, UNCHANGED <<task, list, log, routine>>
      PROVE  Inv'
  BY <1>i DEF Numbered, Places, Heads, Alone, Busy
<1>13. CASE Drain
  <2>1. CASE list = <<>>
    BY <1>13, <2>1, <1>c, IdleIs DEF Drain, CallPcs
  <2>2. CASE list # <<>>
    BY <1>13, <2>2 DEF Drain, Numbered, Places, Heads, Alone, Busy
  <2> QED
    BY <2>1, <2>2
<1>14. CASE BuildCall
  BY <1>14, <1>c, IdleIs DEF BuildCall, CallPcs, Busy
<1>15. CASE BuildCallFails
  BY <1>15, <1>i DEF BuildCallFails
<1>16. CASE IssueCall
  BY <1>16, <1>c, IdleIs DEF IssueCall, CallPcs, Busy
<1>17. CASE WaitCall
  <2>1. call \in CallType /\ Busy
    BY <1>17, IdleIs DEF WaitCall, Places, Busy
  <2>2. call' \in CallType
    BY <1>17, <2>1 DEF WaitCall, CallType, CallPcs
  <2>3. UNCHANGED <<task, list, log, routine, happened>>
    BY <1>17 DEF WaitCall
  <2> QED
    BY <2>1, <2>2, <2>3 DEF Numbered, Places, Heads, Alone
<1>18. CASE EndCall
  BY <1>18, <1>i DEF EndCall
<1>19. CASE StopTasks
  <2>1. list' = <<>> /\ DOMAIN task' = {} /\ UNCHANGED <<log, call, routine>> /\ routine = "idle"
    BY <1>19 DEF StopTasks, AtNotify
  <2>2. Len(list') = 0 /\ list' \in Seq(Tasks) /\ Len(log) \in Nat
    BY <2>1, EmptySeq, LenProperties DEF Numbered
  <2>3. Numbered'
    BY <2>1, <2>2 DEF Numbered
  <2> QED
    BY <2>1, <2>3 DEF Places, Heads, Alone, Busy
<1>20. CASE FreeRegisters \/ DisableDevice
  BY <1>20 DEF FreeRegisters, DisableDevice, Numbered, Places, Heads, Alone, Busy
<1>21. CASE Fetch
  BY <1>21 DEF Fetch, Numbered, Places, Heads, Alone, Busy
<1>22. CASE Complete
  <2>1. UNCHANGED <<task, list, log, call, routine>> /\ happened \subseteq happened'
    BY <1>22 DEF Complete
  <2> QED
    BY <2>1 DEF Numbered, Places, Heads, Alone, Busy
<1>23. CASE UNCHANGED vars
  BY <1>23 DEF vars, Numbered, Places, Heads, Alone, Busy
<1> QED
  BY <1>1, <1>2, <1>3, <1>4, <1>5, <1>6, <1>7, <1>8, <1>9, <1>10, <1>11, <1>12, <1>13, <1>14,
     <1>15, <1>16, <1>17, <1>18, <1>19, <1>20, <1>21, <1>22, <1>23
     DEF Next, Routine, BlockingCall, Stop, Ahci

\* So the order and the places are those of every behaviour.
LEMMA SpecInv == Spec => []Inv
<1> QED
  BY InvInit, InvNext, PTL DEF Spec

\* No task is lost, told twice or told out of order, whatever the device and the
\* clients do.
THEOREM InOrder == Spec => []ToldInOrder
<1>1. Inv => ToldInOrder
  <2> SUFFICES ASSUME Numbered PROVE ToldInOrder
    BY DEF Inv
  <2>1. Len(log) \in Nat
    BY LenProperties DEF Numbered
  <2> QED
    BY <2>1, RangeOfList DEF Numbered, ToldInOrder
<1> QED
  BY <1>1, SpecInv, PTL

\* Only the first task is ever started, and never next to a blocking command
\* unless the clients ask for both at a time.
THEOREM OneAtATime == Spec => []OneInProgress
<1>1. Inv => OneInProgress
  <2> SUFFICES ASSUME Inv PROVE OneInProgress
    OBVIOUS
  <2> DEFINE First == IF list = <<>> THEN {} ELSE {Head(list)}
  <2>1. \A r \in InProgress : r \in First \/ (r = Call /\ Busy)
    BY TasksAreTasks DEF InProgress, Inv, Heads, Busy
  <2>2. ASSUME Sound({"mixed"}) PROVE Cardinality(InProgress) <= 1
    <3>1. InProgress \subseteq {Call} \/ InProgress \subseteq {Head(list)}
      BY <2>1, <2>2 DEF Inv, Alone, Sound
    <3>2. ASSUME NEW x, NEW T \in SUBSET {x} PROVE Cardinality(T) <= 1
      <4>1. IsFiniteSet({x}) /\ Cardinality({x}) = 1
        BY FS_Singleton
      <4> QED
        BY <4>1, FS_Subset
    <3> QED
      BY <3>1, <3>2
  <2> QED
    BY <2>1, <2>2 DEF OneInProgress
<1> QED
  BY <1>1, SpecInv, PTL

-----------------------------------------------------------------------------
(***************************************************************************)
(* What a step does to the requests in progress, their buffers and the     *)
(* controller.                                                             *)
(***************************************************************************)

\* The controller has a command of the port.
Active(p) == p \in issued \/ hba[p] # NoCommand

\* The requests of S keep their port and their packet.
Keeps(S) == \A r \in S : PortOf(r)' = PortOf(r) /\ HasData(r)' = HasData(r)

\* The requests of S are begun, with their buffers mapped and their command in
\* the table; a command is issued only for a request in progress.
Begin(S) ==
    /\ InProgress' = InProgress \cup S
    /\ InProgress \cap S = {}
    /\ mapped' = mapped \cup {r \in S : HasData(r)'} \/ "short" \in happened'
    /\ mapped \subseteq mapped' /\ \A r \in S : HasData(r)' => r \in mapped'
    /\ \A p \in Ports : Active(p)' => Active(p) \/ \E r \in InProgress' : PortOf(r)' = p
    /\ Keeps(InProgress)
    /\ S = {} => UNCHANGED table
    /\ \A r \in S : /\ table' = Command(r, PortOf(r)', HasData(r)')
                    /\ fis'[PortOf(r)'] = "none"
                    /\ UNCHANGED <<hba, done>>

\* The request is ended: stopped and unmapped.
End(h) ==
    /\ InProgress' = InProgress \ {h}
    /\ mapped' = mapped \ {h}
    /\ UNCHANGED table
    /\ \/ "hung" \in happened'
       \/ /\ \A q \in Ports : q = PortOf(h) => ~Active(q)'
          /\ \A p \in Ports : Active(p)' => Active(p)
    /\ Keeps(InProgress \ {h})

\* The registers of the ports.
Registers == DOMAIN hba = Ports /\ DOMAIN fis = Ports

\* Each port has its registers.
LEMMA HbaInit == Init => Registers
  BY DEF Init, Registers

\* It keeps them.
LEMMA HbaNext == Registers /\ [Next]_vars => Registers'
<1> SUFFICES ASSUME Registers, [Next]_vars PROVE Registers'
  OBVIOUS
<1> USE DEF Registers
<1>1. ASSUME NEW r, Exit(r) PROVE Registers'
  BY <1>1 DEF Exit, Stopped
<1>2. CASE Routine
  <2>1. CASE StartTask
    BY <2>1 DEF StartTask, AhciBuildCommand
  <2> QED
    BY <1>1, <1>2, <2>1 DEF Routine, NoTask, StartTaskFails, PollFinds, PollFails, NotReady,
                            WaitFinds, WaitFails, controller
<1>3. CASE BlockingCall
  <2>1. CASE BuildCall
    BY <2>1 DEF BuildCall, AhciBuildCommand
  <2> QED
    BY <1>1, <1>3, <2>1 DEF BlockingCall, Drain, BuildCallFails, IssueCall, WaitCall, EndCall,
                            controller
<1>4. CASE Queue \/ Callback \/ Timer \/ StartCall \/ Stop
  BY <1>4 DEF Queue, Callback, Timer, StartCall, Stop, StopTasks, FreeRegisters, DisableDevice,
              controller
<1>5. CASE Ahci
  BY <1>5 DEF Ahci, Fetch, Complete
<1>6. CASE UNCHANGED vars
  BY <1>6 DEF vars
<1> QED
  BY <1>2, <1>3, <1>4, <1>5, <1>6 DEF Next

\* The exit of a transfer unmaps its buffer and leaves its port quiet, if it can.
LEMMA ExitEnds ==
  ASSUME NEW h, Exit(h), Registers, PortOf(h) \in Ports
  PROVE  /\ mapped' = mapped \ {h}
         /\ happened \subseteq happened' /\ UNCHANGED table
         /\ \/ "hung" \in happened'
            \/ /\ \A q \in Ports : q = PortOf(h) => ~Active(q)'
               /\ \A p \in Ports : Active(p)' => Active(p)
  BY DEF Exit, Stopped, Happens, Active, Registers

\* Every step begins requests or ends one, or drops the list for good.
LEMMA Steps ==
  ASSUME Inv, Registers, Next
  PROVE  /\ happened \subseteq happened'
         /\ \/ \E S : Begin(S)
            \/ \E h : End(h)
            \/ "abandoned" \in happened'
<1> DEFINE Goal == /\ happened \subseteq happened'
                   /\ \/ \E S : Begin(S)
                      \/ \E h : End(h)
                      \/ "abandoned" \in happened'
<1>0. Retries \in Nat \ {0}
  BY TasksAssumption
<1>t. /\ \A t \in DOMAIN task : t \in Tasks /\ t # Call
      /\ list # <<>> => Head(list) \in DOMAIN task
      /\ list = <<>> => DOMAIN task = {}
  BY TasksAreTasks, HeadIsTask DEF Inv
\* Nothing of this changes.
<1>s. ASSUME UNCHANGED <<task, list, routine, mapped, call, table>>,
             \A p \in Ports : Active(p)' => Active(p), happened \subseteq happened'
      PROVE  Goal
  <2>1. InProgress' = InProgress
    BY <1>s DEF InProgress
  <2>2. Keeps(InProgress)
    BY <1>s DEF Keeps, PortOf, HasData, RequestOf
  <2>3. Begin({})
    BY <1>s, <2>1, <2>2 DEF Begin
  <2> QED
    BY <1>s, <2>3
<1>e. ASSUME NEW p \in Ports, NEW x \in Packets, Enqueue(p, x),
             UNCHANGED <<call, routine, controller, mapped, log>>
      PROVE  Goal
  <2>1. PICK t \in Tasks : /\ DOMAIN task' = DOMAIN task \cup {t} /\ t \notin DOMAIN task
                           /\ task'[t] = Task(p, x)
    BY <1>0, <1>e, Enqueued DEF Inv
  <2>2. /\ \A u \in DOMAIN task : task'[u] = task[u]
        /\ list # <<>> => Head(list') = Head(list)
    BY <1>0, <1>e, Enqueued DEF Inv
  <2>3. ~Task(p, x).started
    BY DEF Task
  <2>4. routine = "wait" => Head(list') = Head(list)
    BY <2>2 DEF Inv, Heads
  <2>5. InProgress' = InProgress
    BY <1>e, <2>1, <2>2, <2>3, <2>4 DEF InProgress
  <2>6. \A r \in InProgress : r = Call \/ r \in DOMAIN task
    BY <1>t DEF InProgress, Inv, Heads
  <2>7. Keeps(InProgress)
    BY <1>e, <2>2, <2>6 DEF Keeps, PortOf, HasData, RequestOf
  <2>8. happened \subseteq happened'
    BY <1>e DEF Enqueue, HappensIf, Happens
  <2>9. Begin({})
    BY <1>e, <2>5, <2>7 DEF Begin, Active, controller
  <2> QED
    BY <2>8, <2>9
<1>1. CASE Queue
  BY <1>1, <1>e DEF Queue
<1>2. CASE Callback
  <2>1. CASE UNCHANGED <<task, list, happened>>
    BY <1>2, <2>1, <1>s DEF Callback, Active, controller
  <2> QED
    BY <1>2, <2>1, <1>e DEF Callback
<1>3. CASE Timer \/ NoTask
  <2>1. InProgress' = InProgress
    BY <1>3 DEF Timer, NoTask, InProgress, AtNotify
  <2>2. Keeps(InProgress)
    BY <1>3 DEF Timer, NoTask, Keeps, PortOf, HasData, RequestOf
  <2>3. Begin({}) /\ happened \subseteq happened'
    BY <1>3, <2>1, <2>2 DEF Timer, NoTask, Begin, Active, controller
  <2> QED
    BY <2>3
<1>5. CASE StartTask
  <2> DEFINE h == Head(list)
  <2>1. /\ routine = "next" /\ h \in DOMAIN task /\ h # Call /\ ~task[h].started
        /\ task' = [task EXCEPT ![h].started = IsDma(h)]
        /\ routine' = IF IsDma(h) THEN "poll" ELSE "wait"
        /\ UNCHANGED <<list, call, hba, happened>>
        /\ issued' = issued \cup {PortOf(h)}
        /\ mapped' = IF HasData(h) THEN mapped \cup {h} ELSE mapped
        /\ fis' = [fis EXCEPT ![PortOf(h)] = "none"]
        /\ table' = Command(h, PortOf(h), HasData(h)) /\ UNCHANGED done
    BY <1>5, <1>t DEF StartTask, Map, AhciStartCommand, AhciBuildCommand
  <2>2. task[h] \in TaskType
    BY <2>1 DEF Inv, Numbered
  <2>3. /\ DOMAIN task' = DOMAIN task
        /\ task'[h].started = IsDma(h) /\ task'[h].port = task[h].port
        /\ task'[h].packet = task[h].packet
        /\ \A t \in DOMAIN task : t # h => task'[t] = task[t]
    BY <2>1, <2>2 DEF TaskType
  <2>4. IsDma(h) \in BOOLEAN
    BY DEF IsDma
  <2>5. InProgress' = InProgress \cup {h} /\ InProgress \cap {h} = {}
    BY <2>1, <2>3, <2>4 DEF InProgress
  <2>6. PortOf(h)' = PortOf(h) /\ HasData(h)' = HasData(h)
    BY <2>1, <2>3 DEF PortOf, HasData, RequestOf
  <2>7. \A r \in InProgress : r = Call \/ r \in DOMAIN task
    BY <1>t DEF InProgress, Inv, Heads
  <2>8. Keeps(InProgress)
    BY <2>1, <2>3, <2>7 DEF Keeps, PortOf, HasData, RequestOf
  <2>9. mapped' = mapped \cup {r \in {h} : HasData(r)'}
    BY <2>1, <2>6
  <2>10. \A p \in Ports : Active(p)' => Active(p) \/ \E r \in InProgress' : PortOf(r)' = p
    BY <2>1, <2>5, <2>6 DEF Active
  <2>11. PortOf(h) \in Ports
    BY <2>1, <2>2 DEF PortOf, RequestOf, TaskType
  <2>12. table' = Command(h, PortOf(h)', HasData(h)') /\ fis'[PortOf(h)'] = "none"
    BY <2>1, <2>6, <2>11 DEF Registers
  <2>13. Begin({h})
    BY <2>1, <2>5, <2>8, <2>9, <2>10, <2>12 DEF Begin
  <2> QED
    BY <2>1, <2>13
<1>6. CASE StartTaskFails
  <2>1. DestroyAsynTaskList /\ UNCHANGED <<call, issued, hba, table>> /\ routine = "next"
    BY <1>6 DEF StartTaskFails, controller
  <2>2. \A t \in DOMAIN task : ~task[t].started
    BY <1>6, <1>t DEF StartTaskFails, Inv, Heads
  <2>3. DOMAIN task' = {} /\ routine' = "idle"
    BY <2>1, Destroyed DEF Inv, DestroyAsynTaskList
  <2>4. InProgress' = InProgress
    BY <2>1, <2>2, <2>3 DEF InProgress
  <2>5. InProgress \subseteq {Call}
    BY <2>1, <2>2 DEF InProgress
  <2>6. Keeps(InProgress)
    BY <2>1, <2>5 DEF Keeps, PortOf, HasData, RequestOf
  <2>7. happened \subseteq happened' /\ (mapped' = mapped \/ "short" \in happened')
        /\ mapped \subseteq mapped'
    BY <1>6 DEF StartTaskFails, CannotMap, Happens
  <2>8. Begin({})
    BY <2>1, <2>4, <2>6, <2>7 DEF Begin, Active
  <2> QED
    BY <2>7, <2>8
\* The first task ends, and the others are not in progress.
<1>h. ASSUME list # <<>>, Exit(Head(list)), RemoveTask \/ DestroyAsynTaskList, UNCHANGED call
      PROVE  Goal
  <2> DEFINE h == Head(list)
  <2>1. h \in DOMAIN task /\ h # Call /\ task[h] \in TaskType
    BY <1>h, <1>t DEF Inv, Numbered
  <2>2. PortOf(h) \in Ports
    BY <2>1 DEF PortOf, RequestOf, TaskType
  <2>3. routine' \in {"next", "idle"} /\ \A t \in DOMAIN task' : ~task'[t].started
    <3>1. CASE RemoveTask
      BY <1>h, <3>1, Removed DEF Inv, Heads, RemoveTask
    <3>2. CASE DestroyAsynTaskList
      BY <3>2, Destroyed DEF Inv, DestroyAsynTaskList
    <3> QED
      BY <1>h, <3>1, <3>2
  <2>4. InProgress' = InProgress \ {h}
    <3>1. InProgress \subseteq {h, Call}
      BY DEF InProgress, Inv, Heads
    <3>2. InProgress' \subseteq {Call} /\ (Call \in InProgress' <=> Call \in InProgress)
      BY <1>h, <1>t, <2>1, <2>3 DEF InProgress
    <3> QED
      BY <2>1, <3>1, <3>2
  <2>5. InProgress \ {h} \subseteq {Call}
    BY DEF InProgress, Inv, Heads
  <2>6. Keeps(InProgress \ {h})
    BY <1>h, <2>5 DEF Keeps, PortOf, HasData, RequestOf
  <2>7. End(h) /\ happened \subseteq happened'
    <3>1. /\ mapped' = mapped \ {h} /\ happened \subseteq happened' /\ UNCHANGED table
          /\ \/ "hung" \in happened'
             \/ /\ \A q \in Ports : q = PortOf(h) => ~Active(q)'
                /\ \A p \in Ports : Active(p)' => Active(p)
      BY <1>h, <2>2, ExitEnds
    <3> QED
      BY <2>2, <2>4, <2>6, <3>1 DEF End
  <2> QED
    BY <2>7
<1>7. CASE PollFinds
  BY <1>7, <1>h DEF PollFinds, Polls
<1>8. CASE PollFails
  BY <1>8, <1>h DEF PollFails, Polls
<1>9. CASE WaitFinds
  BY <1>9, <1>h DEF WaitFinds, Inv, Heads
<1>10. CASE WaitFails
  BY <1>10, <1>h DEF WaitFails, Inv, Heads
<1>11. CASE NotReady
  <2> PICK t \in DOMAIN task :
        /\ Polls(t)
        /\ task' = [task EXCEPT ![t].retry = IF InfiniteWait(t) THEN @ ELSE @ - 1]
    BY <1>11 DEF NotReady
  <2>1. /\ UNCHANGED <<list, call, issued, hba, mapped, happened, table>>
        /\ routine # "wait" /\ routine' = "idle"
    BY <1>11 DEF NotReady, Polls, controller
  <2>2. task[t] \in TaskType
    BY DEF Inv, Numbered
  <2>3. /\ DOMAIN task' = DOMAIN task
        /\ \A u \in DOMAIN task : /\ task'[u].started = task[u].started
                                  /\ task'[u].port = task[u].port
                                  /\ task'[u].packet = task[u].packet
    BY <2>2 DEF TaskType
  <2>4. InProgress' = InProgress
    BY <2>1, <2>3 DEF InProgress
  <2>5. \A r \in InProgress : r = Call \/ r \in DOMAIN task
    BY <2>1 DEF InProgress
  <2>6. Keeps(InProgress)
    BY <2>1, <2>3, <2>5 DEF Keeps, PortOf, HasData, RequestOf
  <2>7. Begin({})
    BY <2>1, <2>4, <2>6 DEF Begin, Active
  <2> QED
    BY <2>1, <2>7
\* The tasks that are in progress keep their port and packet when they do.
<1>k. ASSUME UNCHANGED task, UNCHANGED list, UNCHANGED routine
      PROVE  Keeps(InProgress \ {Call})
  <2>1. \A r \in InProgress \ {Call} : r # Call
    OBVIOUS
  <2> QED
    BY <1>k, <2>1 DEF Keeps, PortOf, HasData, RequestOf
<1>12. CASE StartCall \/ Drain \/ BuildCallFails
  <2>1. /\ UNCHANGED <<task, list, issued, hba, table>> /\ happened \subseteq happened'
        /\ mapped' = mapped \/ "short" \in happened'
        /\ mapped \subseteq mapped'
    BY <1>12 DEF StartCall, Drain, BuildCallFails, CannotMap, HappensIf, Happens, controller
  <2>2. Call \notin InProgress
    BY <1>12, <1>t DEF StartCall, Drain, BuildCallFails, InProgress, Inv, Heads
  <2>3. InProgress' = InProgress
    <3>1. CASE StartCall
      BY <3>1 DEF StartCall, InProgress, AtNotify
    <3>2. CASE Drain
      <4>1. list = <<>> => call' = [call EXCEPT !.pc = "start"]
        BY <3>2 DEF Drain, Goto
      <4>2. call \in CallType
        BY <3>2, IdleIs DEF Drain, Inv, Places
      <4>3. call' = call \/ call'.pc = "start"
        BY <3>2, <4>1, <4>2 DEF Drain, CallType
      <4> QED
        BY <3>2, <4>2, <4>3 DEF Drain, InProgress
    <3>3. CASE BuildCallFails
      BY <3>3 DEF BuildCallFails, InProgress, AtNotify, Idle
    <3> QED
      BY <1>12, <3>1, <3>2, <3>3
  <2>4. Keeps(InProgress)
    BY <2>1, <2>2 DEF Keeps, PortOf, HasData, RequestOf
  <2>5. Begin({})
    BY <2>1, <2>3, <2>4 DEF Begin, Active
  <2> QED
    BY <2>1, <2>5
<1>13. CASE BuildCall
  <2>1. /\ UNCHANGED <<task, list, routine, issued, hba, happened>>
        /\ call \in CallType /\ call # Idle /\ call.pc = "start" /\ Goto("issue")
        /\ mapped' = IF HasData(Call) THEN mapped \cup {Call} ELSE mapped
        /\ fis' = [fis EXCEPT ![PortOf(Call)] = "none"]
        /\ table' = Command(Call, PortOf(Call), HasData(Call)) /\ UNCHANGED done
    BY <1>13, IdleIs DEF BuildCall, Map, AhciBuildCommand, Inv, Places
  <2>2. /\ call' # Idle /\ call'.pc = "issue"
        /\ call'.packet = call.packet /\ call'.port = call.port
    BY <2>1, CallSteps DEF Inv, CallPcs
  <2>3. InProgress' = InProgress \cup {Call} /\ Call \notin InProgress
    BY <1>t, <2>1, <2>2 DEF InProgress, Inv, Heads
  <2>4. HasData(Call)' = HasData(Call) /\ PortOf(Call)' = PortOf(Call) /\ PortOf(Call) \in Ports
    BY <2>1, <2>2 DEF HasData, PortOf, RequestOf, CallType
  <2>5. Keeps(InProgress)
    BY <1>k, <2>1, <2>3
  <2>6. mapped' = mapped \cup {r \in {Call} : HasData(r)'}
    BY <2>1, <2>4
  <2>7. table' = Command(Call, PortOf(Call)', HasData(Call)') /\ fis'[PortOf(Call)'] = "none"
    BY <2>1, <2>4 DEF Registers
  <2>8. Begin({Call})
    BY <2>1, <2>3, <2>5, <2>6, <2>7 DEF Begin, Active
  <2> QED
    BY <2>1, <2>8
<1>14. CASE IssueCall \/ WaitCall
  <2>1. /\ UNCHANGED <<task, list, routine, hba, mapped, happened, table>>
        /\ call \in CallType /\ call # Idle /\ call.pc \in {"issue", "wait"}
        /\ issued' = issued \/ issued' = issued \cup {PortOf(Call)}
    BY <1>14, IdleIs DEF IssueCall, WaitCall, AhciStartCommand, controller, Inv, Places
  <2>2. /\ call' # Idle /\ call'.pc \in {"wait", "end"}
        /\ call'.packet = call.packet /\ call'.port = call.port
    <3>1. CASE IssueCall
      BY <2>1, <3>1, CallSteps DEF IssueCall, Inv, CallPcs
    <3>2. CASE WaitCall
      BY <2>1, <3>2 DEF WaitCall, CallType, Idle
    <3> QED
      BY <1>14, <3>1, <3>2
  <2>3. InProgress' = InProgress /\ Call \in InProgress
    BY <2>1, <2>2 DEF InProgress
  <2>4. PortOf(Call)' = PortOf(Call) /\ HasData(Call)' = HasData(Call)
    BY <2>2 DEF PortOf, HasData, RequestOf
  <2>5. Keeps(InProgress)
    BY <1>k, <2>1, <2>4 DEF Keeps
  <2>6. \A p \in Ports : Active(p)' => Active(p) \/ \E r \in InProgress' : PortOf(r)' = p
    BY <2>1, <2>3, <2>4 DEF Active
  <2>7. Begin({})
    BY <2>1, <2>3, <2>5, <2>6 DEF Begin
  <2> QED
    BY <2>1, <2>7
<1>15. CASE EndCall
  <2>1. /\ UNCHANGED <<task, list, routine>> /\ Exit(Call) /\ call' = Idle
        /\ call \in CallType
    BY <1>15, IdleIs DEF EndCall, Inv, Places
  <2>2. InProgress' = InProgress \ {Call}
    BY <1>t, <2>1 DEF InProgress, Inv, Heads
  <2>3. PortOf(Call) \in Ports
    BY <2>1 DEF PortOf, RequestOf, CallType
  <2>4. /\ mapped' = mapped \ {Call} /\ happened \subseteq happened' /\ UNCHANGED table
        /\ \/ "hung" \in happened'
           \/ /\ \A q \in Ports : q = PortOf(Call) => ~Active(q)'
              /\ \A p \in Ports : Active(p)' => Active(p)
    BY <2>1, <2>3, ExitEnds
  <2>5. Keeps(InProgress \ {Call})
    BY <1>k, <2>1
  <2> QED
    BY <2>2, <2>3, <2>4, <2>5 DEF End
<1>16. CASE StopTasks
  <2>1. CASE list # <<>>
    BY <1>16, <2>1 DEF StopTasks, HappensIf, Happens
  <2>2. CASE list = <<>>
    <3>1. DOMAIN task = {} /\ DOMAIN task' = {} /\ routine = "idle" /\ call = Idle
          /\ UNCHANGED <<issued, hba, mapped, happened, routine, call, table>>
      BY <1>16, <1>t, <2>2 DEF StopTasks, AtNotify, HappensIf, controller
    <3>2. InProgress = {} /\ InProgress' = {}
      BY <3>1 DEF InProgress
    <3>3. Begin({})
      BY <3>1, <3>2 DEF Begin, Active, Keeps
    <3> QED
      BY <3>1, <3>3
  <2> QED
    BY <2>1, <2>2
<1>17. CASE FreeRegisters \/ DisableDevice
  BY <1>17, <1>s DEF FreeRegisters, DisableDevice, Active, controller
<1>18. CASE Ahci
  <2>1. UNCHANGED <<task, list, routine, mapped, call, table>> /\ happened \subseteq happened'
    BY <1>18 DEF Ahci, Fetch, Complete
  <2>2. \A p \in Ports : Active(p)' => Active(p)
    <3>1. CASE Fetch
      BY <3>1 DEF Fetch, Active
    <3>2. CASE Complete
      BY <3>2 DEF Complete, Active
    <3> QED
      BY <1>18, <3>1, <3>2 DEF Ahci
  <2> QED
    BY <2>1, <2>2, <1>s
<1> QED
  BY <1>1, <1>2, <1>3, <1>5, <1>6, <1>7, <1>8, <1>9, <1>10, <1>11, <1>12, <1>13, <1>14, <1>15,
     <1>16, <1>17, <1>18 DEF Next, Routine, BlockingCall, Stop

\* The full invariant.
FullInv == Inv /\ Registers /\ MappedInProgress /\ QuietBetween

\* Nothing is in progress to begin with.
LEMMA FullInvInit == Init => FullInv
<1> SUFFICES ASSUME Init PROVE FullInv
  OBVIOUS
<1>1. InProgress = {} /\ mapped = {}
  BY DEF Init, InProgress, Idle
<1>2. \A p \in Ports : p \notin issued /\ hba[p] = NoCommand
  BY DEF Init
<1> QED
  BY <1>1, <1>2, InvInit, HbaInit DEF FullInv, MappedInProgress, QuietBetween

\* Requests that begin or end take their buffer and their command with them.
LEMMA FullInvNext == FullInv /\ [Next]_vars => FullInv'
<1> SUFFICES ASSUME FullInv, [Next]_vars PROVE FullInv'
  OBVIOUS
<1>1. Inv' /\ Registers'
  BY InvNext, HbaNext DEF FullInv
<1>2. CASE UNCHANGED vars
  BY <1>1, <1>2 DEF vars, FullInv, MappedInProgress, QuietBetween, Sound, InProgress, HasData,
                    PortOf, RequestOf
<1>3. CASE Next
  <2>1. /\ happened \subseteq happened'
        /\ (\E S : Begin(S)) \/ (\E h : End(h)) \/ "abandoned" \in happened'
    BY <1>3, Steps DEF FullInv
  <2>2. MappedInProgress'
    <3> SUFFICES ASSUME Sound({"short", "abandoned"})'
                 PROVE  mapped' = {r \in InProgress' : HasData(r)'}
      BY DEF MappedInProgress
    <3>1. Sound({"short", "abandoned"}) /\ "abandoned" \notin happened' /\ "short" \notin happened'
      BY <2>1 DEF Sound
    <3>2. mapped = {r \in InProgress : HasData(r)}
      BY <3>1 DEF FullInv, MappedInProgress
    <3>3. ASSUME NEW S, Begin(S) PROVE mapped' = {r \in InProgress' : HasData(r)'}
      BY <3>1, <3>2, <3>3 DEF Begin, Keeps
    <3>4. ASSUME NEW h, End(h) PROVE mapped' = {r \in InProgress' : HasData(r)'}
      BY <3>2, <3>4 DEF End, Keeps
    <3> QED
      BY <2>1, <3>1, <3>3, <3>4
  <2>3. QuietBetween'
    <3> SUFFICES ASSUME Sound({"hung", "abandoned"})', NEW p \in Ports, Active(p)'
                 PROVE  \E r \in InProgress' : PortOf(r)' = p
      BY DEF QuietBetween, Active
    <3>1. Sound({"hung", "abandoned"}) /\ "abandoned" \notin happened' /\ "hung" \notin happened'
      BY <2>1 DEF Sound
    <3>2. Active(p) => \E r \in InProgress : PortOf(r) = p
      BY <3>1 DEF FullInv, QuietBetween, Active
    <3>3. ASSUME NEW S, Begin(S) PROVE \E r \in InProgress' : PortOf(r)' = p
      BY <3>2, <3>3 DEF Begin, Keeps
    <3>4. ASSUME NEW h, End(h) PROVE \E r \in InProgress' : PortOf(r)' = p
      <4>1. Active(p) /\ p # PortOf(h)
        BY <3>1, <3>4 DEF End
      <4> QED
        BY <3>2, <3>4, <4>1 DEF End, Keeps
    <3> QED
      BY <2>1, <3>1, <3>3, <3>4
  <2> QED
    BY <1>1, <2>2, <2>3 DEF FullInv
<1> QED
  BY <1>2, <1>3

\* A data buffer is mapped just while its request is in progress.
THEOREM MappedWhileInProgress == Spec => []MappedInProgress
<1>1. FullInv => MappedInProgress
  BY DEF FullInv
<1> QED
  BY <1>1, FullInvInit, FullInvNext, PTL DEF Spec

\* The controller has a command only on the port of a request in progress.
THEOREM QuietOtherwise == Spec => []QuietBetween
<1>1. FullInv => QuietBetween
  BY DEF FullInv
<1> QED
  BY <1>1, FullInvInit, FullInvNext, PTL DEF Spec

-----------------------------------------------------------------------------
(***************************************************************************)
(* What is told is real: the command in the table is that of the one       *)
(* request in progress, and its FIS tells what became of it.               *)
(***************************************************************************)

\* Nothing runs once the driver is stopped; a task that is polled is started.
Stages ==
    /\ driver # "on" => call = Idle /\ routine = "idle" /\ list = <<>>
    /\ "abandoned" \in happened => driver # "on"
    /\ routine = "poll" => list # <<>> /\ task[Head(list)].started

\* It is so to begin with.
LEMMA StagesInit == Init => Stages
  BY DEF Init, Stages

\* Each action keeps it.
LEMMA StagesNext == Inv /\ Stages /\ [Next]_vars => Stages'
<1> SUFFICES ASSUME Inv, Stages, [Next]_vars PROVE Stages'
  OBVIOUS
<1>0. Retries \in Nat \ {0}
  BY TasksAssumption
<1>a. \A m \in {"mixed", "hung", "short"}, b \in BOOLEAN :
        Happens(m) \/ HappensIf(m, b) => ("abandoned" \in happened' <=> "abandoned" \in happened)
  BY DEF Happens, HappensIf
<1>x. \A r : Exit(r) => ("abandoned" \in happened' <=> "abandoned" \in happened)
  BY <1>a DEF Exit, Stopped
\* The routine is not at a task, and the driver runs.
<1>n. ASSUME driver = "on", UNCHANGED driver, routine' # "poll",
             "abandoned" \in happened' <=> "abandoned" \in happened
      PROVE  Stages'
  BY <1>n DEF Stages
<1>e. ASSUME NEW p \in Ports, NEW x \in Packets, Enqueue(p, x), UNCHANGED <<routine, driver>>,
             ~AtNotify
      PROVE  Stages'
  <2>1. driver = "on" /\ routine' # "poll"
    BY <1>e DEF Enqueue, AtNotify
  <2> QED
    BY <1>a, <1>e, <1>n, <2>1 DEF Enqueue
<1>1. CASE Queue
  BY <1>1, <1>e DEF Queue
<1>2. CASE Callback
  <2>1. CASE UNCHANGED <<task, list, happened>>
    BY <1>2, <2>1 DEF Callback, Stages
  <2> QED
    BY <1>2, <2>1, <1>e DEF Callback
<1>3. CASE Timer
  BY <1>3, <1>n DEF Timer
<1>4. CASE Routine
  <2>1. driver = "on" /\ UNCHANGED driver
    BY <1>4 DEF Stages, Routine, NoTask, StartTask, StartTaskFails, PollFinds, PollFails, NotReady,
                WaitFinds, WaitFails, Polls
  <2>2. CASE StartTask
    <3>1. Head(list) \in DOMAIN task /\ list # <<>> /\ UNCHANGED <<list, happened>>
          /\ task' = [task EXCEPT ![Head(list)].started = IsDma(Head(list))]
          /\ routine' = IF IsDma(Head(list)) THEN "poll" ELSE "wait"
      BY <2>2, HeadIsTask DEF StartTask, Inv
    <3>2. task[Head(list)] \in TaskType
      BY <3>1 DEF Inv, Numbered
    <3>3. task'[Head(list)].started = IsDma(Head(list))
      BY <3>1, <3>2 DEF TaskType
    <3> QED
      BY <2>1, <3>1, <3>3 DEF Stages
  <2>3. CASE ~StartTask
    <3>1. routine' # "poll"
      BY <1>4, <2>3 DEF Routine, NoTask, StartTaskFails, PollFinds, PollFails, NotReady, WaitFinds,
                        WaitFails, RemoveTask, DestroyAsynTaskList
    <3>2. "abandoned" \in happened' <=> "abandoned" \in happened
      BY <1>4, <2>3, <1>a, <1>x DEF Routine, NoTask, StartTaskFails, CannotMap, PollFinds,
                                    PollFails, NotReady, WaitFinds, WaitFails
    <3> QED
      BY <1>n, <2>1, <3>1, <3>2
  <2> QED
    BY <2>2, <2>3
<1>5. CASE StartCall
  <2>1. driver = "on" /\ UNCHANGED <<driver, routine>> /\ routine # "poll"
    BY <1>5 DEF StartCall, AtNotify
  <2> QED
    BY <1>5, <1>a, <1>n, <2>1 DEF StartCall
<1>6. CASE BlockingCall
  <2>1. driver = "on" /\ UNCHANGED driver
    BY <1>6, IdleIs DEF Stages, BlockingCall, Drain, BuildCall, BuildCallFails, IssueCall, WaitCall,
                        EndCall
  <2>2. routine' # "poll"
    BY <1>6 DEF BlockingCall, Drain, BuildCall, BuildCallFails, IssueCall, WaitCall, EndCall,
                AtNotify
  <2>3. "abandoned" \in happened' <=> "abandoned" \in happened
    BY <1>6, <1>a, <1>x DEF BlockingCall, Drain, BuildCall, BuildCallFails, CannotMap, IssueCall,
                            WaitCall, EndCall
  <2> QED
    BY <1>n, <2>1, <2>2, <2>3
<1>7. CASE Stop
  BY <1>7 DEF Stop, StopTasks, FreeRegisters, DisableDevice, AtNotify, Stages
<1>8. CASE Ahci
  <2>1. /\ UNCHANGED <<task, list, call, routine, driver>>
        /\ "abandoned" \in happened' <=> "abandoned" \in happened
    BY <1>8 DEF Ahci, Fetch, Complete
  <2> QED
    BY <2>1 DEF Stages
<1>9. CASE UNCHANGED vars
  BY <1>9 DEF vars, Stages
<1> QED
  BY <1>1, <1>2, <1>3, <1>4, <1>5, <1>6, <1>7, <1>8, <1>9 DEF Next

\* Only one request is in progress, if commands are not mixed.
Single == "mixed" \notin happened => \A r, s \in InProgress : r = s

\* The blocking command is in progress only while there is one.
Upright == Call \in InProgress => call # Idle

\* Both are so.
LEMMA SingleUpright == Inv => Single /\ Upright
<1> SUFFICES ASSUME Inv PROVE Single /\ Upright
  OBVIOUS
<1>1. /\ \A t \in DOMAIN task : t # Call
      /\ list = <<>> => DOMAIN task = {}
      /\ list # <<>> => Head(list) # Call
  BY TasksAreTasks DEF Inv
<1>2. \A r \in InProgress : (list # <<>> /\ r = Head(list)) \/ (r = Call /\ Busy)
  BY <1>1 DEF Inv, Heads, Busy, InProgress
<1>3. Single
  BY <1>2 DEF Inv, Alone, Single
<1>4. Upright
  BY <1>1, <1>2 DEF Busy, Upright
<1> QED
  BY <1>3, <1>4

\* A request in progress has a port.
LEMMA ProgressHasPort ==
  ASSUME Inv
  PROVE  \A r \in InProgress :
            /\ PortOf(r) \in Ports /\ HasData(r) \in BOOLEAN
            /\ (r \in DOMAIN task /\ r \in Tasks /\ r # Call) \/ (r = Call /\ call # Idle)
<1> SUFFICES ASSUME NEW r \in InProgress
             PROVE  /\ PortOf(r) \in Ports /\ HasData(r) \in BOOLEAN
                    /\ \/ r \in DOMAIN task /\ r \in Tasks /\ r # Call
                       \/ r = Call /\ call # Idle
  OBVIOUS
<1>1. r \in DOMAIN task \/ (r = Call /\ call # Idle)
  BY HeadIsTask DEF Inv, Heads, InProgress
<1>2. \A t \in DOMAIN task : t \in Tasks /\ t # Call /\ task[t] \in TaskType
  BY TasksAreTasks DEF Inv, Numbered
<1>3. HasData(r) \in BOOLEAN
  BY DEF HasData
<1>4. CASE r \in DOMAIN task
  BY <1>2, <1>3, <1>4 DEF PortOf, RequestOf, TaskType
<1>5. CASE r = Call /\ call # Idle
  BY <1>3, <1>5 DEF PortOf, RequestOf, CallType, Inv, Places
<1> QED
  BY <1>1, <1>4, <1>5

\* What each step does to the FIS and the outcomes.
LEMMA Outcomes ==
  ASSUME Inv, Next
  PROVE  \/ UNCHANGED <<fis, done>>
         \/ UNCHANGED done /\ \E p : fis' = [fis EXCEPT ![p] = "none"]
         \/ Complete
         \/ UNCHANGED fis /\ done' = done \ {Call} /\ call' = Idle
<1>1. CASE Routine
  <2>1. CASE StartTask
    BY <2>1 DEF StartTask, AhciBuildCommand
  <2> QED
    BY <1>1, <2>1 DEF Routine, NoTask, StartTaskFails, PollFinds, PollFails, NotReady,
                      WaitFinds, WaitFails, Exit, controller
<1>2. CASE BlockingCall
  <2>1. CASE BuildCall
    BY <2>1 DEF BuildCall, AhciBuildCommand
  <2> QED
    BY <1>2, <2>1 DEF BlockingCall, Drain, BuildCallFails, IssueCall, WaitCall, EndCall, Exit,
                      controller
<1>3. CASE Queue \/ Callback \/ Timer \/ StartCall \/ Stop
  BY <1>3 DEF Queue, Callback, Timer, StartCall, Stop, StopTasks, FreeRegisters, DisableDevice,
              controller
<1>4. CASE Ahci
  BY <1>4 DEF Ahci, Fetch
<1> QED
  BY <1>1, <1>2, <1>3, <1>4 DEF Next

\* What the controller has is stopped, kept or the command of the table.
LEMMA HbaSteps ==
  ASSUME Registers, Next
  PROVE  \A p \in Ports : hba'[p] \in {hba[p], NoCommand, table}
<1>x. ASSUME NEW r, Exit(r) PROVE \A p \in Ports : hba'[p] \in {hba[p], NoCommand, table}
  BY <1>x DEF Exit, Stopped, Registers
<1>1. CASE Routine
  BY <1>1, <1>x DEF Routine, NoTask, StartTask, StartTaskFails, PollFinds, PollFails, NotReady,
                    WaitFinds, WaitFails, controller
<1>2. CASE BlockingCall
  BY <1>2, <1>x DEF BlockingCall, Drain, BuildCall, BuildCallFails, IssueCall, WaitCall, EndCall,
                    controller
<1>3. CASE Queue \/ Callback \/ Timer \/ StartCall \/ Stop
  BY <1>3 DEF Queue, Callback, Timer, StartCall, Stop, StopTasks, FreeRegisters, DisableDevice,
              controller
<1>4. CASE Ahci
  BY <1>4 DEF Ahci, Fetch, Complete, Registers
<1> QED
  BY <1>1, <1>2, <1>3, <1>4 DEF Next

\* The table is that of the request in progress, the controller has no other
\* command, and the FIS says so only if the command was executed.
Real ==
    Sound({"mixed", "hung", "abandoned"}) =>
        /\ \A r \in InProgress : table = Command(r, PortOf(r), HasData(r))
        /\ \A r \in InProgress : Succeeded(PortOf(r)) => r \in done
        /\ \A p \in Ports : hba[p] # NoCommand => hba[p] = table

\* It is so to begin with.
LEMMA RealInit == Init => Real
<1> SUFFICES ASSUME Init PROVE Real
  OBVIOUS
<1>1. InProgress = {} /\ \A p \in Ports : hba[p] = NoCommand
  BY DEF Init, InProgress, Idle
<1> QED
  BY <1>1 DEF Real

\* A command that the controller ends is that of the request in progress.
LEMMA RealComplete ==
  ASSUME FullInv, Real, Complete
  PROVE  Real'
<1>1. happened \subseteq happened' /\ UNCHANGED <<task, list, call, routine, table>>
  BY DEF Complete
<1>2. InProgress' = InProgress
  BY <1>1 DEF InProgress
<1>3. \A r : PortOf(r)' = PortOf(r) /\ HasData(r)' = HasData(r)
  BY <1>1 DEF PortOf, HasData, RequestOf
<1> SUFFICES ASSUME Sound({"mixed", "hung", "abandoned"})'
             PROVE  /\ \A r \in InProgress : Succeeded(PortOf(r))' => r \in done'
                    /\ \A p \in Ports : hba'[p] # NoCommand => hba'[p] = table
  <2>1. Sound({"mixed", "hung", "abandoned"})' => Sound({"mixed", "hung", "abandoned"})
    BY <1>1 DEF Sound
  <2> QED
    BY <1>1, <1>2, <1>3, <2>1 DEF Real
<1>4. /\ \A r \in InProgress : table = Command(r, PortOf(r), HasData(r))
      /\ \A r \in InProgress : Succeeded(PortOf(r)) => r \in done
      /\ \A p \in Ports : hba[p] # NoCommand => hba[p] = table
  BY <1>1 DEF Real, Sound
<1> PICK q \in Ports, e \in BOOLEAN :
      /\ hba[q] # NoCommand
      /\ hba' = [hba EXCEPT ![q] = NoCommand]
      /\ fis' = [fis EXCEPT ![q] = IF e THEN "error" ELSE "success"]
      /\ done' = IF ~e /\ hba[q] = table /\ hba[q].port = q THEN done \cup {hba[q].of} ELSE done
  BY DEF Complete
<1>5. ASSUME NEW r \in InProgress, Succeeded(PortOf(r))' PROVE r \in done'
  <2>1. fis'[PortOf(r)] = "success"
    BY <1>3, <1>5 DEF Succeeded
  <2>2. CASE PortOf(r) # q
    BY <1>4, <2>1, <2>2 DEF Succeeded
  <2>3. CASE PortOf(r) = q
    <3>1. ~e
      BY <2>1, <2>3 DEF FullInv, Registers
    <3>2. hba[q] = table /\ table.of = r /\ table.port = q
      BY <1>4, <2>3 DEF Command
    <3> QED
      BY <3>1, <3>2
  <2> QED
    BY <2>2, <2>3
<1>6. \A p \in Ports : hba'[p] # NoCommand => hba'[p] = table
  BY <1>4 DEF FullInv, Registers
<1> QED
  BY <1>5, <1>6

\* Each action keeps it.
LEMMA RealNext == FullInv /\ Real /\ [Next]_vars => Real'
<1> SUFFICES ASSUME FullInv, Real, [Next]_vars PROVE Real'
  OBVIOUS
<1>1. CASE UNCHANGED vars
  BY <1>1 DEF vars, Real, Sound, InProgress, PortOf, HasData, RequestOf, Succeeded
<1>2. CASE Next /\ ~Complete
  <2>1. /\ happened \subseteq happened'
        /\ (\E S : Begin(S)) \/ (\E h : End(h)) \/ "abandoned" \in happened'
    BY <1>2, Steps DEF FullInv
  <2> SUFFICES ASSUME Sound({"mixed", "hung", "abandoned"})'
               PROVE  /\ \A r \in InProgress' : table' = Command(r, PortOf(r)', HasData(r)')
                      /\ \A r \in InProgress' : fis'[PortOf(r)'] = "success" => r \in done'
                      /\ \A p \in Ports : hba'[p] # NoCommand => hba'[p] = table'
    BY DEF Real, Succeeded
  <2>2. /\ "mixed" \notin happened' /\ "mixed" \notin happened
        /\ Sound({"hung", "abandoned"}) /\ "abandoned" \notin happened'
        /\ Sound({"mixed", "hung", "abandoned"})
    BY <2>1 DEF Sound
  <2>3. /\ \A r \in InProgress : table = Command(r, PortOf(r), HasData(r))
        /\ \A r \in InProgress : fis[PortOf(r)] = "success" => r \in done
        /\ \A p \in Ports : hba[p] # NoCommand => hba[p] = table
    BY <2>2 DEF Real, Succeeded
  \* No request begins: the table stays.
  <2>4. ASSUME UNCHANGED table, InProgress' \subseteq InProgress, Keeps(InProgress')
        PROVE  /\ \A r \in InProgress' : table' = Command(r, PortOf(r)', HasData(r)')
               /\ \A r \in InProgress' : fis'[PortOf(r)'] = "success" => r \in done'
               /\ \A p \in Ports : hba'[p] # NoCommand => hba'[p] = table'
    <3>1. \A r \in InProgress' : table' = Command(r, PortOf(r)', HasData(r)')
      BY <2>3, <2>4 DEF Keeps
    <3>2. \A p \in Ports : hba'[p] # NoCommand => hba'[p] = table'
      BY <1>2, <2>3, <2>4, HbaSteps DEF FullInv
    <3>3. ASSUME NEW r \in InProgress', fis'[PortOf(r)'] = "success" PROVE r \in done'
      <4>1. PortOf(r)' = PortOf(r) /\ PortOf(r) \in Ports /\ (fis[PortOf(r)] = "success" => r \in done)
        BY <2>3, <2>4, <3>3, ProgressHasPort DEF Keeps, FullInv
      <4>2. Inv'
        BY <1>2, InvNext DEF FullInv
      <4>3. r # Call \/ call' # Idle
        <5>1. Upright'
          BY <4>2, SingleUpright, PTL
        <5> QED
          BY <5>1 DEF Upright
      <4>4. CASE UNCHANGED <<fis, done>>
        BY <3>3, <4>1, <4>4
      <4>5. CASE UNCHANGED done /\ \E p : fis' = [fis EXCEPT ![p] = "none"]
        BY <3>3, <4>1, <4>5 DEF FullInv, Registers
      <4>6. CASE UNCHANGED fis /\ done' = done \ {Call} /\ call' = Idle
        BY <3>3, <4>1, <4>3, <4>6
      <4> QED
        BY <1>2, <4>4, <4>5, <4>6, Outcomes DEF FullInv
    <3> QED
      BY <3>1, <3>2, <3>3
  <2>5. ASSUME NEW h, End(h)
        PROVE  /\ \A r \in InProgress' : table' = Command(r, PortOf(r)', HasData(r)')
               /\ \A r \in InProgress' : fis'[PortOf(r)'] = "success" => r \in done'
               /\ \A p \in Ports : hba'[p] # NoCommand => hba'[p] = table'
    BY <2>4, <2>5 DEF End
  <2>6. ASSUME Begin({})
        PROVE  /\ \A r \in InProgress' : table' = Command(r, PortOf(r)', HasData(r)')
               /\ \A r \in InProgress' : fis'[PortOf(r)'] = "success" => r \in done'
               /\ \A p \in Ports : hba'[p] # NoCommand => hba'[p] = table'
    BY <2>4, <2>6 DEF Begin
  <2>7. ASSUME NEW S, NEW x \in S, Begin(S)
        PROVE  /\ \A r \in InProgress' : table' = Command(r, PortOf(r)', HasData(r)')
               /\ \A r \in InProgress' : fis'[PortOf(r)'] = "success" => r \in done'
               /\ \A p \in Ports : hba'[p] # NoCommand => hba'[p] = table'
    <3>1. Inv'
      BY <1>2, InvNext DEF FullInv
    <3>2. \A r, s \in InProgress' : r = s
      <4>1. Single'
        BY <3>1, SingleUpright, PTL
      <4> QED
        BY <2>2, <4>1 DEF Single
    <3>3. InProgress = {} /\ InProgress' = S /\ UNCHANGED hba
      BY <2>7, <3>2 DEF Begin
    <3>4. \A p \in Ports : hba[p] = NoCommand
      BY <2>2, <3>3 DEF FullInv, QuietBetween
    <3> QED
      BY <2>7, <3>3, <3>4 DEF Begin
  <2>8. ASSUME NEW S, Begin(S)
        PROVE  /\ \A r \in InProgress' : table' = Command(r, PortOf(r)', HasData(r)')
               /\ \A r \in InProgress' : fis'[PortOf(r)'] = "success" => r \in done'
               /\ \A p \in Ports : hba'[p] # NoCommand => hba'[p] = table'
    BY <2>6, <2>7, <2>8
  <2> QED
    BY <2>1, <2>2, <2>5, <2>8
<1>3. CASE Complete
  BY <1>3, RealComplete
<1> QED
  BY <1>1, <1>2, <1>3

\* The first task of the list is in progress, and its command was executed.
HeadSucceeded == Head(list) \in InProgress /\ Succeeded(PortOf(Head(list)))

\* The only task that is told a success is such a first task.
LEMMA LogSteps ==
  ASSUME Inv, Stages, Next
  PROVE  \A i \in 1..Len(log') : log'[i].told = "success" =>
            \/ i \in 1..Len(log) /\ log'[i] = log[i]
            \/ HeadSucceeded /\ UNCHANGED done /\ log'[i].task = Head(list)
<1> DEFINE Goal == \A i \in 1..Len(log') : log'[i].told = "success" =>
                      \/ i \in 1..Len(log) /\ log'[i] = log[i]
                      \/ HeadSucceeded /\ UNCHANGED done /\ log'[i].task = Head(list)
<1>0. log \in Seq(LogEntry) /\ list \in Seq(Tasks) /\ Len(log) \in Nat /\ Len(list) \in Nat
  BY LenProperties DEF Inv, Numbered
<1>t. list # <<>> => Head(list) \in Tasks
  BY HeadIsTask DEF Inv
<1>u. ASSUME UNCHANGED log PROVE Goal
  BY <1>u
<1>r. ASSUME RemoveTask, list # <<>>, HeadSucceeded, UNCHANGED done PROVE Goal
  <2> DEFINE e == [task |-> Head(list), told |-> "success"]
  <2>1. log' = log \o <<e>>
    <3>1. Len(<<Head(list)>>) = 1
      OBVIOUS
    <3>2. [i \in 1..Len(<<Head(list)>>) |-> [task |-> <<Head(list)>>[i], told |-> "success"]] = <<e>>
      BY <3>1
    <3> QED
      BY <1>r, <3>2 DEF RemoveTask, Tell
  <2>2. e \in LogEntry /\ e.task = Head(list)
    BY <1>r, <1>t DEF LogEntry
  <2>3. <<e>> \in Seq(LogEntry) /\ Len(<<e>>) = 1 /\ <<e>>[1] = e
    BY <2>2
  <2> HIDE DEF e
  <2>4. /\ Len(log') = Len(log) + 1
        /\ \A i \in 1..Len(log) : log'[i] = log[i]
        /\ log'[Len(log) + 1] = e
    BY <1>0, <2>1, <2>3, ConcatProperties
  <2>5. \A i \in 1..Len(log') : i \in 1..Len(log) \/ i = Len(log) + 1
    BY <1>0, <2>4
  <2> QED
    BY <1>r, <2>2, <2>4, <2>5
<1>d. ASSUME DestroyAsynTaskList PROVE Goal
  <2> DEFINE es == [i \in 1..Len(list) |-> [task |-> list[i], told |-> "error"]]
  <2>0. \A i \in 1..Len(list) : es[i].told = "error"
    OBVIOUS
  <2>1. es \in Seq(LogEntry) /\ Len(es) = Len(list)
    <3>1. \A i \in 1..Len(list) : list[i] \in Tasks
      BY <1>0, ElementOfSeq
    <3>2. es \in [1..Len(list) -> LogEntry]
      BY <3>1 DEF LogEntry
    <3> QED
      BY <1>0, <3>2
  <2>2. log' = log \o es
    BY <1>d DEF DestroyAsynTaskList, Tell
  <2> HIDE DEF es
  <2>3. /\ Len(log') = Len(log) + Len(list)
        /\ \A i \in 1..Len(log') : log'[i] = IF i <= Len(log) THEN log[i] ELSE es[i - Len(log)]
    <3> HIDE DEF Goal
    <3>1. log \in Seq(LogEntry)
      BY <1>0
    <3>2. /\ Len(log \o es) = Len(log) + Len(es)
          /\ \A i \in 1..Len(log) + Len(es) :
                (log \o es)[i] = IF i <= Len(log) THEN log[i] ELSE es[i - Len(log)]
      BY <2>1, <3>1, ConcatProperties
    <3> QED
      BY <2>1, <2>2, <3>2
  <2>4. \A i \in 1..Len(log') : i \in 1..Len(log) \/ (i > Len(log) /\ i - Len(log) \in 1..Len(list))
    <3>1. Len(log') = Len(log) + Len(list)
      BY <2>3
    <3> HIDE DEF Goal
    <3> QED
      BY <1>0, <3>1
  <2>5. ASSUME NEW i \in 1..Len(log'), log'[i].told = "success"
        PROVE  i \in 1..Len(log) /\ log'[i] = log[i]
    <3>1. CASE i \in 1..Len(log)
      BY <1>0, <2>3, <3>1
    <3>2. CASE i > Len(log) /\ i - Len(log) \in 1..Len(list)
      <4>1. log'[i] = es[i - Len(log)]
        BY <1>0, <2>3, <3>2
      <4> QED
        BY <2>0, <2>5, <3>2, <4>1
    <3> QED
      BY <2>4, <3>1, <3>2
  <2> QED
    BY <2>5
<1>1. CASE Routine
  <2>1. CASE PollFinds
    <3>1. PICK t \in DOMAIN task : Polls(t) /\ Succeeded(PortOf(t)) /\ RemoveTask
      BY <2>1 DEF PollFinds
    <3>2. HeadSucceeded
      BY <3>1 DEF Polls, Stages, HeadSucceeded, InProgress
    <3> QED
      BY <1>r, <2>1, <3>1, <3>2 DEF Polls, PollFinds
  <2>2. CASE WaitFinds
    BY <1>r, <2>2 DEF WaitFinds, HeadSucceeded, InProgress, Inv, Heads
  <2>3. CASE StartTaskFails \/ PollFails \/ WaitFails
    BY <1>d, <2>3 DEF StartTaskFails, PollFails, WaitFails
  <2>4. CASE NoTask \/ StartTask \/ NotReady
    BY <1>u, <2>4 DEF NoTask, StartTask, NotReady
  <2> QED
    BY <1>1, <2>1, <2>2, <2>3, <2>4 DEF Routine
<1>2. CASE ~Routine
  BY <1>2, <1>u DEF Next, Queue, Callback, Timer, StartCall, BlockingCall, Drain, BuildCall,
                    BuildCallFails, IssueCall, WaitCall, EndCall, Stop, StopTasks, FreeRegisters,
                    DisableDevice, Ahci, Fetch, Complete
<1> QED
  BY <1>1, <1>2

\* A blocking command is a success only once its FIS said so.
LEMMA CallSuccess ==
  ASSUME Inv, Next, call' # Idle, call'.status = "success"
  PROVE  \/ call # Idle /\ call.status = "success"
         \/ Call \in InProgress /\ Succeeded(PortOf(Call)) /\ UNCHANGED done
<1>1. CASE StartCall
  BY <1>1 DEF StartCall
<1>2. CASE BlockingCall
  <2>1. call # Idle /\ call \in CallType
    BY <1>2, IdleIs DEF BlockingCall, Drain, BuildCall, BuildCallFails, IssueCall, WaitCall, EndCall,
                        Inv, Places
  <2>2. CASE WaitCall
    <3>1. CASE Succeeded(PortOf(Call))
      BY <2>1, <2>2, <3>1 DEF WaitCall, InProgress
    <3>2. CASE call' = [call EXCEPT !.pc = "end", !.status = "error"]
      BY <2>1, <3>2 DEF CallType
    <3> QED
      BY <2>2, <3>1, <3>2 DEF WaitCall
  <2>3. ASSUME NEW pc, Goto(pc) PROVE call'.status = call.status
    BY <2>1, <2>3 DEF Goto, CallType
  <2> QED
    BY <1>2, <2>1, <2>2, <2>3 DEF BlockingCall, Drain, BuildCall, BuildCallFails, IssueCall, EndCall
<1>3. CASE ~StartCall /\ ~BlockingCall
  <2>1. UNCHANGED call
    BY <1>3 DEF Next, Queue, Callback, Timer, Routine, NoTask, StartTask, StartTaskFails, PollFinds,
                PollFails, NotReady, WaitFinds, WaitFails, Stop, StopTasks, FreeRegisters,
                DisableDevice, Ahci, Fetch, Complete
  <2> QED
    BY <2>1
<1> QED
  BY <1>1, <1>2, <1>3

\* The invariant of what is told.
ToldInv == FullInv /\ Stages /\ Real /\ SuccessIsReal

\* Nothing was told to begin with.
LEMMA ToldInit == Init => ToldInv
<1> SUFFICES ASSUME Init PROVE ToldInv
  OBVIOUS
<1>1. Len(log) = 0 /\ call = Idle
  BY DEF Init
<1> QED
  BY <1>1, FullInvInit, StagesInit, RealInit DEF ToldInv, SuccessIsReal

\* What is told from now on is real, and stays so.
LEMMA ToldNext == ToldInv /\ [Next]_vars => ToldInv'
<1> SUFFICES ASSUME ToldInv, [Next]_vars PROVE ToldInv'
  OBVIOUS
<1>1. FullInv' /\ Stages' /\ Real' /\ Inv'
  BY FullInvNext, StagesNext, RealNext DEF ToldInv, FullInv
<1>2. CASE UNCHANGED vars
  BY <1>1, <1>2 DEF vars, ToldInv, SuccessIsReal, Sound
<1>3. CASE Next
  <2> SUFFICES ASSUME Sound({"mixed", "hung"})'
               PROVE  /\ \A i \in 1..Len(log') : log'[i].told = "success" => log'[i].task \in done'
                      /\ call' # Idle /\ call'.status = "success" => Call \in done'
    BY <1>1 DEF ToldInv, SuccessIsReal
  <2>1. happened \subseteq happened'
    BY <1>3, Steps DEF ToldInv, FullInv
  <2>2. /\ Sound({"mixed", "hung"})
        /\ \A i \in 1..Len(log) : log[i].told = "success" => log[i].task \in done
        /\ call # Idle /\ call.status = "success" => Call \in done
    BY <2>1 DEF Sound, ToldInv, SuccessIsReal
  <2>3. \A r \in InProgress : Succeeded(PortOf(r)) => r \in done
    <3>1. CASE driver = "on"
      BY <2>2, <3>1 DEF ToldInv, Stages, Real, Sound
    <3>2. CASE driver # "on"
      <4>1. call = Idle /\ routine = "idle" /\ list = <<>>
        BY <3>2 DEF ToldInv, Stages
      <4>2. InProgress = {}
        BY <4>1, TasksAreTasks DEF InProgress, ToldInv, FullInv, Inv
      <4> QED
        BY <4>2
    <3> QED
      BY <3>1, <3>2
  \* What was executed stays so, but for a blocking command that returned.
  <2>4. \A r \in done : r \in done' \/ (r = Call /\ call' = Idle)
    <3>1. Complete => done \subseteq done'
      BY DEF Complete
    <3> QED
      BY <1>3, <3>1, Outcomes DEF ToldInv, FullInv
  <2>5. \A i \in 1..Len(log) : log[i].task # Call
    <3>1. Len(log) \in Nat /\ \A i \in 1..Len(log) : log[i].task = i
      BY LenProperties DEF ToldInv, FullInv, Inv, Numbered
    <3> QED
      BY <3>1 DEF Call
  <2>6. ASSUME NEW i \in 1..Len(log'), log'[i].told = "success" PROVE log'[i].task \in done'
    <3>1. \/ i \in 1..Len(log) /\ log'[i] = log[i]
          \/ HeadSucceeded /\ UNCHANGED done /\ log'[i].task = Head(list)
      BY <1>3, <2>6, LogSteps DEF ToldInv, FullInv
    <3> QED
      BY <2>2, <2>3, <2>4, <2>5, <2>6, <3>1 DEF HeadSucceeded
  <2>7. ASSUME call' # Idle, call'.status = "success" PROVE Call \in done'
    <3>1. \/ call # Idle /\ call.status = "success"
          \/ Call \in InProgress /\ Succeeded(PortOf(Call)) /\ UNCHANGED done
      BY <1>3, <2>7, CallSuccess DEF ToldInv, FullInv
    <3> QED
      BY <2>2, <2>3, <2>4, <2>7, <3>1
  <2> QED
    BY <2>6, <2>7
<1> QED
  BY <1>2, <1>3

\* So the invariant of what is told is that of every behaviour.
LEMMA SpecTold == Spec => []ToldInv
<1> QED
  BY ToldInit, ToldNext, PTL DEF Spec

\* What is told to be a success was executed by the device of its port on its
\* own data.
THEOREM SuccessWasExecuted == Spec => []SuccessIsReal
<1>1. ToldInv => SuccessIsReal
  BY DEF ToldInv
<1> QED
  BY <1>1, SpecTold, PTL

-----------------------------------------------------------------------------
(***************************************************************************)
(* What the controller does with memory, and the types.                    *)
(***************************************************************************)

\* Whatever happens, a request in progress has its buffer mapped, if only in part.
MappedEnough == \A r \in InProgress : HasData(r) => r \in mapped

\* Nothing is in progress to begin with.
LEMMA EnoughInit == Init => MappedEnough
<1> SUFFICES ASSUME Init PROVE MappedEnough
  OBVIOUS
<1>1. InProgress = {}
  BY DEF Init, InProgress, Idle
<1> QED
  BY <1>1 DEF MappedEnough

\* Nothing is in progress once the driver is stopped.
LEMMA StoppedIsQuiet == Inv /\ Stages => (driver # "on" => InProgress = {})
<1> SUFFICES ASSUME Inv, Stages, driver # "on" PROVE InProgress = {}
  OBVIOUS
<1>1. call = Idle /\ routine = "idle" /\ list = <<>>
  BY DEF Stages
<1> QED
  BY <1>1, TasksAreTasks DEF InProgress, Inv

\* Each action keeps it.
LEMMA EnoughNext == ToldInv /\ MappedEnough /\ [Next]_vars => MappedEnough'
<1> SUFFICES ASSUME ToldInv, MappedEnough, [Next]_vars PROVE MappedEnough'
  OBVIOUS
<1>1. CASE UNCHANGED vars
  BY <1>1 DEF vars, MappedEnough, InProgress, HasData, RequestOf
<1>2. CASE Next
  <2>1. (\E S : Begin(S)) \/ (\E h : End(h)) \/ "abandoned" \in happened'
    BY <1>2, Steps DEF ToldInv, FullInv
  <2>2. ASSUME NEW S, Begin(S) PROVE MappedEnough'
    BY <2>2 DEF Begin, Keeps, MappedEnough
  <2>3. ASSUME NEW h, End(h) PROVE MappedEnough'
    BY <2>3 DEF End, Keeps, MappedEnough
  <2>4. CASE "abandoned" \in happened'
    <3>1. Inv' /\ Stages'
      BY InvNext, StagesNext DEF ToldInv, FullInv
    <3>2. driver' # "on"
      BY <2>4, <3>1 DEF Stages
    <3>3. (driver # "on" => InProgress = {})'
      BY <3>1, StoppedIsQuiet, PTL
    <3> QED
      BY <3>2, <3>3 DEF MappedEnough
  <2> QED
    BY <2>1, <2>2, <2>3, <2>4
<1> QED
  BY <1>1, <1>2

\* Only a command that the controller ends may move data where it should not.
LEMMA StraySteps ==
  ASSUME Next, ~Complete, "stray" \in happened'
  PROVE  "stray" \in happened
<1>a. \A m \in Mishaps, b \in BOOLEAN :
        Happens(m) \/ HappensIf(m, b) => ("stray" \in happened' <=> "stray" \in happened)
  BY DEF Happens, HappensIf, Mishaps
<1>m. {"mixed", "hung", "short", "abandoned"} = Mishaps
  BY DEF Mishaps
<1>x. \A r : Exit(r) => ("stray" \in happened' <=> "stray" \in happened)
  BY <1>a, <1>m DEF Exit, Stopped
<1>1. CASE Queue \/ Callback \/ Timer \/ StartCall
  BY <1>1, <1>a, <1>m DEF Queue, Callback, Timer, StartCall, Enqueue
<1>2. CASE Routine
  BY <1>2, <1>a, <1>m, <1>x DEF Routine, NoTask, StartTask, StartTaskFails, CannotMap, PollFinds,
                                PollFails, NotReady, WaitFinds, WaitFails
<1>3. CASE BlockingCall
  BY <1>3, <1>a, <1>m, <1>x DEF BlockingCall, Drain, BuildCall, BuildCallFails, CannotMap,
                                IssueCall, WaitCall, EndCall
<1>4. CASE Stop \/ Fetch
  BY <1>4, <1>a, <1>m DEF Stop, StopTasks, FreeRegisters, DisableDevice, Fetch
<1> QED
  BY <1>1, <1>2, <1>3, <1>4 DEF Next, Ahci

\* The controller reads the table of the request in progress, whose buffer is mapped.
LEMMA StrayNext == ToldInv /\ MappedEnough /\ NoStray /\ [Next]_vars => NoStray'
<1> SUFFICES ASSUME ToldInv, MappedEnough, NoStray, [Next]_vars,
                    Sound({"mixed", "hung", "abandoned"})'
             PROVE  "stray" \notin happened'
  BY DEF NoStray
<1>1. CASE UNCHANGED vars
  BY <1>1 DEF vars, NoStray, Sound
<1>2. CASE Next /\ ~Complete
  <2>1. happened \subseteq happened'
    BY <1>2, Steps DEF ToldInv, FullInv
  <2>2. "stray" \notin happened
    BY <2>1 DEF NoStray, Sound
  <2> QED
    BY <1>2, <2>2, StraySteps
<1>3. CASE Complete
  <2> PICK p \in Ports, e \in BOOLEAN :
        /\ hba[p] # NoCommand
        /\ happened' = IF driver = "freed" \/ (~e /\ hba[p].data /\ table.of \notin mapped)
                       THEN happened \cup {"stray"} ELSE happened
    BY <1>3 DEF Complete
  <2>1. Sound({"mixed", "hung", "abandoned"}) /\ Sound({"hung", "abandoned"})
    BY DEF Sound
  <2>2. "stray" \notin happened
    BY <2>1 DEF NoStray
  <2>3. PICK r \in InProgress : PortOf(r) = p
    BY <2>1 DEF ToldInv, FullInv, QuietBetween
  <2>4. driver # "freed"
    BY <2>3, StoppedIsQuiet DEF ToldInv, FullInv
  <2>5. table = Command(r, p, HasData(r)) /\ hba[p] = table
    BY <2>1, <2>3 DEF ToldInv, Real
  <2>6. table.of = r /\ hba[p].data = HasData(r)
    BY <2>5 DEF Command
  <2>7. HasData(r) => r \in mapped
    BY <2>3 DEF MappedEnough
  <2> QED
    BY <2>2, <2>4, <2>6, <2>7
<1> QED
  BY <1>1, <1>2, <1>3

\* The types of the rest of the state.
Types ==
    /\ calls \in 0..MaxCalls
    /\ table \in Commands
    /\ issued \subseteq Ports
    /\ hba \in [Ports -> Commands]
    /\ fis \in [Ports -> {"none", "success", "error"}]
    /\ mapped \subseteq Requests
    /\ notify \subseteq Tasks
    /\ driver \in {"on", "stopping", "freed", "off"}
    /\ done \subseteq Requests
    /\ happened \subseteq Mishaps \cup {"stray"}

\* The initial state has them.
LEMMA TypesInit == Init => Types
<1> SUFFICES ASSUME Init PROVE Types
  OBVIOUS
<1>1. NoCommand \in Commands
  BY DEF Commands
<1> QED
  BY <1>1, TasksAssumption DEF Init, Types

\* Each action keeps them.
LEMMA TypesNext == Inv /\ Types /\ [Next]_vars => Types'
<1> SUFFICES ASSUME Inv, Types, [Next]_vars PROVE Types'
  OBVIOUS
<1> USE DEF Types
<1>a. \A m \in Mishaps, b \in BOOLEAN :
        Happens(m) \/ HappensIf(m, b) => happened' \subseteq Mishaps \cup {"stray"}
  BY DEF Happens, HappensIf
<1>m. {"mixed", "hung", "short", "abandoned"} \subseteq Mishaps
  BY DEF Mishaps
<1>n. NoCommand \in Commands
  BY DEF Commands
<1>r. Tasks \subseteq Requests /\ Call \in Requests
  BY DEF Requests
<1>h. list # <<>> => Head(list) \in Tasks /\ task[Head(list)] \in TaskType /\ Head(list) # Call
  BY HeadIsTask, TasksAreTasks DEF Inv, Numbered
\* A request, as its port and its packet are given.
<1>p. ASSUME NEW r \in Requests,
             (r \in Tasks /\ r # Call /\ task[r] \in TaskType) \/ (r = Call /\ call \in CallType)
      PROVE  PortOf(r) \in Ports /\ HasData(r) \in BOOLEAN
  <2>1. PortOf(r) \in Ports
    BY <1>p DEF PortOf, RequestOf, TaskType, CallType
  <2>2. HasData(r) \in BOOLEAN
    BY DEF HasData
  <2> QED
    BY <2>1, <2>2
<1>b. ASSUME NEW r \in Requests, PortOf(r) \in Ports, HasData(r) \in BOOLEAN, AhciBuildCommand(r)
      PROVE  table' \in Commands /\ fis' \in [Ports -> {"none", "success", "error"}]
  BY <1>b DEF AhciBuildCommand, Command, Commands
<1>x. ASSUME NEW r, Exit(r)
      PROVE  /\ issued' \subseteq Ports /\ hba' \in [Ports -> Commands] /\ mapped' \subseteq Requests
             /\ happened' \subseteq Mishaps \cup {"stray"} /\ UNCHANGED <<table, fis>>
  BY <1>a, <1>m, <1>n, <1>x DEF Exit, Stopped
<1>c. ASSUME NEW r \in Requests, CannotMap(r)
      PROVE  mapped' \subseteq Requests /\ happened' \subseteq Mishaps \cup {"stray"}
  BY <1>a, <1>c, <1>m DEF CannotMap
<1>1. CASE Queue \/ Callback \/ Timer
  BY <1>1, <1>a, <1>m DEF Queue, Callback, Timer, Enqueue, controller
<1>d. DestroyAsynTaskList => notify' \subseteq Tasks
  BY Destroyed DEF Inv
<1>2. CASE NoTask \/ NotReady
  BY <1>2 DEF NoTask, NotReady, controller
<1>3. CASE StartTask
  BY <1>3, <1>b, <1>h, <1>p, <1>r DEF StartTask, Map, AhciStartCommand
<1>4. CASE StartTaskFails
  BY <1>4, <1>c, <1>d, <1>h, <1>r DEF StartTaskFails, controller
<1>5. CASE PollFails \/ WaitFails
  BY <1>5, <1>d, <1>x DEF PollFails, WaitFails
<1>6. CASE PollFinds \/ WaitFinds
  <2>1. list # <<>> /\ RemoveTask
    BY <1>6 DEF PollFinds, WaitFinds, Polls, Inv, Heads
  <2>2. notify' \subseteq Tasks
    BY <1>h, <2>1, Removed DEF Inv
  <2> QED
    BY <1>6, <1>x, <2>2 DEF PollFinds, WaitFinds
<1>7. CASE StartCall
  <2>1. calls' \in 0..MaxCalls
    BY <1>7, TasksAssumption DEF StartCall
  <2>2. happened' \subseteq Mishaps \cup {"stray"}
    BY <1>7, <1>a, <1>m DEF StartCall
  <2> QED
    BY <1>7, <2>1, <2>2 DEF StartCall, controller
<1>k. call # Idle => call \in CallType
  BY DEF Inv, Places
<1>8. CASE Drain \/ WaitCall
  BY <1>8 DEF Drain, WaitCall, controller
<1>9. CASE BuildCall
  BY <1>9, <1>b, <1>k, <1>p, <1>r, IdleIs DEF BuildCall, Map
<1>10. CASE BuildCallFails
  BY <1>10, <1>c, <1>r DEF BuildCallFails, controller
<1>11. CASE IssueCall
  BY <1>11, <1>k, <1>p, <1>r, IdleIs DEF IssueCall, AhciStartCommand
<1>12. CASE EndCall
  BY <1>12, <1>x DEF EndCall
<1>13. CASE Stop
  BY <1>13, <1>a, <1>m DEF Stop, StopTasks, FreeRegisters, DisableDevice, controller
<1>14. CASE Fetch
  BY <1>14 DEF Fetch
<1>15. CASE Complete
  <2> PICK p \in Ports, e \in BOOLEAN :
        /\ hba[p] # NoCommand
        /\ hba' = [hba EXCEPT ![p] = NoCommand]
        /\ issued' = issued \ {p}
        /\ fis' = [fis EXCEPT ![p] = IF e THEN "error" ELSE "success"]
        /\ done' \subseteq done \cup {hba[p].of}
    BY <1>15 DEF Complete
  <2>1. hba[p].of \in Requests
    BY DEF Commands
  <2>2. happened' \subseteq Mishaps \cup {"stray"}
    BY <1>15 DEF Complete
  <2>3. UNCHANGED <<calls, table, mapped, notify, driver>>
    BY <1>15 DEF Complete
  <2> QED
    BY <1>n, <2>1, <2>2, <2>3
<1>16. CASE UNCHANGED vars
  BY <1>16 DEF vars
<1> QED
  BY <1>1, <1>2, <1>3, <1>4, <1>5, <1>6, <1>7, <1>8, <1>9, <1>10, <1>11, <1>12, <1>13, <1>14,
     <1>15, <1>16 DEF Next, Routine, BlockingCall, Ahci

\* Every variable has its type.
LEMMA TypesHold == Inv /\ Types => TypeOK
<1> SUFFICES ASSUME Inv, Types PROVE TypeOK
  OBVIOUS
<1>1. /\ DOMAIN task \subseteq Tasks
      /\ \A t \in DOMAIN task : task[t] \in TaskType
  BY TasksAreTasks DEF Inv, Numbered
<1>2. list \in Seq(DOMAIN task)
  <2>1. list \in Seq(Tasks) /\ Len(list) \in Nat
    BY LenProperties DEF Inv, Numbered
  <2>2. Range(list) = DOMAIN task
    <3>1. Len(log) \in Nat
      BY LenProperties DEF Inv, Numbered
    <3> QED
      BY <2>1, <3>1, RangeOfList DEF Inv, Numbered
  <2>3. \A i \in 1..Len(list) : list[i] \in DOMAIN task
    BY <2>1, <2>2, RangeEquality
  <2> QED
    BY <2>1, <2>3
<1> QED
  BY <1>1, <1>2 DEF TypeOK, Types, Inv, Numbered, Places, TaskType, CallType, LogEntry

\* The types are those of every behaviour, the controller has a command only for the
\* request in progress, and it moves data nowhere but to a mapped buffer.
THEOREM TasksAreSafe == Spec => []TasksInv
<1> DEFINE J == ToldInv /\ MappedEnough /\ NoStray /\ Types
<1>1. Init => J
  <2>1. Init => NoStray
    BY DEF Init, NoStray
  <2> QED
    BY <2>1, ToldInit, EnoughInit, TypesInit
<1>2. J /\ [Next]_vars => J'
  <2>1. ToldInv => Inv
    BY DEF ToldInv, FullInv
  <2> QED
    BY <2>1, ToldNext, EnoughNext, StrayNext, TypesNext
<1>3. J => TasksInv
  BY TypesHold DEF ToldInv, FullInv, TasksInv
<1> HIDE DEF J
<1> QED
  BY <1>1, <1>2, <1>3, PTL DEF Spec
=============================================================================
