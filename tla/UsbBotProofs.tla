---------------------------- MODULE UsbBotProofs ----------------------------
(***************************************************************************)
(* Proofs about UsbBot, for any lengths of requests, numbers of retries    *)
(* and of tags: the counts of tries stay within their bounds, and a        *)
(* prompt device never gets out of step with the driver, so that the       *)
(* status that the driver takes for that of its command is just that.      *)
(***************************************************************************)
EXTENDS UsbBot, TLAPS

CbwType == [tag : 0..(Tags - 1), dir : {"in", "out"}]

\* Between two commands the device waits for a CBW, and can hear of it.
Quiet == Waits /\ halted = {}

\* Before the data phase: the CBW has not been looked at, or the device works on
\* the command, or it is done with it; only a refusal to transfer stalls.
AtData ==
  \/ phase = "cbw" /\ fifo = <<Cbw>> /\ halted = {}
  \/ /\ fifo = <<>> /\ dcmd = Cbw
     /\ \/ phase \in {"busy", "data"} /\ halted = {}
        \/ phase = "csw" /\ halted = {CmdDir}

\* Before a status is read: it is that of this command, or the device was reset
\* in the midst of the tries.
AtStatus ==
  /\ fifo = <<>> /\ halted = {}
  /\ phase = "cbw" \/ (phase = "csw" /\ dcmd = Cbw)

\* Where the device is, told from where the driver is.
Together ==
  prompt => /\ pc \in {"idle", "loop", "send", "failed"} => Quiet
            /\ pc = "data" => AtData
            /\ pc = "status" => AtStatus

Inv == TypeOK /\ Together

\* The CBW of this command is one.
LEMMA CbwIsCbw == TypeOK => Cbw \in CbwType
  BY DEF TypeOK, Cbw, CbwType, CmdDir

\* Nothing is asked of the device to begin with.
LEMMA InvInit == Init => Inv
<1> SUFFICES ASSUME Init PROVE Inv
  OBVIOUS
<1>1. TypeOK
  <2>1. /\ CbwTag \in 0..(Tags - 1) /\ dcmd \in [tag : 0..(Tags - 1), dir : {"in", "out"}]
        /\ left \in 1..MaxChunks /\ retry \in 0..CommandRetry /\ index \in 0..(CswRetry - 1)
    BY BotAssumption DEF Init
  <2>2. fifo \in Seq([tag : 0..(Tags - 1), dir : {"in", "out"}]) /\ Len(fifo) <= 1
    BY DEF Init
  <2> QED
    BY <2>1, <2>2 DEF Init, TypeOK
<1>2. Together
  BY DEF Init, Together, Quiet, Waits
<1> QED
  BY <1>1, <1>2 DEF Inv

-----------------------------------------------------------------------------
(* The driver between two phases: what it keeps about the request.         *)

DriverOK ==
  /\ pc \in {"idle", "loop", "send", "data", "status", "failed"}
  /\ dir \in {"in", "out"} /\ left \in 1..MaxChunks /\ sense \in BOOLEAN
  /\ retry \in 0..CommandRetry /\ expired \in BOOLEAN
  /\ result \in Status \cup {"none"}

\* A command ends with any outcome: the next chunk, or the end of the request.
LEMMA EndCmdKeeps ==
  ASSUME DriverOK, NEW status \in Status \cup {"none"}, EndCmd(status), sense' \in BOOLEAN
  PROVE  DriverOK' /\ pc' \in {"idle", "loop", "failed"}
<1>1. left \in Int /\ 0 \in 0..CommandRetry
  BY BotAssumption DEF DriverOK
<1>2. left > 1 => left - 1 \in 1..MaxChunks
  BY BotAssumption DEF DriverOK
<1> QED
  BY <1>1, <1>2 DEF DriverOK, EndCmd, Status

\* UsbBootExecCmd returns with any outcome.
LEMMA ExecReturnsKeeps ==
  ASSUME DriverOK, NEW status \in Status, ExecReturns(status), sense' \in BOOLEAN
  PROVE  DriverOK' /\ pc' \in {"idle", "loop", "failed"}
<1>1. CASE EndCmd(status)
  BY <1>1, EndCmdKeeps
<1>2. CASE ~EndCmd(status)
  <2>1. /\ result' = status /\ pc' = "loop" /\ UNCHANGED <<dir, left, expired>>
        /\ \/ retry' = retry
           \/ retry < CommandRetry /\ retry' = retry + 1
    BY <1>2 DEF ExecReturns
  <2>2. retry' \in 0..CommandRetry
    BY <2>1, BotAssumption DEF DriverOK
  <2> QED
    BY <2>1, <2>2 DEF DriverOK
<1> QED
  BY <1>1, <1>2

\* UsbBotExecCommand returns with any outcome: a retry, a REQUEST SENSE or the end.
LEMMA CommandReturnsKeeps ==
  ASSUME DriverOK, NEW status \in Status, NEW good \in BOOLEAN, CommandReturns(status, good)
  PROVE  DriverOK' /\ pc' \in {"idle", "loop", "send", "failed"}
<1>1. ASSUME NEW s \in Status, ExecReturns(s)
      PROVE  DriverOK' /\ pc' \in {"idle", "loop", "failed"}
  <2>1. sense' \in BOOLEAN
    BY <1>1 DEF ExecReturns, DriverOK
  <2> QED
    BY <1>1, <2>1, ExecReturnsKeeps
<1>2. CASE sense' = TRUE /\ pc' = "send" /\ UNCHANGED <<requestVars, retry>>
  BY <1>2 DEF DriverOK, requestVars
<1> QED
  BY <1>1, <1>2 DEF CommandReturns, Status

-----------------------------------------------------------------------------
(* The device when the driver asks it for something.                       *)

DeviceOK ==
  /\ phase \in {"cbw", "busy", "data", "csw"}
  /\ dcmd \in CbwType
  /\ fifo \in Seq(CbwType) /\ Len(fifo) <= 1
  /\ halted \subseteq {"in", "out"}

\* What is left of TypeOK.
CountsOK ==
  /\ index \in 0..(CswRetry - 1) /\ CbwTag \in 0..(Tags - 1)
  /\ moved \in BOOLEAN /\ prompt \in BOOLEAN

\* The three parts are the whole.
LEMMA Parts == TypeOK <=> DriverOK /\ DeviceOK /\ CountsOK
  BY DEF TypeOK, DriverOK, DeviceOK, CountsOK, CbwType

\* A reset quiets a prompt device.
LEMMA ResetQuiets ==
  ASSUME DeviceOK, prompt \in BOOLEAN, NEW ok \in BOOLEAN, ResetDevice(ok)
  PROVE  DeviceOK' /\ (prompt => Quiet')
<1>1. CASE UNCHANGED devVars /\ ~prompt
  BY <1>1 DEF DeviceOK, devVars
<1>2. CASE /\ phase' = "cbw" /\ fifo' = <<>> /\ UNCHANGED dcmd
           /\ halted' \in IF prompt THEN {{}} ELSE SUBSET halted
  <2>1. fifo' \in Seq(CbwType) /\ Len(fifo') <= 1
    BY <1>2
  <2>2. halted' \subseteq {"in", "out"} /\ (prompt => halted' = {})
    BY <1>2 DEF DeviceOK
  <2> QED
    BY <1>2, <2>1, <2>2 DEF DeviceOK, Quiet, Waits
<1> QED
  BY <1>1, <1>2 DEF ResetDevice

\* A stall that is cleared leaves the rest of the device as it is.
LEMMA ClearStallClears ==
  ASSUME DeviceOK, NEW ep, ClearStall(ep)
  PROVE  /\ DeviceOK' /\ UNCHANGED <<phase, dcmd, fifo>>
         /\ prompt => halted' = halted \ {ep}
  BY DEF ClearStall, DeviceOK

-----------------------------------------------------------------------------
\* The status of a CSW is taken, or the tries are over.
LEMMA StatusDoneKeeps ==
  ASSUME DriverOK, CountsOK, NEW status \in Status, NEW good \in BOOLEAN,
         StatusDone(status, good), UNCHANGED <<moved, prompt>>
  PROVE  DriverOK' /\ CountsOK' /\ pc' \in {"idle", "loop", "send", "failed"}
<1>1. (CbwTag + 1) % Tags \in 0..(Tags - 1)
  BY BotAssumption DEF CountsOK
<1> QED
  BY <1>1, CommandReturnsKeeps DEF StatusDone, CountsOK

\* Another try to read the status, or the end of the tries.
LEMMA NextTryKeeps ==
  ASSUME DriverOK, CountsOK, pc = "status", NEW status \in Status, NextTry(status),
         UNCHANGED <<moved, prompt>>
  PROVE  /\ DriverOK' /\ CountsOK'
         /\ \/ pc' \in {"idle", "loop", "send", "failed"}
            \/ UNCHANGED <<pc, dir, sense, CbwTag>>
<1>1. CASE StatusDone(status, FALSE)
  BY <1>1, StatusDoneKeeps
<1>2. CASE /\ index + 1 < CswRetry /\ index' = index + 1
           /\ UNCHANGED <<pc, requestVars, sense, retry, CbwTag>>
  BY <1>2, BotAssumption DEF DriverOK, CountsOK, requestVars
<1> QED
  BY <1>1, <1>2 DEF NextTry

\* Each step of the driver, the device and the timer keeps the two together.
LEMMA InvNext == Inv /\ [Next]_vars => Inv'
<1> SUFFICES ASSUME Inv, [Next]_vars PROVE Inv'
  OBVIOUS
<1>p. DriverOK /\ DeviceOK /\ CountsOK /\ Together
  BY Parts DEF Inv
<1>g. DriverOK' /\ DeviceOK' /\ CountsOK' /\ Together' => Inv'
  BY Parts DEF Inv, TypeOK, DriverOK, DeviceOK, CountsOK, CbwType
<1>c. Cbw \in CbwType
  BY CbwIsCbw DEF Inv
\* The driver is done with a command, and the device is quiet.
<1>q. ASSUME DriverOK', CountsOK', DeviceOK', pc' \in {"idle", "loop", "send", "failed"},
             prompt => Quiet', UNCHANGED prompt
      PROVE  Inv'
  BY <1>q, <1>g DEF Together
<1>u. UNCHANGED devVars => (Quiet => Quiet') /\ (DeviceOK => DeviceOK')
  BY DEF devVars, Quiet, Waits, DeviceOK
<1>1. ASSUME NEW d \in {"in", "out"}, NEW n \in 1..MaxChunks, Request(d, n)
      PROVE  Inv'
  <2>1. DriverOK' /\ CountsOK' /\ pc' = "loop" /\ UNCHANGED <<prompt, devVars>> /\ pc = "idle"
    <3>1. 0 \in 0..CommandRetry
      BY BotAssumption
    <3>2. /\ pc = "idle" /\ pc' = "loop" /\ dir' = d /\ left' = n /\ retry' = 0
          /\ expired' = FALSE /\ result' = "none"
          /\ UNCHANGED <<sense, index, CbwTag, moved, prompt, devVars>>
      BY <1>1 DEF Request
    <3>3. DriverOK' /\ CountsOK'
      BY <3>1, <3>2, <1>p DEF DriverOK, CountsOK
    <3> QED
      BY <3>2, <3>3
  <2> QED
    BY <2>1, <1>p, <1>q, <1>u DEF Together
<1>2. CASE StartCmd /\ UNCHANGED prompt
  <2>1. DriverOK' /\ CountsOK' /\ pc' = "send" /\ UNCHANGED devVars /\ pc = "loop"
    BY <1>2, <1>p DEF StartCmd, DriverOK, CountsOK, requestVars
  <2> QED
    BY <1>2, <2>1, <1>p, <1>q, <1>u DEF Together
<1>3. CASE GiveUp /\ UNCHANGED prompt
  <2>1. EndCmd(result) /\ UNCHANGED <<sense, index, CbwTag, moved, devVars>> /\ pc = "loop"
    BY <1>3 DEF GiveUp
  <2>2. DriverOK' /\ pc' \in {"idle", "loop", "failed"}
    BY <1>p, <2>1, EndCmdKeeps DEF DriverOK
  <2> QED
    BY <1>3, <2>1, <2>2, <1>p, <1>q, <1>u DEF Together, CountsOK
<1>4. CASE SendCommand /\ UNCHANGED prompt
  <2>0. pc = "send" /\ UNCHANGED <<index, CbwTag, moved>> /\ CountsOK' /\ (prompt => Quiet)
    BY <1>4, <1>p DEF SendCommand, CountsOK, Together
  <2>1. CASE /\ "out" \notin halted /\ fifo = <<>> /\ fifo' = <<Cbw>> /\ pc' = "data"
             /\ UNCHANGED <<requestVars, sense, retry, phase, dcmd, halted>>
    <3>1. DriverOK' /\ Cbw' = Cbw
      BY <2>0, <2>1, <1>p DEF DriverOK, requestVars, Cbw, CmdDir
    <3>2. DeviceOK'
      <4>1. fifo' \in Seq(CbwType) /\ Len(fifo') <= 1
        BY <2>1, <1>c
      <4> QED
        BY <2>1, <4>1, <1>p DEF DeviceOK
    <3>3. prompt => AtData'
      BY <2>0, <2>1, <3>1 DEF Quiet, Waits, AtData
    <3> QED
      BY <1>4, <1>g, <2>0, <2>1, <3>1, <3>2, <3>3 DEF Together
  <2>2. CASE /\ "out" \in halted
             /\ IF CmdDir = "out" THEN \E ok \in BOOLEAN : ResetDevice(ok) ELSE UNCHANGED devVars
             /\ CommandReturns("error", FALSE)
    <3>1. DriverOK' /\ pc' \in {"idle", "loop", "send", "failed"}
      BY <2>2, <1>p, CommandReturnsKeeps DEF Status
    <3>2. DeviceOK' /\ ~prompt
      BY <2>0, <2>2, <1>p, <1>u, ResetQuiets DEF CountsOK, Quiet
    <3> QED
      BY <1>4, <1>q, <2>0, <3>1, <3>2
  <2>3. ASSUME NEW status \in Status, NoAnswer(status), CommandReturns(status, FALSE),
               UNCHANGED devVars
        PROVE  Inv'
    <3>1. DriverOK' /\ pc' \in {"idle", "loop", "send", "failed"}
      BY <2>3, <1>p, CommandReturnsKeeps
    <3> QED
      BY <1>4, <1>p, <1>q, <1>u, <2>0, <2>3, <3>1
  <2> QED
    BY <1>4, <2>1, <2>2, <2>3 DEF SendCommand
<1>5. CASE DataTransfer /\ UNCHANGED prompt
  <2>0. /\ pc = "data" /\ pc' = "status" /\ index' = 0 /\ moved' \in BOOLEAN
        /\ UNCHANGED <<requestVars, sense, retry, CbwTag>>
    BY <1>5 DEF DataTransfer
  <2>1. DriverOK' /\ CountsOK' /\ Cbw' = Cbw
    BY <1>5, <1>p, <2>0, BotAssumption DEF DriverOK, CountsOK, requestVars, Cbw, CmdDir
  <2>2. DeviceOK' /\ (prompt => AtStatus')
    <3>0. prompt => AtData
      BY <1>p, <2>0 DEF Together
    <3>1. CASE /\ phase = "data" /\ phase' = "csw" /\ UNCHANGED <<dcmd, fifo, halted>>
      BY <3>0, <3>1, <2>1, <1>p DEF AtData, AtStatus, DeviceOK
    <3>2. CASE /\ phase = "csw" /\ CmdDir = "in" /\ "in" \notin halted
               /\ phase' = "cbw" /\ UNCHANGED <<dcmd, fifo, halted>>
      BY <3>0, <3>2, <2>1, <1>p DEF AtData, AtStatus, DeviceOK
    <3>3. CASE CmdDir \in halted /\ ClearStall(CmdDir)
      <4>1. DeviceOK' /\ UNCHANGED <<phase, dcmd, fifo>> /\ (prompt => halted' = halted \ {CmdDir})
        BY <3>3, <1>p, ClearStallClears
      <4>2. prompt => fifo = <<>> /\ dcmd = Cbw /\ phase = "csw" /\ halted = {CmdDir}
        BY <3>0, <3>3 DEF AtData
      <4> QED
        BY <4>1, <4>2, <2>1 DEF AtStatus
    <3>4. ASSUME NEW ok \in BOOLEAN, ResetDevice(ok) PROVE DeviceOK' /\ (prompt => AtStatus')
      BY <3>4, <1>p, ResetQuiets DEF CountsOK, Quiet, Waits, AtStatus
    <3>5. CASE NoAnswer("error") /\ UNCHANGED devVars
      BY <3>5, <1>p, <1>u DEF NoAnswer
    <3> QED
      BY <1>5, <3>1, <3>2, <3>3, <3>4, <3>5 DEF DataTransfer
  <2> QED
    BY <1>5, <1>g, <2>0, <2>1, <2>2 DEF Together
<1>6. CASE AcceptCsw /\ UNCHANGED prompt
  <2>1. /\ pc = "status" /\ phase' = "cbw" /\ UNCHANGED <<moved, dcmd, fifo, halted>>
        /\ \E good \in BOOLEAN : StatusDone("success", good)
    BY <1>6 DEF AcceptCsw, ReadsCsw
  <2>2. DriverOK' /\ CountsOK' /\ pc' \in {"idle", "loop", "send", "failed"}
    BY <1>6, <2>1, <1>p, StatusDoneKeeps DEF Status
  <2>3. DeviceOK' /\ (prompt => Quiet')
    BY <2>1, <1>p DEF DeviceOK, Together, AtStatus, Quiet, Waits
  <2> QED
    BY <1>6, <1>q, <2>2, <2>3
\* A try to read the status is over without one.
<1>t. ASSUME pc = "status", NEW status \in Status, NextTry(status), UNCHANGED <<moved, prompt>>,
             DeviceOK', prompt => Quiet'
      PROVE  Inv'
  <2>1. /\ DriverOK' /\ CountsOK'
        /\ \/ pc' \in {"idle", "loop", "send", "failed"}
           \/ UNCHANGED <<pc, dir, sense, CbwTag>>
    BY <1>t, <1>p, NextTryKeeps
  <2>2. prompt => AtStatus'
    BY <1>t DEF Quiet, Waits, AtStatus
  <2> QED
    BY <1>t, <1>g, <1>q, <2>1, <2>2 DEF Together
<1>7. CASE RejectCsw /\ UNCHANGED prompt
  <2>1. PICK ok \in BOOLEAN : ResetDevice(ok) /\ NextTry(IF ok THEN "success" ELSE "error")
    BY <1>7 DEF RejectCsw
  <2>2. pc = "status" /\ UNCHANGED moved /\ (IF ok THEN "success" ELSE "error") \in Status
    BY <1>7 DEF RejectCsw, ReadsCsw, Status
  <2>3. DeviceOK' /\ (prompt => Quiet')
    BY <2>1, <1>p, ResetQuiets DEF CountsOK
  <2> QED
    BY <1>7, <1>t, <2>1, <2>2, <2>3
<1>8. CASE CswFails /\ UNCHANGED prompt
  <2>0. pc = "status" /\ UNCHANGED moved /\ (prompt => AtStatus)
    BY <1>8, <1>p DEF CswFails, Together
  <2>1. CASE "in" \in halted /\ ClearStall("in") /\ NextTry("error")
    <3>1. ~prompt /\ DeviceOK'
      BY <2>0, <2>1, <1>p, ClearStallClears DEF AtStatus
    <3> QED
      BY <1>8, <1>t, <2>0, <2>1, <3>1 DEF Status
  <2>2. ASSUME NEW status \in {"timeout", "error"}, NoAnswer(status), UNCHANGED devVars,
               NextTry(status)
        PROVE  Inv'
    <3>1. DeviceOK' /\ (prompt => Quiet')
      BY <2>0, <2>2, <1>p, <1>u DEF NoAnswer, Quiet, AtStatus
    <3> QED
      BY <1>8, <1>t, <2>0, <2>2, <3>1 DEF Status
  <2> QED
    BY <1>8, <2>1, <2>2 DEF CswFails
<1>9. CASE MassReset /\ UNCHANGED prompt
  <2>1. /\ pc = "failed" /\ pc' = "idle"
        /\ UNCHANGED <<requestVars, sense, retry, index, CbwTag, moved>>
    BY <1>9 DEF MassReset
  <2>2. DriverOK' /\ CountsOK'
    BY <1>9, <2>1, <1>p DEF DriverOK, CountsOK, requestVars
  <2>3. DeviceOK' /\ (prompt => Quiet')
    BY <1>9, <1>p, <1>u, ResetQuiets DEF MassReset, CountsOK
  <2> QED
    BY <1>9, <1>q, <2>1, <2>2, <2>3
<1>10. CASE Device
  <2>1. /\ UNCHANGED <<pc, requestVars, sense, retry, index, CbwTag, moved, prompt>>
        /\ TakeCbw \/ Execute
    BY <1>10 DEF Device
  <2>2. DriverOK' /\ CountsOK' /\ Cbw' = Cbw /\ CmdDir' = CmdDir
    BY <2>1, <1>p DEF DriverOK, CountsOK, requestVars, Cbw, CmdDir
  <2>3. CASE TakeCbw
    <3>1. fifo[1] \in CbwType /\ fifo' \in Seq(CbwType) /\ Len(fifo') <= 1
      BY <2>3, <1>p DEF TakeCbw, DeviceOK
    <3>2. DeviceOK'
      BY <2>3, <3>1, <1>p DEF TakeCbw, DeviceOK
    <3>3. fifo # <<>> /\ (fifo = <<Cbw>> => fifo[1] = Cbw)
      BY <2>3 DEF TakeCbw
    <3>4. Together'
      BY <2>1, <2>2, <2>3, <3>3, <1>p
         DEF Together, Quiet, Waits, AtStatus, AtData, TakeCbw
    <3> QED
      BY <1>g, <2>2, <3>2, <3>4
  <2>4. CASE Execute
    <3>1. DeviceOK'
      BY <2>4, <1>p DEF Execute, DeviceOK, CbwType
    <3>2. Together'
      <4>1. Cbw.dir = CmdDir
        BY DEF Cbw
      <4> QED
        BY <2>1, <2>2, <2>4, <4>1, <1>p DEF Together, Quiet, Waits, AtStatus, AtData, Execute
    <3> QED
      BY <1>g, <2>2, <3>1, <3>2
  <2> QED
    BY <2>1, <2>3, <2>4
<1>11. CASE Expire
  BY <1>11, <1>p, <1>g DEF Expire, DriverOK, DeviceOK, CountsOK, Together, Quiet, Waits, AtData,
                           AtStatus, Cbw, CmdDir, devVars
<1>12. CASE UNCHANGED vars
  BY <1>12, <1>p, <1>g DEF vars, DriverOK, DeviceOK, CountsOK, Together, Quiet, Waits, AtData,
                           AtStatus, Cbw, CmdDir
<1> QED
  BY <1>1, <1>2, <1>3, <1>4, <1>5, <1>6, <1>7, <1>8, <1>9, <1>10, <1>11, <1>12 DEF Next, Host

-----------------------------------------------------------------------------
\* In every behaviour, fair or not.
LEMMA SpecInv == SafeSpec => []Inv
<1> QED
  BY InvInit, InvNext, PTL DEF SafeSpec

\* The counts of tries stay within their bounds (UsbBootExecCmdWithRetry,
\* UsbBotGetStatus), and a prompt device waits for a CBW whenever one is sent.
THEOREM InStepAlways == SafeSpec => []BotInv
<1>1. Inv => BotInv
  BY DEF Inv, BotInv, InStep, Together, Quiet
<1> QED
  BY <1>1, SpecInv, PTL

\* The CSW that is accepted without a look at its tag has the tag of the CBW.
THEOREM CswIsOfCommand == SafeSpec => CswIsOurs
<1>1. Inv => (prompt /\ AcceptCsw => dcmd.tag = CbwTag)
  BY DEF Inv, Together, AtStatus, AcceptCsw, ReadsCsw, Cbw
<1>2. Inv /\ [Next]_vars => [prompt /\ AcceptCsw => dcmd.tag = CbwTag]_vars
  BY <1>1
<1> QED
  BY <1>2, SpecInv, PTL DEF SafeSpec, CswIsOurs
=============================================================================
