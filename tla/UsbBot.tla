------------------------------- MODULE UsbBot -------------------------------
(***************************************************************************)
(* The block requests of the USB mass storage driver (Speedup/Bus/Usb/     *)
(* UsbMassStorageDxe) over the Bulk-Only Transport.  A request is read or  *)
(* written in chunks, each chunk is one command, a command is retried      *)
(* (UsbBootExecCmdWithRetry), a failed command is followed by a REQUEST    *)
(* SENSE, and each of them goes through three phases: the command wrapper  *)
(* (CBW) with a tag, the data, the status wrapper (CSW).                   *)
(*                                                                         *)
(* The device is external.  One that is prompt answers in time, reports    *)
(* no error of the bus and always obeys a reset; another one may be late   *)
(* in everything, so that each transfer of the host may time out.          *)
(***************************************************************************)
EXTENDS Integers, Sequences

CONSTANTS
  MaxChunks,      \* the longest request, in chunks of USB_BOOT_IO_BLOCKS
  CommandRetry,   \* USB_BOOT_COMMAND_RETRY
  CswRetry,       \* USB_BOT_RECV_CSW_RETRY
  Tags            \* the tags are taken modulo this number

ASSUME BotAssumption ==
  /\ MaxChunks \in Nat \ {0} /\ CommandRetry \in Nat
  /\ CswRetry \in Nat \ {0} /\ Tags \in Nat \ {0}

VARIABLES
  pc,        \* "idle", "loop" (UsbBootExecCmdWithRetry), "send", "data",
             \* "status" (the phases of UsbBotExecCommand), "failed"
  dir,       \* the direction of the request: "in" or "out"
  left,      \* chunks still to transfer, the current one included
  sense,     \* the command is a REQUEST SENSE
  retry,     \* Retry of UsbBootExecCmdWithRetry
  index,     \* Index of UsbBotGetStatus
  expired,   \* TimeoutEvt is signaled
  CbwTag,    \* the tag of the next CBW
  result,    \* what the last request returned
  moved,     \* history: the data of the last command went through completely
  prompt,    \* device: whether it is prompt
  phase,     \* device: waits for a "cbw", is "busy", "data", has a "csw"
  dcmd,      \* device: the CBW it works on
  fifo,      \* device: a CBW received and not looked at
  halted     \* device: its halted endpoints, "in" and "out"

requestVars == <<dir, left, expired, result>>
devVars     == <<phase, dcmd, fifo, halted>>
vars == <<pc, dir, left, sense, retry, index, expired, CbwTag, result, moved,
          prompt, phase, dcmd, fifo, halted>>

Status == {"success", "stop", "notReady", "timeout", "error"}
CmdDir == IF sense THEN "in" ELSE dir

-----------------------------------------------------------------------------
(* What the bus and the device do to a transfer of the host. *)

\* Nothing will come from a device that waits for a CBW.
Waits == phase = "cbw" /\ fifo = <<>>

\* How a transfer ends that the device does not take part in.
NoAnswer(status) ==
  \/ status = "timeout" /\ (~prompt \/ Waits)
  \/ status \in {"error", "notReady"} /\ ~prompt

\* Mutant: the stall is not cleared.
ClearStallForgotten(ep) == UNCHANGED devVars

\* UsbClearEndpointStall
ClearStall(ep) == /\ \/ halted' = halted \ {ep}
                     \/ ~prompt /\ UNCHANGED halted
                  /\ UNCHANGED <<phase, dcmd, fifo>>

\* UsbBotResetDevice.  It clears the stalls of both endpoints, and does not look
\* whether that worked; a reset that fails may have reached the device.
ResetDevice(ok) ==
  \/ /\ ok \/ ~prompt
     /\ phase' = "cbw"
     /\ fifo' = <<>>
     /\ halted' \in IF prompt THEN {{}} ELSE SUBSET halted
     /\ UNCHANGED dcmd
  \/ ~ok /\ ~prompt /\ UNCHANGED devVars

-----------------------------------------------------------------------------
(* UsbBootReadBlocks, UsbBootWriteBlocks and UsbBootExecCmdWithRetry. *)

Request(d, n) ==
  /\ pc = "idle"
  /\ dir' = d
  /\ left' = n
  /\ retry' = 0
  /\ expired' = FALSE
  /\ result' = "none"
  /\ pc' = "loop"
  /\ UNCHANGED <<sense, index, CbwTag, moved, prompt, devVars>>

\* UsbBootExecCmdWithRetry returns.
EndCmd(status) ==
  \/ /\ status = "success" /\ left > 1
     /\ left' = left - 1
     /\ retry' = 0
     /\ expired' = FALSE
     /\ result' = "none"
     /\ pc' = "loop"
     /\ UNCHANGED dir
  \/ /\ status = "success" /\ left = 1
     /\ result' = "success"
     /\ pc' = "idle"
     /\ UNCHANGED <<dir, left, retry, expired>>
  \/ /\ status # "success"
     /\ result' = status
     /\ pc' = "failed"
     /\ UNCHANGED <<dir, left, retry, expired>>

\* Mutant: the timer is not looked at.
StartCmdAnyTime ==
  /\ pc = "loop"
  /\ sense' = FALSE
  /\ pc' = "send"
  /\ UNCHANGED <<requestVars, retry, index, CbwTag, moved, devVars>>

StartCmd ==
  /\ pc = "loop"
  /\ ~expired
  /\ sense' = FALSE
  /\ pc' = "send"
  /\ UNCHANGED <<requestVars, retry, index, CbwTag, moved, devVars>>

\* The 60 seconds are over.  The timer is not looked at before the first try.
GiveUp ==
  /\ pc = "loop"
  /\ expired
  /\ EndCmd(result)
  /\ UNCHANGED <<sense, index, CbwTag, moved, devVars>>

\* UsbBootExecCmd returns to the loop.
ExecReturns(status) ==
  /\ \/ /\ status \in {"success", "stop"}
        /\ EndCmd(status)
     \/ /\ status = "notReady"
        /\ result' = status
        /\ pc' = "loop"
        /\ UNCHANGED <<dir, left, retry, expired>>
     \/ /\ status \in {"timeout", "error"}
        /\ retry >= CommandRetry
        /\ EndCmd(status)
     \/ /\ status \in {"timeout", "error"}
        /\ retry < CommandRetry
        /\ retry' = retry + 1
        /\ result' = status
        /\ pc' = "loop"
        /\ UNCHANGED <<dir, left, expired>>
  /\ UNCHANGED sense

-----------------------------------------------------------------------------
(* UsbBootExecCmd, UsbBootRequestSense and UsbBotExecCommand. *)

\* UsbBotExecCommand returns: good when the CSW says that the command passed.
CommandReturns(status, good) ==
  \/ /\ ~sense
     /\ \/ status = "timeout" /\ ExecReturns("timeout")
        \/ status = "success" /\ good /\ ExecReturns("success")
        \/ /\ status # "timeout" /\ ~(status = "success" /\ good)
           /\ sense' = TRUE
           /\ pc' = "send"
           /\ UNCHANGED <<requestVars, retry>>
  \/ /\ sense
     /\ \/ status # "success" /\ ExecReturns(status)
        \/ status = "success" /\ ~good /\ ExecReturns("error")
        \/ /\ status = "success" /\ good
           /\ \E key \in {"stop", "notReady", "error"} : ExecReturns(key)

\* Mutant: the tag is not filled in.
CbwWithoutTag == [tag |-> 0, dir |-> CmdDir]
Cbw == [tag |-> CbwTag, dir |-> CmdDir]

\* UsbBotSendCommand
SendCommand ==
  /\ pc = "send"
  /\ \/ /\ "out" \notin halted /\ fifo = <<>>
        /\ fifo' = <<Cbw>>
        /\ pc' = "data"
        /\ UNCHANGED <<requestVars, sense, retry, phase, dcmd, halted>>
     \/ /\ "out" \in halted
        /\ IF CmdDir = "out" THEN \E ok \in BOOLEAN : ResetDevice(ok)
                             ELSE UNCHANGED devVars
        /\ CommandReturns("error", FALSE)
     \/ \E status \in Status :
          /\ NoAnswer(status)
          /\ CommandReturns(status, FALSE)
          /\ UNCHANGED devVars
  /\ UNCHANGED <<index, CbwTag, moved>>

\* UsbBotDataTransfer.  The status is read whatever became of the data, and
\* the length that was transferred is not looked at.
DataTransfer ==
  /\ pc = "data"
  /\ \/ /\ phase = "data" /\ dcmd.dir = CmdDir /\ CmdDir \notin halted
        /\ moved' \in BOOLEAN
        /\ phase' = "csw"
        /\ UNCHANGED <<dcmd, fifo, halted>>
     \/ /\ phase = "csw" /\ CmdDir = "in" /\ "in" \notin halted
        /\ moved' = FALSE
        /\ phase' = "cbw"
        /\ UNCHANGED <<dcmd, fifo, halted>>
     \/ /\ CmdDir \in halted
        /\ moved' = FALSE
        /\ ClearStall(CmdDir)
     \/ /\ NoAnswer("timeout")
        /\ moved' = FALSE
        /\ \E ok \in BOOLEAN : ResetDevice(ok)
     \/ /\ NoAnswer("error")
        /\ moved' = FALSE
        /\ UNCHANGED devVars
  /\ index' = 0
  /\ pc' = "status"
  /\ UNCHANGED <<requestVars, sense, retry, CbwTag>>

\* The end of UsbBotGetStatus: the tag is increased in any case.
StatusDone(status, good) ==
  /\ CbwTag' = (CbwTag + 1) % Tags
  /\ CommandReturns(status, good)
  /\ UNCHANGED index

\* The loop of UsbBotGetStatus goes on.
NextTry(status) ==
  \/ /\ index + 1 < CswRetry
     /\ index' = index + 1
     /\ UNCHANGED <<pc, requestVars, sense, retry, CbwTag>>
  \/ /\ index + 1 >= CswRetry
     /\ StatusDone(status, FALSE)

ReadsCsw == pc = "status" /\ phase = "csw" /\ "in" \notin halted

\* A CSW is accepted when its signature is valid and it reports no phase error.
AcceptCsw ==
  /\ ReadsCsw
  /\ phase' = "cbw"
  /\ \E good \in BOOLEAN : StatusDone("success", good)
  /\ UNCHANGED <<moved, dcmd, fifo, halted>>

\* A CSW with a phase error, or data in the place of the CSW: the device is
\* reset, and the status of the reset is the status of this try.
RejectCsw ==
  /\ ReadsCsw \/ (pc = "status" /\ phase = "data" /\ dcmd.dir = "in" /\ "in" \notin halted)
  /\ \E ok \in BOOLEAN : ResetDevice(ok) /\ NextTry(IF ok THEN "success" ELSE "error")
  /\ UNCHANGED moved

CswFails ==
  /\ pc = "status"
  /\ \/ /\ "in" \in halted
        /\ ClearStall("in")
        /\ NextTry("error")
     \/ \E status \in {"timeout", "error"} :
          /\ NoAnswer(status)
          /\ UNCHANGED devVars
          /\ NextTry(status)
  /\ UNCHANGED moved

\* UsbMassReadBlocks and UsbMassWriteBlocks reset the device after an error.
\* The port reset fails without a request to the device.
MassReset ==
  /\ pc = "failed"
  /\ \/ \E ok \in BOOLEAN : ResetDevice(ok)
     \/ ~prompt /\ UNCHANGED devVars
  /\ pc' = "idle"
  /\ UNCHANGED <<requestVars, sense, retry, index, CbwTag, moved>>

-----------------------------------------------------------------------------
(* The device, external to the driver, and the timer. *)

TakeCbw ==
  /\ phase = "cbw"
  /\ fifo # <<>>
  /\ dcmd' = fifo[1]
  /\ fifo' = <<>>
  /\ phase' = "busy"
  /\ UNCHANGED halted

\* It has the data ready, or refuses to transfer any and stalls.
Execute ==
  /\ phase = "busy"
  /\ \/ phase' = "data" /\ UNCHANGED halted
     \/ phase' = "csw" /\ halted' = halted \cup {dcmd.dir}
  /\ UNCHANGED <<dcmd, fifo>>

Device == /\ TakeCbw \/ Execute
          /\ UNCHANGED <<pc, requestVars, sense, retry, index, CbwTag, moved, prompt>>

\* The timer of 60 seconds does not expire before the first try is over.
Expire ==
  /\ pc # "idle" /\ result # "none"
  /\ expired' = TRUE
  /\ UNCHANGED <<pc, dir, left, sense, retry, index, CbwTag, result, moved,
                 prompt, devVars>>

-----------------------------------------------------------------------------
Init ==
  /\ pc = "idle" /\ dir = "in" /\ left = 1 /\ sense = FALSE
  /\ retry = 0 /\ index = 0 /\ expired = FALSE
  /\ CbwTag = 1 % Tags /\ result = "none" /\ moved = FALSE
  /\ prompt \in BOOLEAN
  /\ phase = "cbw" /\ dcmd = [tag |-> 0, dir |-> "in"] /\ fifo = <<>> /\ halted = {}

Host == /\ \/ StartCmd \/ GiveUp \/ SendCommand \/ DataTransfer
           \/ AcceptCsw \/ RejectCsw \/ CswFails \/ MassReset
        /\ UNCHANGED prompt

Next == \/ \E d \in {"in", "out"}, n \in 1..MaxChunks : Request(d, n)
        \/ Host \/ Device \/ Expire

SafeSpec == Init /\ [][Next]_vars

\* The calls of the host return, each of its transfers having a timeout; time
\* passes; a prompt device does not stop working.
Spec == SafeSpec /\ WF_vars(Host) /\ WF_vars(Expire) /\ (prompt => WF_vars(Device))

-----------------------------------------------------------------------------
(* Properties. *)

\* Type invariant.
TypeOK ==
  /\ pc \in {"idle", "loop", "send", "data", "status", "failed"}
  /\ dir \in {"in", "out"} /\ left \in 1..MaxChunks /\ sense \in BOOLEAN
  /\ retry \in 0..CommandRetry /\ index \in 0..(CswRetry - 1) /\ expired \in BOOLEAN
  /\ CbwTag \in 0..(Tags - 1) /\ result \in Status \cup {"none"} /\ moved \in BOOLEAN
  /\ prompt \in BOOLEAN
  /\ phase \in {"cbw", "busy", "data", "csw"}
  /\ dcmd \in [tag : 0..(Tags - 1), dir : {"in", "out"}]
  /\ fifo \in Seq([tag : 0..(Tags - 1), dir : {"in", "out"}]) /\ Len(fifo) <= 1
  /\ halted \subseteq {"in", "out"}

\* Whatever stalls, phase errors and failed commands went before, a prompt
\* device waits for a CBW, with no endpoint halted, whenever one is sent.
InStep == prompt /\ pc = "send" => Waits /\ halted = {}

\* The counts of tries stay within their bounds (UsbBootExecCmdWithRetry,
\* UsbBotGetStatus), and the two sides in step.
BotInv == TypeOK /\ InStep

\* The code does not compare the tag of a CSW with that of its CBW.  With a
\* prompt device that is no harm: the CSW it takes is that of the command.
CswIsOurs == [][prompt /\ AcceptCsw => dcmd.tag = CbwTag]_vars

\* A request returns to its caller, even if the device always says that it is
\* not ready or never answers.
Returns == pc # "idle" ~> pc = "idle"

-----------------------------------------------------------------------------
\* What the source says of itself and the code does not do: TLC refutes each of
\* these when it is added to the cfg of the run bot.

\* UsbBotInit: "The USB BOT protocol uses CBWTag to match the CBW and CSW."
\* The answer of a late device is taken for that of the next command.
CswMatchesCbw == [][AcceptCsw => dcmd.tag = CbwTag]_vars

\* UsbMassReadBlocks: "All the blocks are read, or an error is returned."
AllBlocksOrError == [][pc # "idle" /\ pc' = "idle" /\ result' = "success" => moved]_vars
=============================================================================
