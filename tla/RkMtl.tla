------------------------------- MODULE RkMtl -------------------------------
(***************************************************************************)
(* The SCMI mailbox transport (Library/RkMtlLib): one shared-memory        *)
(* channel between this firmware and the system control processor (SCP).   *)
(* The channel status word says who may touch the mailbox; the doorbell is *)
(* a secure monitor call that may fail; the reply may come late or never.  *)
(* The caller (ArmScmiDxe) and the SCP are external: the caller sends a    *)
(* command and, if that succeeds, receives; a failed command is given up.  *)
(***************************************************************************)
EXTENDS Integers

CONSTANTS
  RESPONSE_TIMEOUT, MTL_POLL_WAIT_TIME,   \* in the same unit of time
  MaxMessages,                            \* bound: commands the caller sends
  DoorbellMayFail                         \* may the SMC return an error?

ASSUME TimeAssumption ==
  /\ RESPONSE_TIMEOUT \in Nat
  /\ MTL_POLL_WAIT_TIME \in Nat \ {0}
  /\ MaxMessages \in Nat
  /\ DoorbellMayFail \in BOOLEAN

VARIABLES
  ChannelStatus,     \* "FREE" or "BUSY": the word in shared memory
  MessageHeader,     \* the header in shared memory: [from, msg]
  scp,               \* the message the SCP has been rung for, 0 for none
  pc,                \* where the firmware is
  msg,               \* number of the command being sent; 0 before the first
  wasBusy,           \* the channel was busy when MtlSendMessage was called
  TimeOut,           \* TimeOutInMicroSeconds of MtlWaitUntilChannelFree
  result             \* what the last library call returned: [status, header]

vars == <<ChannelStatus, MessageHeader, scp, pc, msg, wasBusy, TimeOut, result>>

Message == 0 .. MaxMessages
Header == [from : {"agent", "scp"}, msg : Message]
Nothing == [from |-> "scp", msg |-> 0]

Init ==
  /\ ChannelStatus = "FREE"
  /\ MessageHeader = Nothing
  /\ scp = 0
  /\ pc = "idle"
  /\ msg = 0
  /\ wasBusy = FALSE
  /\ TimeOut = 0
  /\ result = [status |-> "SUCCESS", header |-> Nothing]

Return(status, header) == result' = [status |-> status, header |-> header]

-----------------------------------------------------------------------------
(* MtlSendMessage *)

\* Fault: does not look whether the channel is busy.
FaultNoBusyCheck ==
  /\ pc = "idle" /\ msg < MaxMessages
  /\ msg' = msg + 1
  /\ wasBusy' = (ChannelStatus # "FREE")
  /\ ChannelStatus' = "BUSY"
  /\ pc' = "fill"
  /\ UNCHANGED <<MessageHeader, scp, TimeOut, result>>

\* The caller has a new command; the channel has to be free.
SendMessage ==
  /\ pc = "idle" /\ msg < MaxMessages
  /\ msg' = msg + 1
  /\ wasBusy' = (ChannelStatus # "FREE")
  /\ IF ChannelStatus # "FREE"
       THEN /\ Return("DEVICE_ERROR", Nothing)
            /\ UNCHANGED <<pc, ChannelStatus>>
       ELSE /\ ChannelStatus' = "BUSY"       \* before the mailbox is written
            /\ pc' = "fill"
            /\ UNCHANGED result
  /\ UNCHANGED <<MessageHeader, scp, TimeOut>>

FillMailbox ==
  /\ pc = "fill"
  /\ MessageHeader' = [from |-> "agent", msg |-> msg]
  /\ pc' = "ring"
  /\ UNCHANGED <<ChannelStatus, scp, msg, wasBusy, TimeOut, result>>

\* Fault: the doorbell of the channel is not rung.
FaultNoDoorbell ==
  /\ pc = "ring"
  /\ Return("SUCCESS", Nothing)
  /\ pc' = "sent"
  /\ UNCHANGED <<ChannelStatus, MessageHeader, scp, msg, wasBusy, TimeOut>>

RingDoorbell ==
  /\ pc = "ring"
  /\ scp' = MessageHeader.msg
  /\ Return("SUCCESS", Nothing)
  /\ pc' = "sent"
  /\ UNCHANGED <<ChannelStatus, MessageHeader, msg, wasBusy, TimeOut>>

\* The secure monitor refuses the call: the SCP hears nothing of it.
DoorbellFails ==
  /\ pc = "ring" /\ DoorbellMayFail
  /\ Return("DEVICE_ERROR", Nothing)
  /\ pc' = "idle"
  /\ UNCHANGED <<ChannelStatus, MessageHeader, scp, msg, wasBusy, TimeOut>>

(* MtlReceiveMessage and MtlWaitUntilChannelFree *)

ReceiveMessage ==
  /\ pc = "sent"
  /\ TimeOut' = RESPONSE_TIMEOUT
  /\ pc' = "poll"
  /\ UNCHANGED <<ChannelStatus, MessageHeader, scp, msg, wasBusy, result>>

\* The channel is free: the reply is in the mailbox.
TakeReply ==
  /\ Return("SUCCESS", MessageHeader)
  /\ pc' = "idle"
  /\ UNCHANGED <<ChannelStatus, MessageHeader, scp, msg, wasBusy, TimeOut>>

\* Fault: the status word is not looked at.
FaultTakesEarly == pc = "poll" /\ TimeOut # 0 /\ TakeReply

PollFree ==
  /\ pc = "poll" /\ TimeOut # 0 /\ ChannelStatus = "FREE"
  /\ TakeReply

\* Fault: the remaining time is not looked at.
FaultTimeUnderflows ==
  /\ pc = "poll" /\ TimeOut # 0 /\ ChannelStatus # "FREE"
  /\ TimeOut' = TimeOut - MTL_POLL_WAIT_TIME
  /\ UNCHANGED <<ChannelStatus, MessageHeader, scp, pc, msg, wasBusy, result>>

\* Fault: the remaining time is not counted down.
FaultNoCountDown ==
  /\ pc = "poll" /\ TimeOut # 0 /\ ChannelStatus # "FREE"
  /\ UNCHANGED vars

PollBusy ==
  /\ pc = "poll" /\ TimeOut # 0 /\ ChannelStatus # "FREE"
  /\ IF TimeOut < MTL_POLL_WAIT_TIME
       THEN pc' = "last" /\ UNCHANGED TimeOut
       ELSE TimeOut' = TimeOut - MTL_POLL_WAIT_TIME /\ UNCHANGED pc
  /\ UNCHANGED <<ChannelStatus, MessageHeader, scp, msg, wasBusy, result>>

\* The look after the last wait.
OutOfTime == pc = "last" \/ (pc = "poll" /\ TimeOut = 0)

LastLookFree == OutOfTime /\ ChannelStatus = "FREE" /\ TakeReply

LastLookBusy ==
  /\ OutOfTime /\ ChannelStatus # "FREE"
  /\ Return("TIMEOUT", Nothing)
  /\ pc' = "idle"
  /\ UNCHANGED <<ChannelStatus, MessageHeader, scp, msg, wasBusy, TimeOut>>

(* The SCP answers in place and then hands the channel back. *)

ScpReply ==
  /\ scp # 0 /\ MessageHeader.from = "agent"
  /\ MessageHeader' = [from |-> "scp", msg |-> MessageHeader.msg]
  /\ UNCHANGED <<ChannelStatus, scp, pc, msg, wasBusy, TimeOut, result>>

ScpRelease ==
  /\ scp # 0 /\ MessageHeader.from = "scp"
  /\ ChannelStatus' = "FREE"
  /\ scp' = 0
  /\ UNCHANGED <<MessageHeader, pc, msg, wasBusy, TimeOut, result>>

-----------------------------------------------------------------------------

Send == SendMessage \/ FillMailbox \/ RingDoorbell \/ DoorbellFails
Receive == ReceiveMessage \/ PollFree \/ PollBusy \/ LastLookFree \/ LastLookBusy
Scp == ScpReply \/ ScpRelease

Next == Send \/ Receive \/ Scp

Spec == Init /\ [][Next]_vars

\* The firmware is sequential code that runs on; calls of the caller's own
\* accord (SendMessage) are not fair.
FirmwareFairness == WF_vars(FillMailbox \/ RingDoorbell \/ DoorbellFails \/ Receive)

FairSpec == Spec /\ FirmwareFairness

-----------------------------------------------------------------------------
(* Properties *)

TypeOK ==
  /\ ChannelStatus \in {"FREE", "BUSY"}
  /\ MessageHeader \in Header
  /\ scp \in Message
  /\ pc \in {"idle", "fill", "ring", "sent", "poll", "last"}
  /\ msg \in Message
  /\ wasBusy \in BOOLEAN
  /\ TimeOut \in 0 .. RESPONSE_TIMEOUT
  /\ result \in [status : {"SUCCESS", "DEVICE_ERROR", "TIMEOUT"}, header : Header]

\* A reply that MtlReceiveMessage returns answers the command just sent, never
\* one that timed out earlier and was answered late.
ReplyIsMine ==
  pc = "idle" /\ result.status = "SUCCESS" /\ msg > 0
    => result.header = [from |-> "scp", msg |-> msg]

\* The mailbox belongs to one side at a time: while the SCP works on a message
\* the channel is marked busy and holds that message, whatever the firmware
\* has given up or tries to send meanwhile.
OneOwner ==
  scp # 0 => ChannelStatus = "BUSY" /\ MessageHeader.msg = scp

\* "If channel is free after sending message, it implies SCP responded"
\* (RkMtlLib.c:167): also for a reply that arrives at the last look.
FreeMeansAnswered ==
  pc \in {"sent", "poll", "last"} /\ ChannelStatus = "FREE"
    => MessageHeader = [from |-> "scp", msg |-> msg]

\* Every library call returns, SCP or no SCP.
CallsReturn == pc # "idle" ~> pc = "idle"

\* If the SCP goes on working, the channel of a message it was rung for becomes
\* free again, after a timeout as well.
ChannelComesBack == WF_vars(Scp) => (pc = "sent" ~> ChannelStatus = "FREE")

\* "EFI_DEVICE_ERROR: Channel is busy" (RkMtlLib.c:120).
DeviceErrorMeansBusy == result.status = "DEVICE_ERROR" => wasBusy
=============================================================================
