---------------------------- MODULE RkMtlProofs ----------------------------
(* The mailbox is safe for any number of commands, any timeout and a        *)
(* doorbell that may or may not fail.                                       *)
EXTENDS RkMtl, TLAPS

\* While the firmware fills the mailbox nobody else has it ...
Filling ==
  /\ pc \in {"fill", "ring"} => ChannelStatus = "BUSY" /\ scp = 0 /\ msg > 0
  /\ pc = "ring" => MessageHeader = [from |-> "agent", msg |-> msg]

\* ... and while it waits the mailbox holds its own command or the answer.
Waiting ==
  pc \in {"sent", "poll", "last"} =>
    /\ msg > 0
    /\ MessageHeader.msg = msg
    /\ ChannelStatus = "FREE" => MessageHeader.from = "scp"

IInv == TypeOK /\ OneOwner /\ Filling /\ Waiting /\ ReplyIsMine

LEMMA InitInv == Init => IInv
<1> SUFFICES ASSUME Init PROVE IInv
  OBVIOUS
<1>1. Nothing \in Header
  BY TimeAssumption DEF Nothing, Header, Message
<1>2. TypeOK
  <2>1. result \in [status : {"SUCCESS", "DEVICE_ERROR", "TIMEOUT"}, header : Header]
    BY <1>1 DEF Init
  <2>2. wasBusy \in BOOLEAN
    BY DEF Init
  <2>3. ChannelStatus \in {"FREE", "BUSY"} /\ MessageHeader \in Header
    BY <1>1 DEF Init
  <2>4. scp \in Message /\ msg \in Message /\ TimeOut \in 0 .. RESPONSE_TIMEOUT
    BY TimeAssumption DEF Init, Message
  <2>5. pc \in {"idle", "fill", "ring", "sent", "poll", "last"}
    BY DEF Init
  <2> QED
    BY <2>1, <2>2, <2>3, <2>4, <2>5 DEF TypeOK
<1> QED
  BY <1>2 DEF Init, IInv, OneOwner, Filling, Waiting, ReplyIsMine

\* A new command takes the mailbox only if the SCP is not at work on it.
LEMMA SendInv == IInv /\ Send => IInv'
<1> SUFFICES ASSUME IInv, Send PROVE IInv'
  OBVIOUS
<1> USE TimeAssumption
    DEF IInv, TypeOK, OneOwner, Filling, Waiting, ReplyIsMine, Nothing,
        Header, Message, Return
<1>1. CASE SendMessage
  BY <1>1 DEF SendMessage
<1>2. CASE FillMailbox
  BY <1>2 DEF FillMailbox
<1>3. CASE RingDoorbell
  BY <1>3 DEF RingDoorbell
<1>4. CASE DoorbellFails
  BY <1>4 DEF DoorbellFails
<1> QED BY <1>1, <1>2, <1>3, <1>4 DEF Send

\* A reply is taken only from a free channel; giving up leaves it as it is.
LEMMA ReceiveInv == IInv /\ Receive => IInv'
<1> SUFFICES ASSUME IInv, Receive PROVE IInv'
  OBVIOUS
<1> USE TimeAssumption
    DEF IInv, TypeOK, OneOwner, Filling, Waiting, ReplyIsMine, Nothing,
        Header, Message, Return
<1>1. CASE ReceiveMessage
  BY <1>1 DEF ReceiveMessage
<1>2. CASE PollFree
  BY <1>2 DEF PollFree, TakeReply
<1>3. CASE PollBusy
  BY <1>3 DEF PollBusy
<1>4. CASE LastLookFree
  BY <1>4 DEF LastLookFree, OutOfTime, TakeReply
<1>5. CASE LastLookBusy
  BY <1>5 DEF LastLookBusy, OutOfTime
<1> QED BY <1>1, <1>2, <1>3, <1>4, <1>5 DEF Receive

\* The SCP writes only while the message is its own.
LEMMA ScpInv == IInv /\ Scp => IInv'
<1> SUFFICES ASSUME IInv, Scp PROVE IInv'
  OBVIOUS
<1> USE TimeAssumption
    DEF IInv, TypeOK, OneOwner, Filling, Waiting, ReplyIsMine, Header, Message
<1>1. CASE ScpReply
  BY <1>1 DEF ScpReply
<1>2. CASE ScpRelease
  BY <1>2 DEF ScpRelease
<1> QED BY <1>1, <1>2 DEF Scp

LEMMA StutterInv == IInv /\ UNCHANGED vars => IInv'
  BY DEF IInv, vars, TypeOK, OneOwner, Filling, Waiting, ReplyIsMine

\* The inductive invariant of the transport: who may write the mailbox in each
\* phase of MtlSendMessage and MtlReceiveMessage.
THEOREM Invariance == Spec => []IInv
<1>1. IInv /\ [Next]_vars => IInv'
  BY SendInv, ReceiveInv, ScpInv, StutterInv DEF Next
<1> QED BY InitInv, <1>1, PTL DEF Spec

\* The variables keep their types; the remaining time never runs below zero
\* (RkMtlLib.c:55).
THEOREM TypeCorrect == Spec => []TypeOK
<1>1. IInv => TypeOK
  BY DEF IInv
<1> QED BY Invariance, <1>1, PTL

\* A reply answers the command just sent, however many timed out before.
THEOREM RepliesMatch == Spec => []ReplyIsMine
<1>1. IInv => ReplyIsMine
  BY DEF IInv
<1> QED BY Invariance, <1>1, PTL

\* The mailbox has one owner at a time.
THEOREM MailboxOwned == Spec => []OneOwner
<1>1. IInv => OneOwner
  BY DEF IInv
<1> QED BY Invariance, <1>1, PTL

\* "If channel is free after sending message, it implies SCP responded"
\* (RkMtlLib.c:167).
THEOREM FreeIsAnswer == Spec => []FreeMeansAnswered
<1>1. IInv => FreeMeansAnswered
  BY DEF IInv, Waiting, FreeMeansAnswered, TypeOK, Header
<1> QED BY Invariance, <1>1, PTL
=============================================================================
