-------------------------------- MODULE Mshc --------------------------------
(***************************************************************************)
(* The SD host controller driver (Drivers/MshcDxe): polled transfers over  *)
(* a FIFO.  A data command is only noted by SendCommand; ReadBlockData or  *)
(* WriteBlockData issues it.  Every register access that can race with the *)
(* controller is a step of its own.                                        *)
(*                                                                         *)
(* External: the controller (a command is loaded, waits for the previous   *)
(* data if it has WAIT_PRVDATA_COMPLETE, executes, and raises bits of      *)
(* RINTSTS that only SendCommand clears), the card, and the client (MmcDxe *)
(* asks for the card's status before each request and stops the card after *)
(* a failed one or after several blocks).                                  *)
(***************************************************************************)
EXTENDS Integers, Sequences

CONSTANTS
  Words,         \* words of a transfer
  FifoDepth, FifoMark,  \* the driver writes while FifoMark words or fewer wait
  ReadTimeOut,   \* looks at an empty FIFO before ReadBlockData gives up
  MaxRequests    \* bound: requests of the client

ASSUME SizeAssumption ==
  /\ Words \in Nat \ {0}
  /\ FifoDepth \in Nat /\ FifoMark \in 0 .. FifoDepth - 1
  /\ ReadTimeOut \in Nat \ {0}
  /\ MaxRequests \in Nat

VARIABLES
  pc, status,          \* of the driver; what its last call returned
  cmd,                 \* the command SendCommand works on
  mMshcCommand,        \* the data command noted for later
  DataLen, TimeOut,    \* words still to move; looks still to take
  Buffer,              \* what ReadBlockData has stored
  req, id,             \* the client's request and its number
  loaded, executing,   \* commands in the controller
  RINTSTS,             \* raised interrupt bits
  transfer,            \* data transfer in progress: [dir, id, left, bad]
  FIFO,
  busy,                \* the card holds the data line down
  card,                \* words the card has taken of the last write
  slow,                \* which controller this is: may a command that nothing
                       \* holds back be unanswered still when the driver comes
                       \* to its next one?  It never changes
  earlyError           \* observed: a data error was raised while words of the
                       \* read in progress were still to come

driverVars == <<pc, status, cmd, mMshcCommand, DataLen, TimeOut, Buffer>>
clientVars == <<req, id>>
controllerVars == <<loaded, executing, RINTSTS, transfer, FIFO, busy, card>>
vars == <<driverVars, clientVars, controllerVars, slow, earlyError>>

Data(i) == [n \in 1 .. Words |-> [id |-> i, n |-> n]]

None == [op |-> "none", id |-> 0]
NoTransfer == [dir |-> "none", id |-> 0, left |-> 0, bad |-> FALSE]

\* Commands with BIT_CMD_WAIT_PRVDATA_COMPLETE: all but the one that stops.
WaitsForData(c) == c.op # "CMD12"

SendErrors == {"RTO", "HLE", "DCRC"}      \* ErrMask of SendCommand
ReadErrors == {"DCRC"}                    \* what ReadBlockData looks for
WriteErrors == {"DCRC", "HLE"}            \* MMC_DATA_ERROR_FLAGS

Init ==
  /\ pc = "idle" /\ status = "SUCCESS"
  /\ cmd = None /\ mMshcCommand = None
  /\ DataLen = 0 /\ TimeOut = 0 /\ Buffer = <<>>
  /\ req = "none" /\ id = 0
  /\ loaded = None /\ executing = None
  /\ RINTSTS = {} /\ transfer = NoTransfer /\ FIFO = <<>>
  /\ busy = FALSE /\ card = <<>> /\ slow \in BOOLEAN
  /\ earlyError = FALSE

-----------------------------------------------------------------------------
(* SendCommand *)

Send(c) == cmd' = c /\ pc' = "wait"

\* Returns to whoever called SendCommand.
SendReturns(s) ==
  /\ status' = s
  /\ pc' = CASE cmd.op = "CMD13" -> "asked"
             [] cmd.op = "CMD12" -> "idle"
             [] cmd.op = "READ"  -> IF s = "SUCCESS" THEN "read" ELSE "done"
             [] OTHER            -> IF s = "SUCCESS" THEN "fill" ELSE "done"

SendWait ==
  /\ pc = "wait" /\ ~busy
  /\ pc' = "clear"
  /\ UNCHANGED <<status, cmd, mMshcCommand, DataLen, TimeOut, Buffer,
                 clientVars, controllerVars, slow, earlyError>>

\* The controller can do nothing more for the commands it has been given.
Answered ==
  executing = None /\ (loaded # None => WaitsForData(loaded) /\ transfer # NoTransfer)

\* Fault: the bits of the previous command stay.
FaultKeepsBits ==
  /\ pc = "clear" /\ (slow \/ Answered)
  /\ pc' = "issue"
  /\ UNCHANGED <<status, cmd, mMshcCommand, DataLen, TimeOut, Buffer, clientVars,
                 controllerVars, slow, earlyError>>

SendClear ==
  /\ pc = "clear" /\ (slow \/ Answered)
  /\ RINTSTS' = {}
  /\ pc' = "issue"
  /\ UNCHANGED <<status, cmd, mMshcCommand, DataLen, TimeOut, Buffer, clientVars,
                 loaded, executing, transfer, FIFO, busy, card, slow, earlyError>>

\* A command that comes while another is still loaded is a hardware lock error.
SendIssue ==
  /\ pc = "issue"
  /\ IF loaded = None
       THEN loaded' = cmd /\ UNCHANGED RINTSTS
       ELSE RINTSTS' = RINTSTS \cup {"HLE"} /\ UNCHANGED loaded
  /\ pc' = "poll"
  /\ UNCHANGED <<status, cmd, mMshcCommand, DataLen, TimeOut, Buffer, clientVars,
                 executing, transfer, FIFO, busy, card, slow, earlyError>>

SendPoll ==
  /\ pc = "poll"
  /\ \/ RINTSTS \cap SendErrors # {} /\ SendReturns("DEVICE_ERROR")
     \/ /\ RINTSTS \cap SendErrors = {}
        /\ RINTSTS \cap {"DTO", "CMD_DONE"} # {}
        /\ SendReturns("SUCCESS")
  /\ UNCHANGED <<cmd, mMshcCommand, DataLen, TimeOut, Buffer,
                 clientVars, controllerVars, slow, earlyError>>

(* ReadBlockData and WriteBlockData: both begin alike. *)

DataWait ==
  /\ pc = "data" /\ ~busy
  /\ pc' = "fifo"
  /\ UNCHANGED <<status, cmd, mMshcCommand, DataLen, TimeOut, Buffer,
                 clientVars, controllerVars, slow, earlyError>>

\* Fault: the FIFO is taken as it is.
FaultNoReset ==
  /\ pc = "fifo"
  /\ Send(mMshcCommand)
  /\ DataLen' = Words
  /\ TimeOut' = ReadTimeOut
  /\ UNCHANGED <<status, mMshcCommand, Buffer, clientVars, controllerVars, slow, earlyError>>

\* What an earlier transfer has left in the FIFO is thrown away, if the reset
\* succeeds.
ResetFifo ==
  /\ pc = "fifo"
  /\ \/ /\ FIFO' = <<>>
        /\ Send(mMshcCommand)
        /\ UNCHANGED status
     \/ /\ FIFO # <<>>
        /\ status' = "DEVICE_ERROR"
        /\ pc' = "done"
        /\ UNCHANGED <<FIFO, cmd>>
  /\ DataLen' = Words
  /\ TimeOut' = ReadTimeOut
  /\ UNCHANGED <<mMshcCommand, Buffer, clientVars, loaded, executing, RINTSTS,
                 transfer, busy, card, slow, earlyError>>

Finish(s) == status' = s /\ pc' = "done"

ReadCheck ==
  /\ pc = "read"
  /\ IF RINTSTS \cap ReadErrors # {}
       THEN Finish("DEVICE_ERROR")
       ELSE pc' = "pop" /\ UNCHANGED status
  /\ UNCHANGED <<cmd, mMshcCommand, DataLen, TimeOut, Buffer,
                 clientVars, controllerVars, slow, earlyError>>

ReadWord ==
  /\ pc = "pop" /\ FIFO # <<>>
  /\ Buffer' = Append(Buffer, Head(FIFO))
  /\ FIFO' = Tail(FIFO)
  /\ DataLen' = DataLen - 1
  /\ TimeOut' = ReadTimeOut
  /\ pc' = IF DataLen' = 0 THEN "last" ELSE "pop"
  /\ UNCHANGED <<status, cmd, mMshcCommand, clientVars, loaded, executing,
                 RINTSTS, transfer, busy, card, slow, earlyError>>

\* Fault: the time starts again with each look.
FaultNoCountDown ==
  /\ pc = "pop" /\ FIFO = <<>>
  /\ TimeOut' = ReadTimeOut
  /\ pc' = "read"
  /\ UNCHANGED <<status, cmd, mMshcCommand, DataLen, Buffer,
                 clientVars, controllerVars, slow, earlyError>>

ReadEmpty ==
  /\ pc = "pop" /\ FIFO = <<>>
  /\ TimeOut' = TimeOut - 1
  /\ IF TimeOut' = 0 THEN Finish("DEVICE_ERROR")
                     ELSE pc' = "read" /\ UNCHANGED status
  /\ UNCHANGED <<cmd, mMshcCommand, DataLen, Buffer,
                 clientVars, controllerVars, slow, earlyError>>

\* Fault: no look at the bits after the last word.
FaultNoLastLook ==
  /\ pc = "last"
  /\ Finish("SUCCESS")
  /\ UNCHANGED <<cmd, mMshcCommand, DataLen, TimeOut, Buffer,
                 clientVars, controllerVars, slow, earlyError>>

ReadLast ==
  /\ pc = "last"
  /\ Finish(IF RINTSTS \cap ReadErrors # {} THEN "DEVICE_ERROR" ELSE "SUCCESS")
  /\ UNCHANGED <<cmd, mMshcCommand, DataLen, TimeOut, Buffer,
                 clientVars, controllerVars, slow, earlyError>>

WriteWord ==
  /\ pc = "fill" /\ Len(FIFO) <= FifoMark
  /\ FIFO' = Append(FIFO, Data(id)[Words - DataLen + 1])
  /\ DataLen' = DataLen - 1
  /\ pc' = IF DataLen' = 0 THEN "over" ELSE "fill"
  /\ UNCHANGED <<status, cmd, mMshcCommand, TimeOut, Buffer, clientVars, loaded,
                 executing, RINTSTS, transfer, busy, card, slow, earlyError>>

WriteOver ==
  /\ pc = "over"
  /\ \/ RINTSTS \cap WriteErrors # {} /\ Finish("DEVICE_ERROR")
     \/ RINTSTS \cap WriteErrors = {} /\ "DTO" \in RINTSTS /\ Finish("SUCCESS")
  /\ UNCHANGED <<cmd, mMshcCommand, DataLen, TimeOut, Buffer,
                 clientVars, controllerVars, slow, earlyError>>

(* The client *)

Request(r) ==
  /\ pc = "idle" /\ id < MaxRequests
  /\ req' = r
  /\ id' = id + 1
  /\ Send([op |-> "CMD13", id |-> id'])
  /\ UNCHANGED <<status, mMshcCommand, DataLen, TimeOut, Buffer,
                 controllerVars, slow, earlyError>>

\* The card is not ready, or did not answer.
AskAgain ==
  /\ pc = "asked"
  /\ Send([op |-> "CMD13", id |-> id])
  /\ UNCHANGED <<status, mMshcCommand, DataLen, TimeOut, Buffer,
                 clientVars, controllerVars, slow, earlyError>>

NotReady ==
  /\ pc = "asked" /\ status # "SUCCESS"
  /\ pc' = "idle"
  /\ UNCHANGED <<status, cmd, mMshcCommand, DataLen, TimeOut, Buffer,
                 clientVars, controllerVars, slow, earlyError>>

\* MshcSendCommand notes a data command; the client calls the driver again.
MshcSendCommand ==
  /\ pc = "asked" /\ status = "SUCCESS"
  /\ mMshcCommand' = [op |-> req, id |-> id]
  /\ pc' = "data"
  /\ Buffer' = <<>>
  /\ earlyError' = FALSE
  /\ UNCHANGED <<status, cmd, DataLen, TimeOut, clientVars, controllerVars, slow>>

StopTransmission ==
  /\ pc = "done"
  /\ Send([op |-> "CMD12", id |-> id])
  /\ UNCHANGED <<status, mMshcCommand, DataLen, TimeOut, Buffer,
                 clientVars, controllerVars, slow, earlyError>>

OneBlockDone ==
  /\ pc = "done" /\ status = "SUCCESS"
  /\ pc' = "idle"
  /\ UNCHANGED <<status, cmd, mMshcCommand, DataLen, TimeOut, Buffer,
                 clientVars, controllerVars, slow, earlyError>>

(* The controller and the card *)

Accept ==
  /\ loaded # None /\ executing = None
  /\ WaitsForData(loaded) => transfer = NoTransfer
  /\ executing' = loaded
  /\ loaded' = None
  /\ UNCHANGED <<driverVars, clientVars, RINTSTS, transfer, FIFO, busy, card,
                 slow, earlyError>>

Start ==
  /\ transfer' = [dir |-> executing.op, id |-> executing.id,
                  left |-> Words, bad |-> FALSE]
  /\ card' = IF executing.op = "WRITE" THEN <<>> ELSE card

Respond ==
  /\ executing # None
  /\ RINTSTS' = RINTSTS \cup {"CMD_DONE"}
  /\ executing' = None
  /\ CASE executing.op \in {"READ", "WRITE"} -> Start
       [] executing.op = "CMD12" -> /\ transfer' = [transfer EXCEPT !.left = 0]
                                    /\ UNCHANGED card
       [] OTHER -> UNCHANGED <<transfer, card>>
  /\ UNCHANGED <<driverVars, clientVars, loaded, FIFO, busy, slow, earlyError>>

\* No response, or a bad one: of a read the data may come all the same.
NoResponse ==
  /\ executing # None
  /\ RINTSTS' = RINTSTS \cup {"CMD_DONE", "RTO"}
  /\ executing' = None
  /\ IF executing.op = "READ" THEN Start \/ UNCHANGED <<transfer, card>>
                              ELSE UNCHANGED <<transfer, card>>
  /\ UNCHANGED <<driverVars, clientVars, loaded, FIFO, busy, slow, earlyError>>

DataIn ==
  /\ transfer.dir = "READ" /\ transfer.left > 0 /\ Len(FIFO) < FifoDepth
  /\ FIFO' = Append(FIFO, Data(transfer.id)[Words - transfer.left + 1])
  /\ transfer' = [transfer EXCEPT !.left = @ - 1]
  /\ UNCHANGED <<driverVars, clientVars, loaded, executing, RINTSTS, busy, card,
                 slow, earlyError>>

DataOut ==
  /\ transfer.dir = "WRITE" /\ transfer.left > 0 /\ FIFO # <<>>
  /\ card' = Append(card, Head(FIFO))
  /\ FIFO' = Tail(FIFO)
  /\ transfer' = [transfer EXCEPT !.left = @ - 1]
  /\ UNCHANGED <<driverVars, clientVars, loaded, executing, RINTSTS, busy,
                 slow, earlyError>>

DataError ==
  /\ transfer # NoTransfer /\ ~transfer.bad
  /\ RINTSTS' = RINTSTS \cup {"DCRC"}
  /\ transfer' = [transfer EXCEPT !.left = 0, !.bad = TRUE]
  /\ earlyError' = (earlyError \/ (pc \in {"read", "pop"} /\ DataLen > 0))
  /\ UNCHANGED <<driverVars, clientVars, loaded, executing, FIFO, busy, card, slow>>

DataOver ==
  /\ transfer # NoTransfer /\ transfer.left = 0
  /\ RINTSTS' = RINTSTS \cup {"DTO"}
  /\ busy' = (busy \/ transfer.dir = "WRITE")
  /\ transfer' = NoTransfer
  /\ UNCHANGED <<driverVars, clientVars, loaded, executing, FIFO, card, slow, earlyError>>

BusyEnds ==
  /\ busy
  /\ busy' = FALSE
  /\ UNCHANGED <<driverVars, clientVars, loaded, executing, RINTSTS, transfer,
                 FIFO, card, slow, earlyError>>

-----------------------------------------------------------------------------

Driver ==
  \/ SendWait \/ SendClear \/ SendIssue \/ SendPoll
  \/ DataWait \/ ResetFifo
  \/ ReadCheck \/ ReadWord \/ ReadEmpty \/ ReadLast
  \/ WriteWord \/ WriteOver

Client ==
  \/ \E r \in {"READ", "WRITE"} : Request(r)
  \/ AskAgain \/ NotReady \/ MshcSendCommand \/ StopTransmission \/ OneBlockDone

Controller ==
  \/ Accept \/ Respond \/ NoResponse
  \/ DataIn \/ DataOut \/ DataError \/ DataOver \/ BusyEnds

Next == Driver \/ Client \/ Controller

Spec == Init /\ [][Next]_vars

\* The driver runs on; the controller answers every command it can execute and
\* the card is not busy for ever.  Nothing makes the card send its data.
FairSpec ==
  /\ Spec
  /\ WF_vars(Driver)
  /\ WF_vars(Accept)
  /\ WF_vars(Respond \/ NoResponse)
  /\ WF_vars(BusyEnds)

-----------------------------------------------------------------------------
(* Properties *)

\* Unless the controller is slow, the words ReadBlockData stores are those of
\* the block that was asked for, in order: never one that an earlier transfer,
\* given up by the driver, left in the FIFO or still delivers.
ReadsOwnData ==
  req = "READ" /\ ~slow =>
    \A n \in DOMAIN Buffer : Buffer[n] = Data(mMshcCommand.id)[n]

\* Unless the controller is slow, a write that succeeds has been taken by the
\* card as a whole: the bit that says "transfer over" is never the one of
\* another transfer.
WriteIsStored ==
  ~slow /\ pc = "done" /\ req = "WRITE" /\ status = "SUCCESS" => card = Data(id)

\* A data error raised before the last word was read makes the read fail, also
\* when it is raised between the check and that word.
EarlyErrorReported ==
  pc = "done" /\ req = "READ" /\ earlyError => status # "SUCCESS"

\* A read ends, whether the card sends its data or not.
ReadReturns ==
  pc = "data" /\ req = "READ" ~> pc = "done"

\* "Wait until MMC is idle" (MshcDxe.c:308).
IdleWhenIssued ==
  pc = "clear" /\ cmd.op # "CMD12" => transfer = NoTransfer
=============================================================================
