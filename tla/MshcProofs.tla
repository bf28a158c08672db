----------------------------- MODULE MshcProofs -----------------------------
(* The SD host controller driver, for every number of words, FIFO depth,     *)
(* time-out and number of requests: what it reads and writes is the data of  *)
(* the request, and an error that is raised is reported.                     *)
EXTENDS Mshc, TLAPS

-----------------------------------------------------------------------------
(* The inductive invariant: the driver *)

DataOps == {"READ", "WRITE"}
Commands == {None} \cup [op : {"CMD12", "CMD13", "READ", "WRITE"}, id : Nat]
WordType == [id : Nat, n : 1 .. Words]
Sending == pc \in {"wait", "clear", "issue", "poll"}

TypeInv ==
  /\ pc \in {"idle", "wait", "clear", "issue", "poll", "asked", "data", "fifo",
             "read", "pop", "last", "fill", "over", "done"}
  /\ status \in {"SUCCESS", "DEVICE_ERROR"}
  /\ cmd \in Commands /\ mMshcCommand \in Commands
  /\ loaded \in Commands /\ executing \in Commands
  /\ DataLen \in 0 .. Words
  /\ Buffer \in Seq(WordType) /\ FIFO \in Seq(WordType) /\ card \in Seq(WordType)
  /\ req \in {"none", "READ", "WRITE"} /\ id \in Nat
  /\ RINTSTS \subseteq {"CMD_DONE", "DTO", "DCRC", "RTO", "HLE"}
  /\ transfer \in [dir : {"none", "READ", "WRITE"}, id : Nat, left : 0 .. Words,
                   bad : BOOLEAN]
  /\ busy \in BOOLEAN /\ slow \in BOOLEAN /\ earlyError \in BOOLEAN

\* The data command is given to the controller, or being carried out.
Moving ==
  \/ Sending /\ cmd.op \in DataOps
  \/ pc \in {"read", "pop", "last", "fill", "over"}

\* The command that the driver works on is that of the client's request.
OwnCommand ==
  /\ pc # "idle" => req \in DataOps
  /\ Sending => cmd # None
  /\ pc \in {"data", "fifo"} \/ Moving => mMshcCommand = [op |-> req, id |-> id]
  /\ Moving => cmd = mMshcCommand
  /\ pc \in {"read", "pop", "last"} => req = "READ"
  /\ pc \in {"fill", "over"} => req = "WRITE"

\* How far it has come.
Progress ==
  /\ pc \in {"read", "pop", "fill"} => DataLen > 0
  /\ Sending /\ cmd.op \in DataOps => DataLen = Words
  /\ pc \in {"data", "fifo"} \/ (Moving /\ req = "WRITE") => Buffer = <<>>
  /\ Moving /\ req = "READ" => Len(Buffer) = Words - DataLen
  /\ Len(Buffer) <= Words

\* Where an early error has been noticed.
ErrorKept ==
  earlyError =>
    /\ ~(Sending /\ cmd.op \in DataOps) /\ pc \notin {"data", "fifo", "fill", "over"}
    /\ pc \in {"read", "pop", "last"} => "DCRC" \in RINTSTS
    /\ pc = "done" => status # "SUCCESS"

DriverInv == TypeInv /\ OwnCommand /\ Progress /\ ErrorKept

-----------------------------------------------------------------------------
(* The inductive invariant: the controller, if it is not slow *)

\* Nothing in the controller can move data.
Quiet ==
  /\ loaded.op \in {"none", "CMD13"} /\ executing.op \in {"none", "CMD13"}
  /\ transfer = NoTransfer

\* A data command that is not answered is the one the driver waits for, and
\* no data moves before it is.
DataCommands ==
  /\ executing.op \in {"CMD13", "READ", "WRITE"} => transfer = NoTransfer
  /\ loaded.op \in DataOps \/ executing.op \in DataOps => pc = "poll" /\ cmd.op \in DataOps

\* The answer to a status request says that the data of before is over,
\* whether it is that answer or the end of that data which the driver sees.
StatusAnswer ==
  /\ pc \in {"issue", "poll"} /\ cmd.op = "CMD13" =>
       /\ loaded.op \in {"none", "CMD13"} /\ executing.op \in {"none", "CMD13"}
       /\ RINTSTS \cap {"DTO", "CMD_DONE"} # {} => transfer = NoTransfer
  /\ pc \in {"data", "fifo"} \/ (pc = "asked" /\ status = "SUCCESS") => Quiet

\* So the data command comes to an idle controller and an empty FIFO.
CleanStart ==
  pc \in {"wait", "clear", "issue"} /\ cmd.op \in DataOps =>
    /\ Quiet /\ FIFO = <<>>
    /\ pc = "issue" => loaded = None /\ executing = None /\ RINTSTS = {}

\* From then on what the controller does, it does for this command.
OwnTransfer ==
  (pc = "poll" /\ cmd.op \in DataOps) \/ pc \in {"read", "pop", "last", "fill", "over"} =>
    /\ loaded \in {None, cmd} /\ executing \in {None, cmd}
    /\ loaded = cmd \/ executing = cmd =>
         pc = "poll" /\ transfer = NoTransfer /\ RINTSTS = {} /\ FIFO = <<>>
    /\ loaded = cmd => executing = None
    /\ loaded = None /\ executing = None => "CMD_DONE" \in RINTSTS
    /\ transfer # NoTransfer => transfer.dir = cmd.op /\ transfer.id = cmd.id

\* The stream s is the words n + 1, n + 2, ... of block i.
From(s, i, n) == \A k \in 1 .. Len(s) : s[k] = Data(i)[n + k]

\* The words of a read are in the buffer and the FIFO, in order.
ReadStream ==
  /\ From(Buffer, mMshcCommand.id, 0)
  /\ (pc = "poll" /\ cmd.op = "READ") \/ pc \in {"read", "pop", "last"} =>
       /\ Len(Buffer) + Len(FIFO) <= Words
       /\ From(FIFO, cmd.id, Len(Buffer))
       /\ transfer.left > 0 => Len(Buffer) + Len(FIFO) = Words - transfer.left

\* The words of a write are with the card and in the FIFO, in order, once the
\* command has been answered.
WriteStream ==
  /\ (pc = "poll" /\ cmd.op = "WRITE" /\ "CMD_DONE" \in RINTSTS /\ "RTO" \notin RINTSTS)
     \/ pc \in {"fill", "over"} =>
       /\ Len(card) + Len(FIFO) = Words - DataLen
       /\ From(card, cmd.id, 0) /\ From(FIFO, cmd.id, Len(card))
       /\ transfer # NoTransfer /\ ~transfer.bad => transfer.left = Words - Len(card)
       /\ transfer.bad => "DCRC" \in RINTSTS
       /\ "DTO" \in RINTSTS =>
            transfer = NoTransfer /\ ("DCRC" \in RINTSTS \/ Len(card) = Words)
  /\ pc = "done" /\ req = "WRITE" /\ status = "SUCCESS" =>
       loaded = None /\ executing = None /\ transfer = NoTransfer /\ card = Data(id)

ControllerInv ==
  ~slow => /\ DataCommands /\ StatusAnswer /\ CleanStart /\ OwnTransfer
           /\ ReadStream /\ WriteStream

IInv == DriverInv /\ ControllerInv

-----------------------------------------------------------------------------
(* The driver's part is kept by every step. *)

LEMMA CommandIs ==
  ASSUME NEW c \in Commands
  PROVE  /\ c.op \in {"none", "CMD12", "CMD13", "READ", "WRITE"} /\ c.id \in Nat
         /\ c.op = "none" <=> c = None
         /\ c # None => c.op \in {"CMD12", "CMD13", "READ", "WRITE"}
BY DEF Commands, None

LEMMA DataWord ==
  ASSUME NEW i \in Nat, NEW n \in 1 .. Words
  PROVE  Data(i)[n] \in WordType /\ Data(i)[n] = [id |-> i, n |-> n]
BY DEF Data, WordType

LEMMA StreamType ==
  ASSUME NEW s \in Seq(WordType), NEW w \in WordType
  PROVE  /\ Append(s, w) \in Seq(WordType) /\ Len(Append(s, w)) = Len(s) + 1
         /\ Len(s) \in Nat
         /\ s # <<>> => /\ Tail(s) \in Seq(WordType) /\ Head(s) \in WordType
                        /\ Len(Tail(s)) = Len(s) - 1 /\ Len(s) > 0
OBVIOUS

\* Where SendCommand returns to.
LEMMA ReturnsTo ==
  ASSUME NEW s, SendReturns(s), TypeInv, cmd # None
  PROVE  /\ status' = s
         /\ cmd.op = "CMD13" => pc' = "asked"
         /\ cmd.op = "CMD12" => pc' = "idle"
         /\ cmd.op \in DataOps /\ s # "SUCCESS" => pc' = "done"
         /\ cmd.op = "READ" /\ s = "SUCCESS" => pc' = "read"
         /\ cmd.op = "WRITE" /\ s = "SUCCESS" => pc' = "fill"
         /\ pc' \in {"asked", "idle", "done", "read", "fill"}
<1>1. cmd.op \in {"CMD12", "CMD13", "READ", "WRITE"}
  BY CommandIs DEF TypeInv
<1>2. /\ "CMD12" # "CMD13" /\ "CMD12" # "READ" /\ "CMD12" # "WRITE" /\ "CMD13" # "READ"
      /\ "CMD13" # "WRITE" /\ "READ" # "WRITE"
  OBVIOUS
<1>3. status' = s
  BY DEF SendReturns
<1>4. cmd.op = "CMD13" => pc' = "asked"
  BY <1>2, Zenon DEF SendReturns
<1>5. cmd.op = "CMD12" => pc' = "idle"
  BY <1>2, Zenon DEF SendReturns
<1>6. cmd.op \in {"READ", "WRITE"} /\ s # "SUCCESS" => pc' = "done"
  BY <1>2, Zenon DEF SendReturns
<1>7. cmd.op = "READ" /\ s = "SUCCESS" => pc' = "read"
  BY <1>2, Zenon DEF SendReturns
<1>8. cmd.op = "WRITE" /\ s = "SUCCESS" => pc' = "fill"
  BY <1>2, Zenon DEF SendReturns
<1> QED BY <1>1, <1>3, <1>4, <1>5, <1>6, <1>7, <1>8 DEF DataOps

\* A poll that ends has seen an answer or the end of a transfer.
LEMMA PollSees ==
  ASSUME SendPoll
  PROVE  /\ pc = "poll" /\ RINTSTS # {}
         /\ UNCHANGED <<cmd, mMshcCommand, DataLen, TimeOut, Buffer, clientVars,
                        controllerVars, slow, earlyError>>
         /\ \/ SendReturns("DEVICE_ERROR")
            \/ /\ RINTSTS \cap SendErrors = {} /\ RINTSTS \cap {"DTO", "CMD_DONE"} # {}
               /\ SendReturns("SUCCESS")
BY DEF SendPoll

LEMMA InitInv == Init => IInv
<1> SUFFICES ASSUME Init PROVE IInv
  OBVIOUS
<1>1. TypeInv
  <2>1. NoTransfer \in [dir : {"none", "READ", "WRITE"}, id : Nat, left : 0 .. Words,
                        bad : BOOLEAN]
    BY SizeAssumption DEF NoTransfer
  <2>2. None \in Commands /\ <<>> \in Seq(WordType) /\ 0 \in 0 .. Words
    BY SizeAssumption DEF Commands
  <2> HIDE DEF None, NoTransfer
  <2> QED BY <2>1, <2>2 DEF Init, TypeInv
<1>2. OwnCommand /\ Progress /\ ErrorKept
  BY SizeAssumption DEF Init, OwnCommand, Progress, ErrorKept, Moving, Sending
<1>3. ControllerInv
  BY DEF Init, ControllerInv, DataCommands, StatusAnswer, CleanStart, OwnTransfer,
         ReadStream, WriteStream, From, None, DataOps
<1> QED BY <1>1, <1>2, <1>3 DEF IInv, DriverInv

LEMMA TypeInvStep == DriverInv /\ [Next]_vars => TypeInv'
<1> SUFFICES ASSUME DriverInv, [Next]_vars PROVE TypeInv'
  OBVIOUS
<1> USE DEF driverVars, clientVars, controllerVars
<1>0. TypeInv /\ OwnCommand /\ Progress
  BY DEF DriverInv
<1>1. CASE UNCHANGED vars
  BY <1>0, <1>1 DEF vars, TypeInv
<1>2. CASE SendWait \/ SendClear \/ SendIssue \/ DataWait \/ ReadCheck \/ ReadLast \/ WriteOver
  BY <1>0, <1>2 DEF TypeInv, SendWait, SendClear, SendIssue, DataWait, ReadCheck, ReadLast,
                    WriteOver, Finish
<1>3. CASE SendPoll
  <2>1. pc' \in {"asked", "idle", "done", "read", "fill"}
        /\ status' \in {"SUCCESS", "DEVICE_ERROR"}
    BY <1>0, <1>3, PollSees, ReturnsTo DEF OwnCommand, Sending
  <2> QED BY <1>0, <1>3, <2>1, PollSees DEF TypeInv
<1>4. CASE ResetFifo
  <2>1. <<>> \in Seq(WordType) /\ Words \in 0 .. Words
    BY SizeAssumption
  <2> QED BY <1>0, <1>4, <2>1 DEF TypeInv, ResetFifo, Send
<1>5. CASE ReadWord
  <2>1. Buffer' \in Seq(WordType) /\ FIFO' \in Seq(WordType)
    BY <1>0, <1>5, StreamType DEF TypeInv, ReadWord
  <2>2. DataLen' \in 0 .. Words
    BY <1>0, <1>5, SizeAssumption DEF TypeInv, ReadWord, Progress
  <2> QED BY <1>0, <1>5, <2>1, <2>2 DEF TypeInv, ReadWord
<1>6. CASE ReadEmpty
  BY <1>0, <1>6 DEF TypeInv, ReadEmpty, Finish
<1>7. CASE WriteWord
  <2>1. DataLen \in 1 .. Words
    BY <1>0, <1>7, SizeAssumption DEF TypeInv, WriteWord, Progress
  <2>2. Words - DataLen + 1 \in 1 .. Words
    BY <2>1, SizeAssumption
  <2>3. FIFO' \in Seq(WordType)
    BY <1>0, <1>7, <2>2, DataWord, StreamType DEF TypeInv, WriteWord
  <2> QED BY <1>0, <1>7, <2>1, <2>3, SizeAssumption DEF TypeInv, WriteWord
<1>8. CASE Client
  <2>1. ASSUME NEW i \in Nat, NEW o \in {"CMD12", "CMD13", "READ", "WRITE"}
        PROVE  [op |-> o, id |-> i] \in Commands
    BY DEF Commands
  <2>2. ASSUME NEW r \in {"READ", "WRITE"}, Request(r) PROVE TypeInv'
    <3>1. id + 1 \in Nat /\ id' = id + 1 /\ cmd' = [op |-> "CMD13", id |-> id']
      BY <1>0, <2>2 DEF TypeInv, Request, Send
    <3>2. cmd' \in Commands
      BY <2>1, <3>1
    <3> QED BY <1>0, <2>2, <3>1, <3>2 DEF TypeInv, Request, Send
  <2>3. CASE AskAgain \/ NotReady \/ StopTransmission \/ OneBlockDone
    BY <1>0, <2>1, <2>3 DEF TypeInv, AskAgain, NotReady, StopTransmission, OneBlockDone, Send
  <2>4. CASE MshcSendCommand
    <3>1. [op |-> req, id |-> id] \in Commands
      BY <1>0, <2>1, <2>4 DEF TypeInv, OwnCommand, MshcSendCommand, DataOps
    <3>2. <<>> \in Seq(WordType)
      OBVIOUS
    <3> QED BY <1>0, <2>4, <3>1, <3>2 DEF TypeInv, MshcSendCommand
  <2> QED BY <1>8, <2>2, <2>3, <2>4 DEF Client
<1>9. CASE Accept \/ BusyEnds
  <2>1. None \in Commands
    BY DEF Commands
  <2>2. CASE Accept
    <3>1. executing' \in Commands /\ loaded' \in Commands
      BY <1>0, <2>1, <2>2 DEF TypeInv, Accept
    <3> QED BY <1>0, <2>2, <3>1, SMTT(30) DEF TypeInv, Accept
  <2>3. CASE BusyEnds
    BY <1>0, <2>3, ZenonT(40) DEF TypeInv, BusyEnds
  <2> QED BY <1>9, <2>2, <2>3
<1>10. CASE Respond \/ NoResponse
  <2>1. executing.id \in Nat /\ executing.op \in {"CMD12", "CMD13", "READ", "WRITE"}
        /\ executing' = None
    BY <1>0, <1>10, CommandIs DEF TypeInv, Respond, NoResponse
  <2>2. /\ transfer' \in [dir : {"none", "READ", "WRITE"}, id : Nat, left : 0 .. Words,
                          bad : BOOLEAN]
        /\ card' \in Seq(WordType)
    <3>1. Start /\ executing.op \in {"READ", "WRITE"} =>
            /\ transfer' \in [dir : {"none", "READ", "WRITE"}, id : Nat, left : 0 .. Words,
                              bad : BOOLEAN]
            /\ card' \in Seq(WordType)
      BY <1>0, <2>1, SizeAssumption DEF TypeInv, Start
    <3>2. CASE NoResponse
      BY <1>0, <3>1, <3>2 DEF TypeInv, NoResponse
    <3>3. CASE Respond /\ executing.op \in {"READ", "WRITE"}
      BY <1>0, <3>1, <3>3, Zenon DEF Respond
    <3>4. CASE Respond /\ executing.op = "CMD12"
      <4>1. transfer' = [transfer EXCEPT !.left = 0] /\ card' = card
        BY <3>4 DEF Respond
      <4>2. 0 \in 0 .. Words
        BY SizeAssumption
      <4> QED BY <1>0, <4>1, <4>2 DEF TypeInv
    <3>5. CASE Respond /\ executing.op = "CMD13"
      BY <1>0, <3>5 DEF TypeInv, Respond
    <3> QED BY <1>10, <2>1, <3>2, <3>3, <3>4, <3>5
  <2>3. RINTSTS' \subseteq {"CMD_DONE", "DTO", "DCRC", "RTO", "HLE"} /\ None \in Commands
    BY <1>0, <1>10 DEF TypeInv, Respond, NoResponse, Commands
  <2> QED BY <1>0, <1>10, <2>1, <2>2, <2>3 DEF TypeInv, Respond, NoResponse
<1>11. CASE DataIn
  <2>1. transfer.left \in 1 .. Words /\ transfer.id \in Nat
    BY <1>0, <1>11, SizeAssumption DEF TypeInv, DataIn
  <2>2. Words - transfer.left + 1 \in 1 .. Words /\ transfer.left - 1 \in 0 .. Words
    BY <2>1, SizeAssumption
  <2>3. FIFO' \in Seq(WordType)
    BY <1>0, <1>11, <2>1, <2>2, DataWord, StreamType DEF TypeInv, DataIn
  <2>4. transfer' = [transfer EXCEPT !.left = transfer.left - 1]
    BY <1>11 DEF DataIn
  <2>5. transfer' \in [dir : {"none", "READ", "WRITE"}, id : Nat, left : 0 .. Words,
                      bad : BOOLEAN]
    BY <1>0, <2>2, <2>4 DEF TypeInv
  <2>6. UNCHANGED <<driverVars, clientVars, loaded, executing, RINTSTS, busy, card,
                    slow, earlyError>>
    BY <1>11 DEF DataIn
  <2> QED BY <1>0, <2>3, <2>5, <2>6, ZenonT(40) DEF TypeInv
<1>12. CASE DataOut
  <2>1. FIFO' \in Seq(WordType) /\ card' \in Seq(WordType)
    BY <1>0, <1>12, StreamType DEF TypeInv, DataOut
  <2>2. transfer.left - 1 \in 0 .. Words
    BY <1>0, <1>12, SizeAssumption DEF TypeInv, DataOut
  <2>3. transfer' = [transfer EXCEPT !.left = transfer.left - 1]
    BY <1>12 DEF DataOut
  <2>4. transfer' \in [dir : {"none", "READ", "WRITE"}, id : Nat, left : 0 .. Words,
                      bad : BOOLEAN]
    BY <1>0, <2>2, <2>3 DEF TypeInv
  <2> QED BY <1>0, <1>12, <2>1, <2>4 DEF TypeInv, DataOut
<1>13. CASE DataError \/ DataOver
  <2>1. NoTransfer \in [dir : {"none", "READ", "WRITE"}, id : Nat, left : 0 .. Words,
                        bad : BOOLEAN]
    BY SizeAssumption DEF NoTransfer
  <2>2. 0 \in 0 .. Words
    BY SizeAssumption
  <2>3. CASE DataError
    BY <1>0, <2>2, <2>3 DEF TypeInv, DataError
  <2>4. CASE DataOver
    <3>1. transfer' = NoTransfer /\ busy' \in BOOLEAN
      BY <1>0, <2>4 DEF TypeInv, DataOver
    <3> HIDE DEF NoTransfer
    <3> QED BY <1>0, <2>1, <2>4, <3>1 DEF TypeInv, DataOver
  <2> QED BY <1>13, <2>3, <2>4
<1> QED BY <1>1, <1>2, <1>3, <1>4, <1>5, <1>6, <1>7, <1>8, <1>9, <1>10, <1>11, <1>12, <1>13
        DEF Next, Driver, Controller

\* The controller's steps leave the driver and the client alone.
LEMMA ControllerApart ==
  Controller => UNCHANGED <<driverVars, clientVars, slow>>
BY DEF Controller, Accept, Respond, NoResponse, DataIn, DataOut, DataError, DataOver, BusyEnds

LEMMA OwnCommandStep == DriverInv /\ [Next]_vars => OwnCommand'
<1> SUFFICES ASSUME DriverInv, [Next]_vars PROVE OwnCommand'
  OBVIOUS
<1> USE DEF OwnCommand, Moving, Sending, DataOps, clientVars
<1>0. TypeInv /\ OwnCommand
  BY DEF DriverInv
<1>1. CASE UNCHANGED vars \/ Controller
  BY <1>0, <1>1, ControllerApart DEF vars, driverVars
<1>2. CASE SendWait \/ SendClear \/ SendIssue
  BY <1>0, <1>2 DEF SendWait, SendClear, SendIssue
<1>3. CASE SendPoll
  <2>1. cmd.op \in {"CMD12", "CMD13", "READ", "WRITE"}
    BY <1>0, <1>3, PollSees, CommandIs DEF TypeInv
  <2>2. cmd.op \in DataOps => cmd.op = req
    BY <1>0, <1>3, PollSees
  <2> QED BY <1>0, <1>3, <2>1, <2>2, PollSees, ReturnsTo
<1>4. CASE DataWait \/ ReadCheck \/ ReadWord \/ ReadEmpty \/ ReadLast \/ WriteWord \/ WriteOver
  BY <1>0, <1>4 DEF DataWait, ReadCheck, ReadWord, ReadEmpty, ReadLast, WriteWord, WriteOver,
                    Finish
<1>5. CASE ResetFifo
  BY <1>0, <1>5 DEF ResetFifo, Send, None
<1>6. ASSUME NEW r \in {"READ", "WRITE"}, Request(r) PROVE OwnCommand'
  BY <1>0, <1>6 DEF Request, Send, None
<1>7. CASE AskAgain \/ NotReady \/ MshcSendCommand \/ StopTransmission \/ OneBlockDone
  BY <1>0, <1>7 DEF AskAgain, NotReady, MshcSendCommand, StopTransmission, OneBlockDone,
                    Send, None
<1> QED BY <1>1, <1>2, <1>3, <1>4, <1>5, <1>6, <1>7 DEF Next, Driver, Client

LEMMA ProgressStep == DriverInv /\ [Next]_vars => Progress'
<1> SUFFICES ASSUME DriverInv, [Next]_vars PROVE Progress'
  OBVIOUS
<1> USE SizeAssumption DEF Progress, Moving, Sending, DataOps, clientVars
<1>0. TypeInv /\ OwnCommand /\ Progress
  BY DEF DriverInv
<1>1. CASE UNCHANGED vars \/ Controller
  BY <1>0, <1>1, ControllerApart DEF vars, driverVars
<1>2. CASE SendWait \/ SendClear \/ SendIssue
  BY <1>0, <1>2 DEF SendWait, SendClear, SendIssue
<1>3. CASE SendPoll
  <2>1. cmd.op \in {"CMD12", "CMD13", "READ", "WRITE"} /\ cmd # None
    BY <1>0, <1>3, PollSees, CommandIs DEF TypeInv, OwnCommand
  <2>2. cmd.op \in DataOps => cmd.op = req
    BY <1>0, <1>3, PollSees DEF OwnCommand
  <2>3. UNCHANGED <<cmd, DataLen, Buffer, req>>
    BY <1>3, PollSees
  <2>4. PICK s : SendReturns(s)
    BY <1>3, PollSees
  <2>5. pc' \in {"asked", "idle", "done", "read", "fill"}
    BY <1>0, <2>1, <2>4, ReturnsTo
  <2>6. /\ pc' = "read" => req = "READ" /\ cmd.op \in DataOps
        /\ pc' = "fill" => req = "WRITE" /\ cmd.op \in DataOps
    BY <1>0, <2>1, <2>2, <2>4, ReturnsTo
  <2>7. cmd.op \in DataOps => DataLen = Words /\ Buffer = <<>>
    <3>1. pc = "poll"
      BY <1>3, PollSees
    <3> QED BY <1>0, <2>2, <3>1
  <2>8. CASE pc' \in {"read", "fill"}
    BY <1>0, <2>3, <2>6, <2>7, <2>8
  <2>9. CASE pc' \in {"asked", "idle", "done"}
    BY <1>0, <2>3, <2>9
  <2> QED BY <2>5, <2>8, <2>9
<1>4. CASE DataWait \/ ReadCheck \/ ReadEmpty \/ ReadLast \/ WriteWord \/ WriteOver
  <2>1. CASE DataWait \/ ReadCheck
    BY <1>0, <2>1 DEF TypeInv, DataWait, ReadCheck, Finish, OwnCommand
  <2>2. CASE ReadEmpty \/ ReadLast \/ WriteOver
    BY <1>0, <2>2 DEF TypeInv, ReadEmpty, ReadLast, WriteOver, Finish, OwnCommand
  <2>3. CASE WriteWord
    BY <1>0, <2>3 DEF TypeInv, WriteWord, OwnCommand
  <2> QED BY <1>4, <2>1, <2>2, <2>3
<1>5. CASE ResetFifo
  BY <1>0, <1>5 DEF ResetFifo, Send, OwnCommand
<1>6. CASE ReadWord
  <2>1. /\ pc = "pop" /\ req = "READ" /\ req' = req
        /\ DataLen' = DataLen - 1
        /\ pc' \in {"last", "pop"} /\ (DataLen' = 0 => pc' = "last")
    BY <1>0, <1>6 DEF ReadWord, OwnCommand
  <2>2. DataLen \in 1 .. Words /\ Len(Buffer) = Words - DataLen
    BY <1>0, <2>1 DEF TypeInv
  <2>3. Len(Buffer') = Len(Buffer) + 1
    <3>1. Head(FIFO) \in WordType /\ Buffer \in Seq(WordType)
      BY <1>0, <1>6, StreamType DEF ReadWord, TypeInv
    <3> QED BY <1>6, <3>1, StreamType DEF ReadWord
  <2>4. DataLen' \in Nat /\ Len(Buffer') = Words - DataLen' /\ Len(Buffer') <= Words
    BY <2>1, <2>2, <2>3
  <2>5. pc' # "last" => DataLen' > 0
    <3>1. pc' # "last" => DataLen' # 0
      BY <2>1
    <3>2. DataLen' \in Nat
      BY <2>4
    <3> QED BY <3>1, <3>2
  <2> QED BY <2>1, <2>4, <2>5
<1>7. ASSUME NEW r \in {"READ", "WRITE"}, Request(r) PROVE Progress'
  BY <1>0, <1>7 DEF Request, Send
<1>8. CASE AskAgain \/ NotReady \/ MshcSendCommand \/ StopTransmission \/ OneBlockDone
  BY <1>0, <1>8 DEF AskAgain, NotReady, MshcSendCommand, StopTransmission, OneBlockDone, Send
<1> QED BY <1>1, <1>2, <1>3, <1>4, <1>5, <1>6, <1>7, <1>8 DEF Next, Driver, Client

LEMMA ErrorKeptStep == DriverInv /\ [Next]_vars => ErrorKept'
<1> SUFFICES ASSUME DriverInv, [Next]_vars PROVE ErrorKept'
  OBVIOUS
<1> USE DEF ErrorKept, Sending, DataOps, clientVars, driverVars
<1>0. TypeInv /\ OwnCommand /\ ErrorKept
  BY DEF DriverInv
<1>1. CASE UNCHANGED vars
  BY <1>0, <1>1 DEF vars, controllerVars
<1>2. CASE Controller
  <2>1. CASE DataError
    BY <1>0, <2>1 DEF DataError
  <2>2. CASE Accept \/ Respond \/ NoResponse \/ DataIn \/ DataOut \/ DataOver \/ BusyEnds
    BY <1>0, <2>2 DEF Accept, Respond, NoResponse, DataIn, DataOut, DataOver, BusyEnds
  <2> QED BY <1>2, <2>1, <2>2 DEF Controller
<1>3. CASE SendWait \/ SendClear \/ SendIssue
  BY <1>0, <1>3 DEF SendWait, SendClear, SendIssue
<1>4. CASE SendPoll
  <2>1. cmd.op \in {"CMD12", "CMD13", "READ", "WRITE"} /\ cmd # None
    BY <1>0, <1>4, PollSees, CommandIs DEF TypeInv, OwnCommand
  <2> QED BY <1>0, <1>4, <2>1, PollSees, ReturnsTo
<1>5. CASE DataWait \/ ReadCheck \/ ReadWord \/ ReadEmpty \/ ReadLast \/ WriteWord \/ WriteOver
  <2> USE DEF controllerVars
  <2>1. CASE DataWait \/ WriteWord \/ WriteOver
    BY <1>0, <2>1 DEF DataWait, WriteWord, WriteOver, Finish
  <2>2. CASE ReadCheck \/ ReadEmpty
    BY <1>0, <2>2 DEF ReadCheck, ReadEmpty, Finish
  <2>3. CASE ReadWord
    BY <1>0, <2>3 DEF ReadWord
  <2>4. CASE ReadLast
    BY <1>0, <2>4 DEF ReadLast, Finish, ReadErrors
  <2> QED BY <1>5, <2>1, <2>2, <2>3, <2>4
<1>6. CASE ResetFifo
  BY <1>0, <1>6 DEF ResetFifo, Send
<1>7. ASSUME NEW r \in {"READ", "WRITE"}, Request(r) PROVE ErrorKept'
  BY <1>0, <1>7 DEF Request, Send
<1>8. CASE AskAgain \/ NotReady \/ MshcSendCommand \/ StopTransmission \/ OneBlockDone
  <2>1. CASE MshcSendCommand
    BY <2>1 DEF MshcSendCommand
  <2>2. CASE AskAgain \/ StopTransmission
    <3>1. cmd'.op \in {"CMD13", "CMD12"} /\ pc' = "wait"
      BY <2>2 DEF AskAgain, StopTransmission, Send
    <3> QED BY <3>1
  <2>3. CASE NotReady \/ OneBlockDone
    BY <1>0, <2>3 DEF NotReady, OneBlockDone
  <2> QED BY <1>8, <2>1, <2>2, <2>3
<1> QED BY <1>1, <1>2, <1>3, <1>4, <1>5, <1>6, <1>7, <1>8 DEF Next, Driver, Client

LEMMA DriverInvStep == DriverInv /\ [Next]_vars => DriverInv'
BY TypeInvStep, OwnCommandStep, ProgressStep, ErrorKeptStep DEF DriverInv

-----------------------------------------------------------------------------
(* The controller's part is kept by every step, if the controller is not     *)
(* slow.                                                                     *)

\* The driver's steps and the client's leave the controller's transfer alone;
\* only SendIssue gives it a command.
LEMMA DriverApart ==
  Driver \/ Client =>
    /\ UNCHANGED <<executing, transfer, busy, card, slow>>
    /\ SendIssue \/ loaded' = loaded
    /\ SendIssue \/ SendClear \/ RINTSTS' = RINTSTS
<1> USE DEF controllerVars
<1>1. Driver => /\ UNCHANGED <<executing, transfer, busy, card, slow>>
                /\ SendIssue \/ loaded' = loaded
                /\ SendIssue \/ SendClear \/ RINTSTS' = RINTSTS
  BY DEF Driver, SendWait, SendClear, SendIssue, SendPoll, DataWait, ResetFifo, ReadCheck,
         ReadWord, ReadEmpty, ReadLast, WriteWord, WriteOver
<1>2. Client => UNCHANGED <<executing, transfer, busy, card, slow, loaded, RINTSTS>>
  BY DEF Client, Request, AskAgain, NotReady, MshcSendCommand, StopTransmission, OneBlockDone
<1> QED BY <1>1, <1>2

LEMMA SlowStays == [Next]_vars => slow' = slow
BY DriverApart, ControllerApart DEF Next, vars

\* What can move data is a transfer.
LEMMA DataMoves ==
  ASSUME DataIn \/ DataOut \/ DataError \/ DataOver
  PROVE  /\ transfer # NoTransfer
         /\ UNCHANGED <<loaded, executing, driverVars, clientVars>>
BY DEF DataIn, DataOut, DataError, DataOver, NoTransfer

\* While the driver polls for a data command that is loaded or executed, no bit is
\* raised.
LEMMA PollEnds ==
  ASSUME IInv, ~slow, SendPoll, cmd.op \in DataOps
  PROVE  loaded = None /\ executing = None
BY PollSees DEF IInv, ControllerInv, OwnTransfer

\* What the controller executes when a command is answered.
LEMMA Executed ==
  ASSUME TypeInv, Respond \/ NoResponse
  PROVE  /\ executing # None /\ executing.op \in {"CMD12", "CMD13", "READ", "WRITE"}
         /\ executing' = None /\ UNCHANGED <<loaded, FIFO, busy, driverVars, clientVars>>
         /\ executing.op = "CMD13" => UNCHANGED <<transfer, card>>
<1>1. executing # None /\ executing' = None
      /\ UNCHANGED <<loaded, FIFO, busy, driverVars, clientVars>>
  BY DEF Respond, NoResponse
<1>2. executing.op \in {"CMD12", "CMD13", "READ", "WRITE"}
  BY <1>1, CommandIs DEF TypeInv
<1>3. /\ "CMD13" # "READ" /\ "CMD13" # "WRITE" /\ "CMD13" # "CMD12"
      /\ "CMD13" \notin {"READ", "WRITE"}
  OBVIOUS
<1>4. CASE Respond
  BY <1>1, <1>2, <1>3, <1>4, Zenon DEF Respond
<1>5. CASE NoResponse
  BY <1>1, <1>2, <1>3, <1>5 DEF NoResponse
<1> QED BY <1>4, <1>5

LEMMA DataCommandsStep == IInv /\ ~slow /\ [Next]_vars => DataCommands'
<1> SUFFICES ASSUME IInv, ~slow, [Next]_vars PROVE DataCommands'
  OBVIOUS
<1>0. TypeInv /\ DataCommands /\ OwnTransfer /\ None.op = "none"
  BY DEF IInv, DriverInv, ControllerInv, None
<1> USE DEF DataCommands, DataOps
<1> HIDE DEF None, NoTransfer
<1>1. CASE UNCHANGED vars
  BY <1>0, <1>1 DEF vars, driverVars, controllerVars
<1>2. CASE SendIssue
  BY <1>0, <1>2 DEF SendIssue
<1>3. CASE SendPoll
  BY <1>0, <1>3, PollSees, PollEnds DEF controllerVars
<1>4. CASE (Driver \/ Client) /\ ~SendIssue /\ ~SendPoll
  <2>1. pc # "poll"
    BY <1>4 DEF Driver, SendWait, SendClear, DataWait, ResetFifo, ReadCheck, ReadWord, ReadEmpty,
                ReadLast, WriteWord, WriteOver, Client, Request, AskAgain, NotReady,
                MshcSendCommand, StopTransmission, OneBlockDone
  <2> QED BY <1>0, <1>4, <2>1, DriverApart
<1>5. CASE Accept
  BY <1>0, <1>5 DEF Accept, WaitsForData, driverVars
<1>6. CASE Respond \/ NoResponse
  BY <1>0, <1>6, Executed DEF driverVars
<1>7. CASE DataIn \/ DataOut \/ DataError \/ DataOver
  BY <1>0, <1>7, DataMoves DEF driverVars
<1>8. CASE BusyEnds
  BY <1>0, <1>8 DEF BusyEnds, driverVars
<1> QED BY <1>1, <1>2, <1>3, <1>4, <1>5, <1>6, <1>7, <1>8 DEF Next, Driver, Controller

LEMMA StatusAnswerStep == IInv /\ ~slow /\ [Next]_vars => StatusAnswer'
<1> SUFFICES ASSUME IInv, ~slow, [Next]_vars PROVE StatusAnswer'
  OBVIOUS
<1>0. TypeInv /\ OwnCommand /\ DataCommands /\ StatusAnswer /\ None.op = "none"
  BY DEF IInv, DriverInv, ControllerInv, None
<1> USE DEF StatusAnswer, Quiet
<1> HIDE DEF None, NoTransfer
<1>1. CASE UNCHANGED vars
  BY <1>0, <1>1 DEF vars, driverVars, controllerVars
<1>2. CASE SendClear
  <2>1. loaded.op \in {"none", "CMD12", "CMD13", "READ", "WRITE"}
    BY <1>0, CommandIs DEF TypeInv
  <2>2. loaded.op \notin DataOps /\ Answered
    BY <1>0, <1>2 DEF SendClear, DataCommands
  <2>3. loaded.op \in {"none", "CMD13"} /\ executing = None
    BY <1>0, <2>1, <2>2 DEF Answered, WaitsForData, DataOps
  <2>4. pc' = "issue" /\ RINTSTS' = {} /\ UNCHANGED <<loaded, executing>>
    BY <1>2 DEF SendClear
  <2> QED BY <1>0, <2>3, <2>4
<1>3. CASE SendIssue
  BY <1>0, <1>3 DEF SendIssue
<1>4. CASE SendPoll
  <2>1. cmd.op \in {"CMD12", "CMD13", "READ", "WRITE"} /\ cmd # None
    BY <1>0, <1>4, PollSees, CommandIs DEF TypeInv, OwnCommand, Sending
  <2>2. pc' \in {"asked", "idle", "done", "read", "fill"}
    BY <1>0, <1>4, <2>1, PollSees, ReturnsTo
  <2>3. pc' = "asked" => cmd.op = "CMD13"
    BY <1>0, <1>4, <2>1, PollSees, ReturnsTo DEF DataOps
  <2>4. status' = "SUCCESS" => RINTSTS \cap {"DTO", "CMD_DONE"} # {}
    BY <1>4, PollSees DEF SendReturns
  <2> QED BY <1>0, <1>4, <2>2, <2>3, <2>4, PollSees DEF controllerVars
<1>5. CASE (Driver \/ Client) /\ ~SendClear /\ ~SendIssue /\ ~SendPoll
  <2>1. pc' \notin {"issue", "poll"}
    BY <1>5 DEF Driver, SendWait, DataWait, ResetFifo, ReadCheck, ReadWord, ReadEmpty,
                ReadLast, WriteWord, WriteOver, Client, Request, AskAgain, NotReady,
                MshcSendCommand, StopTransmission, OneBlockDone, Send, Finish
  <2>2. pc' \in {"data", "fifo"} \/ (pc' = "asked" /\ status' = "SUCCESS") =>
          pc = "data" \/ (pc = "asked" /\ status = "SUCCESS")
    BY <1>5 DEF Driver, SendWait, DataWait, ResetFifo, ReadCheck, ReadWord, ReadEmpty,
                ReadLast, WriteWord, WriteOver, Client, Request, AskAgain, NotReady,
                MshcSendCommand, StopTransmission, OneBlockDone, Send, Finish
  <2> QED BY <1>0, <1>5, <2>1, <2>2, DriverApart
<1>6. CASE Accept
  BY <1>0, <1>6 DEF Accept, driverVars
<1>7. CASE Respond \/ NoResponse
  <2>1. executing.op \in {"none", "CMD13"} => transfer' = NoTransfer
    BY <1>0, <1>7, Executed DEF DataCommands
  <2> QED BY <1>0, <1>7, <2>1, Executed DEF driverVars
<1>8. CASE DataIn \/ DataOut \/ DataError
  <2>1. RINTSTS' \cap {"DTO", "CMD_DONE"} = RINTSTS \cap {"DTO", "CMD_DONE"}
    BY <1>8 DEF DataIn, DataOut, DataError
  <2> QED BY <1>0, <1>8, <2>1, DataMoves DEF driverVars
<1>9. CASE DataOver
  BY <1>0, <1>9, DataMoves DEF DataOver, driverVars
<1>10. CASE BusyEnds
  BY <1>0, <1>10 DEF BusyEnds, driverVars
<1> QED BY <1>1, <1>2, <1>3, <1>4, <1>5, <1>6, <1>7, <1>8, <1>9, <1>10
        DEF Next, Driver, Controller

LEMMA CleanStartStep == IInv /\ ~slow /\ [Next]_vars => CleanStart'
<1> SUFFICES ASSUME IInv, ~slow, [Next]_vars PROVE CleanStart'
  OBVIOUS
<1>0. TypeInv /\ DataCommands /\ StatusAnswer /\ CleanStart /\ None.op = "none"
  BY DEF IInv, DriverInv, ControllerInv, None
<1> USE DEF CleanStart, Quiet
<1> HIDE DEF None, NoTransfer
<1>1. CASE UNCHANGED vars
  BY <1>0, <1>1 DEF vars, driverVars, controllerVars
<1>2. CASE SendWait
  BY <1>0, <1>2 DEF SendWait, controllerVars
<1>3. CASE SendClear
  BY <1>0, <1>3 DEF SendClear, Answered
<1>4. CASE ResetFifo
  <2>1. pc = "fifo" /\ pc' \in {"wait", "done"} /\ (pc' = "wait" => FIFO' = <<>>)
    BY <1>4 DEF ResetFifo, Send
  <2>2. UNCHANGED <<loaded, executing, transfer>>
    BY <1>4 DEF ResetFifo
  <2> QED BY <1>0, <2>1, <2>2 DEF StatusAnswer
<1>5. CASE Client
  <2>1. pc' \notin {"wait", "clear", "issue"} \/ cmd'.op \in {"CMD12", "CMD13"}
    <3>1. CASE (\E r \in {"READ", "WRITE"} : Request(r)) \/ AskAgain \/ StopTransmission
      BY <3>1 DEF Request, AskAgain, StopTransmission, Send
    <3>2. CASE NotReady \/ MshcSendCommand \/ OneBlockDone
      BY <3>2 DEF NotReady, MshcSendCommand, OneBlockDone
    <3> QED BY <1>5, <3>1, <3>2 DEF Client
  <2> QED BY <2>1 DEF DataOps
<1>6. CASE SendPoll
  <2>1. pc' \notin {"wait", "clear", "issue"}
    BY <1>6, PollSees, ReturnsTo DEF IInv, DriverInv, OwnCommand, Sending
  <2> QED BY <2>1
<1>7. CASE SendIssue \/ DataWait \/ ReadCheck \/ ReadWord \/ ReadEmpty \/ ReadLast \/ WriteWord
           \/ WriteOver
  <2>1. pc' \notin {"wait", "clear", "issue"}
    BY <1>7 DEF SendIssue, DataWait, ReadCheck, ReadWord, ReadEmpty, ReadLast, WriteWord,
                WriteOver, Finish
  <2> QED BY <2>1
<1>8. CASE Accept
  BY <1>0, <1>8 DEF Accept, driverVars
<1>9. CASE Respond \/ NoResponse
  BY <1>0, <1>9, Executed DEF driverVars
<1>10. CASE DataIn \/ DataOut \/ DataError \/ DataOver
  BY <1>0, <1>10, DataMoves DEF driverVars
<1>11. CASE BusyEnds
  BY <1>0, <1>11 DEF BusyEnds, driverVars
<1> QED BY <1>1, <1>2, <1>3, <1>4, <1>5, <1>6, <1>7, <1>8, <1>9, <1>10, <1>11
        DEF Next, Driver, Controller

\* The driver waits for the answer to a data command, or moves its words.
Answering ==
  (pc = "poll" /\ cmd.op \in DataOps) \/ pc \in {"read", "pop", "last", "fill", "over"}

\* How the driver's and the client's steps come to that state.
LEMMA AnsweringSteps ==
  ASSUME IInv, Driver \/ Client, Answering'
  PROVE  /\ cmd' = cmd
         /\ \/ SendIssue /\ cmd.op \in DataOps /\ pc = "issue"
            \/ SendPoll /\ cmd.op \in DataOps /\ pc = "poll" /\ pc' \in {"read", "fill"}
               /\ SendReturns("SUCCESS") /\ RINTSTS \cap SendErrors = {}
               /\ (pc' = "read" <=> cmd.op = "READ")
            \/ /\ pc \in {"read", "pop", "fill"} /\ loaded' = loaded /\ RINTSTS' = RINTSTS
               /\ pc' \in {"read", "pop", "last", "fill", "over"}
               /\ ReadCheck \/ ReadWord \/ ReadEmpty \/ WriteWord
<1> USE DEF Answering
<1>0. TypeInv /\ OwnCommand
  BY DEF IInv, DriverInv
<1>1. CASE SendIssue
  BY <1>1 DEF SendIssue
<1>2. CASE SendPoll
  <2>1. cmd.op \in {"CMD12", "CMD13", "READ", "WRITE"} /\ cmd # None
    BY <1>0, <1>2, PollSees, CommandIs DEF TypeInv, OwnCommand, Sending
  <2>2. pc = "poll" /\ pc' # "poll" /\ cmd' = cmd
    BY <1>0, <1>2, <2>1, PollSees, ReturnsTo
  <2>3. pc' \in {"read", "fill"}
    BY <1>0, <1>2, <2>1, <2>2, PollSees, ReturnsTo
  <2>4. cmd.op \in DataOps
    BY <1>0, <1>2, <2>1, <2>3, PollSees, ReturnsTo DEF DataOps
  <2>5. SendReturns("SUCCESS") /\ RINTSTS \cap SendErrors = {}
    BY <1>0, <1>2, <2>1, <2>3, <2>4, PollSees, ReturnsTo
  <2>6. pc' = "read" <=> cmd.op = "READ"
    BY <1>0, <2>1, <2>4, <2>5, ReturnsTo DEF DataOps
  <2> QED BY <1>2, <2>2, <2>3, <2>4, <2>5, <2>6
<1>3. CASE ReadCheck \/ ReadWord \/ ReadEmpty \/ WriteWord
  <2>1. pc \in {"read", "pop", "fill"} /\ cmd' = cmd
    BY <1>3 DEF ReadCheck, ReadWord, ReadEmpty, WriteWord
  <2>2. loaded' = loaded /\ RINTSTS' = RINTSTS
    BY <1>3 DEF ReadCheck, ReadWord, ReadEmpty, WriteWord, controllerVars
  <2>3. pc' \in {"read", "pop", "last", "fill", "over", "done"}
    BY <1>3 DEF ReadCheck, ReadWord, ReadEmpty, WriteWord, Finish
  <2> QED BY <1>3, <2>1, <2>2, <2>3
<1>4. CASE SendWait \/ SendClear \/ DataWait \/ ResetFifo \/ ReadLast \/ WriteOver
  <2>1. pc' \in {"clear", "issue", "fifo", "wait", "done"}
    BY <1>4 DEF SendWait, SendClear, DataWait, ResetFifo, ReadLast, WriteOver, Finish, Send
  <2> QED BY <2>1
<1>5. CASE Client
  <2>1. pc' \in {"wait", "idle", "data"}
    BY <1>5 DEF Client, Request, AskAgain, NotReady, MshcSendCommand, StopTransmission,
                OneBlockDone, Send
  <2> QED BY <2>1
<1> QED BY <1>1, <1>2, <1>3, <1>4, <1>5 DEF Driver

LEMMA OwnTransferStep == IInv /\ ~slow /\ [Next]_vars => OwnTransfer'
<1> SUFFICES ASSUME IInv, ~slow, [Next]_vars PROVE OwnTransfer'
  OBVIOUS
<1>0. TypeInv /\ OwnCommand /\ CleanStart /\ OwnTransfer /\ None.op = "none"
  BY DEF IInv, DriverInv, ControllerInv, None
<1> USE DEF OwnTransfer
<1> HIDE DEF None, NoTransfer
<1>1. CASE UNCHANGED vars
  BY <1>0, <1>1 DEF vars, driverVars, controllerVars
<1>2. CASE Driver \/ Client
  <2> SUFFICES ASSUME Answering' PROVE OwnTransfer'
    BY DEF Answering
  <2>1. CASE SendIssue /\ cmd.op \in DataOps /\ pc = "issue"
    <3>1. /\ loaded = None /\ executing = None /\ RINTSTS = {} /\ FIFO = <<>>
          /\ transfer = NoTransfer /\ cmd # None
      BY <1>0, <2>1 DEF CleanStart, Quiet, DataOps
    <3>2. /\ loaded' = cmd /\ RINTSTS' = {} /\ FIFO' = <<>> /\ cmd' = cmd /\ pc' = "poll"
          /\ executing' = None /\ transfer' = NoTransfer
      BY <2>1, <3>1 DEF SendIssue
    <3> QED BY <3>1, <3>2
  <2>2. CASE SendPoll /\ cmd.op \in DataOps /\ pc = "poll" /\ pc' \in {"read", "fill"}
    <3>1. loaded = None /\ executing = None /\ cmd # None
      BY <1>0, <2>2, PollEnds DEF DataOps
    <3>2. /\ loaded' = None /\ executing' = None /\ RINTSTS' = RINTSTS /\ cmd' = cmd
          /\ transfer' = transfer
      BY <2>2, <3>1, PollSees DEF controllerVars
    <3>3. /\ "CMD_DONE" \in RINTSTS
          /\ transfer # NoTransfer => transfer.dir = cmd.op /\ transfer.id = cmd.id
      BY <1>0, <2>2, <3>1
    <3> QED BY <3>1, <3>2, <3>3
  <2>3. CASE pc \in {"read", "pop", "fill"} /\ loaded' = loaded /\ RINTSTS' = RINTSTS
             /\ pc' \in {"read", "pop", "last", "fill", "over"}
    <3>1. cmd' = cmd /\ executing' = executing /\ transfer' = transfer
      BY <1>2, AnsweringSteps, DriverApart
    <3>2. /\ loaded = None /\ executing = None /\ cmd # None
          /\ "CMD_DONE" \in RINTSTS
          /\ transfer # NoTransfer => transfer.dir = cmd.op /\ transfer.id = cmd.id
      <4>1. cmd # None
        BY <1>0, <2>3 DEF OwnCommand, Moving, DataOps
      <4> QED BY <1>0, <2>3, <4>1
    <3> QED BY <2>3, <3>1, <3>2
  <2> QED BY <1>2, <2>1, <2>2, <2>3, AnsweringSteps
<1>3. CASE Accept
  BY <1>0, <1>3 DEF Accept, driverVars
<1>4. CASE Respond \/ NoResponse
  <2> SUFFICES ASSUME Answering' PROVE OwnTransfer'
    BY DEF Answering
  <2>1. Answering /\ cmd' = cmd /\ pc' = pc
    BY <1>0, <1>4, Executed DEF Answering, driverVars
  <2>2. /\ executing = cmd /\ cmd # None /\ loaded = None /\ pc = "poll" /\ transfer = NoTransfer
        /\ cmd.op \in {"READ", "WRITE"}
    BY <1>0, <1>4, <2>1, Executed DEF Answering, DataOps
  <2>3. loaded' = None /\ executing' = None /\ "CMD_DONE" \in RINTSTS'
    BY <1>4, <2>2, Executed DEF Respond, NoResponse
  <2>4. Start \/ transfer' = transfer
    BY <1>4, <2>2, Zenon DEF Respond, NoResponse
  <2>5. transfer' # NoTransfer => transfer'.dir = cmd.op /\ transfer'.id = cmd.id
    BY <2>2, <2>4 DEF Start
  <2> QED BY <2>1, <2>2, <2>3, <2>5
<1>5. CASE DataIn \/ DataOut \/ DataError \/ DataOver
  <2> SUFFICES ASSUME Answering' PROVE OwnTransfer'
    BY DEF Answering
  <2>1. Answering /\ cmd' = cmd /\ pc' = pc /\ UNCHANGED <<loaded, executing>>
    BY <1>0, <1>5, DataMoves DEF Answering, driverVars
  <2>2. loaded = None /\ executing = None /\ "CMD_DONE" \in RINTSTS /\ cmd # None
    BY <1>0, <1>5, <2>1, DataMoves DEF Answering, OwnCommand, Moving, DataOps
  <2>3. "CMD_DONE" \in RINTSTS'
    BY <1>5, <2>2 DEF DataIn, DataOut, DataError, DataOver
  <2>4. transfer' = NoTransfer \/ (transfer'.dir = transfer.dir /\ transfer'.id = transfer.id)
    BY <1>0, <1>5 DEF TypeInv, DataIn, DataOut, DataError, DataOver
  <2> QED BY <1>0, <1>5, <2>1, <2>2, <2>3, <2>4, DataMoves DEF Answering
<1>6. CASE BusyEnds
  BY <1>0, <1>6 DEF BusyEnds, driverVars
<1> QED BY <1>1, <1>2, <1>3, <1>4, <1>5, <1>6 DEF Next, Controller

\* What a stream holds after a word has been put in or taken out.
LEMMA StreamWords ==
  ASSUME NEW s \in Seq(WordType)
  PROVE  /\ \A w \in WordType :
              /\ Append(s, w)[Len(s) + 1] = w
              /\ \A n \in 1 .. Len(s) : Append(s, w)[n] = s[n]
         /\ s # <<>> => /\ Head(s) = s[1]
                        /\ \A n \in 1 .. Len(s) - 1 : Tail(s)[n] = s[n + 1]
OBVIOUS

LEMMA FromAppend ==
  ASSUME NEW s \in Seq(WordType), NEW i \in Nat, NEW n \in Nat, From(s, i, n),
         n + Len(s) < Words
  PROVE  LET t == Append(s, Data(i)[n + Len(s) + 1])
         IN  t \in Seq(WordType) /\ Len(t) = Len(s) + 1 /\ From(t, i, n)
<1> DEFINE w == Data(i)[n + Len(s) + 1]
<1>1. n + Len(s) + 1 \in 1 .. Words
  BY SizeAssumption
<1>2. w \in WordType
  BY <1>1, DataWord
<1> HIDE DEF w
<1> DEFINE t == Append(s, w)
<1>3. t \in Seq(WordType) /\ Len(t) = Len(s) + 1 /\ Len(s) \in Nat
  BY <1>2, StreamType
<1>4. t[Len(s) + 1] = w /\ \A k \in 1 .. Len(s) : t[k] = s[k]
  BY <1>2, StreamWords
<1> HIDE DEF t
<1>5. ASSUME NEW k \in 1 .. Len(t) PROVE t[k] = Data(i)[n + k]
  <2>1. CASE k = Len(s) + 1
    <3>1. n + k = n + Len(s) + 1
      BY <1>3, <2>1
    <3> QED BY <1>4, <2>1, <3>1 DEF w
  <2>2. CASE k # Len(s) + 1
    BY <1>3, <1>4, <2>2 DEF From
  <2> QED BY <2>1, <2>2
<1>6. From(t, i, n)
  BY <1>5 DEF From
<1> QED BY <1>3, <1>6 DEF t, w

LEMMA FromTail ==
  ASSUME NEW s \in Seq(WordType), NEW i \in Nat, NEW n \in Nat, From(s, i, n), s # <<>>,
         n + Len(s) <= Words
  PROVE  /\ Head(s) = Data(i)[n + 1]
         /\ Tail(s) \in Seq(WordType) /\ Len(Tail(s)) = Len(s) - 1
         /\ From(Tail(s), i, n + 1)
<1>1. /\ Len(s) \in Nat /\ Len(s) > 0 /\ Len(Tail(s)) = Len(s) - 1
      /\ Tail(s) \in Seq(WordType)
  BY StreamType, DataWord, SizeAssumption
<1>2. Head(s) = s[1] /\ \A k \in 1 .. Len(s) - 1 : Tail(s)[k] = s[k + 1]
  BY StreamWords
<1>3. Head(s) = Data(i)[n + 1]
  BY <1>1, <1>2 DEF From
<1>4. ASSUME NEW k \in 1 .. Len(Tail(s)) PROVE Tail(s)[k] = Data(i)[(n + 1) + k]
  <2>1. k + 1 \in 1 .. Len(s) /\ n + (k + 1) = (n + 1) + k
    BY <1>1
  <2>2. Tail(s)[k] = s[k + 1]
    BY <1>1, <1>2
  <2> QED BY <2>1, <2>2 DEF From
<1> QED BY <1>1, <1>3, <1>4 DEF From

LEMMA ReadStreamStep == IInv /\ ~slow /\ [Next]_vars => ReadStream'
<1> SUFFICES ASSUME IInv, ~slow, [Next]_vars PROVE ReadStream'
  OBVIOUS
<1>0. /\ TypeInv /\ OwnCommand /\ Progress
      /\ CleanStart /\ OwnTransfer /\ ReadStream
  BY DEF IInv, DriverInv, ControllerInv
<1> HIDE DEF None, NoTransfer
<1> DEFINE Reading == (pc = "poll" /\ cmd.op = "READ") \/ pc \in {"read", "pop", "last"}
           Stream == /\ Len(Buffer) + Len(FIFO) <= Words
                     /\ From(FIFO, cmd.id, Len(Buffer))
                     /\ transfer.left > 0 => Len(Buffer) + Len(FIFO) = Words - transfer.left
<1>a. /\ <<>> \in Seq(WordType) /\ Len(<<>>) = 0 /\ \A i, n : From(<<>>, i, n)
      /\ NoTransfer.left = 0
  BY DEF From, NoTransfer
<1>b. Reading => /\ cmd.op = "READ" /\ mMshcCommand = cmd /\ cmd.id \in Nat
                 /\ Len(Buffer) \in Nat /\ Len(FIFO) \in Nat
                 /\ Len(Buffer) = Words - DataLen /\ (pc = "poll" => DataLen = Words)
  <2> SUFFICES ASSUME Reading PROVE /\ cmd.op = "READ" /\ mMshcCommand = cmd /\ cmd.id \in Nat
                 /\ Len(Buffer) \in Nat /\ Len(FIFO) \in Nat
                 /\ Len(Buffer) = Words - DataLen /\ (pc = "poll" => DataLen = Words)
    OBVIOUS
  <2>1. Moving /\ (pc = "poll" => Sending /\ cmd.op \in DataOps)
    BY DEF Moving, Sending, DataOps
  <2>2. mMshcCommand = [op |-> req, id |-> id] /\ cmd = mMshcCommand
    BY <1>0, <2>1 DEF OwnCommand
  <2>3. req = "READ" /\ id \in Nat
    BY <1>0, <2>2 DEF OwnCommand, TypeInv
  <2>4. Len(Buffer) = Words - DataLen /\ (pc = "poll" => DataLen = Words)
    BY <1>0, <2>1, <2>3 DEF Progress
  <2>5. Len(Buffer) \in Nat /\ Len(FIFO) \in Nat
    BY <1>0 DEF TypeInv
  <2> QED BY <2>2, <2>3, <2>4, <2>5
<1>c. From(Buffer, mMshcCommand.id, 0) /\ (Reading => Stream)
  BY <1>0 DEF ReadStream
<1>d. SUFFICES From(Buffer, mMshcCommand.id, 0)' /\ (Reading' => Stream')
  BY DEF ReadStream
<1> HIDE DEF Reading, Stream
<1>1. CASE UNCHANGED vars
  BY <1>1, <1>c DEF vars, driverVars, controllerVars, Reading, Stream, From
<1>2. CASE ReadWord
  <2>1. Reading /\ FIFO # <<>> /\ Buffer' = Append(Buffer, Head(FIFO)) /\ FIFO' = Tail(FIFO)
        /\ UNCHANGED <<cmd, mMshcCommand, transfer>>
    BY <1>2 DEF ReadWord, Reading
  <2>2. /\ Buffer \in Seq(WordType) /\ FIFO \in Seq(WordType) /\ cmd.id \in Nat
        /\ Len(Buffer) \in Nat /\ Len(FIFO) \in Nat
        /\ Len(Buffer) + Len(FIFO) <= Words /\ From(FIFO, cmd.id, Len(Buffer))
        /\ transfer.left > 0 => Len(Buffer) + Len(FIFO) = Words - transfer.left
    BY <1>0, <1>b, <1>c, <2>1 DEF TypeInv, Stream
  <2>3. /\ Head(FIFO) = Data(cmd.id)[Len(Buffer) + 1]
        /\ FIFO' \in Seq(WordType) /\ Len(FIFO') = Len(FIFO) - 1 /\ Len(FIFO) > 0
        /\ From(FIFO', cmd.id, Len(Buffer) + 1)
    BY <2>1, <2>2, FromTail, StreamType
  <2>4. From(Buffer, cmd.id, 0) /\ 0 + Len(Buffer) < Words
    <3>1. From(Buffer, cmd.id, 0)
      BY <1>b, <1>c, <2>1
    <3>2. 0 + Len(Buffer) < Words
      BY <2>2, <2>3, SizeAssumption
    <3> QED BY <3>1, <3>2
  <2>5. Buffer' = Append(Buffer, Data(cmd.id)[0 + Len(Buffer) + 1])
    BY <2>1, <2>2, <2>3
  <2>6. Len(Buffer') = Len(Buffer) + 1 /\ From(Buffer', cmd.id, 0)
    BY <2>2, <2>4, <2>5, FromAppend
  <2>7. From(Buffer, mMshcCommand.id, 0)'
    BY <1>b, <2>1, <2>6 DEF From
  <2>8. Stream'
    <3>1. Len(Buffer') + Len(FIFO') = Len(Buffer) + Len(FIFO)
      BY <2>2, <2>3, <2>6
    <3>2. From(FIFO, cmd.id, Len(Buffer))'
      BY <2>1, <2>3, <2>6 DEF From
    <3> QED BY <2>1, <2>2, <3>1, <3>2 DEF Stream
  <2> QED BY <2>7, <2>8
<1>3. CASE (Driver \/ Client) /\ ~ReadWord
  <2>1. From(Buffer, mMshcCommand.id, 0)'
    <3>1. CASE MshcSendCommand
      BY <1>a, <3>1 DEF MshcSendCommand, From
    <3>2. CASE ~MshcSendCommand
      <4>1. Buffer' = Buffer /\ mMshcCommand' = mMshcCommand
        BY <1>3, <3>2 DEF Driver, SendWait, SendClear, SendIssue, SendPoll, DataWait, ResetFifo,
             ReadCheck, ReadEmpty, ReadLast, WriteWord, WriteOver, Client, Request, AskAgain,
             NotReady, StopTransmission, OneBlockDone
      <4> QED BY <1>c, <4>1 DEF From
    <3> QED BY <3>1, <3>2
  <2>2. ASSUME Reading' PROVE Stream'
    <3>0. Answering'
      BY <2>2 DEF Reading, Answering, DataOps
    <3>1. CASE SendIssue /\ cmd.op \in DataOps /\ pc = "issue"
      <4>1. cmd.op = "READ" /\ UNCHANGED <<Buffer, FIFO, transfer, cmd, DataLen>>
        BY <2>2, <3>1 DEF SendIssue, Reading
      <4>2. transfer = NoTransfer /\ FIFO = <<>>
        BY <1>0, <3>1 DEF CleanStart, Quiet
      <4>3. Moving /\ Sending /\ req = "READ"
        BY <1>0, <3>1, <4>1 DEF Moving, Sending, OwnCommand
      <4>4. Len(Buffer) = 0
        BY <1>0, <3>1, <4>3, SizeAssumption DEF Progress
      <4>5. FIFO' = <<>> /\ transfer'.left = 0 /\ Len(Buffer') = 0
        BY <1>a, <4>1, <4>2, <4>4
      <4> QED BY <1>a, <4>5, SizeAssumption DEF Stream
    <3>2. CASE SendPoll /\ cmd.op \in DataOps /\ (pc' = "read" <=> cmd.op = "READ")
      <4>1. cmd.op = "READ" /\ pc = "poll" /\ UNCHANGED <<Buffer, FIFO, transfer, cmd>>
        <5>1. pc' # "poll"
          BY <1>0, <3>2, PollSees, ReturnsTo DEF OwnCommand, Sending
        <5>2. pc' \in {"asked", "idle", "done", "read", "fill"}
          BY <1>0, <3>2, PollSees, ReturnsTo DEF OwnCommand, Sending
        <5> QED BY <2>2, <3>2, <5>1, <5>2, PollSees DEF Reading, controllerVars
      <4>2. Stream
        BY <1>c, <4>1 DEF Reading
      <4> QED BY <4>1, <4>2 DEF Stream, From
    <3>3. CASE ReadCheck \/ ReadEmpty \/ WriteWord
      <4>1. Reading /\ UNCHANGED <<Buffer, FIFO, transfer, cmd>>
        BY <2>2, <3>3 DEF Reading, ReadCheck, ReadEmpty, WriteWord, controllerVars
      <4> QED BY <1>c, <4>1 DEF Stream, From
    <3> QED BY <1>3, <3>0, <3>1, <3>2, <3>3, AnsweringSteps
  <2> QED BY <2>1, <2>2
<1>4. CASE Controller
  <2>0. UNCHANGED <<pc, cmd, mMshcCommand, Buffer, DataLen>>
    BY <1>4, ControllerApart DEF driverVars
  <2>1. From(Buffer, mMshcCommand.id, 0)'
    BY <1>c, <2>0 DEF From
  <2>2. ASSUME Reading' PROVE Stream'
    <3>0. Reading /\ Stream
      BY <1>c, <2>0, <2>2 DEF Reading
    <3>1. CASE Accept \/ BusyEnds
      BY <2>0, <3>0, <3>1 DEF Stream, From, Accept, BusyEnds
    <3>2. CASE Respond \/ NoResponse
      <4>1. executing = cmd /\ pc = "poll" /\ FIFO = <<>> /\ FIFO' = FIFO
        BY <1>0, <3>0, <3>2, Executed DEF OwnTransfer, Reading, DataOps
      <4>2. cmd.op = "READ" /\ Len(Buffer) = 0
        BY <1>b, <3>0, <4>1, SizeAssumption
      <4>3. transfer' = transfer \/ transfer'.left = Words
        <5>1. transfer' = transfer \/ Start
          BY <3>2, <4>1, <4>2, Zenon DEF Respond, NoResponse
        <5> QED BY <5>1 DEF Start
      <4>4. transfer' = transfer => Stream'
        BY <2>0, <3>0, <4>1 DEF Stream, From
      <4>5. transfer'.left = Words => Stream'
        <5>1. FIFO' = <<>> /\ Len(Buffer') = 0
          BY <2>0, <4>1, <4>2
        <5> QED BY <1>a, <5>1, SizeAssumption DEF Stream
      <4> QED BY <4>3, <4>4, <4>5
    <3>3. CASE DataIn
      <4>1. transfer.id = cmd.id /\ transfer.left \in 1 .. Words
        BY <1>0, <3>0, <3>3, DataMoves, SizeAssumption
           DEF OwnTransfer, Reading, DataOps, TypeInv, DataIn
      <4>2. /\ Len(Buffer) + Len(FIFO) = Words - transfer.left
            /\ From(FIFO, cmd.id, Len(Buffer)) /\ Len(Buffer) \in Nat /\ Len(FIFO) \in Nat
            /\ cmd.id \in Nat /\ FIFO \in Seq(WordType)
        BY <1>0, <1>b, <3>0, <4>1 DEF Stream, TypeInv
      <4>3. Words - transfer.left + 1 = Len(Buffer) + Len(FIFO) + 1
            /\ Len(Buffer) + Len(FIFO) < Words
        BY <4>1, <4>2, SizeAssumption
      <4>4. FIFO' = Append(FIFO, Data(cmd.id)[Len(Buffer) + Len(FIFO) + 1])
        BY <3>3, <4>1, <4>3 DEF DataIn
      <4>5. Len(FIFO') = Len(FIFO) + 1 /\ From(FIFO', cmd.id, Len(Buffer))
        BY <4>2, <4>3, <4>4, FromAppend
      <4>6. transfer'.left = transfer.left - 1
        BY <1>0, <3>3 DEF DataIn, TypeInv
      <4>7. From(FIFO, cmd.id, Len(Buffer))'
        BY <2>0, <4>5 DEF From
      <4>8. Len(Buffer') + Len(FIFO') = Words - transfer'.left
            /\ Len(Buffer') + Len(FIFO') <= Words
        BY <2>0, <4>1, <4>2, <4>5, <4>6, SizeAssumption
      <4> QED BY <4>7, <4>8 DEF Stream
    <3>4. CASE DataOut
      <4>1. transfer.dir = cmd.op /\ transfer.dir = "WRITE" /\ cmd.op = "READ"
        BY <1>0, <1>b, <3>0, <3>4, DataMoves DEF OwnTransfer, Reading, DataOps, DataOut
      <4> QED BY <4>1
    <3>5. CASE DataError \/ DataOver
      <4>1. FIFO' = FIFO /\ transfer'.left = 0
        BY <1>0, <1>a, <3>5 DEF DataError, DataOver, TypeInv
      <4> QED BY <2>0, <3>0, <4>1 DEF Stream, From
    <3> QED BY <1>4, <3>1, <3>2, <3>3, <3>4, <3>5 DEF Controller
  <2> QED BY <2>1, <2>2
<1> QED BY <1>1, <1>2, <1>3, <1>4 DEF Next

LEMMA WriteStreamStep == IInv /\ ~slow /\ [Next]_vars => WriteStream'
<1> SUFFICES ASSUME IInv, ~slow, [Next]_vars PROVE WriteStream'
  OBVIOUS
<1>0. /\ TypeInv /\ OwnCommand /\ Progress
      /\ CleanStart /\ OwnTransfer /\ WriteStream
  BY DEF IInv, DriverInv, ControllerInv
<1> HIDE DEF None, NoTransfer
<1> DEFINE Writing ==
             \/ pc = "poll" /\ cmd.op = "WRITE" /\ "CMD_DONE" \in RINTSTS /\ "RTO" \notin RINTSTS
             \/ pc \in {"fill", "over"}
           Stream ==
             /\ Len(card) + Len(FIFO) = Words - DataLen
             /\ From(card, cmd.id, 0) /\ From(FIFO, cmd.id, Len(card))
             /\ transfer # NoTransfer /\ ~transfer.bad => transfer.left = Words - Len(card)
             /\ transfer.bad => "DCRC" \in RINTSTS
             /\ "DTO" \in RINTSTS =>
                  transfer = NoTransfer /\ ("DCRC" \in RINTSTS \/ Len(card) = Words)
           Written == pc = "done" /\ req = "WRITE" /\ status = "SUCCESS"
           Stored == loaded = None /\ executing = None /\ transfer = NoTransfer /\ card = Data(id)
<1>a. /\ <<>> \in Seq(WordType) /\ Len(<<>>) = 0 /\ \A i, n : From(<<>>, i, n)
      /\ NoTransfer.bad = FALSE
  BY DEF From, NoTransfer
<1>b. Writing => /\ cmd.op = "WRITE" /\ cmd.id = id /\ id \in Nat /\ req = "WRITE"
                 /\ Len(card) \in Nat /\ Len(FIFO) \in Nat
                 /\ (pc = "poll" => DataLen = Words)
  <2> SUFFICES ASSUME Writing PROVE /\ cmd.op = "WRITE" /\ cmd.id = id /\ id \in Nat
                 /\ req = "WRITE" /\ Len(card) \in Nat /\ Len(FIFO) \in Nat
                 /\ (pc = "poll" => DataLen = Words)
    OBVIOUS
  <2>1. Moving /\ (pc = "poll" => Sending /\ cmd.op \in DataOps)
    BY DEF Moving, Sending, DataOps
  <2>2. cmd = [op |-> req, id |-> id]
    BY <1>0, <2>1 DEF OwnCommand
  <2>3. req = "WRITE" /\ id \in Nat
    BY <1>0, <2>2 DEF OwnCommand, TypeInv
  <2>4. pc = "poll" => DataLen = Words
    BY <1>0, <2>1 DEF Progress
  <2>5. Len(card) \in Nat /\ Len(FIFO) \in Nat
    BY <1>0 DEF TypeInv
  <2> QED BY <2>2, <2>3, <2>4, <2>5
<1>c. (Writing => Stream) /\ (Written => Stored)
  BY <1>0 DEF WriteStream
<1>d. SUFFICES (Writing' => Stream') /\ (Written' => Stored')
  BY DEF WriteStream
<1>e. Writing => Answering
  BY DEF Answering, DataOps
<1> HIDE DEF Writing, Stream, Written, Stored
<1>1. CASE UNCHANGED vars
  BY <1>1, <1>c DEF vars, driverVars, clientVars, controllerVars, Writing, Stream, Written, Stored,
                    From
<1>2. ASSUME Driver \/ Client, Writing' PROVE Stream'
  <2>0. Answering'
    BY <1>2 DEF Writing, Answering, DataOps
  <2>1. CASE SendIssue /\ cmd.op \in DataOps /\ pc = "issue"
    <3>1. RINTSTS' = {} /\ pc' = "poll"
      BY <1>0, <2>1 DEF CleanStart, SendIssue
    <3> QED BY <1>2, <3>1 DEF Writing
  <2>2. CASE /\ SendPoll /\ cmd.op \in DataOps /\ pc = "poll" /\ pc' \in {"read", "fill"}
             /\ RINTSTS \cap SendErrors = {}
             /\ pc' = "read" <=> cmd.op = "READ"
    <3>1. cmd.op = "WRITE"
      BY <1>2, <2>2 DEF Writing, DataOps
    <3>2. loaded = None /\ executing = None
      BY <2>2, PollEnds
    <3>3. "CMD_DONE" \in RINTSTS /\ "RTO" \notin RINTSTS
      BY <1>0, <2>2, <3>2 DEF OwnTransfer, SendErrors
    <3>4. Stream
      BY <1>c, <2>2, <3>1, <3>3 DEF Writing
    <3>5. UNCHANGED <<card, FIFO, DataLen, cmd, transfer, RINTSTS>>
      BY <2>2, PollSees DEF controllerVars
    <3> QED BY <3>4, <3>5 DEF Stream, From
  <2>3. CASE ReadCheck \/ ReadWord \/ ReadEmpty
    <3>1. pc' \in {"read", "pop", "last", "done"}
      BY <2>3 DEF ReadCheck, ReadWord, ReadEmpty, Finish
    <3> QED BY <1>2, <3>1 DEF Writing
  <2>4. CASE WriteWord
    <3>1. Writing /\ pc = "fill" /\ UNCHANGED <<card, cmd, transfer, RINTSTS>>
          /\ FIFO' = Append(FIFO, Data(id)[Words - DataLen + 1]) /\ DataLen' = DataLen - 1
      BY <2>4 DEF WriteWord, Writing
    <3>2. /\ cmd.id = id /\ id \in Nat /\ Len(card) \in Nat /\ Len(FIFO) \in Nat
          /\ DataLen \in 1 .. Words /\ FIFO \in Seq(WordType)
      BY <1>0, <1>b, <3>1 DEF TypeInv, Progress
    <3>3. /\ Len(card) + Len(FIFO) = Words - DataLen
          /\ From(card, cmd.id, 0) /\ From(FIFO, cmd.id, Len(card))
      BY <1>c, <3>1 DEF Stream
    <3>4. Words - DataLen + 1 = Len(card) + Len(FIFO) + 1 /\ Len(card) + Len(FIFO) < Words
      BY <3>2, <3>3, SizeAssumption
    <3>5. FIFO' = Append(FIFO, Data(cmd.id)[Len(card) + Len(FIFO) + 1])
      BY <3>1, <3>2, <3>4
    <3>6. Len(FIFO') = Len(FIFO) + 1 /\ From(FIFO', cmd.id, Len(card))
      BY <3>2, <3>3, <3>4, <3>5, FromAppend
    <3>7. Len(card') + Len(FIFO') = Words - DataLen'
      BY <3>1, <3>2, <3>3, <3>6, SizeAssumption
    <3>8. From(card, cmd.id, 0)' /\ From(FIFO, cmd.id, Len(card))'
      BY <3>1, <3>3, <3>6 DEF From
    <3>9. /\ transfer # NoTransfer /\ ~transfer.bad => transfer.left = Words - Len(card)
          /\ transfer.bad => "DCRC" \in RINTSTS
          /\ "DTO" \in RINTSTS =>
               transfer = NoTransfer /\ ("DCRC" \in RINTSTS \/ Len(card) = Words)
      BY <1>c, <3>1 DEF Stream
    <3> QED BY <3>1, <3>7, <3>8, <3>9 DEF Stream
  <2> QED BY <1>2, <2>0, <2>1, <2>2, <2>3, <2>4, AnsweringSteps
<1>3. ASSUME Driver \/ Client, Written' PROVE Stored'
  <2>1. SendPoll \/ ResetFifo \/ ReadCheck \/ ReadEmpty \/ ReadLast \/ WriteOver
    BY <1>3 DEF Written, Driver, SendWait, SendClear, SendIssue, DataWait, ReadWord, WriteWord,
                Client, Request, AskAgain, NotReady, MshcSendCommand, StopTransmission,
                OneBlockDone, Send
  <2>2. CASE SendPoll
    <3>1. cmd.op \in {"CMD12", "CMD13", "READ", "WRITE"} /\ cmd # None
      BY <1>0, <2>2, PollSees, CommandIs DEF TypeInv, OwnCommand, Sending
    <3>2. SendReturns("SUCCESS")
      <4>1. SendReturns("DEVICE_ERROR") => status' = "DEVICE_ERROR"
        BY DEF SendReturns
      <4> QED BY <1>3, <2>2, <4>1, PollSees DEF Written
    <3>3. pc' # "done"
      BY <1>0, <3>1, <3>2, ReturnsTo DEF DataOps
    <3> QED BY <1>3, <3>3 DEF Written
  <2>3. CASE ResetFifo \/ ReadEmpty
    BY <1>0, <1>3, <2>3 DEF Written, ResetFifo, ReadEmpty, Finish, Send, OwnCommand, clientVars
  <2>4. CASE ReadCheck \/ ReadLast
    BY <1>0, <1>3, <2>4 DEF Written, ReadCheck, ReadLast, Finish, OwnCommand, clientVars
  <2>5. CASE WriteOver
    <3>1. /\ Writing /\ pc = "over" /\ "DTO" \in RINTSTS /\ "DCRC" \notin RINTSTS
          /\ UNCHANGED <<loaded, executing, transfer, card, id>>
      BY <1>3, <2>5 DEF Written, WriteOver, Finish, Writing, WriteErrors, controllerVars, clientVars
    <3>2. transfer = NoTransfer /\ Len(card) = Words /\ From(card, id, 0)
      BY <1>b, <1>c, <3>1 DEF Stream
    <3>3. card = Data(id)
      <4>1. card \in Seq(WordType) /\ DOMAIN card = 1 .. Words
        BY <1>0, <3>2 DEF TypeInv
      <4>2. \A k \in 1 .. Words : card[k] = Data(id)[k]
        BY <3>2, SizeAssumption DEF From
      <4>3. card = [k \in 1 .. Words |-> card[k]]
        BY <4>1
      <4>4. Data(id) = [k \in 1 .. Words |-> Data(id)[k]]
        BY DEF Data
      <4> QED BY <4>2, <4>3, <4>4
    <3>4. loaded = None /\ executing = None
      BY <1>0, <3>1 DEF OwnTransfer
    <3> QED BY <3>1, <3>2, <3>3, <3>4 DEF Stored
  <2> QED BY <2>1, <2>2, <2>3, <2>4, <2>5
<1>4. ASSUME Controller, Written' PROVE Stored'
  <2>1. Stored /\ id' = id
    BY <1>c, <1>4, ControllerApart DEF Written, driverVars, clientVars
  <2>2. CASE Accept \/ BusyEnds
    BY <2>1, <2>2 DEF Stored, Accept, BusyEnds
  <2>3. CASE Respond \/ NoResponse
    BY <1>0, <2>1, <2>3, Executed DEF Stored
  <2>4. CASE DataIn \/ DataOut \/ DataError \/ DataOver
    BY <2>1, <2>4, DataMoves DEF Stored
  <2> QED BY <1>4, <2>2, <2>3, <2>4 DEF Controller
<1>5. ASSUME Controller, Writing' PROVE Stream'
  <2>0. UNCHANGED <<pc, cmd, DataLen>>
    BY <1>5, ControllerApart DEF driverVars
  <2>1. CASE Accept \/ BusyEnds
    <3>1. UNCHANGED <<card, FIFO, transfer, RINTSTS>>
      BY <2>1 DEF Accept, BusyEnds
    <3> QED BY <1>5, <1>c, <2>0, <3>1 DEF Writing, Stream, From
  <2>2. CASE Respond \/ NoResponse
    <3>1. Answering
      BY <1>5, <2>0 DEF Writing, Answering, DataOps
    <3>2. executing = cmd /\ pc = "poll" /\ FIFO = <<>> /\ FIFO' = FIFO /\ RINTSTS = {}
          /\ cmd.op = "WRITE"
      BY <1>0, <1>5, <2>0, <2>2, <3>1, Executed DEF OwnTransfer, Answering, Writing, DataOps
    <3>3. "RTO" \notin RINTSTS'
      BY <1>5, <2>0, <3>2 DEF Writing
    <3>4. Respond
      BY <2>2, <3>3 DEF NoResponse
    <3>5. Start /\ RINTSTS' = {"CMD_DONE"}
      <4>1. cmd.op \in {"READ", "WRITE"} /\ cmd.op # "CMD12"
        BY <3>2
      <4>2. Start
        BY <3>2, <3>4, <4>1, Zenon DEF Respond
      <4> QED BY <3>2, <3>4, <4>2 DEF Respond
    <3>6. card' = <<>> /\ FIFO' = <<>> /\ transfer'.bad = FALSE /\ transfer'.left = Words
          /\ "DTO" \notin RINTSTS'
      BY <3>2, <3>5 DEF Start
    <3>7. DataLen' = Words
      <4>1. Sending /\ cmd.op \in DataOps
        BY <3>2 DEF Sending, DataOps
      <4> QED BY <1>0, <2>0, <4>1 DEF Progress
    <3> QED BY <1>a, <3>6, <3>7, SizeAssumption DEF Stream
  <2>3. CASE DataIn \/ DataOut \/ DataError \/ DataOver
    <3>1. Writing
      BY <1>5, <2>0, <2>3 DEF Writing, DataIn, DataOut, DataError, DataOver
    <3>2. /\ cmd.op = "WRITE" /\ cmd.id \in Nat /\ Len(card) \in Nat /\ Len(FIFO) \in Nat
          /\ card \in Seq(WordType) /\ FIFO \in Seq(WordType) /\ DataLen \in 0 .. Words
          /\ transfer.left \in 0 .. Words
      BY <1>0, <1>b, <3>1 DEF TypeInv
    <3>3. /\ Len(card) + Len(FIFO) = Words - DataLen
          /\ From(card, cmd.id, 0) /\ From(FIFO, cmd.id, Len(card))
          /\ transfer # NoTransfer /\ ~transfer.bad => transfer.left = Words - Len(card)
          /\ transfer.bad => "DCRC" \in RINTSTS
          /\ "DTO" \in RINTSTS =>
               transfer = NoTransfer /\ ("DCRC" \in RINTSTS \/ Len(card) = Words)
      BY <1>c, <3>1 DEF Stream
    <3>4. transfer # NoTransfer /\ "DTO" \notin RINTSTS /\ transfer.dir = "WRITE"
      BY <1>0, <1>e, <2>3, <3>1, <3>2, <3>3, DataMoves DEF OwnTransfer, Answering
    <3>5. CASE DataIn
      BY <3>4, <3>5 DEF DataIn
    <3>6. CASE DataOut
      <4>1. /\ FIFO # <<>> /\ card' = Append(card, Head(FIFO)) /\ FIFO' = Tail(FIFO)
            /\ transfer'.left = transfer.left - 1 /\ transfer'.bad = transfer.bad
            /\ RINTSTS' = RINTSTS
        BY <1>0, <3>6 DEF DataOut, TypeInv
      <4>2. /\ Head(FIFO) = Data(cmd.id)[Len(card) + 1]
            /\ Len(FIFO') = Len(FIFO) - 1 /\ Len(FIFO) > 0
            /\ From(FIFO', cmd.id, Len(card) + 1)
        <5>1. Len(card) + Len(FIFO) <= Words
          BY <3>2, <3>3, SizeAssumption
        <5> QED BY <3>2, <3>3, <4>1, <5>1, FromTail, StreamType
      <4>3. 0 + Len(card) < Words /\ 0 + Len(card) + 1 = Len(card) + 1
        BY <3>2, <3>3, <4>2, SizeAssumption
      <4>4. Len(card') = Len(card) + 1 /\ From(card', cmd.id, 0)
        BY <3>2, <3>3, <4>1, <4>2, <4>3, FromAppend
      <4>5. Len(card') + Len(FIFO') = Words - DataLen'
        BY <2>0, <3>2, <3>3, <4>2, <4>4
      <4>6. From(card, cmd.id, 0)' /\ From(FIFO, cmd.id, Len(card))'
        BY <2>0, <4>2, <4>4 DEF From
      <4>7. ~transfer'.bad => transfer'.left = Words - Len(card')
        BY <3>2, <3>3, <3>4, <4>1, <4>4, SizeAssumption
      <4> QED BY <3>3, <3>4, <4>1, <4>5, <4>6, <4>7 DEF Stream
    <3>7. CASE DataError
      <4>1. /\ UNCHANGED <<card, FIFO>> /\ RINTSTS' = RINTSTS \cup {"DCRC"}
            /\ transfer'.bad = TRUE
        BY <1>0, <3>7 DEF DataError, TypeInv
      <4>2. From(card, cmd.id, 0)' /\ From(FIFO, cmd.id, Len(card))'
        BY <2>0, <3>3, <4>1 DEF From
      <4> QED BY <2>0, <3>3, <3>4, <4>1, <4>2 DEF Stream
    <3>8. CASE DataOver
      <4>1. /\ UNCHANGED <<card, FIFO>> /\ RINTSTS' = RINTSTS \cup {"DTO"}
            /\ transfer' = NoTransfer /\ transfer.left = 0
        BY <3>8 DEF DataOver
      <4>2. From(card, cmd.id, 0)' /\ From(FIFO, cmd.id, Len(card))'
        BY <2>0, <3>3, <4>1 DEF From
      <4>3. "DCRC" \in RINTSTS \/ Len(card) = Words
        BY <1>0, <3>2, <3>3, <3>4, <4>1, SizeAssumption DEF TypeInv
      <4>4. Len(card') + Len(FIFO') = Words - DataLen'
        BY <2>0, <3>3, <4>1
      <4>5. transfer'.bad = FALSE
        BY <1>a, <4>1
      <4>6. "DCRC" \in RINTSTS' \/ Len(card') = Words
        BY <4>1, <4>3
      <4> QED BY <4>1, <4>2, <4>4, <4>5, <4>6 DEF Stream
    <3> QED BY <2>3, <3>5, <3>6, <3>7, <3>8
  <2> QED BY <1>5, <2>1, <2>2, <2>3 DEF Controller
<1> QED BY <1>1, <1>2, <1>3, <1>4, <1>5 DEF Next

LEMMA IInvStep == IInv /\ [Next]_vars => IInv'
BY DriverInvStep, SlowStays, DataCommandsStep, StatusAnswerStep, CleanStartStep, OwnTransferStep,
   ReadStreamStep, WriteStreamStep DEF IInv, ControllerInv

\* Each of those facts is an invariant of the driver and its controller.
LEMMA Invariance == Spec => []IInv
BY InitInv, IInvStep, PTL DEF Spec

-----------------------------------------------------------------------------
(* The theorems *)

\* What ReadBlockData has stored is, word for word, the block of its own
\* request: nothing that an earlier transfer left in the FIFO, or still
\* delivers, gets in (the loop of MshcDxe.c:559, after the status request of
\* MmcDxe and the FIFO reset of line 531), unless the controller is slow to
\* answer.
THEOREM OwnDataRead == Spec => []ReadsOwnData
<1>1. IInv => ReadsOwnData
  <2> SUFFICES ASSUME IInv, req = "READ", ~slow, NEW n \in DOMAIN Buffer
               PROVE  Buffer[n] = Data(mMshcCommand.id)[n]
    BY DEF ReadsOwnData
  <2>1. Buffer \in Seq(WordType) /\ From(Buffer, mMshcCommand.id, 0)
    BY DEF IInv, DriverInv, TypeInv, ControllerInv, ReadStream
  <2>2. n \in 1 .. Len(Buffer) /\ 0 + n = n
    BY <2>1
  <2> QED BY <2>1, <2>2 DEF From
<1> QED BY <1>1, Invariance, PTL

\* When WriteBlockData reports success the card holds the whole block: the
\* "transfer over" it waits for is that of its own transfer, unless the
\* controller is slow to answer.
THEOREM WriteStored == Spec => []WriteIsStored
<1>1. IInv => WriteIsStored
  BY DEF IInv, ControllerInv, WriteStream, WriteIsStored
<1> QED BY <1>1, Invariance, PTL

\* A data error raised before the last word was read is reported, also when it
\* comes between ReadBlockData's check (MshcDxe.c:560) and the word, and
\* whatever the controller's speed: it looks again after the last word (:573),
\* and the bit stays until SendCommand clears it.
THEOREM ErrorReported == Spec => []EarlyErrorReported
<1>1. IInv => EarlyErrorReported
  BY DEF IInv, DriverInv, ErrorKept, EarlyErrorReported
<1> QED BY <1>1, Invariance, PTL
=============================================================================
