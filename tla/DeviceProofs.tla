---------------------------- MODULE DeviceProofs ----------------------------
(* The parts of the board.  What the library for the I2C bus, the one for    *)
(* the OTP memory and the random number driver promise, each proved against  *)
(* an environment that calls it legally and leaves its state alone;          *)
(* BoardProofs shows that the board is such an environment.  What the size   *)
(* of the memory and the table of regions come to.  What each driver's       *)
(* writes leave alone in the register file, and each access in the root      *)
(* port's configuration space; and what each access comes to, byte by byte.  *)
EXTENDS Trng, PlatformMemory, BoardInitDxe, UsbHcd, PciHost, Emmc, MshcInit, TLAPS,
        WellFoundedInduction

-----------------------------------------------------------------------------
(* A bus transfer that returns EFI_SUCCESS has been done, whatever device    *)
(* is on the bus, however long it takes and whatever failed before.  The     *)
(* rest of the boot is an environment that makes calls and leaves the        *)
(* library's state alone; BoardProofs shows that the board is one.           *)

\* Another driver makes a call ...
I2cEntered ==
    /\ pc[1] # "I2c"
    /\ \E op \in {"read", "write"}, reg \in PmicReg, value \in PmicValue,
          ret \in Returns : CallI2c(op, reg, value, ret)
    /\ UNCHANGED <<con, ipd, engine, claimed, tx, rx, pmic>>

\* ... or goes on by itself.
I2cElsewhere == pc[1] # "I2c" /\ pc'[1] # "I2c" /\ UNCHANGED i2cVars

I2cNext == I2cStep \/ I2cHw \/ I2cEntered \/ I2cElsewhere

I2cStart0 == I2cInitial /\ pc[1] # "I2c"
I2cSpec == I2cStart0 /\ [][I2cNext]_<<pc, i2cVars>>

------------------------------------------------------------------------------
(* The inductive invariant.                                                   *)

Typed ==
    /\ con \subseteq {"EN", "RTX", "TX", "START", "STOP", "ACK"}
    /\ ipd \subseteq {"START", "MBRF", "MBTF", "STOP", "NAK"}
    /\ engine \in {"off", "started", "armed", "done", "stopped"}
    /\ claimed \in BOOLEAN
    /\ rx \in PmicValue
    /\ pmic \in [PmicReg -> PmicValue]
    /\ i2cCall \in Calls

\* What an armed controller will send is a transfer this library set up.
Armed ==
    engine = "armed" =>
        tx[2] \in PmicReg /\ ("TX" \in con => tx[3] \in PmicValue)

Points == {"init", "clear", "start", "waitStart", "send", "waitData", "waitStop"}

InCall ==
    /\ pc[1] = "I2c" => \E p \in Points : At(p)
    /\ pc[1] = "I2c" <=> i2cCall.status = "busy"
    /\ pc[1] = "I2c" => i2cCall.op \in {"read", "write"}

Done == pmic[i2cCall.reg] = i2cCall.value
Answered == IF i2cCall.op = "read" THEN rx = pmic[i2cCall.reg] ELSE Done

\* How far the controller is at each point: it is off when the pending bits
\* are acknowledged, so no bit of an earlier transfer is seen.
Phase ==
    /\ At("clear") => con = {} /\ engine = "off"
    /\ At("start") => con = {} /\ engine = "off" /\ ipd = {}
    /\ At("waitStart") =>
         /\ con = {"EN", Mode, "START"}
         /\ \/ engine = "off" /\ ipd = {}
            \/ engine = "started" /\ ipd = {"START"}
    /\ At("send") => con = {"EN", Mode} /\ engine = "started" /\ ipd = {}
    /\ At("waitData") =>
         /\ con \in {{"EN", Mode}, {"EN", Mode, "ACK"}}
         /\ \/ /\ engine = "armed" /\ ipd = {} /\ tx[2] = i2cCall.reg
               /\ i2cCall.op = "write" => tx[3] = i2cCall.value
            \/ engine = "done" /\ ipd = {DataEvent} /\ Answered
            \/ engine = "done" /\ ipd = {"NAK"}
    /\ At("waitStop") =>
         /\ con \in {{"EN", Mode, "STOP"}, {"EN", Mode, "ACK", "STOP"}}
         /\ Done
         /\ \/ engine = "done" /\ ipd = {}
            \/ engine = "stopped" /\ ipd = {"STOP"} /\ ~claimed

Quiet ==
    i2cCall.status = EFI_SUCCESS => con = {} /\ engine = "off" /\ ~claimed /\ Done

I2cInv == Typed /\ Armed /\ InCall /\ Phase /\ Quiet

------------------------------------------------------------------------------
LEMMA I2cInvInit == I2cStart0 => I2cInv
<1> SUFFICES ASSUME I2cStart0 PROVE I2cInv
  OBVIOUS
<1>1. (CHOOSE x \in PmicReg : TRUE) \in PmicReg /\ (CHOOSE x \in PmicValue : TRUE) \in PmicValue
  <2>1. PmicReg # {} /\ PmicValue # {}
    BY PmicAssumption DEF PmicAssumption
  <2> QED BY <2>1
<1>2. NoCall.reg \in PmicReg /\ NoCall.value \in PmicValue
  BY <1>1 DEF NoCall
<1>3. i2cCall = NoCall /\ rx = NoCall.value /\ pmic = [r \in PmicReg |-> r]
  BY DEF I2cStart0, I2cInitial
<1>4. i2cCall \in Calls
  <2>0. PICK r0 \in PmicReg, v0 \in PmicValue :
          NoCall = [op |-> "none", reg |-> r0, value |-> v0, status |-> "none", ret |-> "none"]
    BY <1>1 DEF NoCall
  <2>1. NoCall \in Calls
    BY <2>0 DEF Calls, Returns
  <2> QED BY <1>3, <2>1
<1>5. Typed
  <2>1. pmic \in [PmicReg -> PmicValue]
    BY <1>3, PmicAssumption DEF PmicAssumption
  <2> QED BY <1>2, <1>3, <1>4, <2>1 DEF I2cStart0, I2cInitial, Typed
<1>6. i2cCall.status = "none"
  BY <1>3 DEF NoCall
<1> QED
  BY <1>5, <1>6 DEF I2cStart0, I2cInitial, I2cInv, Armed, InCall, Phase, Quiet, At, EFI_SUCCESS

\* A call and the steps of the library, one by one.
LEMMA I2cEnteredInv == I2cInv /\ I2cEntered => I2cInv'
<1> SUFFICES ASSUME I2cInv, I2cEntered PROVE I2cInv'
  OBVIOUS
<1>1. PICK op \in {"read", "write"}, reg \in PmicReg, value \in PmicValue, ret \in Returns :
        CallI2c(op, reg, value, ret)
  BY DEF I2cEntered
<1>2. i2cCall' \in Calls /\ i2cCall'.status = "busy" /\ i2cCall'.op = op /\ pc' = <<"I2c", "init">>
  BY <1>1 DEF CallI2c, Calls, Goto
<1> QED
  BY <1>1, <1>2 DEF I2cEntered, I2cInv, Typed, Armed, InCall, Phase, Quiet, At, Points, EFI_SUCCESS

LEMMA GiveUpInv ==
  ASSUME I2cInv, NEW mask, pc[1] = "I2c", GiveUp(mask) PROVE I2cInv'
<1>1. /\ i2cCall' \in Calls /\ i2cCall'.status \in {"EFI_TIMEOUT", "EFI_DEVICE_ERROR"}
      /\ pc' = <<"BoardInitDxe", i2cCall.ret>>
  BY DEF GiveUp, Return, I2cInv, Typed, Calls
<1>2. Typed'
  BY <1>1 DEF I2cInv, Typed, GiveUp
<1>3. Armed'
  BY DEF I2cInv, Armed, GiveUp
<1>4. InCall' /\ Phase' /\ Quiet'
  BY <1>1 DEF InCall, Phase, Quiet, At, EFI_SUCCESS
<1> QED BY <1>2, <1>3, <1>4 DEF I2cInv

LEMMA WaitStartInv == I2cInv /\ WaitStart => I2cInv'
<1> SUFFICES ASSUME I2cInv, WaitStart PROVE I2cInv'
  OBVIOUS
<1>1. CASE GiveUp("START")
  BY <1>1, GiveUpInv DEF WaitStart, At
<1>2. CASE Seen("START") /\ con' = con \ {"START"} /\ Goto("send")
             /\ UNCHANGED <<engine, claimed, tx, rx, pmic, i2cCall>>
  <2>1. Mode \in {"RTX", "TX"}
    BY DEF Mode
  <2>2. con' = {"EN", Mode} /\ engine = "started" /\ ipd' = {}
    BY <1>2, <2>1 DEF I2cInv, Phase, WaitStart, At, Seen
  <2> QED
    BY <1>2, <2>1, <2>2 DEF I2cInv, Typed, Armed, InCall, Phase, Quiet, WaitStart, At, Goto,
       Points, Mode, Seen
<1> QED BY <1>1, <1>2 DEF WaitStart

LEMMA WaitDataInv == I2cInv /\ WaitData => I2cInv'
<1> SUFFICES ASSUME I2cInv, WaitData PROVE I2cInv'
  OBVIOUS
<1>1. CASE GiveUp(DataEvent)
  BY <1>1, GiveUpInv DEF WaitData, At
<1>2. CASE /\ Seen(DataEvent)
           /\ i2cCall' = IF i2cCall.op = "read" THEN [i2cCall EXCEPT !.value = rx] ELSE i2cCall
           /\ con' = con \cup {"STOP"} /\ Goto("waitStop")
           /\ UNCHANGED <<engine, claimed, tx, rx, pmic>>
  <2>1. Mode \in {"RTX", "TX"} /\ DataEvent \in {"MBRF", "MBTF"}
    BY DEF Mode, DataEvent
  <2>2. engine = "done" /\ ipd = {DataEvent} /\ Answered
    BY <1>2, <2>1 DEF I2cInv, Phase, WaitData, At, Seen
  <2>3. ipd' = {}
    BY <1>2, <2>2 DEF Seen
  <2>4. i2cCall' \in Calls /\ i2cCall'.status = i2cCall.status /\ i2cCall'.op = i2cCall.op
        /\ i2cCall'.reg = i2cCall.reg
    BY <1>2 DEF I2cInv, Typed, Calls
  <2>5. Done'
    BY <1>2, <2>2, <2>4 DEF Done, Answered, I2cInv, Typed, Calls
  <2>6. Mode' = Mode
    BY <2>4 DEF Mode
  <2>7. con' \in {{"EN", Mode, "STOP"}, {"EN", Mode, "ACK", "STOP"}}
    BY <1>2 DEF I2cInv, Phase, WaitData, At
  <2>8. Phase'
    BY <1>2, <2>2, <2>3, <2>5, <2>6, <2>7 DEF Phase, At, Goto
  <2>9. Typed'
    BY <1>2, <2>1, <2>3, <2>4, <2>7 DEF I2cInv, Typed
  <2>10. Armed' /\ InCall' /\ Quiet'
    BY <1>2, <2>2, <2>4 DEF I2cInv, Armed, InCall, Quiet, WaitData, At, Goto, Points, EFI_SUCCESS
  <2> QED BY <2>8, <2>9, <2>10 DEF I2cInv
<1> QED BY <1>1, <1>2 DEF WaitData

LEMMA WaitStopInv == I2cInv /\ WaitStop => I2cInv'
<1> SUFFICES ASSUME I2cInv, WaitStop PROVE I2cInv'
  OBVIOUS
<1>1. CASE GiveUp("STOP")
  BY <1>1, GiveUpInv DEF WaitStop, At
<1>2. CASE /\ Seen("STOP")
           /\ con' = {} /\ engine' = "off"
           /\ Return(EFI_SUCCESS, i2cCall.value)
           /\ UNCHANGED <<claimed, tx, rx, pmic>>
  <2>1. ipd = {"STOP"} /\ ~claimed /\ Done /\ ipd' = {}
    BY <1>2 DEF I2cInv, Phase, WaitStop, At, Seen
  <2>2. i2cCall' \in Calls /\ i2cCall'.status = EFI_SUCCESS /\ i2cCall'.reg = i2cCall.reg
        /\ i2cCall'.value = i2cCall.value /\ pc' = <<"BoardInitDxe", i2cCall.ret>>
    BY <1>2 DEF Return, I2cInv, Typed, Calls
  <2> QED
    BY <1>2, <2>1, <2>2 DEF I2cInv, Typed, Armed, InCall, Phase, Quiet, At, Done, EFI_SUCCESS
<1> QED BY <1>1, <1>2 DEF WaitStop

LEMMA I2cStepInv == I2cInv /\ I2cStep => I2cInv'
<1> SUFFICES ASSUME I2cInv, I2cStep PROVE I2cInv'
  OBVIOUS
<1>1. Mode \in {"RTX", "TX"} /\ i2cCall.reg \in PmicReg /\ i2cCall.value \in PmicValue
  BY DEF Mode, I2cInv, Typed, Calls
<1>2. CASE I2cInit
  <2>1. Typed'
    BY <1>1, <1>2 DEF I2cInit, I2cInv, Typed
  <2>2. Phase'
    BY <1>1, <1>2 DEF I2cInit, I2cInv, Phase, At, Goto, Mode
  <2>3. Armed' /\ InCall' /\ Quiet'
    BY <1>2 DEF I2cInit, I2cInv, Armed, InCall, Phase, Quiet, At, Goto, Points, EFI_SUCCESS
  <2> QED BY <2>1, <2>2, <2>3 DEF I2cInv
<1>3. CASE I2cAck
  <2>1. Typed'
    BY <1>1, <1>3 DEF I2cAck, I2cInv, Typed
  <2>2. Phase'
    BY <1>1, <1>3 DEF I2cAck, I2cInv, Phase, At, Goto, Mode
  <2>3. Armed' /\ InCall' /\ Quiet'
    BY <1>3 DEF I2cAck, I2cInv, Armed, InCall, Phase, Quiet, At, Goto, Points, EFI_SUCCESS
  <2> QED BY <2>1, <2>2, <2>3 DEF I2cInv
<1>4. CASE I2cStart
  <2>1. Typed'
    BY <1>1, <1>4 DEF I2cStart, I2cInv, Typed
  <2>2. Phase'
    BY <1>1, <1>4 DEF I2cStart, I2cInv, Phase, At, Goto, Mode
  <2>3. Armed' /\ InCall' /\ Quiet'
    BY <1>4 DEF I2cStart, I2cInv, Armed, InCall, Phase, Quiet, At, Goto, Points, EFI_SUCCESS
  <2> QED BY <2>1, <2>2, <2>3 DEF I2cInv
<1>5. CASE I2cSend
  <2>1. con = {"EN", Mode} /\ ipd = {}
    BY <1>5 DEF I2cInv, Phase, I2cSend, At
  <2>2. con' \in {{"EN", Mode}, {"EN", Mode, "ACK"}}
    BY <1>5, <2>1 DEF I2cSend
  <2>3. tx'[2] = i2cCall.reg /\ (i2cCall.op # "read" => tx'[3] = i2cCall.value)
    BY <1>5 DEF I2cSend
  <2>4. Typed'
    BY <1>1, <1>5, <2>2 DEF I2cSend, I2cInv, Typed
  <2>5. Armed'
    BY <1>1, <1>5, <2>2, <2>3 DEF I2cSend, Armed, Mode
  <2>6. Mode' = Mode
    BY <1>5 DEF I2cSend, Mode
  <2>7. Phase'
    BY <1>5, <2>1, <2>2, <2>3, <2>6 DEF I2cSend, Phase, At, Goto
  <2>8. InCall' /\ Quiet'
    BY <1>5 DEF I2cSend, I2cInv, InCall, Quiet, At, Goto, Points, EFI_SUCCESS
  <2> QED BY <2>4, <2>5, <2>7, <2>8 DEF I2cInv
<1> QED
  BY <1>2, <1>3, <1>4, <1>5, WaitStartInv, WaitDataInv, WaitStopInv DEF I2cStep

\* The controller goes on beside it, also after the library has given up.
LEMMA I2cHwInv == I2cInv /\ I2cHw => I2cInv'
<1> SUFFICES ASSUME I2cInv, I2cHw PROVE I2cInv'
  OBVIOUS
<1>1. Mode \in {"RTX", "TX"} /\ i2cCall.reg \in PmicReg /\ i2cCall.value \in PmicValue
  BY DEF Mode, I2cInv, Typed, Calls
<1>2. pc' = pc
  BY DEF I2cHw
<1>3. CASE HwStart
  BY <1>1, <1>2, <1>3 DEF HwStart, I2cInv, Typed, Armed, InCall, Phase, Quiet, At, Mode
<1>4. CASE HwRead
  <2>1. rx' \in PmicValue
    BY <1>4 DEF HwRead, I2cInv, Typed, Armed
  <2>2. At("waitData") => i2cCall.op = "read" /\ tx[2] = i2cCall.reg /\ ipd = {}
    BY <1>1, <1>4 DEF HwRead, I2cInv, Phase, InCall, Mode, At
  <2>3. Phase'
    BY <1>1, <1>2, <1>4, <2>2 DEF HwRead, I2cInv, Phase, At, Mode, DataEvent, Answered, Done
  <2> QED
    BY <1>2, <1>4, <2>1, <2>3 DEF HwRead, I2cInv, Typed, Armed, InCall, Quiet, At, Done
<1>5. CASE HwWrite
  <2>1. pmic' \in [PmicReg -> PmicValue]
    BY <1>5 DEF HwWrite, I2cInv, Typed, Armed
  <2>2. At("waitData") => /\ i2cCall.op = "write" /\ tx[2] = i2cCall.reg
                          /\ tx[3] = i2cCall.value /\ ipd = {}
    BY <1>1, <1>5 DEF HwWrite, I2cInv, Phase, InCall, Mode, At
  <2>3. At("waitData") => pmic'[i2cCall.reg] = i2cCall.value
    BY <1>1, <1>5, <2>2 DEF HwWrite, I2cInv, Typed
  <2>4. Phase'
    BY <1>1, <1>2, <1>5, <2>2, <2>3 DEF HwWrite, I2cInv, Phase, At, Mode, DataEvent, Answered, Done
  <2> QED
    BY <1>2, <1>5, <2>1, <2>4 DEF HwWrite, I2cInv, Typed, Armed, InCall, Quiet, At, Done
<1>6. CASE HwNak
  BY <1>1, <1>2, <1>6 DEF HwNak, I2cInv, Typed, Armed, InCall, Phase, Quiet, At, Mode, Done
<1>7. CASE HwStop
  <2>1. At("waitStop") => ipd = {} /\ Done
    BY <1>7 DEF HwStop, I2cInv, Phase, At
  <2>2. ~At("waitStart") /\ ~At("waitData") /\ ~At("send")
    BY <1>1, <1>7 DEF HwStop, I2cInv, Phase, At
  <2>3. Mode' = Mode /\ (Done => Done')
    BY <1>7 DEF HwStop, Mode, Done
  <2>4. Phase'
    BY <1>2, <1>7, <2>1, <2>2, <2>3 DEF HwStop, I2cInv, Phase, At
  <2>5. Typed'
    BY <1>7 DEF HwStop, I2cInv, Typed
  <2>6. i2cCall.status # EFI_SUCCESS
    BY <1>7 DEF HwStop, I2cInv, Quiet
  <2> QED
    BY <1>2, <1>7, <2>4, <2>5, <2>6 DEF HwStop, I2cInv, Armed, InCall, Quiet, At
<1> QED BY <1>3, <1>4, <1>5, <1>6, <1>7 DEF I2cHw

\* What is elsewhere leaves the invariant alone.
LEMMA I2cElsewhereInv == I2cInv /\ (I2cElsewhere \/ UNCHANGED <<pc, i2cVars>>) => I2cInv'
<1> SUFFICES ASSUME I2cInv, UNCHANGED i2cVars,
                    pc' = pc \/ (pc[1] # "I2c" /\ pc'[1] # "I2c")
             PROVE  I2cInv'
  BY DEF I2cElsewhere
<1>1. Typed' /\ Armed'
  BY DEF i2cVars, I2cInv, Typed, Armed
<1>2. InCall' /\ Quiet'
  BY DEF i2cVars, I2cInv, InCall, Quiet, At, Done
<1>3. Phase'
  BY DEF i2cVars, I2cInv, Phase, At, Mode, Done, Answered, DataEvent
<1> QED BY <1>1, <1>2, <1>3 DEF I2cInv

\* The inductive invariant holds in every environment.
THEOREM I2cInvariance == I2cSpec => []I2cInv
<1>1. I2cInv /\ [I2cNext]_<<pc, i2cVars>> => I2cInv'
  BY I2cStepInv, I2cHwInv, I2cEnteredInv, I2cElsewhereInv DEF I2cNext
<1> QED BY I2cInvInit, <1>1, PTL DEF I2cSpec

\* A call that returns EFI_SUCCESS did what it says (I2cLib.c:163-267), with
\* every device, every sequence of calls and every late answer.
THEOREM TransferDone == I2cSpec => []SuccessMeansDone
<1>1. I2cInv => SuccessMeansDone
  BY DEF I2cInv, Quiet, Done, SuccessMeansDone
<1> QED BY I2cInvariance, <1>1, PTL

-----------------------------------------------------------------------------
(* The one-time-programmable memory is read exactly, for every range that   *)
(* can be asked for.  The boot asks once; BoardProofs shows that.            *)

\* The one call of a boot ...
OtpEntered ==
    /\ pc[1] # "Otp" /\ otpCall.length = 0
    /\ \E offset \in Nat, length \in Nat \ {0} : CallOtp(offset, length)
    /\ UNCHANGED <<userOp, userDone, userQ>>

\* ... and what goes on elsewhere.
OtpElsewhere == pc[1] # "Otp" /\ pc'[1] # "Otp" /\ UNCHANGED otpVars

OtpNext == OtpStep \/ HwOtp \/ OtpEntered \/ OtpElsewhere

OtpStart == OtpInitial /\ pc[1] # "Otp"
OtpSpec == OtpStart /\ [][OtpNext]_<<pc, otpVars>>

------------------------------------------------------------------------------
OtpCalls == [offset : Nat, length : Nat, addr : Nat, left : Nat, data : Seq(Int),
             retry : BOOLEAN, timedOut : BOOLEAN]

OtpTyped ==
    /\ userOp \in Int /\ userQ \in Int
    /\ userDone \in BOOLEAN
    /\ otpCall \in OtpCalls

Taken == Len(otpCall.data)

\* Where the call is in its range: words after the first begin at an even byte.
Position ==
    /\ Taken + otpCall.left = otpCall.length
    /\ pc[1] = "Otp" =>
         /\ \E p \in {"ecc", "issue", "wait", "collect"} : OtpAt(p)
         /\ otpCall.left # 0
         /\ otpCall.addr = (otpCall.offset + Taken) \div 2
         /\ Taken = 0 \/ (otpCall.offset + Taken) % 2 = 0
    /\ pc[1] # "Otp" => otpCall.left = 0

\* Nothing has been read before the call.
Unused == otpCall.length = 0 => userOp = NoWord /\ ~userDone

\* Until a word times out, the controller reads the word of the call alone.
InStep ==
    ~otpCall.timedOut =>
        /\ OtpAt("ecc") \/ OtpAt("issue") => userOp = NoWord /\ ~userDone
        /\ OtpAt("wait") => \/ userOp = otpCall.addr /\ ~userDone
                            \/ userOp = NoWord /\ userDone /\ userQ = otpCall.addr
        /\ OtpAt("collect") => userOp = NoWord /\ userQ = otpCall.addr

BytesSoFar ==
    ~otpCall.timedOut =>
        \A i \in 1..Taken : otpCall.data[i] = otpCall.offset + i - 1

OtpInv == OtpTyped /\ Position /\ Unused /\ InStep /\ BytesSoFar

------------------------------------------------------------------------------
LEMMA OtpInvInit == OtpStart => OtpInv
<1> SUFFICES ASSUME OtpStart PROVE OtpInv
  OBVIOUS
<1>1. /\ otpCall = [offset |-> 0, length |-> 0, addr |-> 0, left |-> 0, data |-> <<>>,
                    retry |-> TRUE, timedOut |-> FALSE]
      /\ userOp = -1 /\ userDone = FALSE /\ userQ = -1
  BY DEF OtpStart, OtpInitial, NoWord
<1>2. otpCall \in OtpCalls
  BY <1>1 DEF OtpCalls
<1>3. OtpTyped
  <2>1. userDone \in BOOLEAN
    BY <1>1
  <2>2. userOp \in Int /\ userQ \in Int
    BY <1>1
  <2> QED BY <1>2, <2>1, <2>2 DEF OtpTyped
<1> QED
  BY <1>1, <1>3 DEF OtpStart, OtpInv, Position, Unused, InStep, BytesSoFar, OtpAt, Taken, NoWord

\* One or two bytes: no more than are wanted.
LEMMA WordBytesShort ==
  ASSUME OtpTyped, NEW w \in Int, otpCall.left # 0
  PROVE  /\ WordBytes(w, otpCall.left) \in Seq(Int)
         /\ Len(WordBytes(w, otpCall.left)) \in {1, 2}
         /\ Len(WordBytes(w, otpCall.left)) <= otpCall.left
<1>1. otpCall.left \in Nat \ {0}
  BY DEF OtpTyped, OtpCalls
<1> QED BY <1>1 DEF WordBytes, NoWord

\* The bytes are those of the range, if the word is the one it wants next.
LEMMA WordBytesRight ==
  ASSUME OtpInv, OtpAt("collect"), userQ = otpCall.addr,
         NEW k \in 1..Len(WordBytes(userQ, otpCall.left))
  PROVE  WordBytes(userQ, otpCall.left)[k] = otpCall.offset + Taken + k - 1
<1>1. /\ otpCall.left \in Nat /\ otpCall.left # 0 /\ otpCall.addr \in Nat /\ otpCall.offset \in Nat
      /\ otpCall.length \in Nat /\ Taken \in Nat
  BY DEF OtpInv, OtpTyped, OtpCalls, Position, OtpAt, Taken
<1>2. /\ Taken + otpCall.left = otpCall.length
      /\ otpCall.addr = (otpCall.offset + Taken) \div 2
      /\ Taken = 0 \/ (otpCall.offset + Taken) % 2 = 0
  BY DEF OtpInv, Position, OtpAt
<1>3. userQ \in Nat /\ userQ # NoWord
  BY <1>1 DEF NoWord
<1>4. CASE otpCall.left = otpCall.length /\ otpCall.offset % 2 = 1
  <2>1. WordBytes(userQ, otpCall.left) = <<2 * userQ + 1>>
    BY <1>3, <1>4 DEF WordBytes
  <2>2. Taken = 0 /\ 2 * userQ + 1 = otpCall.offset
    BY <1>1, <1>2, <1>4
  <2> QED BY <1>1, <2>1, <2>2
<1>5. CASE ~(otpCall.left = otpCall.length /\ otpCall.offset % 2 = 1)
  <2>1. WordBytes(userQ, otpCall.left) \in {<<2 * userQ>>, <<2 * userQ, 2 * userQ + 1>>}
    BY <1>3, <1>5 DEF WordBytes
  <2>2. 2 * userQ = otpCall.offset + Taken
    <3>1. (otpCall.offset + Taken) % 2 = 0
      BY <1>1, <1>2, <1>5
    <3>2. ASSUME NEW x \in Nat, x % 2 = 0 PROVE 2 * (x \div 2) = x
      BY <3>2
    <3>3. otpCall.offset + Taken \in Nat
      BY <1>1
    <3>4. 2 * ((otpCall.offset + Taken) \div 2) = otpCall.offset + Taken
      BY <3>1, <3>2, <3>3
    <3>5. userQ = (otpCall.offset + Taken) \div 2
      BY <1>2
    <3> QED BY <3>4, <3>5
  <2> QED BY <1>1, <1>3, <2>1, <2>2
<1> QED BY <1>4, <1>5

LEMMA OtpEnteredInv == OtpInv /\ OtpEntered => OtpInv'
<1> SUFFICES ASSUME OtpInv, OtpEntered PROVE OtpInv'
  OBVIOUS
<1>1. PICK offset \in Nat, length \in Nat \ {0} :
        /\ otpCall' = [offset |-> offset, length |-> length, addr |-> offset \div 2,
                       left |-> length, data |-> <<>>, retry |-> TRUE, timedOut |-> FALSE]
        /\ pc' = <<"Otp", "ecc">>
  BY DEF OtpEntered, CallOtp
<1>2. OtpTyped'
  <2>1. otpCall' \in OtpCalls
    BY <1>1 DEF OtpCalls
  <2> QED BY <2>1 DEF OtpInv, OtpTyped, OtpEntered
<1>3. userOp' = NoWord /\ ~userDone'
  BY DEF OtpInv, Unused, OtpEntered
<1>4. Position'
  BY <1>1 DEF Position, Taken, OtpAt
<1> QED
  BY <1>1, <1>2, <1>3, <1>4 DEF OtpInv, Unused, InStep, BytesSoFar, OtpAt, Taken

\* The waiting and the hardware leave the bytes alone.
LEMMA OtpWaitInv ==
  ASSUME OtpInv, OtpDisableEcc \/ OtpIssue \/ OtpDone \/ OtpTimeout
  PROVE  OtpInv'
<1>1. /\ pc[1] = "Otp" /\ otpCall \in OtpCalls
      /\ otpCall' \in OtpCalls
      /\ otpCall'.data = otpCall.data /\ otpCall'.left = otpCall.left
      /\ otpCall'.offset = otpCall.offset /\ otpCall'.length = otpCall.length
      /\ otpCall'.addr = otpCall.addr
      /\ otpCall'.timedOut = otpCall.timedOut \/ otpCall'.timedOut
  <2>1. pc[1] = "Otp" /\ otpCall \in OtpCalls
    BY DEF OtpInv, OtpTyped, OtpDisableEcc, OtpIssue, OtpDone, OtpTimeout, OtpAt
  <2>2. CASE OtpTimeout
    BY <2>1, <2>2 DEF OtpCalls, OtpTimeout
  <2>3. CASE otpCall' = otpCall
    BY <2>1, <2>3
  <2> QED BY <2>1, <2>2, <2>3 DEF OtpDisableEcc, OtpIssue, OtpDone, otpVars
<1>2. /\ otpCall.left # 0 /\ otpCall.left + Taken = otpCall.length
      /\ otpCall.length # 0
  BY <1>1 DEF OtpInv, Position, OtpCalls, Taken
<1>3. \E p \in {"ecc", "issue", "wait", "collect"} : pc' = <<"Otp", p>>
  BY DEF OtpDisableEcc, OtpIssue, OtpDone, OtpTimeout
<1>4. Taken' = Taken
  BY <1>1 DEF Taken
<1>5. Position'
  BY <1>1, <1>3, <1>4 DEF OtpInv, Position, OtpAt
<1>6. OtpTyped'
  <2>1. userDone' \in BOOLEAN
    BY DEF OtpInv, OtpTyped, OtpDisableEcc, OtpIssue, OtpDone, OtpTimeout, otpVars
  <2>2. userOp' \in Int /\ userQ' \in Int
    BY <1>1 DEF OtpInv, OtpTyped, OtpCalls, OtpDisableEcc, OtpIssue, OtpDone, OtpTimeout, otpVars
  <2> QED BY <1>1, <2>1, <2>2 DEF OtpTyped
<1>7. Unused' /\ BytesSoFar'
  BY <1>1, <1>2, <1>4 DEF OtpInv, Unused, BytesSoFar
<1>8. InStep'
  <2>1. CASE OtpTimeout
    BY <2>1 DEF OtpInv, OtpTyped, OtpCalls, InStep, OtpTimeout, OtpAt
  <2>2. CASE OtpDisableEcc \/ OtpDone
    BY <2>2 DEF OtpInv, InStep, OtpDisableEcc, OtpDone, OtpAt, otpVars
  <2>3. CASE OtpIssue
    BY <2>3 DEF OtpInv, InStep, OtpIssue, OtpAt
  <2> QED BY <2>1, <2>2, <2>3
<1> QED BY <1>5, <1>6, <1>7, <1>8 DEF OtpInv

LEMMA HwOtpInv == OtpInv /\ HwOtp => OtpInv'
<1> SUFFICES ASSUME OtpInv, HwOtp PROVE OtpInv'
  OBVIOUS
<1>1. OtpTyped'
  <2>1. userDone' \in BOOLEAN
    BY DEF HwOtp
  <2> QED BY <2>1 DEF OtpInv, OtpTyped, HwOtp, NoWord
<1>2. otpCall.length # 0
  BY DEF OtpInv, Unused, HwOtp
<1> QED
  BY <1>1, <1>2 DEF OtpInv, Position, Unused, InStep, BytesSoFar, OtpAt, Taken, HwOtp

\* A word is taken.
LEMMA Halves ==
  ASSUME NEW n \in Nat
  PROVE  /\ n % 2 = 1 => (n + 1) \div 2 = n \div 2 + 1 /\ (n + 1) % 2 = 0
         /\ n % 2 = 0 => (n + 2) \div 2 = n \div 2 + 1 /\ (n + 2) % 2 = 0
  OBVIOUS

LEMMA OtpCollectInv == OtpInv /\ OtpCollect => OtpInv'
<1> SUFFICES ASSUME OtpInv, OtpCollect PROVE OtpInv'
  OBVIOUS
<1> DEFINE bytes == WordBytes(userQ, otpCall.left)
           left == otpCall.left - Len(bytes)
<1>1. /\ otpCall \in OtpCalls /\ userQ \in Int /\ pc = <<"Otp", "collect">>
      /\ otpCall.left \in Nat \ {0} /\ Taken \in Nat /\ Taken + otpCall.left = otpCall.length
      /\ otpCall.offset \in Nat /\ otpCall.addr = (otpCall.offset + Taken) \div 2
      /\ Taken = 0 \/ (otpCall.offset + Taken) % 2 = 0
  BY DEF OtpInv, OtpTyped, OtpCalls, Position, OtpCollect, OtpAt, Taken
<1>2. bytes \in Seq(Int) /\ Len(bytes) \in {1, 2} /\ Len(bytes) <= otpCall.left
  BY <1>1, WordBytesShort DEF OtpInv
<1>3. /\ otpCall'.data = otpCall.data \o bytes /\ otpCall'.left = left
      /\ otpCall'.addr = otpCall.addr + 1 /\ otpCall'.length = otpCall.length
      /\ otpCall'.offset = otpCall.offset /\ otpCall'.timedOut = otpCall.timedOut
      /\ otpCall'.retry = otpCall.retry
      /\ otpCall' = [otpCall EXCEPT !.data = @ \o bytes, !.left = left, !.addr = @ + 1]
      /\ userOp' = userOp /\ userQ' = userQ /\ userDone' = FALSE
      /\ pc' = IF left = 0 THEN <<"BoardInitDxe", "mac">> ELSE <<"Otp", "issue">>
  BY <1>1 DEF OtpCollect, OtpCalls
<1>4. otpCall.data \in Seq(Int) /\ otpCall.addr \in Nat /\ left \in Nat
  BY <1>1, <1>2 DEF OtpCalls
<1>5. Taken' = Taken + Len(bytes)
  BY <1>2, <1>3, <1>4 DEF Taken
<1>6. OtpTyped'
  <2>1. otpCall.data \o bytes \in Seq(Int) /\ otpCall.addr + 1 \in Nat
    BY <1>2, <1>4
  <2>2. otpCall' \in OtpCalls
    BY <1>1, <1>3, <1>4, <2>1 DEF OtpCalls
  <2>3. userDone' \in BOOLEAN
    BY <1>3
  <2> QED BY <1>3, <2>2, <2>3 DEF OtpInv, OtpTyped
<1>7. left # 0 => /\ otpCall.addr + 1 = (otpCall.offset + Taken + Len(bytes)) \div 2
                  /\ (otpCall.offset + Taken + Len(bytes)) % 2 = 0
  <2>1. CASE otpCall.left = otpCall.length /\ otpCall.offset % 2 = 1
    <3>1. Len(bytes) = 1
      BY <2>1 DEF WordBytes
    <3>2. Taken = 0
      BY <1>1, <2>1 DEF OtpCalls
    <3> HIDE DEF bytes
    <3> QED BY <1>1, <2>1, <3>1, <3>2, Halves
  <2>2. CASE ~(otpCall.left = otpCall.length /\ otpCall.offset % 2 = 1) /\ otpCall.left # 1
    <3>1. Len(bytes) = 2
      BY <2>2 DEF WordBytes
    <3>2. (otpCall.offset + Taken) % 2 = 0
      BY <1>1, <2>2
    <3> QED BY <1>1, <3>1, <3>2
  <2>3. CASE otpCall.left = 1
    <3> HIDE DEF bytes
    <3>1. Len(bytes) = 1
      BY <1>2, <2>3
    <3>2. left = 0
      BY <2>3, <3>1
    <3> HIDE DEF left
    <3> QED BY <3>2
  <2> QED BY <2>1, <2>2, <2>3
<1>8. Position'
  <2>1. left # 0 => pc' = <<"Otp", "issue">>
    BY <1>3
  <2>2. left = 0 => pc'[1] = "BoardInitDxe"
    BY <1>3
  <2>3. Taken' + left = otpCall.length
    BY <1>1, <1>2, <1>5
  <2> HIDE DEF left, bytes
  <2> QED BY <1>3, <1>5, <1>7, <2>1, <2>2, <2>3, <1>1, <1>2 DEF Position, OtpAt
<1>9. Unused' /\ InStep'
  <2>1. otpCall'.length # 0
    BY <1>1, <1>3
  <2> HIDE DEF left, bytes
  <2> QED BY <1>1, <1>3, <2>1 DEF OtpInv, Unused, InStep, OtpAt
<1>10. BytesSoFar'
  <2> SUFFICES ASSUME ~otpCall.timedOut, NEW i \in 1..(Taken + Len(bytes))
               PROVE  (otpCall.data \o bytes)[i] = otpCall.offset + i - 1
    BY <1>3, <1>5 DEF BytesSoFar
  <2>1. userQ = otpCall.addr
    BY <1>1 DEF OtpInv, InStep, OtpAt
  <2>2. CASE i <= Taken
    BY <1>1, <1>2, <1>4, <2>2 DEF OtpInv, BytesSoFar, Taken
  <2>3. CASE i > Taken
    <3>1. i - Taken \in 1..Len(bytes)
      BY <1>1, <1>2, <2>3
    <3>2. bytes[i - Taken] = otpCall.offset + Taken + (i - Taken) - 1
      BY <1>1, <2>1, <3>1, WordBytesRight DEF OtpAt
    <3> HIDE DEF bytes
    <3>3. (otpCall.data \o bytes)[i] = bytes[i - Taken]
      BY <1>1, <1>2, <1>4, <2>3 DEF Taken
    <3> QED BY <1>1, <3>2, <3>3
  <2> HIDE DEF bytes
  <2>4. i <= Taken \/ i > Taken
    BY <1>1, <1>2
  <2> QED BY <2>2, <2>3, <2>4
<1> QED BY <1>6, <1>8, <1>9, <1>10 DEF OtpInv

LEMMA OtpElsewhereInv == OtpInv /\ (OtpElsewhere \/ UNCHANGED <<pc, otpVars>>) => OtpInv'
<1> SUFFICES ASSUME OtpInv, UNCHANGED otpVars,
                    pc' = pc \/ (pc[1] # "Otp" /\ pc'[1] # "Otp")
             PROVE  OtpInv'
  BY DEF OtpElsewhere
<1> QED
  BY DEF otpVars, OtpInv, OtpTyped, Position, Unused, InStep, BytesSoFar, OtpAt, Taken

\* The inductive invariant holds for every range.
THEOREM OtpInvariance == OtpSpec => []OtpInv
<1>1. OtpInv /\ [OtpNext]_<<pc, otpVars>> => OtpInv'
  BY OtpWaitInv, OtpCollectInv, HwOtpInv, OtpEnteredInv, OtpElsewhereInv DEF OtpNext, OtpStep
<1> QED BY OtpInvInit, <1>1, PTL DEF OtpSpec

\* A read returns as many bytes as were asked for, and those asked for unless
\* a word timed out (OtpLib.c:58-104), for every offset and length.
THEOREM RangeRead == OtpSpec => []OtpExact
<1>1. OtpInv => OtpExact
  <2> SUFFICES ASSUME OtpInv, pc[1] # "Otp" PROVE
        /\ Len(otpCall.data) = otpCall.length
        /\ ~otpCall.timedOut => otpCall.data = OtpBytes(otpCall.offset, otpCall.length)
    BY DEF OtpExact
  <2>1. otpCall.data \in Seq(Int) /\ otpCall.length \in Nat
    BY DEF OtpInv, OtpTyped, OtpCalls
  <2>2. Len(otpCall.data) = otpCall.length
    BY <2>1 DEF OtpInv, Position, Taken
  <2>3. ~otpCall.timedOut =>
          \A i \in 1..otpCall.length : otpCall.data[i] = otpCall.offset + i - 1
    BY <2>2 DEF OtpInv, BytesSoFar, Taken
  <2>4. ~otpCall.timedOut => otpCall.data = OtpBytes(otpCall.offset, otpCall.length)
    BY <2>1, <2>2, <2>3, SMTT(30) DEF OtpBytes
  <2> QED BY <2>2, <2>4
<1> QED BY OtpInvariance, <1>1, PTL

-----------------------------------------------------------------------------
(* No random bits are handed out twice, and none before the generator made  *)
(* them, however many calls are made, of whatever lengths, and whichever of *)
(* them time out.                                                           *)

\* A call from outside the driver ...
RngEntered == pc[1] # "Trng" /\ TrngGetRNG

\* ... and what goes on elsewhere.
RngElsewhere ==
    /\ UNCHANGED rngVars
    /\ \/ pc' = pc
       \/ pc[1] # "Trng" /\ (pc'[1] # "Trng" \/ pc' = <<"Trng", "entry">>)

RngNext == TrngStep \/ RngEntered \/ HwTrng \/ RngElsewhere

RngStart == RngInitial /\ pc[1] # "Trng"
RngSpec == RngStart /\ [][RngNext]_<<pc, rngVars>>

------------------------------------------------------------------------------
RngPieces == [run : Nat, word : Nat, bytes : Nat]
RngStatus == {"none", "busy", EFI_SUCCESS, "EFI_DEVICE_ERROR", "EFI_INVALID_PARAMETER"}

RngTyped ==
    /\ rngCtl \subseteq {"ENABLE", "START"}
    /\ rngRuns \in Nat /\ rngDout \in Nat /\ rngDout <= rngRuns
    /\ rngCalls \in Nat /\ rngCalls <= Len(RngLengths)
    /\ rngCall \in [left : Nat, out : Seq(RngPieces), status : RngStatus]
    /\ rngGiven \in Seq(Nat)

\* What was handed out are runs that have ended, each once.
GivenOnce ==
    /\ \A i \in DOMAIN rngGiven : rngGiven[i] # 0 /\ rngGiven[i] <= rngRuns
    /\ \A i, j \in DOMAIN rngGiven : rngGiven[i] = rngGiven[j] => i = j

\* The driver sees START clear only after a run that ended since it set it:
\* also when a start that timed out is what set it before.
RunIsNew ==
    RngAt("poll") /\ "START" \notin rngCtl =>
        rngDout # 0 /\ \A i \in DOMAIN rngGiven : rngGiven[i] # rngDout

\* Inside a call, what has been copied are whole words.
InsideCall == RngAt("start") \/ RngAt("poll")

WholeWords ==
    /\ pc[1] = "Trng" => RngAt("entry") \/ InsideCall
    /\ InsideCall =>
         /\ rngCall.status = "busy"
         /\ rngCalls # 0
         /\ rngCall.left # 0
         /\ RngLengths[rngCalls] = rngCall.left + 4 * Len(rngCall.out)
         /\ \A i \in DOMAIN rngCall.out : rngCall.out[i].bytes = 4

OutGiven ==
    \A i \in DOMAIN rngCall.out :
        \E j \in DOMAIN rngGiven : rngGiven[j] = rngCall.out[i].run

SuccessFilled == rngCall.status = EFI_SUCCESS => Filled(rngCall.out, RngLengths[rngCalls])

RngInv == /\ RngTyped /\ GivenOnce /\ RunIsNew /\ WholeWords /\ OutGiven
          /\ Distinct(rngCall.out) /\ SuccessFilled

------------------------------------------------------------------------------
LEMMA RngInvInit == RngStart => RngInv
<1> SUFFICES ASSUME RngStart PROVE RngInv
  OBVIOUS
<1>1. /\ rngCall = [left |-> 0, out |-> <<>>, status |-> "none"]
      /\ rngCtl = {} /\ rngDout = 0 /\ rngRuns = 0 /\ rngCalls = 0 /\ rngGiven = <<>>
      /\ pc[1] # "Trng"
  BY DEF RngStart, RngInitial
<1>2. rngCall \in [left : Nat, out : Seq(RngPieces), status : RngStatus]
  BY <1>1 DEF RngStatus
<1>3. RngTyped
  BY <1>1, <1>2, RngAssumption DEF RngTyped, RngAssumption
<1>4. rngCall.out = <<>> /\ rngCall.status # EFI_SUCCESS
  BY <1>1 DEF EFI_SUCCESS
<1> QED
  BY <1>1, <1>3, <1>4
  DEF RngInv, GivenOnce, RunIsNew, WholeWords, InsideCall, RngAt, OutGiven, Distinct, SuccessFilled

LEMMA RngEnteredInv == RngInv /\ RngEntered => RngInv'
<1> SUFFICES ASSUME RngInv, RngEntered PROVE RngInv'
  OBVIOUS
<1> DEFINE Length == RngLengths[rngCalls + 1]
<1>1. /\ rngCalls \in Nat /\ rngCalls < Len(RngLengths) /\ rngCalls' = rngCalls + 1
      /\ rngCall' = [left |-> Length, out |-> <<>>,
                     status |-> IF Length = 0 THEN "EFI_INVALID_PARAMETER" ELSE "busy"]
      /\ pc' = IF Length = 0 THEN pc ELSE <<"Trng", "start">>
      /\ pc[1] # "Trng"
      /\ UNCHANGED <<rngCtl, rngDout, rngRuns, rngGiven>>
  BY DEF RngEntered, TrngGetRNG, RngInv, RngTyped
<1>2. Length \in Nat
  BY <1>1, RngAssumption DEF RngAssumption
<1>3. /\ rngCall'.out = <<>> /\ rngCall'.left = Length
      /\ rngCall'.status = IF Length = 0 THEN "EFI_INVALID_PARAMETER" ELSE "busy"
  BY <1>1
<1>4. rngCall' \in [left : Nat, out : Seq(RngPieces), status : RngStatus]
  BY <1>1, <1>2 DEF RngStatus
<1>5. RngTyped'
  <2>1. rngCalls' \in Nat /\ rngCalls' <= Len(RngLengths)
    BY <1>1, RngAssumption DEF RngAssumption
  <2> QED BY <1>1, <1>4, <2>1 DEF RngInv, RngTyped
<1>6. GivenOnce' /\ RunIsNew'
  BY <1>1 DEF RngInv, GivenOnce, RunIsNew, RngAt
<1>7. WholeWords'
  BY <1>1, <1>2, <1>3 DEF WholeWords, InsideCall, RngAt
<1>8. OutGiven' /\ Distinct(rngCall'.out) /\ SuccessFilled'
  BY <1>3 DEF OutGiven, Distinct, SuccessFilled, EFI_SUCCESS
<1> QED BY <1>5, <1>6, <1>7, <1>8 DEF RngInv

------------------------------------------------------------------------------
\* How many words a pass copies, and how many bytes of each.
LEMMA PassBounds ==
  ASSUME NEW left \in Nat, left # 0
  PROVE  /\ WordsTaken(left) \in 1..8
         /\ \A k \in 1..WordsTaken(left) : WordCount(left, k) \in Nat
         /\ \A k \in 1..WordsTaken(left) :
              k < WordsTaken(left) \/ left > 32 => WordCount(left, k) = 4
         /\ left > 32 => WordsTaken(left) = 8
         /\ left <= 32 =>
              /\ 4 * (WordsTaken(left) - 1) < left /\ left <= 4 * WordsTaken(left)
              /\ WordCount(left, WordsTaken(left)) = left - 4 * (WordsTaken(left) - 1)
  BY DEF WordsTaken, WordCount, WordsPerRun

LEMMA Joined ==
  ASSUME NEW S, NEW a \in Seq(S), NEW b \in Seq(S)
  PROVE  /\ a \o b \in Seq(S)
         /\ Len(a) \in Nat /\ DOMAIN a = 1..Len(a)
         /\ Len(a \o b) = Len(a) + Len(b) /\ DOMAIN (a \o b) = 1..(Len(a) + Len(b))
         /\ \A i \in 1..(Len(a) + Len(b)) :
              (a \o b)[i] = IF i <= Len(a) THEN a[i] ELSE b[i - Len(a)]
  OBVIOUS

\* A pass copies whole words, or the rest of the buffer, from a run that was
\* not handed out before.
LEMMA TrngCopyInv == RngInv /\ TrngCopy => RngInv'
<1> SUFFICES ASSUME RngInv, TrngCopy PROVE RngInv'
  OBVIOUS
<1> DEFINE left == rngCall.left
           out == rngCall.out
           n == WordsTaken(left)
           words == [k \in 1..n |-> [run |-> rngDout, word |-> k, bytes |-> WordCount(left, k)]]
           rest == IF left > 4 * WordsPerRun THEN left - 4 * WordsPerRun ELSE 0
<1>1. /\ left \in Nat /\ left # 0 /\ out \in Seq(RngPieces)
      /\ rngDout \in Nat /\ rngDout <= rngRuns /\ rngRuns \in Nat /\ rngDout # 0
      /\ rngGiven \in Seq(Nat)
      /\ \A i \in DOMAIN rngGiven : rngGiven[i] # rngDout
      /\ RngLengths[rngCalls] = left + 4 * Len(out)
      /\ \A i \in DOMAIN out : out[i].bytes = 4
      /\ rngCalls # 0
  BY DEF TrngCopy, RngInv, RngTyped, RunIsNew, WholeWords, InsideCall
<1>2. /\ rngCall' = [left |-> rest, out |-> out \o words,
                     status |-> IF rest = 0 THEN EFI_SUCCESS ELSE "busy"]
      /\ rngCtl' = {}
      /\ pc' = IF rest = 0 THEN <<"Bds", "idle">> ELSE <<"Trng", "start">>
      /\ rngGiven' = Append(rngGiven, rngDout)
      /\ UNCHANGED <<rngDout, rngRuns, rngCalls>>
  BY Zenon DEF TrngCopy
<1>3. /\ n \in 1..8 /\ \A k \in 1..n : WordCount(left, k) \in Nat
      /\ \A k \in 1..n : k < n \/ left > 32 => WordCount(left, k) = 4
      /\ left > 32 => n = 8
      /\ left <= 32 => /\ 4 * (n - 1) < left /\ left <= 4 * n
                       /\ WordCount(left, n) = left - 4 * (n - 1)
  BY <1>1, PassBounds
<1>4. words \in Seq(RngPieces) /\ Len(words) = n
  <2>1. \A k \in 1..n : [run |-> rngDout, word |-> k, bytes |-> WordCount(left, k)] \in RngPieces
    BY <1>1, <1>3 DEF RngPieces
  <2>2. n \in Nat
    BY <1>3
  <2> HIDE DEF n
  <2> QED BY <2>1, <2>2
<1>5. \A k \in 1..n : words[k].run = rngDout /\ words[k].word = k /\ words[k].bytes = WordCount(left, k)
  OBVIOUS
<1>16. rest \in Nat /\ rest = IF left > 32 THEN left - 32 ELSE 0
  BY <1>1 DEF WordsPerRun
<1> HIDE DEF words, n, rest
<1>6. /\ rngCall'.out = out \o words /\ rngCall'.left = rest
      /\ rngCall'.status = IF rest = 0 THEN EFI_SUCCESS ELSE "busy"
  BY <1>2
<1>7. /\ out \o words \in Seq(RngPieces) /\ Len(out \o words) = Len(out) + n
      /\ \A i \in 1..(Len(out) + n) :
           (out \o words)[i] = IF i <= Len(out) THEN out[i] ELSE words[i - Len(out)]
      /\ Len(out) \in Nat /\ DOMAIN out = 1..Len(out)
      /\ DOMAIN (out \o words) = 1..(Len(out) + n)
  <2>1. out \in Seq(RngPieces) /\ words \in Seq(RngPieces) /\ Len(words) = n
    BY <1>1, <1>4
  <2> HIDE DEF left, out
  <2> QED BY <2>1, Joined
<1>8. /\ rngGiven' \in Seq(Nat) /\ DOMAIN rngGiven' = 1..(Len(rngGiven) + 1)
      /\ DOMAIN rngGiven = 1..Len(rngGiven) /\ Len(rngGiven) \in Nat
      /\ \A i \in 1..Len(rngGiven) : rngGiven'[i] = rngGiven[i]
      /\ rngGiven'[Len(rngGiven) + 1] = rngDout
  BY <1>1, <1>2
<1>9. RngTyped'
  <2>1. rngCall' \in [left : Nat, out : Seq(RngPieces), status : RngStatus]
    BY <1>1, <1>2, <1>7, <1>16 DEF RngStatus
  <2> QED BY <1>2, <1>8, <2>1 DEF RngInv, RngTyped
<1>10. GivenOnce'
  BY <1>1, <1>2, <1>8 DEF RngInv, GivenOnce
<1>11. RunIsNew'
  BY <1>2 DEF RunIsNew, RngAt
<1>12. WholeWords'
  <2>1. CASE left > 32
    <3>1. \A i \in DOMAIN rngCall'.out : rngCall'.out[i].bytes = 4
      <4>1. DOMAIN rngCall'.out = 1..(Len(out) + n) /\ Len(out) \in Nat /\ n \in Nat
            /\ DOMAIN out = 1..Len(out)
        BY <1>3, <1>6, <1>7
      <4>2. \A i \in 1..Len(out) : out[i].bytes = 4
        BY <1>1, <4>1
      <4>3. \A i \in 1..(Len(out) + n) :
              rngCall'.out[i] = IF i <= Len(out) THEN out[i] ELSE words[i - Len(out)]
        BY <1>6, <1>7
      <4>4. \A k \in 1..n : words[k].bytes = 4
        BY <1>3, <1>5, <2>1
      <4> HIDE DEF out
      <4>5. ASSUME NEW i \in 1..(Len(out) + n) PROVE rngCall'.out[i].bytes = 4
        <5>1. CASE i <= Len(out)
          BY <4>1, <4>2, <4>3, <5>1
        <5>2. CASE ~(i <= Len(out))
          <6>1. i - Len(out) \in 1..n
            BY <4>1, <5>2
          <6> QED BY <4>3, <4>4, <5>2, <6>1
        <5> QED BY <5>1, <5>2
      <4> QED BY <4>1, <4>5
    <3>2. RngLengths[rngCalls] = rest + 4 * (Len(out) + n)
      <4>1. n = 8 /\ rest = left - 32 /\ Len(out) \in Nat /\ left \in Nat
        BY <1>1, <1>3, <1>7, <1>16, <2>1
      <4>2. RngLengths[rngCalls] = left + 4 * Len(out)
        BY <1>1
      <4> HIDE DEF left, out
      <4> QED BY <4>1, <4>2
    <3> QED BY <1>1, <1>2, <1>6, <1>7, <2>1, <3>1, <3>2 DEF WholeWords, InsideCall, RngAt
  <2>2. CASE ~(left > 32)
    BY <1>1, <1>2, <1>16, <2>2 DEF WholeWords, InsideCall, RngAt
  <2> QED BY <2>1, <2>2
<1>13. OutGiven'
  <2>1. ASSUME NEW i \in DOMAIN rngCall'.out
        PROVE  \E j \in DOMAIN rngGiven' : rngGiven'[j] = rngCall'.out[i].run
    <3>1. i \in 1..(Len(out) + n) /\ n \in Nat
      BY <1>3, <1>6, <1>7, <2>1
    <3>2. CASE i <= Len(out)
      <4>1. PICK j \in DOMAIN rngGiven : rngGiven[j] = out[i].run
        BY <1>7, <3>1, <3>2 DEF RngInv, OutGiven
      <4> QED BY <1>6, <1>7, <1>8, <3>1, <3>2, <4>1
    <3>3. CASE i > Len(out)
      <4>1. rngCall'.out[i].run = rngDout
        BY <1>5, <1>6, <1>7, <3>1, <3>3
      <4> QED BY <1>8, <4>1
    <3> QED BY <1>7, <3>1, <3>2, <3>3
  <2> QED BY <2>1 DEF OutGiven
<1>14. Distinct(rngCall'.out)
  <2>1. ASSUME NEW i \in DOMAIN rngCall'.out, NEW j \in DOMAIN rngCall'.out,
               rngCall'.out[i].run = rngCall'.out[j].run,
               rngCall'.out[i].word = rngCall'.out[j].word
        PROVE  i = j
    <3>1. i \in 1..(Len(out) + n) /\ j \in 1..(Len(out) + n) /\ n \in Nat
      BY <1>3, <1>6, <1>7, <2>1
    <3>2. \A k \in 1..(Len(out) + n) :
            /\ k <= Len(out) => rngCall'.out[k] = out[k] /\ out[k].run # rngDout
            /\ k > Len(out) => rngCall'.out[k].run = rngDout /\ rngCall'.out[k].word = k - Len(out)
      <4>1. \A k \in 1..Len(out) : out[k].run # rngDout
        BY <1>1, <1>7 DEF RngInv, OutGiven
      <4>2. ASSUME NEW k \in 1..(Len(out) + n), k <= Len(out)
            PROVE  rngCall'.out[k] = out[k] /\ out[k].run # rngDout
        <5>1. k \in 1..Len(out)
          BY <1>7, <4>2
        <5> QED BY <1>6, <1>7, <4>1, <4>2, <5>1
      <4>3. ASSUME NEW k \in 1..(Len(out) + n), k > Len(out)
            PROVE  rngCall'.out[k].run = rngDout /\ rngCall'.out[k].word = k - Len(out)
        <5>1. k - Len(out) \in 1..n
          BY <1>7, <3>1, <4>3
        <5>2. rngCall'.out[k] = words[k - Len(out)]
          <6> HIDE DEF left, out
          <6> QED BY <1>6, <1>7, <3>1, <4>3
        <5> QED BY <1>5, <5>1, <5>2
      <4> QED BY <4>2, <4>3
    <3>3. CASE i <= Len(out) /\ j <= Len(out)
      BY <1>7, <2>1, <3>1, <3>2, <3>3 DEF RngInv, Distinct
    <3>4. CASE i > Len(out) /\ j > Len(out)
      BY <1>7, <2>1, <3>1, <3>2, <3>4
    <3>5. CASE (i <= Len(out)) # (j <= Len(out))
      BY <1>7, <2>1, <3>1, <3>2, <3>5
    <3> QED BY <1>7, <3>1, <3>3, <3>4, <3>5
  <2> QED BY <2>1 DEF Distinct
<1>15. SuccessFilled'
  <2>1. CASE left > 32
    BY <1>1, <1>6, <1>16, <2>1 DEF SuccessFilled, EFI_SUCCESS
  <2>2. CASE left <= 32
    <3>2. rest = 0 /\ n \in 1..8 /\ left \in Nat /\ Len(out) \in Nat
      BY <1>1, <1>3, <1>7, <1>16, <2>2
    <3>3. /\ 4 * (n - 1) < left /\ left <= 4 * n
          /\ \A k \in 1..n : words[k].bytes = IF k < n THEN 4 ELSE left - 4 * (n - 1)
      BY <1>3, <1>5, <2>2
    <3>4. \A i \in 1..Len(out) : (out \o words)[i].bytes = 4
      BY <1>1, <1>3, <1>7
    <3>5. \A i \in (Len(out) + 1)..(Len(out) + n) :
            (out \o words)[i].bytes = words[i - Len(out)].bytes
      BY <1>3, <1>7
    <3> HIDE DEF left, out
    <3>1. \A i \in 1..(Len(out) + n) :
            (out \o words)[i].bytes = IF i < Len(out) + n THEN 4
                                      ELSE (left + 4 * Len(out)) - 4 * (Len(out) + n - 1)
      <4> SUFFICES ASSUME NEW i \in 1..(Len(out) + n)
                   PROVE  (out \o words)[i].bytes =
                            IF i < Len(out) + n THEN 4
                            ELSE (left + 4 * Len(out)) - 4 * (Len(out) + n - 1)
        OBVIOUS
      <4>1. CASE i <= Len(out)
        BY <3>2, <3>4, <4>1
      <4>2. CASE i > Len(out)
        <5>1. i - Len(out) \in 1..n /\ i \in (Len(out) + 1)..(Len(out) + n)
          BY <3>2, <4>2
        <5>2. (out \o words)[i].bytes = IF i - Len(out) < n THEN 4 ELSE left - 4 * (n - 1)
          BY <3>3, <3>5, <5>1
        <5> QED BY <3>2, <5>1, <5>2
      <4>3. i <= Len(out) \/ i > Len(out)
        BY <3>2
      <4> QED BY <4>1, <4>2, <4>3
    <3>6. Filled(out \o words, left + 4 * Len(out))
      BY <1>7, <3>1, <3>2, <3>3 DEF Filled
    <3>7. RngLengths[rngCalls] = left + 4 * Len(out)
      BY <1>1 DEF left, out
    <3> QED BY <1>2, <1>6, <3>6, <3>7 DEF SuccessFilled
  <2> QED BY <1>1, <2>1, <2>2
<1> QED BY <1>9, <1>10, <1>11, <1>12, <1>13, <1>14, <1>15 DEF RngInv

------------------------------------------------------------------------------
LEMMA RngOtherInv ==
  RngInv /\ (TrngInit \/ TrngStart \/ TrngTimeout \/ HwTrng \/ RngElsewhere) => RngInv'
<1> USE DEF RngAt, InsideCall
<1>1. CASE RngInv /\ TrngInit
  <2>1. pc'[1] = "DxeCore" /\ UNCHANGED rngVars
    BY <1>1 DEF TrngInit
  <2> QED
    BY <1>1, <2>1 DEF rngVars, RngInv, RngTyped, GivenOnce, RunIsNew, WholeWords, OutGiven,
       Distinct, SuccessFilled
<1>2. CASE RngInv /\ RngElsewhere
  BY <1>2 DEF RngElsewhere, rngVars, RngInv, RngTyped, GivenOnce, RunIsNew, WholeWords, OutGiven,
     Distinct, SuccessFilled
<1>3. CASE RngInv /\ TrngStart
  <2>1. /\ pc = <<"Trng", "start">> /\ pc' = <<"Trng", "poll">> /\ rngCtl' = {"ENABLE", "START"}
        /\ UNCHANGED <<rngDout, rngRuns, rngCall, rngCalls, rngGiven>>
    BY <1>3 DEF TrngStart
  <2> QED
    BY <1>3, <2>1 DEF RngInv, RngTyped, GivenOnce, RunIsNew, WholeWords, OutGiven,
       Distinct, SuccessFilled
<1>4. CASE RngInv /\ TrngTimeout
  <2>1. /\ pc' = <<"Bds", "idle">>
        /\ rngCall' = [rngCall EXCEPT !.status = "EFI_DEVICE_ERROR"]
        /\ UNCHANGED <<rngCtl, rngDout, rngRuns, rngCalls, rngGiven>>
    BY <1>4 DEF TrngTimeout
  <2>2. rngCall \in [left : Nat, out : Seq(RngPieces), status : RngStatus]
    BY <1>4 DEF RngInv, RngTyped
  <2>3. /\ rngCall' \in [left : Nat, out : Seq(RngPieces), status : RngStatus]
        /\ rngCall'.out = rngCall.out /\ rngCall'.status = "EFI_DEVICE_ERROR"
    BY <2>1, <2>2 DEF RngStatus
  <2>4. RngTyped' /\ GivenOnce' /\ RunIsNew' /\ WholeWords'
    BY <1>4, <2>1, <2>3 DEF RngInv, RngTyped, GivenOnce, RunIsNew, WholeWords
  <2>5. OutGiven' /\ Distinct(rngCall'.out) /\ SuccessFilled'
    BY <1>4, <2>1, <2>3 DEF RngInv, OutGiven, Distinct, SuccessFilled, EFI_SUCCESS
  <2> QED BY <2>4, <2>5 DEF RngInv
<1>5. CASE RngInv /\ HwTrng
  <2>1. /\ rngRuns' = rngRuns + 1 /\ rngDout' = rngRuns + 1 /\ rngCtl' = rngCtl \ {"START"}
        /\ UNCHANGED <<rngCall, rngCalls, rngGiven, pc>>
    BY <1>5 DEF HwTrng
  <2>2. \A i \in DOMAIN rngGiven : rngGiven[i] \in Nat
    BY <1>5 DEF RngInv, RngTyped
  <2>3. RngTyped' /\ GivenOnce' /\ RunIsNew'
    BY <1>5, <2>1, <2>2 DEF RngInv, RngTyped, GivenOnce, RunIsNew
  <2> QED BY <1>5, <2>1, <2>3 DEF RngInv, WholeWords, OutGiven, Distinct, SuccessFilled
<1> QED BY <1>1, <1>2, <1>3, <1>4, <1>5

LEMMA RngInvNext == RngInv /\ [RngNext]_<<pc, rngVars>> => RngInv'
<1>1. RngInv /\ UNCHANGED <<pc, rngVars>> => RngInv'
  BY RngOtherInv DEF RngElsewhere
<1> QED BY <1>1, RngEnteredInv, TrngCopyInv, RngOtherInv DEF RngNext, TrngStep

LEMMA RngInvFresh == RngInv => FreshRandom
  BY DEF RngInv, FreshRandom, RunsOnce, IsInjective, GivenOnce, SuccessFilled

\* A run of the generator is handed out once and only when it has ended, and a
\* call that succeeds filled its buffer with bits no two parts of it share
\* (TrngGetRNG, Trng.c:98-145, on TrngStart, Trng.c:37-56).
THEOREM FreshBits == RngSpec => []FreshRandom
<1> QED BY RngInvInit, RngInvNext, RngInvFresh, PTL DEF RngSpec

------------------------------------------------------------------------------
(* Least elements stand in for induction: a counterexample to what is to be *)
(* shown would have a smallest one.                                          *)

LEMMA LeastMember ==
  ASSUME NEW T \in SUBSET Nat, T # {}
  PROVE  \E x \in T : \A y \in T : x <= y
<1> DEFINE R == {ss \in Nat \X Nat : ss[1] < ss[2]}
<1>1. IsWellFoundedOn(R, Nat)
  <2>1. R = OpToRel(<, Nat)
    BY DEF OpToRel
  <2> QED BY <2>1, NatLessThanWellFounded
<1>2. ASSUME NEW i \in Nat, NEW j \in Nat, i < j PROVE <<i, j>> \in R
  BY <1>2
<1> HIDE DEF R
<1>3. PICK x \in T : \A y \in T : ~(<<y, x>> \in R)
  BY WFMin, <1>1
<1>4. ASSUME NEW y \in T PROVE x <= y
  <2>1. x \in Nat /\ y \in Nat
    OBVIOUS
  <2>2. ~(y < x)
    BY <1>2, <1>3, <2>1
  <2> QED BY <2>1, <2>2
<1> QED BY <1>4

\* Powers of two, as far as a rank's size goes.
LEMMA Powers ==
  /\ 2^0 = 1
  /\ \A n \in 0..17 : 2^n \in Nat /\ 2^(n + 1) = 2 * 2^n
<1>1. ASSUME NEW n \in 0..17 PROVE 2^n \in Nat /\ 2^(n + 1) = 2 * 2^n
  <2>1. CASE n = 0
    BY <2>1
  <2>2. CASE n = 1
    BY <2>2
  <2>3. CASE n = 2
    BY <2>3
  <2>4. CASE n = 3
    BY <2>4
  <2>5. CASE n = 4
    BY <2>5
  <2>6. CASE n = 5
    BY <2>6
  <2>7. CASE n = 6
    BY <2>7
  <2>8. CASE n = 7
    BY <2>8
  <2>9. CASE n = 8
    BY <2>9
  <2>10. CASE n = 9
    BY <2>10
  <2>11. CASE n = 10
    BY <2>11
  <2>12. CASE n = 11
    BY <2>12
  <2>13. CASE n = 12
    BY <2>13
  <2>14. CASE n = 13
    BY <2>14
  <2>15. CASE n = 14
    BY <2>15
  <2>16. CASE n = 15
    BY <2>16
  <2>17. CASE n = 16
    BY <2>17
  <2>18. CASE n = 17
    BY <2>18
  <2> QED BY <2>1, <2>2, <2>3, <2>4, <2>5, <2>6, <2>7, <2>8, <2>9, <2>10, <2>11, <2>12, <2>13, <2>14, <2>15, <2>16, <2>17, <2>18
<1> QED BY <1>1

LEMMA PowerIsNat == \A n \in 0..18 : 2^n \in Nat /\ 2^n > 0
<1> DEFINE T == {n \in 0..18 : ~(2^n \in Nat /\ 2^n > 0)}
<1>1. ASSUME T # {} PROVE FALSE
  <2>1. PICK x \in T : \A y \in T : x <= y
    BY <1>1, LeastMember
  <2>2. x # 0
    <3>1. 0 \notin T
      BY Powers
    <3> QED BY <2>1, <3>1
  <2>3. x - 1 \in 0..17 /\ x - 1 \notin T /\ (x - 1) + 1 = x
    BY <2>1, <2>2
  <2>4. 2^(x - 1) \in Nat /\ 2^(x - 1) > 0
    BY <2>3
  <2>5. 2^x = 2 * 2^(x - 1)
    BY <2>3, Powers
  <2> QED BY <2>1, <2>4, <2>5
<1> QED BY <1>1

LEMMA MaxOf ==
  ASSUME NEW n \in Nat, NEW s \in SUBSET (1 .. n), s # {}
  PROVE  Max(s) \in s /\ Max(s) \in 1 .. n /\ (n \in s => Max(s) = n)
<1> DEFINE T == {y \in Nat : \E z \in s : y = n - z}
<1>1. T \in SUBSET Nat
  OBVIOUS
<1>2. PICK z \in s : TRUE
  OBVIOUS
<1>3. n - z \in T
  <2>1. z \in 1 .. n
    OBVIOUS
  <2>2. n - z \in Nat
    BY <2>1
  <2> QED BY <2>2
<1>4. PICK x \in T : \A y \in T : x <= y
  BY <1>1, <1>3, LeastMember
<1>5. PICK y \in s : x = n - y
  BY <1>4
<1>6. ASSUME NEW w \in s PROVE y >= w
  <2>1. w \in 1 .. n /\ y \in 1 .. n
    OBVIOUS
  <2>2. n - w \in T
    BY <2>1
  <2>3. x <= n - w
    BY <1>4, <2>2
  <2> QED BY <1>5, <2>1, <2>3
<1>7. Max(s) \in s /\ \A w \in s : Max(s) >= w
  BY <1>6 DEF Max
<1>8. Max(s) \in 1 .. n
  BY <1>7
<1>9. n \in s => Max(s) = n
  <2>1. n \in s => Max(s) >= n
    BY <1>7
  <2> QED BY <1>8, <2>1
<1> QED BY <1>7, <1>8, <1>9

------------------------------------------------------------------------------
(* The memory (PlatformMemory).                                              *)

\* Shifting a power of two right divides it.
LEMMA ShiftRight ==
  ASSUME NEW e \in 0..18, NEW k \in 0..e
  PROVE  2^e = 2^(e - k) * 2^k
<1> DEFINE T == {n \in 0..e : 2^e # 2^(e - n) * 2^n}
<1>1. ASSUME T # {} PROVE FALSE
  <2>1. PICK x \in T : \A y \in T : x <= y
    BY <1>1, LeastMember
  <2>2. x # 0
    <3>1. 2^e \in Nat
      BY PowerIsNat
    <3>2. e - 0 = e /\ 2^e * 1 = 2^e
      BY <3>1
    <3>3. 0 \notin T
      BY <3>2, Powers
    <3> QED BY <2>1, <3>3
  <2>3. /\ x - 1 \in 0..17 /\ x - 1 \in 0..e /\ (x - 1) + 1 = x
        /\ e - x \in 0..17 /\ e - (x - 1) = (e - x) + 1
    BY <2>1, <2>2
  <2>4. 2^e = 2^(e - (x - 1)) * 2^(x - 1)
    BY <2>1, <2>3
  <2>5. 2^x = 2 * 2^(x - 1) /\ 2^(e - (x - 1)) = 2 * 2^(e - x)
    BY <2>3, Powers
  <2>6. 2^(x - 1) \in Nat /\ 2^(e - x) \in Nat
    BY <2>3, Powers
  <2>7. 2^e = 2^(e - x) * 2^x
    BY <2>4, <2>5, <2>6
  <2> QED BY <2>1, <2>7
<1> QED BY <1>1

LEMMA ShiftedPower ==
  ASSUME NEW e \in 0..18, NEW k \in 0..e
  PROVE  2^e \div 2^k = 2^(e - k)
<1>1. 2^k \in Nat /\ 2^k > 0 /\ 2^(e - k) \in Nat
  <2>1. k \in 0..18 /\ e - k \in 0..18
    OBVIOUS
  <2> QED BY <2>1, PowerIsNat
<1>2. ASSUME NEW a \in Nat, NEW b \in Nat, b > 0 PROVE (a * b) \div b = a
  BY <1>2
<1> QED BY <1>1, <1>2, ShiftRight
LEMMA GreatestOfTwo ==
  /\ \A s \in SUBSET (1..2) : s # {} => Max(s) = IF 2 \in s THEN 2 ELSE 1
  /\ SUBSET (1..1) = {{}, {1}} /\ SUBSET (1..2) = {{}, {1}, {2}, {1, 2}}
<1>1. ASSUME NEW s \in SUBSET (1..2), s # {} PROVE Max(s) = IF 2 \in s THEN 2 ELSE 1
  <2> DEFINE m == IF 2 \in s THEN 2 ELSE 1
  <2>1. s \subseteq {1, 2}
    OBVIOUS
  <2>2. m \in s /\ \A y \in s : m >= y
    <3>1. CASE 2 \in s
      BY <2>1, <3>1
    <3>2. CASE 2 \notin s
      <4>1. s = {1}
        BY <1>1, <2>1, <3>2
      <4> QED BY <3>2, <4>1
    <3> QED BY <3>1, <3>2
  <2>3. Max(s) \in s /\ \A y \in s : Max(s) >= y
    BY <2>2 DEF Max
  <2>4. Max(s) \in {1, 2} /\ Max(s) >= m /\ m >= Max(s) /\ m \in {1, 2}
    BY <2>1, <2>2, <2>3
  <2> QED BY <2>4
<1>2. SUBSET (1..1) = {{}, {1}}
  OBVIOUS
<1>3. SUBSET (1..2) = {{}, {1}, {2}, {1, 2}}
  OBVIOUS
<1> QED BY <1>1, <1>2, <1>3

\* What FoldLeft chooses for the sum of val[1], ..., val[N].
Summing(N, val, it) ==
    [s \in SUBSET (1..N) |-> IF s = {} THEN 0 ELSE it[s \ {Max(s)}] + val[Max(s)]]

LEMMA SummingExists ==
  ASSUME NEW N \in {1, 2}, NEW val, \A k \in 1..N : val[k] \in Nat
  PROVE  \E it : it = Summing(N, val, it)
<1> DEFINE part(s, k) == IF k \in s THEN val[k] ELSE 0
           it == [s \in SUBSET (1..N) |-> part(s, 1) + part(s, 2)]
<1>1. ASSUME NEW s \in SUBSET (1..N)
      PROVE  it[s] = IF s = {} THEN 0 ELSE it[s \ {Max(s)}] + val[Max(s)]
  <2>1. s \in SUBSET (1..2) /\ 1 \in 1..N /\ (2 \in s => 2 \in 1..N)
    OBVIOUS
  <2>2. CASE s = {}
    BY <2>2
  <2>3. CASE s # {} /\ 2 \in s
    <3>1. Max(s) = 2 /\ s \ {2} \in SUBSET (1..N)
      BY <2>1, <2>3, GreatestOfTwo
    <3>2. it[s] = part(s, 1) + val[2] /\ it[s \ {2}] = part(s, 1) + 0
      BY <2>3, <3>1
    <3>3. part(s, 1) \in Nat /\ val[2] \in Nat
      BY <2>1, <2>3
    <3> HIDE DEF it, part
    <3> QED BY <2>3, <3>1, <3>2, <3>3
  <2>4. CASE s # {} /\ 2 \notin s
    <3>1. Max(s) = 1 /\ s \ {1} \in SUBSET (1..N) /\ 1 \in s
      BY <2>1, <2>4, GreatestOfTwo
    <3>2. it[s] = val[1] + 0 /\ it[s \ {1}] = 0 + 0
      BY <2>4, <3>1
    <3>3. val[1] \in Nat
      BY <2>1
    <3> HIDE DEF it, part
    <3> QED BY <2>4, <3>1, <3>2, <3>3
  <2> QED BY <2>2, <2>3, <2>4
<1>2. it = Summing(N, val, it)
  BY <1>1 DEF Summing
<1> QED BY <1>2

LEMMA SummingIs ==
  ASSUME NEW N \in {1, 2}, NEW val, \A k \in 1..N : val[k] \in Nat,
         NEW it, it = Summing(N, val, it)
  PROVE  it[1..N] = IF N = 1 THEN val[1] ELSE val[1] + val[2]
<1>1. it[{}] = 0
  BY DEF Summing
<1>2. it[{1}] = it[{1} \ {1}] + val[1]
  <2>1. Max({1}) = 1 /\ {1} \in SUBSET (1..N)
    BY GreatestOfTwo
  <2> QED BY <2>1 DEF Summing
<1>3. {1} \ {1} = {} /\ 1..1 = {1} /\ val[1] \in Nat
  OBVIOUS
<1>4. it[{1}] = val[1]
  BY <1>1, <1>2, <1>3
<1>5. ASSUME N = 2 PROVE it[1..2] = val[1] + val[2]
  <2>1. Max(1..2) = 2 /\ (1..2) \ {2} = {1} /\ 1..2 # {}
    BY GreatestOfTwo
  <2>2. it[1..2] = it[{1}] + val[2]
    BY <1>5, <2>1 DEF Summing
  <2> QED BY <1>4, <2>2
<1> QED BY <1>3, <1>4, <1>5

LEMMA FoldOfSum ==
  ASSUME NEW N \in {1, 2}, NEW v, DOMAIN v = 1..N, \A k \in 1..N : v[k] \in Nat
  PROVE  FoldLeft(+, 0, v) = IF N = 1 THEN v[1] ELSE v[1] + v[2]
<1> DEFINE it == CHOOSE i : i = Summing(N, v, i)
<1>1. FoldLeft(+, 0, v) = it[1..N]
  BY DEF FoldLeft, MapThenFoldSet, Summing
<1>2. it = Summing(N, v, it)
  BY SummingExists
<1> HIDE DEF it
<1> QED BY <1>1, <1>2, SummingIs

\* The exponents of a rank's size, and what the registers' fields give back.
Exponent(c, k) == c.rows[k] + c.cols[k] + c.banks + c.groups + c.width - 20

LEMMA Ranks ==
  ASSUME NEW d, d.version \in Nat, NEW c, IsChannel(d, c)
  PROVE  \E n \in {1, 2} : /\ Len(c.rows) = n /\ DOMAIN c.rows = 1..n
                           /\ Len(c.cols) \in n..2
                           /\ DOMAIN c.cols = 1..Len(c.cols)
<1> DEFINE rows == IF d.version >= 2 THEN 12..19 ELSE 13..16
<1>1. /\ c.rows \in Seq(rows) /\ Len(c.rows) \in 1..2
      /\ c.cols \in Seq(9..12) /\ Len(c.cols) \in Len(c.rows)..2
  BY DEF IsChannel
<1>2. DOMAIN c.rows = 1..Len(c.rows) /\ DOMAIN c.cols = 1..Len(c.cols)
  BY <1>1
<1>3. Len(c.rows) \in {1, 2} /\ Len(c.cols) \in Len(c.rows)..2
  BY <1>1
<1> HIDE DEF rows
<1> QED BY <1>2, <1>3

LEMMA ExponentRange ==
  ASSUME NEW d, d.version \in Nat, NEW c, IsChannel(d, c), NEW k \in DOMAIN c.rows
  PROVE  /\ c.rows[k] \in IF d.version >= 2 THEN 12..19 ELSE 13..16
         /\ c.rows[k] \in 12..19 /\ c.cols[k] \in 9..12
         /\ c.banks \in 2..3 /\ c.groups \in 0..2 /\ c.width \in 0..2
         /\ Exponent(c, k) \in 0..18
<1> DEFINE rows == IF d.version >= 2 THEN 12..19 ELSE 13..16
<1>1. c.rows[k] \in rows
  BY DEF IsChannel
<1>2. c.cols[k] \in 9..12
  <2>1. k \in DOMAIN c.cols
    BY Ranks
  <2> QED BY <2>1 DEF IsChannel
<1>3. c.banks \in 2..3 /\ c.width \in 0..2
  BY DEF IsChannel
<1>4. c.groups \in 0..2
  BY DEF IsChannel
<1>5. c.rows[k] \in 12..19
  BY <1>1
<1> QED BY <1>1, <1>2, <1>3, <1>4, <1>5 DEF Exponent

LEMMA RowRead ==
  ASSUME NEW v \in Nat, NEW n, n \in IF v >= 2 THEN 12..19 ELSE 13..16
  PROVE  RowBits(v, IF n = 12 THEN 7 ELSE n - 13) = n
  BY DEF RowBits

LEMMA WidthRead == \A w \in 0..2 : 2 \div 2^(2 - w) = w
<1>1. ASSUME NEW w \in 0..2 PROVE 2 \div 2^(2 - w) = w
  <2>1. CASE w = 0
    BY <2>1
  <2>2. CASE w = 1
    BY <2>2
  <2>3. CASE w = 2
    BY <2>3
  <2> QED BY <2>1, <2>2, <2>3
<1> QED BY <1>1

\* A channel's size in MB, and the size of its ranks before a quarter is cut off.
RanksMb(c) ==
    IF DOMAIN c.rows = 1..1 THEN 2^Exponent(c, 1) ELSE 2^Exponent(c, 1) + 2^Exponent(c, 2)

ChannelSize(c) == (RanksMb(c) * c.quarters) \div 4

LEMMA OneOrTwo == 1..2 # 1..1 /\ 1 \in 1..1 /\ 1 \in 1..2 /\ 2 \in 1..2
<1>1. 2 \in 1..2 /\ 2 \notin 1..1
  OBVIOUS
<1> QED BY <1>1

LEMMA RanksAreNat ==
  ASSUME NEW d, d.version \in Nat, NEW c, IsChannel(d, c)
  PROVE  RanksMb(c) \in Nat /\ RanksMb(c) > 0 /\ ChannelSize(c) \in Nat
<1>1. \A k \in DOMAIN c.rows : 2^Exponent(c, k) \in Nat /\ 2^Exponent(c, k) > 0
  BY ExponentRange, PowerIsNat
<1>2. DOMAIN c.rows \in {1..1, 1..2} /\ c.quarters \in 3..4
  BY Ranks, OneOrTwo DEF IsChannel
<1>3. RanksMb(c) \in Nat /\ RanksMb(c) > 0
  BY <1>1, <1>2 DEF RanksMb
<1> QED BY <1>2, <1>3 DEF ChannelSize

LEMMA CapacityIs ==
  ASSUME NEW d, d.version \in Nat, DOMAIN d.ch \in {1..1, 1..2},
         \A i \in DOMAIN d.ch : IsChannel(d, d.ch[i])
  PROVE  Capacity(d) = IF DOMAIN d.ch = 1..1 THEN ChannelSize(d.ch[1])
                       ELSE ChannelSize(d.ch[1]) + ChannelSize(d.ch[2])
<1> DEFINE ranks(c) == [k \in DOMAIN c.rows |-> 2^Exponent(c, k)]
           size(c) == (FoldLeft(+, 0, ranks(c)) * c.quarters) \div 4
           sizes == [i \in DOMAIN d.ch |-> size(d.ch[i])]
<1>1. Capacity(d) = FoldLeft(+, 0, sizes)
  BY DEF Capacity, Exponent
<1>2. ASSUME NEW i \in DOMAIN d.ch PROVE sizes[i] = ChannelSize(d.ch[i])
  <2> DEFINE c == d.ch[i]
  <2>1. \A k \in DOMAIN c.rows : 2^Exponent(c, k) \in Nat
    BY ExponentRange, PowerIsNat
  <2>2. PICK n \in {1, 2} : DOMAIN c.rows = 1..n
    BY Ranks
  <2>3. FoldLeft(+, 0, ranks(c)) = IF n = 1 THEN ranks(c)[1] ELSE ranks(c)[1] + ranks(c)[2]
    BY <2>1, <2>2, FoldOfSum
  <2>4. \A k \in 1..n : ranks(c)[k] = 2^Exponent(c, k)
    BY <2>2
  <2> HIDE DEF ranks, c
  <2>5. FoldLeft(+, 0, ranks(c)) = RanksMb(c)
    BY <2>2, <2>3, <2>4, OneOrTwo DEF RanksMb
  <2> QED BY <2>5 DEF ChannelSize, c
<1>3. PICK n \in {1, 2} : DOMAIN d.ch = 1..n
  OBVIOUS
<1>4. ASSUME NEW i \in 1..n PROVE sizes[i] \in Nat
  <2>1. i \in DOMAIN d.ch
    BY <1>3
  <2>2. IsChannel(d, d.ch[i])
    BY <2>1
  <2>3. ChannelSize(d.ch[i]) \in Nat
    BY <2>2, RanksAreNat
  <2> HIDE DEF sizes
  <2> QED BY <1>2, <2>1, <2>3
<1>5. DOMAIN sizes = 1..n
  BY <1>3
<1>6. FoldLeft(+, 0, sizes) = IF n = 1 THEN sizes[1] ELSE sizes[1] + sizes[2]
  BY <1>4, <1>5, FoldOfSum
<1>7. sizes[1] = ChannelSize(d.ch[1]) /\ (n = 2 => sizes[2] = ChannelSize(d.ch[2]))
  BY <1>2, <1>3, OneOrTwo
<1> HIDE DEF sizes
<1> QED BY <1>1, <1>3, <1>6, <1>7, OneOrTwo

LEMMA ChannelRead ==
  ASSUME NEW d, d.version \in Nat, d.type \in Nat, NEW c, IsChannel(d, c)
  PROVE  ChannelMb(DramRegisters(d), Encode(d, c)) = ChannelSize(c)
<1> DEFINE r == DramRegisters(d)
           e == Encode(d, c)
           n == Len(c.rows)
           m == Len(c.cols)
<1>1. /\ n \in DOMAIN c.rows /\ 1 \in DOMAIN c.rows /\ n \in {1, 2}
      /\ m \in DOMAIN c.cols /\ 1 \in DOMAIN c.cols /\ (n = 2 => m = 2)
  BY Ranks
<1>2. /\ r.type = d.type /\ r.version = d.version
      /\ e.rank = n - 1 /\ e.col = c.cols[1] - 9 /\ e.col1 = c.cols[m] - 9
      /\ e.row = IF c.rows[1] = 12 THEN 7 ELSE c.rows[1] - 13
      /\ e.row1 = IF c.rows[n] = 12 THEN 7 ELSE c.rows[n] - 13
      /\ e.bk = 3 - c.banks /\ e.bw = 2 - c.width /\ e.dbw = c.groups
      /\ e.row34 = (c.quarters = 3)
  BY DEF DramRegisters, Encode
<1>3. BankGroupBits(r, e) = c.groups
  BY <1>2 DEF BankGroupBits, IsChannel
<1>4. \A k \in DOMAIN c.rows :
        RowBits(d.version, IF c.rows[k] = 12 THEN 7 ELSE c.rows[k] - 13) = c.rows[k]
  BY ExponentRange, RowRead
<1>5. 2 \div 2^e.bw = c.width
  BY <1>1, <1>2, ExponentRange, WidthRead
<1>6. RowBits(r.version, e.row) = c.rows[1] /\ RowBits(r.version, e.row1) = c.rows[n]
  BY <1>1, <1>2, <1>4
<1> DEFINE size == 2^(RowBits(r.version, e.row) + (9 + e.col) + 3 - e.bk
                        + BankGroupBits(r, e) + (2 \div 2^e.bw) - 20)
           shift == (RowBits(r.version, e.row) - RowBits(r.version, e.row1))
                      + ((9 + e.col) - (IF r.version >= 2 THEN 9 + e.col1 ELSE 9 + e.col))
           both == IF e.rank = 0 THEN size ELSE size + size \div 2^shift
<1>7. size = 2^Exponent(c, 1)
  <2>1. /\ c.rows[1] \in 12..19 /\ c.cols[1] \in 9..12
        /\ c.banks \in 2..3 /\ c.groups \in 0..2 /\ c.width \in 0..2
    BY <1>1, ExponentRange
  <2>2. c.rows[1] + (9 + (c.cols[1] - 9)) + 3 - (3 - c.banks) + c.groups + c.width - 20
          = Exponent(c, 1)
    BY <2>1 DEF Exponent
  <2> QED BY <1>2, <1>3, <1>5, <1>6, <2>2
<1>8. ASSUME n = 2 PROVE shift = Exponent(c, 1) - Exponent(c, 2)
  <2>1. /\ c.rows[1] \in 12..19 /\ c.cols[1] \in 9..12
        /\ c.rows[2] \in 12..19 /\ c.cols[2] \in 9..12
        /\ c.banks \in 2..3 /\ c.groups \in 0..2 /\ c.width \in 0..2
    BY <1>1, <1>8, ExponentRange
  <2>2. d.version < 2 => c.cols[2] = c.cols[1]
    BY <1>8 DEF IsChannel
  <2>3. IF r.version >= 2 THEN 9 + e.col1 = c.cols[2] ELSE 9 + e.col = c.cols[2]
    BY <1>1, <1>2, <1>8, <2>1, <2>2
  <2>4. shift = (c.rows[1] - c.rows[2]) + (c.cols[1] - c.cols[2])
    BY <1>2, <1>6, <1>8, <2>1, <2>3
  <2> HIDE DEF shift
  <2> QED BY <2>1, <2>4 DEF Exponent
<1>9. both = RanksMb(c)
  <2>1. CASE n = 1
    <3>1. both = size /\ DOMAIN c.rows = 1..1
      BY <1>2, <2>1, Ranks
    <3> HIDE DEF both, size
    <3> QED BY <1>7, <3>1 DEF RanksMb
  <2>2. CASE n = 2
    <3>1. both = size + size \div 2^shift /\ DOMAIN c.rows = 1..2
      BY <1>2, <2>2, Ranks
    <3> HIDE DEF both, size, shift
    <3>2. Exponent(c, 1) \in 0..18 /\ Exponent(c, 2) \in 0..Exponent(c, 1)
      <4>1. Exponent(c, 1) \in 0..18 /\ Exponent(c, 2) \in 0..18
        BY <3>1, ExponentRange, OneOrTwo
      <4>2. c.rows[2] + c.cols[2] <= c.rows[1] + c.cols[1]
        BY <2>2 DEF IsChannel
      <4>3. /\ c.rows[1] \in 12..19 /\ c.cols[1] \in 9..12
            /\ c.rows[2] \in 12..19 /\ c.cols[2] \in 9..12
            /\ c.banks \in 2..3 /\ c.groups \in 0..2 /\ c.width \in 0..2
        BY <3>1, ExponentRange, OneOrTwo
      <4>4. Exponent(c, 2) <= Exponent(c, 1)
        BY <4>2, <4>3 DEF Exponent
      <4> QED BY <4>1, <4>4
    <3> DEFINE k == Exponent(c, 1) - Exponent(c, 2)
    <3>3. k \in 0..Exponent(c, 1) /\ Exponent(c, 1) - k = Exponent(c, 2)
      BY <3>2
    <3>4. shift = k
      BY <1>8, <2>2
    <3> HIDE DEF k
    <3>5. size \div 2^shift = 2^Exponent(c, 2)
      BY <1>7, <3>2, <3>3, <3>4, ShiftedPower
    <3> QED BY <1>7, <3>1, <3>5, OneOrTwo DEF RanksMb
  <2> QED BY <1>1, <2>1, <2>2
<1>10. ChannelMb(r, e) = IF e.row34 THEN (both * 3) \div 4 ELSE both
  BY DEF ChannelMb
<1> HIDE DEF both, size, shift, r, e
<1>11. CASE c.quarters = 3
  <2>1. e.row34
    BY <1>2, <1>11
  <2>2. ChannelMb(r, e) = (both * 3) \div 4
    BY <1>10, <2>1, Zenon
  <2>3. ChannelSize(c) = (RanksMb(c) * 3) \div 4
    BY <1>11 DEF ChannelSize
  <2> QED BY <1>9, <2>2, <2>3 DEF r, e
<1>12. CASE c.quarters = 4
  <2>1. ~e.row34
    <3>1. c.quarters # 3
      BY <1>12
    <3> QED BY <1>2, <3>1
  <2>2. ChannelMb(r, e) = both
    BY <1>10, <2>1, Zenon
  <2>3. \A x \in Nat : (x * 4) \div 4 = x
    OBVIOUS
  <2>4. ChannelSize(c) = (RanksMb(c) * 4) \div 4
    BY <1>12 DEF ChannelSize
  <2>5. RanksMb(c) \in Nat
    BY RanksAreNat
  <2> QED BY <1>9, <2>2, <2>3, <2>4, <2>5 DEF r, e
<1> QED BY <1>11, <1>12 DEF IsChannel

\* The code reads back what the loader wrote.
LEMMA SizeIsCapacity ==
  ASSUME NEW d, d.version \in Nat, d.type \in Nat, DOMAIN d.ch \in {1..1, 1..2},
         \A i \in DOMAIN d.ch : IsChannel(d, d.ch[i])
  PROVE  SdramGetMemorySize(DramRegisters(d)) = Capacity(d)
<1>1. PICK N \in {1, 2} : DOMAIN d.ch = 1..N
  OBVIOUS
<1> DEFINE r == DramRegisters(d)
           val == [i \in 1..N |-> ChannelSize(d.ch[i])]
           body(it) == [s \in SUBSET (1..N) |->
                          IF s = {} THEN 0
                          ELSE it[s \ {Max(s)}] + ChannelMb(r, r.ch[Max(s)])]
           it == CHOOSE i : i = body(i)
<1>2. \A k \in 1..N : val[k] \in Nat
  BY <1>1, RanksAreNat
<1>3. DOMAIN r.ch = 1..N
  BY <1>1 DEF DramRegisters
<1>4. SdramGetMemorySize(r) = it[1..N]
  BY <1>3 DEF SdramGetMemorySize, FoldLeft, MapThenFoldSet
<1>5. ASSUME NEW k \in 1..N PROVE ChannelMb(r, r.ch[k]) = val[k]
  <2>1. r.ch[k] = Encode(d, d.ch[k])
    BY <1>1 DEF DramRegisters
  <2> QED BY <1>1, <2>1, ChannelRead
<1>6. ASSUME NEW s \in SUBSET (1..N), s # {} PROVE Max(s) \in 1..N
  <2>1. s \in SUBSET (1..2) /\ 1 \in 1..N /\ (2 \in s => 2 \in 1..N)
    OBVIOUS
  <2> QED BY <1>6, <2>1, GreatestOfTwo
<1> HIDE DEF r, val
<1>7. \A i : body(i) = Summing(N, val, i)
  BY <1>5, <1>6 DEF Summing
<1>8. it = Summing(N, val, it)
  <2>1. PICK f : f = Summing(N, val, f)
    BY <1>2, SummingExists
  <2> HIDE DEF body
  <2> QED BY <1>7, <2>1
<1> HIDE DEF it
<1>9. it[1..N] = IF N = 1 THEN val[1] ELSE val[1] + val[2]
  BY <1>2, <1>8, SummingIs
<1>10. val[1] = ChannelSize(d.ch[1]) /\ (N = 2 => val[2] = ChannelSize(d.ch[2]))
  BY OneOrTwo DEF val
<1> QED BY <1>1, <1>4, <1>9, <1>10, CapacityIs, OneOrTwo DEF r

------------------------------------------------------------------------------
(* The table of regions and its descriptors.                                 *)

LEMMA Concatenated ==
  ASSUME NEW S, NEW s \in Seq(S), NEW t \in Seq(S)
  PROVE  /\ s \o t \in Seq(S) /\ Len(s \o t) = Len(s) + Len(t)
         /\ \A k \in 1..Len(s) : (s \o t)[k] = s[k]
         /\ \A k \in 1..Len(t) : (s \o t)[Len(s) + k] = t[k]
<1>1. s \o t \in Seq(S) /\ Len(s \o t) = Len(s) + Len(t)
  OBVIOUS
<1>2. ASSUME NEW k \in 1..Len(s) PROVE (s \o t)[k] = s[k]
  OBVIOUS
<1>3. ASSUME NEW k \in 1..Len(t) PROVE (s \o t)[Len(s) + k] = t[k]
  <2>1. (s \o t)[k + Len(s)] = t[k]
    OBVIOUS
  <2>2. k + Len(s) = Len(s) + k
    OBVIOUS
  <2> QED BY <2>1, <2>2
<1> QED BY <1>1, <1>2, <1>3

LEMMA ConcatenatedTwice ==
  ASSUME NEW S, NEW t \in Seq(S), NEW u \in Seq(S), NEW v \in Seq(S)
  PROVE  \A w : w = t \o u \o v =>
             /\ w \in Seq(S) /\ Len(w) = Len(t) + Len(u) + Len(v)
             /\ \A k \in 1..Len(t) : w[k] = t[k]
             /\ \A k \in 1..Len(u) : w[Len(t) + k] = u[k]
             /\ \A k \in 1..Len(v) : w[Len(t) + Len(u) + k] = v[k]
<1> DEFINE x == t \o u
           w == x \o v
<1>1. x \in Seq(S) /\ Len(x) = Len(t) + Len(u)
  OBVIOUS
<1>2. \A k \in 1..Len(t) : x[k] = t[k]
  BY Concatenated
<1>3. \A k \in 1..Len(u) : x[Len(t) + k] = u[k]
  BY Concatenated
<1> HIDE DEF x
<1>4. w \in Seq(S) /\ Len(w) = Len(x) + Len(v)
  BY <1>1, Concatenated
<1>5. \A k \in 1..Len(x) : w[k] = x[k]
  BY <1>1, Concatenated
<1>6. \A k \in 1..Len(v) : w[Len(x) + k] = v[k]
  BY <1>1, Concatenated
<1> HIDE DEF w
<1>7. Len(t) \in Nat /\ Len(u) \in Nat /\ Len(v) \in Nat
  OBVIOUS
<1>8. \A k \in 1..Len(t) : w[k] = t[k]
  BY <1>1, <1>2, <1>5, <1>7
<1>9. \A k \in 1..Len(u) : w[Len(t) + k] = u[k]
  BY <1>1, <1>3, <1>5, <1>7
<1>10. \A k \in 1..Len(v) : w[Len(t) + Len(u) + k] = v[k]
  BY <1>1, <1>6
<1>11. Len(w) = Len(t) + Len(u) + Len(v)
  BY <1>1, <1>4
<1> QED BY <1>4, <1>8, <1>9, <1>10, <1>11 DEF w, x

\* The table entry by entry; n tells whether there is memory above 4 GB.
IsTable(soc, P, n, map) ==
    /\ n = (IF P > GB(4) THEN 1 ELSE 0)
    /\ Len(map) = 8 + n /\ DOMAIN map = 1..(8 + n)
    /\ map[1] = Region(983040, 65536, "device", "unmapped")
    /\ map[2] = HighMmio(soc)
    /\ map[3] = Region(0, Smaller(P, 983040), "write-back", "basic")
    /\ n = 1 => map[4] = Region(GB(4), P - GB(4), "write-back", "basic")
    /\ map[4 + n] = Region(0, TfaPages(soc), "uncached", "reserved")
    /\ map[5 + n] = Region(33792, 4096, "write-back", "reserved")
    /\ map[6 + n] = Region(271, 1, "uncached", "reserved")
    /\ map[7 + n] = Region(FdBaseAddress(soc), 896, "write-back", "reserved")
    /\ map[8 + n] = Region(2784, 16, "write-back", "reserved")

LEMMA TableEntries ==
  ASSUME NEW soc, NEW P \in Nat, NEW n, n = IF P > GB(4) THEN 1 ELSE 0,
         NEW map, map = ArmPlatformGetVirtualMemoryMap(soc, P)
  PROVE  IsTable(soc, P, n, map)
<1> DEFINE t == <<Region(983040, 65536, "device", "unmapped"), HighMmio(soc),
                  Region(0, Smaller(P, 983040), "write-back", "basic")>>
           u == HighRam(P)
           v == <<Region(0, TfaPages(soc), "uncached", "reserved"),
                  Region(33792, 4096, "write-back", "reserved"),
                  Region(271, 1, "uncached", "reserved"),
                  Region(FdBaseAddress(soc), 896, "write-back", "reserved"),
                  Region(2784, 16, "write-back", "reserved")>>
           S == {t[1], t[2], t[3], u[1], v[1], v[2], v[3], v[4], v[5]}
<1>1. map = t \o u \o v
  BY DEF ArmPlatformGetVirtualMemoryMap
<1>2. Len(t) = 3 /\ Len(v) = 5 /\ t \in Seq(S) /\ v \in Seq(S)
  <2> HIDE DEF u
  <2>1. t[1] \in S /\ t[2] \in S /\ t[3] \in S
    OBVIOUS
  <2>2. v[1] \in S /\ v[2] \in S /\ v[3] \in S /\ v[4] \in S /\ v[5] \in S
    OBVIOUS
  <2> HIDE DEF S
  <2> QED BY <2>1, <2>2
<1>3. Len(u) = n /\ u \in Seq(S)
  <2> HIDE DEF t, v
  <2>1. u[1] \in S
    OBVIOUS
  <2> HIDE DEF S
  <2> QED BY <2>1 DEF HighRam, GB, PagesPerMb
<1> HIDE DEF S
<1>4. /\ Len(map) = 8 + n /\ DOMAIN map = 1..Len(map)
      /\ map[1] = t[1] /\ map[2] = t[2] /\ map[3] = t[3] /\ (n = 1 => map[4] = u[1])
      /\ \A k \in 1..5 : map[3 + n + k] = v[k]
  <2> HIDE DEF t, u, v
  <2>1. n \in {0, 1}
    OBVIOUS
  <2>2. /\ map \in Seq(S) /\ Len(map) = Len(t) + Len(u) + Len(v)
        /\ \A k \in 1..Len(t) : map[k] = t[k]
        /\ \A k \in 1..Len(u) : map[Len(t) + k] = u[k]
        /\ \A k \in 1..Len(v) : map[Len(t) + Len(u) + k] = v[k]
    <3>1. t \in Seq(S) /\ u \in Seq(S) /\ v \in Seq(S)
      BY <1>2, <1>3
    <3> QED BY <1>1, <3>1, ConcatenatedTwice
  <2>3. Len(t) = 3 /\ Len(v) = 5 /\ Len(u) = n
    BY <1>2, <1>3
  <2>4. Len(map) = 8 + n /\ DOMAIN map = 1..Len(map)
    <3>1. DOMAIN map = 1..Len(map)
      BY <2>2
    <3>2. Len(map) = 3 + n + 5
      BY <2>2, <2>3
    <3> QED BY <2>1, <3>1, <3>2
  <2>5. \A k \in 1..3 : map[k] = t[k]
    BY <2>2, <2>3
  <2>6. n = 1 => map[4] = u[1]
    BY <2>2, <2>3
  <2>7. \A k \in 1..5 : map[3 + n + k] = v[k]
    BY <2>2, <2>3
  <2> QED BY <2>4, <2>5, <2>6, <2>7
<1>5. \A k \in 1..5 : map[(3 + k) + n] = v[k]
  <2> HIDE DEF t, u, v
  <2>1. n \in {0, 1}
    OBVIOUS
  <2> QED BY <1>4, <2>1
<1>6. n = 1 => map[4] = Region(GB(4), P - GB(4), "write-back", "basic")
  BY <1>4 DEF HighRam
<1>7. /\ map[4 + n] = v[1] /\ map[5 + n] = v[2] /\ map[6 + n] = v[3]
      /\ map[7 + n] = v[4] /\ map[8 + n] = v[5]
  <2> HIDE DEF t, u, v
  <2> QED BY <1>5
<1> QED BY <1>4, <1>6, <1>7 DEF IsTable
\* What a region of each type adds to the descriptors.
LEMMA RegionAdded ==
  ASSUME NEW r
  PROVE  /\ r.type = "unmapped" => AddRegion(r) = {}
         /\ r.type = "basic" => AddRegion(r) = {Resource(r)}
         /\ r.type = "reserved" => AddRegion(r) = {Resource(r), Allocation(r)}
<1>1. "unmapped" # "basic" /\ "unmapped" # "reserved" /\ "basic" # "reserved"
  OBVIOUS
<1> QED BY <1>1, Zenon DEF AddRegion

\* The addresses a table's entries have: the two device windows and the rest.
Shaped(P, i, r) ==
    /\ r.base \in Nat /\ r.pages \in Nat
    /\ r.type \in {"unmapped", "basic", "reserved"}
    /\ r.attributes = "device" <=> r.type = "unmapped"
    /\ i \in {1, 2} <=> r.type = "unmapped"
    /\ i > 2 => /\ r.base + r.pages <= P
                /\ r.base + r.pages <= 983040 \/ r.base = GB(4)

LEMMA EntryShapes ==
  ASSUME NEW soc \in {"RK356X", "RK3588"}, NEW P \in 37888..HighMmio(soc).base,
         NEW map, map = ArmPlatformGetVirtualMemoryMap(soc, P), NEW i \in DOMAIN map
  PROVE  Shaped(P, i, map[i])
<1> DEFINE n == IF P > GB(4) THEN 1 ELSE 0
<1>0. HighMmio(soc) = Region(HighMmio(soc).base, HighMmio(soc).pages, "device", "unmapped")
      /\ HighMmio(soc).base \in Nat /\ HighMmio(soc).pages \in Nat
  BY DEF HighMmio, Region
<1>1. P \in Nat /\ P >= 37888 /\ n \in {0, 1} /\ GB(4) = 1048576
  BY <1>0 DEF GB, PagesPerMb
<1>2. IsTable(soc, P, n, map)
  BY <1>1, TableEntries
<1>3. /\ TfaPages(soc) \in {512, 2560} /\ FdBaseAddress(soc) \in {512, 2560}
      /\ Smaller(P, 983040) \in 0..P /\ Smaller(P, 983040) <= 983040
  BY <1>1 DEF TfaPages, FdBaseAddress, Smaller
<1>4. n = 1 => P - GB(4) \in Nat /\ GB(4) + (P - GB(4)) = P
  BY <1>1
<1> HIDE DEF n
<1>5. CASE i = 1
  BY <1>2, <1>5 DEF Region, IsTable, Shaped
<1>6. CASE i = 2
  BY <1>0, <1>2, <1>6 DEF Region, IsTable, Shaped
<1>7. CASE i = 3
  <2>1. map[i] = Region(0, Smaller(P, 983040), "write-back", "basic")
    BY <1>2, <1>7 DEF IsTable
  <2>2. i > 2 /\ i \notin {1, 2}
    BY <1>7
  <2> DEFINE m == Smaller(P, 983040)
  <2>3. m \in Nat /\ m <= P /\ m <= 983040 /\ 0 + m = m
    BY <1>1, <1>3
  <2> HIDE DEF m
  <2>4. map[i] = Region(0, m, "write-back", "basic")
    BY <2>1 DEF m
  <2> QED BY ONLY <2>2, <2>3, <2>4 DEF Region, Shaped
<1>8. CASE n = 1 /\ i = 4
  BY <1>1, <1>2, <1>4, <1>8 DEF Region, IsTable, Shaped
<1>9. CASE i = 4 + n
  <2>1. map[i] = Region(0, TfaPages(soc), "uncached", "reserved")
    BY <1>2, <1>9 DEF IsTable
  <2>2. i > 2 /\ i \notin {1, 2}
    BY <1>1, <1>9
  <2> QED BY <1>1, <1>3, <2>1, <2>2 DEF Region, Shaped
<1>10. CASE i = 5 + n
  <2>1. map[i] = Region(33792, 4096, "write-back", "reserved")
    BY <1>2, <1>10 DEF IsTable
  <2>2. i > 2 /\ i \notin {1, 2}
    BY <1>1, <1>10
  <2> QED BY <1>1, <1>3, <2>1, <2>2 DEF Region, Shaped
<1>11. CASE i = 6 + n
  <2>1. map[i] = Region(271, 1, "uncached", "reserved")
    BY <1>2, <1>11 DEF IsTable
  <2>2. i > 2 /\ i \notin {1, 2}
    BY <1>1, <1>11
  <2> QED BY <1>1, <1>3, <2>1, <2>2 DEF Region, Shaped
<1>12. CASE i = 7 + n
  <2>1. map[i] = Region(FdBaseAddress(soc), 896, "write-back", "reserved")
    BY <1>2, <1>12 DEF IsTable
  <2>2. i > 2 /\ i \notin {1, 2}
    BY <1>1, <1>12
  <2> QED BY <1>1, <1>3, <2>1, <2>2 DEF Region, Shaped
<1>13. CASE i = 8 + n
  <2>1. map[i] = Region(2784, 16, "write-back", "reserved")
    BY <1>2, <1>13 DEF IsTable
  <2>2. i > 2 /\ i \notin {1, 2}
    BY <1>1, <1>13
  <2> QED BY <1>1, <1>3, <2>1, <2>2 DEF Region, Shaped
<1>14. i \in 1..(8 + n)
  BY <1>2 DEF IsTable
<1> QED BY <1>1, <1>5, <1>6, <1>7, <1>8, <1>9, <1>10, <1>11, <1>12, <1>13, <1>14

\* Where a region that is not plain memory is overlapped, the two are mapped alike.
LEMMA OverlapsAgree ==
  ASSUME NEW soc \in {"RK356X", "RK3588"}, NEW P \in 37888..HighMmio(soc).base,
         NEW map, map = ArmPlatformGetVirtualMemoryMap(soc, P),
         NEW i \in DOMAIN map, NEW j \in DOMAIN map,
         i < j, Overlap(map[i], map[j]), map[i].type # "basic"
  PROVE  map[i].attributes = map[j].attributes
<1> DEFINE n == IF P > GB(4) THEN 1 ELSE 0
<1>1. P \in Nat /\ n \in {0, 1} /\ GB(4) = 1048576
  BY DEF GB, PagesPerMb, HighMmio, Region
<1>2. IsTable(soc, P, n, map)
  BY <1>1, TableEntries
<1>3. \A k \in DOMAIN map : Shaped(P, k, map[k])
  BY EntryShapes
<1>4. TfaPages(soc) = FdBaseAddress(soc) /\ TfaPages(soc) \in {512, 2560}
  BY DEF TfaPages, FdBaseAddress
<1>5. map[i].base < map[j].base + map[j].pages /\ map[j].base < map[i].base + map[i].pages
  BY DEF Overlap
<1> HIDE DEF n
<1>6. CASE i = 1
  <2>1. map[1].base = 983040 /\ map[1].pages = 65536 /\ map[1].attributes = "device"
    BY <1>2 DEF IsTable, Region
  <2>2. CASE j = 2
    BY <1>2, <1>6, <2>1, <2>2 DEF IsTable, Region, HighMmio
  <2>3. CASE j > 2
    <3>1. /\ map[j].base \in Nat /\ map[j].pages \in Nat
          /\ map[j].base + map[j].pages <= 983040 \/ map[j].base = 1048576
      BY <1>1, <1>3, <2>3 DEF Shaped
    <3>2. 983040 < map[j].base + map[j].pages /\ map[j].base < 1048576
      BY <1>5, <1>6, <2>1
    <3> QED BY <3>1, <3>2
  <2> QED BY <1>2, <1>6, <2>2, <2>3 DEF IsTable
<1>7. CASE i = 2
  <2>1. map[2].base >= P /\ map[2].base >= GB(4)
    BY <1>1, <1>2 DEF IsTable, Region, HighMmio
  <2>2. j > 2 /\ map[j].base + map[j].pages <= P
    BY <1>3, <1>7 DEF Shaped
  <2>3. P \in Nat /\ map[j].base \in Nat /\ map[j].pages \in Nat /\ map[i].base >= P
    BY <1>1, <1>3, <1>7, <2>1 DEF Shaped
  <2>4. map[i].base \in Nat
    BY <1>3 DEF Shaped
  <2> QED BY <1>5, <2>2, <2>3, <2>4
<1>8. CASE i > 2
  <2>1. i # 3 /\ (n = 1 => i # 4) /\ i \in 1..(8 + n) /\ j \in 1..(8 + n)
    BY <1>2 DEF IsTable, Region
  <2>2. i \in (4 + n)..(8 + n) /\ j \in (4 + n)..(8 + n)
    BY <1>1, <1>8, <2>1
  <2> DEFINE tfa == TfaPages(soc)
  <2>3. /\ map[4 + n].base = 0 /\ map[4 + n].pages = tfa /\ map[4 + n].attributes = "uncached"
        /\ map[5 + n].base = 33792 /\ map[5 + n].attributes = "write-back"
        /\ map[6 + n].base = 271 /\ map[6 + n].pages = 1 /\ map[6 + n].attributes = "uncached"
        /\ map[7 + n].base = tfa /\ map[7 + n].attributes = "write-back"
        /\ map[8 + n].base = 2784 /\ map[8 + n].attributes = "write-back"
    BY <1>2, <1>4 DEF IsTable, Region
  <2>4. tfa \in {512, 2560}
    BY <1>4
  <2> HIDE DEF tfa
  <2>5. j \in (5 + n)..(8 + n)
    BY <1>1, <2>2
  <2>6. CASE i = 4 + n
    <3>1. map[j].base < tfa
      BY <1>5, <2>3, <2>4, <2>6
    <3>2. j = 6 + n
      BY <1>1, <2>3, <2>4, <2>5, <3>1
    <3> QED BY <2>3, <2>6, <3>2
  <2>7. CASE i = 6 + n
    <3>1. j = 7 + n \/ j = 8 + n
      BY <1>1, <2>2, <2>7
    <3>2. map[j].base < 272
      BY <1>5, <2>3, <2>7
    <3> QED BY <2>3, <2>4, <3>1, <3>2
  <2>8. CASE i = 5 + n
    <3>1. map[5 + n].pages = 4096
      BY <1>2 DEF IsTable, Region
    <3>2. map[i].base < map[j].base + map[j].pages
      BY <1>5
    <3>3. j # 6 + n
      BY <2>3, <2>8, <3>2
    <3> QED BY <1>1, <2>3, <2>5, <2>8, <3>3
  <2>9. CASE i = 7 + n \/ i = 8 + n
    <3>1. j = 7 + n \/ j = 8 + n
      BY <1>1, <2>2, <2>9
    <3> QED BY <2>3, <2>9, <3>1
  <2> QED BY <1>1, <2>2, <2>6, <2>7, <2>8, <2>9
<1>9. i \in Nat /\ i > 0
  BY <1>1, <1>2 DEF IsTable
<1> QED BY <1>6, <1>7, <1>8, <1>9

HobsOf(map, hs) ==
    /\ \A h \in hs : \E i \in DOMAIN map :
          i > 2 /\ h \in {Resource(map[i]), Allocation(map[i])}
    /\ \A i \in DOMAIN map :
          /\ i > 2 => Resource(map[i]) \in hs
          /\ map[i].type = "reserved" => Allocation(map[i]) \in hs

LEMMA HobsAre ==
  ASSUME NEW soc \in {"RK356X", "RK3588"}, NEW P \in 37888..HighMmio(soc).base,
         NEW map, map = ArmPlatformGetVirtualMemoryMap(soc, P),
         NEW hs, hs = UNION {AddRegion(map[i]) : i \in DOMAIN map}
  PROVE  HobsOf(map, hs)
<1>1. \A i \in DOMAIN map : Shaped(P, i, map[i])
  BY EntryShapes
<1>2. \A i \in DOMAIN map : i > 2 \/ i \in {1, 2}
  <2>1. PICK n \in Nat : DOMAIN map = 1..(8 + n)
    <3> DEFINE n == IF P > GB(4) THEN 1 ELSE 0
    <3>1. P \in Nat /\ n \in Nat
      BY DEF HighMmio, Region
    <3>2. IsTable(soc, P, n, map)
      BY <3>1, TableEntries
    <3> QED BY <3>1, <3>2 DEF IsTable
  <2> QED BY <2>1
<1>3. ASSUME NEW i \in DOMAIN map
      PROVE  /\ i \in {1, 2} => AddRegion(map[i]) = {}
             /\ i > 2 => /\ Resource(map[i]) \in AddRegion(map[i])
                         /\ AddRegion(map[i]) \subseteq {Resource(map[i]), Allocation(map[i])}
             /\ map[i].type = "reserved" => Allocation(map[i]) \in AddRegion(map[i])
  BY <1>1, RegionAdded DEF Shaped
<1>4. ASSUME NEW h \in hs
      PROVE  \E i \in DOMAIN map : i > 2 /\ h \in {Resource(map[i]), Allocation(map[i])}
  BY <1>2, <1>3
<1> QED BY <1>3, <1>4 DEF HobsOf

\* What MemorySound says, of a table made for P pages.
Sound(soc, P, map, hs) ==
    /\ Len(map) + 1 <= MAX_VIRTUAL_MEMORY_MAP_DESCRIPTORS
    /\ \A h \in hs : h.kind = "resource" =>
         /\ h.base + h.pages <= P
         /\ \A i \in DOMAIN map : map[i].attributes = "device" => ~Overlap(h, map[i])
    /\ \A f \in Firmware(soc) : \E h \in hs : h.kind = "allocation" /\ Inside(f, h)
    /\ \E h \in hs : h.kind = "resource" /\ h.base = 0 /\ h.pages = Smaller(983040, P)

LEMMA TableSound ==
  ASSUME NEW soc \in {"RK356X", "RK3588"}, NEW P \in 37888..HighMmio(soc).base,
         NEW map, map = ArmPlatformGetVirtualMemoryMap(soc, P),
         NEW hs, hs = UNION {AddRegion(map[i]) : i \in DOMAIN map}
  PROVE  Sound(soc, P, map, hs)
<1> DEFINE n == IF P > GB(4) THEN 1 ELSE 0
<1>1. P \in Nat /\ n \in {0, 1} /\ GB(4) = 1048576
  BY DEF GB, PagesPerMb, HighMmio, Region
<1>2. IsTable(soc, P, n, map)
  BY <1>1, TableEntries
<1>3. \A k \in DOMAIN map : Shaped(P, k, map[k])
  BY EntryShapes
<1>4. HobsOf(map, hs)
  BY HobsAre
<1>5. Len(map) + 1 <= MAX_VIRTUAL_MEMORY_MAP_DESCRIPTORS
  BY <1>1, <1>2 DEF IsTable, MAX_VIRTUAL_MEMORY_MAP_DESCRIPTORS
<1> HIDE DEF n
<1>6. ASSUME NEW h \in hs, h.kind = "resource"
      PROVE  /\ h.base + h.pages <= P
             /\ \A i \in DOMAIN map : map[i].attributes = "device" => ~Overlap(h, map[i])
  <2>1. PICK k \in DOMAIN map : k > 2 /\ h \in {Resource(map[k]), Allocation(map[k])}
    BY <1>4 DEF HobsOf
  <2>2. h.base = map[k].base /\ h.pages = map[k].pages
    BY <2>1 DEF Resource, Allocation
  <2>3. /\ h.base \in Nat /\ h.pages \in Nat /\ h.base + h.pages <= P
        /\ h.base + h.pages <= 983040 \/ h.base = 1048576
    BY <1>1, <1>3, <2>1, <2>2 DEF Shaped
  <2>4. ASSUME NEW i \in DOMAIN map, map[i].attributes = "device" PROVE ~Overlap(h, map[i])
    <3>1. i \in {1, 2}
      BY <1>3, <2>4 DEF Shaped
    <3>2. CASE i = 1
      <4>1. map[i].base = 983040 /\ map[i].pages = 65536
        BY <1>2, <3>2 DEF IsTable, Region
      <4> QED BY <2>3, <4>1 DEF Overlap
    <3>3. CASE i = 2
      <4>1. map[i].base \in Nat /\ map[i].base >= P
        BY <1>2, <3>3 DEF IsTable, Region, HighMmio
      <4> QED BY <1>1, <2>3, <4>1 DEF Overlap
    <3> QED BY <3>1, <3>2, <3>3
  <2> QED BY <2>3, <2>4
<1>7. ASSUME NEW f \in Firmware(soc)
      PROVE  \E h \in hs : h.kind = "allocation" /\ Inside(f, h)
  <2>1. PICK k \in {4 + n, 5 + n, 7 + n, 8 + n} : f.base = map[k].base /\ f.pages = map[k].pages
    <3>1. /\ map[4 + n].base = 0 /\ map[4 + n].pages = TfaPages(soc)
          /\ map[5 + n].base = 33792 /\ map[5 + n].pages = 4096
          /\ map[7 + n].base = FdBaseAddress(soc) /\ map[7 + n].pages = 896
          /\ map[8 + n].base = 2784 /\ map[8 + n].pages = 16
      BY <1>2 DEF IsTable, Region
    <3>2. CASE f = [base |-> 0, pages |-> TfaPages(soc)]
      BY <3>1, <3>2
    <3>3. CASE f = [base |-> 33792, pages |-> 4096]
      BY <3>1, <3>3
    <3>4. CASE f = [base |-> FdBaseAddress(soc), pages |-> 896]
      BY <3>1, <3>4
    <3>5. CASE f = [base |-> 2784, pages |-> 16]
      BY <3>1, <3>5
    <3> QED BY <3>2, <3>3, <3>4, <3>5 DEF Firmware
  <2>2. k \in DOMAIN map /\ map[k].type = "reserved"
    BY <1>1, <1>2 DEF IsTable, Region
  <2>3. /\ Allocation(map[k]) \in hs
        /\ Allocation(map[k]).kind = "allocation"
        /\ Allocation(map[k]).base = f.base /\ Allocation(map[k]).pages = f.pages
    BY <1>4, <2>1, <2>2 DEF HobsOf, Allocation
  <2>4. f.base \in Nat /\ f.pages \in Nat
    BY <1>3, <2>1, <2>2 DEF Shaped
  <2> QED BY <2>3, <2>4 DEF Inside
<1>8. \E h \in hs : h.kind = "resource" /\ h.base = 0 /\ h.pages = Smaller(983040, P)
  <2>1. 3 \in DOMAIN map
    BY <1>1, <1>2 DEF IsTable
  <2>2. map[3].base = 0 /\ map[3].pages = Smaller(983040, P)
    BY <1>1, <1>2 DEF IsTable, Region, Smaller
  <2>3. Resource(map[3]) \in hs
    BY <1>4, <2>1 DEF HobsOf
  <2> QED BY <2>2, <2>3 DEF Resource
<1> QED BY <1>5, <1>6, <1>7, <1>8 DEF Sound

------------------------------------------------------------------------------
(* The register file: which bits the steps of the drivers leave alone, and   *)
(* what they come to for the ones they set.                                  *)

\* Two states of the register file agree on the bits of W.
Keeps(W, r, s) == \A x \in W : x \in r <=> x \in s

LEMMA KeepsChain ==
  ASSUME NEW W, NEW r, NEW s, NEW t, Keeps(W, r, s), Keeps(W, s, t)
  PROVE  Keeps(W, r, t)
  BY DEF Keeps

LEMMA KeepsItself == \A W, r : Keeps(W, r, r)
  BY DEF Keeps

LEMMA HiwordKeeps ==
  ASSUME NEW W, NEW r, NEW reg, NEW mask, NEW bits, \A b \in mask : <<reg, b>> \notin W
  PROVE  Keeps(W, r, HiwordWrite(r, reg, mask, bits))
<1>1. ASSUME NEW x \in W PROVE x \notin {reg} \X mask /\ x \notin {reg} \X (bits \cap mask)
  OBVIOUS
<1> QED BY <1>1 DEF Keeps, HiwordWrite

LEMMA HiwordBits ==
  ASSUME NEW r, NEW reg, NEW mask, NEW bits, NEW b \in mask
  PROVE  <<reg, b>> \in HiwordWrite(r, reg, mask, bits) <=> b \in bits
  BY DEF HiwordWrite

LEMMA WriteKeeps ==
  ASSUME NEW W, NEW r, NEW reg, NEW bits, \A x \in W : x[1] # reg
  PROVE  Keeps(W, r, MmioWrite(r, reg, bits))
<1>1. ASSUME NEW x \in W PROVE x \notin {reg} \X bits
  OBVIOUS
<1> QED BY <1>1 DEF Keeps, MmioWrite

LEMMA AndThenOrKeeps ==
  ASSUME NEW W, NEW r, NEW reg, NEW clear, NEW bits,
         \A b \in clear \cup bits : <<reg, b>> \notin W
  PROVE  Keeps(W, r, MmioAndThenOr(r, reg, clear, bits))
<1>1. ASSUME NEW x \in W PROVE x \notin {reg} \X clear /\ x \notin {reg} \X bits
  OBVIOUS
<1> QED BY <1>1 DEF Keeps, MmioAndThenOr

\* A register is told apart by its name.
LEMMA OtherRegister ==
  ASSUME NEW W, NEW reg, \A x \in W : x[1][1] # reg[1]
  PROVE  /\ \A x \in W : x[1] # reg
         /\ \A b : <<reg, b>> \notin W
<1>1. \A b : <<reg, b>>[1] = reg
  OBVIOUS
<1> QED BY <1>1

LEMMA FieldKept ==
  ASSUME NEW r, NEW s, NEW reg, NEW lo, NEW hi,
         \A b \in lo..hi : <<reg, b>> \in r <=> <<reg, b>> \in s
  PROVE  Field(r, reg, lo, hi) = Field(s, reg, lo, hi)
<1>1. {b \in lo..hi : <<reg, b>> \in r} = {b \in lo..hi : <<reg, b>> \in s}
  OBVIOUS
<1> QED BY <1>1 DEF Field

LEMMA PinFieldKeeps ==
  ASSUME NEW W, NEW r, NEW kind, NEW g, NEW pin, NEW count, NEW width, NEW pitch, NEW value,
         \A x \in W : x[1][1] # kind
  PROVE  Keeps(W, r, PinField(r, kind, g, pin, count, width, pitch, value))
<1> DEFINE reg == <<kind, g, pin \div count>>
<1>1. reg[1] = kind
  OBVIOUS
<1>2. \A b : <<reg, b>> \notin W
  BY <1>1, OtherRegister
<1> HIDE DEF reg
<1> QED BY <1>2, HiwordKeeps DEF PinField, reg

\* What FoldLeft chooses for a table of pins, and that there is something to choose.
Pinning(N, r, Configs, it) ==
    [s \in SUBSET (1..N) |->
       IF s = {} THEN r ELSE GpioSetPin(it[s \ {Max(s)}], Configs[Max(s)])]

LEMMA PinningExists ==
  ASSUME NEW N \in Nat, NEW r, NEW Configs
  PROVE  \E it : it = Pinning(N, r, Configs, it)
<1> DEFINE B == {n \in Nat : ~ \E it : it = Pinning(n, r, Configs, it)}
<1>1. ASSUME B # {} PROVE FALSE
  <2>1. PICK n \in B : \A m \in B : n <= m
    BY <1>1, LeastMember
  <2>2. n # 0
    <3> DEFINE it == [s \in SUBSET (1 .. 0) |-> r]
    <3>1. \A s \in SUBSET (1 .. 0) : s = {}
      OBVIOUS
    <3>2. it = Pinning(0, r, Configs, it)
      BY <3>1 DEF Pinning
    <3>3. 0 \notin B
      BY <3>2
    <3> QED BY <2>1, <3>3
  <2>3. PICK k \in Nat : n = k + 1
    BY <2>2
  <2>4. k \notin B
    BY <2>1, <2>3
  <2>5. PICK f : f = Pinning(k, r, Configs, f)
    BY <2>4
  <2> DEFINE g == [s \in SUBSET (1 .. n) |->
                     IF n \in s THEN GpioSetPin(f[s \ {n}], Configs[n]) ELSE f[s]]
  <2>6. ASSUME NEW s \in SUBSET (1 .. n) PROVE g[s] = Pinning(n, r, Configs, g)[s]
    <3>1. CASE n \in s
      <4>1. Max(s) = n /\ s # {}
        BY <3>1, MaxOf
      <4>2. s \ {n} \in SUBSET (1 .. n) /\ n \notin s \ {n}
        OBVIOUS
      <4> QED BY <3>1, <4>1, <4>2 DEF Pinning
    <3>2. CASE n \notin s
      <4>1. s \in SUBSET (1 .. k)
        BY <3>2, <2>3
      <4>2. f[s] = IF s = {} THEN r ELSE GpioSetPin(f[s \ {Max(s)}], Configs[Max(s)])
        BY <2>5, <4>1 DEF Pinning
      <4>3. CASE s # {}
        <5>1. Max(s) \in s
          BY <4>1, <4>3, MaxOf
        <5>2. s \ {Max(s)} \in SUBSET (1 .. n) /\ n \notin s \ {Max(s)}
          BY <3>2
        <5> QED BY <3>2, <4>2, <4>3, <5>1, <5>2 DEF Pinning
      <4>4. CASE s = {}
        BY <3>2, <4>2, <4>4 DEF Pinning
      <4> QED BY <4>3, <4>4
    <3> QED BY <3>1, <3>2
  <2>7. g = Pinning(n, r, Configs, g)
    <3>1. Pinning(n, r, Configs, g) = [s \in SUBSET (1 .. n) |-> Pinning(n, r, Configs, g)[s]]
      BY DEF Pinning
    <3>2. g = [s \in SUBSET (1 .. n) |-> g[s]]
      OBVIOUS
    <3> HIDE DEF g
    <3> QED BY <3>1, <3>2, <2>6
  <2> QED BY <2>1, <2>7
<1> QED BY <1>1
\* A table of pins is worked off row by row.
Row(r, Configs, h, n) == h[n] = IF n = 0 THEN r ELSE GpioSetPin(h[n - 1], Configs[n])

LEMMA IomuxRows ==
  ASSUME NEW N \in Nat, NEW r, NEW Configs, DOMAIN Configs = 1..N
  PROVE  \E h : /\ \A n \in 0..N : Row(r, Configs, h, n)
               /\ GpioSetIomuxConfig(r, Configs) = h[N]
<1> DEFINE it == CHOOSE i : i = Pinning(N, r, Configs, i)
           h == [n \in 0..N |-> it[1..n]]
<1>1. GpioSetIomuxConfig(r, Configs) = it[1..N]
  BY DEF GpioSetIomuxConfig, FoldLeft, MapThenFoldSet, Pinning
<1>2. it = Pinning(N, r, Configs, it)
  BY PinningExists
<1> HIDE DEF it
<1>3. ASSUME NEW n \in 0..N PROVE Row(r, Configs, h, n)
  <2>1. CASE n = 0
    <3>1. 1..0 = {} /\ {} \in SUBSET (1..N)
      OBVIOUS
    <3>2. it[{}] = r
      BY <1>2, <3>1 DEF Pinning
    <3> QED BY <2>1, <3>1, <3>2 DEF Row
  <2>2. CASE n # 0
    <3>1. n \in Nat /\ n \in 1..n /\ 1..n \in SUBSET (1..n) /\ 1..n \in SUBSET (1..N)
      BY <2>2
    <3>2. Max(1..n) = n /\ 1..n # {}
      BY <3>1, MaxOf
    <3>3. (1..n) \ {n} = 1..(n - 1) /\ n - 1 \in 0..N
      BY <2>2
    <3>4. it[1..n] = GpioSetPin(it[1..(n - 1)], Configs[n])
      BY <1>2, <3>1, <3>2, <3>3 DEF Pinning
    <3> QED BY <2>2, <3>3, <3>4 DEF Row
  <2> QED BY <2>1, <2>2
<1>4. GpioSetIomuxConfig(r, Configs) = h[N]
  BY <1>1
<1> HIDE DEF h
<1> QED BY <1>3, <1>4

LEMMA OutputKeeps ==
  ASSUME NEW W, NEW r, NEW g, NEW pin, NEW v,
         <<<<"DDR", g, pin \div 16>>, pin % 16>> \notin W,
         <<<<"DR", g, pin \div 16>>, pin % 16>> \notin W, pin \in 0..31
  PROVE  Keeps(W, r, Output(r, g, pin, v)) /\ Keeps(W, r, GpioPinWrite(r, g, pin, v))
<1> DEFINE m == pin % 16
           d == GpioPinSetDirection(r, g, pin, 1)
<1>1. m \in 0..15 /\ m * 1 = m /\ m + 1 - 1 = m /\ m..m = {m}
  OBVIOUS
<1>2. \A s : Keeps(W, s, GpioPinWrite(s, g, pin, v))
  <2> TAKE s
  <2>1. GpioPinWrite(s, g, pin, v) = HiwordWrite(s, <<"DR", g, pin \div 16>>, {m}, Bits(v, m))
    BY <1>1 DEF GpioPinWrite, PinField
  <2> QED BY <2>1, HiwordKeeps
<1>3. Keeps(W, r, d)
  <2>1. d = HiwordWrite(r, <<"DDR", g, pin \div 16>>, {m}, Bits(1, m))
    BY <1>1 DEF GpioPinSetDirection, PinField
  <2> HIDE DEF d
  <2> QED BY <2>1, HiwordKeeps
<1> HIDE DEF d
<1> QED BY <1>2, <1>3, KeepsChain DEF Output, d

Some(s) == CHOOSE x \in s : TRUE
Weight(k, lo) == 2^(k - lo)

\* What MapThenSumSet chooses for the number that the bits in S make from lo on.
Adding(S, lo, it) ==
    [s \in SUBSET S |-> IF s = {} THEN 0 ELSE Weight(Some(s), lo) + it[s \ {Some(s)}]]

LEMMA AddingOf ==
  ASSUME NEW S, NEW lo, NEW it, it = Adding(S, lo, it), NEW s \in SUBSET S
  PROVE  it[s] = IF s = {} THEN 0 ELSE Weight(Some(s), lo) + it[s \ {Some(s)}]
<1>1. Adding(S, lo, it)[s] = IF s = {} THEN 0 ELSE Weight(Some(s), lo) + it[s \ {Some(s)}]
  BY DEF Adding
<1> QED BY <1>1

\* The sum of the bits in S, if there is one.
LEMMA FieldIs ==
  ASSUME NEW r, NEW reg, NEW lo, NEW hi, NEW S, {k \in lo..hi : <<reg, k>> \in r} = S,
         \E it : it = Adding(S, lo, it)
  PROVE  \E it : it = Adding(S, lo, it) /\ Field(r, reg, lo, hi) = it[S]
<1> DEFINE it == CHOOSE i : i = Adding(S, lo, i)
<1>1. Field(r, reg, lo, hi) = it[S]
  BY DEF Field, MapThenSumSet, MapThenFoldSet, Adding, Some, Weight
<1>2. it = Adding(S, lo, it)
  OBVIOUS
<1> HIDE DEF it
<1> QED BY <1>1, <1>2

LEMMA FieldOfNone ==
  ASSUME NEW r, NEW reg, NEW lo, NEW hi, \A k \in lo..hi : <<reg, k>> \notin r
  PROVE  Field(r, reg, lo, hi) = 0
<1> DEFINE S == {k \in lo..hi : <<reg, k>> \in r}
           g == [s \in SUBSET S |-> 0]
<1>1. S = {}
  OBVIOUS
<1>2. \A s \in SUBSET S : s = {}
  BY <1>1
<1>3. g = Adding(S, lo, g)
  <2>1. \A s \in SUBSET S : Adding(S, lo, g)[s] = 0
    BY <1>2 DEF Adding
  <2>2. Adding(S, lo, g) = [s \in SUBSET S |-> Adding(S, lo, g)[s]]
    BY DEF Adding
  <2> QED BY <2>1, <2>2
<1> HIDE DEF g
<1>4. PICK it : it = Adding(S, lo, it) /\ Field(r, reg, lo, hi) = it[S]
  <2> HIDE DEF S
  <2>1. \E i : i = Adding(S, lo, i)
    BY <1>3
  <2>2. {k \in lo..hi : <<reg, k>> \in r} = S
    BY DEF S
  <2> QED BY <2>1, <2>2, FieldIs
<1> HIDE DEF S
<1>5. it[S] = 0
  <2>1. S \in SUBSET S
    OBVIOUS
  <2> QED BY <1>1, <1>4, <2>1, AddingOf
<1> QED BY <1>4, <1>5

\* Of the bits lo..hi only a is set.
OnlyBit(r, reg, lo, hi, a) ==
    a \in lo..hi /\ \A k \in lo..hi : <<reg, k>> \in r <=> k = a

LEMMA FieldOfOne ==
  ASSUME NEW r, NEW reg, NEW lo, NEW hi, NEW a, OnlyBit(r, reg, lo, hi, a),
         NEW e, e = a - lo, NEW w \in Nat, w = 2^e
  PROVE  Field(r, reg, lo, hi) = w
<1> USE DEF OnlyBit
<1> DEFINE S == {a}
           g == [s \in SUBSET S |-> IF s = {} THEN 0 ELSE Weight(a, lo)]
<1>0. Weight(a, lo) \in Nat /\ Some(S) = a
  BY DEF Weight, Some
<1>1. \A s \in SUBSET S : s = {} \/ s = S
  OBVIOUS
<1>2. g[{}] = 0 /\ S \ {a} = {} /\ S # {} /\ S \in SUBSET S /\ {} \in SUBSET S
  OBVIOUS
<1>3. g = Adding(S, lo, g)
  <2>1. ASSUME NEW s \in SUBSET S PROVE Adding(S, lo, g)[s] = g[s]
    <3>1. CASE s = {}
      BY <3>1 DEF Adding
    <3>2. CASE s = S
      <4>1. Adding(S, lo, g)[S] = Weight(a, lo) + g[{}]
        <5> HIDE DEF S, g
        <5> QED BY <1>0, <1>2 DEF Adding
      <4>2. g[S] = Weight(a, lo)
        BY <1>2
      <4> HIDE DEF S, g
      <4> QED BY <1>0, <1>2, <3>2, <4>1, <4>2
    <3> QED BY <1>1, <3>1, <3>2
  <2>2. Adding(S, lo, g) = [s \in SUBSET S |-> Adding(S, lo, g)[s]]
    BY DEF Adding
  <2>3. g = [s \in SUBSET S |-> g[s]]
    OBVIOUS
  <2> HIDE DEF g
  <2> QED BY <2>1, <2>2, <2>3
<1> HIDE DEF g, S
<1>4. PICK it : it = Adding(S, lo, it) /\ Field(r, reg, lo, hi) = it[S]
  <2>1. \E i : i = Adding(S, lo, i)
    BY <1>3
  <2>2. {k \in lo..hi : <<reg, k>> \in r} = S
    BY DEF S
  <2> QED BY <2>1, <2>2, FieldIs
<1>5. it[{}] = 0
  BY <1>2, <1>4, AddingOf
<1>6. it[S] = Weight(a, lo) + it[S \ {a}]
  BY <1>0, <1>2, <1>4, AddingOf
<1>7. Weight(a, lo) = w
  BY DEF Weight
<1>8. it[S] = w + 0
  BY <1>2, <1>5, <1>6, <1>7
<1> QED BY <1>4, <1>8

LEMMA SmallPowers ==
  /\ 2^0 = 1 /\ 2^1 = 2 /\ 2^2 = 4
  /\ \A x \in 2..11 : 2^x \in Nat /\ 2^x >= 4
<1>1. 2^0 = 1 /\ 2^1 = 2 /\ 2^2 = 4
  <2>1. 2^(0 + 1) = 2 * 2^0 /\ 2^(1 + 1) = 2 * 2^1
    BY Powers
  <2> QED BY <2>1, Powers
<1> DEFINE T == {x \in 2..11 : ~(2^x >= 4)}
<1>2. ASSUME T # {} PROVE FALSE
  <2>1. PICK x \in T : \A y \in T : x <= y
    BY <1>2, LeastMember
  <2>2. x # 2
    <3>1. 2 \notin T
      BY <1>1
    <3> QED BY <2>1, <3>1
  <2>3. x - 1 \in 2..11 /\ x - 1 \in 0..17 /\ (x - 1) + 1 = x /\ x - 1 \notin T
    BY <2>1, <2>2
  <2>4. 2^(x - 1) >= 4 /\ 2^(x - 1) \in Nat
    BY <2>3, Powers
  <2>5. 2^x = 2 * 2^(x - 1)
    BY <2>3, Powers
  <2> QED BY <2>1, <2>4, <2>5
<1>3. ASSUME NEW x \in 2..11 PROVE 2^x \in Nat
  <2>1. x \in 0..17
    OBVIOUS
  <2> QED BY <2>1, Powers
<1> QED BY <1>1, <1>2, <1>3

LEMMA SmallNumbers ==
  ASSUME NEW s \in Nat
  PROVE  Bits(0, s) = {} /\ Bits(1, s) = {s} /\ Bits(2, s) = {s + 1} /\ Bits(3, s) = {s, s + 1}
<1> DEFINE B(n) == {x \in 0..11 : (n \div 2^x) % 2 = 1}
<1>1. ASSUME NEW n \in 0..3, NEW x \in 2..11 PROVE n \div 2^x = 0
  <2>1. PICK p \in Nat : p = 2^x /\ p >= 4
    BY SmallPowers
  <2>2. n \div p = 0
    <3> DEFINE q == n \div p
    <3>1. q \in Int /\ p * q <= n /\ n < p * q + p
      BY <2>1
    <3>2. ~(q >= 1) /\ ~(q <= -1)
      <4>1. ASSUME q >= 1 PROVE p * q >= p
        <5> HIDE DEF q
        <5> QED BY <2>1, <3>1, <4>1
      <4>2. ASSUME q <= -1 PROVE p * q + p <= 0
        <5> HIDE DEF q
        <5> QED BY <2>1, <3>1, <4>2
      <4> HIDE DEF q
      <4> QED BY <2>1, <3>1, <4>1, <4>2
    <3> HIDE DEF q
    <3>3. q = 0
      BY <3>1, <3>2
    <3> QED BY <3>3 DEF q
  <2> QED BY <2>1, <2>2
<1>2. ASSUME NEW n \in 0..3 PROVE \A x \in 2..11 : x \notin B(n)
  <2>1. ASSUME NEW x \in 2..11 PROVE (n \div 2^x) % 2 # 1
    <3> DEFINE q == n \div 2^x
    <3>1. q = 0
      BY <1>1
    <3> HIDE DEF q
    <3>2. q % 2 # 1
      BY <3>1
    <3> QED BY <3>2 DEF q
  <2> QED BY <2>1
<1>3. /\ 0 \notin B(0) /\ 1 \notin B(0) /\ 0 \in B(1) /\ 1 \notin B(1)
      /\ 0 \notin B(2) /\ 1 \in B(2) /\ 0 \in B(3) /\ 1 \in B(3)
  BY SmallPowers
<1>4. \A n \in 0..3 : B(n) \subseteq 0..11
  OBVIOUS
<1> HIDE DEF B
<1>5. \A x \in 0..11 : x = 0 \/ x = 1 \/ x \in 2..11
  OBVIOUS
<1>6. B(0) = {} /\ B(1) = {0} /\ B(2) = {1} /\ B(3) = {0, 1}
  BY <1>2, <1>3, <1>4, <1>5
<1>7. \A n : Bits(n, s) = {s + b : b \in B(n)}
  BY DEF Bits, B
<1> QED BY <1>6, <1>7

\* A field whose second bit is the only one.
LEMMA FieldOfBit1 ==
  ASSUME NEW r, NEW reg, NEW lo, NEW hi, NEW a, OnlyBit(r, reg, lo, hi, a), a - lo = 1
  PROVE  Field(r, reg, lo, hi) = 2
<1>1. PICK e : e = a - lo
  OBVIOUS
<1>2. PICK w \in Nat : w = 2^e /\ w = 2
  BY <1>1, SmallPowers
<1>3. w = 2^e
  BY <1>2
<1>4. Field(r, reg, lo, hi) = w
  BY <1>1, <1>3, FieldOfOne
<1> QED BY <1>2, <1>4

\* A field of two bits.
LEMMA PairField ==
  ASSUME NEW r, NEW reg, NEW lo \in Nat, NEW hi, hi = lo + 1
  PROVE  /\ <<reg, lo>> \notin r /\ <<reg, hi>> \notin r => Field(r, reg, lo, hi) = 0
         /\ <<reg, lo>> \in r /\ <<reg, hi>> \notin r => Field(r, reg, lo, hi) = 1
         /\ <<reg, lo>> \notin r /\ <<reg, hi>> \in r => Field(r, reg, lo, hi) = 2
<1>1. \A k \in lo..hi : k = lo \/ k = hi
  OBVIOUS
<1>2. lo \in lo..hi /\ hi \in lo..hi /\ lo - lo = 0 /\ hi - lo = 1 /\ lo # hi
  OBVIOUS
<1>3. 2^0 \in Nat /\ 2^1 \in Nat /\ 2^0 = 1 /\ 2^1 = 2
  BY SmallPowers
<1>4. ASSUME <<reg, lo>> \notin r, <<reg, hi>> \notin r PROVE Field(r, reg, lo, hi) = 0
  BY <1>1, <1>4, FieldOfNone
<1>5. ASSUME <<reg, lo>> \in r, <<reg, hi>> \notin r PROVE Field(r, reg, lo, hi) = 1
  <2>1. OnlyBit(r, reg, lo, hi, lo)
    BY <1>1, <1>2, <1>5 DEF OnlyBit
  <2>2. PICK e \in Nat : e = lo - lo /\ e = 0
    BY <1>2
  <2>3. PICK w \in Nat : w = 2^e /\ w = 1
    BY <1>3, <2>2
  <2>4. e = lo - lo /\ w = 2^e
    BY <2>2, <2>3
  <2>5. Field(r, reg, lo, hi) = w
    BY <2>1, <2>4, FieldOfOne
  <2> QED BY <2>3, <2>5
<1>6. ASSUME <<reg, lo>> \notin r, <<reg, hi>> \in r PROVE Field(r, reg, lo, hi) = 2
  <2>1. OnlyBit(r, reg, lo, hi, hi)
    BY <1>1, <1>2, <1>6 DEF OnlyBit
  <2>2. PICK e \in Nat : e = hi - lo /\ e = 1
    BY <1>2
  <2>3. PICK w \in Nat : w = 2^e /\ w = 2
    BY <1>3, <2>2
  <2>4. e = hi - lo /\ w = 2^e
    BY <2>2, <2>3
  <2>5. Field(r, reg, lo, hi) = w
    BY <2>1, <2>4, FieldOfOne
  <2> QED BY <2>3, <2>5
<1> QED BY <1>4, <1>5, <1>6

------------------------------------------------------------------------------
\* What the reference clock of combo PHY i depends on, and its state.
ClockBits(i) ==
    ({PMUCLKSEL9} \X ((4 * i)..(4 * i + 3)))
      \cup ({<<"PMUPLL", 0, n>> : n \in 0..2} \X (0..31))

PhyBits(i) ==
    {<<<<"SOFTRST", 28>>, SoftRstBit(i)>>}
      \cup ({Con(i, n) : n \in 0..3} \X (0..31))
      \cup ClockBits(i)

LEMMA InWord == \A lo, hi \in 0..31 : \A b \in lo..hi : b \in 0..31
  OBVIOUS

LEMMA PhyBitNames ==
  \A i : \A x \in PhyBits(i) : x[1][1] \in {"SOFTRST", "PIPE_GRF", "PMUCLKSEL", "PMUPLL"}
<1> TAKE i
<1> TAKE x \in PhyBits(i)
<1>1. CASE x = <<<<"SOFTRST", 28>>, SoftRstBit(i)>>
  BY <1>1
<1>2. CASE x \in {Con(i, n) : n \in 0..3} \X (0..31)
  BY <1>2 DEF Con
<1>3. CASE x \in {PMUCLKSEL9} \X ((4 * i)..(4 * i + 3))
  <2>1. x[1] = PMUCLKSEL9
    BY <1>3
  <2> QED BY <2>1 DEF PMUCLKSEL9
<1>4. CASE x \in {<<"PMUPLL", 0, n>> : n \in 0..2} \X (0..31)
  BY <1>4
<1> QED BY <1>1, <1>2, <1>3, <1>4 DEF PhyBits, ClockBits

LEMMA PllKept ==
  ASSUME NEW r, NEW s, \A n \in 0..2, b \in 0..31 :
                         <<<<"PMUPLL", 0, n>>, b>> \in r <=> <<<<"PMUPLL", 0, n>>, b>> \in s
  PROVE  PmuCruGetPllRate(r, 0) = PmuCruGetPllRate(s, 0)
<1>1. \A n \in 0..2, lo \in 0..31, hi \in 0..31 :
        Field(r, <<"PMUPLL", 0, n>>, lo, hi) = Field(s, <<"PMUPLL", 0, n>>, lo, hi)
  <2> TAKE n \in 0..2, lo \in 0..31, hi \in 0..31
  <2>1. \A b \in lo..hi : b \in 0..31
    BY InWord
  <2>2. \A b \in lo..hi : <<<<"PMUPLL", 0, n>>, b>> \in r <=> <<<<"PMUPLL", 0, n>>, b>> \in s
    BY <2>1
  <2> QED BY <2>2, FieldKept
<1>2. /\ Field(r, <<"PMUPLL", 0, 1>>, 0, 5) = Field(s, <<"PMUPLL", 0, 1>>, 0, 5)
      /\ Field(r, <<"PMUPLL", 0, 1>>, 6, 8) = Field(s, <<"PMUPLL", 0, 1>>, 6, 8)
      /\ Field(r, <<"PMUPLL", 0, 0>>, 0, 11) = Field(s, <<"PMUPLL", 0, 0>>, 0, 11)
      /\ Field(r, <<"PMUPLL", 0, 0>>, 12, 14) = Field(s, <<"PMUPLL", 0, 0>>, 12, 14)
      /\ Field(r, <<"PMUPLL", 0, 2>>, 0, 23) = Field(s, <<"PMUPLL", 0, 2>>, 0, 23)
  BY <1>1
<1>3. /\ <<<<"PMUPLL", 0, 1>>, 12>> \in r <=> <<<<"PMUPLL", 0, 1>>, 12>> \in s
      /\ <<<<"PMUPLL", 0, 0>>, 15>> \in r <=> <<<<"PMUPLL", 0, 0>>, 15>> \in s
  OBVIOUS
<1> QED BY ONLY <1>2, <1>3, Zenon DEF PmuCruGetPllRate, PllOutput

LEMMA RateKept ==
  ASSUME NEW i \in 0..2, NEW r, NEW s, Keeps(ClockBits(i), r, s)
  PROVE  CruGetPciePhyClockRate(r, i) = CruGetPciePhyClockRate(s, i)
<1>3. \A b \in (4 * i)..(4 * i + 3) : <<PMUCLKSEL9, b>> \in ClockBits(i)
  BY DEF ClockBits
<1>4. \A n \in 0..2, b \in 0..31 : <<<<"PMUPLL", 0, n>>, b>> \in ClockBits(i)
  BY DEF ClockBits
<1>7. \A b \in (4 * i)..(4 * i + 3) : <<PMUCLKSEL9, b>> \in r <=> <<PMUCLKSEL9, b>> \in s
  BY <1>3 DEF Keeps
<1>8. <<PMUCLKSEL9, 4 * i + 3>> \in r <=> <<PMUCLKSEL9, 4 * i + 3>> \in s
  BY <1>7
<1>9. Field(r, PMUCLKSEL9, 4 * i, 4 * i + 2) = Field(s, PMUCLKSEL9, 4 * i, 4 * i + 2)
  <2>1. \A b \in (4 * i)..(4 * i + 2) : b \in (4 * i)..(4 * i + 3)
    OBVIOUS
  <2> QED BY <1>7, <2>1, FieldKept
<1>10. PmuCruGetPllRate(r, 0) = PmuCruGetPllRate(s, 0)
  BY <1>4, PllKept DEF Keeps
<1>11. CruGetPciePhyClockRate(r, i) = CruGetPciePhyClockRate(s, i)
  BY ONLY <1>8, <1>9, <1>10, Zenon DEF CruGetPciePhyClockRate, PMUCRU_PPLL
<1> QED BY <1>11

LEMMA PhyServesKept ==
  ASSUME NEW i \in 0..2, NEW r, NEW s, Keeps(PhyBits(i), r, s), NEW mode
  PROVE  PhyServes(r, i, mode) <=> PhyServes(s, i, mode)
<1>1. <<<<"SOFTRST", 28>>, SoftRstBit(i)>> \in PhyBits(i)
  BY DEF PhyBits
<1>2. \A n \in 0..3, b \in 0..31 : <<Con(i, n), b>> \in PhyBits(i)
  BY DEF PhyBits
<1>5. InReset(r, 28, SoftRstBit(i)) <=> InReset(s, 28, SoftRstBit(i))
  BY <1>1 DEF Keeps, InReset
<1>6. /\ Field(r, Con(i, 0), 2, 3) = Field(s, Con(i, 0), 2, 3)
      /\ Field(r, Con(i, 3), 13, 14) = Field(s, Con(i, 3), 13, 14)
      /\ Field(r, Con(i, 1), 13, 14) = Field(s, Con(i, 1), 13, 14)
  <2>1. \A n \in 0..3, b \in 0..31 : <<Con(i, n), b>> \in r <=> <<Con(i, n), b>> \in s
    BY <1>2 DEF Keeps
  <2>2. (\A b \in 2..3 : b \in 0..31) /\ (\A b \in 13..14 : b \in 0..31)
    OBVIOUS
  <2>3. /\ \A b \in 2..3 : <<Con(i, 0), b>> \in r <=> <<Con(i, 0), b>> \in s
        /\ \A b \in 13..14 : <<Con(i, 3), b>> \in r <=> <<Con(i, 3), b>> \in s
        /\ \A b \in 13..14 : <<Con(i, 1), b>> \in r <=> <<Con(i, 1), b>> \in s
    BY <2>1, <2>2
  <2> QED BY <2>3, FieldKept
<1>11. CruGetPciePhyClockRate(r, i) = CruGetPciePhyClockRate(s, i)
  <2>1. Keeps(ClockBits(i), r, s)
    BY DEF Keeps, PhyBits
  <2> QED BY <2>1, RateKept
<1>12. PhyServes(r, i, mode) <=> PhyServes(s, i, mode)
  BY ONLY <1>5, <1>6, <1>11, Zenon DEF PhyServes
<1> QED BY <1>12

\* The registers that setting up PHY i writes.
PhyApart(W, i) ==
    /\ \A x \in W : x[1][1] # "PIPE_PHY"
    /\ \A n \in 0..3, b \in 0..31 : <<Con(i, n), b>> \notin W
    /\ <<<<"SOFTRST", 28>>, SoftRstBit(i)>> \notin W
    /\ <<PMUCLKSEL9, 4 * i + 3>> \notin W

LEMMA ConKeeps ==
  ASSUME NEW i, NEW W, PhyApart(W, i), NEW r, NEW n \in 0..3, NEW mask \in SUBSET (0..31), NEW bits
  PROVE  Keeps(W, r, HiwordWrite(r, Con(i, n), mask, bits))
<1>1. \A b \in mask : <<Con(i, n), b>> \notin W
  BY DEF PhyApart
<1> QED BY <1>1, HiwordKeeps

LEMMA PhyKeeps ==
  ASSUME NEW i, NEW W, PhyApart(W, i), NEW r, NEW n, NEW clear, NEW bits
  PROVE  /\ Keeps(W, r, MmioAndThenOr(r, Phy(i, n), clear, bits))
         /\ Keeps(W, r, MmioWrite(r, Phy(i, n), bits))
<1>1. Phy(i, n)[1] = "PIPE_PHY"
  BY DEF Phy
<1>2. /\ \A x \in W : x[1] # Phy(i, n)
      /\ \A b : <<Phy(i, n), b>> \notin W
  BY <1>1, OtherRegister DEF PhyApart
<1> QED BY <1>2, WriteKeeps, AndThenOrKeeps

LEMMA ClkSelKeeps ==
  ASSUME NEW i, NEW W, PhyApart(W, i), NEW r, NEW rate
  PROVE  Keeps(W, r, SetClkSel(r, i, rate))
<1>1. 13..14 \in SUBSET (0..31)
  OBVIOUS
<1> QED BY <1>1, ConKeeps DEF SetClkSel

LEMMA Masks == \A m, n \in 0..31 : m..n \in SUBSET (0..31) /\ {m, n} \in SUBSET (0..31)
  OBVIOUS

LEMMA PcieKeeps ==
  ASSUME NEW i, NEW W, PhyApart(W, i), NEW r
  PROVE  Keeps(W, r, MultiPhySetModePcie(r, i).regs)
<1> DEFINE ssc  == MmioAndThenOr(r, Phy(i, 32), 4..7, {4})
           con0 == HiwordWrite(ssc, Con(i, 0), 0..15, {12})
           con1 == HiwordWrite(con0, Con(i, 1), 0..15, {})
           con2 == HiwordWrite(con1, Con(i, 2), 0..15, {0, 8})
           con3 == HiwordWrite(con2, Con(i, 3), 0..15, {9})
           rate == CruGetPciePhyClockRate(con3, i)
           m33  == MmioAndThenOr(con3, Phy(i, 33), 2..4, {3})
           m12  == MmioWrite(m33, Phy(i, 12), {2})
           m06  == MmioAndThenOr(m12, Phy(i, 6), 6..7, {6})
           m18  == MmioWrite(m06, Phy(i, 18), {1, 4, 5})
           m11  == MmioWrite(m18, Phy(i, 11), 4..7)
<1>1. MultiPhySetModePcie(r, i).regs \in
        {con3, SetClkSel(m11, i, rate), SetClkSel(con3, i, rate)}
  BY DEF MultiPhySetModePcie
<1>2. Keeps(W, r, ssc)
  BY PhyKeeps
<1> HIDE DEF ssc
<1>3. Keeps(W, ssc, con0)
  BY ConKeeps, Masks
<1> HIDE DEF con0
<1>4. Keeps(W, con0, con1)
  BY ConKeeps, Masks
<1> HIDE DEF con1
<1>5. Keeps(W, con1, con2)
  BY ConKeeps, Masks
<1> HIDE DEF con2
<1>6. Keeps(W, con2, con3)
  BY ConKeeps, Masks
<1> HIDE DEF con3, rate
<1>7. Keeps(W, con3, m33)
  BY PhyKeeps
<1> HIDE DEF m33
<1>8. Keeps(W, m33, m12)
  BY PhyKeeps
<1> HIDE DEF m12
<1>9. Keeps(W, m12, m06)
  BY PhyKeeps
<1> HIDE DEF m06
<1>10. Keeps(W, m06, m18)
  BY PhyKeeps
<1> HIDE DEF m18
<1>11. Keeps(W, m18, m11)
  BY PhyKeeps
<1> HIDE DEF m11
<1>12. Keeps(W, r, con3)
  BY <1>2, <1>3, <1>4, <1>5, <1>6 DEF Keeps
<1>13. Keeps(W, r, m11)
  BY <1>7, <1>8, <1>9, <1>10, <1>11, <1>12 DEF Keeps
<1>14. Keeps(W, r, SetClkSel(m11, i, rate)) /\ Keeps(W, r, SetClkSel(con3, i, rate))
  BY <1>12, <1>13, ClkSelKeeps, KeepsChain
<1> QED BY <1>1, <1>12, <1>14

\* What setting a PHY to USB3 comes to: a state in which the clock can be used,
\* the same with registers of the PHY itself written, and the clock's rate.
IsUsb3Result(i, r, src, m16, rate) ==
    /\ rate \in DOMAIN PhyClkSel /\ rate = CruGetPciePhyClockRate(src, i)
    /\ MultiPhySetModeUsb3(r, i) =
         [regs |-> SetClkSel(IF rate = 24000 THEN m16 ELSE src, i, rate),
          status |-> EFI_SUCCESS]
    /\ <<Con(i, 3), 13>> \in src /\ <<Con(i, 3), 14>> \notin src
    /\ <<Con(i, 0), 2>> \in src /\ <<Con(i, 0), 3>> \notin src
    /\ \A W : (\A x \in W : x[1][1] # "PIPE_PHY") => Keeps(W, src, m16)
    /\ \A W : PhyApart(W, i) => Keeps(W, r, src) /\ Keeps(W, r, m16)

LEMMA Usb3Result ==
  ASSUME NEW i \in 0..2, NEW r
  PROVE  \E src, m16, rate : IsUsb3Result(i, r, src, m16, rate)
<1> DEFINE ssc  == MmioAndThenOr(r, Phy(i, 32), 4..5, {4})
           ctle == MmioAndThenOr(ssc, Phy(i, 15), {}, {0})
           con3 == HiwordWrite(ctle, Con(i, 3), 13..14, {13})
           con2 == HiwordWrite(con3, Con(i, 2), {12, 15}, {})
           con0 == HiwordWrite(con2, Con(i, 0), 0..5, {0, 2})
           src  == Usb3Clock(con0, i)
           rate == CruGetPciePhyClockRate(src, i)
           m15  == MmioAndThenOr(src, Phy(i, 15), 6..7, {6})
           m16  == MmioAndThenOr(m15, Phy(i, 16), 0..7, (0..4) \cup {6})
<1>1. rate \in DOMAIN PhyClkSel
  <2> HIDE DEF con0
  <2>1. CASE CruGetPciePhyClockRate(con0, i) \in DOMAIN PhyClkSel
    BY <2>1 DEF Usb3Clock
  <2>2. CASE CruGetPciePhyClockRate(con0, i) \notin DOMAIN PhyClkSel
    <3>1. src = HiwordWrite(con0, PMUCLKSEL9, {4 * i + 3}, Bits(0, 4 * i + 3))
      BY <2>2 DEF Usb3Clock, CruSetPciePhySource
    <3>2. Bits(0, 4 * i + 3) = {}
      BY SmallNumbers
    <3> HIDE DEF src
    <3>3. <<PMUCLKSEL9, 4 * i + 3>> \notin src
      BY <3>1, <3>2, HiwordBits
    <3>4. CruGetPciePhyClockRate(src, i) = 24000
      BY <3>3 DEF CruGetPciePhyClockRate, CRU_CLKREF_RATE
    <3> QED BY <3>4 DEF PhyClkSel
  <2> QED BY <2>1, <2>2
<1>2. MultiPhySetModeUsb3(r, i) =
        [regs |-> SetClkSel(IF rate = 24000 THEN m16 ELSE src, i, rate),
         status |-> EFI_SUCCESS]
  BY <1>1 DEF MultiPhySetModeUsb3
<1>3. <<Con(i, 3), 13>> \in con3 /\ <<Con(i, 3), 14>> \notin con3
  <2> HIDE DEF ctle
  <2>1. 13 \in 13..14 /\ 14 \in 13..14 /\ 14 \notin {13}
    OBVIOUS
  <2> QED BY <2>1, HiwordBits
<1>4. <<Con(i, 0), 2>> \in con0 /\ <<Con(i, 0), 3>> \notin con0
  <2> HIDE DEF con2
  <2>1. 2 \in 0..5 /\ 3 \in 0..5 /\ 2 \in {0, 2} /\ 3 \notin {0, 2}
    OBVIOUS
  <2> QED BY <2>1, HiwordBits
<1>5. /\ \A W : (\A x \in W : x[1][1] # "PIPE_PHY") => Keeps(W, r, ssc) /\ Keeps(W, ssc, ctle)
                                                        /\ Keeps(W, src, m15) /\ Keeps(W, m15, m16)
  <2>1. \A n : Phy(i, n)[1] = "PIPE_PHY"
    BY DEF Phy
  <2>2. \A W, n : (\A x \in W : x[1][1] # "PIPE_PHY") => \A b : <<Phy(i, n), b>> \notin W
    BY <2>1, OtherRegister
  <2> HIDE DEF src
  <2> QED BY <2>2, AndThenOrKeeps
<1>6. \A W : PhyApart(W, i) => Keeps(W, ctle, con3) /\ Keeps(W, con3, con2) /\ Keeps(W, con2, con0)
  <2>1. 13..14 \in SUBSET (0..31) /\ {12, 15} \in SUBSET (0..31) /\ 0..5 \in SUBSET (0..31)
    BY Masks
  <2> HIDE DEF ctle
  <2> QED BY <2>1, ConKeeps
<1>7. \A W : <<PMUCLKSEL9, 4 * i + 3>> \notin W => Keeps(W, con0, src)
  <2> HIDE DEF con0
  <2> TAKE W
  <2> HAVE <<PMUCLKSEL9, 4 * i + 3>> \notin W
  <2>1. Keeps(W, con0, CruSetPciePhySource(con0, i, 0))
    BY HiwordKeeps DEF CruSetPciePhySource
  <2> QED BY <2>1, KeepsItself DEF Usb3Clock
<1> HIDE DEF ssc, ctle, con3, con2, con0, src, m15, m16, rate
<1>8. <<Con(i, 3), 13>> \in src /\ <<Con(i, 3), 14>> \notin src
  <2> DEFINE W == {<<Con(i, 3), 13>>, <<Con(i, 3), 14>>}
  <2>1. \A n : Con(i, 3) # Con(i, 0) /\ Con(i, 3) # Con(i, 2) /\ Con(i, 3) # PMUCLKSEL9
    BY DEF Con, PMUCLKSEL9
  <2>2. /\ \A b : <<Con(i, 0), b>> \notin W
        /\ \A b : <<Con(i, 2), b>> \notin W
        /\ \A b : <<PMUCLKSEL9, b>> \notin W
    BY <2>1
  <2> HIDE DEF W
  <2>3. Keeps(W, con3, con2) /\ Keeps(W, con2, con0)
    BY <2>2, HiwordKeeps DEF con2, con0
  <2>4. Keeps(W, con0, src)
    BY <1>7, <2>2
  <2> QED BY <1>3, <2>3, <2>4 DEF Keeps, W
<1>9. <<Con(i, 0), 2>> \in src /\ <<Con(i, 0), 3>> \notin src
  <2> DEFINE W == {<<Con(i, 0), 2>>, <<Con(i, 0), 3>>}
  <2>1. Con(i, 0) # PMUCLKSEL9
    BY DEF Con, PMUCLKSEL9
  <2>2. Keeps(W, con0, src)
    BY <1>7, <2>1
  <2> QED BY <1>4, <2>2 DEF Keeps
<1>10. \A W : PhyApart(W, i) => Keeps(W, r, src)
  BY <1>5, <1>6, <1>7 DEF PhyApart, Keeps
<1>11. \A W : (\A x \in W : x[1][1] # "PIPE_PHY") => Keeps(W, src, m16)
  BY <1>5 DEF Keeps
<1>12. \A W : PhyApart(W, i) => Keeps(W, r, m16)
  BY <1>10, <1>11, KeepsChain DEF PhyApart
<1>13. rate = CruGetPciePhyClockRate(src, i)
  BY DEF rate
<1>14. \A W : PhyApart(W, i) => Keeps(W, r, src) /\ Keeps(W, r, m16)
  BY <1>10, <1>12
<1>15. IsUsb3Result(i, r, src, m16, rate)
  BY ONLY <1>1, <1>2, <1>8, <1>9, <1>11, <1>13, <1>14 DEF IsUsb3Result
<1> QED BY ONLY <1>15

LEMMA Usb3Keeps ==
  ASSUME NEW i \in 0..2, NEW W, PhyApart(W, i), NEW r
  PROVE  Keeps(W, r, MultiPhySetModeUsb3(r, i).regs)
<1>1. PICK src, m16, rate : IsUsb3Result(i, r, src, m16, rate)
  BY Usb3Result
<1>2. Keeps(W, src, SetClkSel(src, i, rate)) /\ Keeps(W, m16, SetClkSel(m16, i, rate))
  BY ClkSelKeeps
<1>3. Keeps(W, r, src) /\ Keeps(W, r, m16)
  BY <1>1 DEF IsUsb3Result
<1>4. MultiPhySetModeUsb3(r, i).regs \in {SetClkSel(src, i, rate), SetClkSel(m16, i, rate)}
  BY <1>1 DEF IsUsb3Result
<1> QED BY <1>2, <1>3, <1>4, KeepsChain

LEMMA ResetKeeps ==
  ASSUME NEW W, NEW r, NEW n, NEW b, <<<<"SOFTRST", n>>, b>> \notin W
  PROVE  Keeps(W, r, CruAssertSoftReset(r, n, b)) /\ Keeps(W, r, CruDeassertSoftReset(r, n, b))
  BY HiwordKeeps DEF CruAssertSoftReset, CruDeassertSoftReset

LEMMA SetModeKeeps ==
  ASSUME NEW i \in 0..2, NEW W, PhyApart(W, i), NEW r, NEW mode
  PROVE  Keeps(W, r, MultiPhySetMode(r, i, mode).regs)
<1> DEFINE held == CruAssertSoftReset(r, 28, SoftRstBit(i))
           set  == IF mode = "PCIE" THEN MultiPhySetModePcie(held, i)
                                    ELSE MultiPhySetModeUsb3(held, i)
<1>1. MultiPhySetMode(r, i, mode).regs \in
        {set.regs, CruDeassertSoftReset(set.regs, 28, SoftRstBit(i))}
  <2>1. set = [regs |-> set.regs, status |-> set.status]
    <3>1. PICK src, m16, rate : IsUsb3Result(i, held, src, m16, rate)
      <4> HIDE DEF held
      <4> QED BY Usb3Result
    <3>2. MultiPhySetModePcie(held, i) = [regs |-> MultiPhySetModePcie(held, i).regs,
                                          status |-> MultiPhySetModePcie(held, i).status]
      BY DEF MultiPhySetModePcie
    <3>3. MultiPhySetModeUsb3(held, i) = [regs |-> MultiPhySetModeUsb3(held, i).regs,
                                          status |-> MultiPhySetModeUsb3(held, i).status]
      BY <3>1 DEF IsUsb3Result
    <3> QED BY <3>2, <3>3
  <2>2. MultiPhySetMode(r, i, mode) =
          IF set.status # EFI_SUCCESS THEN set
          ELSE [set EXCEPT !.regs = CruDeassertSoftReset(@, 28, SoftRstBit(i))]
    BY DEF MultiPhySetMode
  <2> HIDE DEF set
  <2> QED BY <2>1, <2>2
<1>2. Keeps(W, r, held)
  BY ResetKeeps DEF PhyApart
<1> HIDE DEF held
<1>3. Keeps(W, held, set.regs)
  BY PcieKeeps, Usb3Keeps
<1> HIDE DEF set
<1>4. Keeps(W, set.regs, CruDeassertSoftReset(set.regs, 28, SoftRstBit(i)))
  BY ResetKeeps DEF PhyApart
<1> QED BY <1>1, <1>2, <1>3, <1>4, KeepsChain

LEMMA ClockSelected ==
  ASSUME NEW i \in 0..2, NEW r, NEW rate \in DOMAIN PhyClkSel
  PROVE  Field(SetClkSel(r, i, rate), Con(i, 1), 13, 14) = PhyClkSel[rate]
<1> DEFINE s == SetClkSel(r, i, rate)
<1>1. PhyClkSel[rate] \in 0..2
  BY DEF PhyClkSel
<1>2. s = HiwordWrite(r, Con(i, 1), 13..14, Bits(PhyClkSel[rate], 13))
  BY DEF SetClkSel
<1>3. /\ <<Con(i, 1), 13>> \in s <=> 13 \in Bits(PhyClkSel[rate], 13)
      /\ <<Con(i, 1), 14>> \in s <=> 14 \in Bits(PhyClkSel[rate], 13)
  <2>1. 13 \in 13..14 /\ 14 \in 13..14
    OBVIOUS
  <2> QED BY <1>2, <2>1, HiwordBits
<1> HIDE DEF s
<1>4. Bits(0, 13) = {} /\ Bits(1, 13) = {13} /\ Bits(2, 13) = {14}
  BY SmallNumbers
<1>5. /\ <<Con(i, 1), 13>> \notin s /\ <<Con(i, 1), 14>> \notin s => Field(s, Con(i, 1), 13, 14) = 0
      /\ <<Con(i, 1), 13>> \in s /\ <<Con(i, 1), 14>> \notin s => Field(s, Con(i, 1), 13, 14) = 1
      /\ <<Con(i, 1), 13>> \notin s /\ <<Con(i, 1), 14>> \in s => Field(s, Con(i, 1), 13, 14) = 2
  BY PairField
<1>6. CASE PhyClkSel[rate] = 0
  BY <1>3, <1>4, <1>5, <1>6 DEF s
<1>7. CASE PhyClkSel[rate] = 1
  BY <1>3, <1>4, <1>5, <1>7 DEF s
<1>8. CASE PhyClkSel[rate] = 2
  BY <1>3, <1>4, <1>5, <1>8 DEF s
<1> QED BY <1>1, <1>6, <1>7, <1>8

\* A PHY set to USB3 runs: the crystal serves where its clock does not.
LEMMA Usb3Serves ==
  ASSUME NEW i \in 0..2, NEW r
  PROVE  PhyServes(MultiPhySetMode(r, i, "USB3").regs, i, "USB3")
<1> DEFINE held == CruAssertSoftReset(r, 28, SoftRstBit(i))
<1>0. PICK src, m16, rate : IsUsb3Result(i, held, src, m16, rate)
  <2> HIDE DEF held
  <2> QED BY Usb3Result
<1>1. /\ rate \in DOMAIN PhyClkSel /\ rate = CruGetPciePhyClockRate(src, i)
      /\ MultiPhySetModeUsb3(held, i) =
           [regs |-> SetClkSel(IF rate = 24000 THEN m16 ELSE src, i, rate),
            status |-> EFI_SUCCESS]
      /\ <<Con(i, 3), 13>> \in src /\ <<Con(i, 3), 14>> \notin src
      /\ <<Con(i, 0), 2>> \in src /\ <<Con(i, 0), 3>> \notin src
      /\ \A W : (\A x \in W : x[1][1] # "PIPE_PHY") => Keeps(W, src, m16)
  BY <1>0 DEF IsUsb3Result
<1> DEFINE base == IF rate = 24000 THEN m16 ELSE src
           sel  == SetClkSel(base, i, rate)
           s    == CruDeassertSoftReset(sel, 28, SoftRstBit(i))
           W    == PhyBits(i) \ ({<<<<"SOFTRST", 28>>, SoftRstBit(i)>>} \cup ({Con(i, 1)} \X (13..14)))
<1>2. MultiPhySetMode(r, i, "USB3").regs = s
  BY <1>1 DEF MultiPhySetMode
<1>3. Keeps(W, src, base)
  <2>1. \A x \in W : x[1][1] # "PIPE_PHY"
    BY PhyBitNames
  <2> HIDE DEF W
  <2> QED BY <1>1, <2>1, KeepsItself
<1> HIDE DEF base
<1>4. Keeps(W, base, sel)
  <2>1. \A b \in 13..14 : <<Con(i, 1), b>> \notin W
    OBVIOUS
  <2> HIDE DEF W
  <2> QED BY <2>1, HiwordKeeps DEF SetClkSel
<1>5. Field(sel, Con(i, 1), 13, 14) = PhyClkSel[rate]
  BY <1>1, ClockSelected
<1> HIDE DEF sel
<1>6. Keeps(W, sel, s) /\ \A b : <<Con(i, 1), b>> \in sel <=> <<Con(i, 1), b>> \in s
  <2>1. <<<<"SOFTRST", 28>>, SoftRstBit(i)>> \notin W
    OBVIOUS
  <2>2. \A b : <<Con(i, 1), b>> # <<<<"SOFTRST", 28>>, SoftRstBit(i)>>
    BY DEF Con
  <2>3. \A V : <<<<"SOFTRST", 28>>, SoftRstBit(i)>> \notin V => Keeps(V, sel, s)
    BY ResetKeeps
  <2> HIDE DEF W, s
  <2>4. ASSUME NEW b PROVE <<Con(i, 1), b>> \in sel <=> <<Con(i, 1), b>> \in s
    <3>1. Keeps({<<Con(i, 1), b>>}, sel, s)
      BY <2>2, <2>3
    <3> QED BY <3>1 DEF Keeps
  <2> QED BY <2>1, <2>3, <2>4
<1>7. <<<<"SOFTRST", 28>>, SoftRstBit(i)>> \notin s
  BY HiwordBits DEF CruDeassertSoftReset
<1> HIDE DEF s
<1>8. Keeps(W, src, s)
  BY <1>3, <1>4, <1>6, KeepsChain
<1>9. /\ <<Con(i, 3), 13>> \in s /\ <<Con(i, 3), 14>> \notin s
      /\ <<Con(i, 0), 2>> \in s /\ <<Con(i, 0), 3>> \notin s
  <2>1. \A n \in {0, 3}, b \in 0..31 : <<Con(i, n), b>> \in W
    BY DEF PhyBits, Con
  <2>2. \A n \in {0, 3}, b \in 0..31 : <<Con(i, n), b>> \in src <=> <<Con(i, n), b>> \in s
    BY <1>8, <2>1 DEF Keeps
  <2> HIDE DEF W
  <2> QED BY <1>1, <2>2
<1>10. CruGetPciePhyClockRate(src, i) = CruGetPciePhyClockRate(s, i)
  <2>1. ClockBits(i) \subseteq W
    BY DEF ClockBits, PhyBits, Con, PMUCLKSEL9
  <2> HIDE DEF W
  <2>2. Keeps(ClockBits(i), src, s)
    BY <1>8, <2>1 DEF Keeps
  <2> QED BY <2>2, RateKept
<1>11. Field(s, Con(i, 1), 13, 14) = PhyClkSel[rate]
  BY <1>5, <1>6, FieldKept
<1>12. Field(s, Con(i, 3), 13, 14) = 1 /\ Field(s, Con(i, 0), 2, 3) = 1
  BY <1>9, PairField
<1>13. ~InReset(s, 28, SoftRstBit(i))
  BY <1>7 DEF InReset
<1> QED BY <1>1, <1>2, <1>10, <1>11, <1>12, <1>13 DEF PhyServes

------------------------------------------------------------------------------
(* Starting a USB controller. *)

LEMMA AndThenOrBits ==
  ASSUME NEW r, NEW reg, NEW clear, NEW bits, NEW b
  PROVE  <<reg, b>> \in MmioAndThenOr(r, reg, clear, bits)
           <=> b \in bits \/ (b \notin clear /\ <<reg, b>> \in r)
  BY DEF MmioAndThenOr

\* Bits that are zero stay so where they are not set.
LEMMA StaysClear ==
  ASSUME NEW V, NEW r, NEW reg, NEW clear, NEW bits,
         \A x \in V : x \notin r, \A b \in bits : <<reg, b>> \notin V
  PROVE  \A x \in V : x \notin MmioAndThenOr(r, reg, clear, bits)
<1>1. \A x \in V : x \notin {reg} \X bits
  OBVIOUS
<1> QED BY <1>1 DEF MmioAndThenOr

LEMMA Dwc3Names ==
  ASSUME NEW i
  PROVE  /\ Dwc3(i, "GCtl") # Dwc3(i, "GUsb2PhyCfg")
         /\ Dwc3(i, "GCtl") # Dwc3(i, "GUsb3PipeCtl")
         /\ Dwc3(i, "GUsb2PhyCfg") # Dwc3(i, "GUsb3PipeCtl")
         /\ \A n \in {"GFLAdj", "GUctl1", "DCfg", "GSBusCfg0", "GSBusCfg1"} :
              /\ Dwc3(i, n) # Dwc3(i, "GCtl") /\ Dwc3(i, n) # Dwc3(i, "GUsb2PhyCfg")
              /\ Dwc3(i, n) # Dwc3(i, "GUsb3PipeCtl")
  BY DEF Dwc3

\* The bits that hold the core and its PHYs.
HeldBits(i) == {<<Dwc3(i, "GCtl"), 11>>, <<Dwc3(i, "GUsb2PhyCfg"), 31>>,
                <<Dwc3(i, "GUsb3PipeCtl"), 31>>}

\* The registers of a controller.
Dwc3Apart(W, i) == \A x \in W : \A n : x[1] # Dwc3(i, n)

LEMMA Dwc3Write ==
  ASSUME NEW i, NEW W, Dwc3Apart(W, i), NEW r, NEW n, NEW clear, NEW bits
  PROVE  Keeps(W, r, MmioAndThenOr(r, Dwc3(i, n), clear, bits))
<1>1. \A b : <<Dwc3(i, n), b>> \notin W
  <2> SUFFICES ASSUME NEW b, <<Dwc3(i, n), b>> \in W PROVE FALSE
    OBVIOUS
  <2> DEFINE x == <<Dwc3(i, n), b>>
  <2>1. x[1] = Dwc3(i, n)
    OBVIOUS
  <2> QED BY <2>1 DEF Dwc3Apart
<1> QED BY <1>1, AndThenOrKeeps

LEMMA SoftReset ==
  ASSUME NEW i, NEW r
  PROVE  /\ \A x \in HeldBits(i) : x \notin Dwc3CoreSoftReset(r, i)
         /\ \A W : Dwc3Apart(W, i) => Keeps(W, r, Dwc3CoreSoftReset(r, i))
<1> DEFINE a == Set(r, i, "GCtl", {11})
           b == Set(a, i, "GUsb3PipeCtl", {31})
           c == Set(b, i, "GUsb2PhyCfg", {31})
           d == Clear(c, i, "GUsb3PipeCtl", {31})
           e == Clear(d, i, "GUsb2PhyCfg", {31})
           f == Clear(e, i, "GCtl", {11})
<1>1. f = Dwc3CoreSoftReset(r, i)
  BY DEF Dwc3CoreSoftReset
<1>2. \A W : Dwc3Apart(W, i) => Keeps(W, r, a)
  BY Dwc3Write DEF Set
<1> HIDE DEF a
<1>3. \A W : Dwc3Apart(W, i) => Keeps(W, a, b)
  BY Dwc3Write DEF Set
<1> HIDE DEF b
<1>4. \A W : Dwc3Apart(W, i) => Keeps(W, b, c)
  BY Dwc3Write DEF Set
<1> HIDE DEF c
<1>5. \A W : Dwc3Apart(W, i) => Keeps(W, c, d)
  BY Dwc3Write DEF Clear
<1>6. <<Dwc3(i, "GUsb3PipeCtl"), 31>> \notin d
  BY AndThenOrBits DEF Clear
<1> HIDE DEF d
<1>7. \A W : Dwc3Apart(W, i) => Keeps(W, d, e)
  BY Dwc3Write DEF Clear
<1>8. <<Dwc3(i, "GUsb2PhyCfg"), 31>> \notin e
  BY AndThenOrBits DEF Clear
<1>9. <<Dwc3(i, "GUsb3PipeCtl"), 31>> \notin e
  <2>1. \A x \in {<<Dwc3(i, "GUsb3PipeCtl"), 31>>} : x \notin e
    BY <1>6, StaysClear DEF Clear
  <2> QED BY <2>1
<1> HIDE DEF e
<1>10. \A W : Dwc3Apart(W, i) => Keeps(W, e, f)
  BY Dwc3Write DEF Clear
<1>11. <<Dwc3(i, "GCtl"), 11>> \notin f
  BY AndThenOrBits DEF Clear
<1>12. \A x \in {<<Dwc3(i, "GUsb3PipeCtl"), 31>>, <<Dwc3(i, "GUsb2PhyCfg"), 31>>} : x \notin f
  BY <1>8, <1>9, StaysClear DEF Clear
<1> HIDE DEF f
<1>13. \A W : Dwc3Apart(W, i) => Keeps(W, r, f)
  BY <1>2, <1>3, <1>4, <1>5, <1>7, <1>10 DEF Keeps
<1> QED BY <1>1, <1>11, <1>12, <1>13 DEF HeldBits

HostBits(i) == {<<Dwc3(i, "GCtl"), 12>>, <<Dwc3(i, "GCtl"), 13>>}

\* A started controller.
XhciRuns(i, s) ==
    /\ \A x \in HeldBits(i) : x \notin s
    /\ <<Dwc3(i, "GCtl"), 12>> \in s /\ <<Dwc3(i, "GCtl"), 13>> \notin s

LEMMA XhciStarted ==
  ASSUME NEW i, NEW r
  PROVE  LET s == XhciSetBeatBurstLength(XhciCoreInit(r, i), i)
         IN  /\ XhciRuns(i, s)
             /\ \A W : Dwc3Apart(W, i) => Keeps(W, r, s)
<1> DEFINE V     == HeldBits(i)
           reset == Dwc3CoreSoftReset(r, i)
           gating == IF Field(reset, Dwc3(i, "GHwParams1"), 24, 25) = 1 THEN {0} ELSE {}
           u2rst  == IF Field(reset, Dwc3(i, "GSnpsId"), 0, 15) < 6410 THEN {16} ELSE {}
           a == MmioAndThenOr(reset, Dwc3(i, "GCtl"), {3, 4, 5} \cup gating, u2rst)
           b == MmioAndThenOr(a, Dwc3(i, "GCtl"), {12, 13}, {12})
           c == MmioAndThenOr(b, Dwc3(i, "GFLAdj"), {}, {5, 7})
           d == MmioAndThenOr(c, Dwc3(i, "GUsb2PhyCfg"), 10..13, {10, 12, 3})
           e == MmioAndThenOr(d, Dwc3(i, "GUsb2PhyCfg"), {0, 6, 30}, {})
           f == MmioAndThenOr(e, Dwc3(i, "GUsb3PipeCtl"), {18}, {})
           g == MmioAndThenOr(f, Dwc3(i, "GUctl1"), {}, {28})
           h == MmioAndThenOr(g, Dwc3(i, "DCfg"), 0..2, {2})
           k == MmioAndThenOr(h, Dwc3(i, "GSBusCfg0"), 0..7, 0..3)
           s == MmioAndThenOr(k, Dwc3(i, "GSBusCfg1"), {}, 8..11)
           Free(t) == \A x \in V : x \notin t
           Host(t) == <<Dwc3(i, "GCtl"), 12>> \in t /\ <<Dwc3(i, "GCtl"), 13>> \notin t
           Apart(t, u) == \A W : Dwc3Apart(W, i) => Keeps(W, t, u)
<1>1. s = XhciSetBeatBurstLength(XhciCoreInit(r, i), i)
  BY DEF XhciSetBeatBurstLength, XhciCoreInit, Dwc3SetFladj, Dwc3SetMode, Dwc3CoreInit, Set, Clear
<1>2. /\ \A t, n, clear, bits : Apart(t, MmioAndThenOr(t, Dwc3(i, n), clear, bits))
  BY Dwc3Write
<1>3. ASSUME NEW t, Free(t), NEW n, NEW clear, NEW bits,
             n \notin {"GCtl", "GUsb2PhyCfg", "GUsb3PipeCtl"}
      PROVE  Free(MmioAndThenOr(t, Dwc3(i, n), clear, bits))
  <2>1. \A x \in bits : <<Dwc3(i, n), x>> \notin V
    BY <1>3 DEF HeldBits, Dwc3
  <2> HIDE DEF V
  <2> QED BY <1>3, <2>1, StaysClear
<1>4. ASSUME NEW t, Host(t), NEW n, n # "GCtl", NEW clear, NEW bits
      PROVE  Host(MmioAndThenOr(t, Dwc3(i, n), clear, bits))
  <2>1. \A x \in bits \cup clear : <<Dwc3(i, n), x>> \notin HostBits(i)
    BY <1>4 DEF HostBits, Dwc3
  <2>2. Keeps(HostBits(i), t, MmioAndThenOr(t, Dwc3(i, n), clear, bits))
    BY <2>1, AndThenOrKeeps
  <2> QED BY <1>4, <2>2 DEF Keeps, HostBits
<1>5. Free(reset) /\ Apart(r, reset)
  BY SoftReset
<1>6. Free(a) /\ Apart(reset, a)
  <2>1. \A x \in u2rst : <<Dwc3(i, "GCtl"), x>> \notin V
    BY Dwc3Names DEF HeldBits
  <2> HIDE DEF V, reset, u2rst
  <2> QED BY <1>2, <1>5, <2>1, StaysClear
<1> HIDE DEF a
<1>7. Free(b) /\ Apart(a, b)
  <2>1. \A x \in {12} : <<Dwc3(i, "GCtl"), x>> \notin V
    BY Dwc3Names DEF HeldBits
  <2> HIDE DEF V
  <2> QED BY <1>2, <1>6, <2>1, StaysClear
<1>8. Host(b)
  BY AndThenOrBits
<1> HIDE DEF b
<1>9. Free(c) /\ Host(c) /\ Apart(b, c)
  BY <1>2, <1>3, <1>4, <1>7, <1>8
<1> HIDE DEF c
<1>10. Free(d) /\ Apart(c, d)
  <2>1. \A x \in {10, 12, 3} : <<Dwc3(i, "GUsb2PhyCfg"), x>> \notin V
    BY Dwc3Names DEF HeldBits
  <2> HIDE DEF V
  <2> QED BY <1>2, <1>9, <2>1, StaysClear
<1>11. Host(d)
  BY <1>4, <1>9
<1> HIDE DEF d
<1>12. Free(e) /\ Apart(d, e)
  <2> HIDE DEF V
  <2> QED BY <1>2, <1>10, StaysClear
<1>13. Host(e)
  BY <1>4, <1>11
<1> HIDE DEF e
<1>14. Free(f) /\ Apart(e, f)
  <2> HIDE DEF V
  <2> QED BY <1>2, <1>12, StaysClear
<1>15. Host(f)
  BY <1>4, <1>13
<1> HIDE DEF f
<1>16. Free(g) /\ Host(g) /\ Apart(f, g)
  BY <1>2, <1>3, <1>4, <1>14, <1>15
<1> HIDE DEF g
<1>17. Free(h) /\ Host(h) /\ Apart(g, h)
  BY <1>2, <1>3, <1>4, <1>16
<1> HIDE DEF h
<1>18. Free(k) /\ Host(k) /\ Apart(h, k)
  BY <1>2, <1>3, <1>4, <1>17
<1> HIDE DEF k
<1>19. Free(s) /\ Host(s) /\ Apart(k, s)
  BY <1>2, <1>3, <1>4, <1>18
<1> HIDE DEF s, reset
<1>20. Apart(r, s)
  BY <1>5, <1>6, <1>7, <1>9, <1>10, <1>12, <1>14, <1>16, <1>17, <1>18, <1>19 DEF Keeps
<1> QED BY <1>1, <1>19, <1>20 DEF XhciRuns

LEMMA RunningCore ==
  ASSUME NEW i, NEW s, XhciRuns(i, s)
  PROVE  /\ Field(s, Dwc3(i, "GCtl"), 11, 13) = 2
         /\ <<Dwc3(i, "GUsb2PhyCfg"), 31>> \notin s
         /\ <<Dwc3(i, "GUsb3PipeCtl"), 31>> \notin s
<1> DEFINE reg == Dwc3(i, "GCtl")
<1>1. \A x \in HeldBits(i) : x \notin s
  BY DEF XhciRuns
<1>2. /\ <<reg, 11>> \notin s /\ <<reg, 12>> \in s /\ <<reg, 13>> \notin s
      /\ <<Dwc3(i, "GUsb2PhyCfg"), 31>> \notin s
      /\ <<Dwc3(i, "GUsb3PipeCtl"), 31>> \notin s
  BY <1>1 DEF XhciRuns, HeldBits
<1>3. OnlyBit(s, reg, 11, 13, 12)
  BY <1>2 DEF OnlyBit
<1>4. Field(s, reg, 11, 13) = 2
  BY <1>3, FieldOfBit1
<1> QED BY <1>2, <1>4

------------------------------------------------------------------------------
(* What the drivers' steps leave alone. *)

LEMMA NameKeeps ==
  ASSUME NEW W, NEW reg, \A x \in W : x[1][1] # reg[1], NEW r, NEW mask, NEW bits
  PROVE  /\ Keeps(W, r, HiwordWrite(r, reg, mask, bits))
         /\ Keeps(W, r, MmioWrite(r, reg, bits))
         /\ Keeps(W, r, MmioAndThenOr(r, reg, mask, bits))
<1>1. (\A x \in W : x[1] # reg) /\ \A b : <<reg, b>> \notin W
  BY OtherRegister
<1> QED BY <1>1, HiwordKeeps, WriteKeeps, AndThenOrKeeps

\* A table of pins.
PinRows == [group : Nat, pin : Nat, function : Nat, pull : Nat, drive : Nat]

LEMMA RowsAreTable ==
  ASSUME NEW g \in Nat, NEW pins \in Seq(Nat), NEW f \in Nat, NEW p \in Nat, NEW d \in Nat
  PROVE  Rows(g, pins, f, p, d) \in Seq(PinRows)
<1>1. DOMAIN pins = 1..Len(pins) /\ Len(pins) \in Nat /\ \A i \in DOMAIN pins : pins[i] \in Nat
  OBVIOUS
<1>2. \A i \in DOMAIN pins : Mux(g, pins[i], f, p, d) \in PinRows
  BY <1>1 DEF Mux, PinRows
<1> QED BY <1>1, <1>2 DEF Rows

\* A field of three bits.
LEMMA AddingUnique ==
  ASSUME NEW S, NEW lo, NEW f, NEW g, f = Adding(S, lo, f), g = Adding(S, lo, g),
         NEW a, NEW b, NEW c, S \subseteq {a, b, c}
  PROVE  f[S] = g[S]
<1> DEFINE Rest(s) == s \ {Some(s)}
<1>1. ASSUME NEW s \in SUBSET S, s # {}
      PROVE  /\ Some(s) \in s /\ Rest(s) \in SUBSET S
             /\ f[Rest(s)] = g[Rest(s)] => f[s] = g[s]
  <2>1. Some(s) \in s
    BY <1>1 DEF Some
  <2>2. Rest(s) \in SUBSET S
    OBVIOUS
  <2>3. f[s] = Weight(Some(s), lo) + f[Rest(s)] /\ g[s] = Weight(Some(s), lo) + g[Rest(s)]
    BY <1>1, AddingOf
  <2> QED BY <2>1, <2>2, <2>3
<1>2. ASSUME NEW s \in SUBSET S, s = {} PROVE f[s] = g[s]
  BY <1>2, AddingOf
<1>3. ASSUME NEW s \in SUBSET S, NEW x, s \subseteq {x} PROVE f[s] = g[s]
  <2>1. CASE s = {}
    BY <2>1, <1>2
  <2>2. CASE s # {}
    <3>1. Rest(s) = {} /\ Rest(s) \in SUBSET S
      BY <1>1, <1>3, <2>2
    <3> HIDE DEF Rest
    <3> QED BY <1>1, <1>2, <2>2, <3>1
  <2> QED BY <2>1, <2>2
<1>4. ASSUME NEW s \in SUBSET S, NEW x, NEW y, s \subseteq {x, y} PROVE f[s] = g[s]
  <2>1. CASE s = {}
    BY <2>1, <1>2
  <2>2. CASE s # {}
    <3>1. (Rest(s) \subseteq {x} \/ Rest(s) \subseteq {y}) /\ Rest(s) \in SUBSET S
      BY <1>1, <1>4, <2>2
    <3> HIDE DEF Rest
    <3> QED BY <1>1, <1>3, <2>2, <3>1
  <2> QED BY <2>1, <2>2
<1>5. CASE S # {}
  <2>1. /\ Rest(S) \subseteq {a, b} \/ Rest(S) \subseteq {a, c} \/ Rest(S) \subseteq {b, c}
        /\ S \in SUBSET S /\ Rest(S) \in SUBSET S
    BY <1>1, <1>5
  <2> HIDE DEF Rest
  <2> QED BY <1>1, <1>4, <1>5, <2>1
<1> QED BY <1>2, <1>5

\* The bit's share of the number.
Share(S, b, n) == IF b \in S THEN n ELSE 0

LEMMA TripleField ==
  ASSUME NEW r, NEW reg, NEW lo \in Nat
  PROVE  Field(r, reg, lo, lo + 2) = (IF <<reg, lo>> \in r THEN 1 ELSE 0)
                                       + (IF <<reg, lo + 1>> \in r THEN 2 ELSE 0)
                                       + (IF <<reg, lo + 2>> \in r THEN 4 ELSE 0)
<1> DEFINE S == {k \in lo..(lo + 2) : <<reg, k>> \in r}
           num(s) == Share(s, lo, 1) + Share(s, lo + 1, 2) + Share(s, lo + 2, 4)
           g == [s \in SUBSET S |-> num(s)]
<1>1. S \subseteq {lo, lo + 1, lo + 2}
  OBVIOUS
<1>2. Weight(lo, lo) = 1 /\ Weight(lo + 1, lo) = 2 /\ Weight(lo + 2, lo) = 4
  <2>1. lo - lo = 0 /\ lo + 1 - lo = 1 /\ lo + 2 - lo = 2
    OBVIOUS
  <2> QED BY <2>1, SmallPowers DEF Weight
<1>3. ASSUME NEW s \in SUBSET S, s # {}
      PROVE  num(s) = Weight(Some(s), lo) + num(s \ {Some(s)})
  <2>1. Some(s) \in s
    BY <1>3 DEF Some
  <2>2. Some(s) \in {lo, lo + 1, lo + 2} /\ lo # lo + 1 /\ lo # lo + 2 /\ lo + 1 # lo + 2
    <3>1. lo # lo + 1 /\ lo # lo + 2 /\ lo + 1 # lo + 2
      OBVIOUS
    <3>2. Some(s) \in {lo, lo + 1, lo + 2}
      <4> HIDE DEF S
      <4> QED BY <1>1, <2>1
    <3> QED BY <3>1, <3>2
  <2> DEFINE x == Some(s)
  <2>3. x \in s
    BY <2>1
  <2> HIDE DEF x, S
  <2>4. CASE x = lo
    BY <1>2, <2>2, <2>3, <2>4 DEF Share, x
  <2>5. CASE x = lo + 1
    BY <1>2, <2>2, <2>3, <2>5 DEF Share, x
  <2>6. CASE x = lo + 2
    BY <1>2, <2>2, <2>3, <2>6 DEF Share, x
  <2> QED BY <2>2, <2>4, <2>5, <2>6 DEF x
<1>4. g = Adding(S, lo, g)
  <2>1. ASSUME NEW s \in SUBSET S PROVE Adding(S, lo, g)[s] = g[s]
    <3>1. CASE s = {}
      <4>1. num(s) = 0
        BY <3>1 DEF Share
      <4>2. g[s] = num(s)
        OBVIOUS
      <4> HIDE DEF S, g, num
      <4> QED BY <3>1, <4>1, <4>2 DEF Adding
    <3>2. CASE s # {}
      <4>1. s \ {Some(s)} \in SUBSET S
        OBVIOUS
      <4>2. g[s] = num(s) /\ g[s \ {Some(s)}] = num(s \ {Some(s)})
        BY <4>1
      <4>3. num(s) = Weight(Some(s), lo) + num(s \ {Some(s)})
        BY <1>3, <3>2
      <4> HIDE DEF S, g, num
      <4> QED BY <3>2, <4>2, <4>3 DEF Adding
    <3> QED BY <3>1, <3>2
  <2>2. Adding(S, lo, g) = [s \in SUBSET S |-> Adding(S, lo, g)[s]]
    BY DEF Adding
  <2>3. g = [s \in SUBSET S |-> g[s]]
    OBVIOUS
  <2> HIDE DEF g
  <2> QED BY <2>1, <2>2, <2>3
<1>5. g[S] = num(S)
  OBVIOUS
<1>6. PICK it : it = Adding(S, lo, it) /\ Field(r, reg, lo, lo + 2) = it[S]
  <2> DEFINE T == S
  <2>1. {k \in lo..(lo + 2) : <<reg, k>> \in r} = T
    OBVIOUS
  <2>2. \E i : i = Adding(T, lo, i)
    BY <1>4
  <2> HIDE DEF T
  <2>3. \E it : it = Adding(T, lo, it) /\ Field(r, reg, lo, lo + 2) = it[T]
    BY <2>1, <2>2, FieldIs
  <2> QED BY <2>3 DEF T
<1>7. it[S] = g[S]
  <2> HIDE DEF S, g
  <2> QED BY <1>1, <1>4, <1>6, AddingUnique
<1>8. num(S) = (IF <<reg, lo>> \in r THEN 1 ELSE 0) + (IF <<reg, lo + 1>> \in r THEN 2 ELSE 0)
                 + (IF <<reg, lo + 2>> \in r THEN 4 ELSE 0)
  BY DEF Share
<1> HIDE DEF g, S, num
<1> QED BY <1>5, <1>6, <1>7, <1>8


LEMMA LowBits ==
  ASSUME NEW n \in 0..7, NEW s \in Nat
  PROVE  /\ s \in Bits(n, s) <=> n % 2 = 1
         /\ s + 1 \in Bits(n, s) <=> (n \div 2) % 2 = 1
         /\ s + 2 \in Bits(n, s) <=> (n \div 4) % 2 = 1
<1> DEFINE one(x) == (n \div 2^x) % 2 = 1
<1>1. \A x \in 0..11 : s + x \in Bits(n, s) <=> one(x)
  <2> TAKE x \in 0..11
  <2>1. Bits(n, s) = {s + b : b \in {y \in 0..11 : one(y)}}
    BY DEF Bits
  <2> HIDE DEF one
  <2>2. \A b \in 0..11 : s + b = s + x => b = x
    OBVIOUS
  <2> QED BY <2>1, <2>2
<1>2. (one(0) <=> n % 2 = 1) /\ (one(1) <=> (n \div 2) % 2 = 1) /\ (one(2) <=> (n \div 4) % 2 = 1)
  <2>1. n \div 1 = n
    OBVIOUS
  <2> QED BY <2>1, SmallPowers
<1> HIDE DEF one
<1>3. s + 0 = s /\ 0 \in 0..11 /\ 1 \in 0..11 /\ 2 \in 0..11
  OBVIOUS
<1>4. s + 0 \in Bits(n, s) <=> one(0)
  BY <1>1, <1>3
<1>5. s + 1 \in Bits(n, s) <=> one(1)
  BY <1>1, <1>3
<1>6. s + 2 \in Bits(n, s) <=> one(2)
  BY <1>1, <1>3
<1> QED BY <1>2, <1>3, <1>4, <1>5, <1>6

\* What was written to a field of three bits, or of two, is what it holds.
LEMMA TripleWritten ==
  ASSUME NEW n \in 0..7, NEW s \in Nat, NEW r, NEW reg, NEW mask, s..(s + 2) \subseteq mask
  PROVE  Field(HiwordWrite(r, reg, mask, Bits(n, s)), reg, s, s + 2) = n
<1> DEFINE w == HiwordWrite(r, reg, mask, Bits(n, s))
<1>1. s \in mask /\ s + 1 \in mask /\ s + 2 \in mask
  OBVIOUS
<1>2. /\ <<reg, s>> \in w <=> n % 2 = 1
      /\ <<reg, s + 1>> \in w <=> (n \div 2) % 2 = 1
      /\ <<reg, s + 2>> \in w <=> (n \div 4) % 2 = 1
  BY <1>1, LowBits, HiwordBits
<1>3. Field(w, reg, s, s + 2) = (IF <<reg, s>> \in w THEN 1 ELSE 0)
         + (IF <<reg, s + 1>> \in w THEN 2 ELSE 0) + (IF <<reg, s + 2>> \in w THEN 4 ELSE 0)
  BY TripleField
<1> HIDE DEF w
<1>4. n = (IF n % 2 = 1 THEN 1 ELSE 0) + (IF (n \div 2) % 2 = 1 THEN 2 ELSE 0)
            + (IF (n \div 4) % 2 = 1 THEN 4 ELSE 0)
  OBVIOUS
<1>5. Field(w, reg, s, s + 2) = n
  BY <1>2, <1>3, <1>4
<1> QED BY <1>5 DEF w

LEMMA PairWritten ==
  ASSUME NEW n \in 0..2, NEW s \in Nat, NEW r, NEW reg, NEW mask, s..(s + 1) \subseteq mask
  PROVE  Field(HiwordWrite(r, reg, mask, Bits(n, s)), reg, s, s + 1) = n
<1> DEFINE w == HiwordWrite(r, reg, mask, Bits(n, s))
<1>1. s \in mask /\ s + 1 \in mask /\ n \in 0..7
  OBVIOUS
<1>2. /\ <<reg, s>> \in w <=> n % 2 = 1
      /\ <<reg, s + 1>> \in w <=> (n \div 2) % 2 = 1
  BY <1>1, LowBits, HiwordBits
<1>3. PICK h : h = s + 1
  OBVIOUS
<1>4. /\ <<reg, s>> \notin w /\ <<reg, h>> \notin w => Field(w, reg, s, h) = 0
      /\ <<reg, s>> \in w /\ <<reg, h>> \notin w => Field(w, reg, s, h) = 1
      /\ <<reg, s>> \notin w /\ <<reg, h>> \in w => Field(w, reg, s, h) = 2
  BY <1>3, PairField
<1> HIDE DEF w
<1>5. /\ n = 0 => n % 2 # 1 /\ (n \div 2) % 2 # 1
      /\ n = 1 => n % 2 = 1 /\ (n \div 2) % 2 # 1
      /\ n = 2 => n % 2 # 1 /\ (n \div 2) % 2 = 1
  OBVIOUS
<1>6. n = 0 \/ n = 1 \/ n = 2
  OBVIOUS
<1>7. Field(w, reg, s, s + 1) = n
  BY <1>2, <1>3, <1>4, <1>5, <1>6
<1> QED BY <1>7 DEF w

------------------------------------------------------------------------------
(* Pins. *)

\* The function and the pull of a pin.
PinBits(g, pin) ==
    ({<<"IOMUX", g, pin \div 4>>} \X ((4 * (pin % 4))..(4 * (pin % 4) + 2)))
      \cup ({<<"P", g, pin \div 8>>} \X ((2 * (pin % 8))..(2 * (pin % 8) + 1)))

LEMMA PinsDiffer ==
  ASSUME NEW g, NEW h, NEW p \in Nat, NEW q \in Nat, g # h \/ p # q
  PROVE  PinBits(g, p) \cap PinBits(h, q) = {}
<1>1. ASSUME g = h, p \div 4 = q \div 4,
             NEW b, b \in (4 * (p % 4))..(4 * (p % 4) + 2), b \in (4 * (q % 4))..(4 * (q % 4) + 2)
      PROVE  FALSE
  <2>1. p % 4 = q % 4
    BY <1>1
  <2>2. p = 4 * (p \div 4) + (p % 4) /\ q = 4 * (q \div 4) + (q % 4)
    OBVIOUS
  <2> QED BY <1>1, <2>1, <2>2
<1>2. ASSUME g = h, p \div 8 = q \div 8,
             NEW b, b \in (2 * (p % 8))..(2 * (p % 8) + 1), b \in (2 * (q % 8))..(2 * (q % 8) + 1)
      PROVE  FALSE
  <2>1. p % 8 = q % 8
    BY <1>2
  <2>2. p = 8 * (p \div 8) + (p % 8) /\ q = 8 * (q \div 8) + (q % 8)
    OBVIOUS
  <2> QED BY <1>2, <2>1, <2>2
<1>3. ASSUME NEW x \in PinBits(g, p), x \in PinBits(h, q) PROVE FALSE
  <2>1. CASE x[1][1] = "IOMUX"
    <3>1. /\ x[1] = <<"IOMUX", g, p \div 4>> /\ x[2] \in (4 * (p % 4))..(4 * (p % 4) + 2)
          /\ x[1] = <<"IOMUX", h, q \div 4>> /\ x[2] \in (4 * (q % 4))..(4 * (q % 4) + 2)
      BY ONLY <1>3, <2>1 DEF PinBits
    <3> QED BY <1>1, <3>1
  <2>2. CASE x[1][1] = "P"
    <3>1. /\ x[1] = <<"P", g, p \div 8>> /\ x[2] \in (2 * (p % 8))..(2 * (p % 8) + 1)
          /\ x[1] = <<"P", h, q \div 8>> /\ x[2] \in (2 * (q % 8))..(2 * (q % 8) + 1)
      BY ONLY <1>3, <2>2 DEF PinBits
    <3> QED BY <1>2, <3>1
  <2>3. x[1][1] \in {"IOMUX", "P"}
    BY ONLY <1>3 DEF PinBits
  <2> QED BY <2>1, <2>2, <2>3
<1> QED BY <1>3

Disjoint(W, V) == \A x \in W : x \notin V

\* A step of a pin table leaves the other pins alone ...
LEMMA PinFieldsKeep ==
  ASSUME NEW W, NEW g, NEW pin \in Nat, Disjoint(W, PinBits(g, pin)), NEW r, NEW v
  PROVE  /\ Keeps(W, r, GpioPinSetFunction(r, g, pin, v))
         /\ Keeps(W, r, GpioPinSetPull(r, g, pin, v))
<1>1. Keeps(W, r, GpioPinSetFunction(r, g, pin, v))
  <2>1. GpioPinSetFunction(r, g, pin, v) =
          HiwordWrite(r, <<"IOMUX", g, pin \div 4>>,
                      ((pin % 4) * 4)..((pin % 4) * 4 + 3 - 1), Bits(v, (pin % 4) * 4))
    BY DEF GpioPinSetFunction, PinField
  <2>2. ((pin % 4) * 4)..((pin % 4) * 4 + 3 - 1) = (4 * (pin % 4))..(4 * (pin % 4) + 2)
    OBVIOUS
  <2>3. \A b \in (4 * (pin % 4))..(4 * (pin % 4) + 2) :
            <<<<"IOMUX", g, pin \div 4>>, b>> \in PinBits(g, pin)
    BY DEF PinBits
  <2> QED BY <2>1, <2>2, <2>3, HiwordKeeps DEF Disjoint
<1>2. Keeps(W, r, GpioPinSetPull(r, g, pin, v))
  <2>1. GpioPinSetPull(r, g, pin, v) =
          HiwordWrite(r, <<"P", g, pin \div 8>>,
                      ((pin % 8) * 2)..((pin % 8) * 2 + 2 - 1), Bits(v, (pin % 8) * 2))
    BY DEF GpioPinSetPull, PinField
  <2>2. ((pin % 8) * 2)..((pin % 8) * 2 + 2 - 1) = (2 * (pin % 8))..(2 * (pin % 8) + 1)
    OBVIOUS
  <2>3. \A b \in (2 * (pin % 8))..(2 * (pin % 8) + 1) :
            <<<<"P", g, pin \div 8>>, b>> \in PinBits(g, pin)
    BY DEF PinBits
  <2> QED BY <2>1, <2>2, <2>3, HiwordKeeps DEF Disjoint
<1> QED BY <1>1, <1>2

LEMMA PinLeaves ==
  ASSUME NEW W, NEW r, NEW mux, Disjoint(W, PinBits(mux.group, mux.pin)),
         mux.pin \in Nat, \A x \in W : x[1][1] # "DS"
  PROVE  Keeps(W, r, GpioSetPin(r, mux))
<1> DEFINE f == GpioPinSetFunction(r, mux.group, mux.pin, mux.function)
           p == GpioPinSetPull(f, mux.group, mux.pin, mux.pull)
           d == GpioPinSetDrive(p, mux.group, mux.pin, mux.drive)
<1>1. Keeps(W, r, f)
  BY PinFieldsKeep
<1> HIDE DEF f
<1>2. Keeps(W, f, p)
  BY PinFieldsKeep
<1> HIDE DEF p
<1>3. Keeps(W, p, d)
  BY PinFieldKeeps DEF GpioPinSetDrive
<1> HIDE DEF d
<1>4. Keeps(W, r, p) /\ Keeps(W, r, d)
  BY <1>1, <1>2, <1>3, KeepsChain
<1> QED BY <1>4 DEF GpioSetPin, f, p, d

\* ... and sets its own.
PinIs(r, m) == PinFunction(r, m.group, m.pin) = m.function /\ PinPull(r, m.group, m.pin) = m.pull

LEMMA PinSet ==
  ASSUME NEW r, NEW m, m.pin \in Nat, m.function \in 0..7, m.pull \in 0..2
  PROVE  PinIs(GpioSetPin(r, m), m)
<1> DEFINE a == (m.pin % 4) * 4
           b == (m.pin % 8) * 2
           F == <<"IOMUX", m.group, m.pin \div 4>>
           P == <<"P", m.group, m.pin \div 8>>
           f == GpioPinSetFunction(r, m.group, m.pin, m.function)
           p == GpioPinSetPull(f, m.group, m.pin, m.pull)
           d == GpioPinSetDrive(p, m.group, m.pin, m.drive)
           V == ({F} \X (a..(a + 2))) \cup ({P} \X (b..(b + 1)))
<1>0. a \in Nat /\ b \in Nat /\ a + 3 - 1 = a + 2 /\ b + 2 - 1 = b + 1
  OBVIOUS
<1>1. Field(f, F, a, a + 2) = m.function
  <2>1. f = HiwordWrite(r, F, a..(a + 3 - 1), Bits(m.function, a))
    BY DEF GpioPinSetFunction, PinField
  <2> HIDE DEF f, a, F
  <2> QED BY <1>0, <2>1, TripleWritten
<1> HIDE DEF f
<1>2. Field(p, P, b, b + 1) = m.pull
  <2>1. p = HiwordWrite(f, P, b..(b + 2 - 1), Bits(m.pull, b))
    BY DEF GpioPinSetPull, PinField
  <2> HIDE DEF p, b, P
  <2> QED BY <1>0, <2>1, PairWritten
<1>3. Keeps({F} \X (a..(a + 2)), f, p)
  <2> HIDE DEF a
  <2>1. \A x \in {F} \X (a..(a + 2)) : x[1][1] # "P"
    OBVIOUS
  <2> QED BY <2>1, PinFieldKeeps DEF GpioPinSetPull
<1> HIDE DEF p
<1>4. Keeps(V, p, d)
  <2> HIDE DEF a, b
  <2>1. \A x \in V : x[1][1] # "DS"
    OBVIOUS
  <2> HIDE DEF V
  <2> QED BY <2>1, PinFieldKeeps DEF GpioPinSetDrive
<1> HIDE DEF d, a, b, F, P
<1>5. Field(p, F, a, a + 2) = m.function
  <2>1. \A k \in a..(a + 2) : <<F, k>> \in f <=> <<F, k>> \in p
    BY <1>3 DEF Keeps
  <2> QED BY <1>1, <2>1, FieldKept
<1>6. Field(d, F, a, a + 2) = m.function /\ Field(d, P, b, b + 1) = m.pull
  <2>1. /\ \A k \in a..(a + 2) : <<F, k>> \in p <=> <<F, k>> \in d
        /\ \A k \in b..(b + 1) : <<P, k>> \in p <=> <<P, k>> \in d
    BY <1>4 DEF Keeps, V
  <2> QED BY <1>2, <1>5, <2>1, FieldKept
<1>7. GpioSetPin(r, m) \in {p, d}
  BY DEF GpioSetPin, f, p, d
<1>8. ASSUME NEW s \in {p, d} PROVE PinIs(s, m)
  BY <1>2, <1>5, <1>6 DEF PinIs, PinFunction, PinPull, a, b, F, P
<1> QED BY <1>7, <1>8

LEMMA PinIsKept ==
  ASSUME NEW r, NEW s, NEW m, m.pin \in Nat, Keeps(PinBits(m.group, m.pin), r, s), PinIs(r, m)
  PROVE  PinIs(s, m)
<1>1. /\ (m.pin % 4) * 4 = 4 * (m.pin % 4) /\ (m.pin % 8) * 2 = 2 * (m.pin % 8)
  OBVIOUS
<1>2. /\ \A k \in (4 * (m.pin % 4))..(4 * (m.pin % 4) + 2) :
              <<<<"IOMUX", m.group, m.pin \div 4>>, k>> \in r
                <=> <<<<"IOMUX", m.group, m.pin \div 4>>, k>> \in s
      /\ \A k \in (2 * (m.pin % 8))..(2 * (m.pin % 8) + 1) :
              <<<<"P", m.group, m.pin \div 8>>, k>> \in r
                <=> <<<<"P", m.group, m.pin \div 8>>, k>> \in s
  BY DEF Keeps, PinBits
<1>3. PinFunction(r, m.group, m.pin) = PinFunction(s, m.group, m.pin)
  BY <1>1, <1>2, FieldKept DEF PinFunction
<1>4. PinPull(r, m.group, m.pin) = PinPull(s, m.group, m.pin)
  BY <1>1, <1>2, FieldKept DEF PinPull
<1> QED BY <1>3, <1>4 DEF PinIs


\* The pins of a table.
Cell(m)  == <<m.group, m.pin>>
Cells(t) == {Cell(t[i]) : i \in DOMAIN t}
TableBits(t) == UNION {PinBits(t[i].group, t[i].pin) : i \in DOMAIN t}
TableApart(W, t) == \A i \in DOMAIN t : Disjoint(W, PinBits(t[i].group, t[i].pin))

\* Each row can be written, and no pin is listed twice.
Proper(t) ==
    /\ t \in Seq(PinRows)
    /\ \A i \in DOMAIN t : t[i].function \in 0..7 /\ t[i].pull \in 0..2
    /\ \A i, j \in DOMAIN t : Cell(t[i]) = Cell(t[j]) => i = j

LEMMA PinOfRow ==
  ASSUME NEW t \in Seq(PinRows), NEW i \in DOMAIN t
  PROVE  t[i].pin \in Nat
<1>1. t[i] \in PinRows
  OBVIOUS
<1> HIDE DEF PinRows
<1>2. \A m \in PinRows : m.pin \in Nat
  BY DEF PinRows
<1> QED BY <1>1, <1>2

LEMMA TableLeaves ==
  ASSUME NEW t \in Seq(PinRows), NEW W, NEW r, TableApart(W, t), \A x \in W : x[1][1] # "DS"
  PROVE  Keeps(W, r, GpioSetIomuxConfig(r, t))
<1> DEFINE N == Len(t)
<1>0. N \in Nat /\ DOMAIN t = 1..N /\ \A i \in 1..N : t[i] \in PinRows
  OBVIOUS
<1>1. PICK h : (\A n \in 0..N : Row(r, t, h, n)) /\ GpioSetIomuxConfig(r, t) = h[N]
  BY <1>0, IomuxRows
<1> HIDE DEF N
<1> DEFINE T == {n \in 0..N : ~Keeps(W, r, h[n])}
<1>2. ASSUME T # {} PROVE FALSE
  <2>0. T \in SUBSET Nat
    BY <1>0
  <2>1. PICK n \in T : \A m \in T : n <= m
    BY <1>2, <2>0, LeastMember
  <2>2. n # 0
    BY <1>0, <1>1, <2>1, KeepsItself DEF Row
  <2>3. n - 1 \in 0..N /\ n - 1 \notin T /\ n \in 1..N
    BY <1>0, <2>1, <2>2
  <2>4. Keeps(W, r, h[n - 1]) /\ h[n] = GpioSetPin(h[n - 1], t[n])
    BY <1>1, <2>1, <2>2, <2>3 DEF Row
  <2>5. t[n].pin \in Nat /\ Disjoint(W, PinBits(t[n].group, t[n].pin))
    BY <1>0, <2>3 DEF PinRows, TableApart
  <2>6. Keeps(W, h[n - 1], h[n])
    BY <2>4, <2>5, PinLeaves
  <2> QED BY <2>1, <2>4, <2>6, KeepsChain
<1> QED BY <1>0, <1>1, <1>2

LEMMA TableSets ==
  ASSUME NEW t, Proper(t), NEW r
  PROVE  \A i \in DOMAIN t : PinIs(GpioSetIomuxConfig(r, t), t[i])
<1> DEFINE N == Len(t)
<1>0. N \in Nat /\ DOMAIN t = 1..N /\ \A i \in 1..N : t[i] \in PinRows
  BY DEF Proper
<1>1. PICK h : (\A n \in 0..N : Row(r, t, h, n)) /\ GpioSetIomuxConfig(r, t) = h[N]
  BY <1>0, IomuxRows
<1>2. \A i \in 1..N : t[i].pin \in Nat /\ t[i].function \in 0..7 /\ t[i].pull \in 0..2
  BY <1>0 DEF PinRows, Proper
<1>3. ASSUME NEW i \in 1..N, NEW j \in 1..N, i # j
      PROVE  Disjoint(PinBits(t[i].group, t[i].pin), PinBits(t[j].group, t[j].pin))
  <2>1. t[i].group # t[j].group \/ t[i].pin # t[j].pin
    BY <1>0, <1>3 DEF Proper, Cell
  <2> QED BY <1>2, <2>1, PinsDiffer DEF Disjoint
<1> HIDE DEF N
<1> DEFINE AllSet(n) == \A i \in 1..n : PinIs(h[n], t[i])
           T == {n \in 0..N : ~AllSet(n)}
<1>4. ASSUME T # {} PROVE FALSE
  <2>0. T \in SUBSET Nat
    BY <1>0
  <2>1. PICK n \in T : \A m \in T : n <= m
    BY <1>4, <2>0, LeastMember
  <2>2. n # 0
    <3>1. 1..0 = {}
      OBVIOUS
    <3>2. 0 \notin T
      BY <3>1
    <3> QED BY <2>1, <3>2
  <2>3. n - 1 \in 0..N /\ n - 1 \notin T /\ n \in 1..N
    BY <1>0, <2>1, <2>2
  <2>4. AllSet(n - 1)
    BY <2>3
  <2>5. h[n] = GpioSetPin(h[n - 1], t[n])
    BY <1>1, <2>1, <2>2, <2>3 DEF Row
  <2>6. ASSUME NEW i \in 1..n PROVE PinIs(h[n], t[i])
    <3>1. CASE i = n
      BY <1>2, <2>3, <2>5, <3>1, PinSet
    <3>2. CASE i # n
      <4>1. i \in 1..(n - 1) /\ i \in 1..N
        BY <1>0, <2>3, <3>2
      <4>2. PinIs(h[n - 1], t[i])
        BY <2>4, <4>1
      <4> DEFINE V == PinBits(t[i].group, t[i].pin)
      <4>3. \A x \in V : x[1][1] # "DS"
        BY DEF PinBits
      <4>4. Disjoint(V, PinBits(t[n].group, t[n].pin))
        BY <1>3, <2>3, <3>2, <4>1
      <4> HIDE DEF V
      <4>5. Keeps(V, h[n - 1], h[n])
        BY <1>2, <2>3, <2>5, <4>3, <4>4, PinLeaves
      <4> QED BY <1>2, <4>1, <4>2, <4>5, PinIsKept DEF V
    <3> QED BY <3>1, <3>2
  <2> QED BY <2>1, <2>6
<1>5. AllSet(N)
  BY <1>0, <1>4
<1> QED BY <1>0, <1>1, <1>5

LEMMA KeptIsEach ==
  ASSUME NEW t, NEW r
  PROVE  PinsKept(r, t) <=> \A i \in DOMAIN t : PinIs(r, t[i])
  BY DEF PinsKept, PinIs, Range

\* A table that has been worked off stays as it is, if the bits of its pins do.
LEMMA TableDone ==
  ASSUME NEW t, Proper(t), NEW r
  PROVE  PinsKept(GpioSetIomuxConfig(r, t), t)
  BY TableSets, KeptIsEach

LEMMA TableKept ==
  ASSUME NEW t, Proper(t), NEW r, NEW s, Keeps(TableBits(t), r, s), PinsKept(r, t)
  PROVE  PinsKept(s, t)
<1>1. ASSUME NEW i \in DOMAIN t PROVE PinIs(s, t[i])
  <2>1. Keeps(PinBits(t[i].group, t[i].pin), r, s)
    BY DEF Keeps, TableBits
  <2>2. t[i].pin \in Nat
    BY PinOfRow DEF Proper
  <2>3. PinIs(r, t[i])
    BY KeptIsEach
  <2> QED BY <2>1, <2>2, <2>3, PinIsKept
<1> QED BY <1>1, KeptIsEach

\* Tables without a pin in common do not meet.
LEMMA TablesMeetNot ==
  ASSUME NEW s \in Seq(PinRows), NEW t \in Seq(PinRows), Cells(s) \cap Cells(t) = {},
         NEW W, \A x \in W : x[1][1] \in {"IOMUX", "P"} => x \in TableBits(s)
  PROVE  TableApart(W, t)
<1> SUFFICES ASSUME NEW j \in DOMAIN t, NEW x \in W, x \in PinBits(t[j].group, t[j].pin)
             PROVE  FALSE
  BY DEF TableApart, Disjoint
<1>1. x[1][1] \in {"IOMUX", "P"}
  BY DEF PinBits
<1>2. PICK i \in DOMAIN s : x \in PinBits(s[i].group, s[i].pin)
  BY <1>1 DEF TableBits
<1>3. Cell(s[i]) # Cell(t[j])
  BY DEF Cells
<1>4. s[i].pin \in Nat /\ t[j].pin \in Nat
  BY PinOfRow
<1>5. s[i].group # t[j].group \/ s[i].pin # t[j].pin
  BY <1>3 DEF Cell
<1> QED BY <1>2, <1>4, <1>5, PinsDiffer

LEMMA TableMeetsNot ==
  ASSUME NEW s \in Seq(PinRows), NEW g, NEW pin \in Nat, <<g, pin>> \notin Cells(s),
         NEW W, \A x \in W : x[1][1] \in {"IOMUX", "P"} => x \in TableBits(s)
  PROVE  Disjoint(W, PinBits(g, pin))
<1> SUFFICES ASSUME NEW x \in W, x \in PinBits(g, pin)
             PROVE  FALSE
  BY DEF Disjoint
<1>1. x[1][1] \in {"IOMUX", "P"}
  BY DEF PinBits
<1>2. PICK i \in DOMAIN s : x \in PinBits(s[i].group, s[i].pin)
  BY <1>1 DEF TableBits
<1>3. Cell(s[i]) # <<g, pin>>
  BY DEF Cells
<1>4. s[i].pin \in Nat
  BY PinOfRow
<1>5. s[i].group # g \/ s[i].pin # pin
  BY <1>3 DEF Cell
<1> QED BY <1>2, <1>4, <1>5, PinsDiffer


\* Pins of S, each once.
PinList(pins, S) ==
    /\ pins \in Seq(Nat)
    /\ \A i, j \in DOMAIN pins : pins[i] = pins[j] => i = j
    /\ \A i \in DOMAIN pins : pins[i] \in S

LEMMA RowsProper ==
  ASSUME NEW g \in Nat, NEW pins, NEW S, PinList(pins, S),
         NEW f \in 0..7, NEW p \in 0..2, NEW d \in Nat
  PROVE  Proper(Rows(g, pins, f, p, d)) /\ Cells(Rows(g, pins, f, p, d)) \subseteq {g} \X S
<1> USE DEF PinList
<1> DEFINE t == Rows(g, pins, f, p, d)
<1>1. f \in Nat /\ p \in Nat
  OBVIOUS
<1>2. t \in Seq(PinRows)
  BY <1>1, RowsAreTable
<1>3. DOMAIN t = DOMAIN pins /\ \A i \in DOMAIN pins :
          t[i].function = f /\ t[i].pull = p /\ t[i].group = g /\ t[i].pin = pins[i]
  BY DEF Rows, Mux
<1> HIDE DEF t
<1>4. \A i \in DOMAIN t : Cell(t[i]) = <<g, pins[i]>>
  BY <1>3 DEF Cell
<1>5. \A i, j \in DOMAIN t : Cell(t[i]) = Cell(t[j]) => i = j
  BY <1>3, <1>4
<1>6. Cells(t) \subseteq {g} \X S
  BY <1>3, <1>4 DEF Cells
<1>7. Proper(t)
  BY <1>2, <1>3, <1>5 DEF Proper
<1> QED BY <1>6, <1>7 DEF t

LEMMA JoinProper ==
  ASSUME NEW s, NEW t, Proper(s), Proper(t),
         NEW S, NEW T, Cells(s) \subseteq S, Cells(t) \subseteq T, S \cap T = {}
  PROVE  Proper(s \o t) /\ Cells(s \o t) \subseteq S \cup T
<1> DEFINE m == Len(s)
           n == Len(t)
           u == s \o t
<1>1. /\ s \in Seq(PinRows) /\ t \in Seq(PinRows)
      /\ m \in Nat /\ n \in Nat /\ DOMAIN s = 1..m /\ DOMAIN t = 1..n
  BY DEF Proper
<1>2. /\ u \in Seq(PinRows) /\ DOMAIN u = 1..(m + n)
      /\ \A i \in 1..(m + n) : u[i] = IF i <= m THEN s[i] ELSE t[i - m]
  BY <1>1
<1> HIDE DEF m, n, u
<1>3. ASSUME NEW i \in DOMAIN u
      PROVE  \/ i \in DOMAIN s /\ i <= m /\ u[i] = s[i]
             \/ i - m \in DOMAIN t /\ i > m /\ u[i] = t[i - m]
  BY <1>1, <1>2
<1>4. /\ \A i \in DOMAIN s : Cell(s[i]) \in S
      /\ \A i \in DOMAIN t : Cell(t[i]) \in T
  BY DEF Cells
<1>5. ASSUME NEW i \in DOMAIN u, NEW j \in DOMAIN u, Cell(u[i]) = Cell(u[j])
      PROVE  i = j
  <2>0. i \in Int /\ j \in Int
    BY <1>1, <1>2
  <2>1. CASE i \in DOMAIN s /\ u[i] = s[i] /\ j \in DOMAIN s /\ u[j] = s[j]
    BY <1>5, <2>1 DEF Proper
  <2>2. CASE /\ i - m \in DOMAIN t /\ u[i] = t[i - m]
             /\ j - m \in DOMAIN t /\ u[j] = t[j - m]
    <3>1. i - m = j - m
      BY <1>5, <2>2 DEF Proper
    <3> QED BY <1>1, <2>0, <3>1
  <2>3. CASE i \in DOMAIN s /\ u[i] = s[i] /\ j - m \in DOMAIN t /\ u[j] = t[j - m]
    BY <1>4, <1>5, <2>3
  <2>4. CASE j \in DOMAIN s /\ u[j] = s[j] /\ i - m \in DOMAIN t /\ u[i] = t[i - m]
    BY <1>4, <1>5, <2>4
  <2> QED BY <1>3, <2>1, <2>2, <2>3, <2>4
<1>6. \A i \in DOMAIN u : u[i].function \in 0..7 /\ u[i].pull \in 0..2
  BY <1>3 DEF Proper
<1>7. \A i \in DOMAIN u : Cell(u[i]) \in S \cup T
  BY <1>3, <1>4
<1>8. Cells(u) \subseteq S \cup T
  BY <1>7 DEF Cells
<1>9. Proper(u)
  BY <1>2, <1>5, <1>6 DEF Proper
<1> QED BY <1>8, <1>9 DEF u

LEMMA Pulls == PullNone \in 0..2 /\ PullUp \in 0..2 /\ DriveDefault \in Nat
  BY DEF PullNone, PullUp, DriveDefault

SdmmcCells == (({1} \X (29..31)) \cup ({2} \X (0..2))) \cup ({0} \X {4})

LEMMA Sdmmc0Proper ==
  Proper(mSdmmc0IomuxConfig) /\ Cells(mSdmmc0IomuxConfig) \subseteq SdmmcCells
<1> DEFINE a == Rows(1, <<PD(5), PD(6), PD(7)>>, 1, PullUp, 7)
           b == Rows(2, <<PA(0), PA(1), PA(2)>>, 1, PullUp, 7)
           c == Rows(0, <<PA(4)>>, 1, PullNone, DriveDefault)
<1>1. Proper(a) /\ Cells(a) \subseteq {1} \X (29..31)
  <2> DEFINE pins == <<PD(5), PD(6), PD(7)>>
  <2>1. pins = <<29, 30, 31>>
    BY DEF PD
  <2>2. PinList(pins, 29..31)
    BY <2>1 DEF PinList
  <2> HIDE DEF pins
  <2>3. /\ Proper(Rows(1, pins, 1, PullUp, 7))
        /\ Cells(Rows(1, pins, 1, PullUp, 7)) \subseteq {1} \X (29..31)
    BY <2>2, RowsProper, Pulls
  <2> QED BY <2>3 DEF pins
<1>2. Proper(b) /\ Cells(b) \subseteq {2} \X (0..2)
  <2> DEFINE pins == <<PA(0), PA(1), PA(2)>>
  <2>1. pins = <<0, 1, 2>>
    BY DEF PA
  <2>2. PinList(pins, 0..2)
    BY <2>1 DEF PinList
  <2> HIDE DEF pins
  <2>3. /\ Proper(Rows(2, pins, 1, PullUp, 7))
        /\ Cells(Rows(2, pins, 1, PullUp, 7)) \subseteq {2} \X (0..2)
    BY <2>2, RowsProper, Pulls
  <2> QED BY <2>3 DEF pins
<1>3. Proper(c) /\ Cells(c) \subseteq {0} \X {4}
  <2> DEFINE pins == <<PA(4)>>
  <2>1. pins = <<4>>
    BY DEF PA
  <2>2. PinList(pins, {4})
    BY <2>1 DEF PinList
  <2> HIDE DEF pins
  <2>3. /\ Proper(Rows(0, pins, 1, PullNone, DriveDefault))
        /\ Cells(Rows(0, pins, 1, PullNone, DriveDefault)) \subseteq {0} \X {4}
    BY <2>2, RowsProper, Pulls
  <2> QED BY <2>3 DEF pins
<1> HIDE DEF a, b, c
<1>4. Proper(a \o b) /\ Cells(a \o b) \subseteq ({1} \X (29..31)) \cup ({2} \X (0..2))
  BY <1>1, <1>2, JoinProper
<1>5. Proper(a \o b \o c) /\ Cells(a \o b \o c) \subseteq SdmmcCells
  BY <1>3, <1>4, JoinProper DEF SdmmcCells
<1> QED BY <1>5 DEF mSdmmc0IomuxConfig, a, b, c

LEMMA Sdmmc1Proper ==
  Proper(mSdmmc1IomuxConfig) /\ Cells(mSdmmc1IomuxConfig) \subseteq ({2} \X (3..8)) \cup ({2} \X (9..10))
<1> DEFINE a == Rows(2, <<PA(3), PA(4), PA(5), PA(6), PA(7), PB(0)>>, 1, PullUp, 7)
           b == Rows(2, <<PB(1), PB(2)>>, 0, PullNone, DriveDefault)
<1>1. Proper(a) /\ Cells(a) \subseteq {2} \X (3..8)
  <2> DEFINE pins == <<PA(3), PA(4), PA(5), PA(6), PA(7), PB(0)>>
  <2>1. pins = <<3, 4, 5, 6, 7, 8>>
    BY DEF PA, PB
  <2>2. PinList(pins, 3..8)
    BY <2>1 DEF PinList
  <2> HIDE DEF pins
  <2>3. /\ Proper(Rows(2, pins, 1, PullUp, 7))
        /\ Cells(Rows(2, pins, 1, PullUp, 7)) \subseteq {2} \X (3..8)
    BY <2>2, RowsProper, Pulls
  <2> QED BY <2>3 DEF pins
<1>2. Proper(b) /\ Cells(b) \subseteq {2} \X (9..10)
  <2> DEFINE pins == <<PB(1), PB(2)>>
  <2>1. pins = <<9, 10>>
    BY DEF PB
  <2>2. PinList(pins, 9..10)
    BY <2>1 DEF PinList
  <2> HIDE DEF pins
  <2>3. /\ Proper(Rows(2, pins, 0, PullNone, DriveDefault))
        /\ Cells(Rows(2, pins, 0, PullNone, DriveDefault)) \subseteq {2} \X (9..10)
    BY <2>2, RowsProper, Pulls
  <2> QED BY <2>3 DEF pins
<1> HIDE DEF a, b
<1>3. ({2} \X (3..8)) \cap ({2} \X (9..10)) = {}
  OBVIOUS
<1>4. Proper(a \o b) /\ Cells(a \o b) \subseteq ({2} \X (3..8)) \cup ({2} \X (9..10))
  BY <1>1, <1>2, <1>3, JoinProper
<1> QED BY <1>4 DEF mSdmmc1IomuxConfig, a, b

LEMMA EmmcProper ==
  Proper(mEmmcIomuxConfig) /\ Cells(mEmmcIomuxConfig) \subseteq ({1} \X (12..21)) \cup ({1} \X {22})
<1> DEFINE a == Rows(1, [i \in 1..10 |-> PB(3) + i], 1, PullUp, 7)
           b == Rows(1, <<PC(6)>>, 1, PullNone, DriveDefault)
<1>1. Proper(a) /\ Cells(a) \subseteq {1} \X (12..21)
  <2> DEFINE pins == [i \in 1..10 |-> PB(3) + i]
  <2>1. /\ DOMAIN pins = 1..10 /\ \A i \in 1..10 : pins[i] = 11 + i
    BY DEF PB
  <2>2. pins \in Seq(Nat)
    BY DEF PB
  <2> HIDE DEF pins
  <2>3. PinList(pins, 12..21)
    <3>1. \A i, j \in DOMAIN pins : pins[i] = pins[j] => i = j
      BY <2>1
    <3>2. \A i \in 1..10 : 11 + i \in 12..21
      OBVIOUS
    <3>3. \A i \in DOMAIN pins : pins[i] \in 12..21
      BY <2>1, <3>2
    <3> QED BY <2>2, <3>1, <3>3 DEF PinList
  <2>4. /\ Proper(Rows(1, pins, 1, PullUp, 7))
        /\ Cells(Rows(1, pins, 1, PullUp, 7)) \subseteq {1} \X (12..21)
    BY <2>3, RowsProper, Pulls
  <2> QED BY <2>4 DEF pins
<1>2. Proper(b) /\ Cells(b) \subseteq {1} \X {22}
  <2> DEFINE pins == <<PC(6)>>
  <2>1. pins = <<22>>
    BY DEF PC
  <2>2. PinList(pins, {22})
    BY <2>1 DEF PinList
  <2> HIDE DEF pins
  <2>3. /\ Proper(Rows(1, pins, 1, PullNone, DriveDefault))
        /\ Cells(Rows(1, pins, 1, PullNone, DriveDefault)) \subseteq {1} \X {22}
    BY <2>2, RowsProper, Pulls
  <2> QED BY <2>3 DEF pins
<1> HIDE DEF a, b
<1>3. ({1} \X (12..21)) \cap ({1} \X {22}) = {}
  OBVIOUS
<1>4. Proper(a \o b) /\ Cells(a \o b) \subseteq ({1} \X (12..21)) \cup ({1} \X {22})
  BY <1>1, <1>2, <1>3, JoinProper
<1> QED BY <1>4 DEF mEmmcIomuxConfig, a, b


\* Of the pins S of a group.
InGroup(t, g, S) == Proper(t) /\ Cells(t) \subseteq {g} \X S

LEMMA JoinInGroup ==
  ASSUME NEW s, NEW t, NEW g, NEW S, NEW T, InGroup(s, g, S), InGroup(t, g, T), S \cap T = {}
  PROVE  InGroup(s \o t, g, S \cup T)
<1>1. ({g} \X S) \cap ({g} \X T) = {} /\ ({g} \X S) \cup ({g} \X T) = {g} \X (S \cup T)
  OBVIOUS
<1> QED BY <1>1, JoinProper DEF InGroup

LEMMA GmacProper == Proper(mGmac1IomuxConfig) /\ Cells(mGmac1IomuxConfig) \subseteq {3} \X Nat
<1> DEFINE a == Rows(3, <<PC(4), PC(5)>>, 3, PullNone, DriveDefault)
           b == Rows(3, <<PB(5), PB(6)>>, 3, PullNone, 7)
           c == Rows(3, <<PB(7), PB(1), PB(2), PB(3), PA(7)>>, 3, PullNone, DriveDefault)
           d == Rows(3, <<PA(6)>>, 3, PullNone, 3)
           e == Rows(3, <<PC(0), PA(4), PA(5)>>, 3, PullNone, DriveDefault)
           f == Rows(3, <<PA(2), PA(3)>>, 3, PullNone, 7)
<1>1. InGroup(a, 3, {20, 21})
  <2> DEFINE pins == <<PC(4), PC(5)>>
  <2>1. PinList(pins, {20, 21})
    <3>1. pins = <<20, 21>>
      BY DEF PA, PB, PC
    <3> QED BY <3>1 DEF PinList
  <2> HIDE DEF pins
  <2>2. InGroup(Rows(3, pins, 3, PullNone, DriveDefault), 3, {20, 21})
    BY <2>1, RowsProper, Pulls DEF InGroup
  <2> QED BY <2>2 DEF pins
<1>2. InGroup(b, 3, {13, 14})
  <2> DEFINE pins == <<PB(5), PB(6)>>
  <2>1. PinList(pins, {13, 14})
    <3>1. pins = <<13, 14>>
      BY DEF PA, PB, PC
    <3> QED BY <3>1 DEF PinList
  <2> HIDE DEF pins
  <2>2. InGroup(Rows(3, pins, 3, PullNone, 7), 3, {13, 14})
    BY <2>1, RowsProper, Pulls DEF InGroup
  <2> QED BY <2>2 DEF pins
<1>3. InGroup(c, 3, {7, 9, 10, 11, 15})
  <2> DEFINE pins == <<PB(7), PB(1), PB(2), PB(3), PA(7)>>
  <2>1. PinList(pins, {7, 9, 10, 11, 15})
    <3>1. pins = <<15, 9, 10, 11, 7>>
      BY DEF PA, PB, PC
    <3> QED BY <3>1 DEF PinList
  <2> HIDE DEF pins
  <2>2. InGroup(Rows(3, pins, 3, PullNone, DriveDefault), 3, {7, 9, 10, 11, 15})
    BY <2>1, RowsProper, Pulls DEF InGroup
  <2> QED BY <2>2 DEF pins
<1>4. InGroup(d, 3, {6})
  <2> DEFINE pins == <<PA(6)>>
  <2>1. PinList(pins, {6})
    <3>1. pins = <<6>>
      BY DEF PA, PB, PC
    <3> QED BY <3>1 DEF PinList
  <2> HIDE DEF pins
  <2>2. InGroup(Rows(3, pins, 3, PullNone, 3), 3, {6})
    BY <2>1, RowsProper, Pulls DEF InGroup
  <2> QED BY <2>2 DEF pins
<1>5. InGroup(e, 3, {4, 5, 16})
  <2> DEFINE pins == <<PC(0), PA(4), PA(5)>>
  <2>1. PinList(pins, {4, 5, 16})
    <3>1. pins = <<16, 4, 5>>
      BY DEF PA, PB, PC
    <3> QED BY <3>1 DEF PinList
  <2> HIDE DEF pins
  <2>2. InGroup(Rows(3, pins, 3, PullNone, DriveDefault), 3, {4, 5, 16})
    BY <2>1, RowsProper, Pulls DEF InGroup
  <2> QED BY <2>2 DEF pins
<1>6. InGroup(f, 3, {2, 3})
  <2> DEFINE pins == <<PA(2), PA(3)>>
  <2>1. PinList(pins, {2, 3})
    <3>1. pins = <<2, 3>>
      BY DEF PA, PB, PC
    <3> QED BY <3>1 DEF PinList
  <2> HIDE DEF pins
  <2>2. InGroup(Rows(3, pins, 3, PullNone, 7), 3, {2, 3})
    BY <2>1, RowsProper, Pulls DEF InGroup
  <2> QED BY <2>2 DEF pins
<1> HIDE DEF a, b, c, d, e, f
<1> DEFINE P2 == {20, 21} \cup {13, 14}
           P3 == P2 \cup {7, 9, 10, 11, 15}
           P4 == P3 \cup {6}
           P5 == P4 \cup {4, 5, 16}
           P6 == P5 \cup {2, 3}
<1>7. InGroup(a \o b, 3, P2)
  <2>1. {20, 21} \cap {13, 14} = {}
    OBVIOUS
  <2> QED BY <1>1, <1>2, <2>1, JoinInGroup
<1>8. InGroup(a \o b \o c, 3, P3)
  <2>1. P2 \cap {7, 9, 10, 11, 15} = {}
    OBVIOUS
  <2> QED BY <1>7, <1>3, <2>1, JoinInGroup
<1>9. InGroup(a \o b \o c \o d, 3, P4)
  <2>1. P3 \cap {6} = {}
    OBVIOUS
  <2> QED BY <1>8, <1>4, <2>1, JoinInGroup
<1>10. InGroup(a \o b \o c \o d \o e, 3, P5)
  <2>1. P4 \cap {4, 5, 16} = {}
    OBVIOUS
  <2> QED BY <1>9, <1>5, <2>1, JoinInGroup
<1>11. InGroup(a \o b \o c \o d \o e \o f, 3, P6)
  <2>1. P5 \cap {2, 3} = {}
    OBVIOUS
  <2> QED BY <1>10, <1>6, <2>1, JoinInGroup
<1>12. InGroup(mGmac1IomuxConfig, 3, P6)
  BY <1>11, Zenon DEF mGmac1IomuxConfig, a, b, c, d, e, f
<1> QED BY <1>12 DEF InGroup


------------------------------------------------------------------------------
(* Clocks of the SD and eMMC controllers. *)

LEMMA SdmmcSelected == SdmmcSel(100000) = 3 /\ SdmmcRates[3] = 100000 /\ 3 \in DOMAIN SdmmcRates
<1>1. /\ DOMAIN SdmmcRates = 0..5
      /\ SdmmcRates[0] = 24000 /\ SdmmcRates[1] = 400000 /\ SdmmcRates[2] = 300000
      /\ SdmmcRates[3] = 100000 /\ SdmmcRates[4] = 50000 /\ SdmmcRates[5] = 750
  BY DEF SdmmcRates
<1> DEFINE Slowest(s) == /\ SdmmcRates[s] >= 100000
                         /\ \A t \in 0..5 : SdmmcRates[t] >= 100000
                                              => SdmmcRates[t] >= SdmmcRates[s]
<1>2. 3 \in 0..5 /\ Slowest(3)
  BY <1>1
<1>3. \A s \in 0..5 : Slowest(s) => s = 3
  BY <1>1
<1>4. SdmmcSel(100000) = CHOOSE s \in 0..5 : Slowest(s)
  BY DEF SdmmcSel
<1> HIDE DEF Slowest
<1>5. SdmmcSel(100000) = 3
  BY <1>2, <1>3, <1>4
<1> QED BY <1>1, <1>5

SdmmcBits(Index) == {CLKSEL30} \X (SdmmcShift(Index)..(SdmmcShift(Index) + 2))

LEMMA SdmmcClockSet ==
  ASSUME NEW r, NEW Index
  PROVE  CruGetSdmmcClockRate(CruSetSdmmcClockRate(r, Index, 100000), Index) = 100000
<1> DEFINE s == SdmmcShift(Index)
           w == CruSetSdmmcClockRate(r, Index, 100000)
<1>1. s \in Nat
  BY DEF SdmmcShift
<1>2. w = HiwordWrite(r, CLKSEL30, s..(s + 2), Bits(3, s))
  BY SdmmcSelected DEF CruSetSdmmcClockRate
<1> HIDE DEF s, w
<1>3. Field(w, CLKSEL30, s, s + 2) = 3
  BY <1>1, <1>2, TripleWritten
<1>4. CruGetSdmmcClockRate(w, Index) = 100000
  BY <1>3, SdmmcSelected DEF CruGetSdmmcClockRate, s
<1> QED BY <1>4 DEF w

LEMMA SdmmcClockKept ==
  ASSUME NEW r, NEW s, NEW Index, Keeps(SdmmcBits(Index), r, s)
  PROVE  CruGetSdmmcClockRate(s, Index) = CruGetSdmmcClockRate(r, Index)
<1> DEFINE lo == SdmmcShift(Index)
<1>1. \A k \in lo..(lo + 2) : <<CLKSEL30, k>> \in r <=> <<CLKSEL30, k>> \in s
  BY DEF Keeps, SdmmcBits
<1>2. Field(r, CLKSEL30, lo, lo + 2) = Field(s, CLKSEL30, lo, lo + 2)
  BY <1>1, FieldKept
<1> QED BY <1>2 DEF CruGetSdmmcClockRate

LEMMA EmmcSelected ==
  /\ EmmcSel(200000) = 1 /\ EmmcSel(52000) = 4 /\ EmmcSel(26000) = 0
  /\ EmmcRates[1] = 200000 /\ EmmcRates[4] = 50000 /\ EmmcRates[0] = 24000
<1>1. /\ EmmcRates[0] = 24000 /\ EmmcRates[1] = 200000 /\ EmmcRates[2] = 150000
      /\ EmmcRates[3] = 100000 /\ EmmcRates[4] = 50000
  BY DEF EmmcRates
<1> DEFINE Fastest(Rate, s) == /\ EmmcRates[s] <= Rate
                               /\ \A t \in 0..4 : EmmcRates[t] <= Rate
                                                    => EmmcRates[t] <= EmmcRates[s]
<1>2. Fastest(200000, 1) /\ Fastest(52000, 4) /\ Fastest(26000, 0)
  BY <1>1
<1>3. \A s \in 0..4 : /\ Fastest(200000, s) => s = 1
                      /\ Fastest(52000, s) => s = 4
                      /\ Fastest(26000, s) => s = 0
  BY <1>1
<1>4. \A Rate \in {200000, 52000, 26000} : EmmcSel(Rate) = CHOOSE s \in 0..4 : Fastest(Rate, s)
  BY DEF EmmcSel
<1>5. 0 \in 0..4 /\ 1 \in 0..4 /\ 4 \in 0..4
  OBVIOUS
<1> HIDE DEF Fastest
<1>6. EmmcSel(200000) = 1
  BY <1>2, <1>3, <1>4, <1>5
<1>7. EmmcSel(52000) = 4
  BY <1>2, <1>3, <1>4, <1>5
<1>8. EmmcSel(26000) = 0
  BY <1>2, <1>3, <1>4, <1>5
<1> QED BY <1>1, <1>6, <1>7, <1>8

\* The eMMC's clock selector, and the delay lines' switches.
EmmcClockBits == ({CLKSEL28} \X (12..14)) \cup {<<DLL("CTRL"), 1>>, <<DLL("RXCLK"), 27>>}

LEMMA EmmcClockKept ==
  ASSUME NEW r, NEW s, Keeps(EmmcClockBits, r, s)
  PROVE  /\ CruGetEmmcClockRate(s) = CruGetEmmcClockRate(r)
         /\ <<DLL("CTRL"), 1>> \in s <=> <<DLL("CTRL"), 1>> \in r
         /\ <<DLL("RXCLK"), 27>> \in s <=> <<DLL("RXCLK"), 27>> \in r
<1>1. \A k \in 12..14 : <<CLKSEL28, k>> \in r <=> <<CLKSEL28, k>> \in s
  BY DEF Keeps, EmmcClockBits
<1>2. Field(r, CLKSEL28, 12, 14) = Field(s, CLKSEL28, 12, 14)
  BY <1>1, FieldKept
<1> QED BY <1>2 DEF CruGetEmmcClockRate, Keeps, EmmcClockBits

LEMMA DllWritten ==
  ASSUME NEW r
  PROVE  /\ Keeps({CLKSEL28} \X (12..14), r, DllOff(r))
         /\ Keeps({CLKSEL28} \X (12..14), r, DllOn(r))
         /\ <<DLL("CTRL"), 1>> \notin DllOff(r) /\ <<DLL("RXCLK"), 27>> \notin DllOff(r)
         /\ <<DLL("CTRL"), 1>> \in DllOn(r) /\ <<DLL("RXCLK"), 27>> \in DllOn(r)
<1> DEFINE Lines(p, q, s, t) == MmioWrite(MmioWrite(MmioWrite(MmioWrite(r,
                DLL("CTRL"), p), DLL("RXCLK"), q), DLL("TXCLK"), s), DLL("STRBIN"), t)
<1>1. /\ DLL("CTRL") # DLL("RXCLK") /\ DLL("CTRL") # DLL("TXCLK") /\ DLL("CTRL") # DLL("STRBIN")
      /\ DLL("RXCLK") # DLL("TXCLK") /\ DLL("RXCLK") # DLL("STRBIN")
  BY DEF DLL
<1>3. \A s, reg, bits, b : /\ <<reg, b>> \in MmioWrite(s, reg, bits) <=> b \in bits
                           /\ \A other : other # reg =>
                                (<<other, b>> \in MmioWrite(s, reg, bits) <=> <<other, b>> \in s)
  BY DEF MmioWrite
<1>4. ASSUME NEW p, NEW q, NEW s, NEW t
      PROVE  /\ <<DLL("CTRL"), 1>> \in Lines(p, q, s, t) <=> 1 \in p
             /\ <<DLL("RXCLK"), 27>> \in Lines(p, q, s, t) <=> 27 \in q
             /\ \A n : CLKSEL28 # DLL(n)
             /\ \A b : <<CLKSEL28, b>> \in Lines(p, q, s, t) <=> <<CLKSEL28, b>> \in r
  <2> DEFINE a == MmioWrite(r, DLL("CTRL"), p)
             b == MmioWrite(a, DLL("RXCLK"), q)
             c == MmioWrite(b, DLL("TXCLK"), s)
             d == MmioWrite(c, DLL("STRBIN"), t)
  <2>1. /\ <<DLL("CTRL"), 1>> \in a <=> 1 \in p
        /\ \A reg, k : reg # DLL("CTRL") => (<<reg, k>> \in a <=> <<reg, k>> \in r)
    BY <1>3
  <2> HIDE DEF a
  <2>2. /\ <<DLL("RXCLK"), 27>> \in b <=> 27 \in q
        /\ \A reg, k : reg # DLL("RXCLK") => (<<reg, k>> \in b <=> <<reg, k>> \in a)
    <3>1. <<DLL("RXCLK"), 27>> \in b <=> 27 \in q
      BY <1>3
    <3>2. \A reg, k : reg # DLL("RXCLK") => (<<reg, k>> \in b <=> <<reg, k>> \in a)
      BY <1>3
    <3> QED BY <3>1, <3>2
  <2> HIDE DEF b
  <2>3. \A reg, k : reg # DLL("TXCLK") => (<<reg, k>> \in c <=> <<reg, k>> \in b)
    BY <1>3
  <2> HIDE DEF c
  <2>4. \A reg, k : reg # DLL("STRBIN") => (<<reg, k>> \in d <=> <<reg, k>> \in c)
    BY <1>3
  <2> HIDE DEF d
  <2>5. \A n : CLKSEL28 # DLL(n)
    BY DEF CLKSEL28, DLL
  <2>6. /\ <<DLL("CTRL"), 1>> \in d <=> 1 \in p
        /\ <<DLL("RXCLK"), 27>> \in d <=> 27 \in q
        /\ \A k : <<CLKSEL28, k>> \in d <=> <<CLKSEL28, k>> \in r
    BY <1>1, <2>1, <2>2, <2>3, <2>4, <2>5
  <2> QED BY <2>5, <2>6 DEF a, b, c, d
<1>5. ASSUME NEW p, NEW q, NEW s, NEW t
      PROVE  Keeps({CLKSEL28} \X (12..14), r, Lines(p, q, s, t))
  <2>1. \A b : <<CLKSEL28, b>> \in Lines(p, q, s, t) <=> <<CLKSEL28, b>> \in r
    BY <1>4
  <2> HIDE DEF Lines
  <2> QED BY <2>1 DEF Keeps
<1>6. DllOff(r) = Lines({}, {29}, {}, {}) /\ DllOn(r) = Lines({1, 9, 16, 18}, {27, 29}, {4, 24, 27}, {0, 1, 27})
  BY DEF DllOff, DllOn
<1> HIDE DEF Lines
<1>7. Keeps({CLKSEL28} \X (12..14), r, DllOff(r)) /\ Keeps({CLKSEL28} \X (12..14), r, DllOn(r))
  <2>1. Keeps({CLKSEL28} \X (12..14), r, DllOff(r))
    BY <1>5, <1>6
  <2>2. Keeps({CLKSEL28} \X (12..14), r, DllOn(r))
    BY <1>5, <1>6
  <2> QED BY <2>1, <2>2
<1>8. /\ <<DLL("CTRL"), 1>> \notin DllOff(r) /\ <<DLL("RXCLK"), 27>> \notin DllOff(r)
      /\ <<DLL("CTRL"), 1>> \in DllOn(r) /\ <<DLL("RXCLK"), 27>> \in DllOn(r)
  BY <1>4, <1>6
<1> QED BY <1>7, <1>8

LEMMA EmmcRateSet ==
  ASSUME NEW r, NEW Rate, EmmcSel(Rate) \in 0..4
  PROVE  LET w == CruSetEmmcClockRate(r, Rate)
         IN  /\ CruGetEmmcClockRate(DllOff(w)) = EmmcRates[EmmcSel(Rate)]
             /\ CruGetEmmcClockRate(DllOn(w)) = EmmcRates[EmmcSel(Rate)]
<1> DEFINE w == CruSetEmmcClockRate(r, Rate)
           n == EmmcSel(Rate)
<1>1. w = HiwordWrite(r, CLKSEL28, (8..9) \cup (12..14), Bits(n, 12))
  BY DEF CruSetEmmcClockRate
<1> HIDE DEF w, n
<1>2. Field(w, CLKSEL28, 12, 14) = n
  <2>1. n \in 0..7
    BY DEF n
  <2> DEFINE mask == (8..9) \cup (12..14)
  <2>2. 12..(12 + 2) \subseteq mask
    OBVIOUS
  <2> HIDE DEF mask
  <2>3. Field(HiwordWrite(r, CLKSEL28, mask, Bits(n, 12)), CLKSEL28, 12, 12 + 2) = n
    BY <2>1, <2>2, TripleWritten
  <2>4. 12 + 2 = 14
    OBVIOUS
  <2> QED BY <1>1, <2>3, <2>4 DEF mask
<1>3. ASSUME NEW s, Keeps({CLKSEL28} \X (12..14), w, s)
      PROVE  CruGetEmmcClockRate(s) = EmmcRates[n]
  <2>1. \A k \in 12..14 : <<CLKSEL28, k>> \in w <=> <<CLKSEL28, k>> \in s
    BY <1>3 DEF Keeps
  <2>2. Field(s, CLKSEL28, 12, 14) = n
    BY <1>2, <2>1, FieldKept
  <2> QED BY <2>2 DEF CruGetEmmcClockRate
<1>4. CruGetEmmcClockRate(DllOff(w)) = EmmcRates[n] /\ CruGetEmmcClockRate(DllOn(w)) = EmmcRates[n]
  BY <1>3, DllWritten
<1> QED BY <1>4 DEF w, n

BusModes == {"HS400", "HS200", "HsSdr", "HsDdr", "legacy"}

ClockFits(r, Timing) ==
    /\ CruGetEmmcClockRate(r) <= MaxClockFreq(Timing)
    /\ <<DLL("CTRL"), 1>> \in r <=> CruGetEmmcClockRate(r) >= 50000
    /\ <<DLL("RXCLK"), 27>> \in r <=> <<DLL("CTRL"), 1>> \in r

LEMMA Limits ==
  /\ MaxClockFreq("HS400") = 200000 /\ MaxClockFreq("HS200") = 200000
  /\ MaxClockFreq("HsSdr") = 52000 /\ MaxClockFreq("HsDdr") = 52000
  /\ MaxClockFreq("legacy") = 26000
<1>1. MaxClockFreq("HS400") = 200000
  BY DEF MaxClockFreq
<1>2. MaxClockFreq("HS200") = 200000
  BY DEF MaxClockFreq
<1>3. MaxClockFreq("HsSdr") = 52000
  BY DEF MaxClockFreq
<1>4. MaxClockFreq("HsDdr") = 52000
  BY DEF MaxClockFreq
<1>5. MaxClockFreq("legacy") = 26000
  BY DEF MaxClockFreq
<1> QED BY <1>1, <1>2, <1>3, <1>4, <1>5

LEMMA ModeFits ==
  ASSUME NEW r, NEW t \in BusModes
  PROVE  ClockFits(SwitchClockFreqPost(r, t), t)
<1> DEFINE w == CruSetEmmcClockRate(r, MaxClockFreq(t))
           s == SwitchClockFreqPost(r, t)
<1>1. CASE t \in {"HS400", "HS200"}
  <2>1. MaxClockFreq(t) = 200000
    BY <1>1, Limits
  <2>2. s = DllOn(w)
    BY <2>1 DEF SwitchClockFreqPost
  <2>3. CruGetEmmcClockRate(s) = 200000
    BY <2>1, <2>2, EmmcSelected, EmmcRateSet
  <2> HIDE DEF w, s
  <2>4. ClockFits(s, t)
    BY <2>1, <2>2, <2>3, DllWritten DEF ClockFits
  <2> QED BY <2>4 DEF s
<1>2. CASE t \in {"HsSdr", "HsDdr"}
  <2>1. MaxClockFreq(t) = 52000
    BY <1>2, Limits
  <2>2. s = DllOn(w)
    BY <2>1 DEF SwitchClockFreqPost
  <2>3. CruGetEmmcClockRate(s) = 50000
    BY <2>1, <2>2, EmmcSelected, EmmcRateSet
  <2> HIDE DEF w, s
  <2>4. ClockFits(s, t)
    BY <2>1, <2>2, <2>3, DllWritten DEF ClockFits
  <2> QED BY <2>4 DEF s
<1>3. CASE t = "legacy"
  <2>1. MaxClockFreq(t) = 26000
    BY <1>3, Limits
  <2>2. s = DllOff(w)
    BY <2>1 DEF SwitchClockFreqPost
  <2>3. CruGetEmmcClockRate(s) = 24000
    BY <2>1, <2>2, EmmcSelected, EmmcRateSet
  <2> HIDE DEF w, s
  <2>4. ClockFits(s, t)
    BY <2>1, <2>2, <2>3, DllWritten DEF ClockFits
  <2> QED BY <2>4 DEF s
<1> QED BY <1>1, <1>2, <1>3 DEF BusModes

LEMMA PinTables ==
  /\ mGmac1IomuxConfig \in Seq(PinRows) /\ mSdmmc1IomuxConfig \in Seq(PinRows)
  /\ mSdmmc0IomuxConfig \in Seq(PinRows) /\ mEmmcIomuxConfig \in Seq(PinRows)
  BY GmacProper, Sdmmc1Proper, Sdmmc0Proper, EmmcProper DEF Proper

\* Bits of registers that several drivers write.
SharedNames == {"SOFTRST", "PIPE_GRF", "PMUCLKSEL", "PMUPLL", "DR", "DDR", "GATE",
                "PCIE_APB", "DWC3", "CLKSEL", "IOMUX", "P", "EMMC_DLL"}

Shared(W) == \A x \in W : x[1][1] \in SharedNames

\* Bits a pin's level and direction are in.
PinApart(W, g, pin) ==
    /\ <<<<"DDR", g, pin \div 16>>, pin % 16>> \notin W
    /\ <<<<"DR", g, pin \div 16>>, pin % 16>> \notin W

\* The bits of W are not among those that a driver writes in such registers.
MshcApart(W) ==
    /\ Disjoint(W, SdmmcBits(0)) /\ TableApart(W, mSdmmc0IomuxConfig)
    /\ <<<<"SOFTRST", 13>>, 4>> \notin W

NotifyApart(W) == \A x \in W : x[1] # CLKSEL28 /\ x[1][1] # "EMMC_DLL"
EmmcApart(W) == NotifyApart(W) /\ TableApart(W, mEmmcIomuxConfig)

PmicApart(W) == Disjoint(W, PinBits(0, PB(1))) /\ Disjoint(W, PinBits(0, PB(2)))

GmacApart(W) ==
    /\ TableApart(W, mGmac1IomuxConfig) /\ PinApart(W, 0, PB(7))
    /\ <<<<"SOFTRST", 14>>, 12>> \notin W /\ \A x \in W : x[1] # <<"CLKSEL", 33>>

WiFiApart(W) ==
    /\ Disjoint(W, SdmmcBits(1)) /\ TableApart(W, mSdmmc1IomuxConfig)
    /\ PinApart(W, 2, PB(1))

LEMMA SdmmcKeeps ==
  ASSUME NEW W, NEW i, Disjoint(W, SdmmcBits(i)), NEW r, NEW rate
  PROVE  Keeps(W, r, CruSetSdmmcClockRate(r, i, rate))
<1> DEFINE s == SdmmcShift(i)
<1>1. \A b \in s..(s + 2) : <<CLKSEL30, b>> \in SdmmcBits(i)
  BY DEF SdmmcBits
<1> HIDE DEF s
<1>2. Keeps(W, r, HiwordWrite(r, CLKSEL30, s..(s + 2), Bits(SdmmcSel(rate), s)))
  BY <1>1, HiwordKeeps DEF Disjoint
<1> QED BY <1>2 DEF CruSetSdmmcClockRate, s

LEMMA TableKeeps ==
  ASSUME NEW W, Shared(W), NEW c \in Seq(PinRows), TableApart(W, c), NEW r
  PROVE  Keeps(W, r, GpioSetIomuxConfig(r, c))
  BY TableLeaves DEF Shared, SharedNames

LEMMA MshcKeeps ==
  ASSUME NEW W, Shared(W), MshcApart(W), MshcDxeInitialize
  PROVE  Keeps(W, regs, regs')
<1> DEFINE a == CruSetSdmmcClockRate(regs, 0, 100000)
           b == CruDeassertSoftReset(CruAssertSoftReset(a, 13, 4), 13, 4)
           c == GpioSetIomuxConfig(b, mSdmmc0IomuxConfig)
<1>1. \A x \in W : x[1][1] # "DWEMMC"
  BY DEF Shared, SharedNames
<1>2. Keeps(W, regs, a)
  BY SdmmcKeeps DEF MshcApart
<1> HIDE DEF a
<1>3. Keeps(W, a, b)
  <2> DEFINE h == CruAssertSoftReset(a, 13, 4)
  <2>1. Keeps(W, a, h)
    BY ResetKeeps DEF MshcApart
  <2> HIDE DEF h
  <2>2. Keeps(W, h, CruDeassertSoftReset(h, 13, 4))
    BY ResetKeeps DEF MshcApart
  <2>3. Keeps(W, a, CruDeassertSoftReset(h, 13, 4))
    BY <2>1, <2>2, KeepsChain
  <2> QED BY <2>3 DEF h
<1> HIDE DEF b
<1>4. Keeps(W, b, c)
  BY TableKeeps, PinTables DEF MshcApart
<1> HIDE DEF c
<1>5. Keeps(W, c, MshcAdjustFifoThreshold(c))
  BY <1>1, NameKeeps DEF MshcAdjustFifoThreshold, FIFOTH
<1>6. regs' = MshcAdjustFifoThreshold(c)
  BY DEF MshcDxeInitialize, a, b, c
<1> QED BY <1>2, <1>3, <1>4, <1>5, <1>6, KeepsChain

LEMMA TsadcKeeps ==
  ASSUME NEW W, Shared(W), InitializeTsadc
  PROVE  Keeps(W, regs, regs')
<1> DEFINE a == MmioWrite(regs, TSADC("USER_CON"), 6..11)
           b == MmioWrite(a, TSADC("AUTO_PERIOD"), Bits(1622, 0))
           c == MmioWrite(b, TSADC("AUTO_PERIOD_HT"), Bits(1622, 0))
           d == MmioWrite(c, TSADC("HIGHT_INT_DEBOUNCE"), {2})
           e == MmioWrite(d, TSADC("HIGHT_TSHUT_DEBOUNCE"), {2})
           f == MmioWrite(e, TSADC("AUTO_CON"), {4, 5})
           g == HiwordWrite(f, <<"GRF_TSADC_CON">>, {8}, {8})
           h == HiwordWrite(g, <<"GRF_TSADC_CON">>, 0..2, 0..2)
           k == MmioAndThenOr(h, TSADC("AUTO_CON"), {}, {0, 1})
<1>1. \A x \in W : x[1][1] \notin {"TSADC", "GRF_TSADC_CON"}
  BY DEF Shared, SharedNames
<1>2. \A r, n, mask, bits : /\ Keeps(W, r, MmioWrite(r, TSADC(n), bits))
                            /\ Keeps(W, r, MmioAndThenOr(r, TSADC(n), mask, bits))
  BY <1>1, NameKeeps DEF TSADC
<1>3. \A r, mask, bits : Keeps(W, r, HiwordWrite(r, <<"GRF_TSADC_CON">>, mask, bits))
  BY <1>1, NameKeeps
<1>4. regs' = k
  BY DEF InitializeTsadc
<1>5. Keeps(W, regs, a) /\ Keeps(W, a, b) /\ Keeps(W, b, c) /\ Keeps(W, c, d)
  BY <1>2
<1>6. Keeps(W, d, e) /\ Keeps(W, e, f) /\ Keeps(W, h, k)
  <2> HIDE DEF d, h
  <2> QED BY <1>2
<1>7. Keeps(W, f, g) /\ Keeps(W, g, h)
  <2> HIDE DEF f
  <2> QED BY <1>3
<1> HIDE DEF a, b, c, d, e, f, g, h, k
<1> QED BY <1>4, <1>5, <1>6, <1>7 DEF Keeps

LEMMA DllKeeps ==
  ASSUME NEW W, NotifyApart(W)
  PROVE  \A r : Keeps(W, r, DllOff(r)) /\ Keeps(W, r, DllOn(r))
<1>1. \A x \in W : x[1][1] # "EMMC_DLL"
  BY DEF NotifyApart
<1>2. \A r, n, bits : Keeps(W, r, MmioWrite(r, DLL(n), bits))
  BY <1>1, NameKeeps DEF DLL
<1>3. ASSUME NEW r, NEW p, NEW q, NEW s, NEW t
      PROVE  Keeps(W, r, MmioWrite(MmioWrite(MmioWrite(MmioWrite(r,
                DLL("CTRL"), p), DLL("RXCLK"), q), DLL("TXCLK"), s), DLL("STRBIN"), t))
  <2> DEFINE a == MmioWrite(r, DLL("CTRL"), p)
             b == MmioWrite(a, DLL("RXCLK"), q)
             c == MmioWrite(b, DLL("TXCLK"), s)
  <2>1. Keeps(W, r, a) /\ Keeps(W, a, b) /\ Keeps(W, b, c) /\ Keeps(W, c, MmioWrite(c, DLL("STRBIN"), t))
    BY <1>2
  <2> HIDE DEF a, b, c
  <2>2. Keeps(W, r, MmioWrite(c, DLL("STRBIN"), t))
    BY <2>1 DEF Keeps
  <2> QED BY <2>2 DEF a, b, c
<1> QED BY <1>3 DEF DllOff, DllOn

LEMMA EmmcKeeps ==
  ASSUME NEW W, Shared(W), NotifyApart(W), EmmcDxeInitialize \/ EmmcSdMmcNotifyPhase
  PROVE  Keeps(W, regs, regs') \/ (EmmcDxeInitialize /\ ~EmmcApart(W))
<1>1. \A x \in W : x[1][1] \notin {"EMMC_CLOCK_CTRL", "EMMC_HOST_CTRL2", "DWCMSHC_HOST_CTRL3"}
  BY DEF Shared, SharedNames
<1>2. \A r, rate : Keeps(W, r, CruSetEmmcClockRate(r, rate))
  <2>1. \A b : <<CLKSEL28, b>> \notin W
    BY DEF NotifyApart
  <2> QED BY <2>1, HiwordKeeps DEF CruSetEmmcClockRate
<1>3. CASE EmmcDxeInitialize /\ EmmcApart(W)
  <2> DEFINE a == CruSetEmmcClockRate(regs, 375)
             b == GpioSetIomuxConfig(a, mEmmcIomuxConfig)
             c == MmioWrite(b, <<"DWCMSHC_HOST_CTRL3">>, {})
  <2>1. Keeps(W, regs, a)
    BY <1>2
  <2> HIDE DEF a
  <2>2. Keeps(W, a, b)
    BY <1>3, TableKeeps, PinTables DEF EmmcApart
  <2> HIDE DEF b
  <2>3. Keeps(W, b, c)
    BY <1>1, NameKeeps
  <2> HIDE DEF c
  <2>4. Keeps(W, c, DllOff(c))
    BY DllKeeps
  <2>5. regs' = DllOff(c)
    BY <1>3 DEF EmmcDxeInitialize, a, b, c
  <2> QED BY <2>1, <2>2, <2>3, <2>4, <2>5, KeepsChain
<1>4. CASE EmmcSdMmcNotifyPhase
  <2>1. Keeps(W, regs, InitHostPost(regs))
    BY <1>1, NameKeeps DEF InitHostPost
  <2>2. \A t : Keeps(W, regs, UhsSignaling(regs, t))
    <3>1. Keeps(W, regs, MmioAndThenOr(regs, <<"EMMC_HOST_CTRL2">>, {}, {0, 1, 2}))
      BY <1>1, NameKeeps
    <3> QED BY <3>1, KeepsItself DEF UhsSignaling
  <2>3. \A t : Keeps(W, regs, SwitchClockFreqPost(regs, t))
    BY <1>2, DllKeeps, KeepsChain DEF SwitchClockFreqPost
  <2> QED BY <1>4, <2>1, <2>2, <2>3 DEF EmmcSdMmcNotifyPhase
<1> QED BY <1>3, <1>4

LEMMA PinOutput ==
  ASSUME NEW g, NEW pin \in 0..31, NEW W, PinApart(W, g, pin), NEW r, NEW v
  PROVE  Keeps(W, r, Output(r, g, pin, v)) /\ Keeps(W, r, GpioPinWrite(r, g, pin, v))
  BY OutputKeeps DEF PinApart

LEMMA PmicKeeps ==
  ASSUME NEW W, Shared(W), PmicApart(W), BoardInitPmic
  PROVE  Keeps(W, regs, regs')
<1>1. \A x \in W : x[1][1] # "IE"
  BY DEF Shared, SharedNames
<1>2. ASSUME NEW r, NEW pin \in Nat, Disjoint(W, PinBits(0, pin))
      PROVE  Keeps(W, r, PmicPin(r, pin))
  <2> DEFINE a == GpioPinSetPull(r, 0, pin, PullNone)
             b == GpioPinSetInput(a, 0, pin, InputSchmitt)
  <2>1. Keeps(W, r, a)
    BY <1>2, PinFieldsKeep
  <2> HIDE DEF a
  <2>2. Keeps(W, a, b)
    BY <1>1, PinFieldKeeps DEF GpioPinSetInput
  <2> HIDE DEF b
  <2>3. Keeps(W, b, GpioPinSetFunction(b, 0, pin, 1))
    BY <1>2, PinFieldsKeep
  <2>4. Keeps(W, r, GpioPinSetFunction(b, 0, pin, 1))
    BY <2>1, <2>2, <2>3, KeepsChain
  <2> QED BY <2>4 DEF PmicPin, a, b
<1>3. regs' = PmicPin(PmicPin(regs, PB(1)), PB(2))
  BY DEF BoardInitPmic
<1>4. PB(1) \in Nat /\ PB(2) \in Nat
  BY DEF PB
<1> QED BY <1>2, <1>3, <1>4, KeepsChain DEF PmicApart

\* The registers of the processor that BoardInitDxe writes before the PHYs.
BeforeUsbPhys ==
    LET noc == MmioWrite(MmioWrite(regs, <<"PMU_NOC_AUTO", 0>>, 0..31),
                         <<"PMU_NOC_AUTO", 1>>, (0..3) \cup (16..19))
    IN  HiwordWrite(noc, <<"GRF_CPU_COREPVTPLL">>, {0, 1} \cup (3..7), {0, 1, 3, 5})

LEMMA UsbStepKeeps ==
  ASSUME NEW W, Shared(W), PhyApart(W, 0), PhyApart(W, 1),
         PinApart(W, 0, PA(6)), PinApart(W, 0, PA(5)), BoardInitUsb
  PROVE  Keeps(W, regs, regs')
<1> DEFINE a == MmioWrite(regs, <<"PMU_NOC_AUTO", 0>>, 0..31)
           b == MmioWrite(a, <<"PMU_NOC_AUTO", 1>>, (0..3) \cup (16..19))
           c == HiwordWrite(b, <<"GRF_CPU_COREPVTPLL">>, {0, 1} \cup (3..7), {0, 1, 3, 5})
           d == MultiPhySetMode(c, 0, "USB3").regs
           e == MultiPhySetMode(d, 1, "USB3").regs
           f == Output(e, 0, PA(6), 1)
           g == Output(f, 0, PA(5), 1)
<1>1. \A x \in W : x[1][1] \notin {"PMU_NOC_AUTO", "GRF_CPU_COREPVTPLL"}
  BY DEF Shared, SharedNames
<1>2. regs' = g
  BY DEF BoardInitUsb, UsbPhys
<1>3. Keeps(W, regs, a)
  BY <1>1, NameKeeps
<1> HIDE DEF a
<1>4. Keeps(W, a, b)
  BY <1>1, NameKeeps
<1> HIDE DEF b
<1>5. Keeps(W, b, c)
  BY <1>1, NameKeeps
<1> HIDE DEF c
<1>6. Keeps(W, c, d)
  BY SetModeKeeps
<1> HIDE DEF d
<1>7. Keeps(W, d, e)
  BY SetModeKeeps
<1> HIDE DEF e
<1>8. PA(5) \in 0..31 /\ PA(6) \in 0..31
  BY DEF PA
<1>9. Keeps(W, e, f)
  BY <1>8, PinOutput
<1> HIDE DEF f
<1>10. Keeps(W, f, g)
  BY <1>8, PinOutput
<1> HIDE DEF g
<1> QED BY <1>2, <1>3, <1>4, <1>5, <1>6, <1>7, <1>9, <1>10 DEF Keeps

LEMMA GmacKeeps ==
  ASSUME NEW W, Shared(W), GmacApart(W), BoardInitGmac
  PROVE  Keeps(W, regs, regs')
<1> DEFINE a == CruAssertSoftReset(regs, 14, 12)
           b == GpioSetIomuxConfig(a, mGmac1IomuxConfig)
           c == HiwordWrite(b, <<"CLKSEL", 33>>, {0, 1, 2, 4, 5}, {2})
           d == HiwordWrite(c, <<"GRF_MAC1", 0>>, (0..6) \cup (8..14),
                            Bits(78, 0) \cup Bits(44, 8))
           e == HiwordWrite(d, <<"GRF_MAC1", 1>>, {0, 1} \cup (4..6), {0, 1, 4})
           f == Output(e, 0, PB(7), 0)
           g == GpioPinWrite(f, 0, PB(7), 1)
           h == CruDeassertSoftReset(g, 14, 12)
<1>1. \A x \in W : x[1][1] \notin {"GRF_MAC1"}
  BY DEF Shared, SharedNames
<1>2. regs' = h
  BY DEF BoardInitGmac, GmacClocks
<1>3. Keeps(W, regs, a)
  BY ResetKeeps DEF GmacApart
<1> HIDE DEF a
<1>4. Keeps(W, a, b)
  BY TableKeeps, PinTables DEF GmacApart
<1> HIDE DEF b
<1>5. Keeps(W, b, c)
  BY HiwordKeeps DEF GmacApart
<1> HIDE DEF c
<1>6. Keeps(W, c, d)
  BY <1>1, NameKeeps
<1> HIDE DEF d
<1>7. Keeps(W, d, e)
  BY <1>1, NameKeeps
<1> HIDE DEF e
<1>8. PB(7) \in 0..31
  BY DEF PB
<1>9. Keeps(W, e, f)
  BY <1>8, PinOutput DEF GmacApart
<1> HIDE DEF f
<1>10. Keeps(W, f, g)
  BY <1>8, PinOutput DEF GmacApart
<1> HIDE DEF g
<1>11. Keeps(W, g, h)
  BY ResetKeeps DEF GmacApart
<1> HIDE DEF h
<1> QED BY <1>2, <1>3, <1>4, <1>5, <1>6, <1>7, <1>9, <1>10, <1>11 DEF Keeps

LEMMA WiFiKeeps ==
  ASSUME NEW W, Shared(W), WiFiApart(W), BoardInitWiFi
  PROVE  Keeps(W, regs, regs')
<1> DEFINE a == CruSetSdmmcClockRate(regs, 1, 100000)
           b == GpioSetIomuxConfig(a, mSdmmc1IomuxConfig)
           c == Output(b, 2, PB(1), 0)
           d == GpioPinWrite(c, 2, PB(1), 1)
<1>2. regs' = d
  BY DEF BoardInitWiFi
<1>3. Keeps(W, regs, a)
  BY SdmmcKeeps DEF WiFiApart
<1> HIDE DEF a
<1>4. Keeps(W, a, b)
  BY TableKeeps, PinTables DEF WiFiApart
<1> HIDE DEF b
<1>5. PB(1) \in 0..31
  BY DEF PB
<1>6. Keeps(W, b, c)
  BY <1>5, PinOutput DEF WiFiApart
<1> HIDE DEF c
<1>7. Keeps(W, c, d)
  BY <1>5, PinOutput DEF WiFiApart
<1> HIDE DEF d
<1> QED BY <1>2, <1>3, <1>4, <1>6, <1>7 DEF Keeps

\* What the ports' power and PHYs are like after board set-up.
UsbSet(r) ==
    /\ PhyServes(r, 0, "USB3") /\ PhyServes(r, 1, "USB3")
    /\ GpioPinRead(r, 0, PA(5)) /\ GpioPinRead(r, 0, PA(6))

UsbBits == PhyBits(0) \cup PhyBits(1)
             \cup {<<<<"DR", 0, 0>>, 5>>, <<<<"DR", 0, 0>>, 6>>}

LEMMA UsbPins ==
  ASSUME NEW r
  PROVE  /\ GpioPinRead(r, 0, PA(5)) <=> <<<<"DR", 0, 0>>, 5>> \in r
         /\ GpioPinRead(r, 0, PA(6)) <=> <<<<"DR", 0, 0>>, 6>> \in r
<1>1. 5 \div 16 = 0 /\ 5 % 16 = 5 /\ 6 \div 16 = 0 /\ 6 % 16 = 6
  OBVIOUS
<1> QED BY <1>1 DEF GpioPinRead, PA

LEMMA UsbSetKept ==
  ASSUME NEW r, NEW s, Keeps(UsbBits, r, s), UsbSet(r)
  PROVE  UsbSet(s)
<1>1. Keeps(PhyBits(0), r, s) /\ Keeps(PhyBits(1), r, s)
  BY DEF Keeps, UsbBits
<1>2. /\ <<<<"DR", 0, 0>>, 5>> \in r <=> <<<<"DR", 0, 0>>, 5>> \in s
      /\ <<<<"DR", 0, 0>>, 6>> \in r <=> <<<<"DR", 0, 0>>, 6>> \in s
  BY DEF Keeps, UsbBits
<1>3. PhyServes(s, 0, "USB3") /\ PhyServes(s, 1, "USB3")
  BY <1>1, PhyServesKept DEF UsbSet
<1> QED BY <1>2, <1>3, UsbPins DEF UsbSet

\* A level written can be read.
LEMMA LevelWritten ==
  ASSUME NEW r, NEW g, NEW pin \in 0..31
  PROVE  GpioPinRead(Output(r, g, pin, 1), g, pin)
<1> DEFINE m == pin % 16
           d == GpioPinSetDirection(r, g, pin, 1)
<1>1. m \in 0..15 /\ m * 1 = m /\ m + 1 - 1 = m /\ m..m = {m}
  OBVIOUS
<1>2. GpioPinWrite(d, g, pin, 1) = HiwordWrite(d, <<"DR", g, pin \div 16>>, {m}, Bits(1, m))
  <2> HIDE DEF d
  <2> QED BY <1>1 DEF GpioPinWrite, PinField
<1> HIDE DEF d
<1>3. Bits(1, m) = {m}
  BY <1>1, SmallNumbers
<1>4. <<<<"DR", g, pin \div 16>>, m>> \in GpioPinWrite(d, g, pin, 1)
  BY <1>2, <1>3, HiwordBits
<1> QED BY <1>4 DEF Output, GpioPinRead, d

LEMMA PhysApart ==
  ASSUME NEW i \in 0..2, NEW j \in 0..2, i # j
  PROVE  PhyApart(PhyBits(j), i)
<1>1. \A x \in PhyBits(j) : x[1][1] # "PIPE_PHY"
  BY PhyBitNames
<1>2. \A n \in 0..3, b \in 0..31 : <<Con(i, n), b>> \notin PhyBits(j)
  BY DEF PhyBits, ClockBits, Con, PMUCLKSEL9
<1>3. <<<<"SOFTRST", 28>>, SoftRstBit(i)>> \notin PhyBits(j)
  <2>1. SoftRstBit(i) # SoftRstBit(j)
    BY DEF SoftRstBit
  <2> QED BY <2>1 DEF PhyBits, ClockBits, Con, PMUCLKSEL9
<1>4. <<PMUCLKSEL9, 4 * i + 3>> \notin PhyBits(j)
  <2>1. 4 * i + 3 \notin (4 * j)..(4 * j + 3)
    OBVIOUS
  <2> QED BY <2>1 DEF PhyBits, ClockBits, Con, PMUCLKSEL9
<1> QED BY <1>1, <1>2, <1>3, <1>4 DEF PhyApart

LEMMA UsbStepSets ==
  ASSUME BoardInitUsb
  PROVE  UsbSet(regs')
<1> DEFINE c == BeforeUsbPhys
           d == MultiPhySetMode(c, 0, "USB3").regs
           e == MultiPhySetMode(d, 1, "USB3").regs
           f == Output(e, 0, PA(6), 1)
           g == Output(f, 0, PA(5), 1)
           V == PhyBits(0) \cup PhyBits(1)
           six == <<<<"DR", 0, 0>>, 6>>
<1>1. regs' = g
  BY DEF BoardInitUsb, UsbPhys, BeforeUsbPhys
<1> HIDE DEF c
<1>2. PhyServes(d, 0, "USB3")
  BY Usb3Serves
<1> HIDE DEF d
<1>3. PhyServes(e, 1, "USB3") /\ PhyServes(e, 0, "USB3")
  <2>1. Keeps(PhyBits(0), d, e)
    BY PhysApart, SetModeKeeps
  <2> HIDE DEF e
  <2>2. PhyServes(e, 0, "USB3")
    BY <1>2, <2>1, PhyServesKept
  <2> QED BY <2>2, Usb3Serves DEF e
<1> HIDE DEF e
<1>4. PA(5) \in 0..31 /\ PA(6) \in 0..31 /\ PA(5) \div 16 = 0 /\ PA(5) % 16 = 5
      /\ PA(6) \div 16 = 0 /\ PA(6) % 16 = 6
  BY DEF PA
<1>5. /\ PinApart(V, 0, PA(5)) /\ PinApart(V, 0, PA(6))
  BY PhyBitNames DEF PinApart
<1>6. PinApart({six}, 0, PA(5))
  BY <1>4 DEF PinApart
<1> HIDE DEF V
<1>7. GpioPinRead(f, 0, PA(6)) /\ Keeps(V, e, f)
  BY <1>4, <1>5, LevelWritten, PinOutput
<1> HIDE DEF f
<1>8. GpioPinRead(g, 0, PA(5)) /\ Keeps(V, f, g) /\ Keeps({six}, f, g)
  BY <1>4, <1>5, <1>6, LevelWritten, PinOutput
<1> HIDE DEF g
<1>9. GpioPinRead(g, 0, PA(6))
  BY <1>7, <1>8, UsbPins DEF Keeps
<1>10. Keeps(PhyBits(0), e, g) /\ Keeps(PhyBits(1), e, g)
  BY <1>7, <1>8 DEF Keeps, V
<1>11. PhyServes(g, 0, "USB3") /\ PhyServes(g, 1, "USB3")
  BY <1>3, <1>10, PhyServesKept
<1> QED BY <1>1, <1>8, <1>9, <1>11 DEF UsbSet

------------------------------------------------------------------------------
(* The host bridge's steps. *)

\* The registers that powering up the slot and its clocks writes.
SlotApart(W) ==
    /\ PhyApart(W, 2) /\ PinApart(W, 0, 28)
    /\ <<<<"SOFTRST", 27>>, 14>> \notin W /\ <<<<"SOFTRST", 10>>, 1>> \notin W
    /\ <<<<"SOFTRST", 12>>, 1>> \notin W /\ <<<<"GATE", 33>>, 8>> \notin W
    /\ \A g \in {12, 13}, b \in 0..5 : <<<<"GATE", g>>, b>> \notin W

LEMMA PowerUpKeeps ==
  ASSUME NEW W, Shared(W), SlotApart(W), PciPowerUp
  PROVE  Keeps(W, regs, regs')
<1> DEFINE a == CruSetPciePhySource(regs, 2, 0)
           b == MultiPhySetMode(a, 2, "PCIE").regs
           c == PmuCruEnableClock(b, 2, 13)
           d == PmuCruEnableClock(c, 2, 14)
           e == CruEnableClock(d, 33, 8)
           f == CruAssertSoftReset(e, 27, 14)
           g == HiwordWrite(f, <<"PCIE30_PHY_GRF", 9>>, 0..15, {15})
           h == HiwordWrite(g, <<"PCIE30_PHY_GRF", 6>>, 0..15, {0})
           k == HiwordWrite(h, <<"PCIE30_PHY_GRF", 1>>, 0..15, {15})
           l == CruDeassertSoftReset(k, 27, 14)
           m == Output(l, 0, 28, 1)
           n == CruDeassertSoftReset(m, 10, 1)
           o == EnableClocks(n, 12, 0..5)
           p == CruDeassertSoftReset(o, 12, 1)
           q == EnableClocks(p, 13, 0..5)
<1>1. \A x \in W : x[1][1] \notin {"PMUGATE", "PCIE30_PHY_GRF"}
  BY DEF Shared, SharedNames
<1>2. regs' = q
  BY DEF PciPowerUp, Pcie30Phy, PciSetupClocks, PCIE_POWER_GPIO_BANK, PCIE_POWER_GPIO_PIN
<1>3. Keeps(W, regs, a)
  BY HiwordKeeps DEF CruSetPciePhySource, SlotApart, PhyApart
<1> HIDE DEF a
<1>4. Keeps(W, a, b)
  BY SetModeKeeps DEF SlotApart
<1> HIDE DEF b
<1>5. Keeps(W, b, c)
  BY <1>1, NameKeeps DEF PmuCruEnableClock
<1> HIDE DEF c
<1>6. Keeps(W, c, d)
  BY <1>1, NameKeeps DEF PmuCruEnableClock
<1> HIDE DEF d
<1>7. Keeps(W, d, e)
  BY HiwordKeeps DEF CruEnableClock, SlotApart
<1> HIDE DEF e
<1>8. Keeps(W, e, f)
  BY ResetKeeps DEF SlotApart
<1> HIDE DEF f
<1>9. Keeps(W, f, g)
  BY <1>1, NameKeeps
<1> HIDE DEF g
<1>10. Keeps(W, g, h)
  BY <1>1, NameKeeps
<1> HIDE DEF h
<1>11. Keeps(W, h, k)
  BY <1>1, NameKeeps
<1> HIDE DEF k
<1>12. Keeps(W, k, l)
  BY ResetKeeps DEF SlotApart
<1> HIDE DEF l
<1>13. Keeps(W, l, m)
  BY PinOutput DEF SlotApart
<1> HIDE DEF m
<1>14. Keeps(W, m, n)
  BY ResetKeeps DEF SlotApart
<1> HIDE DEF n
<1>15. Keeps(W, n, o)
  BY HiwordKeeps DEF EnableClocks, SlotApart
<1> HIDE DEF o
<1>16. Keeps(W, o, p)
  BY ResetKeeps DEF SlotApart
<1> HIDE DEF p
<1>17. Keeps(W, p, q)
  BY HiwordKeeps DEF EnableClocks, SlotApart
<1> HIDE DEF q
<1>18. Keeps(W, regs, g)
  BY <1>3, <1>4, <1>5, <1>6, <1>7, <1>8, <1>9 DEF Keeps
<1> QED BY <1>2, <1>10, <1>11, <1>12, <1>13, <1>14, <1>15, <1>16, <1>17, <1>18 DEF Keeps

\* The registers of the root port's own block and the pin of its reset.
PortApart(W) ==
    /\ \A x \in W : x[1][1] # "PCIE_APB"
    /\ PinApart(W, 2, 30)

LEMMA PortKeeps ==
  ASSUME NEW W, PortApart(W), PciSetup \/ PciReset \/ PciWindows \/ PciStartLink
  PROVE  Keeps(W, regs, regs')
<1>1. /\ \A r, mask, bits : Keeps(W, r, HiwordWrite(r, GENERAL_CON, mask, bits))
      /\ \A r, bits : Keeps(W, r, MmioWrite(r, <<"PCIE_APB", "DEBUG_INFO">>, bits))
      /\ \A r, mask, bits :
           Keeps(W, r, MmioAndThenOr(r, <<"PCIE_APB", "HOT_RESET_CTRL">>, mask, bits))
  BY NameKeeps DEF PortApart, GENERAL_CON
<1>2. CASE PciSetup
  <2> DEFINE a == MmioAndThenOr(regs, <<"PCIE_APB", "HOT_RESET_CTRL">>, {}, {4})
  <2>1. Keeps(W, regs, a)
    BY <1>1
  <2> HIDE DEF a
  <2>2. Keeps(W, a, HiwordWrite(a, GENERAL_CON, 4..7, {6}))
    BY <1>1
  <2>3. regs' = HiwordWrite(a, GENERAL_CON, 4..7, {6})
    BY <1>2 DEF PciSetup, PciSetRcMode, a
  <2> QED BY <2>1, <2>2, <2>3, KeepsChain
<1>3. CASE PciReset \/ PciWindows
  <2>1. /\ Keeps(W, regs, Output(regs, 2, 30, 0))
        /\ Keeps(W, regs, GpioPinWrite(regs, 2, 30, 1))
    BY PinOutput DEF PortApart
  <2> QED BY <1>3, <2>1 DEF PciReset, PciWindows, PCIE_RESET_GPIO_BANK, PCIE_RESET_GPIO_PIN
<1>4. CASE PciStartLink
  <2> DEFINE a == PciEnableLtssm(regs, FALSE)
             b == MmioWrite(a, <<"PCIE_APB", "DEBUG_INFO">>, {})
  <2>1. Keeps(W, regs, a)
    BY <1>1 DEF PciEnableLtssm
  <2> HIDE DEF a
  <2>2. Keeps(W, a, b)
    BY <1>1
  <2> HIDE DEF b
  <2>3. Keeps(W, b, PciEnableLtssm(b, TRUE))
    BY <1>1 DEF PciEnableLtssm
  <2>4. regs' = PciEnableLtssm(b, TRUE)
    BY <1>4 DEF PciStartLink, a, b
  <2> QED BY <2>1, <2>2, <2>3, <2>4, KeepsChain
<1> QED BY <1>2, <1>3, <1>4

LEMMA PhyEnableKeeps ==
  ASSUME NEW W, Shared(W), NEW r
  PROVE  Keeps(W, r, UsbPhyEnable(r))
<1>1. \A x \in W : x[1][1] # "USB2PHY_GRF"
  BY DEF Shared, SharedNames
<1>2. \A s, m, n, mask, bits : Keeps(W, s, HiwordWrite(s, <<"USB2PHY_GRF", m, n>>, mask, bits))
  BY <1>1, NameKeeps
<1> DEFINE a == HiwordWrite(r, <<"USB2PHY_GRF", 0, 1>>, 0..8, {1, 4, 6, 7, 8})
           b == HiwordWrite(a, <<"USB2PHY_GRF", 1, 0>>, 0..8, {1, 4, 6, 7, 8})
           c == HiwordWrite(b, <<"USB2PHY_GRF", 1, 1>>, 0..8, {1, 4, 6, 7, 8})
<1>3. Keeps(W, r, a)
  BY <1>2
<1> HIDE DEF a
<1>4. Keeps(W, a, b)
  BY <1>2
<1> HIDE DEF b
<1>5. Keeps(W, b, c)
  BY <1>2
<1> HIDE DEF c
<1>6. Keeps(W, r, c)
  BY <1>3, <1>4, <1>5, KeepsChain
<1> QED BY <1>6 DEF UsbPhyEnable, a, b, c

------------------------------------------------------------------------------
(* What a driver sets up for its device, and the bits that depends on.       *)

UsbApart(W) ==
    /\ PhyApart(W, 0) /\ PhyApart(W, 1)
    /\ PinApart(W, 0, PA(5)) /\ PinApart(W, 0, PA(6))

BridgeApart(W) == SlotApart(W) /\ PortApart(W)

MshcBits == SdmmcBits(0) \cup TableBits(mSdmmc0IomuxConfig) \cup {<<<<"SOFTRST", 13>>, 4>>}
EmmcPins == TableBits(mEmmcIomuxConfig)
GmacBits == TableBits(mGmac1IomuxConfig) \cup {<<<<"SOFTRST", 14>>, 12>>, <<<<"DR", 0, 0>>, 15>>}
WiFiBits == SdmmcBits(1) \cup TableBits(mSdmmc1IomuxConfig) \cup {<<<<"DR", 2, 0>>, 9>>}

\* The pins of a table, clocks of the SD controllers, two resets and two outputs.
SingleBits == {<<<<"SOFTRST", 13>>, 4>>, <<<<"SOFTRST", 14>>, 12>>,
               <<<<"DR", 0, 0>>, 15>>, <<<<"DR", 2, 0>>, 9>>}

Owned(W, t) ==
    \A x \in W : \/ x \in TableBits(t) /\ x[1][1] \in {"IOMUX", "P"}
                 \/ x[1] = CLKSEL30
                 \/ x \in SingleBits

LEMMA TableNames == \A t : \A x \in TableBits(t) : x[1][1] \in {"IOMUX", "P"}
  BY DEF TableBits, PinBits

LEMMA OwnedNames ==
  ASSUME NEW W, NEW t, Owned(W, t)
  PROVE  \A x \in W : /\ x[1][1] \in {"IOMUX", "P", "CLKSEL", "SOFTRST", "DR"}
                      /\ x[1][1] \in {"IOMUX", "P"} => x \in TableBits(t)
                      /\ x[1][1] = "CLKSEL" => x[1] = CLKSEL30
                      /\ x[1][1] \in {"SOFTRST", "DR"} => x \in SingleBits
<1> TAKE x \in W
<1>1. CASE x \in TableBits(t) /\ x[1][1] \in {"IOMUX", "P"}
  BY <1>1
<1>2. CASE x[1] = CLKSEL30
  BY <1>2 DEF CLKSEL30
<1>3. CASE x \in SingleBits
  BY <1>3 DEF SingleBits
<1> QED BY <1>1, <1>2, <1>3 DEF Owned

LEMMA OwnedApart ==
  ASSUME NEW W, NEW t \in Seq(PinRows), Owned(W, t)
  PROVE  /\ Shared(W) /\ UsbApart(W) /\ BridgeApart(W) /\ NotifyApart(W)
         /\ \A i : Dwc3Apart(W, i)
         /\ \A x \in W : x[1] # <<"CLKSEL", 33>>
         /\ \A s \in Seq(PinRows) : Cells(s) \cap Cells(t) = {} => TableApart(W, s)
         /\ <<0, 9>> \notin Cells(t) /\ <<0, 10>> \notin Cells(t) => PmicApart(W)
<1>1. Shared(W)
  BY OwnedNames DEF Shared, SharedNames
<1>2. /\ \A n, b : <<<<"SOFTRST", n>>, b>> \in W => n \in {13, 14}
      /\ \A g, h, b : <<<<"DR", g, h>>, b>> \in W => h = 0 /\ b \in {9, 15}
      /\ \A g, h, b : <<<<"DDR", g, h>>, b>> \notin W
      /\ \A g, b : <<<<"GATE", g>>, b>> \notin W
      /\ \A i, n, b : <<Con(i, n), b>> \notin W
      /\ \A b : <<PMUCLKSEL9, b>> \notin W
  <2>1. \A n, b : <<<<"SOFTRST", n>>, b>> \in W => n \in {13, 14}
    <3>1. \A n, b : <<<<"SOFTRST", n>>, b>>[1][1] = "SOFTRST"
      OBVIOUS
    <3>2. \A n, b : <<<<"SOFTRST", n>>, b>> \in SingleBits => n \in {13, 14}
      BY DEF SingleBits
    <3> QED BY <3>1, <3>2, OwnedNames
  <2>2. \A g, h, b : <<<<"DR", g, h>>, b>> \in W => h = 0 /\ b \in {9, 15}
    <3>1. \A g, h, b : <<<<"DR", g, h>>, b>>[1][1] = "DR"
      OBVIOUS
    <3>2. \A g, h, b : <<<<"DR", g, h>>, b>> \in SingleBits => h = 0 /\ b \in {9, 15}
      BY DEF SingleBits
    <3> QED BY <3>1, <3>2, OwnedNames
  <2>3. \A reg, b : reg[1] \in {"DDR", "GATE", "PIPE_GRF", "PMUCLKSEL"} => <<reg, b>> \notin W
    <3>1. \A reg, b : <<reg, b>>[1] = reg
      OBVIOUS
    <3> QED BY <3>1, OwnedNames
  <2> QED BY <2>1, <2>2, <2>3 DEF Con, PMUCLKSEL9
<1>3. \A i \in 0..2 : PhyApart(W, i)
  <2> TAKE i \in 0..2
  <2>1. \A x \in W : x[1][1] # "PIPE_PHY"
    BY OwnedNames
  <2>2. <<<<"SOFTRST", 28>>, SoftRstBit(i)>> \notin W
    BY <1>2
  <2>3. <<PMUCLKSEL9, 4 * i + 3>> \notin W
    BY <1>2
  <2>4. \A n \in 0..3, b \in 0..31 : <<Con(i, n), b>> \notin W
    BY <1>2
  <2> QED BY <2>1, <2>2, <2>3, <2>4 DEF PhyApart
<1>4. UsbApart(W)
  <2>1. PA(5) % 16 = 5 /\ PA(6) % 16 = 6
    BY DEF PA
  <2> QED BY <1>2, <1>3, <2>1 DEF UsbApart, PinApart
<1>5. BridgeApart(W)
  <2>1. 28 \div 16 = 1 /\ 30 \div 16 = 1
    OBVIOUS
  <2>2. \A x \in W : x[1][1] # "PCIE_APB"
    BY OwnedNames
  <2>3. PinApart(W, 0, 28) /\ PinApart(W, 2, 30)
    BY <1>2, <2>1 DEF PinApart
  <2>4. SlotApart(W)
    <3>1. \A n \in {10, 12, 27} : \A b : <<<<"SOFTRST", n>>, b>> \notin W
      <4>1. \A n \in {10, 12, 27} : n \notin {13, 14}
        OBVIOUS
      <4> QED BY <1>2, <4>1
    <3> QED BY <1>2, <1>3, <2>3, <3>1 DEF SlotApart
  <2> QED BY <2>2, <2>3, <2>4 DEF BridgeApart, PortApart
<1>6. NotifyApart(W) /\ \A x \in W : x[1] # <<"CLKSEL", 33>>
  <2>1. /\ CLKSEL30 # CLKSEL28 /\ CLKSEL30 # <<"CLKSEL", 33>>
        /\ CLKSEL28[1] = "CLKSEL" /\ <<"CLKSEL", 33>>[1] = "CLKSEL"
    BY DEF CLKSEL30, CLKSEL28
  <2>2. \A x \in W : x[1][1] # "EMMC_DLL" /\ (x[1][1] = "CLKSEL" => x[1] = CLKSEL30)
    BY OwnedNames
  <2>3. \A x \in W : x[1] # CLKSEL28 /\ x[1] # <<"CLKSEL", 33>>
    BY <2>1, <2>2
  <2> QED BY <2>2, <2>3 DEF NotifyApart
<1>7. \A i : Dwc3Apart(W, i)
  BY OwnedNames DEF Dwc3Apart, Dwc3
<1>8. \A s \in Seq(PinRows) : Cells(s) \cap Cells(t) = {} => TableApart(W, s)
  BY OwnedNames, TablesMeetNot
<1>9. <<0, 9>> \notin Cells(t) /\ <<0, 10>> \notin Cells(t) => PmicApart(W)
  <2>1. PB(1) = 9 /\ PB(2) = 10
    BY DEF PB
  <2> QED BY <2>1, OwnedNames, TableMeetsNot DEF PmicApart
<1> QED BY <1>1, <1>4, <1>5, <1>6, <1>7, <1>8, <1>9

LEMMA CellsApart ==
  /\ Cells(mSdmmc0IomuxConfig) \cap Cells(mSdmmc1IomuxConfig) = {}
  /\ Cells(mSdmmc0IomuxConfig) \cap Cells(mEmmcIomuxConfig) = {}
  /\ Cells(mSdmmc0IomuxConfig) \cap Cells(mGmac1IomuxConfig) = {}
  /\ Cells(mSdmmc1IomuxConfig) \cap Cells(mEmmcIomuxConfig) = {}
  /\ Cells(mSdmmc1IomuxConfig) \cap Cells(mGmac1IomuxConfig) = {}
  /\ Cells(mEmmcIomuxConfig) \cap Cells(mGmac1IomuxConfig) = {}
  /\ \A t \in {mSdmmc0IomuxConfig, mSdmmc1IomuxConfig, mEmmcIomuxConfig, mGmac1IomuxConfig} :
       <<0, 9>> \notin Cells(t) /\ <<0, 10>> \notin Cells(t)
<1>1. \A c \in Cells(mSdmmc0IomuxConfig) :
        \/ c[1] = 1 /\ c[2] \in 29..31
        \/ c[1] = 2 /\ c[2] \in 0..2
        \/ c[1] = 0 /\ c[2] = 4
  BY Sdmmc0Proper DEF SdmmcCells
<1>2. \A c \in Cells(mSdmmc1IomuxConfig) : c[1] = 2 /\ c[2] \in 3..10
  BY Sdmmc1Proper
<1>3. \A c \in Cells(mEmmcIomuxConfig) : c[1] = 1 /\ c[2] \in 12..22
  BY EmmcProper
<1>4. \A c \in Cells(mGmac1IomuxConfig) : c[1] = 3
  BY GmacProper
<1>5. \A b : <<0, b>>[1] = 0 /\ <<0, b>>[2] = b
  OBVIOUS
<1>6. <<0, 9>> \notin Cells(mSdmmc0IomuxConfig) /\ <<0, 10>> \notin Cells(mSdmmc0IomuxConfig)
  BY <1>1, <1>5
<1> QED BY <1>1, <1>2, <1>3, <1>4, <1>5, <1>6

LEMMA MshcBitsApart ==
  /\ Owned(MshcBits, mSdmmc0IomuxConfig)
  /\ EmmcApart(MshcBits) /\ PmicApart(MshcBits) /\ GmacApart(MshcBits) /\ WiFiApart(MshcBits)
<1>1. \A x \in MshcBits : \/ x \in TableBits(mSdmmc0IomuxConfig) /\ x[1][1] \in {"IOMUX", "P"}
                          \/ x[1] = CLKSEL30 /\ x[2] \in 8..10
                          \/ x = <<<<"SOFTRST", 13>>, 4>>
  BY TableNames DEF MshcBits, SdmmcBits, SdmmcShift
<1>2. Owned(MshcBits, mSdmmc0IomuxConfig)
  BY <1>1 DEF Owned, SingleBits
<1>3. /\ <<<<"SOFTRST", 14>>, 12>> \notin MshcBits
      /\ \A g, pin : PinApart(MshcBits, g, pin)
  BY <1>1 DEF PinApart, CLKSEL30
<1>4. Disjoint(MshcBits, SdmmcBits(1))
  BY <1>1 DEF Disjoint, SdmmcBits, SdmmcShift, CLKSEL30
<1> QED BY <1>2, <1>3, <1>4, OwnedApart, CellsApart, PinTables
        DEF EmmcApart, GmacApart, WiFiApart

LEMMA EmmcPinsApart ==
  /\ Owned(EmmcPins, mEmmcIomuxConfig)
  /\ MshcApart(EmmcPins) /\ PmicApart(EmmcPins) /\ GmacApart(EmmcPins) /\ WiFiApart(EmmcPins)
<1>1. \A x \in EmmcPins : x \in TableBits(mEmmcIomuxConfig) /\ x[1][1] \in {"IOMUX", "P"}
  BY TableNames DEF EmmcPins
<1>2. Owned(EmmcPins, mEmmcIomuxConfig)
  BY <1>1 DEF Owned
<1>3. /\ <<<<"SOFTRST", 14>>, 12>> \notin EmmcPins /\ <<<<"SOFTRST", 13>>, 4>> \notin EmmcPins
      /\ \A g, pin : PinApart(EmmcPins, g, pin)
  BY <1>1 DEF PinApart
<1>4. \A i : Disjoint(EmmcPins, SdmmcBits(i))
  BY <1>1 DEF Disjoint, SdmmcBits, CLKSEL30
<1> QED BY <1>2, <1>3, <1>4, OwnedApart, CellsApart, PinTables
        DEF MshcApart, GmacApart, WiFiApart

LEMMA GmacBitsApart ==
  /\ Owned(GmacBits, mGmac1IomuxConfig)
  /\ MshcApart(GmacBits) /\ EmmcApart(GmacBits) /\ PmicApart(GmacBits) /\ WiFiApart(GmacBits)
<1>1. \A x \in GmacBits : \/ x \in TableBits(mGmac1IomuxConfig) /\ x[1][1] \in {"IOMUX", "P"}
                          \/ x = <<<<"SOFTRST", 14>>, 12>>
                          \/ x = <<<<"DR", 0, 0>>, 15>>
  BY TableNames DEF GmacBits
<1>2. Owned(GmacBits, mGmac1IomuxConfig)
  BY <1>1 DEF Owned, SingleBits
<1>3. <<<<"SOFTRST", 13>>, 4>> \notin GmacBits /\ \A pin : PinApart(GmacBits, 2, pin)
  BY <1>1 DEF PinApart
<1>4. \A i : Disjoint(GmacBits, SdmmcBits(i))
  BY <1>1 DEF Disjoint, SdmmcBits, CLKSEL30
<1> QED BY <1>2, <1>3, <1>4, OwnedApart, CellsApart, PinTables
        DEF MshcApart, EmmcApart, WiFiApart

LEMMA WiFiBitsApart ==
  /\ Owned(WiFiBits, mSdmmc1IomuxConfig)
  /\ MshcApart(WiFiBits) /\ EmmcApart(WiFiBits) /\ PmicApart(WiFiBits) /\ GmacApart(WiFiBits)
<1>1. \A x \in WiFiBits : \/ x \in TableBits(mSdmmc1IomuxConfig) /\ x[1][1] \in {"IOMUX", "P"}
                          \/ x[1] = CLKSEL30 /\ x[2] \in 12..14
                          \/ x = <<<<"DR", 2, 0>>, 9>>
  BY TableNames DEF WiFiBits, SdmmcBits, SdmmcShift
<1>2. Owned(WiFiBits, mSdmmc1IomuxConfig)
  BY <1>1 DEF Owned, SingleBits
<1>3. /\ <<<<"SOFTRST", 14>>, 12>> \notin WiFiBits /\ <<<<"SOFTRST", 13>>, 4>> \notin WiFiBits
      /\ \A pin : PinApart(WiFiBits, 0, pin)
  BY <1>1 DEF PinApart, CLKSEL30
<1>4. Disjoint(WiFiBits, SdmmcBits(0))
  BY <1>1 DEF Disjoint, SdmmcBits, SdmmcShift, CLKSEL30
<1> QED BY <1>2, <1>3, <1>4, OwnedApart, CellsApart, PinTables
        DEF MshcApart, EmmcApart, GmacApart

MshcSet(r) ==
    /\ CruGetSdmmcClockRate(r, 0) = 100000
    /\ PinsKept(r, mSdmmc0IomuxConfig) /\ ~InReset(r, 13, 4)

GmacSet(r) ==
    /\ PinsKept(r, mGmac1IomuxConfig) /\ GpioPinRead(r, 0, PB(7))
    /\ ~InReset(r, 14, 12)

WiFiSet(r) ==
    /\ CruGetSdmmcClockRate(r, 1) = 100000
    /\ PinsKept(r, mSdmmc1IomuxConfig) /\ GpioPinRead(r, 2, PB(1))

LEMMA OwnPins ==
  ASSUME NEW r
  PROVE  /\ GpioPinRead(r, 0, PB(7)) <=> <<<<"DR", 0, 0>>, 15>> \in r
         /\ GpioPinRead(r, 2, PB(1)) <=> <<<<"DR", 2, 0>>, 9>> \in r
<1>1. PB(7) \div 16 = 0 /\ PB(7) % 16 = 15 /\ PB(1) \div 16 = 0 /\ PB(1) % 16 = 9
  BY DEF PB
<1> QED BY <1>1 DEF GpioPinRead

LEMMA MshcSetKept ==
  ASSUME NEW r, NEW s, Keeps(MshcBits, r, s), MshcSet(r)
  PROVE  MshcSet(s)
<1>1. /\ Keeps(SdmmcBits(0), r, s) /\ Keeps(TableBits(mSdmmc0IomuxConfig), r, s)
      /\ <<<<"SOFTRST", 13>>, 4>> \in r <=> <<<<"SOFTRST", 13>>, 4>> \in s
  BY DEF Keeps, MshcBits
<1>2. PinsKept(s, mSdmmc0IomuxConfig)
  BY <1>1, TableKept, Sdmmc0Proper DEF MshcSet
<1> QED BY <1>1, <1>2, SdmmcClockKept DEF MshcSet, InReset

LEMMA GmacSetKept ==
  ASSUME NEW r, NEW s, Keeps(GmacBits, r, s), GmacSet(r)
  PROVE  GmacSet(s)
<1>1. /\ Keeps(TableBits(mGmac1IomuxConfig), r, s)
      /\ <<<<"SOFTRST", 14>>, 12>> \in r <=> <<<<"SOFTRST", 14>>, 12>> \in s
      /\ <<<<"DR", 0, 0>>, 15>> \in r <=> <<<<"DR", 0, 0>>, 15>> \in s
  BY DEF Keeps, GmacBits
<1>2. PinsKept(s, mGmac1IomuxConfig)
  BY <1>1, TableKept, GmacProper DEF GmacSet
<1> QED BY <1>1, <1>2, OwnPins DEF GmacSet, InReset

LEMMA WiFiSetKept ==
  ASSUME NEW r, NEW s, Keeps(WiFiBits, r, s), WiFiSet(r)
  PROVE  WiFiSet(s)
<1>1. /\ Keeps(SdmmcBits(1), r, s) /\ Keeps(TableBits(mSdmmc1IomuxConfig), r, s)
      /\ <<<<"DR", 2, 0>>, 9>> \in r <=> <<<<"DR", 2, 0>>, 9>> \in s
  BY DEF Keeps, WiFiBits
<1>2. PinsKept(s, mSdmmc1IomuxConfig)
  BY <1>1, TableKept, Sdmmc1Proper DEF WiFiSet
<1> QED BY <1>1, <1>2, SdmmcClockKept, OwnPins DEF WiFiSet

LEMMA EmmcPinsKept ==
  ASSUME NEW r, NEW s, Keeps(EmmcPins, r, s), PinsKept(r, mEmmcIomuxConfig)
  PROVE  PinsKept(s, mEmmcIomuxConfig)
  BY TableKept, EmmcProper DEF EmmcPins

\* What a driver's entry point comes to.
LEMMA MshcSets == MshcDxeInitialize => MshcSet(regs')
<1> SUFFICES ASSUME MshcDxeInitialize PROVE MshcSet(regs')
  OBVIOUS
<1> DEFINE a == CruSetSdmmcClockRate(regs, 0, 100000)
           h == CruAssertSoftReset(a, 13, 4)
           b == CruDeassertSoftReset(h, 13, 4)
           c == GpioSetIomuxConfig(b, mSdmmc0IomuxConfig)
           d == MshcAdjustFifoThreshold(c)
           W == SdmmcBits(0)
           reset == <<<<"SOFTRST", 13>>, 4>>
<1>1. regs' = d
  BY DEF MshcDxeInitialize
<1>2. CruGetSdmmcClockRate(a, 0) = 100000
  BY SdmmcClockSet
<1> HIDE DEF a
<1>3. Keeps(W, a, b)
  <2>1. reset \notin W
    BY DEF SdmmcBits, CLKSEL30
  <2> HIDE DEF W
  <2>2. Keeps(W, a, h)
    BY <2>1, ResetKeeps
  <2> HIDE DEF h
  <2>3. Keeps(W, h, b)
    BY <2>1, ResetKeeps
  <2> HIDE DEF b
  <2> QED BY <2>2, <2>3, KeepsChain
<1>4. reset \notin b
  <2> HIDE DEF h
  <2> QED BY DEF CruDeassertSoftReset, HiwordWrite
<1> HIDE DEF b
<1>5. Keeps(W \cup {reset}, b, c)
  <2>1. Shared(W \cup {reset}) /\ TableApart(W \cup {reset}, mSdmmc0IomuxConfig)
    <3>1. \A x \in W \cup {reset} : x[1][1] \in {"CLKSEL", "SOFTRST"}
      BY DEF SdmmcBits, CLKSEL30
    <3> HIDE DEF W, reset
    <3>2. Shared(W \cup {reset})
      BY <3>1 DEF Shared, SharedNames
    <3>3. \A g, pin : Disjoint(W \cup {reset}, PinBits(g, pin))
      <4>1. \A g, pin : \A x \in PinBits(g, pin) : x[1][1] \in {"IOMUX", "P"}
        BY DEF PinBits
      <4> QED BY <3>1, <4>1 DEF Disjoint
    <3> QED BY <3>2, <3>3 DEF TableApart
  <2> HIDE DEF W, reset
  <2> QED BY <2>1, TableKeeps, PinTables
<1>6. PinsKept(c, mSdmmc0IomuxConfig)
  BY TableDone, Sdmmc0Proper
<1> HIDE DEF c
<1>7. Keeps(MshcBits, c, d)
  <2>1. \A x \in MshcBits : x[1][1] # "DWEMMC"
    BY MshcBitsApart, OwnedNames
  <2> QED BY <2>1, NameKeeps DEF MshcAdjustFifoThreshold, FIFOTH
<1> HIDE DEF d
<1>8. Keeps(W, a, c) /\ reset \notin c
  BY <1>3, <1>4, <1>5 DEF Keeps
<1>9. MshcSet(c)
  <2>1. CruGetSdmmcClockRate(c, 0) = 100000
    BY <1>2, <1>8, SdmmcClockKept
  <2> QED BY <1>6, <1>8, <2>1 DEF MshcSet, InReset
<1> QED BY <1>1, <1>7, <1>9, MshcSetKept

LEMMA EmmcSets == EmmcDxeInitialize => PinsKept(regs', mEmmcIomuxConfig)
<1> SUFFICES ASSUME EmmcDxeInitialize PROVE PinsKept(regs', mEmmcIomuxConfig)
  OBVIOUS
<1> DEFINE a == CruSetEmmcClockRate(regs, 375)
           b == GpioSetIomuxConfig(a, mEmmcIomuxConfig)
           c == MmioWrite(b, <<"DWCMSHC_HOST_CTRL3">>, {})
<1>1. regs' = DllOff(c)
  BY DEF EmmcDxeInitialize
<1>2. PinsKept(b, mEmmcIomuxConfig)
  BY TableDone, EmmcProper
<1> HIDE DEF b
<1>3. Keeps(EmmcPins, b, c)
  <2>1. \A x \in EmmcPins : x[1][1] # "DWCMSHC_HOST_CTRL3"
    BY TableNames DEF EmmcPins
  <2> QED BY <2>1, NameKeeps
<1> HIDE DEF c
<1>4. Keeps(EmmcPins, c, DllOff(c))
  <2>1. NotifyApart(EmmcPins)
    BY EmmcPinsApart, OwnedApart, PinTables
  <2> QED BY <2>1, DllKeeps
<1> QED BY <1>1, <1>2, <1>3, <1>4, EmmcPinsKept

LEMMA GmacSets == BoardInitGmac => GmacSet(regs')
<1> SUFFICES ASSUME BoardInitGmac PROVE GmacSet(regs')
  OBVIOUS
<1> DEFINE a == CruAssertSoftReset(regs, 14, 12)
           b == GpioSetIomuxConfig(a, mGmac1IomuxConfig)
           c == HiwordWrite(b, <<"CLKSEL", 33>>, {0, 1, 2, 4, 5}, {2})
           d == HiwordWrite(c, <<"GRF_MAC1", 0>>, (0..6) \cup (8..14),
                            Bits(78, 0) \cup Bits(44, 8))
           e == HiwordWrite(d, <<"GRF_MAC1", 1>>, {0, 1} \cup (4..6), {0, 1, 4})
           f == Output(e, 0, PB(7), 0)
           g == GpioPinWrite(f, 0, PB(7), 1)
           h == CruDeassertSoftReset(g, 14, 12)
           W == TableBits(mGmac1IomuxConfig)
           out == <<<<"DR", 0, 0>>, 15>>
<1>0. regs' = h
  BY DEF BoardInitGmac, GmacClocks
<1>1. \A x \in W : x[1][1] \in {"IOMUX", "P"}
  BY TableNames
<1>2. PinsKept(b, mGmac1IomuxConfig)
  BY TableDone, GmacProper
<1> HIDE DEF b, W
<1>3. Keeps(W, b, c)
  BY <1>1, NameKeeps
<1> HIDE DEF c
<1>4. Keeps(W, c, d)
  BY <1>1, NameKeeps
<1> HIDE DEF d
<1>5. Keeps(W, d, e)
  BY <1>1, NameKeeps
<1> HIDE DEF e
<1>6. PB(7) \in 0..31 /\ PinApart(W, 0, PB(7)) /\ <<<<"SOFTRST", 14>>, 12>> \notin W
  BY <1>1 DEF PB, PinApart
<1>7. Keeps(W, e, f)
  BY <1>6, PinOutput
<1> HIDE DEF f
<1>8. Keeps(W, f, g)
  BY <1>6, PinOutput
<1>9. out \in g
  <2>1. 15 * 1 = 15 /\ 15 + 1 - 1 = 15 /\ 15..15 = {15} /\ 15 % 16 = 15 /\ 15 \div 16 = 0
    OBVIOUS
  <2>2. g = HiwordWrite(f, <<"DR", 0, 0>>, {15}, Bits(1, 15))
    BY <2>1 DEF GpioPinWrite, PinField, PB
  <2>3. Bits(1, 15) = {15}
    BY SmallNumbers
  <2> HIDE DEF g
  <2> QED BY <2>2, <2>3, HiwordBits
<1> HIDE DEF g
<1>10. Keeps(W, g, h) /\ Keeps({out}, g, h)
  <2>1. <<<<"SOFTRST", 14>>, 12>> \notin {out}
    OBVIOUS
  <2> HIDE DEF out
  <2> QED BY <1>6, <2>1, ResetKeeps
<1>11. <<<<"SOFTRST", 14>>, 12>> \notin h
  BY DEF CruDeassertSoftReset, HiwordWrite
<1> HIDE DEF h
<1>12. Keeps(W, b, h)
  BY <1>3, <1>4, <1>5, <1>7, <1>8, <1>10 DEF Keeps
<1>13. PinsKept(h, mGmac1IomuxConfig)
  BY <1>2, <1>12, TableKept, GmacProper DEF W
<1>14. GpioPinRead(h, 0, PB(7))
  BY <1>9, <1>10, OwnPins DEF Keeps
<1> QED BY <1>0, <1>11, <1>13, <1>14 DEF GmacSet, InReset

LEMMA WiFiSets == BoardInitWiFi => WiFiSet(regs')
<1> SUFFICES ASSUME BoardInitWiFi PROVE WiFiSet(regs')
  OBVIOUS
<1> DEFINE a == CruSetSdmmcClockRate(regs, 1, 100000)
           b == GpioSetIomuxConfig(a, mSdmmc1IomuxConfig)
           c == Output(b, 2, PB(1), 0)
           d == GpioPinWrite(c, 2, PB(1), 1)
           W == SdmmcBits(1)
           V == W \cup TableBits(mSdmmc1IomuxConfig)
<1>1. regs' = d
  BY DEF BoardInitWiFi
<1>2. CruGetSdmmcClockRate(a, 1) = 100000
  BY SdmmcClockSet
<1> HIDE DEF a
<1>3. Keeps(W, a, b)
  <2>1. \A x \in W : x[1][1] = "CLKSEL"
    BY DEF SdmmcBits, CLKSEL30
  <2> HIDE DEF W
  <2>2. Shared(W)
    BY <2>1 DEF Shared, SharedNames
  <2>3. \A g, pin : Disjoint(W, PinBits(g, pin))
    <3>1. \A g, pin : \A x \in PinBits(g, pin) : x[1][1] \in {"IOMUX", "P"}
      BY DEF PinBits
    <3> QED BY <2>1, <3>1 DEF Disjoint
  <2>4. TableApart(W, mSdmmc1IomuxConfig)
    BY <2>3 DEF TableApart
  <2> QED BY <2>2, <2>4, TableKeeps, PinTables
<1>4. PinsKept(b, mSdmmc1IomuxConfig)
  BY TableDone, Sdmmc1Proper
<1> HIDE DEF b
<1>5. PinApart(V, 2, PB(1)) /\ PB(1) \in 0..31
  <2>1. \A x \in V : x[1][1] \in {"CLKSEL", "IOMUX", "P"}
    BY TableNames DEF SdmmcBits, CLKSEL30
  <2> HIDE DEF V
  <2> QED BY <2>1 DEF PinApart, PB
<1> HIDE DEF V, W
<1>6. Keeps(V, b, c)
  BY <1>5, PinOutput
<1> HIDE DEF c
<1>7. Keeps(V, c, d)
  BY <1>5, PinOutput
<1>8. <<<<"DR", 2, 0>>, 9>> \in d
  <2>1. 9 * 1 = 9 /\ 9 + 1 - 1 = 9 /\ 9..9 = {9} /\ 9 % 16 = 9 /\ 9 \div 16 = 0
    OBVIOUS
  <2>2. d = HiwordWrite(c, <<"DR", 2, 0>>, {9}, Bits(1, 9))
    BY <2>1 DEF GpioPinWrite, PinField, PB
  <2>3. Bits(1, 9) = {9}
    BY SmallNumbers
  <2> HIDE DEF d
  <2> QED BY <2>2, <2>3, HiwordBits
<1> HIDE DEF d
<1>9. Keeps(W, a, d) /\ Keeps(TableBits(mSdmmc1IomuxConfig), b, d)
  BY <1>3, <1>6, <1>7 DEF Keeps, V
<1>10. CruGetSdmmcClockRate(d, 1) = 100000
  BY <1>2, <1>9, SdmmcClockKept DEF W
<1>11. PinsKept(d, mSdmmc1IomuxConfig)
  BY <1>4, <1>9, TableKept, Sdmmc1Proper
<1> QED BY <1>1, <1>8, <1>10, <1>11, OwnPins DEF WiFiSet

\* A change of the bus mode fits the clock to it; the other phases do not touch it.
LEMMA PhaseFits ==
  ASSUME EmmcSdMmcNotifyPhase
  PROVE  \/ emmcMode' = emmcMode /\ Keeps(EmmcClockBits, regs, regs')
         \/ emmcMode' \in BusModes /\ ClockFits(regs', emmcMode')
<1>1. \A x \in EmmcClockBits : x[1][1] \notin {"EMMC_CLOCK_CTRL", "EMMC_HOST_CTRL2"}
  BY DEF EmmcClockBits, CLKSEL28, DLL
<1>2. Keeps(EmmcClockBits, regs, InitHostPost(regs))
  BY <1>1, NameKeeps DEF InitHostPost
<1>3. \A t : Keeps(EmmcClockBits, regs, UhsSignaling(regs, t))
  <2>1. Keeps(EmmcClockBits, regs, MmioAndThenOr(regs, <<"EMMC_HOST_CTRL2">>, {}, {0, 1, 2}))
    BY <1>1, NameKeeps
  <2> QED BY <2>1, KeepsItself DEF UhsSignaling
<1>4. \A t \in BusModes : ClockFits(SwitchClockFreqPost(regs, t), t)
  BY ModeFits
<1> QED BY <1>2, <1>3, <1>4 DEF EmmcSdMmcNotifyPhase, BusModes

LEMMA FitsKept ==
  ASSUME NEW r, NEW s, NEW t, Keeps(EmmcClockBits, r, s), ClockFits(r, t)
  PROVE  ClockFits(s, t)
  BY EmmcClockKept DEF ClockFits

\* Bits that are in no register of a pin's function, pull or drive strength.
LEMMA NamesApart ==
  ASSUME NEW W, \A x \in W : x[1][1] \notin {"IOMUX", "P"}
  PROVE  PmicApart(W) /\ \A t : TableApart(W, t)
<1>1. \A g, pin : Disjoint(W, PinBits(g, pin))
  <2>1. \A g, pin : \A x \in PinBits(g, pin) : x[1][1] \in {"IOMUX", "P"}
    BY DEF PinBits
  <2> QED BY <2>1 DEF Disjoint
<1> QED BY <1>1 DEF PmicApart, TableApart

LEMMA EmmcClockApart ==
  /\ Shared(EmmcClockBits) /\ UsbApart(EmmcClockBits) /\ BridgeApart(EmmcClockBits)
  /\ MshcApart(EmmcClockBits) /\ PmicApart(EmmcClockBits)
  /\ GmacApart(EmmcClockBits) /\ WiFiApart(EmmcClockBits)
  /\ \A i : Dwc3Apart(EmmcClockBits, i)
<1> DEFINE W == EmmcClockBits
<1>1. \A x \in W : x[1][1] = "EMMC_DLL" \/ x[1] = CLKSEL28
  BY DEF EmmcClockBits, DLL
<1>2. \A x \in W : /\ x[1][1] \in {"EMMC_DLL", "CLKSEL"}
                    /\ x[1] # CLKSEL30 /\ x[1] # <<"CLKSEL", 33>>
  BY <1>1 DEF CLKSEL28, CLKSEL30
<1> HIDE DEF W
<1>3. \A reg, b : reg[1] \notin {"EMMC_DLL", "CLKSEL"} => <<reg, b>> \notin W
  BY <1>2
<1>4. Shared(W) /\ (\A g, pin : PinApart(W, g, pin)) /\ \A i : Dwc3Apart(W, i)
  BY <1>2, <1>3 DEF Shared, SharedNames, PinApart, Dwc3Apart, Dwc3
<1>5. \A i : PhyApart(W, i)
  BY <1>2, <1>3 DEF PhyApart, Con, PMUCLKSEL9
<1>6. /\ \A n, b : <<<<"SOFTRST", n>>, b>> \notin W
      /\ \A n, b : <<<<"GATE", n>>, b>> \notin W
      /\ \A x \in W : x[1][1] # "PCIE_APB"
  BY <1>2, <1>3
<1>7. \A i : Disjoint(W, SdmmcBits(i))
  BY <1>2 DEF Disjoint, SdmmcBits
<1>8. PmicApart(W) /\ \A t : TableApart(W, t)
  BY <1>2, NamesApart
<1>9. UsbApart(W) /\ BridgeApart(W)
  BY <1>4, <1>5, <1>6 DEF UsbApart, BridgeApart, SlotApart, PortApart
<1>10. MshcApart(W) /\ GmacApart(W) /\ WiFiApart(W)
  BY <1>2, <1>4, <1>6, <1>7, <1>8 DEF MshcApart, GmacApart, WiFiApart
<1> QED BY <1>4, <1>8, <1>9, <1>10 DEF W

------------------------------------------------------------------------------
(* The root port's configuration space (PciSegment, PciHost): what no access *)
(* of the bus driver changes, how the root port is set up, what a probe sees. *)

LEMMA OutboundIs ==
  /\ DOMAIN Outbound = 0..2
  /\ Outbound[0] = [type |-> "CFG0", base |-> 256, pages |-> 16, target |-> 256]
  /\ Outbound[1].type = "CFG1" /\ Outbound[2].type = "IO"
  BY DEF Outbound, PciSetupAtu

\* The bits of the configuration space that no access changes while the root
\* port's read-only registers are locked.
Held == ({"rootPort", "endpoint"} \X ReadOnly \X (0..7)) \cup {<<"rootPort", 2236, 0>>}

LEMMA StoreHolds ==
  ASSUME NEW c, ~Unlocked(c), NEW f, NEW off \in Nat, NEW n \in Nat, NEW bits,
         f = "rootPort" => ~(off <= 2236 /\ 2236 < off + n)
  PROVE  Keeps(Held, c, Store(c, f, off, n, bits))
<1> DEFINE writable == {b \in 0..(8 * n - 1) : \/ off + b \div 8 \notin ReadOnly
                                               \/ f = "rootPort" /\ Unlocked(c)}
<1>1. ASSUME NEW b \in writable PROVE Place(f, off, b) \notin Held
  <2>1. b \in Int /\ 0 <= b /\ b <= 8 * n - 1 /\ off + b \div 8 \notin ReadOnly
    BY <1>1
  <2>2. b \div 8 \in Nat /\ b \div 8 <= n - 1
    BY <2>1
  <2>3. f = "rootPort" => off + b \div 8 # 2236
    BY <2>2
  <2> QED BY <2>1, <2>3 DEF Held, Place
<1> HIDE DEF writable
<1>2. Store(c, f, off, n, bits) = (c \ {Place(f, off, b) : b \in writable})
                                    \cup {Place(f, off, b) : b \in bits \cap writable}
  BY DEF Store, writable
<1> QED BY <1>1, <1>2 DEF Keeps

LEMMA WorkerHolds ==
  ASSUME NEW c, ~Unlocked(c), NEW a, a.bus \in 0..255, a.dev \in 0..31, a.off \in Nat,
         NEW n \in Nat, NEW bits, a.bus = 0 => ~(a.off <= 2236 /\ 2236 < a.off + n)
  PROVE  Keeps(Held, c, PciSegmentLibWriteWorker(c, a, n, bits))
<1>1. FunctionAt(Page(a)) = "rootPort" => a.bus = 0
  <2> DEFINE bus == a.bus
             dev == a.dev
  <2>1. bus \in 0..255 /\ dev \in 0..31
    OBVIOUS
  <2>2. bus # 0 => Page(a) = CFG_WINDOW + 256 * bus + 8 * dev
    BY DEF Page, PciSegmentLibGetConfigBase
  <2> HIDE DEF bus, dev
  <2>3. CFG_WINDOW + 256 * bus + 8 * dev < PCIE2X1_DBI_PAGE
    BY ONLY <2>1 DEF CFG_WINDOW, PCIE2X1_DBI_PAGE
  <2>4. bus # 0 => Page(a) # PCIE2X1_DBI_PAGE
    <3> DEFINE w == CFG_WINDOW + 256 * bus + 8 * dev
               d == PCIE2X1_DBI_PAGE
    <3>1. w \in Int /\ d \in Int /\ w < d
      BY ONLY <2>1, <2>3 DEF CFG_WINDOW, PCIE2X1_DBI_PAGE
    <3> HIDE DEF w, d
    <3>2. w # d
      BY ONLY <3>1
    <3> QED BY <2>2, <3>2 DEF w, d
  <2> QED BY <2>4 DEF FunctionAt, bus
<1>2. Keeps(Held, c, Store(c, FunctionAt(Page(a)), a.off, n, bits))
  BY <1>1, StoreHolds
<1> QED BY <1>2, KeepsItself DEF PciSegmentLibWriteWorker

LEMMA LegalAccess ==
  ASSUME NEW q \in PciAccesses
  PROVE  /\ q.at.bus \in 0..255 /\ q.at.dev \in 0..31 /\ q.at.off \in Nat
         /\ q.kind \in {"update", "field"} => q.size \in {1, 2, 4}
         /\ q.kind \notin {"update", "field"} =>
              q.data \in Seq(SUBSET (0..7)) /\ q.size = Len(q.data)
         /\ q.kind # "read" /\ q.at.bus = 0 =>
              ~(q.at.off <= 2236 /\ 2236 < q.at.off + q.size)
<1>0. /\ q.at \in ConfigAddress
      /\ Register(q) \/ BufferOf(q)
      /\ SparesPortLogic(q)
  BY PciAccessesAssumption DEF PciAccessesAssumption
<1>1. q.at \in [bus : 0..255, dev : 0..31, off : 0..4095]
  BY ONLY <1>0 DEF ConfigAddress
<1>2. q.at.bus \in 0..255 /\ q.at.dev \in 0..31 /\ q.at.off \in 0..4095
  <2> DEFINE a == q.at
  <2>1. a \in [bus : 0..255, dev : 0..31, off : 0..4095]
    BY <1>1
  <2> HIDE DEF a
  <2>2. a.bus \in 0..255 /\ a.dev \in 0..31 /\ a.off \in 0..4095
    BY ONLY <2>1
  <2> QED BY <2>2 DEF a
<1>3. q.at.off \in Nat
  <2> DEFINE off == q.at.off
  <2>1. off \in 0..4095
    BY ONLY <1>2
  <2> HIDE DEF off
  <2>2. off \in Nat
    BY <2>1
  <2> QED BY <2>2 DEF off
<1>4. q.kind \in {"update", "field"} => q.size \in {1, 2, 4}
  BY ONLY <1>0 DEF Register, BufferOf
<1>5. q.kind \notin {"update", "field"} =>
        q.data \in Seq(SUBSET (0..7)) /\ q.size = Len(q.data)
  BY ONLY <1>0 DEF Register, BufferOf
<1>6. q.kind # "read" /\ q.at.bus = 0 =>
        ~(q.at.off <= 2236 /\ 2236 < q.at.off + q.size)
  BY ONLY <1>0 DEF SparesPortLogic
<1> QED BY <1>2, <1>3, <1>4, <1>5, <1>6

LEMMA UpdateHolds ==
  ASSUME ~Unlocked(cfg), NEW q \in PciAccesses, q.kind \in {"update", "field"}
  PROVE  Keeps(Held, cfg, AfterUpdate(q))
<1>1. /\ q.at.bus \in 0..255 /\ q.at.dev \in 0..31 /\ q.at.off \in Nat /\ q.size \in {1, 2, 4}
      /\ q.at.bus = 0 => ~(q.at.off <= 2236 /\ 2236 < q.at.off + q.size)
  BY LegalAccess
<1>2. \A bits : Keeps(Held, cfg, PciSegmentLibWriteWorker(cfg, q.at, q.size, bits))
  BY <1>1, WorkerHolds
<1>3. /\ q.size = 1 => /\ Keeps(Held, cfg, Update8(cfg, q.at, q.op))
                       /\ Keeps(Held, cfg, BitField8(cfg, q.at, q.op))
      /\ q.size = 2 => /\ Keeps(Held, cfg, Update16(cfg, q.at, q.op))
                       /\ Keeps(Held, cfg, BitField16(cfg, q.at, q.op))
      /\ q.size = 4 => /\ Keeps(Held, cfg, Update32(cfg, q.at, q.op))
                       /\ Keeps(Held, cfg, BitField32(cfg, q.at, q.op))
  BY <1>2 DEF Update8, Update16, Update32, BitField8, BitField16, BitField32,
     PciSegmentWrite8, PciSegmentWrite16, PciSegmentWrite32
<1>4. q.kind = "update" \/ q.kind = "field"
  OBVIOUS
<1>5. q.size = 1 \/ q.size = 2 \/ q.size = 4
  BY <1>1
<1> QED BY ONLY <1>3, <1>4, <1>5, Zenon DEF AfterUpdate

\* The pieces of a buffer lie within it.
Within(off, size) == {p \in Nat \X Nat : off <= p[1] /\ p[1] + p[2] <= off + size}

LEMMA PieceInside ==
  ASSUME NEW off \in Nat, NEW size \in Nat, NEW at \in Nat, NEW n \in Nat,
         off <= at, at + n <= off + size
  PROVE  Piece(at, n) \in Seq(Within(off, size))
<1>1. <<at, n>> \in Within(off, size)
  BY DEF Within
<1> QED BY <1>1 DEF Piece

LEMMA PiecesInside ==
  ASSUME NEW off \in Nat, NEW size \in Nat
  PROVE  Pieces(off, size) \in Seq(Within(off, size))
<1> DEFINE odd   == IF off % 2 = 1 /\ size > 0 THEN 1 ELSE 0
           word  == IF size - odd >= 2 /\ ((off + odd) \div 2) % 2 = 1 THEN 2 ELSE 0
           at    == off + odd + word
           left  == size - odd - word
           dword == left \div 4
           tail  == 2 * ((left % 4) \div 2)
           last  == left % 2
           I     == Within(off, size)
           words == [i \in 1..dword |-> <<at + 4 * (i - 1), 4>>]
<1>1. odd \in 0..1 /\ odd <= size
  OBVIOUS
<1> HIDE DEF odd
<1>2. word \in {0, 2} /\ odd + word <= size
  BY <1>1
<1> HIDE DEF word
<1>3. left \in Nat /\ at \in Nat /\ at + left = off + size /\ off <= at
  BY <1>1, <1>2
<1> HIDE DEF at, left
<1>4. dword \in Nat /\ tail \in Nat /\ last \in Nat /\ 4 * dword + tail + last = left
  BY <1>3
<1> HIDE DEF dword, tail, last
<1>5. /\ Piece(off, odd) \in Seq(I) /\ Piece(off + odd, word) \in Seq(I)
  <2>1. Piece(off, odd) \in Seq(I)
    <3>1. odd \in Nat /\ off <= off /\ off + odd <= off + size
      BY <1>1
    <3> QED BY ONLY <3>1, off \in Nat, size \in Nat, PieceInside
  <2>2. Piece(off + odd, word) \in Seq(I)
    <3>1. /\ off + odd \in Nat /\ word \in Nat /\ off <= off + odd
          /\ (off + odd) + word <= off + size
      BY <1>1, <1>2
    <3> DEFINE here == off + odd
    <3> HIDE DEF here
    <3>2. here \in Nat /\ word \in Nat /\ off <= here /\ here + word <= off + size
      BY <3>1 DEF here
    <3>3. Piece(here, word) \in Seq(I)
      BY ONLY <3>2, off \in Nat, size \in Nat, PieceInside
    <3> QED BY <3>3 DEF here
  <2> QED BY <2>1, <2>2
<1>6. words \in Seq(I)
  <2>1. \A i \in 1..dword : <<at + 4 * (i - 1), 4>> \in I
    BY <1>3, <1>4 DEF Within
  <2> HIDE DEF I
  <2> QED BY <1>4, <2>1
<1>7. Piece(at + 4 * dword, tail) \in Seq(I) /\ Piece(at + 4 * dword + tail, last) \in Seq(I)
  <2> DEFINE here == at + 4 * dword
             then == here + tail
  <2>1. /\ here \in Nat /\ tail \in Nat /\ off <= here /\ here + tail <= off + size
        /\ then \in Nat /\ last \in Nat /\ off <= then /\ then + last <= off + size
    BY <1>3, <1>4
  <2> HIDE DEF here, then
  <2>2. Piece(here, tail) \in Seq(I) /\ Piece(then, last) \in Seq(I)
    BY ONLY <2>1, off \in Nat, size \in Nat, PieceInside
  <2> QED BY <2>2 DEF here, then
<1> HIDE DEF words, I
<1>8. Piece(off, odd) \o Piece(off + odd, word) \o words
        \o Piece(at + 4 * dword, tail) \o Piece(at + 4 * dword + tail, last) \in Seq(I)
  <2>1. \A s, t \in Seq(I) : s \o t \in Seq(I)
    OBVIOUS
  <2> QED BY ONLY <1>5, <1>6, <1>7, <2>1, Zenon
<1> QED BY <1>8 DEF Pieces, words, I, odd, word, at, left, dword, tail, last

\* The store of one piece of a buffer.
StorePiece(a, buffer, d, p) ==
    PciSegmentLibWriteWorker(d, [a EXCEPT !.off = p[1]], p[2],
        FromBytes(SubSeq(buffer, p[1] - a.off + 1, p[1] - a.off + p[2])))

\* What FoldLeft chooses for a buffer, and that there is something to choose.
Storing(N, c, a, buffer, pieces, it) ==
    [s \in SUBSET (1..N) |->
       IF s = {} THEN c ELSE StorePiece(a, buffer, it[s \ {Max(s)}], pieces[Max(s)])]

LEMMA StoringExists ==
  ASSUME NEW N \in Nat, NEW c, NEW a, NEW buffer, NEW pieces
  PROVE  \E it : it = Storing(N, c, a, buffer, pieces, it)
<1> DEFINE B == {n \in Nat : ~ \E it : it = Storing(n, c, a, buffer, pieces, it)}
<1>1. ASSUME B # {} PROVE FALSE
  <2>1. PICK n \in B : \A m \in B : n <= m
    BY <1>1, LeastMember
  <2>2. n # 0
    <3> DEFINE it == [s \in SUBSET (1 .. 0) |-> c]
    <3>1. \A s \in SUBSET (1 .. 0) : s = {}
      OBVIOUS
    <3>2. it = Storing(0, c, a, buffer, pieces, it)
      BY <3>1 DEF Storing
    <3>3. 0 \notin B
      BY <3>2
    <3> QED BY <2>1, <3>3
  <2>3. PICK k \in Nat : n = k + 1
    BY <2>2
  <2>4. k \notin B
    BY <2>1, <2>3
  <2>5. PICK f : f = Storing(k, c, a, buffer, pieces, f)
    BY <2>4
  <2> DEFINE g == [s \in SUBSET (1 .. n) |->
                     IF n \in s THEN StorePiece(a, buffer, f[s \ {n}], pieces[n]) ELSE f[s]]
  <2>6. ASSUME NEW s \in SUBSET (1 .. n) PROVE g[s] = Storing(n, c, a, buffer, pieces, g)[s]
    <3>1. CASE n \in s
      <4>1. Max(s) = n /\ s # {}
        BY <3>1, MaxOf
      <4>2. s \ {n} \in SUBSET (1 .. n) /\ n \notin s \ {n}
        OBVIOUS
      <4> QED BY <3>1, <4>1, <4>2 DEF Storing
    <3>2. CASE n \notin s
      <4>1. s \in SUBSET (1 .. k)
        BY <3>2, <2>3
      <4>2. f[s] = IF s = {} THEN c ELSE StorePiece(a, buffer, f[s \ {Max(s)}], pieces[Max(s)])
        BY <2>5, <4>1 DEF Storing
      <4>3. CASE s # {}
        <5>1. Max(s) \in s
          BY <4>1, <4>3, MaxOf
        <5>2. s \ {Max(s)} \in SUBSET (1 .. n) /\ n \notin s \ {Max(s)}
          BY <3>2
        <5> QED BY <3>2, <4>2, <4>3, <5>1, <5>2 DEF Storing
      <4>4. CASE s = {}
        BY <3>2, <4>2, <4>4 DEF Storing
      <4> QED BY <4>3, <4>4
    <3> QED BY <3>1, <3>2
  <2>7. g = Storing(n, c, a, buffer, pieces, g)
    <3>1. Storing(n, c, a, buffer, pieces, g)
            = [s \in SUBSET (1 .. n) |-> Storing(n, c, a, buffer, pieces, g)[s]]
      BY DEF Storing
    <3>2. g = [s \in SUBSET (1 .. n) |-> g[s]]
      OBVIOUS
    <3> HIDE DEF g
    <3> QED BY <3>1, <3>2, <2>6
  <2> QED BY <2>1, <2>7
<1> QED BY <1>1

\* What FoldLeft comes to for a buffer: the states after each of its pieces.
LEMMA BufferSteps ==
  ASSUME NEW c, NEW a, NEW buffer, NEW N \in Nat, N = Len(Pieces(a.off, Len(buffer))),
         DOMAIN Pieces(a.off, Len(buffer)) = 1..N
  PROVE  \E at : /\ at[0] = c
                 /\ at[N] = PciSegmentWriteBuffer(c, a, buffer)
                 /\ \A n \in 1..N :
                      at[n] = StorePiece(a, buffer, at[n - 1], Pieces(a.off, Len(buffer))[n])
<1> DEFINE pieces == Pieces(a.off, Len(buffer))
           it == CHOOSE i : i = Storing(N, c, a, buffer, pieces, i)
           at == [n \in 0..N |-> it[1..n]]
<1>1. PciSegmentWriteBuffer(c, a, buffer) = it[1..N]
  <2>1. PciSegmentWriteBuffer(c, a, buffer) =
          LET one(d, p) == StorePiece(a, buffer, d, p) IN FoldLeft(one, c, pieces)
    BY DEF PciSegmentWriteBuffer, StorePiece
  <2>2. N = Len(pieces) /\ DOMAIN pieces = 1..N
    OBVIOUS
  <2> HIDE DEF pieces
  <2> QED BY <2>1, <2>2 DEF FoldLeft, MapThenFoldSet, Storing
<1>2. it = Storing(N, c, a, buffer, pieces, it)
  BY StoringExists
<1> HIDE DEF it, pieces
<1>3. it[1..0] = c
  <2>1. 1..0 = {} /\ {} \in SUBSET (1..N)
    OBVIOUS
  <2> QED BY <1>2, <2>1 DEF Storing
<1>4. ASSUME NEW n \in 1..N PROVE it[1..n] = StorePiece(a, buffer, it[1..(n - 1)], pieces[n])
  <2> DEFINE s == 1..n
  <2>1. n \in Nat /\ s # {} /\ n \in s /\ s \in SUBSET (1..n)
    OBVIOUS
  <2>2. s \in SUBSET (1..N) /\ s \ {n} = 1..(n - 1)
    OBVIOUS
  <2> HIDE DEF s
  <2>3. Max(s) = n
    BY ONLY <2>1, MaxOf
  <2>4. Storing(N, c, a, buffer, pieces, it)[s] = StorePiece(a, buffer, it[s \ {Max(s)}], pieces[Max(s)])
    BY <2>1, <2>2 DEF Storing
  <2> QED BY ONLY <1>2, <2>2, <2>3, <2>4 DEF s
<1>5. /\ at[0] = c /\ at[N] = PciSegmentWriteBuffer(c, a, buffer)
      /\ \A n \in 1..N : at[n] = StorePiece(a, buffer, at[n - 1], pieces[n])
  BY <1>1, <1>3, <1>4
<1> QED BY <1>5 DEF pieces

\* A buffer is stored piece by piece, and each leaves what is held alone.
LEMMA BufferHolds ==
  ASSUME NEW c, ~Unlocked(c), NEW a, a.bus \in 0..255, a.dev \in 0..31, a.off \in Nat,
         a \in [bus : 0..255, dev : 0..31, off : 0..4095],
         NEW buffer, Len(buffer) \in Nat,
         a.bus = 0 => ~(a.off <= 2236 /\ 2236 < a.off + Len(buffer))
  PROVE  Keeps(Held, c, PciSegmentWriteBuffer(c, a, buffer))
<1> DEFINE pieces == Pieces(a.off, Len(buffer))
           N == Len(pieces)
<1>1. pieces \in Seq(Within(a.off, Len(buffer)))
  BY PiecesInside
<1> HIDE DEF pieces
<1>2. N \in Nat /\ DOMAIN pieces = 1..N /\ \A k \in 1..N : pieces[k] \in Within(a.off, Len(buffer))
  BY <1>1
<1>3. PICK at : /\ at[0] = c
                /\ at[N] = PciSegmentWriteBuffer(c, a, buffer)
                /\ \A n \in 1..N : at[n] = StorePiece(a, buffer, at[n - 1], pieces[n])
  <2>1. N \in Nat /\ N = Len(pieces) /\ DOMAIN pieces = 1..N
    BY <1>2
  <2> HIDE DEF N
  <2> QED BY ONLY <2>1, BufferSteps DEF pieces
<1> HIDE DEF N
<1>5. ASSUME NEW d, Keeps(Held, c, d), NEW k \in 1..N
      PROVE  Keeps(Held, c, StorePiece(a, buffer, d, pieces[k]))
  <2> DEFINE p == pieces[k]
             here == [a EXCEPT !.off = p[1]]
  <2>1. p[1] \in Nat /\ p[2] \in Nat /\ a.off <= p[1] /\ p[1] + p[2] <= a.off + Len(buffer)
    <3>1. p \in Within(a.off, Len(buffer))
      BY <1>2
    <3> HIDE DEF p
    <3> QED BY ONLY <3>1 DEF Within
  <2>2. ~Unlocked(d)
    BY <1>5 DEF Keeps, Held, Unlocked
  <2> HIDE DEF p
  <2>3. here.bus = a.bus /\ here.dev = a.dev /\ here.off = p[1]
    OBVIOUS
  <2>4. here.bus = 0 => ~(here.off <= 2236 /\ 2236 < here.off + p[2])
    BY <2>1, <2>3
  <2> HIDE DEF here
  <2>5. Keeps(Held, d, StorePiece(a, buffer, d, p))
    <3>1. here.bus \in 0..255 /\ here.dev \in 0..31 /\ here.off \in Nat /\ p[2] \in Nat
      BY <2>1, <2>3
    <3>2. \A bits : Keeps(Held, d, PciSegmentLibWriteWorker(d, here, p[2], bits))
      BY ONLY <2>2, <3>1, <2>4, WorkerHolds
    <3> QED BY <3>2 DEF StorePiece, here
  <2> QED BY <1>5, <2>5, KeepsChain DEF p
<1> DEFINE T == {n \in 0..N : ~Keeps(Held, c, at[n])}
<1>6. ASSUME T # {} PROVE FALSE
  <2>0. T \in SUBSET Nat
    BY <1>2
  <2>1. PICK n \in T : \A m \in T : n <= m
    <3> HIDE DEF T
    <3> QED BY ONLY <1>6, <2>0, LeastMember
  <2>2. n # 0
    BY <1>3, <2>1, KeepsItself
  <2>3. n - 1 \in 0..N /\ n - 1 \notin T /\ n \in 1..N
    BY <1>2, <2>1, <2>2
  <2> QED BY <1>3, <1>5, <2>1, <2>3
<1>7. N \in 0..N
  BY <1>2
<1> QED BY <1>3, <1>6, <1>7

LEMMA BusStepHolds ==
  ASSUME ~Unlocked(cfg), PciBusStep
  PROVE  Keeps(Held, cfg, cfg') /\ UNCHANGED <<link, atu>>
<1>1. CASE PciUpdate
  BY <1>1, UpdateHolds DEF PciUpdate
<1>2. CASE PciReadBuffer
  BY <1>2, KeepsItself DEF PciReadBuffer
<1>3. CASE PciWriteBuffer
  <2>1. PICK q \in PciAccesses : /\ q.kind = "write"
                                 /\ cfg' = PciSegmentWriteBuffer(cfg, q.at, q.data)
                                 /\ UNCHANGED <<link, atu>>
    BY <1>3 DEF PciWriteBuffer
  <2>2. q.data \in Seq(SUBSET (0..7)) /\ q.size = Len(q.data)
    BY <2>1, LegalAccess
  <2>3. Len(q.data) \in Nat
    BY <2>2
  <2>4. q.at \in [bus : 0..255, dev : 0..31, off : 0..4095]
    BY PciAccessesAssumption DEF PciAccessesAssumption, ConfigAddress
  <2>5. Keeps(Held, cfg, PciSegmentWriteBuffer(cfg, q.at, q.data))
    <3> DEFINE a == q.at
               data == q.data
    <3>1. /\ a.bus \in 0..255 /\ a.dev \in 0..31 /\ a.off \in Nat
          /\ a \in [bus : 0..255, dev : 0..31, off : 0..4095] /\ Len(data) \in Nat
          /\ a.bus = 0 => ~(a.off <= 2236 /\ 2236 < a.off + Len(data))
      BY <2>1, <2>2, <2>3, <2>4, LegalAccess
    <3> HIDE DEF a, data
    <3>2. Keeps(Held, cfg, PciSegmentWriteBuffer(cfg, a, data))
      BY <3>1, BufferHolds
    <3> QED BY <3>2 DEF a, data
  <2> QED BY <2>1, <2>5
<1> QED BY <1>1, <1>2, <1>3 DEF PciBusStep

\* A bit's place tells which bit it is.
LEMMA Places ==
  ASSUME NEW f, NEW off \in Nat, NEW n \in Nat, NEW b \in 0..(8 * n - 1)
  PROVE  /\ off + b \div 8 \in Nat /\ off <= off + b \div 8 /\ off + b \div 8 < off + n
         /\ \A a \in 0..(8 * n - 1) : Place(f, off, a) = Place(f, off, b) => a = b
<1>1. b \div 8 \in Nat /\ b \div 8 <= n - 1 /\ b = 8 * (b \div 8) + (b % 8)
  OBVIOUS
<1>2. ASSUME NEW a \in 0..(8 * n - 1), Place(f, off, a) = Place(f, off, b) PROVE a = b
  <2>1. off + a \div 8 = off + b \div 8 /\ a % 8 = b % 8
    BY <1>2 DEF Place
  <2>2. a = 8 * (a \div 8) + (a % 8) /\ a \div 8 \in Int
    OBVIOUS
  <2> QED BY <1>1, <2>1, <2>2
<1> QED BY <1>1, <1>2

\* A store leaves the other bytes alone.
LEMMA StoreKeeps ==
  ASSUME NEW W, NEW c, NEW f, NEW off \in Nat, NEW n \in Nat, NEW bits,
         \A x \in W : x[1] = f => ~(off <= x[2] /\ x[2] < off + n)
  PROVE  Keeps(W, c, Store(c, f, off, n, bits))
<1> DEFINE writable == {b \in 0..(8 * n - 1) : \/ off + b \div 8 \notin ReadOnly
                                               \/ f = "rootPort" /\ Unlocked(c)}
<1>1. ASSUME NEW b \in writable PROVE Place(f, off, b) \notin W
  <2>1. b \in 0..(8 * n - 1)
    OBVIOUS
  <2>2. off <= off + b \div 8 /\ off + b \div 8 < off + n
    BY <2>1, Places
  <2> QED BY <2>2 DEF Place
<1> HIDE DEF writable
<1>2. Store(c, f, off, n, bits) = (c \ {Place(f, off, b) : b \in writable})
                                    \cup {Place(f, off, b) : b \in bits \cap writable}
  BY DEF Store, writable
<1> QED BY <1>1, <1>2 DEF Keeps

\* What is stored in the unlocked root port can be loaded.
LEMMA StoredIsLoaded ==
  ASSUME NEW c, Unlocked(c), NEW off \in Nat, NEW n \in Nat, NEW bits \in SUBSET (0..(8 * n - 1))
  PROVE  \A b \in 0..(8 * n - 1) :
           Place("rootPort", off, b) \in Store(c, "rootPort", off, n, bits) <=> b \in bits
<1> DEFINE all == 0..(8 * n - 1)
<1>1. Store(c, "rootPort", off, n, bits) = (c \ {Place("rootPort", off, b) : b \in all})
                                             \cup {Place("rootPort", off, b) : b \in bits}
  <2>1. {b \in all : off + b \div 8 \notin ReadOnly \/ ("rootPort" = "rootPort" /\ Unlocked(c))} = all
    OBVIOUS
  <2>2. bits \cap all = bits
    OBVIOUS
  <2> HIDE DEF all
  <2> QED BY <2>1, <2>2 DEF Store, all
<1>2. \A a, b \in all : Place("rootPort", off, a) = Place("rootPort", off, b) => a = b
  BY Places
<1> HIDE DEF all
<1>3. bits \subseteq all
  BY DEF all
<1>4. \A b \in all : Place("rootPort", off, b) \in Store(c, "rootPort", off, n, bits) <=> b \in bits
  BY ONLY <1>1, <1>2, <1>3
<1> QED BY <1>4 DEF all

\* Revision and interface of both functions.
BlankBits == {"rootPort", "endpoint"} \X {8, 9} \X (0..7)
Blank(c) == \A x \in BlankBits : x \notin c

\* What setting up the root port leaves in its configuration space.
CfgSet(c) ==
    /\ Load(c, "rootPort", 10, 2) = BridgeClass
    /\ Load(c, "rootPort", 124, 1) \cap (0..3) = Bits(PCIE_LINK_SPEED, 0)

LEMMA LoadKept ==
  ASSUME NEW W, NEW c, NEW d, Keeps(W, c, d), NEW f, NEW off \in Nat, NEW n \in Nat,
         \A b \in 0..(8 * n - 1) : Place(f, off, b) \in W
  PROVE  Load(c, f, off, n) = Load(d, f, off, n)
  BY DEF Load, Keeps

LEMMA HeldPlaces ==
  /\ \A b \in 0..15 : Place("rootPort", 10, b) \in Held
  /\ \A b \in 0..7 : Place("rootPort", 124, b) \in Held
  /\ BlankBits \subseteq Held
<1>1. \A b \in 0..15 : b \div 8 \in {0, 1} /\ b % 8 \in 0..7
  OBVIOUS
<1>2. \A b \in 0..7 : b \div 8 = 0 /\ b % 8 \in 0..7
  OBVIOUS
<1>3. \A b \in 0..15 : Place("rootPort", 10, b) \in Held
  BY <1>1 DEF Place, Held, ReadOnly
<1>4. \A b \in 0..7 : Place("rootPort", 124, b) \in Held
  BY <1>2 DEF Place, Held, ReadOnly
<1>5. BlankBits \subseteq Held
  BY DEF BlankBits, Held, ReadOnly
<1> QED BY <1>3, <1>4, <1>5

LEMMA CfgKept ==
  ASSUME NEW c, NEW d, Keeps(Held, c, d)
  PROVE  /\ CfgSet(c) => CfgSet(d)
         /\ Blank(c) => Blank(d)
         /\ ~Unlocked(c) => ~Unlocked(d)
<1>1. Load(c, "rootPort", 10, 2) = Load(d, "rootPort", 10, 2)
  <2>1. 8 * 2 - 1 = 15
    OBVIOUS
  <2> QED BY <2>1, HeldPlaces, LoadKept
<1>2. Load(c, "rootPort", 124, 1) = Load(d, "rootPort", 124, 1)
  <2>1. 8 * 1 - 1 = 7
    OBVIOUS
  <2> QED BY <2>1, HeldPlaces, LoadKept
<1>3. Blank(c) => Blank(d)
  BY HeldPlaces DEF Blank, Keeps
<1>4. ~Unlocked(c) => ~Unlocked(d)
  BY DEF Unlocked, Keeps, Held
<1> QED BY <1>1, <1>2, <1>3, <1>4 DEF CfgSet

\* The root port's setup: from any state of its configuration space.
LEMMA SetUpDone ==
  ASSUME NEW c, NEW d, d = PciSetupLinkSpeed(PciSetupBars(c), PCIE_LINK_SPEED)
  PROVE  CfgSet(d) /\ ~Unlocked(d) /\ (Blank(c) => Blank(d))
<1> DEFINE e1 == Store(Unlock(c), "rootPort", 10, 2, BridgeClass)
           e2 == Lock(e1 \cup {<<"rootPort", 2062, 1>>})
           s1 == (Load(Unlock(e2), "rootPort", 124, 1) \ (0..3)) \cup Bits(1, 0)
           e3 == Store(Unlock(e2), "rootPort", 124, 1, s1)
           s2 == (Load(e3, "rootPort", 160, 1) \ (0..3)) \cup Bits(1, 0)
           e4 == Store(e3, "rootPort", 160, 1, s2)
           Class == {"rootPort"} \X {10, 11} \X (0..7)
           Speed == {"rootPort"} \X {124} \X (0..7)
<1>1. d = Lock(e4)
  BY DEF PciSetupLinkSpeed, PciSetupBars, PCIE_LINK_SPEED
<1>2. \A W, x : (\A y \in W : y[2] # 2236) => Keeps(W, x, Lock(x)) /\ Keeps(W, x, Unlock(x))
  BY DEF Lock, Unlock, Keeps
<1>3. \A b \in 0..15 : Place("rootPort", 10, b) \in e1 <=> b \in BridgeClass
  <2>1. Unlocked(Unlock(c)) /\ 8 * 2 - 1 = 15 /\ BridgeClass \in SUBSET (0..15)
    BY DEF Unlocked, Unlock, BridgeClass
  <2> QED BY <2>1, StoredIsLoaded
<1>4. Keeps(BlankBits, Unlock(c), e1)
  <2>1. \A x \in BlankBits : x[1] = "rootPort" => ~(10 <= x[2] /\ x[2] < 10 + 2)
    BY DEF BlankBits
  <2> QED BY <2>1, StoreKeeps
<1>5. Keeps(BlankBits, c, Unlock(c))
  BY <1>2 DEF BlankBits
<1> HIDE DEF e1
<1>6. /\ \A x \in BlankBits \cup Class \cup Speed : x[2] \notin {2236, 2062}
      /\ \A x \in BlankBits \cup Class : x[2] # 124
      /\ \A x \in BlankBits \cup Class \cup Speed : x[2] # 160
  BY DEF BlankBits
<1> HIDE DEF Class, Speed
<1>7. Keeps(BlankBits \cup Class, e1, e2)
  BY <1>6 DEF Keeps, Lock
<1> HIDE DEF e2
<1>8. Keeps(BlankBits \cup Class, e2, Unlock(e2))
  BY <1>2, <1>6
<1>9. Keeps(BlankBits \cup Class, Unlock(e2), e3)
  <2>1. \A x \in BlankBits \cup Class : x[1] = "rootPort" => ~(124 <= x[2] /\ x[2] < 124 + 1)
    BY <1>6 DEF BlankBits, Class
  <2> HIDE DEF s1
  <2> QED BY <2>1, StoreKeeps
<1>10. \A b \in 0..7 : Place("rootPort", 124, b) \in e3 <=> b \in s1
  <2>1. Bits(1, 0) = {0}
    BY SmallNumbers
  <2>2. Unlocked(Unlock(e2)) /\ 8 * 1 - 1 = 7 /\ s1 \in SUBSET (0..7)
    BY <2>1 DEF Unlocked, Unlock, Load
  <2> HIDE DEF s1
  <2> QED BY <2>2, StoredIsLoaded
<1>11. \A b \in 0..3 : b \in s1 <=> b = 0
  <2>1. Bits(1, 0) = {0}
    BY SmallNumbers
  <2> QED BY <2>1
<1> HIDE DEF s1, e3
<1>12. Keeps(BlankBits \cup Class \cup Speed, e3, e4)
  <2>1. \A x \in BlankBits \cup Class \cup Speed : x[1] = "rootPort" => ~(160 <= x[2] /\ x[2] < 160 + 1)
    BY <1>6 DEF BlankBits, Class, Speed
  <2> HIDE DEF s2
  <2> QED BY <2>1, StoreKeeps
<1> HIDE DEF e4
<1>13. Keeps(BlankBits \cup Class \cup Speed, e4, d)
  BY <1>1, <1>2, <1>6
<1>14. Keeps(BlankBits \cup Class, e1, d) /\ Keeps(Speed, e3, d)
  BY <1>7, <1>8, <1>9, <1>12, <1>13 DEF Keeps
<1>15. Blank(c) => Blank(d)
  BY <1>4, <1>5, <1>14 DEF Blank, Keeps
<1>16. ~Unlocked(d)
  BY <1>1 DEF Unlocked, Lock
<1>17. Load(d, "rootPort", 10, 2) = BridgeClass
  <2>1. \A b \in 0..15 : Place("rootPort", 10, b) \in Class
    <3>1. \A b \in 0..15 : b \div 8 \in {0, 1} /\ b % 8 \in 0..7
      OBVIOUS
    <3> QED BY <3>1 DEF Class, Place
  <2>2. \A b \in 0..15 : Place("rootPort", 10, b) \in d <=> b \in BridgeClass
    BY <1>3, <1>14, <2>1 DEF Keeps
  <2>3. 8 * 2 - 1 = 15 /\ BridgeClass \subseteq 0..15
    BY DEF BridgeClass
  <2> QED BY <2>2, <2>3 DEF Load
<1>18. Load(d, "rootPort", 124, 1) \cap (0..3) = {0}
  <2>1. \A b \in 0..7 : Place("rootPort", 124, b) \in Speed
    <3>1. \A b \in 0..7 : b \div 8 = 0 /\ b % 8 \in 0..7
      OBVIOUS
    <3> QED BY <3>1 DEF Speed, Place
  <2>2. \A b \in 0..7 : Place("rootPort", 124, b) \in d <=> b \in s1
    BY <1>10, <1>14, <2>1 DEF Keeps
  <2>3. 8 * 1 - 1 = 7
    OBVIOUS
  <2>4. Load(d, "rootPort", 124, 1) = {b \in 0..7 : Place("rootPort", 124, b) \in d}
    BY <2>3 DEF Load
  <2> QED BY <1>11, <2>2, <2>4
<1>19. Bits(PCIE_LINK_SPEED, 0) = {0}
  BY SmallNumbers DEF PCIE_LINK_SPEED
<1> QED BY <1>15, <1>16, <1>17, <1>18, <1>19 DEF CfgSet

\* A probe finds the two functions, and neither a second time.
LEMMA Probe ==
  ASSUME link = "up", atu = Outbound, NEW c, Blank(c), NEW bus \in 0..1, NEW dev \in 0..31
  PROVE  PciSegmentRead16(c, [bus |-> bus, dev |-> dev, off |-> 8]) # 0..15 <=> dev = 0
<1> DEFINE a == [bus |-> bus, dev |-> dev, off |-> 8]
<1>1. a.bus = bus /\ a.dev = dev /\ a.off = 8
  OBVIOUS
<1> HIDE DEF a
<1>2. ASSUME NEW f \in {"rootPort", "endpoint"} PROVE Load(c, f, 8, 2) # 0..15
  <2>1. Place(f, 8, 0) = <<f, 8, 0>>
    BY DEF Place
  <2>2. <<f, 8, 0>> \notin c
    BY DEF Blank, BlankBits
  <2>3. 0 \notin Load(c, f, 8, 2)
    BY <2>1, <2>2 DEF Load
  <2> QED BY <2>3
<1>3. Page(a) = IF bus = 0 THEN 264192 + 8 * dev ELSE 264 + 8 * dev
  BY <1>1 DEF Page, PciSegmentLibGetConfigBase, PCIE2X1_DBI_PAGE, CFG_WINDOW
<1>4. (\E i \in DOMAIN atu : atu[i].type = "CFG0" /\ InRegion(Page(a), atu[i]))
        <=> (256 <= Page(a) /\ Page(a) < 272)
  <2>1. DOMAIN atu = {0, 1, 2}
    BY OutboundIs
  <2>2. InRegion(Page(a), atu[0]) <=> (256 <= Page(a) /\ Page(a) < 272)
    <3>1. atu[0].base = 256 /\ atu[0].pages = 16
      BY OutboundIs
    <3> QED BY <3>1 DEF InRegion
  <2> QED BY <2>1, <2>2, OutboundIs
<1>5. FunctionAt(Page(a)) = IF Page(a) = 264192 THEN "rootPort"
                            ELSE IF 256 <= Page(a) /\ Page(a) < 272 THEN "endpoint" ELSE "none"
  BY <1>4 DEF FunctionAt, PCIE2X1_DBI_PAGE
<1>6. PciSegmentRead16(c, a) = IF Ignored(a) \/ FunctionAt(Page(a)) = "none" THEN 0..15
                               ELSE Load(c, FunctionAt(Page(a)), 8, 2)
  <2>1. 8 * 2 - 1 = 15
    OBVIOUS
  <2> QED BY <1>1, <2>1 DEF PciSegmentRead16, PciSegmentLibReadWorker
<1>7. Ignored(a) <=> bus = 0 /\ dev # 0
  BY <1>1 DEF Ignored
<1>8. CASE bus = 0
  <2>1. dev = 0 => FunctionAt(Page(a)) = "rootPort"
    BY <1>3, <1>5, <1>8
  <2> QED BY <1>2, <1>6, <1>7, <1>8, <2>1 DEF a
<1>9. CASE bus # 0
  <2>1. Page(a) = 264 + 8 * dev
    BY <1>3, <1>9
  <2>2. FunctionAt(Page(a)) = IF dev = 0 THEN "endpoint" ELSE "none"
    BY <1>5, <2>1
  <2> QED BY <1>2, <1>6, <1>7, <1>9, <2>2 DEF a
<1> QED BY <1>8, <1>9

-----------------------------------------------------------------------------
(* What an access to the configuration space comes to: a buffer is cut into  *)
(* aligned pieces that cover it once, each byte gets to its place or comes   *)
(* from it, and nothing else changes.                                        *)

\* Loads and stores that are aligned, and each goes on where the last one ended.
AlignedPieces == {p \in Nat \X {1, 2, 4} : p[1] % p[2] = 0}

Chain(s, from, to) ==
    /\ s \in Seq(AlignedPieces)
    /\ Len(s) = 0 => from = to
    /\ Len(s) # 0 => s[1][1] = from /\ s[Len(s)][1] + s[Len(s)][2] = to
    /\ \A k \in 1..(Len(s) - 1) : s[k + 1][1] = s[k][1] + s[k][2]

LEMMA ChainJoins ==
  ASSUME NEW s, NEW t, NEW a, NEW b, NEW c, Chain(s, a, b), Chain(t, b, c)
  PROVE  Chain(s \o t, a, c)
<1> DEFINE u == s \o t
           m == Len(s)
           n == Len(t)
<1>1. /\ s \in Seq(AlignedPieces) /\ t \in Seq(AlignedPieces)
      /\ u \in Seq(AlignedPieces) /\ m \in Nat /\ n \in Nat /\ Len(u) = m + n
      /\ \A k \in 1..m : u[k] = s[k]
      /\ \A k \in (m + 1)..(m + n) : u[k] = t[k - m]
  BY DEF Chain
<1> HIDE DEF u, m, n
<1>2. /\ m = 0 => a = b
      /\ m # 0 => s[1][1] = a /\ s[m][1] + s[m][2] = b
      /\ \A k \in 1..(m - 1) : s[k + 1][1] = s[k][1] + s[k][2]
      /\ n = 0 => b = c
      /\ n # 0 => t[1][1] = b /\ t[n][1] + t[n][2] = c
      /\ \A k \in 1..(n - 1) : t[k + 1][1] = t[k][1] + t[k][2]
  BY DEF Chain, m, n
<1>3. m + n = 0 => a = c
  BY <1>1, <1>2
<1>4. m + n # 0 => u[1][1] = a
  <2>1. CASE m # 0
    BY <1>1, <1>2, <2>1
  <2>2. CASE m = 0 /\ n # 0
    <3>1. u[1] = t[1]
      BY <1>1, <2>2
    <3> QED BY <1>2, <2>2, <3>1
  <2> QED BY <1>1, <2>1, <2>2
<1>5. m + n # 0 => u[m + n][1] + u[m + n][2] = c
  <2>1. CASE n # 0
    <3>1. u[m + n] = t[n]
      BY <1>1, <2>1
    <3> QED BY <1>2, <2>1, <3>1
  <2>2. CASE n = 0 /\ m # 0
    <3>1. u[m + n] = s[m]
      BY <1>1, <2>2
    <3> QED BY <1>2, <2>2, <3>1
  <2> QED BY <1>1, <2>1, <2>2
<1>6. ASSUME NEW k \in 1..(m + n - 1) PROVE u[k + 1][1] = u[k][1] + u[k][2]
  <2>1. CASE k < m
    <3>1. k \in 1..(m - 1) /\ u[k] = s[k] /\ u[k + 1] = s[k + 1]
      BY <1>1, <2>1
    <3> QED BY <1>2, <3>1
  <2>2. CASE k = m
    <3>1. u[k] = s[m] /\ u[k + 1] = t[1] /\ m # 0 /\ n # 0
      BY <1>1, <2>2
    <3> QED BY <1>2, <3>1
  <2>3. CASE k > m
    <3>1. k - m \in 1..(n - 1) /\ u[k] = t[k - m] /\ u[k + 1] = t[(k - m) + 1]
      BY <1>1, <2>3
    <3> QED BY <1>2, <3>1
  <2> QED BY <1>1, <2>1, <2>2, <2>3
<1>7. Chain(u, a, c)
  BY <1>1, <1>3, <1>4, <1>5, <1>6 DEF Chain
<1> QED BY <1>7 DEF u

LEMMA ChainPiece ==
  ASSUME NEW at \in Nat, NEW n \in {0, 1, 2, 4}, n # 0 => at % n = 0
  PROVE  Chain(Piece(at, n), at, at + n)
<1>1. CASE n = 0
  BY <1>1 DEF Chain, Piece
<1>2. CASE n # 0
  <2>1. <<at, n>> \in AlignedPieces
    BY <1>2 DEF AlignedPieces
  <2>2. Piece(at, n) = <<<<at, n>>>>
    BY <1>2 DEF Piece
  <2> QED BY <2>1, <2>2 DEF Chain
<1> QED BY <1>1, <1>2

\* However it begins and ends, a buffer is cut into aligned pieces that cover it
\* from its first byte to its last.
LEMMA PiecesChain ==
  ASSUME NEW off \in Nat, NEW size \in Nat
  PROVE  Chain(Pieces(off, size), off, off + size)
<1> DEFINE odd   == IF off % 2 = 1 /\ size > 0 THEN 1 ELSE 0
           word  == IF size - odd >= 2 /\ ((off + odd) \div 2) % 2 = 1 THEN 2 ELSE 0
           at    == off + odd + word
           left  == size - odd - word
           dword == left \div 4
           tail  == 2 * ((left % 4) \div 2)
           last  == left % 2
           words == [i \in 1..dword |-> <<at + 4 * (i - 1), 4>>]
<1>1. /\ odd \in 0..1 /\ odd <= size
      /\ size - odd > 0 => (off + odd) % 2 = 0
  OBVIOUS
<1> HIDE DEF odd
<1> DEFINE even == off + odd
<1>2. even \in Nat
  BY <1>1
<1>3. /\ word \in {0, 2} /\ odd + word <= size
      /\ word = 2 => even % 2 = 0 /\ (even \div 2) % 2 = 1
      /\ word = 0 => size - odd < 2 \/ (even \div 2) % 2 = 0
  BY <1>1
<1> HIDE DEF word
<1>4. left \in Nat /\ at \in Nat /\ at + left = off + size /\ at = even + word
  BY <1>1, <1>3
<1>5. /\ left >= 4 => at % 4 = 0
      /\ left >= 2 => at % 2 = 0
  <2>1. left >= 2 => size - odd >= 2 /\ even % 2 = 0
    BY <1>1, <1>3
  <2>2. CASE word = 2
    <3>1. even % 2 = 0 /\ (even \div 2) % 2 = 1 /\ at = even + 2
      BY <1>3, <1>4, <2>2
    <3> HIDE DEF even, at
    <3>2. at % 4 = 0 /\ at % 2 = 0
      BY <1>2, <1>4, <3>1
    <3> QED BY <3>2
  <2>3. CASE word = 0
    <3>1. at = even /\ (left >= 2 => (even \div 2) % 2 = 0 /\ even % 2 = 0)
      <4>1. at = even
        BY <1>2, <1>4, <2>3
      <4>2. left >= 2 => ~(size - odd < 2) /\ even % 2 = 0
        BY <1>1, <2>1
      <4> HIDE DEF even, at, left
      <4> QED BY ONLY <1>3, <2>3, <4>1, <4>2
    <3> HIDE DEF even, at, left
    <3>2. left >= 2 => at % 4 = 0 /\ at % 2 = 0
      BY <1>2, <1>4, <3>1
    <3> QED BY <1>4, <3>2
  <2> QED BY <1>3, <2>2, <2>3
<1> HIDE DEF at, left
<1>6. /\ dword \in Nat /\ tail \in {0, 2} /\ last \in {0, 1}
      /\ 4 * dword + tail + last = left
      /\ dword > 0 => left >= 4
      /\ tail = 2 => left >= 2
  BY <1>4
<1> HIDE DEF dword, tail, last
<1>7. Chain(Piece(off, odd), off, even)
  <2>1. odd \in {0, 1, 2, 4} /\ (odd # 0 => off % odd = 0)
    BY <1>1
  <2> QED BY <2>1, ChainPiece
<1>8. Chain(Piece(even, word), even, at)
  <2>1. word \in {0, 1, 2, 4} /\ (word # 0 => even % word = 0)
    BY <1>3
  <2> HIDE DEF even
  <2>2. Chain(Piece(even, word), even, even + word)
    BY <1>2, <2>1, ChainPiece
  <2> QED BY <1>4, <2>2
<1>9. Chain(words, at, at + 4 * dword)
  <2>1. ASSUME NEW i \in 1..dword PROVE <<at + 4 * (i - 1), 4>> \in AlignedPieces
    <3>1. at % 4 = 0
      BY <1>5, <1>6, <2>1
    <3>2. at + 4 * (i - 1) \in Nat /\ (at + 4 * (i - 1)) % 4 = 0
      BY <1>4, <1>6, <2>1, <3>1
    <3> QED BY <3>2 DEF AlignedPieces
  <2>2. words \in Seq(AlignedPieces) /\ Len(words) = dword
    BY <1>6, <2>1
  <2>3. dword # 0 => words[1][1] = at /\ words[dword][1] + words[dword][2] = at + 4 * dword
    BY <1>4, <1>6
  <2>4. \A k \in 1..(dword - 1) : words[k + 1][1] = words[k][1] + words[k][2]
    BY <1>4, <1>6
  <2>5. dword = 0 => at = at + 4 * dword
    BY <1>4
  <2> HIDE DEF words
  <2> QED BY <2>2, <2>3, <2>4, <2>5 DEF Chain
<1> DEFINE here == at + 4 * dword
           then == here + tail
<1>10. here \in Nat /\ then \in Nat /\ then + last = off + size
  BY <1>4, <1>6
<1>11. Chain(Piece(here, tail), here, then)
  <2>1. tail \in {0, 1, 2, 4} /\ (tail # 0 => here % tail = 0)
    <3>1. tail = 2 => at % 2 = 0
      BY <1>5, <1>6
    <3>2. at % 2 = 0 => here % 2 = 0
      BY <1>4, <1>6
    <3> QED BY <1>6, <3>1, <3>2
  <2> HIDE DEF here
  <2>2. here \in Nat
    BY <1>10
  <2> QED BY <2>1, <2>2, ChainPiece
<1>12. Chain(Piece(then, last), then, off + size)
  <2>1. last \in {0, 1, 2, 4} /\ then \in Nat /\ (last # 0 => then % last = 0)
    <3> HIDE DEF then
    <3> QED BY <1>6, <1>10
  <2> HIDE DEF then
  <2>2. Chain(Piece(then, last), then, then + last)
    BY <2>1, ChainPiece
  <2> QED BY <1>10, <2>2
<1> HIDE DEF even, here, then, words
<1>13. Chain(Piece(off, odd) \o Piece(even, word) \o words \o Piece(here, tail)
              \o Piece(then, last), off, off + size)
  <2>1. Chain(words, at, here)
    BY <1>9 DEF here
  <2>2. Chain(Piece(off, odd) \o Piece(even, word), off, at)
    BY <1>7, <1>8, ChainJoins
  <2>3. Chain(Piece(off, odd) \o Piece(even, word) \o words, off, here)
    BY <2>1, <2>2, ChainJoins
  <2>4. Chain(Piece(off, odd) \o Piece(even, word) \o words \o Piece(here, tail), off, then)
    BY <1>11, <2>3, ChainJoins
  <2> QED BY <1>12, <2>4, ChainJoins
<1> QED BY <1>13 DEF Pieces, even, here, then, words, odd, word, at, left, dword, tail, last

\* The bit of a byte within an access, and where it is.
BitPlaced(f, off, n, o, b) ==
    /\ 8 * (o - off) + b \in 0..(8 * n - 1)
    /\ (8 * (o - off) + b) \div 8 = o - off
    /\ Place(f, off, 8 * (o - off) + b) = Place(f, o, b)

LEMMA BitOfByte ==
  ASSUME NEW f, NEW off \in Nat, NEW n \in Nat, NEW o \in Nat, off <= o, o < off + n, NEW b \in 0..7
  PROVE  BitPlaced(f, off, n, o, b)
<1> DEFINE i == o - off
<1>1. i \in Nat /\ i < n /\ off + i = o
  OBVIOUS
<1> HIDE DEF i
<1>2. 8 * i + b \in 0..(8 * n - 1) /\ (8 * i + b) \div 8 = i /\ (8 * i + b) % 8 = b
  BY <1>1
<1>3. b \div 8 = 0 /\ b % 8 = b
  OBVIOUS
<1>4. Place(f, off, 8 * i + b) = <<f, off + i, b>> /\ Place(f, o, b) = <<f, o + 0, b>>
  BY <1>2, <1>3 DEF Place
<1> QED BY <1>1, <1>2, <1>4 DEF i, BitPlaced

\* A change is among some bits.
OnlyIn(S, c, d) == (d \ c) \cup (c \ d) \subseteq S

LEMMA OnlyInChain ==
  ASSUME NEW S, NEW T, NEW c, NEW d, NEW e, OnlyIn(S, c, d), OnlyIn(T, d, e), T \subseteq S
  PROVE  OnlyIn(S, c, e)
  BY DEF OnlyIn

LEMMA OnlyInNothing == \A S, c : OnlyIn(S, c, c)
  BY DEF OnlyIn

\* What a store does to the bits it names, and that it does it to no others.
LEMMA StoredBits ==
  ASSUME NEW c, NEW f, NEW off \in Nat, NEW n \in Nat, NEW bits
  PROVE  LET d == Store(c, f, off, n, bits)
         IN  /\ OnlyIn({Place(f, off, b) : b \in 0..(8 * n - 1)}, c, d)
             /\ \A b \in 0..(8 * n - 1) :
                  /\ off + b \div 8 \notin ReadOnly => (Place(f, off, b) \in d <=> b \in bits)
                  /\ (b \in bits <=> Place(f, off, b) \in c)
                       => (Place(f, off, b) \in d <=> Place(f, off, b) \in c)
<1> DEFINE all == 0..(8 * n - 1)
           writable == {b \in all : \/ off + b \div 8 \notin ReadOnly
                                    \/ f = "rootPort" /\ Unlocked(c)}
           P(b) == Place(f, off, b)
           d == Store(c, f, off, n, bits)
<1>1. d = (c \ {P(b) : b \in writable}) \cup {P(b) : b \in bits \cap writable}
  BY DEF Store
<1>2. \A a, b \in all : P(a) = P(b) => a = b
  BY Places
<1>3. writable \subseteq all /\ \A b \in all : off + b \div 8 \notin ReadOnly => b \in writable
  OBVIOUS
<1> HIDE DEF d, writable, P, all
<1>4. OnlyIn({P(b) : b \in all}, c, d)
  BY <1>1, <1>3 DEF OnlyIn
<1>5. ASSUME NEW b \in all
      PROVE  /\ b \in writable => (P(b) \in d <=> b \in bits)
             /\ b \notin writable => (P(b) \in d <=> P(b) \in c)
  BY <1>1, <1>2, <1>3
<1>6. \A b \in all :
        /\ off + b \div 8 \notin ReadOnly => (P(b) \in d <=> b \in bits)
        /\ (b \in bits <=> P(b) \in c) => (P(b) \in d <=> P(b) \in c)
  BY <1>3, <1>5
<1> QED BY <1>4, <1>6 DEF d, P, all

\* A loaded byte.
LEMMA LoadedByte ==
  ASSUME NEW c, NEW f, NEW o \in Nat, NEW b \in 0..7
  PROVE  b \in Load(c, f, o, 1) <=> Place(f, o, b) \in c
  BY DEF Load

LEMMA BytesLoaded ==
  ASSUME NEW c, NEW f, NEW off \in Nat, NEW n \in Nat, NEW j \in 1..n
  PROVE  ToBytes(Load(c, f, off, n), n)[j] = Load(c, f, off + j - 1, 1)
<1> DEFINE o == off + j - 1
<1>1. o \in Nat /\ off <= o /\ o < off + n /\ o - off = j - 1
  OBVIOUS
<1>2. ToBytes(Load(c, f, off, n), n)[j] = {b \in 0..7 : 8 * (j - 1) + b \in Load(c, f, off, n)}
  BY DEF ToBytes
<1> HIDE DEF o
<1>3. ASSUME NEW b \in 0..7
      PROVE  8 * (j - 1) + b \in Load(c, f, off, n) <=> b \in Load(c, f, o, 1)
  <2>1. /\ 8 * (o - off) + b \in 0..(8 * n - 1)
        /\ Place(f, off, 8 * (o - off) + b) = Place(f, o, b)
    <3>1. BitPlaced(f, off, n, o, b)
      BY <1>1, BitOfByte
    <3> QED BY <3>1 DEF BitPlaced
  <2>2. 8 * (o - off) + b \in Load(c, f, off, n) <=> Place(f, o, b) \in c
    BY <2>1 DEF Load
  <2> QED BY <1>1, <2>2, LoadedByte
<1>4. Load(c, f, o, 1) \subseteq 0..7
  BY DEF Load
<1> QED BY <1>2, <1>3, <1>4 DEF o

LEMMA ByteGiven ==
  ASSUME NEW s, NEW n \in Nat, DOMAIN s = 1..n, \A j \in 1..n : s[j] \in SUBSET (0..7),
         NEW i \in 1..n, NEW b \in 0..7
  PROVE  8 * (i - 1) + b \in FromBytes(s) <=> b \in s[i]
<1>1. ASSUME NEW j \in 1..n, NEW e \in s[j], 8 * (i - 1) + b = 8 * (j - 1) + e PROVE j = i /\ e = b
  <2>1. e \in 0..7
    BY <1>1
  <2> QED BY <1>1, <2>1
<1>2. 8 * (i - 1) + b \in FromBytes(s) <=>
        \E j \in 1..n : \E e \in s[j] : 8 * (i - 1) + b = 8 * (j - 1) + e
  BY DEF FromBytes
<1> QED BY <1>1, <1>2

\* The bits of some bytes of a function.
Span(f, from, to) == {<<f, o, b>> : o \in from..(to - 1), b \in 0..7}

LEMMA SpanPlaces ==
  ASSUME NEW f, NEW off \in Nat, NEW n \in Nat
  PROVE  {Place(f, off, b) : b \in 0..(8 * n - 1)} = Span(f, off, off + n)
<1>1. ASSUME NEW b \in 0..(8 * n - 1) PROVE Place(f, off, b) \in Span(f, off, off + n)
  <2> DEFINE o == off + b \div 8
             e == b % 8
  <2>1. o \in off..(off + n - 1) /\ e \in 0..7
    BY Places
  <2>2. Place(f, off, b) = <<f, o, e>>
    BY DEF Place
  <2> HIDE DEF o, e
  <2> QED BY <2>1, <2>2 DEF Span
<1>2. ASSUME NEW o \in off..(off + n - 1), NEW b \in 0..7
      PROVE  \E k \in 0..(8 * n - 1) : <<f, o, b>> = Place(f, off, k)
  <2>1. o \in Nat /\ off <= o /\ o < off + n
    OBVIOUS
  <2>2. /\ 8 * (o - off) + b \in 0..(8 * n - 1)
        /\ Place(f, off, 8 * (o - off) + b) = Place(f, o, b)
    <3>1. BitPlaced(f, off, n, o, b)
      BY <2>1, BitOfByte
    <3> QED BY <3>1 DEF BitPlaced
  <2>3. Place(f, o, b) = <<f, o, b>>
    <3>1. b \div 8 = 0 /\ b % 8 = b
      OBVIOUS
    <3> QED BY <2>1, <3>1 DEF Place
  <2> QED BY <2>2, <2>3
<1>3. Span(f, off, off + n) \subseteq {Place(f, off, b) : b \in 0..(8 * n - 1)}
  BY <1>2 DEF Span
<1> QED BY <1>1, <1>3

LEMMA SpanInside ==
  ASSUME NEW f, NEW from \in Nat, NEW to \in Nat, NEW first \in Nat, NEW last \in Nat,
         first <= from, to <= last
  PROVE  Span(f, from, to) \subseteq Span(f, first, last)
<1>1. ASSUME NEW x \in Span(f, from, to) PROVE x \in Span(f, first, last)
  <2>1. PICK o \in from..(to - 1), b \in 0..7 : x = <<f, o, b>>
    BY DEF Span
  <2>2. o \in first..(last - 1)
    OBVIOUS
  <2> QED BY <2>1, <2>2 DEF Span
<1> QED BY <1>1

LEMMA ByteOf ==
  ASSUME NEW f, NEW o \in Nat, NEW b \in 0..7
  PROVE  Place(f, o, b) = <<f, o, b>>
<1>1. b \div 8 = 0 /\ b % 8 = b
  OBVIOUS
<1> QED BY <1>1 DEF Place

\* Bytes that a change leaves alone load as before.
LEMMA OtherBytes ==
  ASSUME NEW c, NEW d, NEW f, NEW from \in Nat, NEW to \in Nat,
         OnlyIn(Span(f, from, to), c, d),
         NEW o \in Nat, o < from \/ to <= o
  PROVE  Load(d, f, o, 1) = Load(c, f, o, 1)
<1>1. ASSUME NEW b \in 0..7 PROVE Place(f, o, b) \in d <=> Place(f, o, b) \in c
  <2>1. <<f, o, b>> \notin Span(f, from, to)
    BY DEF Span
  <2> QED BY <2>1, ByteOf DEF OnlyIn
<1>2. Load(d, f, o, 1) \subseteq 0..7 /\ Load(c, f, o, 1) \subseteq 0..7
  BY DEF Load
<1> QED BY <1>1, <1>2, LoadedByte

LEMMA AddressOffset ==
  ASSUME NEW a \in ConfigAddress
  PROVE  a.off \in Nat
<1> DEFINE off == a.off
<1>1. off \in 0..4095
  BY DEF ConfigAddress
<1> HIDE DEF off
<1>2. off \in Nat
  BY <1>1
<1> QED BY <1>2 DEF off

\* One piece of a buffer is stored in its place.
LEMMA PieceStored ==
  ASSUME NEW a \in ConfigAddress, NEW buffer \in Seq(SUBSET (0..7)), NEW d,
         NEW p \in AlignedPieces, a.off <= p[1], p[1] + p[2] <= a.off + Len(buffer)
  PROVE  LET e == StorePiece(a, buffer, d, p)
             f == FunctionAt(Page(a))
         IN  /\ OnlyIn(Span(f, p[1], p[1] + p[2]), d, e)
             /\ f = "none" => e = d
             /\ f # "none" /\ ~Ignored(a) =>
                  \A o \in p[1]..(p[1] + p[2] - 1) :
                    o \notin ReadOnly => Load(e, f, o, 1) = buffer[o - a.off + 1]
<1> DEFINE at == [a EXCEPT !.off = p[1]]
           first == p[1]
           n == p[2]
           off == a.off
           size == Len(buffer)
           sub == SubSeq(buffer, first - off + 1, first - off + n)
           f == FunctionAt(Page(a))
           e == StorePiece(a, buffer, d, p)
<1>1. first \in Nat /\ n \in {1, 2, 4} /\ off \in Nat /\ size \in Nat
  BY AddressOffset DEF AlignedPieces
<1>2. off <= first /\ first + n <= off + size
  OBVIOUS
<1>3. at.off = first /\ Page(at) = Page(a) /\ (Ignored(at) <=> Ignored(a))
  BY DEF ConfigAddress, Page, Ignored
<1>4. e = PciSegmentLibWriteWorker(d, at, n, FromBytes(sub))
  BY DEF StorePiece
<1> HIDE DEF first, n, off, size
<1>5. sub \in Seq(SUBSET (0..7)) /\ Len(sub) = n /\ \A j \in 1..n : sub[j] = buffer[first - off + j]
  BY <1>1, <1>2 DEF size
<1> HIDE DEF at, sub, e, f
<1>6. CASE Ignored(a) \/ f = "none"
  <2>1. e = d
    BY <1>3, <1>4, <1>6 DEF PciSegmentLibWriteWorker, f
  <2>2. OnlyIn(Span(f, p[1], p[1] + p[2]), d, e)
    BY <2>1, OnlyInNothing
  <2> QED BY <1>6, <2>1, <2>2 DEF f, e
<1>7. CASE ~(Ignored(a) \/ f = "none")
  <2>1. e = Store(d, f, first, n, FromBytes(sub))
    BY <1>3, <1>4, <1>7 DEF PciSegmentLibWriteWorker, f
  <2>2. /\ OnlyIn({Place(f, first, b) : b \in 0..(8 * n - 1)}, d, e)
        /\ \A b \in 0..(8 * n - 1) :
             first + b \div 8 \notin ReadOnly => (Place(f, first, b) \in e <=> b \in FromBytes(sub))
    <3>1. n \in Nat
      BY <1>1
    <3> QED BY ONLY <1>1, <2>1, <3>1, StoredBits
  <2>3. OnlyIn(Span(f, first, first + n), d, e)
    <3>1. n \in Nat
      BY <1>1
    <3> QED BY <1>1, <2>2, <3>1, SpanPlaces
  <2>4. ASSUME NEW o \in first..(first + n - 1), o \notin ReadOnly
        PROVE  Load(e, f, o, 1) = buffer[o - off + 1]
    <3> DEFINE i == o - first + 1
    <3>1. i \in 1..n /\ o \in Nat /\ first <= o /\ o < first + n /\ n \in Nat
          /\ o - off + 1 = first - off + i /\ i - 1 = o - first
      BY <1>1, <2>4
    <3>2. sub[i] = buffer[o - off + 1]
      <4> HIDE DEF i
      <4> QED BY <1>5, <3>1
    <3> HIDE DEF i
    <3>3. ASSUME NEW b \in 0..7 PROVE b \in Load(e, f, o, 1) <=> b \in sub[i]
      <4> DEFINE k == 8 * (o - first) + b
      <4>1. k \in 0..(8 * n - 1) /\ k \div 8 = o - first /\ Place(f, first, k) = Place(f, o, b)
        <5>1. first \in Nat /\ n \in Nat /\ o \in Nat /\ first <= o /\ o < first + n
          BY <1>1, <3>1
        <5>2. BitPlaced(f, first, n, o, b)
          BY ONLY <5>1, b \in 0..7, BitOfByte
        <5> QED BY <5>2 DEF BitPlaced
      <4>2. k = 8 * (i - 1) + b
        BY <3>1
      <4> HIDE DEF k
      <4>3. first + k \div 8 = o
        BY <1>1, <3>1, <4>1
      <4>4. Place(f, o, b) \in e <=> k \in FromBytes(sub)
        BY <2>2, <2>4, <4>1, <4>3
      <4>5. k \in FromBytes(sub) <=> b \in sub[i]
        <5>1. DOMAIN sub = 1..n /\ \A j \in 1..n : sub[j] \in SUBSET (0..7)
          BY <1>5
        <5> QED BY <3>1, <4>2, <5>1, ByteGiven
      <4> QED BY <3>1, <4>4, <4>5, LoadedByte
    <3>4. Load(e, f, o, 1) \subseteq 0..7 /\ sub[i] \subseteq 0..7
      <4>1. Load(e, f, o, 1) \subseteq 0..7
        BY DEF Load
      <4>2. sub[i] \in SUBSET (0..7)
        BY <1>5, <3>1
      <4> QED BY <4>1, <4>2
    <3> QED BY <3>2, <3>3, <3>4
  <2> QED BY <1>7, <2>3, <2>4 DEF f, e, first, n, off
<1> QED BY <1>6, <1>7

\* Where each piece begins and where it ends.
LEMMA PiecesEnds ==
  ASSUME NEW off \in Nat, NEW size \in Nat
  PROVE  LET pieces == Pieces(off, size)
             N == Len(pieces)
         IN  /\ N \in Nat /\ DOMAIN pieces = 1..N
             /\ \A n \in 1..N :
                  /\ pieces[n] \in AlignedPieces
                  /\ off <= pieces[n][1] /\ pieces[n][1] + pieces[n][2] <= off + size
             /\ \E end \in [0..N -> Nat] :
                  /\ end[0] = off /\ end[N] = off + size
                  /\ \A n \in 1..N : /\ end[n] = pieces[n][1] + pieces[n][2]
                                     /\ pieces[n][1] = end[n - 1]
<1> DEFINE pieces == Pieces(off, size)
           N == Len(pieces)
<1>2. Chain(pieces, off, off + size) /\ pieces \in Seq(Within(off, size))
  BY PiecesChain, PiecesInside
<1> HIDE DEF pieces
<1>3. /\ N \in Nat /\ DOMAIN pieces = 1..N
      /\ \A n \in 1..N : pieces[n] \in AlignedPieces
      /\ \A n \in 1..N : off <= pieces[n][1] /\ pieces[n][1] + pieces[n][2] <= off + size
  <2>1. \A n \in 1..N : pieces[n] \in Within(off, size)
    BY <1>2
  <2> QED BY <1>2, <2>1 DEF Chain, Within
<1> DEFINE end == [n \in 0..N |-> IF n = 0 THEN off ELSE pieces[n][1] + pieces[n][2]]
<1>4. \A n \in 1..N : pieces[n][1] \in Nat /\ pieces[n][2] \in Nat
  BY <1>3 DEF AlignedPieces
<1>5. end \in [0..N -> Nat]
  <2> HIDE DEF N
  <2> QED BY <1>3, <1>4
<1>6. /\ \A n \in 1..N : end[n] = pieces[n][1] + pieces[n][2]
      /\ end[0] = off
  BY <1>3
<1>7. ASSUME NEW n \in 1..N PROVE pieces[n][1] = end[n - 1]
  <2>1. CASE n = 1
    BY <1>2, <1>3, <2>1 DEF Chain
  <2>2. CASE n # 1
    <3>1. n - 1 \in 1..(N - 1) /\ (n - 1) + 1 = n /\ n - 1 \in 1..N
      BY <1>3, <2>2
    <3> QED BY <1>2, <1>6, <3>1 DEF Chain
  <2> QED BY <2>1, <2>2
<1>8. end[N] = off + size
  <2>1. CASE N = 0
    BY <1>2, <2>1 DEF Chain
  <2>2. CASE N # 0
    BY <1>2, <1>3, <1>6, <2>2 DEF Chain
  <2> QED BY <2>1, <2>2
<1> HIDE DEF end, N
<1>9. \E e \in [0..N -> Nat] :
        /\ e[0] = off /\ e[N] = off + size
        /\ \A n \in 1..N : e[n] = pieces[n][1] + pieces[n][2] /\ pieces[n][1] = e[n - 1]
  BY <1>5, <1>6, <1>7, <1>8
<1> QED BY <1>3, <1>9 DEF pieces, N

\* A buffer that is written is in the register file, byte for byte, where it can
\* be written; nothing else has changed.
LEMMA BufferWritten ==
  ASSUME NEW a \in ConfigAddress, NEW buffer \in Seq(SUBSET (0..7)), NEW c
  PROVE  LET d == PciSegmentWriteBuffer(c, a, buffer)
             f == FunctionAt(Page(a))
         IN  /\ OnlyIn(Span(f, a.off, a.off + Len(buffer)), c, d)
             /\ f = "none" => d = c
             /\ f # "none" /\ ~Ignored(a) =>
                  \A o \in a.off..(a.off + Len(buffer) - 1) :
                    o \notin ReadOnly => Load(d, f, o, 1) = buffer[o - a.off + 1]
<1> DEFINE off == a.off
           size == Len(buffer)
           f == FunctionAt(Page(a))
           pieces == Pieces(off, size)
           N == Len(pieces)
<1>1. off \in Nat /\ size \in Nat
  BY AddressOffset
<1> HIDE DEF off, size
<1>2. /\ N \in Nat /\ DOMAIN pieces = 1..N
      /\ \A n \in 1..N : /\ pieces[n] \in AlignedPieces
                         /\ off <= pieces[n][1] /\ pieces[n][1] + pieces[n][2] <= off + size
  BY <1>1, PiecesEnds
<1>3. PICK end \in [0..N -> Nat] :
        /\ end[0] = off /\ end[N] = off + size
        /\ \A n \in 1..N : end[n] = pieces[n][1] + pieces[n][2] /\ pieces[n][1] = end[n - 1]
  BY <1>1, PiecesEnds
<1> HIDE DEF pieces
<1>4. PICK at : /\ at[0] = c
                /\ at[N] = PciSegmentWriteBuffer(c, a, buffer)
                /\ \A n \in 1..N : at[n] = StorePiece(a, buffer, at[n - 1], pieces[n])
  <2>1. N \in Nat /\ N = Len(pieces) /\ DOMAIN pieces = 1..N
    BY <1>2
  <2> HIDE DEF N
  <2> QED BY ONLY <2>1, BufferSteps DEF pieces, off, size
<1> HIDE DEF N
<1>6. \A n \in 0..N : end[n] \in Nat
  OBVIOUS
<1> DEFINE Kept(d) == OnlyIn(Span(f, off, off + size), c, d) /\ (f = "none" => d = c)
           Given(d, o) == o \notin ReadOnly => Load(d, f, o, 1) = buffer[o - off + 1]
           There == f # "none" /\ ~Ignored(a)
           Good(n) == Kept(at[n]) /\ (There => \A o \in off..(end[n] - 1) : Given(at[n], o))
           T == {n \in 0..N : ~Good(n)}
<1>7. Good(0)
  <2>1. OnlyIn(Span(f, off, off + size), c, at[0])
    BY <1>4, OnlyInNothing
  <2>2. off..(end[0] - 1) = {}
    BY <1>1, <1>3
  <2> QED BY <1>4, <2>1, <2>2
<1>8. ASSUME NEW n \in 1..N, Good(n - 1) PROVE Good(n)
  <2> DEFINE p == pieces[n]
             d == at[n - 1]
             e == at[n]
  <2>1. e = StorePiece(a, buffer, d, p) /\ p \in AlignedPieces
        /\ off <= p[1] /\ p[1] + p[2] <= off + size
    BY <1>2, <1>4
  <2>2. p[1] = end[n - 1] /\ end[n] = p[1] + p[2] /\ end[n - 1] \in Nat /\ end[n] \in Nat
    <3>1. n - 1 \in 0..N /\ n \in 0..N
      BY <1>2
    <3> QED BY <1>3, <1>6, <3>1
  <2>3. /\ OnlyIn(Span(f, p[1], p[1] + p[2]), d, e)
        /\ f = "none" => e = d
        /\ There => \A o \in p[1]..(p[1] + p[2] - 1) : Given(e, o)
    <3> HIDE DEF p, d, e
    <3> QED BY <2>1, PieceStored DEF off, size
  <2>4. Span(f, p[1], p[1] + p[2]) \subseteq Span(f, off, off + size)
    <3> DEFINE first == p[1]
               to == p[1] + p[2]
    <3>1. first \in Nat /\ to \in Nat /\ off <= first /\ to <= off + size
      BY <2>1, <2>2
    <3> HIDE DEF p, f, first, to
    <3>2. off + size \in Nat
      BY <1>1
    <3>3. Span(f, first, to) \subseteq Span(f, off, off + size)
      BY ONLY <1>1, <3>1, <3>2, SpanInside
    <3> QED BY <3>3 DEF first, to
  <2> HIDE DEF p, d, e
  <2>5. Kept(e)
    <3>1. Kept(d)
      BY <1>8 DEF d
    <3> HIDE DEF f
    <3> QED BY <2>3, <2>4, <3>1, OnlyInChain
  <2>6. ASSUME There, NEW o \in off..(end[n] - 1) PROVE Given(e, o)
    <3>1. CASE o < p[1]
      <4>1. o \in off..(end[n - 1] - 1) /\ o \in Nat
        BY <1>1, <2>2, <2>6, <3>1
      <4>2. Given(d, o)
        BY <1>8, <2>6, <4>1 DEF d
      <4>3. Load(e, f, o, 1) = Load(d, f, o, 1)
        <5>1. p[1] \in Nat /\ p[1] + p[2] \in Nat
          BY <2>2
        <5>2. OnlyIn(Span(f, p[1], p[1] + p[2]), d, e)
          BY <2>3
        <5>3. PICK first \in Nat, to \in Nat : first = p[1] /\ to = p[1] + p[2]
          BY <5>1
        <5>4. OnlyIn(Span(f, first, to), d, e) /\ o < first /\ o \in Nat
          BY <3>1, <4>1, <5>2, <5>3
        <5> HIDE DEF f
        <5> QED BY ONLY <5>4, first \in Nat, to \in Nat, OtherBytes
      <4> QED BY <4>2, <4>3
    <3>2. CASE p[1] <= o
      <4>1. o \in p[1]..(p[1] + p[2] - 1)
        <5>1. end[n] = p[1] + p[2] /\ p[1] \in Nat /\ p[1] + p[2] \in Nat
          BY <2>2
        <5>2. PICK first \in Nat, to \in Nat : first = p[1] /\ to = p[1] + p[2]
          BY <5>1
        <5>3. end[n] = to /\ first <= o
          BY <3>2, <5>1, <5>2
        <5>4. o \in first..(to - 1)
          BY ONLY <5>2, <5>3, <1>1, o \in off..(end[n] - 1)
        <5>5. p[1] \in Nat /\ p[2] \in Nat
          BY <2>1 DEF AlignedPieces
        <5> QED BY ONLY <5>2, <5>4, <5>5
      <4> QED BY <2>3, <2>6, <4>1
    <3>3. o \in Int /\ p[1] \in Int
      BY <1>1, <2>2, <2>6
    <3> QED BY <3>1, <3>2, <3>3
  <2> QED BY <2>5, <2>6 DEF e
<1> HIDE DEF Good
<1>9. ASSUME T # {} PROVE FALSE
  <2>0. T \in SUBSET Nat
    BY <1>2
  <2>1. PICK n \in T : \A m \in T : n <= m
    <3> HIDE DEF T
    <3> QED BY ONLY <1>9, <2>0, LeastMember
  <2>2. n # 0
    BY <1>7, <2>1
  <2>3. n \in 1..N /\ n - 1 \in 0..N /\ n - 1 \notin T
    BY <1>2, <2>1, <2>2
  <2> QED BY <1>8, <2>1, <2>3
<1>10. Good(N)
  BY <1>2, <1>9
<1> DEFINE d == at[N]
<1>11. d = PciSegmentWriteBuffer(c, a, buffer)
  BY <1>4
<1> HIDE DEF f
<1>12. Kept(d) /\ (There => \A o \in off..(off + size - 1) : Given(d, o))
  <2>1. Kept(d) /\ (There => \A o \in off..(end[N] - 1) : Given(d, o))
    <3> HIDE DEF Kept, Given, There
    <3> QED BY <1>10 DEF Good
  <2>2. ASSUME There, NEW o \in off..(off + size - 1) PROVE Given(d, o)
    <3>1. o \in off..(end[N] - 1)
      <4>1. end[N] = off + size /\ end[N] \in Nat
        <5>1. N \in 0..N
          BY <1>2
        <5> QED BY <1>3, <1>6, <5>1
      <4> QED BY ONLY <4>1, <1>1, o \in off..(off + size - 1)
    <3> HIDE DEF Kept, Given, There
    <3> QED BY <2>1, <2>2, <3>1
  <2> QED BY <2>1, <2>2
<1> HIDE DEF d
<1> QED BY <1>11, <1>12 DEF off, size, f

\* What FlattenSeq chooses, and that there is something to choose.
Joining(N, seqs, it) ==
    [i \in 1..N |-> IF i = 1 THEN seqs[i] ELSE it[i - 1] \o seqs[i]]

LEMMA JoiningExists ==
  ASSUME NEW N \in Nat, NEW seqs
  PROVE  \E it : it = Joining(N, seqs, it)
<1> DEFINE B == {n \in Nat : ~ \E it : it = Joining(n, seqs, it)}
<1>1. ASSUME B # {} PROVE FALSE
  <2>1. PICK n \in B : \A m \in B : n <= m
    BY <1>1, LeastMember
  <2>2. n # 0
    <3> DEFINE it == [i \in 1..0 |-> seqs[i]]
    <3>1. it = Joining(0, seqs, it)
      BY DEF Joining
    <3> HIDE DEF it
    <3>2. 0 \notin B
      BY <3>1
    <3> QED BY <2>1, <3>2
  <2>3. PICK k \in Nat : n = k + 1
    BY <2>2
  <2>4. PICK f : f = Joining(k, seqs, f)
    BY <2>1, <2>3
  <2> DEFINE g == [i \in 1..n |-> IF i = n THEN (IF n = 1 THEN seqs[n] ELSE f[n - 1] \o seqs[n])
                                  ELSE f[i]]
  <2>5. ASSUME NEW i \in 1..n PROVE g[i] = Joining(n, seqs, g)[i]
    <3>1. Joining(n, seqs, g)[i] = IF i = 1 THEN seqs[i] ELSE g[i - 1] \o seqs[i]
      BY DEF Joining
    <3>2. i # 1 => g[i - 1] = f[i - 1]
      BY <2>3
    <3>3. CASE i = n
      BY <3>1, <3>2, <3>3
    <3>4. CASE i # n
      <4>1. i \in 1..k
        BY <2>3, <3>4
      <4>2. f[i] = IF i = 1 THEN seqs[i] ELSE f[i - 1] \o seqs[i]
        <5>1. Joining(k, seqs, f)[i] = IF i = 1 THEN seqs[i] ELSE f[i - 1] \o seqs[i]
          BY <4>1 DEF Joining
        <5> QED BY ONLY <2>4, <5>1
      <4>3. g[i] = f[i]
        BY <3>4
      <4> QED BY <3>1, <3>2, <4>2, <4>3
    <3> QED BY <3>3, <3>4
  <2>6. g = Joining(n, seqs, g)
    <3>1. Joining(n, seqs, g) = [i \in 1..n |-> Joining(n, seqs, g)[i]]
      BY DEF Joining
    <3>2. g = [i \in 1..n |-> g[i]]
      OBVIOUS
    <3> HIDE DEF g
    <3> QED BY <2>5, <3>1, <3>2
  <2> HIDE DEF g
  <2> QED BY <2>1, <2>6
<1> QED BY <1>1

\* What the library's flattening comes to: the joins of ever more sequences.
LEMMA FlattenSteps ==
  ASSUME NEW seqs, NEW N \in Nat, N # 0, Len(seqs) = N
  PROVE  \E at : /\ at[1] = seqs[1]
                 /\ \A n \in 2..N : at[n] = at[n - 1] \o seqs[n]
                 /\ at[N] = FlattenSeq(seqs)
<1> DEFINE it == CHOOSE i : i = Joining(N, seqs, i)
<1>1. it = Joining(N, seqs, it)
  BY JoiningExists
<1>2. it[N] = FlattenSeq(seqs)
  BY DEF FlattenSeq, Joining
<1> HIDE DEF it
<1>3. \A n \in 1..N : it[n] = IF n = 1 THEN seqs[n] ELSE it[n - 1] \o seqs[n]
  <2>1. \A n \in 1..N : Joining(N, seqs, it)[n] = IF n = 1 THEN seqs[n] ELSE it[n - 1] \o seqs[n]
    BY DEF Joining
  <2> QED BY ONLY <1>1, <2>1
<1>4. it[1] = seqs[1]
  <2>1. 1 \in 1..N
    OBVIOUS
  <2> QED BY <1>3, <2>1
<1>5. ASSUME NEW n \in 2..N PROVE it[n] = it[n - 1] \o seqs[n]
  <2>1. n \in 1..N /\ n # 1
    OBVIOUS
  <2> QED BY <1>3, <2>1
<1> QED BY <1>2, <1>4, <1>5

\* A buffer that is read has each of the function's bytes in its place.
LEMMA BufferRead ==
  ASSUME NEW a \in ConfigAddress, NEW size \in Nat, NEW c
  PROVE  LET out == PciSegmentReadBuffer(c, a, size)
             f == FunctionAt(Page(a))
         IN  /\ Len(out) = size
             /\ f # "none" /\ ~Ignored(a) =>
                  \A i \in 1..size : out[i] = Load(c, f, a.off + i - 1, 1)
<1> DEFINE off == a.off
           f == FunctionAt(Page(a))
           pieces == Pieces(off, size)
           N == Len(pieces)
           There == f # "none" /\ ~Ignored(a)
           at(p) == [a EXCEPT !.off = p[1]]
           read(p) == ToBytes(PciSegmentLibReadWorker(c, at(p), p[2]), p[2])
           seqs == [k \in DOMAIN pieces |-> read(pieces[k])]
           Byte == SUBSET (0..7)
<1>1. off \in Nat
  BY AddressOffset
<1>2. /\ N \in Nat /\ DOMAIN pieces = 1..N
      /\ \A n \in 1..N : pieces[n] \in AlignedPieces
  BY <1>1, PiecesEnds
<1>3. PICK end \in [0..N -> Nat] :
        /\ end[0] = off /\ end[N] = off + size
        /\ \A n \in 1..N : end[n] = pieces[n][1] + pieces[n][2] /\ pieces[n][1] = end[n - 1]
  BY <1>1, PiecesEnds
<1>4. PciSegmentReadBuffer(c, a, size) = FlattenSeq(seqs)
  BY DEF PciSegmentReadBuffer
<1>5. ASSUME NEW p \in AlignedPieces
      PROVE  /\ read(p) \in Seq(Byte) /\ Len(read(p)) = p[2]
             /\ There => \A j \in 1..p[2] : read(p)[j] = Load(c, f, p[1] + j - 1, 1)
  <2> DEFINE first == p[1]
             n == p[2]
             bits == PciSegmentLibReadWorker(c, at(p), n)
  <2>1. first \in Nat /\ n \in Nat
    BY DEF AlignedPieces
  <2>2. at(p).off = first /\ Page(at(p)) = Page(a) /\ (Ignored(at(p)) <=> Ignored(a))
    BY DEF ConfigAddress, Page, Ignored
  <2> HIDE DEF at, off, pieces
  <2>3. There => bits = Load(c, f, first, n)
    BY <2>2 DEF PciSegmentLibReadWorker
  <2> HIDE DEF first, n, bits, f
  <2>4. ToBytes(bits, n) \in Seq(Byte) /\ Len(ToBytes(bits, n)) = n
    BY <2>1 DEF ToBytes
  <2>5. There => \A j \in 1..n : ToBytes(bits, n)[j] = Load(c, f, first + j - 1, 1)
    BY <2>1, <2>3, BytesLoaded
  <2>6. read(p) = ToBytes(bits, n)
    BY DEF bits, n
  <2> HIDE DEF read
  <2> QED BY <2>4, <2>5, <2>6 DEF first, n
<1> HIDE DEF read, pieces, There, f, Byte
<1>6. /\ Len(seqs) = N
      /\ \A n \in 1..N : seqs[n] = read(pieces[n])
  <2> HIDE DEF N
  <2> QED BY <1>2
<1> HIDE DEF seqs, off, N
<1>7. CASE N = 0
  <2>1. FlattenSeq(seqs) = seqs /\ Len(seqs) = 0
    BY <1>6, <1>7 DEF FlattenSeq
  <2>2. size = 0
    BY <1>1, <1>3, <1>7
  <2> QED BY <1>4, <2>1, <2>2
<1>8. CASE N # 0
  <2>1. PICK join : /\ join[1] = seqs[1]
                    /\ \A n \in 2..N : join[n] = join[n - 1] \o seqs[n]
                    /\ join[N] = FlattenSeq(seqs)
    BY <1>2, <1>6, <1>8, FlattenSteps
  <2> DEFINE Right(s, n) ==
               /\ s \in Seq(Byte) /\ Len(s) = end[n] - off
               /\ There => \A i \in 1..(end[n] - off) : s[i] = Load(c, f, off + i - 1, 1)
             T == {n \in 1..N : ~Right(join[n], n)}
  <2>2. Right(<<>>, 0)
    BY <1>1, <1>3
  <2>3. ASSUME NEW n \in 1..N, NEW s, Right(s, n - 1) PROVE Right(s \o seqs[n], n)
    <3> DEFINE p == pieces[n]
               t == read(p)
               m == Len(s)
    <3>1. p \in AlignedPieces /\ seqs[n] = t
      BY <1>2, <1>6
    <3> HIDE DEF p
    <3>2. PICK first \in Nat, size2 \in Nat : first = p[1] /\ size2 = p[2]
      BY <3>1 DEF AlignedPieces
    <3>3. /\ t \in Seq(Byte) /\ Len(t) = size2
          /\ There => \A j \in 1..size2 : t[j] = Load(c, f, first + j - 1, 1)
      BY <1>5, <3>1, <3>2
    <3>4. end[n - 1] = first /\ end[n] = first + size2
      BY <1>3, <3>2 DEF p
    <3> HIDE DEF t
    <3>5. s \in Seq(Byte) /\ m = first - off /\ m \in Nat
      BY <2>3, <3>4
    <3>6. s \o t \in Seq(Byte) /\ Len(s \o t) = end[n] - off
      BY <1>1, <3>3, <3>4, <3>5
    <3>7. ASSUME There, NEW i \in 1..(end[n] - off) PROVE (s \o t)[i] = Load(c, f, off + i - 1, 1)
      <4>0. i \in 1..(m + size2)
        BY <1>1, <3>4, <3>5
      <4>1. CASE i <= m
        <5>1. i \in 1..(end[n - 1] - off) /\ (s \o t)[i] = s[i]
          BY <1>1, <3>3, <3>4, <3>5, <4>0, <4>1
        <5> QED BY <2>3, <3>7, <5>1
      <4>2. CASE i > m
        <5> DEFINE j == i - m
        <5>1. j \in 1..size2 /\ (s \o t)[i] = t[j] /\ first + j - 1 = off + i - 1
          BY <1>1, <3>3, <3>5, <4>0, <4>2
        <5> HIDE DEF j
        <5>2. t[j] = Load(c, f, first + j - 1, 1)
          BY <3>3, <3>7, <5>1
        <5> QED BY <5>1, <5>2
      <4>3. i <= m \/ i > m
        BY <3>5, <4>0
      <4> QED BY ONLY <4>1, <4>2, <4>3
    <3> QED BY <3>1, <3>6, <3>7
  <2>4. Right(join[1], 1)
    <3>1. \A s \in Seq(Byte) : <<>> \o s = s
      OBVIOUS
    <3>2. 1 \in 1..N /\ seqs[1] \in Seq(Byte)
      BY <1>2, <1>5, <1>6, <1>8
    <3>3. Right(<<>> \o seqs[1], 1)
      <4>1. 1 - 1 = 0
        OBVIOUS
      <4> HIDE DEF Right
      <4>2. Right(<<>>, 1 - 1)
        BY <2>2, <4>1
      <4> QED BY ONLY <2>3, <3>2, <4>2
    <3> HIDE DEF Right
    <3> QED BY <2>1, <3>1, <3>2, <3>3
  <2> HIDE DEF Right
  <2>5. ASSUME T # {} PROVE FALSE
    <3>0. T \in SUBSET Nat
      BY <1>2
    <3>1. PICK n \in T : \A m \in T : n <= m
      <4> HIDE DEF T
      <4> QED BY ONLY <2>5, <3>0, LeastMember
    <3>2. n \in 2..N /\ n - 1 \in 1..N /\ n - 1 \notin T
      BY <1>2, <2>4, <3>1
    <3> QED BY <2>1, <2>3, <3>1, <3>2
  <2>6. Right(join[N], N)
    BY <1>2, <1>8, <2>5
  <2>7. end[N] - off = size
    BY <1>1, <1>3
  <2> QED BY <1>4, <2>1, <2>6, <2>7 DEF Right, There, f, off
<1> QED BY <1>7, <1>8

\* A worker's write changes bits of its register only, and a bit it writes as it
\* was stays as it was.
LEMMA WorkerOnly ==
  ASSUME NEW c, NEW a, a.off \in Nat, NEW n \in Nat, NEW bits
  PROVE  LET d == PciSegmentLibWriteWorker(c, a, n, bits)
             f == FunctionAt(Page(a))
         IN  /\ OnlyIn({Place(f, a.off, b) : b \in 0..(8 * n - 1)}, c, d)
             /\ Ignored(a) \/ f = "none" => d = c
             /\ ~(Ignored(a) \/ f = "none") =>
                  \A b \in 0..(8 * n - 1) :
                    (b \in bits <=> Place(f, a.off, b) \in c)
                      => (Place(f, a.off, b) \in d <=> Place(f, a.off, b) \in c)
<1> DEFINE off == a.off
           f == FunctionAt(Page(a))
           d == PciSegmentLibWriteWorker(c, a, n, bits)
           all == {Place(f, off, b) : b \in 0..(8 * n - 1)}
<1>1. CASE Ignored(a) \/ f = "none"
  <2>1. d = c
    BY <1>1 DEF PciSegmentLibWriteWorker
  <2>2. OnlyIn(all, c, c)
    BY OnlyInNothing
  <2> HIDE DEF d, all
  <2> QED BY <1>1, <2>1, <2>2 DEF d, all
<1>2. CASE ~(Ignored(a) \/ f = "none")
  <2>1. d = Store(c, f, off, n, bits)
    BY <1>2 DEF PciSegmentLibWriteWorker
  <2> HIDE DEF d, off, f
  <2>2. off \in Nat
    BY DEF off
  <2>3. /\ OnlyIn(all, c, d)
        /\ \A b \in 0..(8 * n - 1) :
             (b \in bits <=> Place(f, off, b) \in c)
               => (Place(f, off, b) \in d <=> Place(f, off, b) \in c)
    BY ONLY <2>1, <2>2, n \in Nat, StoredBits
  <2> QED BY <1>2, <2>3 DEF d, off, f
<1> QED BY <1>1, <1>2

\* A bit field's update leaves the bits outside the field alone.
LEMMA FieldOnly ==
  ASSUME NEW c, NEW a, a.off \in Nat, NEW n \in Nat, NEW op
  PROVE  LET d == PciSegmentLibWriteWorker(c, a, n,
                      CombineField(PciSegmentLibReadWorker(c, a, n), op))
         IN  OnlyIn({Place(FunctionAt(Page(a)), a.off, b) : b \in FieldBits(op)}, c, d)
<1> DEFINE off == a.off
           f == FunctionAt(Page(a))
           bits == CombineField(PciSegmentLibReadWorker(c, a, n), op)
           d == PciSegmentLibWriteWorker(c, a, n, bits)
           field == {Place(f, off, b) : b \in FieldBits(op)}
<1>1. CASE Ignored(a) \/ f = "none"
  <2>1. d = c
    BY <1>1 DEF PciSegmentLibWriteWorker
  <2>2. OnlyIn(field, c, c)
    BY OnlyInNothing
  <2> HIDE DEF d, field
  <2> QED BY <2>1, <2>2 DEF d, field
<1>2. CASE ~(Ignored(a) \/ f = "none")
  <2>1. PciSegmentLibReadWorker(c, a, n) = Load(c, f, off, n)
    BY <1>2 DEF PciSegmentLibReadWorker
  <2>2. ASSUME NEW b \in 0..(8 * n - 1), b \notin FieldBits(op)
        PROVE  b \in bits <=> Place(f, off, b) \in c
    <3>1. b \in bits <=> b \in Load(c, f, off, n)
      BY <2>1, <2>2 DEF CombineField, Shifted
    <3> HIDE DEF bits, off, f
    <3> QED BY <3>1 DEF Load
  <2> HIDE DEF bits
  <2>3. /\ OnlyIn({Place(f, off, b) : b \in 0..(8 * n - 1)}, c, d)
        /\ \A b \in 0..(8 * n - 1) :
             (b \in bits <=> Place(f, off, b) \in c)
               => (Place(f, off, b) \in d <=> Place(f, off, b) \in c)
    BY <1>2, WorkerOnly
  <2> HIDE DEF d, off, f
  <2>4. ASSUME NEW x \in (d \ c) \cup (c \ d) PROVE x \in field
    <3>1. PICK b \in 0..(8 * n - 1) : x = Place(f, off, b)
      BY <2>3 DEF OnlyIn
    <3>2. b \in FieldBits(op)
      BY <2>2, <2>3, <3>1
    <3> QED BY <3>1, <3>2
  <2>5. OnlyIn(field, c, d)
    BY <2>4 DEF OnlyIn
  <2> QED BY <2>5 DEF d, bits, off, f
<1> QED BY <1>1, <1>2

\* What an access may change, as in Asked, for each kind.
LEMMA UpdateOnly ==
  ASSUME NEW q \in PciAccesses, q.kind \in {"update", "field"}
  PROVE  OnlyIn(Asked(q), cfg, AfterUpdate(q))
<1>1. q.at.off \in Nat /\ q.size \in {1, 2, 4}
  BY LegalAccess
<1> DEFINE a == q.at
           n == q.size
           f == FunctionAt(Page(a))
<1>2. n \in Nat
  BY <1>1
<1>3. CASE q.kind = "update"
  <2>1. Asked(q) = {Place(f, a.off, b) : b \in 0..(8 * n - 1)}
    BY <1>3 DEF Asked
  <2>2. \A bits : OnlyIn(Asked(q), cfg, PciSegmentLibWriteWorker(cfg, a, n, bits))
    <3>1. a.off \in Nat
      BY <1>1
    <3> HIDE DEF a, n
    <3> QED BY <1>2, <2>1, <3>1, WorkerOnly
  <2>3. /\ n = 1 => OnlyIn(Asked(q), cfg, Update8(cfg, a, q.op))
        /\ n = 2 => OnlyIn(Asked(q), cfg, Update16(cfg, a, q.op))
        /\ n = 4 => OnlyIn(Asked(q), cfg, Update32(cfg, a, q.op))
    BY <2>2 DEF Update8, Update16, Update32, PciSegmentWrite8, PciSegmentWrite16,
       PciSegmentWrite32
  <2>4. n = 1 \/ n = 2 \/ n = 4
    BY <1>1
  <2> QED BY ONLY <1>3, <2>3, <2>4, Zenon DEF AfterUpdate
<1>4. CASE q.kind = "field"
  <2>1. Asked(q) = {Place(f, a.off, b) : b \in FieldBits(q.op)}
    BY <1>4 DEF Asked
  <2>2. OnlyIn(Asked(q), cfg, PciSegmentLibWriteWorker(cfg, a, n,
                   CombineField(PciSegmentLibReadWorker(cfg, a, n), q.op)))
    <3>1. a.off \in Nat
      BY <1>1
    <3> DEFINE op == q.op
    <3> HIDE DEF a, n, op
    <3>2. OnlyIn({Place(f, a.off, b) : b \in FieldBits(op)}, cfg,
                 PciSegmentLibWriteWorker(cfg, a, n,
                   CombineField(PciSegmentLibReadWorker(cfg, a, n), op)))
      BY <1>2, <3>1, FieldOnly
    <3> QED BY <2>1, <3>2 DEF op
  <2>3. /\ n = 1 => OnlyIn(Asked(q), cfg, BitField8(cfg, a, q.op))
        /\ n = 2 => OnlyIn(Asked(q), cfg, BitField16(cfg, a, q.op))
        /\ n = 4 => OnlyIn(Asked(q), cfg, BitField32(cfg, a, q.op))
    BY <2>2 DEF BitField8, BitField16, BitField32, PciSegmentWrite8, PciSegmentWrite16,
       PciSegmentWrite32, PciSegmentRead8, PciSegmentRead16, PciSegmentRead32
  <2>4. n = 1 \/ n = 2 \/ n = 4
    BY <1>1
  <2> QED BY ONLY <1>4, <2>3, <2>4, Zenon DEF AfterUpdate
<1> QED BY <1>3, <1>4

\* Each piece of a buffer is aligned to its width.
LEMMA PiecesAligned ==
  ASSUME NEW off \in Nat, NEW size \in Nat
  PROVE  \A p \in Range(Pieces(off, size)) : p[1] % p[2] = 0
<1>1. /\ DOMAIN Pieces(off, size) = 1..Len(Pieces(off, size))
      /\ \A n \in 1..Len(Pieces(off, size)) : Pieces(off, size)[n] \in AlignedPieces
  BY PiecesEnds
<1> QED BY <1>1 DEF Range, AlignedPieces

\* The accesses of the bus driver do what they say.
LEMMA BusStepExact == PciBusStep => Access(pciReq')
<1> SUFFICES ASSUME PciBusStep PROVE Access(pciReq')
  OBVIOUS
<1>1. CASE PciUpdate
  <2>1. PICK q \in PciAccesses : /\ q.kind \in {"update", "field"}
                                 /\ cfg' = AfterUpdate(q) /\ pciReq' = q
    BY <1>1 DEF PciUpdate
  <2>2. OnlyIn(Asked(q), cfg, cfg')
    BY <2>1, UpdateOnly
  <2> QED BY <2>1, <2>2 DEF Access, OnlyIn
<1>2. CASE PciReadBuffer
  <2>1. PICK q \in PciAccesses :
          /\ q.kind = "read" /\ cfg' = cfg
          /\ pciReq' = [kind |-> "read", at |-> q.at, size |-> q.size,
                        data |-> PciSegmentReadBuffer(cfg, q.at, q.size)]
    BY <1>2 DEF PciReadBuffer
  <2> DEFINE a == q.at
             n == q.size
             data == PciSegmentReadBuffer(cfg, a, n)
             f == FunctionAt(Page(a))
  <2>2. a \in ConfigAddress /\ n \in Nat
    BY <2>1, LegalAccess, PciAccessesAssumption DEF PciAccessesAssumption
  <2>3. pciReq'.kind = "read" /\ pciReq'.at = a /\ pciReq'.size = n /\ pciReq'.data = data
    BY <2>1
  <2> HIDE DEF a, n
  <2>4. /\ Len(data) = n
        /\ f # "none" /\ ~Ignored(a) => \A i \in 1..n : data[i] = Load(cfg, f, a.off + i - 1, 1)
    BY <2>2, BufferRead
  <2>5. \A p \in Range(Pieces(a.off, n)) : p[1] % p[2] = 0
    BY <2>2, PiecesAligned, AddressOffset
  <2> HIDE DEF data
  <2>6. (cfg' \ cfg) \cup (cfg \ cfg') = {}
    BY <2>1
  <2> QED BY <2>1, <2>3, <2>4, <2>5, <2>6 DEF Access
<1>3. CASE PciWriteBuffer
  <2>1. PICK q \in PciAccesses :
          /\ q.kind = "write" /\ cfg' = PciSegmentWriteBuffer(cfg, q.at, q.data) /\ pciReq' = q
    BY <1>3 DEF PciWriteBuffer
  <2> DEFINE a == q.at
             n == q.size
             data == q.data
             f == FunctionAt(Page(a))
  <2>2. a \in ConfigAddress /\ data \in Seq(SUBSET (0..7)) /\ n = Len(data) /\ n \in Nat
    BY <2>1, LegalAccess, PciAccessesAssumption DEF PciAccessesAssumption
  <2>3. Asked(q) = {Place(f, a.off, b) : b \in 0..(8 * n - 1)}
    BY <2>1 DEF Asked
  <2>4. cfg' = PciSegmentWriteBuffer(cfg, a, data)
    BY <2>1
  <2> HIDE DEF a, n, data
  <2>5. a.off \in Nat
    BY <2>2, AddressOffset
  <2>6. /\ OnlyIn(Span(f, a.off, a.off + n), cfg, cfg')
        /\ f # "none" /\ ~Ignored(a) =>
             \A o \in a.off..(a.off + n - 1) :
               o \notin ReadOnly => Load(cfg', f, o, 1) = data[o - a.off + 1]
    BY <2>2, <2>4, BufferWritten
  <2>7. \A p \in Range(Pieces(a.off, n)) : p[1] % p[2] = 0
    BY <2>2, <2>5, PiecesAligned
  <2>8. OnlyIn(Asked(q), cfg, cfg')
    BY <2>2, <2>3, <2>5, <2>6, SpanPlaces
  <2>9. ASSUME f # "none" /\ ~Ignored(a), NEW i \in 1..n, a.off + i - 1 \notin ReadOnly
        PROVE  data[i] = Load(cfg', f, a.off + i - 1, 1)
    <3> DEFINE o == a.off + i - 1
    <3>1. o \in a.off..(a.off + n - 1) /\ o - a.off + 1 = i
      BY <2>2, <2>5
    <3> HIDE DEF o
    <3>2. o \notin ReadOnly
      BY <2>9 DEF o
    <3>3. Load(cfg', f, o, 1) = data[o - a.off + 1]
      BY <2>6, <2>9, <3>1, <3>2
    <3> QED BY <3>1, <3>3 DEF o
  <2>10. pciReq'.kind = "write" /\ pciReq'.at = a /\ pciReq'.size = n /\ pciReq'.data = data
    BY <2>1 DEF a, n, data
  <2>11. (cfg' \ cfg) \cup (cfg \ cfg') \subseteq Asked(pciReq')
    BY <2>1, <2>8 DEF OnlyIn
  <2> HIDE DEF f
  <2> QED BY <2>2, <2>7, <2>9, <2>10, <2>11 DEF Access, f
<1> QED BY <1>1, <1>2, <1>3 DEF PciBusStep

\* The bits of the register files.
CfgBits == {"rootPort", "endpoint"} \X Nat \X (0..7)

LEMMA SpanIsCfg ==
  ASSUME NEW f \in {"rootPort", "endpoint"}, NEW from \in Nat, NEW to,
         NEW c, c \subseteq CfgBits, NEW d, OnlyIn(Span(f, from, to), c, d)
  PROVE  d \subseteq CfgBits
<1>1. ASSUME NEW x \in Span(f, from, to) PROVE x \in CfgBits
  <2>1. PICK o \in from..(to - 1), b \in 0..7 : x = <<f, o, b>>
    BY DEF Span
  <2>2. o \in Nat
    OBVIOUS
  <2> QED BY <2>1, <2>2 DEF CfgBits
<1> QED BY <1>1 DEF OnlyIn

LEMMA StoreIsCfg ==
  ASSUME NEW f \in {"rootPort", "endpoint"}, NEW c, c \subseteq CfgBits, NEW off \in Nat,
         NEW n \in Nat, NEW bits
  PROVE  Store(c, f, off, n, bits) \subseteq CfgBits
<1>1. OnlyIn(Span(f, off, off + n), c, Store(c, f, off, n, bits))
  <2>1. OnlyIn({Place(f, off, b) : b \in 0..(8 * n - 1)}, c, Store(c, f, off, n, bits))
    BY StoredBits
  <2>2. {Place(f, off, b) : b \in 0..(8 * n - 1)} = Span(f, off, off + n)
    BY SpanPlaces
  <2> QED BY ONLY <2>1, <2>2
<1> QED BY <1>1, SpanIsCfg

LEMMA Functions == \A page : FunctionAt(page) \in {"rootPort", "endpoint", "none"}
  BY DEF FunctionAt

LEMMA WorkerIsCfg ==
  ASSUME NEW c, c \subseteq CfgBits, NEW a, a.off \in Nat, NEW n \in Nat, NEW bits
  PROVE  PciSegmentLibWriteWorker(c, a, n, bits) \subseteq CfgBits
<1> DEFINE f == FunctionAt(Page(a))
           off == a.off
<1>1. f = "none" \/ f \in {"rootPort", "endpoint"}
  BY Functions
<1> HIDE DEF f, off
<1>2. f \in {"rootPort", "endpoint"} => Store(c, f, off, n, bits) \subseteq CfgBits
  BY StoreIsCfg DEF off
<1> QED BY <1>1, <1>2 DEF PciSegmentLibWriteWorker, f, off

\* An access of the bus driver, and the set-up, stay within the register files.
LEMMA BusStepIsCfg ==
  ASSUME cfg \subseteq CfgBits, PciBusStep
  PROVE  cfg' \subseteq CfgBits
<1>1. CASE PciUpdate
  <2>1. PICK q \in PciAccesses : q.kind \in {"update", "field"} /\ cfg' = AfterUpdate(q)
    BY <1>1 DEF PciUpdate
  <2>2. q.at.off \in Nat /\ q.size \in {1, 2, 4}
    BY <2>1, LegalAccess
  <2> DEFINE a == q.at
             n == q.size
             op == q.op
  <2>3. a.off \in Nat /\ n \in Nat
    BY <2>2
  <2> HIDE DEF a, n, op
  <2>4. \A bits : PciSegmentLibWriteWorker(cfg, a, n, bits) \subseteq CfgBits
    BY <2>3, WorkerIsCfg
  <2>5. /\ n = 1 => Update8(cfg, a, op) \subseteq CfgBits /\ BitField8(cfg, a, op) \subseteq CfgBits
        /\ n = 2 => Update16(cfg, a, op) \subseteq CfgBits /\ BitField16(cfg, a, op) \subseteq CfgBits
        /\ n = 4 => Update32(cfg, a, op) \subseteq CfgBits /\ BitField32(cfg, a, op) \subseteq CfgBits
    BY <2>4 DEF Update8, Update16, Update32, BitField8, BitField16, BitField32,
       PciSegmentWrite8, PciSegmentWrite16, PciSegmentWrite32
  <2>6. AfterUpdate(q) \subseteq CfgBits
    <3>1. q.kind = "update" \/ q.kind = "field"
      BY <2>1
    <3>2. q.size = 1 \/ q.size = 2 \/ q.size = 4
      BY <2>2
    <3> QED BY ONLY <3>1, <3>2, <2>5, Zenon DEF AfterUpdate, a, n, op
  <2> QED BY <2>1, <2>6
<1>2. CASE PciReadBuffer
  BY <1>2 DEF PciReadBuffer
<1>3. CASE PciWriteBuffer
  <2>1. PICK q \in PciAccesses : q.kind = "write" /\ cfg' = PciSegmentWriteBuffer(cfg, q.at, q.data)
    BY <1>3 DEF PciWriteBuffer
  <2> DEFINE a == q.at
             data == q.data
             f == FunctionAt(Page(a))
             end == a.off + Len(data)
  <2>2. a \in ConfigAddress /\ data \in Seq(SUBSET (0..7)) /\ a.off \in Nat
    BY <2>1, LegalAccess, PciAccessesAssumption DEF PciAccessesAssumption
  <2>3. cfg' = PciSegmentWriteBuffer(cfg, a, data)
    BY <2>1
  <2> HIDE DEF a, data
  <2>4. OnlyIn(Span(f, a.off, end), cfg, cfg') /\ (f = "none" => cfg' = cfg)
    BY <2>2, <2>3, BufferWritten
  <2>5. f = "none" \/ f \in {"rootPort", "endpoint"}
    BY Functions
  <2> HIDE DEF f, end
  <2> QED BY <2>2, <2>4, <2>5, SpanIsCfg
<1> QED BY <1>1, <1>2, <1>3 DEF PciBusStep

LEMMA SetupIsCfg ==
  ASSUME NEW c, c \subseteq CfgBits, NEW speed
  PROVE  PciSetupLinkSpeed(PciSetupBars(c), speed) \subseteq CfgBits
<1>0. <<"rootPort", 2236, 0>> \in CfgBits /\ <<"rootPort", 2062, 1>> \in CfgBits
  BY DEF CfgBits
<1>1. \A d : d \subseteq CfgBits => Unlock(d) \subseteq CfgBits /\ Lock(d) \subseteq CfgBits
  BY <1>0 DEF Unlock, Lock
<1>2. \A d, bits : d \subseteq CfgBits =>
        /\ Store(d, "rootPort", 10, 2, bits) \subseteq CfgBits
        /\ Store(d, "rootPort", 124, 1, bits) \subseteq CfgBits
        /\ Store(d, "rootPort", 160, 1, bits) \subseteq CfgBits
  BY StoreIsCfg
<1> DEFINE class == Store(Unlock(c), "rootPort", 10, 2, BridgeClass)
           bars == Lock(class \cup {<<"rootPort", 2062, 1>>})
           first == Store(Unlock(bars), "rootPort", 124, 1,
                      (Load(Unlock(bars), "rootPort", 124, 1) \ (0..3)) \cup Bits(speed, 0))
           second == Store(first, "rootPort", 160, 1,
                       (Load(first, "rootPort", 160, 1) \ (0..3)) \cup Bits(speed, 0))
<1>3. class \subseteq CfgBits
  BY <1>1, <1>2
<1> HIDE DEF class
<1>4. bars \subseteq CfgBits /\ Unlock(bars) \subseteq CfgBits
  BY <1>0, <1>1, <1>3
<1> HIDE DEF bars
<1>5. first \subseteq CfgBits
  BY <1>2, <1>4
<1> HIDE DEF first
<1>6. second \subseteq CfgBits
  BY <1>2, <1>5
<1> HIDE DEF second
<1>7. PciSetupBars(c) = bars
  BY DEF PciSetupBars, bars, class
<1>8. PciSetupLinkSpeed(bars, speed) = Lock(second)
  BY DEF PciSetupLinkSpeed, second, first
<1> QED BY <1>1, <1>6, <1>7, <1>8

=============================================================================
