--------------------------------- MODULE I2c ---------------------------------
(***************************************************************************)
(* I2cLib: one register read or write of a device on the bus.  The code    *)
(* polls the interrupt-pending register and gives up on a NAK or a time-   *)
(* out, without a stop condition and with the controller still enabled.    *)
(* The controller and the device run beside it, also after it gave up.     *)
(***************************************************************************)
EXTENDS Soc, Sequences

CONSTANTS
    PmicReg,        \* registers of the device
    PmicValue,      \* their values
    PMIC_I2C_ADDR   \* the device's address

PmicAssumption == PmicReg # {} /\ PmicReg \subseteq PmicValue
ASSUME PmicAssumption

VARIABLES
    con,       \* RKI2C_CON: the bits that are set, the mode among them
    ipd,       \* RKI2C_IPD: pending interrupts
    engine,    \* the controller: "off", "started", "armed", "done", "stopped"
    claimed,   \* between a start and a stop condition
    tx,        \* address and data registers of the transfer
    rx,        \* RKI2C_RXDATA
    pmic,      \* the device's registers
    i2cCall    \* the call under way or the last one

i2cVars == <<con, ipd, engine, claimed, tx, rx, pmic, i2cCall>>

NoCall == [op |-> "none", reg |-> CHOOSE x \in PmicReg : TRUE,
           value |-> CHOOSE x \in PmicValue : TRUE, status |-> "none", ret |-> "none"]

\* Where a caller goes on.
Returns == {"none", "ver", "ldo1", "ldo9", "en1", "en3", "cpu"}

Calls == [op : {"none", "read", "write"}, reg : PmicReg, value : PmicValue,
          status : {"none", "busy", EFI_SUCCESS, "EFI_TIMEOUT", "EFI_DEVICE_ERROR"},
          ret : Returns]

I2cInitial ==
    /\ con = {} /\ ipd = {} /\ engine = "off" /\ claimed = FALSE
    /\ tx = <<>> /\ rx = NoCall.value
    /\ pmic = [r \in PmicReg |-> r]
    /\ i2cCall = NoCall

------------------------------------------------------------------------------
(* The code. *)

At(point) == pc = <<"I2c", point>>
Goto(point) == pc' = <<"I2c", point>>
Mode == IF i2cCall.op = "read" THEN "RTX" ELSE "TX"

\* A call from a driver that continues at `ret'.
CallI2c(op, reg, value, ret) ==
    /\ i2cCall' = [op |-> op, reg |-> reg, value |-> value,
                   status |-> "busy", ret |-> ret]
    /\ Goto("init")

Return(status, value) ==
    /\ i2cCall' = [i2cCall EXCEPT !.status = status, !.value = value]
    /\ pc' = <<"BoardInitDxe", i2cCall.ret>>

\* I2cInit: disable the controller, which ends what it was doing, ...
I2cInit ==
    /\ At("init")
    /\ con' = {} /\ engine' = "off" /\ Goto("clear")
    /\ UNCHANGED <<ipd, claimed, tx, rx, pmic, i2cCall>>

\* Fault: nothing is acknowledged.
FaultNoAck ==
    /\ At("clear")
    /\ Goto("start")
    /\ UNCHANGED i2cVars

\* ... and only then acknowledge what is pending.
I2cAck ==
    /\ At("clear")
    /\ ipd' = {} /\ Goto("start")
    /\ UNCHANGED <<con, engine, claimed, tx, rx, pmic, i2cCall>>

I2cStart ==
    /\ At("start")
    /\ con' = {"EN", Mode, "START"} /\ Goto("waitStart")
    /\ UNCHANGED <<ipd, engine, claimed, tx, rx, pmic, i2cCall>>

\* The loop of I2cWait ends with a time-out, with a NAK or with the event.
GiveUp(mask) ==
    /\ \/ /\ ipd \cap {mask, "NAK"} = {}
          /\ Return("EFI_TIMEOUT", i2cCall.value)
       \/ /\ "NAK" \in ipd
          /\ Return("EFI_DEVICE_ERROR", i2cCall.value)
    /\ ipd' = ipd \ {mask, "NAK"}
    /\ UNCHANGED <<con, engine, claimed, tx, rx, pmic>>

Seen(mask) == mask \in ipd /\ "NAK" \notin ipd /\ ipd' = ipd \ {mask}

WaitStart ==
    /\ At("waitStart")
    /\ \/ GiveUp("START")
       \/ /\ Seen("START")
          /\ con' = con \ {"START"} /\ Goto("send")
          /\ UNCHANGED <<engine, claimed, tx, rx, pmic, i2cCall>>

\* Writing the byte count starts the transfer.
I2cSend ==
    /\ At("send")
    /\ tx' = IF i2cCall.op = "read" THEN <<PMIC_I2C_ADDR, i2cCall.reg>>
             ELSE <<PMIC_I2C_ADDR, i2cCall.reg, i2cCall.value>>
    /\ con' = IF i2cCall.op = "read" THEN con \cup {"ACK"} ELSE con
    /\ engine' = "armed"
    /\ Goto("waitData")
    /\ UNCHANGED <<ipd, claimed, rx, pmic, i2cCall>>

DataEvent == IF i2cCall.op = "read" THEN "MBRF" ELSE "MBTF"

\* I2cRead copies the data before the stop; then I2cStop.
WaitData ==
    /\ At("waitData")
    /\ \/ GiveUp(DataEvent)
       \/ /\ Seen(DataEvent)
          /\ i2cCall' = IF i2cCall.op = "read" THEN [i2cCall EXCEPT !.value = rx]
                        ELSE i2cCall
          /\ con' = con \cup {"STOP"} /\ Goto("waitStop")
          /\ UNCHANGED <<engine, claimed, tx, rx, pmic>>

WaitStop ==
    /\ At("waitStop")
    /\ \/ GiveUp("STOP")
       \/ /\ Seen("STOP")
          /\ con' = {} /\ engine' = "off"
          /\ Return(EFI_SUCCESS, i2cCall.value)
          /\ UNCHANGED <<claimed, tx, rx, pmic>>

I2cPolls == At("waitStart") \/ At("waitData") \/ At("waitStop")

I2cStep == \/ I2cInit \/ I2cAck \/ I2cStart \/ WaitStart
           \/ I2cSend \/ WaitData \/ WaitStop

------------------------------------------------------------------------------
(* The controller and the device. *)

HwStart ==
    /\ engine = "off" /\ {"EN", "START"} \subseteq con
    /\ engine' = "started" /\ claimed' = TRUE /\ ipd' = ipd \cup {"START"}
    /\ UNCHANGED <<con, tx, rx, pmic, i2cCall>>

HwRead ==
    /\ engine = "armed" /\ "RTX" \in con
    /\ tx[1] = PMIC_I2C_ADDR /\ rx' = pmic[tx[2]]
    /\ engine' = "done" /\ ipd' = ipd \cup {"MBRF"}
    /\ UNCHANGED <<con, claimed, tx, pmic, i2cCall>>

HwWrite ==
    /\ engine = "armed" /\ "TX" \in con
    /\ tx[1] = PMIC_I2C_ADDR
    /\ pmic' = [pmic EXCEPT ![tx[2]] = tx[3]]
    /\ engine' = "done" /\ ipd' = ipd \cup {"MBTF"}
    /\ UNCHANGED <<con, claimed, tx, rx, i2cCall>>

HwNak ==
    /\ engine = "armed"
    /\ engine' = "done" /\ ipd' = ipd \cup {"NAK"}
    /\ UNCHANGED <<con, claimed, tx, rx, pmic, i2cCall>>

HwStop ==
    /\ "STOP" \in con /\ engine \in {"started", "done"}
    /\ engine' = "stopped" /\ claimed' = FALSE /\ ipd' = ipd \cup {"STOP"}
    /\ UNCHANGED <<con, tx, rx, pmic, i2cCall>>

I2cHw == (HwStart \/ HwRead \/ HwWrite \/ HwNak \/ HwStop) /\ UNCHANGED pc

------------------------------------------------------------------------------
I2cTypeOK ==
    /\ con \subseteq {"EN", "RTX", "TX", "START", "STOP", "ACK"}
    /\ ipd \subseteq {"START", "MBRF", "MBTF", "STOP", "NAK"}
    /\ engine \in {"off", "started", "armed", "done", "stopped"}
    /\ claimed \in BOOLEAN
    /\ rx \in PmicValue
    /\ pmic \in [PmicReg -> PmicValue]

(* A call that returns EFI_SUCCESS did what it says: the device's register  *)
(* holds the value that was read or written, and the bus is free again.     *)
(* Nothing of an earlier transfer that failed, whose answer may still come  *)
(* in, is taken for the answer of this one.                                 *)
SuccessMeansDone ==
    i2cCall.status = EFI_SUCCESS =>
        /\ pmic[i2cCall.reg] = i2cCall.value
        /\ ~claimed
==============================================================================
