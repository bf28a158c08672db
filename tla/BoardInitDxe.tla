---------------------------- MODULE BoardInitDxe -----------------------------
(***************************************************************************)
(* BoardInitDxe of the Rock 3A: the power-management chip over I2C, the    *)
(* processor's clock over SCMI, the combo PHYs of the USB ports and their  *)
(* power, the network controller with an address derived from the OTP, and *)
(* the WiFi module.  The statuses of all but the last are ignored.         *)
(***************************************************************************)
EXTENDS I2c, Otp, MultiPhy, Gpio

VARIABLES
    cpuRate,   \* of the processor's clock: "boot", or "last": the last rate
               \* that SCMI describes
    mac        \* the address registers of GMAC1: <<>>, or the hash of OTP data

boardVars == <<cpuRate, mac>>

BoardInitInitial == cpuRate = "boot" /\ mac = <<>>

BAt(point)  == pc = <<"BoardInitDxe", point>>

mGmac1IomuxConfig ==
    Rows(3, <<PC(4), PC(5)>>, 3, PullNone, DriveDefault)
    \o Rows(3, <<PB(5), PB(6)>>, 3, PullNone, 7)
    \o Rows(3, <<PB(7), PB(1), PB(2), PB(3), PA(7)>>, 3, PullNone, DriveDefault)
    \o Rows(3, <<PA(6)>>, 3, PullNone, 3)
    \o Rows(3, <<PC(0), PA(4), PA(5)>>, 3, PullNone, DriveDefault)
    \o Rows(3, <<PA(2), PA(3)>>, 3, PullNone, 7)

mSdmmc1IomuxConfig ==
    Rows(2, <<PA(3), PA(4), PA(5), PA(6), PA(7), PB(0)>>, 1, PullUp, 7)
    \o Rows(2, <<PB(1), PB(2)>>, 0, PullNone, DriveDefault)

------------------------------------------------------------------------------
(* The power-management chip: four reads for the assertions of a debug      *)
(* build, two writes that switch LDO1 and LDO9 on.                          *)

Read(reg, next) == [op |-> "read", reg |-> reg, value |-> reg, next |-> next]
Write(reg, next) == [op |-> "write", reg |-> reg, value |-> "0x11", next |-> next]

PmicCalls == [name |-> Read("PMIC_CHIP_NAME", "ver"),
              ver  |-> Read("PMIC_CHIP_VER", "ldo1"),
              ldo1 |-> Read("PMIC_LDO1_ON_VSEL", "ldo9"),
              ldo9 |-> Read("PMIC_LDO9_ON_VSEL", "en1"),
              en1  |-> Write("PMIC_POWER_EN1", "en3"),
              en3  |-> Write("PMIC_POWER_EN3", "cpu")]

PmicCallsAssumption ==
    \A k \in DOMAIN PmicCalls : /\ PmicCalls[k].reg \in PmicReg
                                /\ PmicCalls[k].value \in PmicValue
ASSUME PmicCallsAssumption

PmicPin(r, pin) ==
    GpioPinSetFunction(
        GpioPinSetInput(GpioPinSetPull(r, 0, pin, PullNone), 0, pin, InputSchmitt),
        0, pin, 1)

BoardInitPmic ==
    /\ BAt("entry")
    /\ regs' = PmicPin(PmicPin(regs, PB(1)), PB(2))
    /\ pc' = <<"BoardInitDxe", "name">>
    /\ UNCHANGED <<i2cVars, otpVars, boardVars>>

\* PmicRead and PmicWrite: the status is dropped.
PmicCall ==
    /\ \E k \in DOMAIN PmicCalls :
         /\ BAt(k)
         /\ CallI2c(PmicCalls[k].op, PmicCalls[k].reg, PmicCalls[k].value,
                    PmicCalls[k].next)
    /\ UNCHANGED <<regs, con, ipd, engine, claimed, tx, rx, pmic, otpVars, boardVars>>

------------------------------------------------------------------------------
(* The processor's clock.  Nine calls can fail, the eighth is RateSet; the  *)
(* first failure ends the function.                                         *)

ScmiCalls == <<"LocateProtocol", "GetVersion", "GetClockAttributes", "RateGet",
               "DescribeRates", "AllocatePool", "DescribeRates", "RateSet", "RateGet">>
RateSetCall == 8

BoardInitSetCpuSpeed ==
    /\ BAt("cpu")
    /\ \E done \in 0..Len(ScmiCalls) :
         cpuRate' = IF done >= RateSetCall THEN "last" ELSE cpuRate
    /\ pc' = <<"BoardInitDxe", "usb">>
    /\ UNCHANGED <<regs, i2cVars, otpVars, mac>>

------------------------------------------------------------------------------
(* Clock gating, the PVT PLL, the USB3 PHYs and the power of the USB ports. *)

UsbPhys(r) ==
    MultiPhySetMode(MultiPhySetMode(r, 0, "USB3").regs, 1, "USB3").regs

BoardInitUsb ==
    LET noc == MmioWrite(MmioWrite(regs, <<"PMU_NOC_AUTO", 0>>, 0..31),
                         <<"PMU_NOC_AUTO", 1>>, (0..3) \cup (16..19))
        pvt == HiwordWrite(noc, <<"GRF_CPU_COREPVTPLL">>, {0, 1} \cup (3..7), {0, 1, 3, 5})
    IN  /\ BAt("usb")
        /\ regs' = Output(Output(UsbPhys(pvt), 0, PA(6), 1), 0, PA(5), 1)
        /\ pc' = <<"BoardInitDxe", "gmac">>
        /\ UNCHANGED <<i2cVars, otpVars, boardVars>>

------------------------------------------------------------------------------
(* The network controller: held in reset while its pins and clocks are set. *)

GmacClocks(r) ==
    LET sel  == HiwordWrite(r, <<"CLKSEL", 33>>, {0, 1, 2, 4, 5}, {2})
        con0 == HiwordWrite(sel, <<"GRF_MAC1", 0>>, (0..6) \cup (8..14),
                            Bits(78, 0) \cup Bits(44, 8))
    IN  HiwordWrite(con0, <<"GRF_MAC1", 1>>, {0, 1} \cup (4..6), {0, 1, 4})

BoardInitGmac ==
    LET held == GpioSetIomuxConfig(CruAssertSoftReset(regs, 14, 12), mGmac1IomuxConfig)
        low  == Output(GmacClocks(held), 0, PB(7), 0)
        high == GpioPinWrite(low, 0, PB(7), 1)
    IN  /\ BAt("gmac")
        /\ regs' = CruDeassertSoftReset(high, 14, 12)
        /\ \E q \in OtpRequests : CallOtp(q[1], q[2])
        /\ UNCHANGED <<i2cVars, userOp, userDone, userQ, boardVars>>

\* The SHA-256 of the data, which the model takes for injective.
BoardInitMac ==
    /\ BAt("mac")
    /\ mac' = otpCall.data
    /\ pc' = <<"BoardInitDxe", "wifi">>
    /\ UNCHANGED <<regs, i2cVars, otpVars, cpuRate>>

\* GPIO2 PB1 (WIFI_REG_ON) low, then high; BoardInitEmmc is compiled out.
BoardInitWiFi ==
    LET pins == GpioSetIomuxConfig(CruSetSdmmcClockRate(regs, 1, 100000),
                                   mSdmmc1IomuxConfig)
    IN  /\ BAt("wifi")
        /\ regs' = GpioPinWrite(Output(pins, 2, PB(1), 0), 2, PB(1), 1)
        /\ pc' = <<"DxeCore", "loaded">>
        /\ UNCHANGED <<i2cVars, otpVars, boardVars>>

BoardInitStep ==
    \/ BoardInitPmic \/ PmicCall \/ BoardInitSetCpuSpeed \/ BoardInitUsb
    \/ BoardInitGmac \/ BoardInitMac \/ BoardInitWiFi
    \/ I2cStep /\ UNCHANGED <<regs, otpVars, boardVars>>
    \/ OtpStep /\ UNCHANGED <<regs, i2cVars, boardVars>>

BoardInitHw ==
    \/ I2cHw /\ UNCHANGED <<regs, otpVars, boardVars>>
    \/ HwOtp /\ UNCHANGED <<regs, i2cVars, boardVars>>

==============================================================================
