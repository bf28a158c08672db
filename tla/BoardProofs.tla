----------------------------- MODULE BoardProofs -----------------------------
(* A Rock 3A's boot is an environment that the I2C and the OTP libraries and *)
(* the random number generator are proved for: no other driver, client or    *)
(* piece of hardware touches their state, the PMIC calls are legal, and the  *)
(* OTP is read once.  So what holds of each part holds in the boot.  Then    *)
(* what the parts need of each other: the memory is described as it is, and  *)
(* a USB controller or a PCIe bridge that is handed on can work, and what a  *)
(* driver has set up stays, whatever the others write to the registers they  *)
(* share.  Last, the bus driver's accesses are exact, and every part keeps   *)
(* to its types.                                                             *)
EXTENDS Board, DeviceProofs, FiniteSetTheorems

\* Board set-up from its start to the call of the OTP library.
BeforeOtp == pc[1] = "I2c" \/ (pc[1] = "BoardInitDxe" /\ pc[2] \notin {"mac", "wifi"})

\* The board is set up once, and the OTP is read after what comes before it.
OnceInv ==
    /\ waiting \subseteq Drivers
    /\ pc[1] \in {"BoardInitDxe", "I2c", "Otp"} => "BoardInitDxe" \notin waiting
    /\ "BoardInitDxe" \in waiting \/ BeforeOtp => otpCall.length = 0

\* A step that has nothing to do with the two libraries.
Apart ==
    /\ UNCHANGED <<i2cVars, otpVars, waiting>>
    /\ \/ pc' = pc
       \/ /\ pc[1] \notin {"BoardInitDxe", "I2c", "Otp"}
          /\ pc'[1] \notin {"BoardInitDxe", "I2c", "Otp"}

------------------------------------------------------------------------------
\* Where the steps of a driver are, and where they go.
LEMMA PciHostPc == PciHostDriver => pc[1] = "PciHost" /\ pc'[1] \in {"PciHost", "DxeCore"}
<1>1. PciPowerUp \/ PciSetup => pc[1] = "PciHost" /\ pc'[1] = "PciHost"
  BY DEF PciPowerUp, PciSetup, PAt, PGoto
<1>2. PciReset \/ PciWindows \/ PciStartLink => pc[1] = "PciHost" /\ pc'[1] = "PciHost"
  <2>1. PciWindows => PAt("windows") /\ PGoto("ltssm")
    BY DEF PciWindows
  <2>2. PciReset => PAt("perst") /\ PGoto("windows")
    BY DEF PciReset
  <2>3. PciStartLink => PAt("ltssm") /\ PGoto("wait")
    BY DEF PciStartLink
  <2> QED BY <2>1, <2>2, <2>3 DEF PAt, PGoto
<1>3. PciIsLinkUp \/ PciTimeout => pc[1] = "PciHost" /\ pc'[1] = "DxeCore"
  BY DEF PciIsLinkUp, PciTimeout, PAt
<1> QED BY <1>1, <1>2, <1>3 DEF PciHostDriver, PciHostStep

LEMMA BoardInitPc ==
  BoardInitDriver => /\ pc[1] \in {"BoardInitDxe", "I2c", "Otp"}
                     /\ pc'[1] \in {"BoardInitDxe", "I2c", "Otp", "DxeCore"}
<1> SUFFICES ASSUME BoardInitDriver
             PROVE  /\ pc[1] \in {"BoardInitDxe", "I2c", "Otp"}
                    /\ pc'[1] \in {"BoardInitDxe", "I2c", "Otp", "DxeCore"}
  OBVIOUS
<1>1. CASE PmicCall
  BY <1>1 DEF PmicCall, CallI2c, Goto, BAt
<1>2. CASE I2cStep
  BY <1>2 DEF I2cStep, I2cInit, I2cAck, I2cStart, WaitStart, I2cSend, WaitData, WaitStop,
     GiveUp, Return, At, Goto
<1>3. CASE OtpStep
  BY <1>3 DEF OtpStep, OtpDisableEcc, OtpIssue, OtpDone, OtpTimeout, OtpCollect, OtpAt
<1>4. CASE BoardInitGmac
  BY <1>4 DEF BoardInitGmac, CallOtp, BAt
<1>5. CASE BoardInitPmic \/ BoardInitSetCpuSpeed \/ BoardInitUsb \/ BoardInitMac \/ BoardInitWiFi
  BY <1>5 DEF BoardInitPmic, BoardInitSetCpuSpeed, BoardInitUsb, BoardInitMac, BoardInitWiFi, BAt
<1> QED BY <1>1, <1>2, <1>3, <1>4, <1>5 DEF BoardInitDriver, BoardInitStep

LEMMA EntryPointsApart ==
  PciHostDriver \/ UsbHcdDriver \/ RegisterDrivers \/ TrngDriver \/ FdtDriver => Apart
<1>1. PciHostDriver => Apart
  BY PciHostPc DEF PciHostDriver, bootVars, Apart
<1>2. UsbHcdDriver => Apart
  BY DEF UsbHcdDriver, InitializeUsbHcd, bootVars, Apart
<1>3. RegisterDrivers => Apart
  BY DEF RegisterDrivers, MshcDxeInitialize, InitializeTsadc, EmmcDxeInitialize, bootVars, Apart
<1>4. TrngDriver => Apart
  <2>1. TrngInit => pc[1] = "Trng" /\ pc'[1] = "DxeCore"
    BY DEF TrngInit, RngAt
  <2>2. TrngStart => pc[1] = "Trng" /\ pc'[1] = "Trng"
    BY DEF TrngStart, RngAt
  <2>3. TrngTimeout \/ TrngCopy => pc[1] = "Trng" /\ pc'[1] \in {"Trng", "Bds"}
    <3>1. TrngTimeout => RngAt("poll") /\ pc' = <<"Bds", "idle">>
      BY DEF TrngTimeout
    <3>2. TrngCopy => RngAt("poll") /\ pc' \in {<<"Bds", "idle">>, <<"Trng", "start">>}
      BY Zenon DEF TrngCopy
    <3> QED BY <3>1, <3>2 DEF RngAt
  <2> QED BY <2>1, <2>2, <2>3 DEF TrngDriver, TrngStep, bootVars, Apart
<1>5. FdtDriver => Apart
  BY DEF FdtDriver, FdtStep, FdtRejected, FdtAllocate, FdtOpen, FdtInstall, FAt, bootVars, Apart
<1> QED BY <1>1, <1>2, <1>3, <1>4, <1>5

LEMMA CoreApart ==
  PeiStep \/ DriverReturned \/ EndOfDispatch \/ EndOfDxe => Apart
<1>1. PeiStep => Apart
  BY DEF PeiStep, MemoryPeim, bootVars, Apart
<1>2. DriverReturned => Apart
  BY DEF DriverReturned, OthersKept, Apart
<1>3. EndOfDispatch => Apart
  BY DEF EndOfDispatch, OthersKept, bootVars, Apart
<1>4. EndOfDxe => Apart
  BY DEF EndOfDxe, bootVars, Apart
<1> QED BY <1>1, <1>2, <1>3, <1>4

LEMMA ClientsApart == Clients => Apart
<1>1. XhciDriver => Apart
  BY DEF XhciDriver, bootVars, Apart
<1>2. SdMmcDriver => Apart
  BY DEF SdMmcDriver, bootVars, Apart
<1>3. RngClient => Apart
  BY DEF RngClient, TrngGetRNG, Idle, bootVars, Apart
<1>4. PciBusDriver => Apart
  BY DEF PciBusDriver, bootVars, Apart
<1>5. Reset => Apart
  <2>1. ASSUME NEW t, ResetSystem(t) PROVE pc' = pc \/ pc'[1] = "Rom"
    BY <2>1 DEF ResetSystem, ResetWarm, ResetCold, ResetShutdown, ResetPlatformSpecific
  <2>2. Reset => pc' = pc \/ pc'[1] = "Rom"
    BY <2>1 DEF Reset, UefiMain
  <2> QED BY <2>2 DEF Reset, Idle, bootVars, Apart
<1> QED BY <1>1, <1>2, <1>3, <1>4, <1>5 DEF Clients

LEMMA HardwareApart == LinkHw \/ TrngHw \/ Rest \/ UNCHANGED vars => Apart
  BY DEF LinkHw, HwLinkUp, TrngHw, HwTrng, Rest, vars, bootVars, Apart

\* What is left: the start of a driver, board set-up and its two buses.
LEMMA StepKinds == [Next]_vars => Apart \/ StartDriver \/ BoardInitDriver \/ BusHw
  BY EntryPointsApart, CoreApart, ClientsApart, HardwareApart DEF Next, Cpu, Hw

LEMMA StartDriverPc ==
  ASSUME OnceInv, StartDriver
  PROVE  \E d \in Drivers : /\ d \in waiting /\ waiting' = waiting \ {d}
                            /\ pc' = <<d, "entry">> /\ pc[1] = "DxeCore"
                            /\ UNCHANGED <<i2cVars, otpVars>>
<1>1. NextDrivers \subseteq waiting
  BY DEF NextDrivers
<1> QED BY <1>1 DEF StartDriver, OnceInv, OthersKept

------------------------------------------------------------------------------
LEMMA DriverNames ==
  /\ "I2c" \notin Drivers /\ "Otp" \notin Drivers
  BY DEF Drivers, DriverOrder

LEMMA OnceInvInit == Init => OnceInv
  BY DEF Init, Volumes, NotInVolume, OnceInv, BeforeOtp, OtpInitial

LEMMA OnceInvNext == OnceInv /\ [Next]_vars => OnceInv'
<1> SUFFICES ASSUME OnceInv, [Next]_vars PROVE OnceInv'
  OBVIOUS
<1>1. CASE Apart
  BY <1>1 DEF Apart, otpVars, OnceInv, BeforeOtp
<1>2. CASE StartDriver
  BY <1>2, StartDriverPc, DriverNames DEF otpVars, OnceInv, BeforeOtp
<1>3. CASE BusHw
  BY <1>3 DEF BusHw, BoardInitHw, I2cHw, HwOtp, bootVars, otpVars, OnceInv, BeforeOtp
<1>4. CASE BoardInitDriver
  <2>1. waiting' = waiting
    BY <1>4 DEF BoardInitDriver, bootVars
  <2>2. CASE BoardInitPmic \/ BoardInitSetCpuSpeed \/ BoardInitUsb
    BY <2>1, <2>2 DEF BoardInitPmic, BoardInitSetCpuSpeed, BoardInitUsb, BAt, otpVars, OnceInv, BeforeOtp
  <2>3. CASE PmicCall
    <3>1. DOMAIN PmicCalls = {"name", "ver", "ldo1", "ldo9", "en1", "en3"}
      BY DEF PmicCalls
    <3> QED BY <2>1, <2>3, <3>1 DEF PmicCall, CallI2c, Goto, BAt, otpVars, OnceInv, BeforeOtp
  <2>4. CASE BoardInitGmac
    BY <2>1, <2>4 DEF BoardInitGmac, CallOtp, BAt, OnceInv, BeforeOtp
  <2>5. CASE BoardInitMac \/ BoardInitWiFi
    BY <2>1, <2>5 DEF BoardInitMac, BoardInitWiFi, BAt, OnceInv, BeforeOtp
  <2>6. CASE I2cStep /\ UNCHANGED <<regs, otpVars, boardVars>>
    <3>1. pc[1] = "I2c" /\ pc'[1] \in {"I2c", "BoardInitDxe"}
      BY <2>6 DEF I2cStep, I2cInit, I2cAck, I2cStart, WaitStart, I2cSend, WaitData, WaitStop,
         GiveUp, Return, At, Goto
    <3> QED BY <2>1, <2>6, <3>1 DEF otpVars, OnceInv, BeforeOtp
  <2>7. CASE OtpStep
    <3>1. pc[1] = "Otp" /\ (pc'[1] = "Otp" \/ pc' = <<"BoardInitDxe", "mac">>)
      BY <2>7 DEF OtpStep, OtpDisableEcc, OtpIssue, OtpDone, OtpTimeout, OtpCollect, OtpAt
    <3> QED BY <2>1, <3>1 DEF OnceInv, BeforeOtp
  <2> QED
    BY <1>4, <2>2, <2>3, <2>4, <2>5, <2>6, <2>7 DEF BoardInitDriver, BoardInitStep
<1> QED BY <1>1, <1>2, <1>3, <1>4, StepKinds

THEOREM SetUpOnce == Spec => []OnceInv
<1> QED BY OnceInvInit, OnceInvNext, PTL DEF Spec

------------------------------------------------------------------------------
LEMMA BoardI2cStep == OnceInv /\ [Next]_vars => [I2cNext]_<<pc, i2cVars>>
<1> SUFFICES ASSUME OnceInv, [Next]_vars PROVE [I2cNext]_<<pc, i2cVars>>
  OBVIOUS
<1>1. CASE Apart
  BY <1>1 DEF Apart, I2cNext, I2cElsewhere
<1>2. CASE StartDriver
  BY <1>2, StartDriverPc, DriverNames DEF I2cNext, I2cElsewhere
<1>3. CASE BusHw
  BY <1>3 DEF BusHw, BoardInitHw, HwOtp, I2cNext
<1>4. CASE BoardInitDriver
  <2>1. CASE PmicCall
    <3>1. PICK k \in DOMAIN PmicCalls :
            BAt(k) /\ CallI2c(PmicCalls[k].op, PmicCalls[k].reg, PmicCalls[k].value, PmicCalls[k].next)
      BY <2>1 DEF PmicCall
    <3>2. PmicCalls[k].reg \in PmicReg /\ PmicCalls[k].value \in PmicValue
      BY PmicCallsAssumption DEF PmicCallsAssumption
    <3>3. PmicCalls[k].op \in {"read", "write"} /\ PmicCalls[k].next \in Returns
      BY DEF PmicCalls, Read, Write, Returns
    <3>4. I2cEntered
      BY <2>1, <3>1, <3>2, <3>3 DEF I2cEntered, PmicCall, BAt
    <3> QED BY <3>4 DEF I2cNext
  <2>2. CASE I2cStep
    BY <2>2 DEF I2cNext
  <2>3. CASE OtpStep /\ UNCHANGED i2cVars
    BY <2>3 DEF OtpStep, OtpDisableEcc, OtpIssue, OtpDone, OtpTimeout, OtpCollect, OtpAt,
       I2cNext, I2cElsewhere
  <2>4. CASE BoardInitPmic \/ BoardInitSetCpuSpeed \/ BoardInitUsb \/ BoardInitGmac
               \/ BoardInitMac \/ BoardInitWiFi
    BY <2>4 DEF BoardInitPmic, BoardInitSetCpuSpeed, BoardInitUsb, BoardInitGmac, CallOtp,
       BoardInitMac, BoardInitWiFi, BAt, I2cNext, I2cElsewhere
  <2> QED BY <1>4, <2>1, <2>2, <2>3, <2>4 DEF BoardInitDriver, BoardInitStep
<1> QED BY <1>1, <1>2, <1>3, <1>4, StepKinds

LEMMA BoardOtpStep == OnceInv /\ [Next]_vars => [OtpNext]_<<pc, otpVars>>
<1> SUFFICES ASSUME OnceInv, [Next]_vars PROVE [OtpNext]_<<pc, otpVars>>
  OBVIOUS
<1>1. CASE Apart
  BY <1>1 DEF Apart, OtpNext, OtpElsewhere
<1>2. CASE StartDriver
  BY <1>2, StartDriverPc, DriverNames DEF OtpNext, OtpElsewhere
<1>3. CASE BusHw
  BY <1>3 DEF BusHw, BoardInitHw, I2cHw, OtpNext
<1>4. CASE BoardInitDriver
  <2>1. CASE PmicCall
    BY <2>1 DEF PmicCall, CallI2c, Goto, BAt, OtpNext, OtpElsewhere
  <2>2. CASE I2cStep /\ UNCHANGED otpVars
    BY <2>2 DEF I2cStep, I2cInit, I2cAck, I2cStart, WaitStart, I2cSend, WaitData, WaitStop,
       GiveUp, Return, At, Goto, OtpNext, OtpElsewhere
  <2>3. CASE OtpStep
    BY <2>3 DEF OtpNext
  <2>4. CASE BoardInitGmac
    <3>1. otpCall.length = 0
      BY <2>4 DEF BoardInitGmac, BAt, OnceInv, BeforeOtp
    <3>2. PICK q \in OtpRequests : CallOtp(q[1], q[2])
      BY <2>4 DEF BoardInitGmac
    <3>3. q[1] \in Nat /\ q[2] \in Nat \ {0}
      BY OtpAssumption DEF OtpAssumption
    <3>4. OtpEntered
      BY <2>4, <3>1, <3>2, <3>3 DEF BoardInitGmac, BAt, OtpEntered
    <3> QED BY <3>4 DEF OtpNext
  <2>5. CASE BoardInitPmic \/ BoardInitSetCpuSpeed \/ BoardInitUsb \/ BoardInitMac \/ BoardInitWiFi
    BY <2>5 DEF BoardInitPmic, BoardInitSetCpuSpeed, BoardInitUsb, BoardInitMac, BoardInitWiFi,
       BAt, OtpNext, OtpElsewhere
  <2> QED BY <1>4, <2>1, <2>2, <2>3, <2>4, <2>5 DEF BoardInitDriver, BoardInitStep
<1> QED BY <1>1, <1>2, <1>3, <1>4, StepKinds

------------------------------------------------------------------------------
LEMMA RngElsewhereCore ==
  PeiStep \/ DriverReturned \/ EndOfDispatch \/ StartDriver \/ EndOfDxe => RngElsewhere
<1>1. PeiStep => RngElsewhere
  BY DEF PeiStep, MemoryPeim, RngElsewhere
<1>2. DriverReturned => RngElsewhere
  BY DEF DriverReturned, OthersKept, RngElsewhere
<1>3. EndOfDispatch => RngElsewhere
  BY DEF EndOfDispatch, OthersKept, RngElsewhere
<1>4. StartDriver => RngElsewhere
  BY DEF StartDriver, OthersKept, RngElsewhere
<1>5. EndOfDxe => RngElsewhere
  BY DEF EndOfDxe, RngElsewhere
<1> QED BY <1>1, <1>2, <1>3, <1>4, <1>5

LEMMA RngElsewhereBoardInit == BoardInitDriver \/ BusHw => RngElsewhere
<1>1. BusHw => RngElsewhere
  BY DEF BusHw, BoardInitHw, I2cHw, HwOtp, RngElsewhere
<1> QED BY <1>1, BoardInitPc DEF BoardInitDriver, RngElsewhere

LEMMA RngElsewhereDrivers ==
  PciHostDriver \/ UsbHcdDriver \/ RegisterDrivers \/ FdtDriver => RngElsewhere
<1>2. UsbHcdDriver => RngElsewhere
  BY DEF UsbHcdDriver, InitializeUsbHcd, RngElsewhere
<1>3. RegisterDrivers => RngElsewhere
  BY DEF RegisterDrivers, MshcDxeInitialize, InitializeTsadc, EmmcDxeInitialize, RngElsewhere
<1>4. FdtDriver => RngElsewhere
  BY DEF FdtDriver, FdtStep, FdtRejected, FdtAllocate, FdtOpen, FdtInstall, FAt, RngElsewhere
<1>5. PciHostDriver => RngElsewhere
  BY PciHostPc DEF PciHostDriver, RngElsewhere
<1> QED BY <1>2, <1>3, <1>4, <1>5

LEMMA RngElsewhereClients ==
  XhciDriver \/ SdMmcDriver \/ PciBusDriver \/ Reset \/ LinkHw \/ Rest \/ UNCHANGED vars
    => RngElsewhere
<1>1. XhciDriver \/ SdMmcDriver \/ PciBusDriver => RngElsewhere
  BY DEF XhciDriver, SdMmcDriver, PciBusDriver, RngElsewhere
<1>2. LinkHw \/ Rest \/ UNCHANGED vars => RngElsewhere
  BY DEF LinkHw, HwLinkUp, Rest, vars, RngElsewhere
<1>3. Reset => RngElsewhere
  <2>1. ASSUME NEW t, ResetSystem(t) PROVE pc' = pc \/ pc'[1] = "Rom"
    BY <2>1 DEF ResetSystem, ResetWarm, ResetCold, ResetShutdown, ResetPlatformSpecific
  <2>2. Reset => pc' = pc \/ pc'[1] = "Rom"
    BY <2>1 DEF Reset, UefiMain
  <2> QED BY <2>2 DEF Reset, Idle, RngElsewhere
<1> QED BY <1>1, <1>2, <1>3

LEMMA BoardRngStep == [Next]_vars => [RngNext]_<<pc, rngVars>>
<1>1. TrngDriver \/ TrngHw => RngNext
  BY DEF TrngDriver, TrngHw, RngNext
<1>2. RngClient => RngNext
  BY DEF RngClient, Idle, RngEntered, RngNext
<1> QED
  BY <1>1, <1>2, RngElsewhereCore, RngElsewhereBoardInit, RngElsewhereDrivers, RngElsewhereClients
  DEF Next, Cpu, Clients, Hw, RngNext

------------------------------------------------------------------------------
\* The board uses the I2C library as its proof assumes.
THEOREM BoardUsesI2c == Spec => I2cSpec
<1>1. Init => I2cStart0
  BY DEF Init, I2cStart0
<1> QED BY <1>1, BoardI2cStep, SetUpOnce, PTL DEF Spec, I2cSpec

\* The board uses the OTP library as its proof assumes.
THEOREM BoardUsesOtp == Spec => OtpSpec
<1>1. Init => OtpStart
  BY DEF Init, OtpStart
<1> QED BY <1>1, BoardOtpStep, SetUpOnce, PTL DEF Spec, OtpSpec

\* In every boot, in whatever order the drivers run, a PMIC access that
\* succeeds has been done (BoardInitDxe.c:313-384 on I2cLib.c:160-267).
THEOREM PmicAccessDone == Spec => []SuccessMeansDone
<1> QED BY BoardUsesI2c, TransferDone, PTL

\* In every boot, the MAC address is made from the bytes of the OTP that were
\* asked for, unless a word timed out (BoardInitDxe.c:301-311 on OtpLib.c:57-105).
THEOREM OtpReadExact == Spec => []OtpExact
<1> QED BY BoardUsesOtp, RangeRead, PTL

\* The board uses the random number generator as its proof assumes.
THEOREM BoardUsesTrng == Spec => RngSpec
<1>1. Init => RngStart
  BY DEF Init, RngStart
<1> QED BY <1>1, BoardRngStep, PTL DEF Spec, RngSpec

\* In every boot, no random bits are handed out twice, also when a start of the
\* generator times out and its run ends in a later call (Trng.c:98-145).
THEOREM BootRandomFresh == Spec => []FreshRandom
<1> QED BY BoardUsesTrng, FreshBits, PTL
------------------------------------------------------------------------------
(* The table of a boot is the one of its memory, from when it is made on.    *)

MemoryInv ==
    /\ dram \in Drams
    /\ \/ memoryMap = <<>> /\ hobs = {}
       \/ /\ memoryMap = ArmPlatformGetVirtualMemoryMap(dram.soc, Capacity(dram) * PagesPerMb)
          /\ hobs = UNION {AddRegion(memoryMap[i]) : i \in DOMAIN memoryMap}

LEMMA MemoryKept == [Next]_vars => MemoryPeim \/ UNCHANGED memoryVars
<1>1. PeiStep => MemoryPeim
  BY DEF PeiStep
<1>2. StartDriver \/ DriverReturned \/ EndOfDispatch \/ BoardInitDriver => UNCHANGED memoryVars
  BY DEF StartDriver, DriverReturned, EndOfDispatch, BoardInitDriver, OthersKept
<1>3. PciHostDriver \/ UsbHcdDriver \/ RegisterDrivers => UNCHANGED memoryVars
  BY DEF PciHostDriver, UsbHcdDriver, RegisterDrivers
<1>4. TrngDriver \/ FdtDriver \/ EndOfDxe => UNCHANGED memoryVars
  BY DEF TrngDriver, FdtDriver, EndOfDxe
<1>5. Clients => UNCHANGED memoryVars
  BY DEF Clients, XhciDriver, SdMmcDriver, RngClient, PciBusDriver, Reset
<1>6. Hw \/ Rest \/ UNCHANGED vars => UNCHANGED memoryVars
  BY DEF Hw, BusHw, LinkHw, TrngHw, Rest, vars
<1> QED BY <1>1, <1>2, <1>3, <1>4, <1>5, <1>6 DEF Next, Cpu

LEMMA DramSize ==
  ASSUME NEW d \in Drams
  PROVE  /\ SdramGetMemorySize(DramRegisters(d)) = Capacity(d)
         /\ d.soc \in {"RK356X", "RK3588"}
         /\ Capacity(d) * PagesPerMb \in 37888..HighMmio(d.soc).base
  BY DramsAssumption, SizeIsCapacity DEF DramsAssumption

LEMMA MemoryInvInit == Init => MemoryInv
  BY DEF Init, MemoryInitial, MemoryInv

LEMMA MemoryInvNext == MemoryInv /\ [Next]_vars => MemoryInv'
<1> SUFFICES ASSUME MemoryInv, [Next]_vars PROVE MemoryInv'
  OBVIOUS
<1>1. CASE UNCHANGED memoryVars
  BY <1>1 DEF memoryVars, MemoryInv
<1>2. CASE MemoryPeim
  BY <1>2, DramSize DEF MemoryPeim, MemoryInv
<1> QED BY <1>1, <1>2, MemoryKept

LEMMA MemoryInvSound == MemoryInv => MemorySound
<1> SUFFICES ASSUME MemoryInv, memoryMap # <<>> PROVE MemorySound
  BY DEF MemorySound
<1> DEFINE P == Capacity(dram) * PagesPerMb
<1>1. /\ memoryMap = ArmPlatformGetVirtualMemoryMap(dram.soc, P)
      /\ hobs = UNION {AddRegion(memoryMap[i]) : i \in DOMAIN memoryMap}
  BY DEF MemoryInv
<1>2. dram.soc \in {"RK356X", "RK3588"} /\ P \in 37888..HighMmio(dram.soc).base
  BY DramSize DEF MemoryInv
<1> HIDE DEF P
<1>3. Sound(dram.soc, P, memoryMap, hobs)
  BY <1>1, <1>2, TableSound
<1>4. \A i, j \in DOMAIN memoryMap :
        (i < j /\ Overlap(memoryMap[i], memoryMap[j]) /\ memoryMap[i].type # "basic")
          => memoryMap[i].attributes = memoryMap[j].attributes
  BY <1>1, <1>2, OverlapsAgree
<1> QED BY <1>3, <1>4 DEF MemorySound, Sound, P

\* For every memory the registers can describe: what the DXE core is told of it
\* exists, is no device, and leaves out what the firmware occupies.
THEOREM MemoryDescribed == Spec => []MemorySound
<1> QED BY MemoryInvInit, MemoryInvNext, MemoryInvSound, PTL DEF Spec

------------------------------------------------------------------------------
(* The register file in a boot: which of its bits a step can change.         *)

\* The registers that the entry points of the other drivers write.
DriversApart(W) ==
    MshcApart(W) /\ EmmcApart(W) /\ PmicApart(W) /\ GmacApart(W) /\ WiFiApart(W)

\* The steps that write one of the bits of W.
Writes(W) ==
    \/ MshcDxeInitialize /\ ~MshcApart(W)
    \/ EmmcDxeInitialize /\ ~EmmcApart(W)
    \/ SdMmcDriver /\ ~NotifyApart(W)
    \/ BoardInitPmic /\ ~PmicApart(W)
    \/ BoardInitUsb /\ ~UsbApart(W)
    \/ BoardInitGmac /\ ~GmacApart(W)
    \/ BoardInitWiFi /\ ~WiFiApart(W)
    \/ PciHostDriver /\ ~BridgeApart(W)
    \/ \E i \in Controllers : InitializeXhciController(i) /\ ~Dwc3Apart(W, i)

LEMMA BoardInitKeeps ==
  ASSUME NEW W, Shared(W), BoardInitDriver
  PROVE  Writes(W) \/ Keeps(W, regs, regs')
<1>1. CASE BoardInitPmic
  BY <1>1, PmicKeeps DEF Writes
<1>2. CASE BoardInitUsb
  BY <1>2, UsbStepKeeps DEF Writes, UsbApart
<1>3. CASE BoardInitGmac
  BY <1>3, GmacKeeps DEF Writes
<1>4. CASE BoardInitWiFi
  BY <1>4, WiFiKeeps DEF Writes
<1>5. CASE UNCHANGED regs
  BY <1>5, KeepsItself
<1>6. PmicCall \/ BoardInitSetCpuSpeed \/ BoardInitMac => UNCHANGED regs
  BY DEF PmicCall, BoardInitSetCpuSpeed, BoardInitMac
<1> QED BY <1>1, <1>2, <1>3, <1>4, <1>5, <1>6 DEF BoardInitDriver, BoardInitStep

LEMMA EntryPointsKeep ==
  ASSUME NEW W, Shared(W), RegisterDrivers \/ PciHostDriver
  PROVE  Writes(W) \/ Keeps(W, regs, regs')
<1>1. CASE MshcDxeInitialize
  BY <1>1, MshcKeeps DEF Writes
<1>2. CASE InitializeTsadc
  BY <1>2, TsadcKeeps
<1>3. CASE EmmcDxeInitialize
  BY <1>3, EmmcKeeps DEF Writes, EmmcApart
<1>4. CASE PciHostDriver
  <2>1. PciIsLinkUp \/ PciTimeout => UNCHANGED regs
    BY DEF PciIsLinkUp, PciTimeout
  <2> QED BY <1>4, <2>1, PowerUpKeeps, PortKeeps, KeepsItself
          DEF PciHostDriver, PciHostStep, Writes, BridgeApart
<1> QED BY <1>1, <1>2, <1>3, <1>4 DEF RegisterDrivers

LEMMA ClientsKeep ==
  ASSUME NEW W, Shared(W), Clients
  PROVE  Writes(W) \/ Keeps(W, regs, regs')
<1>1. SdMmcDriver => Writes(W) \/ Keeps(W, regs, regs')
  <2>1. SdMmcDriver => ~EmmcDxeInitialize
    BY DEF SdMmcDriver, Idle, EmmcDxeInitialize
  <2> QED BY <2>1, EmmcKeeps DEF SdMmcDriver, Writes
<1>2. RngClient \/ PciBusDriver => UNCHANGED regs
  BY DEF RngClient, PciBusDriver
<1>3. Reset => Keeps(W, regs, regs')
  <2>1. \A x \in W : x[1][1] # "PMU_GRF_OS_REG0"
    BY DEF Shared, SharedNames
  <2>2. BootModeFlag[1] = "PMU_GRF_OS_REG0"
    BY DEF BootModeFlag
  <2>3. Keeps(W, regs, MmioWrite(regs, BootModeFlag, MaskromFlag))
    BY <2>1, <2>2, NameKeeps
  <2>4. ASSUME Reset PROVE regs' \in {regs, MmioWrite(regs, BootModeFlag, MaskromFlag)}
    <3>1. ASSUME NEW t, ResetSystem(t)
          PROVE  regs' \in {regs, MmioWrite(regs, BootModeFlag, MaskromFlag)}
      BY <3>1 DEF ResetSystem, ResetCold, ResetWarm, ResetShutdown, ResetPlatformSpecific
    <3> QED BY <2>4, <3>1 DEF Reset, UefiMain
  <2> QED BY <2>3, <2>4, KeepsItself
<1>4. XhciDriver => Writes(W) \/ Keeps(W, regs, regs')
  <2>1. ASSUME NEW i, InitializeXhciController(i)
        PROVE  Dwc3Apart(W, i) => Keeps(W, regs, regs')
    BY <2>1, XhciStarted, KeepsItself DEF InitializeXhciController
  <2> QED BY <2>1 DEF XhciDriver, Writes
<1> QED BY <1>1, <1>2, <1>3, <1>4, KeepsItself DEF Clients

LEMMA StepKeeps ==
  ASSUME NEW W, Shared(W), [Next]_vars
  PROVE  Writes(W) \/ Keeps(W, regs, regs')
<1>1. PeiStep \/ StartDriver \/ DriverReturned \/ EndOfDispatch \/ UsbHcdDriver
        \/ TrngDriver \/ FdtDriver => UNCHANGED regs
  BY DEF PeiStep, StartDriver, DriverReturned, EndOfDispatch, OthersKept, UsbHcdDriver,
     InitializeUsbHcd, TrngDriver, FdtDriver
<1>2. EndOfDxe => Keeps(W, regs, regs')
  BY PhyEnableKeeps, KeepsItself DEF EndOfDxe, UsbEndOfDxeCallback
<1>3. Hw \/ Rest \/ UNCHANGED vars => UNCHANGED regs
  BY DEF Hw, BusHw, BoardInitHw, LinkHw, HwLinkUp, TrngHw, Rest, vars
<1> QED
  BY <1>1, <1>2, <1>3, BoardInitKeeps, EntryPointsKeep, ClientsKeep, KeepsItself DEF Next, Cpu

\* Bits of the combo PHYs, of resets and gates, and of pins' levels.
LEMMA PlainApart ==
  ASSUME NEW W, \A x \in W : x[1][1] \notin {"CLKSEL", "IOMUX", "P", "EMMC_DLL"},
         <<<<"SOFTRST", 13>>, 4>> \notin W, <<<<"SOFTRST", 14>>, 12>> \notin W,
         PinApart(W, 0, PB(7)), PinApart(W, 2, PB(1))
  PROVE  DriversApart(W) /\ NotifyApart(W)
<1>1. \A x \in W : x[1] # CLKSEL28 /\ x[1] # <<"CLKSEL", 33>>
  BY DEF CLKSEL28
<1>2. \A i : Disjoint(W, SdmmcBits(i))
  BY DEF Disjoint, SdmmcBits, CLKSEL30
<1>3. PmicApart(W) /\ \A t : TableApart(W, t)
  BY NamesApart
<1> QED BY <1>1, <1>2, <1>3
        DEF DriversApart, MshcApart, NotifyApart, EmmcApart, GmacApart, WiFiApart

------------------------------------------------------------------------------
(* Where a boot goes on.                                                     *)

\* The drivers' entry points that matter below.
Shown == {"PciHost", "Mshc", "Emmc"}

\* A step that is at none of these, or goes nowhere.
Elsewhere(points) ==
    /\ waiting' = waiting
    /\ pc' = pc \/ (pc[1] \notin points /\ pc'[1] \notin points)

LEMMA ElsewhereStep ==
  [Next]_vars => \/ StartDriver \/ Elsewhere(Shown)
                 \/ PciHostDriver
                 \/ RegisterDrivers /\ (MshcDxeInitialize \/ EmmcDxeInitialize)
<1>1. PeiStep \/ DriverReturned \/ EndOfDispatch \/ EndOfDxe => Elsewhere(Shown)
  <2>1. PeiStep => Elsewhere(Shown)
    BY DEF PeiStep, MemoryPeim, bootVars, Elsewhere, Shown
  <2>2. DriverReturned => Elsewhere(Shown)
    BY DEF DriverReturned, Elsewhere, Shown
  <2>3. EndOfDispatch \/ EndOfDxe => Elsewhere(Shown)
    BY DEF EndOfDispatch, EndOfDxe, bootVars, Elsewhere, Shown
  <2> QED BY <2>1, <2>2, <2>3
<1>2. BoardInitDriver => Elsewhere(Shown)
  BY BoardInitPc DEF BoardInitDriver, bootVars, Elsewhere, Shown
<1>3. UsbHcdDriver => Elsewhere(Shown)
  BY DEF UsbHcdDriver, InitializeUsbHcd, bootVars, Elsewhere, Shown
<1>4. InitializeTsadc /\ RegisterDrivers => Elsewhere(Shown)
  BY DEF InitializeTsadc, RegisterDrivers, bootVars, Elsewhere, Shown
<1>5. FdtDriver => Elsewhere(Shown)
  BY DEF FdtDriver, FdtStep, FdtRejected, FdtAllocate, FdtOpen, FdtInstall, FAt, bootVars,
     Elsewhere, Shown
<1>6. TrngDriver => Elsewhere(Shown)
  <2>1. TrngInit => pc[1] = "Trng" /\ pc'[1] = "DxeCore"
    BY DEF TrngInit, RngAt
  <2>2. TrngStart => pc[1] = "Trng" /\ pc'[1] = "Trng"
    BY DEF TrngStart, RngAt
  <2>3. TrngTimeout \/ TrngCopy => pc[1] = "Trng" /\ pc'[1] \in {"Trng", "Bds"}
    <3>1. TrngTimeout => RngAt("poll") /\ pc' = <<"Bds", "idle">>
      BY DEF TrngTimeout
    <3>2. TrngCopy => RngAt("poll") /\ pc' \in {<<"Bds", "idle">>, <<"Trng", "start">>}
      BY Zenon DEF TrngCopy
    <3> QED BY <3>1, <3>2 DEF RngAt
  <2> QED BY <2>1, <2>2, <2>3 DEF TrngDriver, TrngStep, bootVars, Elsewhere, Shown
<1>7. Clients => Elsewhere(Shown)
  <2>1. XhciDriver \/ SdMmcDriver \/ PciBusDriver => Elsewhere(Shown)
    BY DEF XhciDriver, SdMmcDriver, PciBusDriver, bootVars, Elsewhere, Shown
  <2>2. RngClient => Elsewhere(Shown)
    BY DEF RngClient, TrngGetRNG, Idle, bootVars, Elsewhere, Shown
  <2>3. Reset => pc' = pc \/ pc'[1] = "Rom"
    <3>1. ASSUME NEW t, ResetSystem(t) PROVE pc' = pc \/ pc'[1] = "Rom"
      BY <3>1 DEF ResetSystem, ResetWarm, ResetCold, ResetShutdown, ResetPlatformSpecific
    <3> QED BY <3>1 DEF Reset, UefiMain
  <2>4. Reset => Elsewhere(Shown)
    BY <2>3 DEF Reset, Idle, bootVars, Elsewhere, Shown
  <2> QED BY <2>1, <2>2, <2>4 DEF Clients
<1>8. Hw \/ Rest \/ UNCHANGED vars => Elsewhere(Shown)
  BY DEF Hw, BusHw, BoardInitHw, I2cHw, HwOtp, LinkHw, HwLinkUp, TrngHw, HwTrng, Rest, vars,
     bootVars, Elsewhere, Shown
<1> QED BY <1>1, <1>2, <1>3, <1>4, <1>5, <1>6, <1>7, <1>8
        DEF Next, Cpu, RegisterDrivers, PciHostDriver

------------------------------------------------------------------------------
(* A started USB controller.                                                 *)

CoreBits(i) == HeldBits(i) \cup HostBits(i)

LEMMA UsbBitNames ==
  \A x \in UsbBits : x[1][1] \in {"SOFTRST", "PIPE_GRF", "PMUCLKSEL", "PMUPLL", "DR"}
<1> TAKE x \in UsbBits
<1>1. CASE x \in PhyBits(0) \cup PhyBits(1)
  BY <1>1, PhyBitNames
<1>2. CASE x[1] = <<"DR", 0, 0>>
  BY <1>2
<1> QED BY <1>1, <1>2 DEF UsbBits

LEMMA CoreBitNames == \A i : \A x \in CoreBits(i) : x[1][1] = "DWC3"
  BY DEF CoreBits, HeldBits, HostBits, Dwc3

\* The bits of UsbBits that are in a reset register or one of a pin.
LEMMA UsbBitsIn ==
  /\ \A n, b : <<<<"SOFTRST", n>>, b>> \in UsbBits => n = 28 /\ b \in {SoftRstBit(0), SoftRstBit(1)}
  /\ \A g, h, b : <<<<"DR", g, h>>, b>> \in UsbBits => g = 0 /\ h = 0 /\ b \in {5, 6}
  /\ \A g, h, b : <<<<"DDR", g, h>>, b>> \notin UsbBits
<1>1. \A i, n, b : <<<<"SOFTRST", n>>, b>> \in PhyBits(i) => n = 28 /\ b = SoftRstBit(i)
  BY DEF PhyBits, ClockBits, Con, PMUCLKSEL9
<1>2. \A i, g, h, b : <<<<"DR", g, h>>, b>> \notin PhyBits(i)
  BY DEF PhyBits, ClockBits, Con, PMUCLKSEL9
<1>3. \A g, h, b : <<<<"DDR", g, h>>, b>> \notin UsbBits
  BY UsbBitNames
<1> QED BY <1>1, <1>2, <1>3 DEF UsbBits

LEMMA UsbBitsApart ==
  /\ Shared(UsbBits) /\ DriversApart(UsbBits) /\ BridgeApart(UsbBits)
  /\ NotifyApart(UsbBits) /\ \A i : Dwc3Apart(UsbBits, i)
<1>1. Shared(UsbBits)
  BY UsbBitNames DEF Shared, SharedNames
<1>2. /\ PB(7) \div 16 = 0 /\ PB(7) % 16 = 15 /\ 28 \div 16 = 1
  BY DEF PB
<1>3. /\ PinApart(UsbBits, 0, PB(7)) /\ PinApart(UsbBits, 2, PB(1))
      /\ PinApart(UsbBits, 0, 28) /\ PinApart(UsbBits, 2, 30)
  BY <1>2, UsbBitsIn DEF PinApart
<1>4. PhyApart(UsbBits, 2)
  <2>1. PhyApart(PhyBits(0), 2) /\ PhyApart(PhyBits(1), 2)
    BY PhysApart
  <2>2. \A x \in UsbBits : x[1][1] # "PIPE_PHY"
    BY UsbBitNames
  <2>3. \A n, b : /\ <<Con(2, n), b>> \in UsbBits => <<Con(2, n), b>> \in PhyBits(0) \cup PhyBits(1)
                  /\ <<<<"SOFTRST", n>>, b>> \in UsbBits =>
                       <<<<"SOFTRST", n>>, b>> \in PhyBits(0) \cup PhyBits(1)
                  /\ <<PMUCLKSEL9, b>> \in UsbBits => <<PMUCLKSEL9, b>> \in PhyBits(0) \cup PhyBits(1)
    BY DEF UsbBits, Con, PMUCLKSEL9
  <2> QED BY <2>1, <2>2, <2>3 DEF PhyApart
<1>5. \A g, b : <<<<"GATE", g>>, b>> \notin UsbBits
  BY UsbBitNames
<1>6. \A x \in UsbBits : x[1][1] # "PCIE_APB"
  BY UsbBitNames
<1>7. \A i : Dwc3Apart(UsbBits, i)
  BY UsbBitNames DEF Dwc3Apart, Dwc3
<1>8. DriversApart(UsbBits) /\ NotifyApart(UsbBits)
  BY <1>3, UsbBitNames, UsbBitsIn, PlainApart
<1>9. SlotApart(UsbBits)
  BY <1>3, <1>4, <1>5, UsbBitsIn DEF SlotApart
<1> QED BY <1>1, <1>3, <1>6, <1>7, <1>8, <1>9 DEF BridgeApart, PortApart

LEMMA CoreBitsApart ==
  ASSUME NEW i
  PROVE  /\ Shared(CoreBits(i)) /\ DriversApart(CoreBits(i)) /\ NotifyApart(CoreBits(i))
         /\ BridgeApart(CoreBits(i)) /\ UsbApart(CoreBits(i))
         /\ \A j : j # i => Dwc3Apart(CoreBits(i), j)
<1>1. Shared(CoreBits(i))
  BY CoreBitNames DEF Shared, SharedNames
<1>2. \A reg, b : reg[1] # "DWC3" => <<reg, b>> \notin CoreBits(i)
  BY CoreBitNames
<1>3. \A g, pin : PinApart(CoreBits(i), g, pin)
  BY <1>2 DEF PinApart
<1>4. \A n, b : /\ <<<<"SOFTRST", n>>, b>> \notin CoreBits(i)
                /\ <<<<"GATE", n>>, b>> \notin CoreBits(i)
  BY <1>2
<1>5. \A j : PhyApart(CoreBits(i), j)
  BY <1>2, <1>4, CoreBitNames DEF PhyApart, Con, PMUCLKSEL9
<1>6. \A x \in CoreBits(i) : x[1][1] # "PCIE_APB"
  BY CoreBitNames
<1>7. \A j : j # i => Dwc3Apart(CoreBits(i), j)
  BY DEF Dwc3Apart, Dwc3, CoreBits, HeldBits, HostBits
<1>8. DriversApart(CoreBits(i)) /\ NotifyApart(CoreBits(i))
  BY <1>3, <1>4, CoreBitNames, PlainApart
<1> QED BY <1>1, <1>3, <1>4, <1>5, <1>6, <1>7, <1>8 DEF BridgeApart, SlotApart, PortApart, UsbApart

LEMMA UsbBitsKept ==
  ASSUME [Next]_vars
  PROVE  BoardInitUsb \/ Keeps(UsbBits, regs, regs')
  BY StepKeeps, UsbBitsApart DEF Writes, DriversApart

LEMMA CoreBitsKept ==
  ASSUME [Next]_vars, NEW i
  PROVE  \/ Keeps(CoreBits(i), regs, regs')
         \/ InitializeXhciController(i)
  BY StepKeeps, CoreBitsApart DEF Writes, DriversApart

LEMMA CoreKept ==
  ASSUME NEW i, NEW r, NEW s, Keeps(CoreBits(i), r, s), XhciRuns(i, r)
  PROVE  XhciRuns(i, s)
  BY DEF Keeps, CoreBits, HostBits, XhciRuns

\* Board set-up before the ports' power and PHYs are.
BeforeUsb ==
    \/ "BoardInitDxe" \in waiting
    \/ pc[1] = "I2c"
    \/ pc[1] = "BoardInitDxe" /\ pc[2] \notin {"gmac", "mac", "wifi"}

\* The boot manager runs, or a client of the random number generator does.
Booted == pc[1] \in {"Bds", "Rom"} \/ pc \in {<<"Trng", "start">>, <<"Trng", "poll">>}

UsbInv ==
    /\ xhci \in [Controllers -> {"none", EFI_SUCCESS, "EFI_DEVICE_ERROR"}]
    /\ BeforeUsb \/ UsbSet(regs)
    /\ Booted => waiting = {}
    /\ \A i \in Controllers : xhci[i] = EFI_SUCCESS => Booted /\ XhciRuns(i, regs)

LEMMA UsbBegins ==
  OnceInv /\ I2cInv /\ [Next]_vars => (BeforeUsb => BeforeUsb' \/ BoardInitUsb)
<1> SUFFICES ASSUME OnceInv, I2cInv, [Next]_vars, BeforeUsb, ~BoardInitUsb PROVE BeforeUsb'
  OBVIOUS
<1>1. CASE Apart
  BY <1>1 DEF Apart, BeforeUsb
<1>2. CASE StartDriver
  BY <1>2, StartDriverPc DEF BeforeUsb, OnceInv
<1>3. CASE BusHw
  BY <1>3 DEF BusHw, BoardInitHw, I2cHw, HwOtp, bootVars, BeforeUsb
<1>4. CASE BoardInitDriver
  <2>1. waiting' = waiting
    BY <1>4 DEF BoardInitDriver, bootVars
  <2>2. CASE BoardInitPmic \/ BoardInitSetCpuSpeed
    BY <2>2 DEF BoardInitPmic, BoardInitSetCpuSpeed, BeforeUsb
  <2>3. CASE PmicCall
    BY <2>3 DEF PmicCall, CallI2c, Goto, BeforeUsb
  <2>4. CASE I2cStep
    <3>1. pc'[1] = "I2c" \/ pc' = <<"BoardInitDxe", i2cCall.ret>>
      BY <2>4 DEF I2cStep, I2cInit, I2cAck, I2cStart, WaitStart, I2cSend, WaitData, WaitStop,
         GiveUp, Return, Goto
    <3>2. i2cCall.ret \notin {"gmac", "mac", "wifi"}
      BY DEF I2cInv, Typed, Calls, Returns
    <3> QED BY <3>1, <3>2 DEF BeforeUsb
  <2>5. CASE OtpStep \/ BoardInitGmac \/ BoardInitMac \/ BoardInitWiFi
    <3>1. pc[1] = "Otp" \/ pc \in {<<"BoardInitDxe", "gmac">>, <<"BoardInitDxe", "mac">>,
                                   <<"BoardInitDxe", "wifi">>}
      BY <2>5 DEF OtpStep, OtpDisableEcc, OtpIssue, OtpDone, OtpTimeout, OtpCollect, OtpAt,
         BoardInitGmac, BoardInitMac, BoardInitWiFi, BAt
    <3>2. "BoardInitDxe" \in waiting
      BY <3>1 DEF BeforeUsb
    <3> QED BY <2>1, <3>2 DEF BeforeUsb
  <2> QED BY <1>4, <2>2, <2>3, <2>4, <2>5 DEF BoardInitDriver, BoardInitStep
<1> QED BY <1>1, <1>2, <1>3, <1>4, StepKinds

LEMMA BootEnds ==
  ASSUME OnceInv, [Next]_vars
  PROVE  /\ Booted => Booted' /\ waiting' = waiting
         /\ Booted' => waiting' = waiting /\ (Booted \/ waiting = {})
<1> DEFINE Stays == waiting' = waiting /\ (Booted' <=> Booted)
<1>1. PeiStep \/ DriverReturned => ~Booted /\ ~Booted'
  BY DEF PeiStep, MemoryPeim, DriverReturned, Booted
<1>2. StartDriver => ~Booted /\ ~Booted'
  <2>1. \A d \in Drivers : /\ d \notin {"Bds", "Rom"}
                          /\ <<d, "entry">> \notin {<<"Trng", "start">>, <<"Trng", "poll">>}
    BY DEF Drivers, DriverOrder
  <2> QED BY <2>1, StartDriverPc DEF Booted
<1>3. EndOfDispatch => ~Booted /\ waiting = {} /\ waiting' = waiting
  BY DEF EndOfDispatch, bootVars, Booted
<1>4. BoardInitDriver \/ PciHostDriver => ~Booted /\ ~Booted'
  BY BoardInitPc, PciHostPc DEF Booted
<1>5. UsbHcdDriver \/ RegisterDrivers => ~Booted /\ ~Booted'
  BY DEF UsbHcdDriver, InitializeUsbHcd, RegisterDrivers, MshcDxeInitialize, InitializeTsadc,
     EmmcDxeInitialize, Booted
<1>6. FdtDriver => ~Booted /\ ~Booted'
  BY DEF FdtDriver, FdtStep, FdtRejected, FdtAllocate, FdtOpen, FdtInstall, FAt, Booted
<1>7. TrngDriver => Stays \/ (~Booted /\ ~Booted')
  <2>1. TrngInit => ~Booted /\ ~Booted'
    BY DEF TrngInit, RngAt, Booted
  <2>2. TrngStart \/ TrngTimeout \/ TrngCopy => (Booted' <=> Booted)
    <3>1. TrngStart => RngAt("start") /\ pc' = <<"Trng", "poll">>
      BY DEF TrngStart
    <3>2. TrngTimeout => RngAt("poll") /\ pc' = <<"Bds", "idle">>
      BY DEF TrngTimeout
    <3>3. TrngCopy => RngAt("poll") /\ pc' \in {<<"Bds", "idle">>, <<"Trng", "start">>}
      BY Zenon DEF TrngCopy
    <3> QED BY <3>1, <3>2, <3>3 DEF RngAt, Booted
  <2> QED BY <2>1, <2>2 DEF TrngDriver, TrngStep, bootVars
<1>8. EndOfDxe => Stays
  BY DEF EndOfDxe, bootVars, Booted
<1>9. Clients => Stays
  <2>1. XhciDriver \/ SdMmcDriver \/ PciBusDriver => Stays
    BY DEF XhciDriver, SdMmcDriver, PciBusDriver, bootVars, Booted
  <2>2. RngClient => Stays
    BY DEF RngClient, TrngGetRNG, Idle, bootVars, Booted
  <2>3. Reset => pc' = pc \/ pc'[1] = "Rom"
    <3>1. ASSUME NEW t, ResetSystem(t) PROVE pc' = pc \/ pc'[1] = "Rom"
      BY <3>1 DEF ResetSystem, ResetWarm, ResetCold, ResetShutdown, ResetPlatformSpecific
    <3> QED BY <3>1 DEF Reset, UefiMain
  <2>4. Reset => Stays
    BY <2>3 DEF Reset, Idle, bootVars, Booted
  <2> QED BY <2>1, <2>2, <2>4 DEF Clients
<1>10. Hw \/ Rest \/ UNCHANGED vars => Stays
  BY DEF Hw, BusHw, BoardInitHw, I2cHw, HwOtp, LinkHw, HwLinkUp, TrngHw, HwTrng, Rest, vars,
     bootVars, Booted
<1> QED
  BY <1>1, <1>2, <1>3, <1>4, <1>5, <1>6, <1>7, <1>8, <1>9, <1>10 DEF Next, Cpu

LEMMA UsbInvInit == Init => UsbInv
<1> SUFFICES ASSUME Init PROVE UsbInv
  OBVIOUS
<1>1. xhci = [i \in Controllers |-> "none"]
  BY DEF Init, UsbInitial
<1>2. "BoardInitDxe" \in waiting
  <2>1. DriverOrder[1] = "BoardInitDxe" /\ 1 \in DOMAIN DriverOrder
    BY DEF DriverOrder
  <2> QED BY <2>1 DEF Init, Volumes, NotInVolume, Drivers
<1>3. ~Booted
  BY DEF Init, Booted
<1> QED BY <1>1, <1>2, <1>3 DEF UsbInv, BeforeUsb, EFI_SUCCESS

LEMMA XhciChanges ==
  [Next]_vars => xhci' = xhci \/ (Booted /\ \E i \in Controllers : InitializeXhciController(i))
<1>1. Cpu => xhci' = xhci
  BY DEF Cpu, PeiStep, StartDriver, DriverReturned, EndOfDispatch, OthersKept, BoardInitDriver,
     PciHostDriver, UsbHcdDriver, InitializeUsbHcd, RegisterDrivers, TrngDriver, FdtDriver,
     EndOfDxe, UsbEndOfDxeCallback, usbVars
<1>2. SdMmcDriver \/ RngClient \/ PciBusDriver \/ Reset => xhci' = xhci
  BY DEF SdMmcDriver, RngClient, PciBusDriver, Reset, usbVars
<1>3. XhciDriver => Booted /\ \E i \in Controllers : InitializeXhciController(i)
  BY DEF XhciDriver, Idle, Booted
<1>4. Hw \/ Rest \/ UNCHANGED vars => xhci' = xhci
  BY DEF Hw, BusHw, LinkHw, TrngHw, Rest, vars, usbVars
<1> QED BY <1>1, <1>2, <1>3, <1>4 DEF Next, Clients

LEMMA UsbInvNext == OnceInv /\ I2cInv /\ UsbInv /\ [Next]_vars => UsbInv'
<1> SUFFICES ASSUME OnceInv, I2cInv, UsbInv, [Next]_vars PROVE UsbInv'
  OBVIOUS
<1>1. xhci' \in [Controllers -> {"none", EFI_SUCCESS, "EFI_DEVICE_ERROR"}]
  BY XhciChanges DEF InitializeXhciController, UsbInv
<1>2. BeforeUsb' \/ UsbSet(regs')
  BY UsbBegins, UsbStepSets, UsbBitsKept, UsbSetKept DEF UsbInv
<1>3. Booted' => waiting' = {}
  BY BootEnds DEF UsbInv
<1>4. ASSUME NEW i \in Controllers, xhci'[i] = EFI_SUCCESS
      PROVE  Booted' /\ XhciRuns(i, regs')
  <2>1. CASE InitializeXhciController(i) /\ Booted
    <3>1. IsDwc3(regs, i)
      BY <1>4, <2>1 DEF InitializeXhciController, UsbInv, EFI_SUCCESS
    <3>2. XhciRuns(i, regs')
      BY <2>1, <3>1, XhciStarted DEF InitializeXhciController
    <3> QED BY <2>1, <3>2, BootEnds
  <2>2. CASE xhci'[i] = xhci[i]
    <3>1. Booted /\ XhciRuns(i, regs)
      BY <1>4, <2>2 DEF UsbInv
    <3>2. CASE InitializeXhciController(i)
      BY <2>1, <3>1, <3>2
    <3>3. CASE Keeps(CoreBits(i), regs, regs')
      BY <3>1, <3>3, CoreKept, BootEnds
    <3> QED BY <3>2, <3>3, CoreBitsKept
  <2>3. CASE ~InitializeXhciController(i)
    <3>1. \A j \in Controllers : j # i /\ InitializeXhciController(j) => xhci'[i] = xhci[i]
      BY DEF InitializeXhciController, UsbInv
    <3> QED BY <2>2, <2>3, <3>1, XhciChanges
  <2> QED BY <2>1, <2>2, <2>3, XhciChanges
<1> QED BY <1>1, <1>2, <1>3, <1>4 DEF UsbInv

LEMMA UsbInvReady == UsbInv => XhciReady
<1> SUFFICES ASSUME UsbInv, NEW i \in Controllers, xhci[i] = EFI_SUCCESS
             PROVE  /\ Field(regs, Dwc3(i, "GCtl"), 11, 13) = 2
                    /\ <<Dwc3(i, "GUsb2PhyCfg"), 31>> \notin regs
                    /\ <<Dwc3(i, "GUsb3PipeCtl"), 31>> \notin regs
                    /\ PhyServes(regs, i, "USB3")
                    /\ GpioPinRead(regs, 0, PA(5)) /\ GpioPinRead(regs, 0, PA(6))
  BY DEF XhciReady
<1>1. Booted /\ XhciRuns(i, regs) /\ waiting = {}
  BY DEF UsbInv
<1>2. UsbSet(regs)
  BY <1>1 DEF UsbInv, BeforeUsb, Booted
<1>3. i = 0 \/ i = 1
  BY DEF Controllers
<1> QED BY <1>1, <1>2, <1>3, RunningCore DEF UsbSet

\* In every boot of a Rock 3A, in any order of the drivers, a USB controller
\* that the XHCI driver has started can drive its port (UsbHcd.c:64-223 on what
\* BoardInitDxe.c:455-463 and MultiPhyLib.c:125-226 set up before).
THEOREM UsbReady == Spec => []XhciReady
<1>1. Spec => []I2cInv
  BY BoardUsesI2c, I2cInvariance, PTL
<1> QED BY <1>1, SetUpOnce, UsbInvInit, UsbInvNext, UsbInvReady, PTL DEF Spec

------------------------------------------------------------------------------
(* The slot, its link and the root port.                                     *)

LinkPins == {<<<<"DDR", 0, 1>>, 12>>, <<<<"DR", 0, 1>>, 12>>,
             <<<<"DDR", 2, 1>>, 14>>, <<<<"DR", 2, 1>>, 14>>}

\* What the link needs, and the root port's mode and training enable.
LinkBits == PhyBits(2) \cup ({<<"GATE", 12>>, <<"GATE", 13>>} \X (0..5))
              \cup {<<<<"SOFTRST", 10>>, 1>>} \cup LinkPins

ModeBits == {GENERAL_CON} \X {2, 4, 5, 6, 7}

LinkSet(r) ==
    /\ PhyServes(r, 2, "PCIE") /\ PcieClocked(r)
    /\ High(r, PCIE_POWER_GPIO_BANK, PCIE_POWER_GPIO_PIN)
    /\ High(r, PCIE_RESET_GPIO_BANK, PCIE_RESET_GPIO_PIN)

SlotBits == LinkBits \cup ModeBits

LEMMA LinkSetKept ==
  ASSUME NEW r, NEW s, Keeps(LinkBits, r, s), LinkSet(r)
  PROVE  LinkSet(s)
<1>1. PhyServes(s, 2, "PCIE")
  <2>1. Keeps(PhyBits(2), r, s)
    BY DEF Keeps, LinkBits
  <2> QED BY <2>1, PhyServesKept DEF LinkSet
<1>2. PcieClocked(s)
  <2>1. \A g \in {12, 13}, b \in 0..5 : <<<<"GATE", g>>, b>> \in LinkBits
    BY DEF LinkBits
  <2>2. <<<<"SOFTRST", 10>>, 1>> \in LinkBits
    BY DEF LinkBits
  <2> QED BY <2>1, <2>2 DEF Keeps, LinkSet, PcieClocked, InReset
<1>3. 28 \div 16 = 1 /\ 28 % 16 = 12 /\ 30 \div 16 = 1 /\ 30 % 16 = 14
  OBVIOUS
<1>4. \A x \in LinkPins : x \in r <=> x \in s
  BY DEF Keeps, LinkBits
<1>5. /\ High(s, PCIE_POWER_GPIO_BANK, PCIE_POWER_GPIO_PIN)
      /\ High(s, PCIE_RESET_GPIO_BANK, PCIE_RESET_GPIO_PIN)
  BY <1>3, <1>4 DEF LinkSet, High, LinkPins, PCIE_POWER_GPIO_BANK, PCIE_POWER_GPIO_PIN,
     PCIE_RESET_GPIO_BANK, PCIE_RESET_GPIO_PIN
<1> QED BY <1>1, <1>2, <1>5 DEF LinkSet

LEMMA SlotBitNames ==
  \A x \in SlotBits : x[1][1] \in {"SOFTRST", "PIPE_GRF", "PMUCLKSEL", "PMUPLL", "GATE",
                                   "DR", "DDR", "PCIE_APB"}
<1> TAKE x \in SlotBits
<1>1. CASE x \in PhyBits(2)
  BY <1>1, PhyBitNames
<1>2. CASE x \in {<<"GATE", 12>>, <<"GATE", 13>>} \X (0..5)
  BY <1>2
<1>3. CASE x \in LinkPins \cup {<<<<"SOFTRST", 10>>, 1>>}
  BY <1>3 DEF LinkPins
<1>4. CASE x \in ModeBits
  BY <1>4 DEF ModeBits, GENERAL_CON
<1> QED BY <1>1, <1>2, <1>3, <1>4 DEF SlotBits, LinkBits

LEMMA SlotBitsIn ==
  /\ \A n, b : <<<<"SOFTRST", n>>, b>> \in SlotBits =>
                 (n = 28 /\ b = SoftRstBit(2)) \/ (n = 10 /\ b = 1)
  /\ \A g, h, b : <<<<"DR", g, h>>, b>> \in SlotBits \/ <<<<"DDR", g, h>>, b>> \in SlotBits =>
                    (g = 0 /\ h = 1 /\ b = 12) \/ (g = 2 /\ h = 1 /\ b = 14)
  /\ \A i, n, b : <<Con(i, n), b>> \in SlotBits => <<Con(i, n), b>> \in PhyBits(2)
  /\ \A b : <<PMUCLKSEL9, b>> \in SlotBits => <<PMUCLKSEL9, b>> \in PhyBits(2)
<1>1. \A n, b : <<<<"SOFTRST", n>>, b>> \in PhyBits(2) => n = 28 /\ b = SoftRstBit(2)
  BY DEF PhyBits, ClockBits, Con, PMUCLKSEL9
<1>2. \A g, h, b : /\ <<<<"DR", g, h>>, b>> \notin PhyBits(2)
                   /\ <<<<"DDR", g, h>>, b>> \notin PhyBits(2)
  BY DEF PhyBits, ClockBits, Con, PMUCLKSEL9
<1>3. \A n, b : <<<<"SOFTRST", n>>, b>> \in SlotBits =>
                  (n = 28 /\ b = SoftRstBit(2)) \/ (n = 10 /\ b = 1)
  BY <1>1 DEF SlotBits, LinkBits, LinkPins, ModeBits, GENERAL_CON
<1>4. \A g, h, b : <<<<"DR", g, h>>, b>> \in SlotBits \/ <<<<"DDR", g, h>>, b>> \in SlotBits =>
                     (g = 0 /\ h = 1 /\ b = 12) \/ (g = 2 /\ h = 1 /\ b = 14)
  BY <1>2 DEF SlotBits, LinkBits, LinkPins, ModeBits, GENERAL_CON
<1>5. \A i, n, b : <<Con(i, n), b>> \in SlotBits => <<Con(i, n), b>> \in PhyBits(2)
  BY DEF SlotBits, LinkBits, LinkPins, ModeBits, GENERAL_CON, Con
<1>6. \A b : <<PMUCLKSEL9, b>> \in SlotBits => <<PMUCLKSEL9, b>> \in PhyBits(2)
  BY DEF SlotBits, LinkBits, LinkPins, ModeBits, GENERAL_CON, PMUCLKSEL9
<1> QED BY <1>3, <1>4, <1>5, <1>6

LEMMA SlotBitsApart ==
  /\ Shared(SlotBits) /\ DriversApart(SlotBits) /\ NotifyApart(SlotBits)
  /\ UsbApart(SlotBits) /\ \A i : Dwc3Apart(SlotBits, i)
<1>1. Shared(SlotBits)
  BY SlotBitNames DEF Shared, SharedNames
<1>2. /\ PB(7) \div 16 = 0 /\ PB(1) \div 16 = 0
      /\ PA(5) \div 16 = 0 /\ PA(6) \div 16 = 0
  BY DEF PA, PB
<1>3. /\ PinApart(SlotBits, 0, PB(7)) /\ PinApart(SlotBits, 2, PB(1))
      /\ PinApart(SlotBits, 0, PA(5)) /\ PinApart(SlotBits, 0, PA(6))
  BY <1>2, SlotBitsIn DEF PinApart
<1>4. DriversApart(SlotBits) /\ NotifyApart(SlotBits)
  BY <1>3, SlotBitNames, SlotBitsIn, PlainApart
<1>5. ASSUME NEW i \in {0, 1} PROVE PhyApart(SlotBits, i)
  <2>1. PhyApart(PhyBits(2), i)
    BY PhysApart
  <2>2. \A x \in SlotBits : x[1][1] # "PIPE_PHY"
    BY SlotBitNames
  <2>3. <<<<"SOFTRST", 28>>, SoftRstBit(i)>> \notin SlotBits
    <3>1. SoftRstBit(i) # SoftRstBit(2)
      BY DEF SoftRstBit
    <3> QED BY <3>1, SlotBitsIn
  <2> QED BY <2>1, <2>2, <2>3, SlotBitsIn DEF PhyApart
<1>6. \A i : Dwc3Apart(SlotBits, i)
  BY SlotBitNames DEF Dwc3Apart, Dwc3
<1> QED BY <1>1, <1>3, <1>4, <1>5, <1>6 DEF UsbApart

\* Only the host bridge's own steps change what its link depends on.
LEMMA SlotBitsKept ==
  ASSUME [Next]_vars
  PROVE  PciHostDriver \/ Keeps(SlotBits, regs, regs')
  BY StepKeeps, SlotBitsApart DEF Writes, DriversApart

\* What the steps of the bridge itself do to the root port's mode.
LEMMA ModeSet ==
  /\ PciPowerUp \/ PciReset \/ PciWindows => Keeps(ModeBits, regs, regs')
  /\ PciSetup => /\ OnlyBit(regs', GENERAL_CON, 4, 7, 6)
                 /\ <<GENERAL_CON, 2>> \in regs' <=> <<GENERAL_CON, 2>> \in regs
  /\ PciStartLink => Keeps({GENERAL_CON} \X (4..7), regs, regs')
<1>1. \A x \in ModeBits : x[1][1] = "PCIE_APB"
  BY DEF ModeBits, GENERAL_CON
<1>2. Shared(ModeBits) /\ \A g, pin : PinApart(ModeBits, g, pin)
  BY <1>1 DEF Shared, SharedNames, PinApart
<1>3. SlotApart(ModeBits)
  <2>1. PhyApart(ModeBits, 2)
    BY <1>1 DEF PhyApart, Con, PMUCLKSEL9
  <2> QED BY <1>1, <1>2, <2>1 DEF SlotApart
<1>4. PciPowerUp => Keeps(ModeBits, regs, regs')
  BY <1>2, <1>3, PowerUpKeeps
<1>5. PciReset \/ PciWindows => Keeps(ModeBits, regs, regs')
  <2>1. /\ Keeps(ModeBits, regs, Output(regs, 2, 30, 0))
        /\ Keeps(ModeBits, regs, GpioPinWrite(regs, 2, 30, 1))
    BY <1>2, PinOutput
  <2> QED BY <2>1 DEF PciReset, PciWindows, PCIE_RESET_GPIO_BANK, PCIE_RESET_GPIO_PIN
<1>6. ASSUME PciSetup
      PROVE  /\ OnlyBit(regs', GENERAL_CON, 4, 7, 6)
             /\ <<GENERAL_CON, 2>> \in regs' <=> <<GENERAL_CON, 2>> \in regs
  <2> DEFINE a == MmioAndThenOr(regs, <<"PCIE_APB", "HOT_RESET_CTRL">>, {}, {4})
  <2>1. regs' = HiwordWrite(a, GENERAL_CON, 4..7, {6})
    BY <1>6 DEF PciSetup, PciSetRcMode
  <2>2. <<GENERAL_CON, 2>> \in a <=> <<GENERAL_CON, 2>> \in regs
    BY DEF MmioAndThenOr, GENERAL_CON
  <2> HIDE DEF a
  <2>3. \A k \in 4..7 : <<GENERAL_CON, k>> \in regs' <=> k = 6
    BY <2>1, HiwordBits
  <2>4. <<GENERAL_CON, 2>> \in regs' <=> <<GENERAL_CON, 2>> \in a
    BY <2>1 DEF HiwordWrite
  <2> QED BY <2>2, <2>3, <2>4 DEF OnlyBit
<1>7. ASSUME PciStartLink PROVE Keeps({GENERAL_CON} \X (4..7), regs, regs')
  <2> DEFINE W == {GENERAL_CON} \X (4..7)
             a == PciEnableLtssm(regs, FALSE)
             b == MmioWrite(a, <<"PCIE_APB", "DEBUG_INFO">>, {})
  <2>1. /\ \A x \in W : x[1] # <<"PCIE_APB", "DEBUG_INFO">>
        /\ \A k \in {2, 3} : <<GENERAL_CON, k>> \notin W
    BY DEF GENERAL_CON
  <2>2. regs' = PciEnableLtssm(b, TRUE)
    BY <1>7 DEF PciStartLink
  <2> HIDE DEF W
  <2>3. Keeps(W, regs, a)
    BY <2>1, HiwordKeeps DEF PciEnableLtssm
  <2> HIDE DEF a
  <2>4. Keeps(W, a, b)
    BY <2>1, WriteKeeps
  <2> HIDE DEF b
  <2>5. Keeps(W, b, regs')
    BY <2>1, <2>2, HiwordKeeps DEF PciEnableLtssm
  <2>6. Keeps(W, regs, regs')
    BY <2>3, <2>4, <2>5, KeepsChain
  <2> QED BY <2>6 DEF W
<1> QED BY <1>4, <1>5, <1>6, <1>7

------------------------------------------------------------------------------
\* A step of anything but the host bridge library.
PciElsewhere == Elsewhere({"PciHost"})

LEMMA PciElsewhereStep ==
  [Next]_vars => PciHostDriver \/ StartDriver \/ PciElsewhere
<1>1. MshcDxeInitialize \/ EmmcDxeInitialize => pc[1] # "PciHost" /\ pc'[1] # "PciHost"
  BY DEF MshcDxeInitialize, EmmcDxeInitialize
<1> QED BY <1>1, ElsewhereStep DEF RegisterDrivers, bootVars, PciElsewhere, Elsewhere, Shown

\* What a step that is not the library's does to the bridge.
PciOthers ==
    \/ UNCHANGED hostVars
    \/ LinkHw
    \/ bridge = "exposed" /\ PciBusStep /\ UNCHANGED bridge

LEMMA PciOthersStep == [Next]_vars => PciHostDriver \/ PciOthers
<1>1. PeiStep \/ StartDriver \/ DriverReturned \/ EndOfDispatch => UNCHANGED hostVars
  BY DEF PeiStep, StartDriver, DriverReturned, EndOfDispatch, OthersKept
<1>2. BoardInitDriver \/ UsbHcdDriver \/ RegisterDrivers => UNCHANGED hostVars
  BY DEF BoardInitDriver, UsbHcdDriver, RegisterDrivers
<1>3. TrngDriver \/ FdtDriver \/ EndOfDxe => UNCHANGED hostVars
  BY DEF TrngDriver, FdtDriver, EndOfDxe
<1>4. XhciDriver \/ SdMmcDriver \/ RngClient \/ Reset => UNCHANGED hostVars
  BY DEF XhciDriver, SdMmcDriver, RngClient, Reset
<1>5. PciBusDriver => PciOthers
  BY DEF PciBusDriver, PciOthers
<1>6. BusHw \/ TrngHw \/ Rest \/ UNCHANGED vars => UNCHANGED hostVars
  BY DEF BusHw, TrngHw, Rest, vars
<1> QED BY <1>1, <1>2, <1>3, <1>4, <1>5, <1>6 DEF Next, Cpu, Clients, Hw, PciOthers

------------------------------------------------------------------------------
\* The library has not been called, or is at one of these points.
Ahead(points) == "PciHost" \in waiting \/ \E p \in points : PAt(p)

BeforeSetup   == Ahead({"entry", "setup"})
BeforeWindows == Ahead({"entry", "setup", "perst", "windows"})
BeforeLink    == Ahead({"entry", "setup", "perst", "windows", "ltssm"})

PciInv ==
    /\ pc[1] = "PciHost" => "PciHost" \notin waiting
    /\ bridge = "exposed" => link = "up" /\ pc[1] # "PciHost"
    /\ Blank(cfg) /\ ~Unlocked(cfg)
    /\ BeforeSetup \/ (CfgSet(cfg) /\ OnlyBit(regs, GENERAL_CON, 4, 7, 6))
    /\ BeforeWindows \/ atu = Outbound
    /\ link = "up" \/ <<GENERAL_CON, 2>> \in regs => ~BeforeLink
    /\ link = "up" => LinkSet(regs)

LEMMA Order ==
  /\ BeforeSetup => BeforeWindows
  /\ BeforeWindows => BeforeLink
  BY DEF BeforeSetup, BeforeWindows, BeforeLink, Ahead

\* Only the library's own steps move it on.
LEMMA AheadKept ==
  ASSUME [Next]_vars, ~PciHostDriver, OnceInv
  PROVE  /\ BeforeSetup' <=> BeforeSetup
         /\ BeforeWindows' <=> BeforeWindows
         /\ BeforeLink' <=> BeforeLink
         /\ (pc[1] = "PciHost" => "PciHost" \notin waiting)
              => (pc'[1] = "PciHost" => "PciHost" \notin waiting')
<1>1. ASSUME NEW points, "entry" \in points
      PROVE  Ahead(points)' <=> Ahead(points)
  <2>1. CASE PciElsewhere
    BY <2>1 DEF PciElsewhere, Elsewhere, Ahead, PAt
  <2>2. CASE StartDriver
    BY <1>1, <2>2, StartDriverPc DEF Ahead, PAt
  <2> QED BY <2>1, <2>2, PciElsewhereStep
<1>2. (pc[1] = "PciHost" => "PciHost" \notin waiting)
        => (pc'[1] = "PciHost" => "PciHost" \notin waiting')
  <2>1. CASE PciElsewhere
    BY <2>1 DEF PciElsewhere, Elsewhere
  <2>2. CASE StartDriver
    BY <2>2, StartDriverPc
  <2> QED BY <2>1, <2>2, PciElsewhereStep
<1> QED BY <1>1, <1>2 DEF BeforeSetup, BeforeWindows, BeforeLink

LEMMA PciInvInit == Init => PciInv
<1> SUFFICES ASSUME Init PROVE PciInv
  OBVIOUS
<1>1. "PciHost" \in waiting
  <2>1. DriverOrder[3] = "PciHost" /\ 3 \in DOMAIN DriverOrder
    BY DEF DriverOrder
  <2> QED BY <2>1 DEF Init, Volumes, NotInVolume, Drivers
<1>2. Blank(cfg) /\ ~Unlocked(cfg) /\ link = "down"
  BY DEF Init, SegInitial, Blank, BlankBits, Unlocked
<1>3. <<GENERAL_CON, 2>> \notin regs
  <2>1. \A x \in ResetRegs : x[1][1] # "PCIE_APB"
    BY DEF ResetRegs, PpllBits, Dwc3Initial, Dwc3, HCON, Con
  <2>2. \A phy \in PhyClocks : \A x \in phy : x[1][1] # "PCIE_APB"
    BY DEF PhyClocks, PMUCLKSEL9
  <2>3. PICK phy \in PhyClocks : regs = ResetRegs \cup phy
    BY DEF Init
  <2>4. \A x \in regs : x[1][1] # "PCIE_APB"
    BY <2>1, <2>2, <2>3
  <2> QED BY <2>4 DEF GENERAL_CON
<1>4. pc[1] # "PciHost" /\ bridge = "none"
  BY DEF Init
<1> QED BY <1>1, <1>2, <1>3, <1>4 DEF PciInv, BeforeSetup, BeforeWindows, BeforeLink, Ahead

LEMMA PciInvOthers == OnceInv /\ PciInv /\ [Next]_vars /\ ~PciHostDriver => PciInv'
<1> SUFFICES ASSUME OnceInv, PciInv, [Next]_vars, ~PciHostDriver PROVE PciInv'
  OBVIOUS
<1>1. Keeps(LinkBits, regs, regs') /\ Keeps(ModeBits, regs, regs')
  BY SlotBitsKept DEF Keeps, SlotBits
<1>2. OnlyBit(regs, GENERAL_CON, 4, 7, 6) => OnlyBit(regs', GENERAL_CON, 4, 7, 6)
  <2>1. \A k \in 4..7 : <<GENERAL_CON, k>> \in ModeBits
    BY DEF ModeBits
  <2> QED BY <1>1, <2>1 DEF Keeps, OnlyBit
<1>3. <<GENERAL_CON, 2>> \in regs' <=> <<GENERAL_CON, 2>> \in regs
  BY <1>1 DEF Keeps, ModeBits
<1>4. LinkSet(regs) => LinkSet(regs')
  BY <1>1, LinkSetKept
<1>5. /\ Blank(cfg') /\ ~Unlocked(cfg') /\ (CfgSet(cfg) => CfgSet(cfg'))
      /\ atu' = atu /\ bridge' = bridge
      /\ link' = link \/ LinkHw
  <2>1. CASE UNCHANGED hostVars
    BY <2>1 DEF hostVars, PciInv
  <2>2. CASE LinkHw
    BY <2>2 DEF LinkHw, HwLinkUp, PciInv
  <2>3. CASE PciBusStep /\ UNCHANGED bridge
    BY <2>3, BusStepHolds, CfgKept DEF PciInv
  <2> QED BY <2>1, <2>2, <2>3, PciOthersStep DEF PciOthers
<1>6. LinkHw => /\ link = "down" /\ <<GENERAL_CON, 2>> \in regs /\ LinkSet(regs)
                /\ link' = "up" /\ pc' = pc
  BY DEF LinkHw, HwLinkUp, LinkSet
<1>7. bridge' = "exposed" => link' = "up" /\ pc'[1] # "PciHost"
  <2>1. CASE StartDriver
    <3>1. link' = link
      BY <2>1 DEF StartDriver, OthersKept, hostVars
    <3>2. ~BeforeLink \/ bridge # "exposed"
      BY DEF PciInv
    <3>3. bridge = "exposed" => "PciHost" \notin waiting
      BY <3>2 DEF BeforeLink, Ahead
    <3> QED BY <1>5, <2>1, <3>1, <3>3, StartDriverPc DEF PciInv
  <2>2. CASE PciElsewhere
    BY <1>5, <1>6, <2>2 DEF PciElsewhere, Elsewhere, PciInv
  <2> QED BY <2>1, <2>2, PciElsewhereStep
<1> QED BY <1>2, <1>3, <1>4, <1>5, <1>6, <1>7, AheadKept DEF PciInv

\* Where a step of the library is, and where it goes.
LEMMA SlotPoints ==
  ASSUME "PciHost" \notin waiting, waiting' = waiting
  PROVE  /\ \A p : PAt(p) =>
              /\ BeforeSetup <=> p \in {"entry", "setup"}
              /\ BeforeWindows <=> p \in {"entry", "setup", "perst", "windows"}
              /\ BeforeLink <=> p \in {"entry", "setup", "perst", "windows", "ltssm"}
         /\ \A p : PGoto(p) =>
              /\ BeforeSetup' <=> p \in {"entry", "setup"}
              /\ BeforeWindows' <=> p \in {"entry", "setup", "perst", "windows"}
              /\ BeforeLink' <=> p \in {"entry", "setup", "perst", "windows", "ltssm"}
              /\ pc'[1] = "PciHost"
         /\ pc'[1] # "PciHost" => ~BeforeSetup' /\ ~BeforeWindows' /\ ~BeforeLink'
  BY DEF BeforeSetup, BeforeWindows, BeforeLink, Ahead, PAt, PGoto

\* A step of the library, from each of its points.
LEMMA PciInvDriver == PciInv /\ PciHostDriver => PciInv'
<1> SUFFICES ASSUME PciInv, PciHostDriver PROVE PciInv'
  OBVIOUS
<1>0. waiting' = waiting /\ pc[1] = "PciHost" /\ "PciHost" \notin waiting /\ bridge # "exposed"
  BY PciHostPc DEF PciHostDriver, bootVars, PciInv
<1>1. CASE PciPowerUp
  <2>1. PAt("entry") /\ PGoto("setup") /\ UNCHANGED hostVars
    BY <1>1 DEF PciPowerUp
  <2>2. <<GENERAL_CON, 2>> \in regs' <=> <<GENERAL_CON, 2>> \in regs
    BY <1>1, ModeSet DEF Keeps, ModeBits
  <2> QED BY <1>0, <2>1, <2>2, SlotPoints DEF PciInv, hostVars
<1>2. CASE PciSetup
  <2>1. PAt("setup") /\ PGoto("perst") /\ UNCHANGED <<link, atu, bridge>>
        /\ cfg' = PciSetupLinkSpeed(PciSetupBars(cfg), PCIE_LINK_SPEED)
    BY <1>2 DEF PciSetup
  <2>2. CfgSet(cfg') /\ ~Unlocked(cfg') /\ Blank(cfg')
    BY <2>1, SetUpDone DEF PciInv
  <2>3. /\ OnlyBit(regs', GENERAL_CON, 4, 7, 6)
        /\ <<GENERAL_CON, 2>> \in regs' <=> <<GENERAL_CON, 2>> \in regs
    BY <1>2, ModeSet
  <2> QED BY <1>0, <2>1, <2>2, <2>3, SlotPoints DEF PciInv
<1>3. CASE PciReset \/ PciWindows
  <2>1. /\ PAt("perst") \/ PAt("windows")
        /\ PGoto("windows") \/ (PGoto("ltssm") /\ atu' = Outbound)
        /\ UNCHANGED <<link, cfg, bridge>>
    <3>1. PciReset => PAt("perst") /\ PGoto("windows") /\ UNCHANGED hostVars
      BY DEF PciReset
    <3>2. PciWindows => /\ PAt("windows") /\ PGoto("ltssm") /\ atu' = Outbound
                        /\ UNCHANGED <<link, cfg, bridge>>
      BY DEF PciWindows
    <3> QED BY <1>3, <3>1, <3>2 DEF hostVars
  <2>2. \A k \in {2, 4, 5, 6, 7} : <<GENERAL_CON, k>> \in regs' <=> <<GENERAL_CON, k>> \in regs
    BY <1>3, ModeSet DEF Keeps, ModeBits
  <2>3. OnlyBit(regs, GENERAL_CON, 4, 7, 6) => OnlyBit(regs', GENERAL_CON, 4, 7, 6)
    BY <2>2 DEF OnlyBit
  <2> QED BY <1>0, <2>1, <2>2, <2>3, SlotPoints DEF PciInv
<1>4. CASE PciStartLink
  <2>1. PAt("ltssm") /\ PGoto("wait") /\ UNCHANGED hostVars
    BY <1>4 DEF PciStartLink
  <2>2. OnlyBit(regs, GENERAL_CON, 4, 7, 6) => OnlyBit(regs', GENERAL_CON, 4, 7, 6)
    BY <1>4, ModeSet DEF Keeps, OnlyBit
  <2> QED BY <1>0, <2>1, <2>2, SlotPoints DEF PciInv, hostVars
<1>5. CASE PciIsLinkUp \/ PciTimeout
  <2>1. /\ PAt("wait") /\ pc'[1] # "PciHost" /\ UNCHANGED <<regs, link, atu, cfg>>
        /\ bridge' = "exposed" => link = "up"
    BY <1>5 DEF PciIsLinkUp, PciTimeout, segVars
  <2> QED BY <1>0, <2>1, SlotPoints DEF PciInv
<1> QED BY <1>1, <1>2, <1>3, <1>4, <1>5 DEF PciHostDriver, PciHostStep

LEMMA PciInvNext == OnceInv /\ PciInv /\ [Next]_vars => PciInv'
  BY PciInvOthers, PciInvDriver

LEMMA PciInvReady == PciInv => BridgeReady
<1> SUFFICES ASSUME PciInv, bridge = "exposed" PROVE BridgeReady
  BY DEF BridgeReady
<1>1. link = "up" /\ LinkSet(regs) /\ ~BeforeLink /\ atu = Outbound /\ Blank(cfg)
      /\ CfgSet(cfg) /\ OnlyBit(regs, GENERAL_CON, 4, 7, 6) /\ ~Unlocked(cfg)
  BY Order DEF PciInv
<1>2. Field(regs, GENERAL_CON, 4, 7) = 4
  <2>1. PICK e \in Nat : e = 6 - 4 /\ e = 2
    OBVIOUS
  <2>2. PICK w \in Nat : w = 2^e /\ w = 4
    BY <2>1, SmallPowers
  <2>3. e = 6 - 4 /\ w = 2^e
    BY <2>1, <2>2
  <2>4. Field(regs, GENERAL_CON, 4, 7) = w
    BY <1>1, <2>3, FieldOfOne
  <2> QED BY <2>2, <2>4
<1>3. \A bus \in 0..1, dev \in 0..31 :
        PciSegmentRead16(cfg, [bus |-> bus, dev |-> dev, off |-> 8]) # 0..15 <=> dev = 0
  BY <1>1, Probe
<1> QED BY <1>1, <1>2, <1>3 DEF BridgeReady, LinkSet, CfgSet

\* In every boot of a Rock 3A, whatever drivers run before, after and in
\* between, and whatever accesses the bus driver makes, a bridge that is
\* exposed is set up, has its link, and answers a probe with the two functions
\* there are (PciHostBridgeInit.c:291-399 on PciSegmentLib.c, MultiPhyLib.c and
\* CruLib.c).
THEOREM BridgeUsable == Spec => []BridgeReady
<1> QED BY SetUpOnce, PciInvInit, PciInvNext, PciInvReady, PTL DEF Spec

------------------------------------------------------------------------------
(* What each driver sets up for its device.                                  *)

\* Before a driver's entry point has set its device up.
BeforeMshc == "Mshc" \in waiting \/ pc = <<"Mshc", "entry">>
BeforeEmmc == "Emmc" \in waiting \/ pc = <<"Emmc", "entry">>
BeforeGmac == "BoardInitDxe" \in waiting \/ BeforeOtp
BeforeWiFi == "BoardInitDxe" \in waiting \/ pc[1] \in {"BoardInitDxe", "I2c", "Otp"}

\* The firmware volume need not have this driver.
EmmcStarted == driver = "Emmc" \/ "Emmc" \in loaded

DriversInv ==
    /\ driver \notin waiting
    /\ BeforeMshc \/ MshcSet(regs)
    /\ EmmcStarted => BeforeEmmc \/ PinsKept(regs, mEmmcIomuxConfig)
    /\ BeforeGmac \/ GmacSet(regs)
    /\ BeforeWiFi \/ WiFiSet(regs)
    /\ "Mshc" \in loaded => ~BeforeMshc
    /\ "Emmc" \in loaded => ~BeforeEmmc
    /\ "BoardInitDxe" \in loaded => ~BeforeWiFi
    /\ emmcMode = "none" \/ (Booted /\ emmcMode \in BusModes /\ ClockFits(regs, emmcMode))

LEMMA BeforeOrder == BeforeGmac => BeforeWiFi
  BY DEF BeforeGmac, BeforeWiFi, BeforeOtp

\* The points before the set-up are left by the step that does it, for good.
LEMMA EntryLeft ==
  ASSUME OnceInv, [Next]_vars
  PROVE  /\ BeforeMshc => BeforeMshc' \/ MshcDxeInitialize
         /\ BeforeEmmc => BeforeEmmc' \/ EmmcDxeInitialize
         /\ BeforeMshc' => BeforeMshc
         /\ BeforeEmmc' => BeforeEmmc
<1>1. CASE Elsewhere(Shown)
  BY <1>1 DEF Elsewhere, Shown, BeforeMshc, BeforeEmmc
<1>2. CASE StartDriver
  BY <1>2, StartDriverPc DEF BeforeMshc, BeforeEmmc
<1>3. CASE PciHostDriver
  BY <1>3, PciHostPc DEF PciHostDriver, bootVars, BeforeMshc, BeforeEmmc
<1>4. CASE RegisterDrivers /\ (MshcDxeInitialize \/ EmmcDxeInitialize)
  BY <1>4 DEF RegisterDrivers, MshcDxeInitialize, EmmcDxeInitialize, bootVars, BeforeMshc,
     BeforeEmmc
<1> QED BY <1>1, <1>2, <1>3, <1>4, ElsewhereStep

LEMMA BoardInitLeft ==
  ASSUME OnceInv, I2cInv, [Next]_vars
  PROVE  /\ BeforeGmac => BeforeGmac' \/ BoardInitGmac
         /\ BeforeWiFi => BeforeWiFi' \/ BoardInitWiFi
         /\ BeforeWiFi' => BeforeWiFi
<1>1. CASE Apart
  BY <1>1 DEF Apart, BeforeGmac, BeforeWiFi, BeforeOtp
<1>2. CASE StartDriver
  BY <1>2, StartDriverPc, DriverNames DEF BeforeGmac, BeforeWiFi, BeforeOtp, OnceInv
<1>3. CASE BusHw
  BY <1>3 DEF BusHw, BoardInitHw, I2cHw, HwOtp, bootVars, BeforeGmac, BeforeWiFi, BeforeOtp
<1>4. CASE BoardInitDriver
  <2>1. /\ waiting' = waiting /\ BeforeWiFi
        /\ "BoardInitDxe" \in waiting => BeforeGmac' /\ BeforeWiFi'
    BY <1>4, BoardInitPc DEF BoardInitDriver, bootVars, BeforeGmac, BeforeWiFi
  <2>2. CASE BoardInitPmic \/ BoardInitSetCpuSpeed \/ BoardInitUsb
    BY <2>1, <2>2 DEF BoardInitPmic, BoardInitSetCpuSpeed, BoardInitUsb, BeforeGmac,
       BeforeWiFi, BeforeOtp
  <2>3. CASE PmicCall
    BY <2>1, <2>3 DEF PmicCall, CallI2c, Goto, BeforeGmac, BeforeWiFi, BeforeOtp
  <2>4. CASE I2cStep
    <3>1. pc'[1] = "I2c" \/ pc' = <<"BoardInitDxe", i2cCall.ret>>
      BY <2>4 DEF I2cStep, I2cInit, I2cAck, I2cStart, WaitStart, I2cSend, WaitData, WaitStop,
         GiveUp, Return, Goto
    <3>2. i2cCall.ret \notin {"mac", "wifi"}
      BY DEF I2cInv, Typed, Calls, Returns
    <3> QED BY <2>1, <3>1, <3>2 DEF BeforeGmac, BeforeWiFi, BeforeOtp
  <2>5. CASE BoardInitGmac
    <3>1. pc'[1] = "Otp"
      BY <2>5 DEF BoardInitGmac, CallOtp
    <3> QED BY <2>1, <2>5, <3>1 DEF BeforeWiFi
  <2>6. CASE OtpStep \/ BoardInitMac
    <3>1. /\ pc[1] = "Otp" \/ pc = <<"BoardInitDxe", "mac">>
          /\ pc'[1] \in {"Otp", "BoardInitDxe"}
      BY <2>6 DEF OtpStep, OtpDisableEcc, OtpIssue, OtpDone, OtpTimeout, OtpCollect, OtpAt,
         BoardInitMac, BAt
    <3>2. ~BeforeOtp
      BY <3>1 DEF BeforeOtp
    <3> QED BY <2>1, <3>1, <3>2 DEF BeforeGmac, BeforeWiFi
  <2>7. CASE BoardInitWiFi
    <3>1. ~BeforeOtp
      BY <2>7 DEF BoardInitWiFi, BAt, BeforeOtp
    <3> QED BY <2>1, <2>7, <3>1 DEF BeforeGmac
  <2> QED BY <1>4, <2>2, <2>3, <2>4, <2>5, <2>6, <2>7 DEF BoardInitDriver, BoardInitStep
<1> QED BY <1>1, <1>2, <1>3, <1>4, StepKinds

\* No other step disturbs what a driver has set up.
LEMMA SetUpsKept ==
  ASSUME [Next]_vars
  PROVE  /\ MshcDxeInitialize \/ Keeps(MshcBits, regs, regs')
         /\ EmmcDxeInitialize \/ Keeps(EmmcPins, regs, regs')
         /\ BoardInitGmac \/ Keeps(GmacBits, regs, regs')
         /\ BoardInitWiFi \/ Keeps(WiFiBits, regs, regs')
         /\ EmmcDxeInitialize \/ SdMmcDriver \/ Keeps(EmmcClockBits, regs, regs')
<1>1. /\ mSdmmc0IomuxConfig \in Seq(PinRows) /\ mSdmmc1IomuxConfig \in Seq(PinRows)
      /\ mEmmcIomuxConfig \in Seq(PinRows) /\ mGmac1IomuxConfig \in Seq(PinRows)
  BY PinTables
<1>2. MshcDxeInitialize \/ Keeps(MshcBits, regs, regs')
  BY <1>1, StepKeeps, MshcBitsApart, OwnedApart DEF Writes
<1>3. EmmcDxeInitialize \/ Keeps(EmmcPins, regs, regs')
  BY <1>1, StepKeeps, EmmcPinsApart, OwnedApart DEF Writes
<1>4. BoardInitGmac \/ Keeps(GmacBits, regs, regs')
  BY <1>1, StepKeeps, GmacBitsApart, OwnedApart DEF Writes
<1>5. BoardInitWiFi \/ Keeps(WiFiBits, regs, regs')
  BY <1>1, StepKeeps, WiFiBitsApart, OwnedApart DEF Writes
<1>6. EmmcDxeInitialize \/ SdMmcDriver \/ Keeps(EmmcClockBits, regs, regs')
  BY StepKeeps, EmmcClockApart DEF Writes
<1> QED BY <1>2, <1>3, <1>4, <1>5, <1>6

\* The core's bookkeeping moves by a driver that is started or has returned.
LEMMA BookStep ==
  [Next]_vars => StartDriver \/ UNCHANGED <<driver, waiting>>
<1>1. Cpu => StartDriver \/ UNCHANGED <<driver, waiting>>
  BY DEF Cpu, PeiStep, DriverReturned, EndOfDispatch, BoardInitDriver, PciHostDriver,
     UsbHcdDriver, RegisterDrivers, TrngDriver, FdtDriver, EndOfDxe, bootVars
<1>2. Clients => UNCHANGED <<driver, waiting>>
  BY DEF Clients, XhciDriver, SdMmcDriver, RngClient, PciBusDriver, Reset, bootVars
<1>3. Hw \/ Rest \/ UNCHANGED vars => UNCHANGED <<driver, waiting>>
  BY DEF Hw, BusHw, LinkHw, TrngHw, Rest, vars, bootVars
<1> QED BY <1>1, <1>2, <1>3 DEF Next

LEMMA DriverStarted ==
  ASSUME OnceInv, [Next]_vars, driver \notin waiting
  PROVE  driver' \notin waiting'
<1>1. CASE StartDriver
  BY <1>1 DEF StartDriver
<1>2. CASE driver' = driver /\ waiting' \subseteq waiting
  BY <1>2
<1> QED BY <1>1, <1>2, BookStep

LEMMA LoadedStep ==
  [Next]_vars => \/ loaded' = loaded
                 \/ pc'[1] = "DxeCore" /\ loaded' = loaded \cup {driver}
                      /\ driver' = driver
<1>1. DriverReturned => \/ loaded' = loaded
                        \/ /\ pc'[1] = "DxeCore" /\ loaded' = loaded \cup {driver}
                           /\ driver' = driver
  BY DEF DriverReturned
<1>2. Cpu => DriverReturned \/ loaded' = loaded
  BY DEF Cpu, PeiStep, StartDriver, EndOfDispatch, BoardInitDriver, PciHostDriver,
     UsbHcdDriver, RegisterDrivers, TrngDriver, FdtDriver, EndOfDxe, bootVars
<1>3. Clients \/ Hw \/ Rest \/ UNCHANGED vars => loaded' = loaded
  BY DEF Clients, XhciDriver, SdMmcDriver, RngClient, PciBusDriver, Reset, Hw, BusHw, LinkHw,
     TrngHw, Rest, vars, bootVars
<1> QED BY <1>1, <1>2, <1>3 DEF Next

LEMMA ModeStep ==
  [Next]_vars => emmcMode' = emmcMode \/ (SdMmcDriver /\ Booted)
<1>1. Cpu => emmcMode' = emmcMode
  BY DEF Cpu, PeiStep, StartDriver, DriverReturned, EndOfDispatch, OthersKept, BoardInitDriver,
     PciHostDriver, UsbHcdDriver, RegisterDrivers, EmmcDxeInitialize, TrngDriver, FdtDriver,
     EndOfDxe
<1>2. Clients => emmcMode' = emmcMode \/ (SdMmcDriver /\ Booted)
  BY DEF Clients, XhciDriver, SdMmcDriver, RngClient, PciBusDriver, Reset, Idle, Booted
<1>3. Hw \/ Rest \/ UNCHANGED vars => emmcMode' = emmcMode
  BY DEF Hw, BusHw, LinkHw, TrngHw, Rest, vars
<1> QED BY <1>1, <1>2, <1>3 DEF Next

LEMMA FitsStep ==
  ASSUME OnceInv, DriversInv, [Next]_vars
  PROVE  \/ emmcMode' = "none"
         \/ Booted' /\ emmcMode' \in BusModes /\ ClockFits(regs', emmcMode')
<1>1. CASE SdMmcDriver
  <2>1. EmmcSdMmcNotifyPhase /\ Booted /\ Booted'
    <3>1. EmmcSdMmcNotifyPhase /\ Booted
      BY <1>1 DEF SdMmcDriver, Idle, Booted
    <3> QED BY <3>1, BootEnds
  <2>2. CASE emmcMode' = emmcMode /\ Keeps(EmmcClockBits, regs, regs')
    BY <2>1, <2>2, FitsKept DEF DriversInv
  <2>3. CASE emmcMode' \in BusModes /\ ClockFits(regs', emmcMode')
    BY <2>1, <2>3
  <2> QED BY <2>1, <2>2, <2>3, PhaseFits
<1>2. CASE ~SdMmcDriver
  <2>1. emmcMode' = emmcMode
    BY <1>2, ModeStep
  <2>2. Booted => ~EmmcDxeInitialize
    BY DEF Booted, EmmcDxeInitialize
  <2>3. Booted => Booted' /\ Keeps(EmmcClockBits, regs, regs')
    BY <1>2, <2>2, BootEnds, SetUpsKept
  <2> QED BY <2>1, <2>3, FitsKept DEF DriversInv
<1> QED BY <1>1, <1>2

LEMMA DriversInvInit == Init => DriversInv
<1> SUFFICES ASSUME Init PROVE DriversInv
  OBVIOUS
<1>1. /\ DriverOrder[1] = "BoardInitDxe" /\ DriverOrder[4] = "Mshc"
      /\ 1 \in DOMAIN DriverOrder /\ 4 \in DOMAIN DriverOrder
  BY DEF DriverOrder
<1>2. {"BoardInitDxe", "Mshc"} \subseteq waiting
  BY <1>1 DEF Init, Volumes, NotInVolume, Drivers
<1>3. driver \notin waiting
  <2>1. "none" \notin Drivers
    BY DEF Drivers, DriverOrder
  <2> QED BY <2>1 DEF Init, Volumes, NotInVolume
<1>4. loaded = {} /\ emmcMode = "none" /\ driver = "none"
  BY DEF Init, EmmcInitial
<1> QED BY <1>2, <1>3, <1>4
        DEF DriversInv, EmmcStarted, BeforeMshc, BeforeGmac, BeforeWiFi

LEMMA DriversInvNext == OnceInv /\ I2cInv /\ DriversInv /\ [Next]_vars => DriversInv'
<1> SUFFICES ASSUME OnceInv, I2cInv, DriversInv, [Next]_vars PROVE DriversInv'
  OBVIOUS
<1>1. driver' \notin waiting'
  BY DriverStarted DEF DriversInv
<1>2. BeforeMshc' \/ MshcSet(regs')
  BY EntryLeft, SetUpsKept, MshcSets, MshcSetKept DEF DriversInv
<1>3. EmmcStarted' => BeforeEmmc' \/ PinsKept(regs', mEmmcIomuxConfig)
  <2>1. CASE EmmcStarted
    BY <2>1, EntryLeft, SetUpsKept, EmmcSets, EmmcPinsKept DEF DriversInv
  <2>2. ASSUME EmmcStarted', ~EmmcStarted PROVE BeforeEmmc'
    <3>1. driver' # driver
      BY <2>2, LoadedStep DEF EmmcStarted
    <3>2. driver' = "Emmc" /\ pc' = <<driver', "entry">>
      BY <2>2, <3>1, BookStep, LoadedStep DEF EmmcStarted, StartDriver
    <3> QED BY <3>2 DEF BeforeEmmc
  <2> QED BY <2>1, <2>2
<1>4. BeforeGmac' \/ GmacSet(regs')
  BY BoardInitLeft, SetUpsKept, GmacSets, GmacSetKept DEF DriversInv
<1>5. BeforeWiFi' \/ WiFiSet(regs')
  BY BoardInitLeft, SetUpsKept, WiFiSets, WiFiSetKept DEF DriversInv
<1>6. CASE loaded' = loaded
  <2>1. /\ "Mshc" \in loaded' => ~BeforeMshc'
        /\ "Emmc" \in loaded' => ~BeforeEmmc'
        /\ "BoardInitDxe" \in loaded' => ~BeforeWiFi'
    BY <1>6, EntryLeft, BoardInitLeft DEF DriversInv
  <2> QED BY <1>1, <1>2, <1>3, <1>4, <1>5, <2>1, FitsStep DEF DriversInv
<1>7. CASE pc'[1] = "DxeCore" /\ loaded' = loaded \cup {driver} /\ driver' = driver
  <2>1. /\ "Mshc" \in loaded' => ~BeforeMshc'
        /\ "Emmc" \in loaded' => ~BeforeEmmc'
        /\ "BoardInitDxe" \in loaded' => ~BeforeWiFi'
    <3>1. /\ "Mshc" \in loaded => ~BeforeMshc'
          /\ "Emmc" \in loaded => ~BeforeEmmc'
          /\ "BoardInitDxe" \in loaded => ~BeforeWiFi'
      BY EntryLeft, BoardInitLeft DEF DriversInv
    <3>2. driver \notin waiting'
      BY <1>1, <1>7
    <3> QED BY <1>7, <3>1, <3>2 DEF BeforeMshc, BeforeEmmc, BeforeWiFi
  <2> QED BY <1>1, <1>2, <1>3, <1>4, <1>5, <2>1, FitsStep DEF DriversInv
<1> QED BY <1>6, <1>7, LoadedStep

LEMMA DriversInvKept == DriversInv => DriversKept
<1> SUFFICES ASSUME DriversInv PROVE DriversKept
  OBVIOUS
<1>1. EmmcClockFits
  BY DEF DriversInv, EmmcClockFits, ClockFits
<1> QED BY <1>1, BeforeOrder DEF DriversInv, EmmcStarted, DriversKept, MshcSet, GmacSet, WiFiSet

\* In every boot of a Rock 3A, in any order of the drivers, with or without
\* EmmcDxe and FdtDxe, what a driver has set up for its device stays: clocks,
\* pins and resets; and whatever modes the eMMC is switched through, its clock
\* fits the mode (MshcDxe.c, EmmcDxe.c and BoardInitDxe.c on CruLib.c and
\* GpioLib.c).
THEOREM SetUpsStay == Spec => []DriversKept
<1>1. Spec => []I2cInv
  BY BoardUsesI2c, I2cInvariance, PTL
<1> QED BY <1>1, SetUpOnce, DriversInvInit, DriversInvNext, DriversInvKept, PTL DEF Spec

------------------------------------------------------------------------------
(* The bus driver's accesses: the only steps that make a request of the      *)
(* library, each of them exact.                                              *)

LEMMA PciReqStep == [Next]_vars => PciBusDriver \/ UNCHANGED pciReq
<1>1. PciHostDriver => UNCHANGED pciReq
  BY DEF PciHostDriver, PciHostStep, PciPowerUp, PciSetup, PciReset, PciWindows, PciStartLink,
     PciIsLinkUp, PciTimeout, hostVars, segVars
<1>2. UNCHANGED hostVars \/ LinkHw => UNCHANGED pciReq
  BY DEF hostVars, LinkHw, HwLinkUp
<1>3. PeiStep \/ StartDriver \/ DriverReturned \/ EndOfDispatch => UNCHANGED hostVars
  BY DEF PeiStep, StartDriver, DriverReturned, EndOfDispatch, OthersKept
<1>4. BoardInitDriver \/ UsbHcdDriver \/ RegisterDrivers => UNCHANGED hostVars
  BY DEF BoardInitDriver, UsbHcdDriver, RegisterDrivers
<1>5. TrngDriver \/ FdtDriver \/ EndOfDxe => UNCHANGED hostVars
  BY DEF TrngDriver, FdtDriver, EndOfDxe
<1>6. XhciDriver \/ SdMmcDriver \/ RngClient \/ Reset => UNCHANGED hostVars
  BY DEF XhciDriver, SdMmcDriver, RngClient, Reset
<1>7. BusHw \/ TrngHw \/ Rest \/ UNCHANGED vars => UNCHANGED hostVars
  BY DEF BusHw, TrngHw, Rest, vars
<1> QED BY <1>1, <1>2, <1>3, <1>4, <1>5, <1>6, <1>7 DEF Next, Cpu, Clients, Hw

\* Every access of the PCI bus driver, of whatever address, width, bit field or
\* buffer, changes at most what it names and has each byte in its place
\* (PciSegmentLib.c, the access functions and the two buffer loops).
THEOREM AccessesExact == Spec => PciAccessExact
<1>1. [Next]_vars => [pciReq' # pciReq => Access(pciReq')]_pciReq
  BY PciReqStep, BusStepExact DEF PciBusDriver
<1> QED BY <1>1, PTL DEF Spec, PciAccessExact

------------------------------------------------------------------------------
(* What is left to say of the board's state, part by part.                   *)

\* Where the boot is while no driver has been started.
Undispatched == pc \in {<<"Pei", "memory">>, <<"Pei", "undefined">>, <<"DxeCore", "dispatch">>}

StartedInv ==
    /\ loaded \subseteq Drivers \ waiting
    /\ driver \in Drivers \ waiting \/ (waiting \in Volumes /\ Undispatched)

BusInv ==
    /\ link \in {"down", "up"} /\ (atu = <<>> \/ atu = Outbound) /\ cfg \subseteq CfgBits

UsbTyped ==
    /\ endOfDxeEvent \in BOOLEAN
    /\ usbDevices \subseteq {"XHCI", "EHCI", "OHCI"} \X Controllers

FdtTyped ==
    /\ mFdtImage \in {"none", "allocated", "freed"} /\ fdtBlob.memory \in 0..2
    /\ fdtTable = {} \/ \E t : fdtTable = {t}

LEMMA PartsInit == Init => StartedInv /\ BusInv /\ UsbTyped /\ FdtTyped
<1> SUFFICES ASSUME Init PROVE StartedInv /\ BusInv /\ UsbTyped /\ FdtTyped
  OBVIOUS
<1>1. StartedInv
  BY DEF Init, StartedInv, Undispatched
<1>2. BusInv
  <2>1. /\ link = "down" /\ atu = <<>>
        /\ cfg = {<<"rootPort", 124, 1>>, <<"rootPort", 10, 7>>, <<"endpoint", 11, 0>>,
                  <<"endpoint", 10, 3>>}
    BY DEF Init, SegInitial
  <2> QED BY <2>1 DEF BusInv, CfgBits
<1>3. UsbTyped
  BY DEF Init, UsbInitial, UsbTyped
<1>4. FdtTyped
  BY DEF Init, FdtInitial, FdtTyped
<1> QED BY <1>1, <1>2, <1>3, <1>4

\* With no driver started, the core is all that runs.
LEMMA UndispatchedStep ==
  ASSUME [Next]_vars, waiting \in Volumes, Undispatched
  PROVE  StartDriver \/ (Undispatched' /\ waiting' = waiting)
<1>1. PeiStep => Undispatched' /\ waiting' = waiting
  BY DEF PeiStep, MemoryPeim, Undispatched, bootVars
<1>2. waiting # {}
  <2>1. DriverOrder[1] = "BoardInitDxe" /\ 1 \in DOMAIN DriverOrder
    BY DEF DriverOrder
  <2> QED BY <2>1 DEF Volumes, NotInVolume, Drivers
<1>3. ~DriverReturned /\ ~EndOfDispatch /\ ~EndOfDxe
  BY <1>2 DEF Undispatched, DriverReturned, EndOfDispatch, EndOfDxe
<1>4. ~BoardInitDriver /\ ~PciHostDriver /\ ~UsbHcdDriver /\ ~RegisterDrivers
  BY BoardInitPc, PciHostPc DEF Undispatched, UsbHcdDriver, InitializeUsbHcd, RegisterDrivers,
     MshcDxeInitialize, InitializeTsadc, EmmcDxeInitialize
<1>5. ~TrngDriver /\ ~FdtDriver
  BY DEF Undispatched, TrngDriver, TrngStep, TrngInit, TrngStart, TrngTimeout, TrngCopy, RngAt,
     FdtDriver, FdtStep, FdtRejected, FdtAllocate, FdtOpen, FdtInstall, FAt
<1>6. ~Clients
  BY DEF Undispatched, Clients, XhciDriver, SdMmcDriver, RngClient, PciBusDriver, Reset, Idle
<1>7. Hw \/ Rest \/ UNCHANGED vars => UNCHANGED <<pc, waiting>>
  BY DEF Hw, BusHw, BoardInitHw, I2cHw, HwOtp, LinkHw, HwLinkUp, TrngHw, HwTrng, Rest, vars, bootVars
<1>8. UNCHANGED <<pc, waiting>> => Undispatched' /\ waiting' = waiting
  BY DEF Undispatched
<1> QED BY <1>1, <1>3, <1>4, <1>5, <1>6, <1>7, <1>8 DEF Next, Cpu

LEMMA StartedInvNext == OnceInv /\ StartedInv /\ [Next]_vars => StartedInv'
<1> SUFFICES ASSUME OnceInv, StartedInv, [Next]_vars PROVE StartedInv'
  OBVIOUS
<1>1. CASE StartDriver
  <2>1. PICK d \in NextDrivers : driver' = d /\ waiting' = waiting \ {d} /\ loaded' = loaded
    BY <1>1 DEF StartDriver
  <2>2. d \in Drivers
    BY <2>1 DEF NextDrivers, Drivers, OnceInv
  <2> QED BY <2>1, <2>2 DEF StartedInv
<1>2. CASE ~StartDriver
  <2>1. driver' = driver /\ waiting' = waiting
    BY <1>2, BookStep
  <2>2. CASE driver \in Drivers \ waiting
    BY <2>1, <2>2, LoadedStep DEF StartedInv
  <2>3. CASE waiting \in Volumes /\ Undispatched
    <3>1. Undispatched'
      BY <1>2, <2>3, UndispatchedStep
    <3>2. ~DriverReturned
      BY <2>3 DEF Undispatched, DriverReturned
    <3>3. loaded' = loaded
      <4>1. Cpu => DriverReturned \/ StartDriver \/ loaded' = loaded
        BY DEF Cpu, PeiStep, EndOfDispatch, BoardInitDriver, PciHostDriver, UsbHcdDriver,
           RegisterDrivers, TrngDriver, FdtDriver, EndOfDxe, bootVars
      <4>2. Clients \/ Hw \/ Rest \/ UNCHANGED vars => loaded' = loaded
        BY DEF Clients, XhciDriver, SdMmcDriver, RngClient, PciBusDriver, Reset, Hw, BusHw,
           LinkHw, TrngHw, Rest, vars, bootVars
      <4> QED BY <1>2, <3>2, <4>1, <4>2 DEF Next
    <3> QED BY <2>1, <2>3, <3>1, <3>3 DEF StartedInv
  <2> QED BY <2>2, <2>3 DEF StartedInv
<1> QED BY <1>1, <1>2

LEMMA BusInvNext == BusInv /\ [Next]_vars => BusInv'
<1> SUFFICES ASSUME BusInv, [Next]_vars PROVE BusInv'
  OBVIOUS
<1>1. CASE UNCHANGED hostVars
  BY <1>1 DEF hostVars, BusInv
<1>2. CASE LinkHw
  BY <1>2 DEF LinkHw, HwLinkUp, BusInv
<1>3. CASE PciBusStep
  <2>1. UNCHANGED <<link, atu>>
    BY <1>3 DEF PciBusStep, PciUpdate, PciReadBuffer, PciWriteBuffer
  <2> QED BY <1>3, <2>1, BusStepIsCfg DEF BusInv
<1>4. CASE PciHostDriver
  <2>1. CASE PciSetup
    BY <2>1, SetupIsCfg DEF PciSetup, BusInv
  <2>2. CASE PciWindows
    BY <2>2 DEF PciWindows, BusInv
  <2>3. PciPowerUp \/ PciReset \/ PciStartLink => UNCHANGED hostVars
    BY DEF PciPowerUp, PciReset, PciStartLink
  <2>4. PciIsLinkUp \/ PciTimeout => UNCHANGED segVars
    BY DEF PciIsLinkUp, PciTimeout
  <2> QED BY <1>1, <1>4, <2>1, <2>2, <2>3, <2>4 DEF PciHostDriver, PciHostStep, segVars, BusInv
<1> QED BY <1>1, <1>2, <1>3, <1>4, PciOthersStep DEF PciOthers

LEMMA UsbTypedNext == UsbTyped /\ [Next]_vars => UsbTyped'
<1> SUFFICES ASSUME UsbTyped, [Next]_vars PROVE UsbTyped'
  OBVIOUS
<1>1. CASE UNCHANGED usbVars
  BY <1>1 DEF usbVars, UsbTyped
<1>2. CASE UsbHcdDriver
  BY <1>2 DEF UsbHcdDriver, InitializeUsbHcd, UsbTyped
<1>3. CASE EndOfDxe
  BY <1>1, <1>3 DEF EndOfDxe, UsbEndOfDxeCallback, UsbTyped
<1>4. CASE XhciDriver
  BY <1>4 DEF XhciDriver, InitializeXhciController, UsbTyped
<1>5. PeiStep \/ StartDriver \/ DriverReturned \/ EndOfDispatch => UNCHANGED usbVars
  BY DEF PeiStep, StartDriver, DriverReturned, EndOfDispatch, OthersKept
<1>6. BoardInitDriver \/ PciHostDriver \/ RegisterDrivers \/ TrngDriver \/ FdtDriver
        => UNCHANGED usbVars
  BY DEF BoardInitDriver, PciHostDriver, RegisterDrivers, TrngDriver, FdtDriver
<1>7. SdMmcDriver \/ RngClient \/ PciBusDriver \/ Reset => UNCHANGED usbVars
  BY DEF SdMmcDriver, RngClient, PciBusDriver, Reset
<1>8. Hw \/ Rest \/ UNCHANGED vars => UNCHANGED usbVars
  BY DEF Hw, BusHw, LinkHw, TrngHw, Rest, vars
<1> QED BY <1>1, <1>2, <1>3, <1>4, <1>5, <1>6, <1>7, <1>8 DEF Next, Cpu, Clients

LEMMA FdtTypedNext == FdtTyped /\ [Next]_vars => FdtTyped'
<1> SUFFICES ASSUME FdtTyped, [Next]_vars PROVE FdtTyped'
  OBVIOUS
<1>1. CASE UNCHANGED fdtVars
  BY <1>1 DEF fdtVars, FdtTyped
<1>2. CASE FdtDriver
  <2>1. FdtRejected \/ FdtOpen => UNCHANGED fdtVars
    BY DEF FdtRejected, FdtOpen
  <2>2. CASE FdtAllocate
    BY <2>2 DEF FdtAllocate, FdtTyped
  <2>3. CASE FdtInstall
    <3>1. mFdtImage' \in {mFdtImage, "freed"} /\ fdtBlob' = fdtBlob
          /\ (fdtTable' = fdtTable \/ \E t : fdtTable' = {t})
      BY <2>3 DEF FdtInstall
    <3> QED BY <3>1 DEF FdtTyped
  <2> QED BY <1>1, <1>2, <2>1, <2>2, <2>3 DEF FdtDriver, FdtStep
<1>3. PeiStep \/ StartDriver \/ DriverReturned \/ EndOfDispatch => UNCHANGED fdtVars
  BY DEF PeiStep, StartDriver, DriverReturned, EndOfDispatch, OthersKept
<1>4. BoardInitDriver \/ PciHostDriver \/ UsbHcdDriver \/ RegisterDrivers \/ TrngDriver \/ EndOfDxe
        => UNCHANGED fdtVars
  BY DEF BoardInitDriver, PciHostDriver, UsbHcdDriver, RegisterDrivers, TrngDriver, EndOfDxe
<1>5. Clients => UNCHANGED fdtVars
  BY DEF Clients, XhciDriver, SdMmcDriver, RngClient, PciBusDriver, Reset
<1>6. Hw \/ Rest \/ UNCHANGED vars => UNCHANGED fdtVars
  BY DEF Hw, BusHw, LinkHw, TrngHw, Rest, vars
<1> QED BY <1>1, <1>2, <1>3, <1>4, <1>5, <1>6 DEF Next, Cpu

------------------------------------------------------------------------------
\* What the parts' own invariants say of their types.
LEMMA LibrariesTyped == I2cInv /\ OtpInv /\ RngInv => I2cTypeOK /\ OtpTypeOK /\ RngTypeOK
<1> SUFFICES ASSUME I2cInv, OtpInv, RngInv PROVE I2cTypeOK /\ OtpTypeOK /\ RngTypeOK
  OBVIOUS
<1>1. I2cTypeOK
  BY DEF I2cInv, Typed, I2cTypeOK
<1>2. OtpTypeOK
  <2>1. /\ otpCall.length \in Nat /\ otpCall.left \in Nat /\ Taken \in Nat
        /\ otpCall.retry \in BOOLEAN /\ otpCall.timedOut \in BOOLEAN
    BY DEF OtpInv, OtpTyped, OtpCalls, Taken
  <2>2. otpCall.left <= otpCall.length
    BY <2>1 DEF OtpInv, Position
  <2> QED BY <2>1, <2>2 DEF OtpInv, OtpTyped, OtpTypeOK
<1>3. RngTypeOK
  <2>1. \A i \in DOMAIN rngGiven : rngGiven[i] \in 0..rngRuns
    BY DEF RngInv, RngTyped, GivenOnce
  <2>2. rngGiven \in Seq(0..rngRuns)
    <3> DEFINE n == Len(rngGiven)
               S == 0..rngRuns
    <3>1. n \in Nat /\ DOMAIN rngGiven = 1..n /\ rngGiven = [i \in 1..n |-> rngGiven[i]]
      BY DEF RngInv, RngTyped
    <3>2. \A i \in 1..n : rngGiven[i] \in S
      BY <2>1, <3>1
    <3> HIDE DEF n, S
    <3>3. rngGiven \in Seq(S)
      BY <3>1, <3>2
    <3> QED BY <3>3 DEF S
  <2>3. rngCalls \in 0..Len(RngLengths) /\ rngDout \in 0..rngRuns
    <3>1. Len(RngLengths) \in Nat
      BY RngAssumption DEF RngAssumption
    <3> QED BY <3>1 DEF RngInv, RngTyped
  <2> QED BY <2>2, <2>3 DEF RngInv, RngTyped, RngTypeOK
<1> QED BY <1>1, <1>2, <1>3

LEMMA MemoryTyped == MemoryInv => MemoryTypeOK
<1> SUFFICES ASSUME MemoryInv, NEW h \in hobs
             PROVE  h.kind \in {"resource", "allocation"} /\ h.base \in Nat
  BY DEF MemoryTypeOK, MemoryInv
<1> DEFINE P == Capacity(dram) * PagesPerMb
           soc == dram.soc
<1>1. /\ memoryMap = ArmPlatformGetVirtualMemoryMap(soc, P)
      /\ hobs = UNION {AddRegion(memoryMap[i]) : i \in DOMAIN memoryMap}
  BY DEF MemoryInv
<1>2. soc \in {"RK356X", "RK3588"} /\ P \in 37888..HighMmio(soc).base
  BY DramSize DEF MemoryInv
<1> HIDE DEF P, soc
<1>3. HobsOf(memoryMap, hobs)
  BY <1>1, <1>2, HobsAre
<1>4. PICK i \in DOMAIN memoryMap : h \in {Resource(memoryMap[i]), Allocation(memoryMap[i])}
  BY <1>3 DEF HobsOf
<1>5. memoryMap[i].base \in Nat
  BY <1>1, <1>2, EntryShapes DEF Shaped
<1> QED BY <1>4, <1>5 DEF Resource, Allocation

LEMMA BusTyped == BusInv => SegTypeOK
<1> SUFFICES ASSUME BusInv PROVE SegTypeOK
  OBVIOUS
<1>1. DOMAIN atu \subseteq 0..2
  <2>1. CASE atu = <<>>
    BY <2>1
  <2>2. CASE atu = Outbound
    BY <2>2 DEF Outbound
  <2> QED BY <2>1, <2>2 DEF BusInv
<1>2. \A x \in CfgBits : x[1] \in {"rootPort", "endpoint"} /\ x[3] \in 0..7
  BY DEF CfgBits
<1> QED BY <1>1, <1>2 DEF BusInv, SegTypeOK

LEMMA TableTyped == FdtTyped => FdtTypeOK
<1> SUFFICES ASSUME FdtTyped PROVE Cardinality(fdtTable) <= 1
  BY DEF FdtTyped, FdtTypeOK
<1>1. CASE fdtTable = {}
  BY <1>1, FS_EmptySet
<1>2. ASSUME NEW t, fdtTable = {t} PROVE Cardinality(fdtTable) <= 1
  BY <1>2, FS_Singleton
<1> QED BY <1>1, <1>2 DEF FdtTyped

LEMMA PartsTyped ==
  ASSUME OnceInv, StartedInv, I2cInv, OtpInv, RngInv, BusInv, UsbTyped, UsbInv, FdtTyped, MemoryInv
  PROVE  BoardTypeOK
<1>1. waiting \subseteq Drivers /\ loaded \subseteq Drivers \ waiting
  BY DEF OnceInv, StartedInv
<1>2. UsbTypeOK
  BY DEF UsbInv, UsbTyped, UsbTypeOK
<1> QED BY <1>1, <1>2, LibrariesTyped, BusTyped, TableTyped, MemoryTyped DEF BoardTypeOK

\* In every boot, each part's state is of its type: of what the drivers, the
\* libraries and the memory peripheral module keep, whatever order they run in.
THEOREM BoardTyped == Spec => []BoardTypeOK
<1>1. Spec => [](I2cInv /\ OtpInv /\ RngInv)
  <2>1. RngSpec => []RngInv
    BY RngInvInit, RngInvNext, PTL DEF RngSpec
  <2> QED BY <2>1, BoardUsesI2c, BoardUsesOtp, BoardUsesTrng, I2cInvariance, OtpInvariance, PTL
<1>2. Spec => [](OnceInv /\ StartedInv)
  BY SetUpOnce, PartsInit, StartedInvNext, PTL DEF Spec
<1>3. Spec => [](BusInv /\ UsbTyped /\ FdtTyped)
  BY PartsInit, BusInvNext, UsbTypedNext, FdtTypedNext, PTL DEF Spec
<1>4. Spec => [](MemoryInv /\ UsbInv)
  BY <1>1, <1>2, MemoryInvInit, MemoryInvNext, UsbInvInit, UsbInvNext, PTL DEF Spec
<1> QED BY <1>1, <1>2, <1>3, <1>4, PartsTyped, PTL
=============================================================================
