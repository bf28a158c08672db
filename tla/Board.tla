-------------------------------- MODULE Board --------------------------------
(***************************************************************************)
(* One boot of a Rock 3A, from the memory map to the boot manager: the PEI *)
(* module, the drivers in an order the DXE dispatcher chooses, and then    *)
(* what the core's drivers and the boot manager ask of them.  One thread   *)
(* runs it all; the I2C controller and its device, the OTP controller, the *)
(* random number generator and the PCIe link go on beside it.  What the    *)
(* drivers share is the register file.                                     *)
(***************************************************************************)
EXTENDS BoardInitDxe, PciHost, UsbHcd, Emmc, MshcInit, Trng, FdtDxe,
        PlatformMemory, ResetSystem

VARIABLES
    focus,      \* the part whose faults and clients a behaviour is about
    waiting,    \* the drivers that have not been started
    driver,     \* the driver whose entry point was started last
    loaded      \* the drivers that have been started and did not fail

bootVars == <<focus, waiting, driver, loaded>>

vars == <<pc, regs, bootVars, i2cVars, otpVars, boardVars, hostVars, usbVars,
          emmcMode, rngVars, fdtVars, memoryVars>>

\* The drivers of the repository in the order of rk356x.fdf and
\* rock3a.fdf.inc, then one that no .fdf has.  Every dependency expression is
\* TRUE.
DriverOrder == <<"BoardInitDxe", "UsbHcd", "PciHost", "Mshc", "Emmc", "Trng",
                 "Tsadc", "FdtDxe">>
Drivers == {DriverOrder[i] : i \in DOMAIN DriverOrder}

\* The firmware volume leaves these out: EmmcDxe is commented out of the .fdf
\* (the .dsc builds it), FdtDxe is in no .dsc and no .fdf.  A volume with the
\* two is the other possibility.
NotInVolume == {"Emmc", "FdtDxe"}
Volumes == {Drivers \ NotInVolume, Drivers}

\* In a behaviour about one part, the others do not fail and have no clients.
\* "dispatch" is about the drivers' order.
Parts == {"Pei", "dispatch", "I2c", "Otp", "Cru", "UsbHcd", "Emmc", "Trng",
          "PciHost", "FdtDxe", "Reset"}

------------------------------------------------------------------------------
(* What the boot ROM, the loader and the secure firmware leave behind.       *)

\* A PLL at 200 MHz, and combo PHYs 0 and 1 at the crystal or at a fraction
\* of half of that: 100, 50 or 25 MHz.
PpllBits == ({<<"PMUPLL", 0, 0>>} \X (Bits(100, 0) \cup {14}))
              \cup ({<<"PMUPLL", 0, 1>>} \X {0, 1, 6, 12})

PhyClocks == {{}} \cup {{PMUCLKSEL9} \X ({3, 7} \cup Bits(div, 0) \cup Bits(div, 4)) :
                          div \in {0, 1, 3}}

ResetRegs ==
    PpllBits \cup Dwc3Initial \cup {<<HCON, 7>>}
      \cup ({<<"SOFTRST", 28>>} \X {5, 7, 9})
      \cup {<<<<"SOFTRST", 10>>, 1>>, <<<<"SOFTRST", 12>>, 1>>, <<<<"SOFTRST", 13>>, 4>>}
      \cup ({<<"GATE", 12>>, <<"GATE", 13>>} \X (0..5))
      \cup {<<Con(i, 3), b>> : i \in 0..2, b \in {13}}

UsualFdt == [valid |-> TRUE, memory |-> 1, stdout |-> "loader"]
UsualDram == CHOOSE d \in Drams : TRUE

Init ==
    /\ pc = <<"Pei", "memory">>
    /\ focus \in Parts
    /\ waiting \in Volumes /\ driver = "none" /\ loaded = {}
    /\ regs \in {ResetRegs \cup phy : phy \in PhyClocks}
    /\ focus # "Cru" => PMUCLKSEL9 \notin {x[1] : x \in regs}
    /\ I2cInitial /\ OtpInitial /\ BoardInitInitial /\ SegInitial /\ bridge = "none"
    /\ UsbInitial /\ EmmcInitial /\ RngInitial /\ FdtInitial /\ MemoryInitial
    /\ focus # "FdtDxe" => fdtBlob = UsualFdt
    /\ focus # "Pei" => dram = UsualDram

------------------------------------------------------------------------------
(* The DXE core. *)

PeiStep ==
    /\ MemoryPeim
    /\ UNCHANGED <<regs, bootVars, i2cVars, otpVars, boardVars, hostVars, usbVars,
                   emmcMode, rngVars, fdtVars>>

NextDrivers ==
    IF focus = "dispatch" THEN waiting
    ELSE {DriverOrder[i] : i \in {j \in DOMAIN DriverOrder :
             DriverOrder[j] \in waiting /\ \A k \in 1..(j - 1) : DriverOrder[k] \notin waiting}}

OthersKept == UNCHANGED <<regs, i2cVars, otpVars, boardVars, hostVars, usbVars,
                          emmcMode, rngVars, fdtVars, memoryVars>>

StartDriver ==
    /\ pc = <<"DxeCore", "dispatch">>
    /\ \E d \in NextDrivers :
         /\ driver' = d /\ waiting' = waiting \ {d} /\ pc' = <<d, "entry">>
    /\ UNCHANGED <<focus, loaded>> /\ OthersKept

DriverReturned ==
    /\ pc[1] = "DxeCore" /\ pc[2] \in {"loaded", "failed"}
    /\ loaded' = IF pc[2] = "loaded" THEN loaded \cup {driver} ELSE loaded
    /\ pc' = <<"DxeCore", "dispatch">>
    /\ UNCHANGED <<focus, waiting, driver>> /\ OthersKept

EndOfDispatch ==
    /\ pc = <<"DxeCore", "dispatch">> /\ waiting = {}
    /\ pc' = <<"Bds", "start">>
    /\ UNCHANGED bootVars /\ OthersKept

------------------------------------------------------------------------------
(* The drivers' entry points. *)

BoardInitDriver ==
    /\ BoardInitStep
    /\ UNCHANGED <<bootVars, hostVars, usbVars, emmcMode, rngVars, fdtVars, memoryVars>>

PciHostDriver ==
    /\ PciHostStep
    /\ UNCHANGED <<bootVars, i2cVars, otpVars, boardVars, usbVars, emmcMode, rngVars,
                   fdtVars, memoryVars>>

UsbHcdDriver ==
    /\ InitializeUsbHcd
    /\ UNCHANGED <<bootVars, i2cVars, otpVars, boardVars, hostVars, emmcMode, rngVars,
                   fdtVars, memoryVars>>

RegisterDrivers ==
    /\ \/ MshcDxeInitialize /\ UNCHANGED emmcMode
       \/ InitializeTsadc /\ UNCHANGED emmcMode
       \/ EmmcDxeInitialize
    /\ UNCHANGED <<bootVars, i2cVars, otpVars, boardVars, hostVars, usbVars, rngVars,
                   fdtVars, memoryVars>>

TrngDriver ==
    /\ TrngStep
    /\ UNCHANGED <<regs, bootVars, i2cVars, otpVars, boardVars, hostVars, usbVars,
                   emmcMode, fdtVars, memoryVars>>

FdtDriver ==
    /\ FdtStep
    /\ UNCHANGED <<regs, bootVars, i2cVars, otpVars, boardVars, hostVars, usbVars,
                   emmcMode, rngVars, memoryVars>>

------------------------------------------------------------------------------
(* The boot manager and the core's drivers. *)

EndOfDxe ==
    /\ pc = <<"Bds", "start">>
    /\ pc' = <<"Bds", "idle">>
    /\ \/ UsbEndOfDxeCallback
       \/ ~endOfDxeEvent /\ UNCHANGED <<regs, usbVars>>
    /\ UNCHANGED <<bootVars, i2cVars, otpVars, boardVars, hostVars, emmcMode, rngVars,
                   fdtVars, memoryVars>>

Idle == pc = <<"Bds", "idle">>

XhciDriver ==
    /\ Idle /\ focus \in {"UsbHcd", "Cru", "dispatch"} /\ UNCHANGED pc
    /\ \E i \in Controllers : InitializeXhciController(i)
    /\ UNCHANGED <<bootVars, i2cVars, otpVars, boardVars, hostVars, emmcMode, rngVars,
                   fdtVars, memoryVars>>

SdMmcDriver ==
    /\ Idle /\ focus = "Emmc" /\ "Emmc" \in loaded /\ UNCHANGED pc
    /\ EmmcSdMmcNotifyPhase
    /\ UNCHANGED <<bootVars, i2cVars, otpVars, boardVars, hostVars, usbVars, rngVars,
                   fdtVars, memoryVars>>

RngClient ==
    /\ Idle /\ "Trng" \in loaded /\ focus = "Trng"
    /\ TrngGetRNG
    /\ UNCHANGED <<regs, bootVars, i2cVars, otpVars, boardVars, hostVars, usbVars,
                   emmcMode, fdtVars, memoryVars>>

PciBusDriver ==
    /\ Idle /\ focus = "PciHost" /\ bridge = "exposed" /\ UNCHANGED <<pc, regs, bridge>>
    /\ PciBusStep
    /\ UNCHANGED <<bootVars, i2cVars, otpVars, boardVars, usbVars, emmcMode, rngVars,
                   fdtVars, memoryVars>>

ResetTypes == {"EfiResetWarm", "EfiResetCold", "EfiResetShutdown",
               "EfiResetPlatformSpecific", "another"}

Reset ==
    /\ Idle /\ focus = "Reset"
    /\ UefiMain \/ \E t \in ResetTypes : ResetSystem(t)
    /\ UNCHANGED <<bootVars, i2cVars, otpVars, boardVars, hostVars, usbVars, emmcMode,
                   rngVars, fdtVars, memoryVars>>

Cpu == \/ PeiStep \/ StartDriver \/ DriverReturned \/ EndOfDispatch
       \/ BoardInitDriver \/ PciHostDriver \/ UsbHcdDriver \/ RegisterDrivers
       \/ TrngDriver \/ FdtDriver \/ EndOfDxe

Clients == XhciDriver \/ SdMmcDriver \/ RngClient \/ PciBusDriver \/ Reset

------------------------------------------------------------------------------
(* The hardware. *)

BusHw ==
    /\ BoardInitHw
    /\ UNCHANGED <<bootVars, hostVars, usbVars, emmcMode, rngVars, fdtVars, memoryVars>>

LinkHw ==
    /\ HwLinkUp
    /\ UNCHANGED <<bootVars, i2cVars, otpVars, boardVars, usbVars, emmcMode, rngVars,
                   fdtVars, memoryVars>>

TrngHw ==
    /\ HwTrng
    /\ UNCHANGED <<regs, bootVars, i2cVars, otpVars, boardVars, hostVars, usbVars,
                   emmcMode, fdtVars, memoryVars>>

Hw == BusHw \/ LinkHw \/ TrngHw

\* A part that a behaviour is not about does not fail.
Works ==
    /\ focus # "Pei" => pc' # <<"Pei", "undefined">>
    /\ pc' = <<"DxeCore", "failed">> => driver = focus
    /\ focus # "I2c" => /\ "NAK" \notin ipd'
                        /\ i2cCall'.status \notin {"EFI_TIMEOUT", "EFI_DEVICE_ERROR"}
    /\ focus # "Otp" => ~otpCall'.timedOut
    /\ focus # "Cru" /\ pc = <<"BoardInitDxe", "cpu">> =>
         cpuRate' = "last"
    /\ focus # "PciHost" => bridge' # "EFI_TIMEOUT"
    /\ focus # "UsbHcd" =>
         usbDevices' \in {{}, {"XHCI", "EHCI", "OHCI"} \X Controllers}
    /\ focus # "FdtDxe" /\ pc[1] = "FdtDxe" =>
         \/ pc'[1] = "FdtDxe"
         \/ fdtTable' = {FixUartSpeed(CleanMemoryNodes(fdtBlob))}
    /\ focus \notin {"UsbHcd", "Cru", "dispatch"} /\ pc = <<"Bds", "start">> =>
         usbDevices' = {}

\* The firmware waits for a client, or has ended.
Rest == /\ Idle \/ pc[1] = "Rom" \/ pc = <<"Pei", "undefined">>
        /\ UNCHANGED vars

Next == (Cpu \/ Clients \/ Hw \/ Rest) /\ Works

Spec == Init /\ [][Next]_vars

\* Where the code cannot go on by itself: at rest, and in the loops that no
\* time-out ends - those of parts that work, and that of the OTP once its
\* retry counter has wrapped.
Waits ==
    \/ Idle \/ pc[1] = "Rom" \/ pc = <<"Pei", "undefined">>
    \/ focus # "I2c" /\ I2cPolls /\ ipd = {}
    \/ /\ pc = <<"Otp", "wait">> /\ ~userDone
       /\ focus # "Otp" \/ ~otpCall.retry
    \/ focus # "PciHost" /\ pc = <<"PciHost", "wait">> /\ link = "down"

\* The processor goes on wherever it does not wait (weak fairness of Cpu: that
\* Cpu is enabled wherever Waits is false is what the deadlock check shows, as
\* the hardware takes finitely many steps by itself).  The OTP controller
\* answers, and so does the hardware of parts that do not fail.  Clients never
\* have to ask.
FairSpec ==
    /\ Spec
    /\ []<>Waits \/ []<><<Cpu>>_pc
    /\ WF_vars(HwOtp /\ BusHw)
    /\ WF_vars(focus # "I2c" /\ BusHw)
    /\ WF_vars(focus # "PciHost" /\ LinkHw)

------------------------------------------------------------------------------
BoardTypeOK ==
    /\ waiting \subseteq Drivers /\ loaded \subseteq Drivers \ waiting
    /\ I2cTypeOK /\ OtpTypeOK /\ SegTypeOK /\ UsbTypeOK /\ RngTypeOK /\ FdtTypeOK
    /\ MemoryTypeOK

(* What a driver has set up for its device stays that way when the other    *)
(* drivers of the Rock 3A run, in whatever order: they share clock          *)
(* selectors, resets, and pin registers, and only masks keep them apart.    *)
(* The eMMC's clock does not exceed what its bus mode allows after any      *)
(* sequence of modes.                                                       *)
DriversKept ==
    /\ "Mshc" \in loaded =>
         /\ CruGetSdmmcClockRate(regs, 0) = 100000
         /\ PinsKept(regs, mSdmmc0IomuxConfig) /\ ~InReset(regs, 13, 4)
    /\ "BoardInitDxe" \in loaded =>
         /\ CruGetSdmmcClockRate(regs, 1) = 100000
         /\ PinsKept(regs, mSdmmc1IomuxConfig) /\ GpioPinRead(regs, 2, PB(1))
         /\ PinsKept(regs, mGmac1IomuxConfig) /\ GpioPinRead(regs, 0, PB(7))
         /\ ~InReset(regs, 14, 12)
    /\ "Emmc" \in loaded => PinsKept(regs, mEmmcIomuxConfig)
    /\ EmmcClockFits

(* The boot gets to the boot manager, whatever fails on the way: no driver  *)
(* waits for ever, unless the OTP controller never answers - there the      *)
(* retry counter has wrapped - or there was no memory for the memory map.   *)
BootReachesBds == <>(pc[1] = "Bds" \/ pc = <<"Pei", "undefined">>)
==============================================================================
