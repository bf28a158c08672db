-------------------------------- MODULE Emmc ---------------------------------
(***************************************************************************)
(* EmmcDxe: pins, clock and delay lines of the eMMC controller.  The SD    *)
(* host driver calls NotifyPhase for every controller of the system, in    *)
(* every step of its start-up and at every change of the bus mode.         *)
(***************************************************************************)
EXTENDS Cru, Gpio

VARIABLE emmcMode     \* the bus mode last switched to, "none" before that

EmmcInitial == emmcMode = "none"

mEmmcIomuxConfig ==
    Rows(1, [i \in 1..10 |-> PB(3) + i], 1, PullUp, 7)
    \o Rows(1, <<PC(6)>>, 1, PullNone, DriveDefault)

DLL(name) == <<"EMMC_DLL", name>>

DllOff(r) ==
    MmioWrite(MmioWrite(MmioWrite(MmioWrite(r,
        DLL("CTRL"), {}), DLL("RXCLK"), {29}), DLL("TXCLK"), {}), DLL("STRBIN"), {})

\* The registration and the installation are only asserted.
EmmcDxeInitialize ==
    /\ pc = <<"Emmc", "entry">>
    /\ LET pins == GpioSetIomuxConfig(CruSetEmmcClockRate(regs, 375), mEmmcIomuxConfig)
       IN  regs' = DllOff(MmioWrite(pins, <<"DWCMSHC_HOST_CTRL3">>, {}))
    /\ pc' = <<"DxeCore", "loaded">>
    /\ UNCHANGED emmcMode

MaxClockFreq(Timing) ==
    CASE Timing \in {"HS400", "HS200"} -> 200000
      [] Timing \in {"HsSdr", "HsDdr"} -> 52000
      [] Timing = "legacy"             -> 26000

\* The delay lines are switched on whether the lock was seen or not.
DllOn(r) ==
    MmioWrite(MmioWrite(MmioWrite(MmioWrite(r,
        DLL("CTRL"), {1, 9, 16, 18}), DLL("RXCLK"), {27, 29}),
        DLL("TXCLK"), {4, 24, 27}), DLL("STRBIN"), {0, 1, 27})

SwitchClockFreqPost(r, Timing) ==
    LET clock == CruSetEmmcClockRate(r, MaxClockFreq(Timing))
    IN  IF MaxClockFreq(Timing) < 52000 THEN DllOff(clock) ELSE DllOn(clock)

InitHostPost(r) == MmioAndThenOr(r, <<"EMMC_CLOCK_CTRL">>, {}, {2})

UhsSignaling(r, Timing) ==
    IF Timing = "HS400" THEN MmioAndThenOr(r, <<"EMMC_HOST_CTRL2">>, {}, {0, 1, 2}) ELSE r

\* A phase of another controller or without its data changes nothing.
EmmcSdMmcNotifyPhase ==
    \/ regs' = InitHostPost(regs) /\ UNCHANGED emmcMode
    \/ \E t \in {"HS400", "HS200", "HsSdr", "HsDdr", "legacy"} :
         \/ regs' = UhsSignaling(regs, t) /\ UNCHANGED emmcMode
         \/ regs' = SwitchClockFreqPost(regs, t) /\ emmcMode' = t

CruGetEmmcClockRate(r) == EmmcRates[Field(r, CLKSEL28, 12, 14)]

(* After any sequence of bus modes, up and down, the card's clock does not  *)
(* exceed what the mode allows, and the delay lines are on exactly where    *)
(* the clock is 50 MHz or more.                                             *)
EmmcClockFits ==
    emmcMode # "none" =>
        /\ CruGetEmmcClockRate(regs) <= MaxClockFreq(emmcMode)
        /\ <<DLL("CTRL"), 1>> \in regs <=> CruGetEmmcClockRate(regs) >= 50000
        /\ <<DLL("RXCLK"), 27>> \in regs <=> <<DLL("CTRL"), 1>> \in regs
==============================================================================
