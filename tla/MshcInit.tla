------------------------------ MODULE MshcInit -------------------------------
(***************************************************************************)
(* The entry points of MshcDxe and TsadcDxe: the SD controller's clock,    *)
(* reset, pins and FIFO threshold, and the temperature sensor.  What the   *)
(* SD controller does afterwards is in Mshc.                               *)
(***************************************************************************)
EXTENDS Cru, Gpio

mSdmmc0IomuxConfig ==
    Rows(1, <<PD(5), PD(6), PD(7)>>, 1, PullUp, 7)
    \o Rows(2, <<PA(0), PA(1), PA(2)>>, 1, PullUp, 7)
    \o Rows(0, <<PA(4)>>, 1, PullNone, DriveDefault)

------------------------------------------------------------------------------
(* The FIFO asks for service in bursts that divide a block and half the     *)
(* FIFO.                                                                    *)

DWEMMC_BLOCK_SIZE == 512
FifoDepth == 256            \* PcdMshcDxeFifoDepth
HCON == <<"DWEMMC", "HCON">>
FIFOTH == <<"DWEMMC", "FIFOTH">>

FifoWidth(r) == LET w == Field(r, HCON, 7, 9)
                IN  IF w = 0 THEN 2 ELSE IF w = 2 THEN 8 ELSE 4

BurstSize == <<1, 4, 8, 16, 32, 64, 128, 256>>

\* The largest burst that fits; burst 1 always does.
BurstIndex(r) ==
    LET fits(i) == /\ (DWEMMC_BLOCK_SIZE \div FifoWidth(r)) % BurstSize[i] = 0
                   /\ (FifoDepth - FifoDepth \div 2) % BurstSize[i] = 0
    IN  CHOOSE i \in 1..8 : fits(i) /\ \A j \in 1..8 : fits(j) => j <= i

MshcAdjustFifoThreshold(r) ==
    MmioWrite(r, FIFOTH,
              Bits(BurstIndex(r) - 1, 28) \cup Bits(BurstSize[BurstIndex(r)] - 1, 16)
                \cup Bits(FifoDepth \div 2, 0))

\* PcdMshcDxePwrEnUsed is FALSE on both boards.
MshcDxeInitialize ==
    LET clocked == CruSetSdmmcClockRate(regs, 0, 100000)
        reset   == CruDeassertSoftReset(CruAssertSoftReset(clocked, 13, 4), 13, 4)
    IN  /\ pc = <<"Mshc", "entry">>
        /\ regs' = MshcAdjustFifoThreshold(GpioSetIomuxConfig(reset, mSdmmc0IomuxConfig))
        /\ pc' = <<"DxeCore", "loaded">>

------------------------------------------------------------------------------
TSADC(name) == <<"TSADC", name>>

InitializeTsadc ==
    LET user   == MmioWrite(regs, TSADC("USER_CON"), 6..11)
        period == MmioWrite(MmioWrite(user, TSADC("AUTO_PERIOD"), Bits(1622, 0)),
                            TSADC("AUTO_PERIOD_HT"), Bits(1622, 0))
        bounce == MmioWrite(MmioWrite(period, TSADC("HIGHT_INT_DEBOUNCE"), {2}),
                            TSADC("HIGHT_TSHUT_DEBOUNCE"), {2})
        source == MmioWrite(bounce, TSADC("AUTO_CON"), {4, 5})
        analog == HiwordWrite(HiwordWrite(source, <<"GRF_TSADC_CON">>, {8}, {8}),
                              <<"GRF_TSADC_CON">>, 0..2, 0..2)
    IN  /\ pc = <<"Tsadc", "entry">>
        /\ regs' = MmioAndThenOr(analog, TSADC("AUTO_CON"), {}, {0, 1})
        /\ pc' = <<"DxeCore", "loaded">>
==============================================================================
