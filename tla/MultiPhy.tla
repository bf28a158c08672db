------------------------------ MODULE MultiPhy -------------------------------
(***************************************************************************)
(* MultiPhyLib: the three combo PHYs of the RK3568.  PHY 2 serves PCIe, 0   *)
(* and 1 serve USB3.  A mode is set with the PHY held in reset; a function *)
(* that fails returns with the reset still asserted.                       *)
(***************************************************************************)
EXTENDS Cru

Con(i, n)  == <<"PIPE_GRF", i, n>>
Phy(i, n)  == <<"PIPE_PHY", i, n>>
SoftRstBit(i) == 5 + 2 * i

\* PHY_CLK_SEL for a reference rate in kHz; no entry: the PHY cannot use it.
PhyClkSel == [rate \in {24000, 25000, 100000} |->
                 IF rate = 24000 THEN 0 ELSE IF rate = 25000 THEN 1 ELSE 2]

SetClkSel(r, i, rate) == HiwordWrite(r, Con(i, 1), 13..14, Bits(PhyClkSel[rate], 13))

MultiPhySetModePcie(r, i) ==
    LET ssc  == MmioAndThenOr(r, Phy(i, 32), 4..7, {4})
        con0 == HiwordWrite(ssc, Con(i, 0), 0..15, {12})
        con1 == HiwordWrite(con0, Con(i, 1), 0..15, {})
        con2 == HiwordWrite(con1, Con(i, 2), 0..15, {0, 8})
        con3 == HiwordWrite(con2, Con(i, 3), 0..15, {9})
        rate == CruGetPciePhyClockRate(con3, i)
        m33  == MmioAndThenOr(con3, Phy(i, 33), 2..4, {3})
        m12  == MmioWrite(m33, Phy(i, 12), {2})
        m06  == MmioAndThenOr(m12, Phy(i, 6), 6..7, {6})
        m18  == MmioWrite(m06, Phy(i, 18), {1, 4, 5})
        m11  == MmioWrite(m18, Phy(i, 11), 4..7)
    IN  IF rate \notin DOMAIN PhyClkSel
        THEN [regs |-> con3, status |-> "EFI_DEVICE_ERROR"]
        ELSE [regs |-> SetClkSel(IF rate = 100000 THEN m11 ELSE con3, i, rate),
              status |-> EFI_SUCCESS]

\* Fault: it does not.
FaultKeepsClock(r, i) == r

\* The reference clock falls back to the 24 MHz crystal.
Usb3Clock(r, i) ==
    IF CruGetPciePhyClockRate(r, i) \in DOMAIN PhyClkSel THEN r
    ELSE CruSetPciePhySource(r, i, 0)

MultiPhySetModeUsb3(r, i) ==
    LET ssc  == MmioAndThenOr(r, Phy(i, 32), 4..5, {4})
        ctle == MmioAndThenOr(ssc, Phy(i, 15), {}, {0})
        con3 == HiwordWrite(ctle, Con(i, 3), 13..14, {13})
        con2 == HiwordWrite(con3, Con(i, 2), {12, 15}, {})
        con0 == HiwordWrite(con2, Con(i, 0), 0..5, {0, 2})
        src  == Usb3Clock(con0, i)
        rate == CruGetPciePhyClockRate(src, i)
        m15  == MmioAndThenOr(src, Phy(i, 15), 6..7, {6})
        m16  == MmioAndThenOr(m15, Phy(i, 16), 0..7, (0..4) \cup {6})
    IN  IF rate \notin DOMAIN PhyClkSel
        THEN [regs |-> src, status |-> "EFI_DEVICE_ERROR"]
        ELSE [regs |-> SetClkSel(IF rate = 24000 THEN m16 ELSE src, i, rate),
              status |-> EFI_SUCCESS]

MultiPhySetMode(r, i, mode) ==
    LET held == CruAssertSoftReset(r, 28, SoftRstBit(i))
        set  == IF mode = "PCIE" THEN MultiPhySetModePcie(held, i)
                                 ELSE MultiPhySetModeUsb3(held, i)
    IN  IF set.status # EFI_SUCCESS THEN set
        ELSE [set EXCEPT !.regs = CruDeassertSoftReset(@, 28, SoftRstBit(i))]

------------------------------------------------------------------------------
\* PHY i runs for `mode': out of reset, its interface set for that mode and
\* its clock selector set for the reference clock it gets.
PhyServes(r, i, mode) ==
    /\ ~InReset(r, 28, SoftRstBit(i))
    /\ Field(r, Con(i, 0), 2, 3) = IF mode = "PCIE" THEN 0 ELSE 1
    /\ Field(r, Con(i, 3), 13, 14) = IF mode = "PCIE" THEN 0 ELSE 1
    /\ CruGetPciePhyClockRate(r, i) \in DOMAIN PhyClkSel
    /\ Field(r, Con(i, 1), 13, 14) = PhyClkSel[CruGetPciePhyClockRate(r, i)]
==============================================================================
