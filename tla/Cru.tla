--------------------------------- MODULE Cru ---------------------------------
(***************************************************************************)
(* CruLib: clock selection, gates and soft resets, as functions of the     *)
(* register file.  Rates are in kHz.  (The pixel clock's PLL is in         *)
(* Display.)                                                               *)
(***************************************************************************)
EXTENDS Soc

CRU_CLKREF_RATE == 24000
PMUCRU_PPLL == 0

\* PmuCruGetPllRate and CruGetPllRate: the same arithmetic on another block.
PllOutput(r, block, n) ==
    LET Con0 == <<block, n, 0>>
        Con1 == <<block, n, 1>>
        Con2 == <<block, n, 2>>
        Vco  == (CRU_CLKREF_RATE \div Field(r, Con1, 0, 5)) * Field(r, Con0, 0, 11)
        Frac == IF <<Con1, 12>> \in r THEN 0
                ELSE (CRU_CLKREF_RATE * Field(r, Con2, 0, 23)) \div 2^24
    IN  IF <<Con0, 15>> \in r THEN CRU_CLKREF_RATE
        ELSE ((Vco + Frac) \div Field(r, Con0, 12, 14)) \div Field(r, Con1, 6, 8)

PmuCruGetPllRate(r, n) == PllOutput(r, "PMUPLL", n)

------------------------------------------------------------------------------
(* PCIe / USB3 PHY reference clocks: a source bit and a divider per PHY. *)

PMUCLKSEL9 == <<"PMUCLKSEL", 9>>

CruSetPciePhySource(r, Index, Source) ==
    HiwordWrite(r, PMUCLKSEL9, {4 * Index + 3}, Bits(Source, 4 * Index + 3))

CruGetPciePhyClockRate(r, Index) ==
    IF <<PMUCLKSEL9, 4 * Index + 3>> \notin r THEN CRU_CLKREF_RATE
    ELSE (PmuCruGetPllRate(r, PMUCRU_PPLL) \div 2)
           \div (Field(r, PMUCLKSEL9, 4 * Index, 4 * Index + 2) + 1)

------------------------------------------------------------------------------
(* SD and eMMC clocks.  The selectors are values of a mux. *)

CLKSEL28 == <<"CLKSEL", 28>>
CLKSEL30 == <<"CLKSEL", 30>>

SdmmcRates == [s \in 0..5 |-> <<24000, 400000, 300000, 100000, 50000, 750>>[s + 1]]

SdmmcShift(Index) == IF Index = 0 THEN 8 ELSE 12

CruGetSdmmcClockRate(r, Index) ==
    LET Sel == Field(r, CLKSEL30, SdmmcShift(Index), SdmmcShift(Index) + 2)
    IN  IF Sel \in DOMAIN SdmmcRates THEN SdmmcRates[Sel] ELSE 0

\* The slowest rate that is not below the one asked for: at most 400 MHz.
SdmmcSel(Rate) ==
    CHOOSE s \in 0..5 : /\ SdmmcRates[s] >= Rate
                        /\ \A t \in 0..5 : SdmmcRates[t] >= Rate
                                             => SdmmcRates[t] >= SdmmcRates[s]

CruSetSdmmcClockRate(r, Index, Rate) ==
    LET s == SdmmcShift(Index)
    IN  HiwordWrite(r, CLKSEL30, s..(s + 2), Bits(SdmmcSel(Rate), s))

\* The fastest rate of the eMMC's mux that is not above the one asked for.
EmmcRates == [s \in 0..5 |-> <<24000, 200000, 150000, 100000, 50000, 375>>[s + 1]]

EmmcSel(Rate) ==
    IF Rate < 24000 THEN 5
    ELSE CHOOSE s \in 0..4 : /\ EmmcRates[s] <= Rate
                             /\ \A t \in 0..4 : EmmcRates[t] <= Rate
                                                  => EmmcRates[t] <= EmmcRates[s]

CruSetEmmcClockRate(r, Rate) ==
    HiwordWrite(r, CLKSEL28, (8..9) \cup (12..14), Bits(EmmcSel(Rate), 12))

------------------------------------------------------------------------------
(* Gates (a zero lets the clock through) and soft resets (a one holds). *)

CruEnableClock(r, Index, Bit)       == HiwordWrite(r, <<"GATE", Index>>, {Bit}, {})
PmuCruEnableClock(r, Index, Bit)    == HiwordWrite(r, <<"PMUGATE", Index>>, {Bit}, {})
CruAssertSoftReset(r, Index, Bit)   == HiwordWrite(r, <<"SOFTRST", Index>>, {Bit}, {Bit})
CruDeassertSoftReset(r, Index, Bit) == HiwordWrite(r, <<"SOFTRST", Index>>, {Bit}, {})

\* Several gates of one register.
EnableClocks(r, Index, bits) == HiwordWrite(r, <<"GATE", Index>>, bits, {})

InReset(r, Index, Bit) == <<<<"SOFTRST", Index>>, Bit>> \in r
==============================================================================
