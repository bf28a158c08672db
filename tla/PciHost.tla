------------------------------ MODULE PciHost --------------------------------
(***************************************************************************)
(* PciHostBridgeLib: the PCIe 2.0 root complex.  PciHostBridgeDxe asks for *)
(* the root bridges once; the library powers the slot, sets the controller *)
(* up, opens the address windows, starts the link and exposes a bridge if  *)
(* the link is up within two seconds.  A link that comes up later stays    *)
(* unused.                                                                 *)
(***************************************************************************)
EXTENDS PciSegment, MultiPhy, Gpio

VARIABLE bridge     \* "none", "EFI_TIMEOUT" or "exposed"

hostVars == <<link, atu, cfg, pciReq, bridge>>

PCIE_POWER_GPIO_BANK == 0
PCIE_POWER_GPIO_PIN  == 28
PCIE_RESET_GPIO_BANK == 2
PCIE_RESET_GPIO_PIN  == 30
PCIE_LINK_SPEED      == 1

GENERAL_CON == <<"PCIE_APB", "GENERAL_CON">>

PAt(point) == pc = <<"PciHost", point>>
PGoto(point) == pc' = <<"PciHost", point>>

PciSetupClocks(r) ==
    EnableClocks(CruDeassertSoftReset(
        EnableClocks(CruDeassertSoftReset(r, 10, 1), 12, 0..5), 12, 1), 13, 0..5)

Pcie30Phy(r) ==
    LET on     == CruEnableClock(PmuCruEnableClock(PmuCruEnableClock(r, 2, 13), 2, 14), 33, 8)
        held   == CruAssertSoftReset(on, 27, 14)
        clamp  == HiwordWrite(held, <<"PCIE30_PHY_GRF", 9>>, 0..15, {15})
        split  == HiwordWrite(clamp, <<"PCIE30_PHY_GRF", 6>>, 0..15, {0})
        lane   == HiwordWrite(split, <<"PCIE30_PHY_GRF", 1>>, 0..15, {15})
    IN  CruDeassertSoftReset(lane, 27, 14)

\* The status of MultiPhySetMode is dropped.
PciPowerUp ==
    LET phy == MultiPhySetMode(CruSetPciePhySource(regs, 2, 0), 2, "PCIE").regs
        on  == Output(Pcie30Phy(phy), PCIE_POWER_GPIO_BANK, PCIE_POWER_GPIO_PIN, 1)
    IN  /\ PAt("entry")
        /\ regs' = PciSetupClocks(on) /\ PGoto("setup")
        /\ UNCHANGED hostVars

\* The registers of the DBI that are read-only are unlocked for the time they
\* are written.
Unlock(c) == c \cup {<<"rootPort", 2236, 0>>}
Lock(c)   == c \ {<<"rootPort", 2236, 0>>}

BridgeClass == {2, 9, 10}      \* 0x0604

PciSetRcMode(r) ==
    HiwordWrite(MmioAndThenOr(r, <<"PCIE_APB", "HOT_RESET_CTRL">>, {}, {4}),
                GENERAL_CON, 4..7, {6})

\* Setting DIRECT_SPEED_CHANGE is bit 17 of PL_GEN2_CTRL_OFF.
PciSetupBars(c) ==
    LET class == Store(Unlock(c), "rootPort", 10, 2, BridgeClass)
    IN  Lock(class \cup {<<"rootPort", 2062, 1>>})

PciSetupLinkSpeed(c, Speed) ==
    LET speed(d, off) == Store(d, "rootPort", off, 1,
                               (Load(d, "rootPort", off, 1) \ (0..3)) \cup Bits(Speed, 0))
    IN  Lock(speed(speed(Unlock(c), 124), 160))

PciSetup ==
    /\ PAt("setup")
    /\ regs' = PciSetRcMode(regs)
    /\ cfg' = PciSetupLinkSpeed(PciSetupBars(cfg), PCIE_LINK_SPEED)
    /\ PGoto("perst")
    /\ UNCHANGED <<link, atu, pciReq, bridge>>

\* PERST# is active for a second.
PciReset ==
    /\ PAt("perst")
    /\ regs' = Output(regs, PCIE_RESET_GPIO_BANK, PCIE_RESET_GPIO_PIN, 0)
    /\ PGoto("windows")
    /\ UNCHANGED hostVars

PciSetupAtu(type, base, pages, target) ==
    [type |-> type, base |-> base, pages |-> pages, target |-> target]

\* Fault: the first window covers the device numbers up to the next bus.
FaultWideWindow == [i \in {0} |-> PciSetupAtu("CFG0", 256, 256, 256)]

Outbound == [i \in 0..2 |-> <<PciSetupAtu("CFG0", 256, 16, 256),
                              PciSetupAtu("CFG1", 512, 65536 - 528, 512),
                              PciSetupAtu("IO", 196592, 16, 0)>>[i + 1]]

\* PERST# is released and the three windows are opened.
PciWindows ==
    /\ PAt("windows")
    /\ regs' = GpioPinWrite(regs, PCIE_RESET_GPIO_BANK, PCIE_RESET_GPIO_PIN, 1)
    /\ atu' = Outbound
    /\ PGoto("ltssm")
    /\ UNCHANGED <<link, cfg, pciReq, bridge>>

PciEnableLtssm(r, Enable) ==
    HiwordWrite(r, GENERAL_CON, {2, 3}, IF Enable THEN {2, 3} ELSE {3})

PciStartLink ==
    /\ PAt("ltssm")
    /\ regs' = PciEnableLtssm(MmioWrite(PciEnableLtssm(regs, FALSE),
                                        <<"PCIE_APB", "DEBUG_INFO">>, {}), TRUE)
    /\ PGoto("wait")
    /\ UNCHANGED hostVars

\* One of twenty looks sees the link up, or none does.
PciIsLinkUp ==
    /\ PAt("wait") /\ link = "up"
    /\ bridge' = "exposed"
    /\ pc' = <<"DxeCore", "loaded">>
    /\ UNCHANGED <<regs, segVars>>

\* Fault: the link is started again without end.
FaultTriesAgain ==
    /\ PAt("wait") /\ link = "down"
    /\ PGoto("ltssm")
    /\ UNCHANGED <<regs, hostVars>>

PciTimeout ==
    /\ PAt("wait") /\ link = "down"
    /\ bridge' = "EFI_TIMEOUT"
    /\ pc' = <<"DxeCore", "loaded">>
    /\ UNCHANGED <<regs, segVars>>

PciHostStep == \/ PciPowerUp \/ PciSetup \/ PciReset \/ PciWindows
               \/ PciStartLink \/ PciIsLinkUp \/ PciTimeout

------------------------------------------------------------------------------
(* The link trains, if there is a device, once everything is in place. *)

High(r, bank, pin) ==
    /\ <<<<"DDR", bank, pin \div 16>>, pin % 16>> \in r
    /\ <<<<"DR", bank, pin \div 16>>, pin % 16>> \in r

PcieClocked(r) ==
    /\ \A g \in {12, 13}, b \in 0..5 : <<<<"GATE", g>>, b>> \notin r
    /\ ~InReset(r, 10, 1)

HwLinkUp ==
    /\ link = "down"
    /\ <<GENERAL_CON, 2>> \in regs
    /\ PcieClocked(regs) /\ PhyServes(regs, 2, "PCIE")
    /\ High(regs, PCIE_POWER_GPIO_BANK, PCIE_POWER_GPIO_PIN)
    /\ High(regs, PCIE_RESET_GPIO_BANK, PCIE_RESET_GPIO_PIN)
    /\ link' = "up"
    /\ UNCHANGED <<regs, pc, atu, cfg, pciReq, bridge>>

------------------------------------------------------------------------------
(* PciHostBridgeGetRootBridges: what PciBusDxe is told of a bridge, in       *)
(* pages above the slave interface's base.                                  *)

IoBase == 0
IoPages == 16
IoTranslation == 262128       \* 0x3BFFF0000
Mem64Base == 65536            \* 0x390000000
Mem64Pages == 196592

BridgeWindows == [io    |-> [base |-> IoTranslation + IoBase, pages |-> IoPages],
                  mem64 |-> [base |-> Mem64Base, pages |-> Mem64Pages]]

(* A bridge that is exposed can be used: its link was up, its PHY, clocks,  *)
(* power and reset pin are as the link needs them, it is in root complex    *)
(* mode, it presents itself as a PCI bridge with the speed that was asked   *)
(* for, and its read-only registers are locked - whatever drivers ran       *)
(* before, after and in between on the registers they all share.  A probe   *)
(* finds the root port at 0.0 and the device behind the link at 1.0, and    *)
(* neither a second time: the device answers to every number, only the      *)
(* window keeps the others away from it.                                    *)
BridgeReady ==
    bridge = "exposed" =>
        /\ link = "up"
        /\ PhyServes(regs, 2, "PCIE") /\ PcieClocked(regs)
        /\ High(regs, PCIE_POWER_GPIO_BANK, PCIE_POWER_GPIO_PIN)
        /\ High(regs, PCIE_RESET_GPIO_BANK, PCIE_RESET_GPIO_PIN)
        /\ Field(regs, GENERAL_CON, 4, 7) = 4
        /\ Load(cfg, "rootPort", 10, 2) = BridgeClass
        /\ Load(cfg, "rootPort", 124, 1) \cap (0..3) = Bits(PCIE_LINK_SPEED, 0)
        /\ ~Unlocked(cfg)
        /\ \A bus \in 0..1, dev \in 0..31 :
             PciSegmentRead16(cfg, [bus |-> bus, dev |-> dev, off |-> 8]) # 0..15
               <=> dev = 0

(* The I/O window the operating system is told of reaches I/O address 0 of  *)
(* the bus.  (It does not: PcdPciIoTranslation and the ACPI table say       *)
(* 0x3BFFF0000, region 2 is set to 0x3AFFF0000, inside the 64-bit memory     *)
(* window.)                                                                 *)
IoReachesIo ==
    bridge = "exposed" =>
        \E i \in DOMAIN atu : /\ atu[i].type = "IO"
                              /\ InRegion(BridgeWindows.io.base, atu[i])
==============================================================================
