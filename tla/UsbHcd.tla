------------------------------- MODULE UsbHcd --------------------------------
(***************************************************************************)
(* UsbHcdInitDxe: registers the USB host controllers when the boot manager *)
(* signals the end of DXE, and prepares a DWC3 core each time the XHCI      *)
(* driver starts on it.  Whether the core can work then depends on what    *)
(* BoardInitDxe did to the combo PHYs and the port power long before.      *)
(***************************************************************************)
EXTENDS MultiPhy, Gpio

VARIABLES
    endOfDxeEvent,   \* the callback is registered
    usbDevices,      \* devices registered, as <<type, index>>
    xhci             \* per controller: "none", "EFI_SUCCESS", "EFI_DEVICE_ERROR"

usbVars == <<endOfDxeEvent, usbDevices, xhci>>

Controllers == {0, 1}

UsbInitial ==
    /\ endOfDxeEvent = FALSE /\ usbDevices = {}
    /\ xhci = [i \in Controllers |-> "none"]

\* The entry point: CreateEventEx may fail, and the driver with it.
InitializeUsbHcd ==
    /\ pc = <<"UsbHcd", "entry">>
    /\ \/ endOfDxeEvent' = TRUE /\ pc' = <<"DxeCore", "loaded">>
       \/ endOfDxeEvent' = FALSE /\ pc' = <<"DxeCore", "failed">>
    /\ UNCHANGED <<regs, usbDevices, xhci>>

\* 0x01ff01d2 to the two or three ports: out of suspend.
UsbPhyEnable(r) ==
    LET on(s, reg) == HiwordWrite(s, reg, 0..8, {1, 4, 6, 7, 8})
    IN  on(on(on(r, <<"USB2PHY_GRF", 0, 1>>), <<"USB2PHY_GRF", 1, 0>>),
           <<"USB2PHY_GRF", 1, 1>>)

\* A registration that fails is only logged.
UsbEndOfDxeCallback ==
    /\ endOfDxeEvent /\ endOfDxeEvent' = FALSE
    /\ regs' = UsbPhyEnable(regs)
    /\ usbDevices' \in SUBSET ({"XHCI", "EHCI", "OHCI"} \X Controllers)
    /\ UNCHANGED xhci

------------------------------------------------------------------------------
(* The DWC3 core of controller i. *)

Dwc3(i, name) == <<"DWC3", i, name>>
Set(r, i, name, bits)   == MmioAndThenOr(r, Dwc3(i, name), {}, bits)
Clear(r, i, name, bits) == MmioAndThenOr(r, Dwc3(i, name), bits, {})

\* The core is held while its two PHYs are reset.
Dwc3CoreSoftReset(r, i) ==
    LET held == Set(Set(Set(r, i, "GCtl", {11}), i, "GUsb3PipeCtl", {31}),
                    i, "GUsb2PhyCfg", {31})
    IN  Clear(Clear(Clear(held, i, "GUsb3PipeCtl", {31}), i, "GUsb2PhyCfg", {31}),
              i, "GCtl", {11})

\* Power optimisation 1 is clock gating; before release 1.90a U2 resets.
Dwc3CoreInit(r, i) ==
    LET reset  == Dwc3CoreSoftReset(r, i)
        gating == IF Field(reset, Dwc3(i, "GHwParams1"), 24, 25) = 1 THEN {0} ELSE {}
        u2rst  == IF Field(reset, Dwc3(i, "GSnpsId"), 0, 15) < 6410 THEN {16} ELSE {}
    IN  MmioAndThenOr(reset, Dwc3(i, "GCtl"), {3, 4, 5} \cup gating, u2rst)

Dwc3SetMode(r, i)  == MmioAndThenOr(r, Dwc3(i, "GCtl"), {12, 13}, {12})
Dwc3SetFladj(r, i) == Set(r, i, "GFLAdj", {5, 7})

XhciCoreInit(r, i) ==
    LET host  == Dwc3SetFladj(Dwc3SetMode(Dwc3CoreInit(r, i), i), i)
        utmi  == MmioAndThenOr(host, Dwc3(i, "GUsb2PhyCfg"), 10..13, {10, 12, 3})
        quirk == Clear(Clear(utmi, i, "GUsb2PhyCfg", {0, 6, 30}),
                       i, "GUsb3PipeCtl", {18})
    IN  MmioAndThenOr(Set(quirk, i, "GUctl1", {28}), Dwc3(i, "DCfg"), 0..2, {2})

XhciSetBeatBurstLength(r, i) ==
    Set(MmioAndThenOr(r, Dwc3(i, "GSBusCfg0"), 0..7, 0..3), i, "GSBusCfg1", 8..11)

IsDwc3(r, i) == Field(r, Dwc3(i, "GSnpsId"), 16, 31) = 21811      \* "U3"

InitializeXhciController(i) ==
    /\ <<"XHCI", i>> \in usbDevices
    /\ IF IsDwc3(regs, i)
       THEN /\ regs' = XhciSetBeatBurstLength(XhciCoreInit(regs, i), i)
            /\ xhci' = [xhci EXCEPT ![i] = EFI_SUCCESS]
       ELSE /\ regs' = regs
            /\ xhci' = [xhci EXCEPT ![i] = "EFI_DEVICE_ERROR"]
    /\ UNCHANGED <<endOfDxeEvent, usbDevices>>

------------------------------------------------------------------------------
\* What the controllers are like before: held in reset, in OTG mode, and one
\* of a release that needs U2 resets.
Dwc3Initial ==
    UNION {({Dwc3(i, "GCtl")} \X {0, 3, 11, 12, 13})
             \cup ({Dwc3(i, "GUsb2PhyCfg")} \X {0, 6, 30, 31})
             \cup ({Dwc3(i, "GUsb3PipeCtl")} \X {18, 31})
             \cup ({Dwc3(i, "GSnpsId")} \X (Bits(1363, 20) \cup {16, 17} \cup {12}))
             \cup {<<Dwc3(i, "GHwParams1"), 24>>} : i \in Controllers}

UsbTypeOK ==
    /\ endOfDxeEvent \in BOOLEAN
    /\ usbDevices \subseteq {"XHCI", "EHCI", "OHCI"} \X Controllers
    /\ xhci \in [Controllers -> {"none", EFI_SUCCESS, "EFI_DEVICE_ERROR"}]

(* A controller the XHCI driver has started can drive its port: the core is *)
(* out of reset and in host mode, both its PHYs are, its combo PHY runs as  *)
(* USB3 at the clock it is given, and the port has power.  PHYs and power   *)
(* are the work of the board's own driver: BoardInitDxe of the Rock 3A does *)
(* it, BoardInitDxe3588test does not (its lines 448-455 are comments).      *)
XhciReady ==
    \A i \in Controllers :
      xhci[i] = EFI_SUCCESS =>
        /\ Field(regs, Dwc3(i, "GCtl"), 11, 13) = 2
        /\ <<Dwc3(i, "GUsb2PhyCfg"), 31>> \notin regs
        /\ <<Dwc3(i, "GUsb3PipeCtl"), 31>> \notin regs
        /\ PhyServes(regs, i, "USB3")
        /\ GpioPinRead(regs, 0, PA(5)) /\ GpioPinRead(regs, 0, PA(6))
==============================================================================
