------------------------------ MODULE Display ------------------------------
(***************************************************************************)
(* The graphics output driver (Drivers/DisplayDxe): driver binding and the *)
(* graphics output protocol in DisplayDxe.c, the scan-out engine in        *)
(* Vop2.c, the HDMI transmitter and its PHY in DwHdmi*.c, the pixel clock  *)
(* in CruLib.  The firmware is sequential, but the engine scans memory and *)
(* the PHY drives the cable while it works, so a call is cut into steps    *)
(* where memory, the engine or the PHY change hands.                       *)
(*                                                                         *)
(* Left out: register writes that no later step depends on, the wait for   *)
(* the two PLLs (a release build goes on in the same way whether they lock *)
(* or not), and resolutions without timings (mCurrentTimings is NULL).     *)
(* External: the boot services, the clients of the protocol, the hardware. *)
(***************************************************************************)
EXTENDS Integers, Sequences

CONSTANT Frames     \* page numbers at which AllocatePages finds room below 4 GB

TopPage == 1048575  \* the page of SIZE_4GB - 1

ASSUME FramesAssumption == Frames \subseteq 0 .. TopPage - 1

VARIABLES
  pc,
  res,               \* PcdSetupVideo*Resolution: one of the two with timings
  job,               \* what DisplaySetMode was called for: "start" or "client"
  opened,            \* the driver holds the controller (BY_DRIVER)
  gop,               \* the graphics output protocol is installed
  Mode, Info,        \* gDisplayProto.Mode and ->Info are not NULL
  current,           \* what the two say: resolution and FrameBufferBase
  pools,             \* blocks of pool the driver has allocated
  mFbBase, mFbNumPages,
  live,              \* framebuffers allocated from the boot services
  combined,          \* framebuffers mapped write-combining
  content,           \* of the framebuffer
  vop,               \* scan-out: on, base, width, height, kHz it is timed for
  hpll,              \* dividers of the pixel clock's PLL, <<>> at reset
  fc,                \* kHz the frame composer is set up for
  phy,               \* PHY: tx power, power down (pddq), tmds, its two tables
  pass               \* of the PHY's initialisation

driverVars == <<pc, job>>
gopVars == <<opened, gop, Mode, Info, current, pools>>
frameVars == <<mFbBase, mFbNumPages, live, combined>>
hdmiVars == <<fc, phy, pass>>
vars == <<res, driverVars, gopVars, frameVars, content, vop, hpll, hdmiVars>>

-----------------------------------------------------------------------------
(* Tables and arithmetic.                                                  *)

DisplayMode720p == [kHz |-> 74250, HDisplay |-> 1280, VDisplay |-> 720]
DisplayMode1080p == [kHz |-> 148500, HDisplay |-> 1920, VDisplay |-> 1080]
Timings == {DisplayMode720p, DisplayMode1080p}
KHz == {t.kHz : t \in Timings}
Resolutions == {<<t.HDisplay, t.VDisplay>> : t \in Timings}

CurrentTimings == CHOOSE t \in Timings : t.HDisplay = res[1] /\ t.VDisplay = res[2]

\* Fault: three bytes for a pixel of four.
FaultThreeBytes(width, height) == width * height * 3

FramebufferSize(width, height) == width * height * 4

PagesFor(width, height) == (FramebufferSize(width, height) + 4095) \div 4096

\* CruPllRates; the reference clock is 24000 kHz.
CruPllRates ==
  { [rate |-> 200000, RefDiv |-> 1, FbDiv |-> 100, PostDiv1 |-> 3, PostDiv2 |-> 4],
    [rate |-> 148500, RefDiv |-> 1, FbDiv |-> 99, PostDiv1 |-> 4, PostDiv2 |-> 4],
    [rate |-> 74250, RefDiv |-> 2, FbDiv |-> 99, PostDiv1 |-> 4, PostDiv2 |-> 4] }

CruFindPllRate(rate) == CHOOSE p \in CruPllRates : p.rate = rate

\* The rate that the dividers in the registers give.
PllRate(p) == (((24000 \div p.RefDiv) * p.FbDiv) \div p.PostDiv1) \div p.PostDiv2

\* Rows of the PHY's tables by their highest clock; 0 ends a table.
MpllConfig == <<40000, 65000, 66000, 83500, 146250, 148500, 272000, 340000, 0>>
PhyConfig == <<74250, 148500, 297000, 594000, 0>>

\* Fault: the row must be strictly above the clock.
FaultRowAbove(table, clock) ==
  CHOOSE i \in DOMAIN table :
    /\ clock < table[i] \/ table[i] = 0
    /\ \A j \in 1 .. i - 1 : table[j] <= clock /\ table[j] # 0

\* The first row that reaches the clock, or the one that ends the table.
RowFor(table, clock) ==
  CHOOSE i \in DOMAIN table :
    /\ clock <= table[i] \/ table[i] = 0
    /\ \A j \in 1 .. i - 1 : table[j] < clock /\ table[j] # 0

Zero == [width |-> 0, height |-> 0, base |-> 0]
NoScan == [on |-> FALSE, base |-> 0, width |-> 0, height |-> 0, kHz |-> 0]

Init ==
  /\ pc = "idle" /\ job = "start"
  /\ res \in Resolutions
  /\ opened = FALSE /\ gop = FALSE /\ Mode = FALSE /\ Info = FALSE
  /\ current = Zero /\ pools = 0
  /\ mFbBase = 0 /\ mFbNumPages = 0 /\ live = {} /\ combined = {}
  /\ content = "garbage"
  /\ vop = NoScan /\ hpll = <<>> /\ fc = 0
  /\ phy \in [tx : {FALSE}, pddq : BOOLEAN, tmds : {FALSE}, mpll : {0}, config : {0}]
  /\ pass = 1

Goto(l) == pc' = l

-----------------------------------------------------------------------------
(* DriverStart.  The core calls it when DriverSupported finds no protocol  *)
(* on the controller, and OpenProtocol refuses a second driver.            *)

Start ==
  /\ pc = "idle" /\ ~gop /\ ~opened
  /\ opened' = TRUE /\ job' = "start"
  /\ Goto("allocMode")
  /\ UNCHANGED <<res, gop, Mode, Info, current, pools, frameVars, content, vop, hpll, hdmiVars>>

Fails ==
  /\ Goto("failed")
  /\ UNCHANGED <<job, gopVars>>

AllocMode ==
  /\ pc = "allocMode"
  /\ \/ /\ Mode' = TRUE /\ pools' = pools + 1 /\ current' = Zero
        /\ Goto("allocInfo")
        /\ UNCHANGED <<opened, gop, Info, job>>
     \/ Fails
  /\ UNCHANGED <<res, frameVars, content, vop, hpll, hdmiVars>>

AllocInfo ==
  /\ pc = "allocInfo"
  /\ \/ /\ Info' = TRUE /\ pools' = pools + 1
        /\ Goto("framebuffer")
        /\ UNCHANGED <<opened, gop, Mode, current, job>>
     \/ Fails
  /\ UNCHANGED <<res, frameVars, content, vop, hpll, hdmiVars>>

\* The status of DisplaySetMode plays no part.
Install ==
  /\ pc = "install"
  /\ \/ /\ gop' = TRUE /\ Goto("idle")
        /\ UNCHANGED <<opened, Mode, Info, current, pools, job>>
     \/ Fails
  /\ UNCHANGED <<res, frameVars, content, vop, hpll, hdmiVars>>

\* Fault: the controller stays open after an error.
FaultStaysOpen ==
  /\ pc = "failed" /\ Mode
  /\ Mode' = FALSE /\ Info' = FALSE /\ pools' = 0
  /\ Goto("idle")
  /\ UNCHANGED <<res, job, opened, gop, current, frameVars, content, vop, hpll, hdmiVars>>

CleanUp ==
  /\ pc = "failed" /\ Mode
  /\ Mode' = FALSE /\ Info' = FALSE
  /\ pools' = pools - (IF Info THEN 2 ELSE 1)
  /\ opened' = FALSE /\ Goto("idle")
  /\ UNCHANGED <<res, job, gop, current, frameVars, content, vop, hpll, hdmiVars>>

\* Mode is what could not be allocated: its Info is read through a NULL
\* pointer.  The access faults, or finds something and the rest is done.
CleanUpWithoutMode ==
  /\ pc = "failed" /\ ~Mode
  /\ \/ opened' = FALSE /\ Goto("idle")
     \/ opened' = opened /\ Goto("fault")
  /\ UNCHANGED <<res, job, gop, Mode, Info, current, pools, frameVars, content,
                 vop, hpll, hdmiVars>>

-----------------------------------------------------------------------------
(* DisplaySetMode, called by DriverStart and by clients.                   *)

ClientSetMode ==
  /\ pc = "idle" /\ gop
  /\ job' = "client" /\ Goto("framebuffer")
  /\ UNCHANGED <<res, gopVars, frameVars, content, vop, hpll, hdmiVars>>

\* The caller goes on, whatever DisplaySetMode has to say.
Returned == Goto(IF job = "start" THEN "install" ELSE "idle")

Needed == PagesFor(res[1], res[2])
Kept == live \ (IF mFbNumPages # 0 THEN {mFbBase} ELSE {})

KeepFramebuffer ==
  /\ pc = "framebuffer" /\ mFbNumPages >= Needed
  /\ Goto("attributes")
  /\ UNCHANGED <<res, job, gopVars, frameVars, content, vop, hpll, hdmiVars>>

\* The old one is given back first.
NewFramebuffer ==
  /\ pc = "framebuffer" /\ mFbNumPages < Needed
  /\ \/ \E b \in Frames \ Kept :
          /\ mFbBase' = b /\ mFbNumPages' = Needed
          /\ live' = Kept \cup {b} /\ combined' = combined \ {b}
          /\ content' = "garbage" /\ Goto("attributes")
     \/ /\ mFbBase' = TopPage /\ mFbNumPages' = 0
        /\ live' = Kept
        /\ Returned
        /\ UNCHANGED <<combined, content>>
  /\ UNCHANGED <<res, job, gopVars, vop, hpll, hdmiVars>>

SetAttributes ==
  /\ pc = "attributes"
  /\ \/ /\ combined' = combined \cup {mFbBase}
        /\ current' = [width |-> res[1], height |-> res[2], base |-> mFbBase]
        /\ Goto("clear")
     \/ /\ Returned
        /\ UNCHANGED <<combined, current>>
  /\ UNCHANGED <<res, job, opened, gop, Mode, Info, pools,
                 mFbBase, mFbNumPages, live, content, vop, hpll, hdmiVars>>

Filled == IF current.width = 0 THEN content ELSE "black"

ClearScreen ==
  /\ pc = "clear"
  /\ content' = Filled /\ Goto("vop")
  /\ UNCHANGED <<res, job, gopVars, frameVars, vop, hpll, hdmiVars>>

-----------------------------------------------------------------------------
(* Vop2SetMode and DwHdmiEnable.                                           *)

CruSetHdmiClockRate == hpll' = CruFindPllRate(CurrentTimings.kHz)

SetClock ==
  /\ pc = "vop"
  /\ CruSetHdmiClockRate /\ Goto("scan")
  /\ UNCHANGED <<res, job, gopVars, frameVars, content, vop, hdmiVars>>

\* Timings, layer, output mode, out of stand-by, commit.
Scan ==
  /\ pc = "scan"
  /\ vop' = [on |-> TRUE, base |-> current.base, kHz |-> CurrentTimings.kHz,
             width |-> CurrentTimings.HDisplay, height |-> CurrentTimings.VDisplay]
  /\ Goto("bridge")
  /\ UNCHANGED <<res, job, gopVars, frameVars, content, hpll, hdmiVars>>

BridgeEnable ==
  /\ pc = "bridge"
  /\ fc' = CurrentTimings.kHz /\ pass' = 1 /\ Goto("phyOff")
  /\ UNCHANGED <<res, job, gopVars, frameVars, content, vop, hpll, phy>>

\* Fault: the PHY's transmitter keeps its power.
FaultTxStaysOn ==
  /\ pc = "phyOff"
  /\ phy' = [phy EXCEPT !.tmds = FALSE, !.pddq = TRUE]
  /\ Goto("phyReset")
  /\ UNCHANGED <<res, job, gopVars, frameVars, content, vop, hpll, fc, pass>>

PhyOff ==
  /\ pc = "phyOff"
  /\ phy' = [phy EXCEPT !.tmds = FALSE, !.tx = FALSE, !.pddq = TRUE]
  /\ Goto("phyReset")
  /\ UNCHANGED <<res, job, gopVars, frameVars, content, vop, hpll, fc, pass>>

PhyReset ==
  /\ pc = "phyReset"
  /\ phy' = [phy EXCEPT !.mpll = 0, !.config = 0]
  /\ Goto("phyTables")
  /\ UNCHANGED <<res, job, gopVars, frameVars, content, vop, hpll, fc, pass>>

\* The rows for the clock.  The PHY is assumed to take what is written:
\* DwHdmiPhyWaitI2cDone does not tell.
PhyTables ==
  /\ pc = "phyTables"
  /\ phy' = [phy EXCEPT !.mpll = RowFor(MpllConfig, CurrentTimings.kHz),
                        !.config = RowFor(PhyConfig, CurrentTimings.kHz)]
  /\ Goto("phyOn")
  /\ UNCHANGED <<res, job, gopVars, frameVars, content, vop, hpll, fc, pass>>

\* Fault: one pass too many.
FaultThreePasses ==
  /\ pc = "phyOn"
  /\ phy' = [phy EXCEPT !.tmds = TRUE, !.tx = TRUE, !.pddq = FALSE]
  /\ \/ /\ pass <= 2 /\ pass' = pass + 1 /\ Goto("phyOff")
     \/ /\ pass > 2 /\ pass' = pass /\ Returned
  /\ UNCHANGED <<res, job, gopVars, frameVars, content, vop, hpll, fc>>

\* The sequence is gone through twice; its status plays no part.
PhyOn ==
  /\ pc = "phyOn"
  /\ phy' = [phy EXCEPT !.tmds = TRUE, !.tx = TRUE, !.pddq = FALSE]
  /\ \/ /\ pass = 1 /\ pass' = 2 /\ Goto("phyOff")
     \/ /\ pass = 2 /\ pass' = pass /\ Returned
  /\ UNCHANGED <<res, job, gopVars, frameVars, content, vop, hpll, fc>>

-----------------------------------------------------------------------------
(* DriverStop.                                                             *)

\* Fault: the picture stays.
FaultStopKeepsPicture ==
  /\ pc = "idle" /\ gop
  /\ Goto("uninstall")
  /\ UNCHANGED <<res, job, gopVars, frameVars, content, vop, hpll, hdmiVars>>

Stop ==
  /\ pc = "idle" /\ gop
  /\ content' = Filled /\ Goto("uninstall")
  /\ UNCHANGED <<res, job, gopVars, frameVars, vop, hpll, hdmiVars>>

\* The framebuffer stays, and stays scanned.
Uninstall ==
  /\ pc = "uninstall"
  /\ \/ /\ gop' = FALSE /\ opened' = FALSE
        /\ Mode' = FALSE /\ Info' = FALSE /\ pools' = pools - 2
     \/ UNCHANGED <<gop, opened, Mode, Info, pools>>
  /\ Goto("idle")
  /\ UNCHANGED <<res, job, current, frameVars, content, vop, hpll, hdmiVars>>

-----------------------------------------------------------------------------
(* Clients: DisplayBlt to the screen inside the resolution that Mode->Info *)
(* gives; an operating system takes over and draws by itself.              *)

\* The offset of a pixel in DisplayBlt (POS_TO_FB).
PixelOffset(x, y) == (y * current.width + x) * 4

Draw ==
  /\ pc \in {"idle", "os"} /\ gop /\ current.width # 0
  /\ content' = "drawn"
  /\ UNCHANGED <<res, driverVars, gopVars, frameVars, vop, hpll, hdmiVars>>

\* Fault: memory of the boot services.
FaultBootMemory == "EfiBootServicesData"

FramebufferType == "EfiRuntimeServicesData"

\* What the boot services have given out is the operating system's.
ExitBootServices ==
  /\ pc = "idle" /\ Goto("os")
  /\ live' = IF FramebufferType = "EfiRuntimeServicesData" THEN live ELSE {}
  /\ UNCHANGED <<res, job, gopVars, mFbBase, mFbNumPages, combined, content,
                 vop, hpll, hdmiVars>>

Next ==
  \/ Start \/ AllocMode \/ AllocInfo \/ Install \/ CleanUp \/ CleanUpWithoutMode
  \/ ClientSetMode \/ KeepFramebuffer \/ NewFramebuffer \/ SetAttributes \/ ClearScreen
  \/ SetClock \/ Scan \/ BridgeEnable \/ PhyOff \/ PhyReset \/ PhyTables \/ PhyOn
  \/ Stop \/ Uninstall \/ Draw \/ ExitBootServices

Spec == Init /\ [][Next]_vars

-----------------------------------------------------------------------------
PCs == {"idle", "allocMode", "allocInfo", "install", "failed", "framebuffer", "attributes",
        "clear", "vop", "scan", "bridge", "phyOff", "phyReset", "phyTables", "phyOn",
        "uninstall", "os", "fault"}

(* The variables keep their types; so the tables have a row for each clock *)
(* that is asked for, and the PHY is gone through twice and no more.       *)
TypeOK ==
  /\ pc \in PCs /\ job \in {"start", "client"}
  /\ res \in Resolutions
  /\ opened \in BOOLEAN /\ gop \in BOOLEAN /\ Mode \in BOOLEAN /\ Info \in BOOLEAN
  /\ current \in [width : {0, 1280, 1920}, height : {0, 720, 1080}, base : Frames \cup {0}]
  /\ pools \in 0 .. 2
  /\ mFbBase \in 0 .. TopPage /\ mFbNumPages \in Nat
  /\ live \subseteq Frames /\ combined \subseteq Frames
  /\ content \in {"garbage", "black", "drawn"}
  /\ vop \in [on : BOOLEAN, base : Frames \cup {0}, width : {0, 1280, 1920},
              height : {0, 720, 1080}, kHz : {0} \cup KHz]
  /\ hpll \in {<<>>} \cup CruPllRates /\ fc \in {0} \cup KHz
  /\ phy \in [tx : BOOLEAN, pddq : BOOLEAN, tmds : BOOLEAN,
              mpll : 0 .. Len(MpllConfig), config : 0 .. Len(PhyConfig)]
  /\ pass \in 1 .. 2

(* What the engine scans is allocated, mapped write-combining and as large *)
(* as its window, at every moment: during a change of mode, after any      *)
(* failure, after the driver has stopped, and in the operating system,     *)
(* which no code of the driver tells that the engine runs.                 *)
ScanBacked ==
  vop.on =>
    /\ vop.base = mFbBase /\ vop.base \in live \cap combined
    /\ FramebufferSize(vop.width, vop.height) <= mFbNumPages * 4096

(* What a client is told of the mode it can rely on between calls: the     *)
(* base is a framebuffer that is allocated and scanned, in the size that   *)
(* the scan-out has, and any rectangle inside it lies inside its pages.    *)
ModeDescribesScan ==
  (pc \in {"idle", "os"} /\ gop /\ current.width # 0) =>
    /\ vop = [on |-> TRUE, base |-> current.base, width |-> current.width,
              height |-> current.height, kHz |-> vop.kHz]
    /\ current.base \in live
    /\ \A x \in {0, 1, current.width - 1}, y \in {0, 1, current.height - 1} :
         PixelOffset(x, y) + 4 <= mFbNumPages * 4096

(* Between calls the driver holds its two blocks of pool and the           *)
(* controller when the protocol is installed, and nothing when it is not:  *)
(* however a start ended, the next one can begin.                          *)
Balanced ==
  pc = "idle" =>
    /\ pools = (IF gop THEN 2 ELSE 0)
    /\ opened = gop /\ Mode = gop /\ Info = gop

(* The PHY is reset, and its tables are written, only while its trans-     *)
(* mitter has no power and it is powered down: in the second pass, and in  *)
(* later changes of mode, it was on before.                                *)
TablesWhileOff ==
  [][phy'.mpll # phy.mpll \/ phy'.config # phy.config => ~phy.tx /\ phy.pddq]_vars

(* When a call is over and the PHY sends, all agree on one pixel clock:    *)
(* the dividers of the PLL give it, scan-out and frame composer are timed  *)
(* for it, and the PHY's tables are set for the smallest range it is in.   *)
OneClock ==
  (pc \in {"idle", "os"} /\ phy.tx) =>
    /\ vop.kHz = PllRate(hpll) /\ fc = PllRate(hpll)
    /\ \A row \in {<<MpllConfig, phy.mpll>>, <<PhyConfig, phy.config>>} :
         /\ PllRate(hpll) <= row[1][row[2]]
         /\ \A j \in DOMAIN row[1] :
              row[1][j] # 0 /\ PllRate(hpll) <= row[1][j] => row[1][row[2]] <= row[1][j]

(* What is seen on the screen.                                             *)
Shown ==
  IF vop.on THEN [garbage |-> "garbage", black |-> "blank", drawn |-> "picture"][content]
            ELSE "dark"

Promise == INSTANCE Screen WITH offered <- gop, shown <- Shown

(* The driver keeps what Screen promises: the engine never shows memory    *)
(* that nobody has drawn, and no picture outlives the protocol.            *)
ScreenPromise == Promise!Spec

(* "Both set the mode and initialize current mode information", says the   *)
(* comment in DriverStart: a client of the installed protocol finds the    *)
(* resolution that DisplayQueryMode gives for the current mode.            *)
StartedWithMode == gop => current.width = res[1] /\ current.height = res[2]
=============================================================================
