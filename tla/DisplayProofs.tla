--------------------------- MODULE DisplayProofs ---------------------------
(***************************************************************************)
(* For every set of pages in which the boot services may find room: the    *)
(* driver's safety properties and its refinement of Screen.                *)
(***************************************************************************)
EXTENDS Display, TLAPS

InSetMode == {"framebuffer", "attributes", "clear", "vop", "scan", "bridge",
              "phyOff", "phyReset", "phyTables", "phyOn"}

(* The driver's account of what it holds, at every step of a call.         *)
Account ==
  /\ gop => opened /\ Mode /\ Info /\ pools = 2
  /\ Info => Mode /\ pools = 2
  /\ Mode /\ ~Info => pools = 1
  /\ ~Mode => pools = 0
  /\ pc \in {"idle", "os"} => opened = gop /\ Mode = gop /\ Info = gop
  /\ pc \in {"allocMode", "allocInfo", "install", "failed"} => job = "start"
  /\ pc = "allocMode" => ~gop /\ opened /\ ~Mode
  /\ pc = "allocInfo" => ~gop /\ opened /\ Mode /\ ~Info
  /\ pc \in {"install"} \/ (pc \in InSetMode /\ job = "start") => ~gop /\ opened /\ Mode /\ Info
  /\ pc \in InSetMode /\ job = "client" => gop
  /\ pc = "failed" => ~gop /\ opened
  /\ pc = "uninstall" => gop
  /\ pc = "fault" => ~gop

(* The framebuffer is allocated as long as its pages are counted, and is   *)
(* as large as the resolution of this build needs.                         *)
Held ==
  /\ mFbNumPages # 0 => mFbNumPages = Needed /\ mFbBase \in live
  /\ pc \in {"attributes", "clear", "vop", "scan"} => mFbNumPages # 0
  /\ pc \in {"clear", "vop", "scan"} =>
       /\ mFbBase \in combined
       /\ current = [width |-> res[1], height |-> res[2], base |-> mFbBase]
  /\ pc \in {"vop", "scan"} => content = "black"

(* What Mode says is the framebuffer, and, once the call that set it has   *)
(* pointed the engine there, what is scanned.                              *)
Described ==
  current.width # 0 =>
    /\ current = [width |-> res[1], height |-> res[2], base |-> mFbBase]
    /\ mFbNumPages # 0
    /\ pc \notin {"clear", "vop", "scan"} => vop.on

(* The engine scans the framebuffer, in the window of this build.          *)
Scanned ==
  vop.on => /\ mFbNumPages # 0 /\ mFbBase \in combined
            /\ vop = [on |-> TRUE, base |-> mFbBase, width |-> res[1], height |-> res[2],
                      kHz |-> CurrentTimings.kHz]
            /\ content # "garbage"
            /\ ~gop \/ pc = "uninstall" \/ current.width = 0 => content = "black"

(* Nothing is drawn that is not scanned.                                   *)
Undrawn == content = "drawn" => vop.on

(* The transmitter is off while the tables are written.                    *)
Quiet == pc \in {"phyReset", "phyTables"} => ~phy.tx /\ phy.pddq

IInv == TypeOK /\ Account /\ Held /\ Described /\ Scanned /\ Undrawn /\ Quiet

-----------------------------------------------------------------------------
(* The tables *)

\* The build's resolution has timings.
LEMMA TimingsFacts ==
  ASSUME res \in Resolutions
  PROVE  /\ CurrentTimings \in Timings
         /\ CurrentTimings.HDisplay = res[1] /\ CurrentTimings.VDisplay = res[2]
         /\ CurrentTimings.kHz \in KHz
         /\ res \in {<<1280, 720>>, <<1920, 1080>>}
<1>1. \E t \in Timings : t.HDisplay = res[1] /\ t.VDisplay = res[2]
  BY DEF Timings, Resolutions
<1>2. CurrentTimings \in Timings /\ CurrentTimings.HDisplay = res[1] /\ CurrentTimings.VDisplay = res[2]
  BY <1>1 DEF CurrentTimings
<1> QED
  BY <1>2 DEF Timings, Resolutions, KHz, DisplayMode720p, DisplayMode1080p

\* Every page number of a framebuffer, and of none, is below 4 GB.
LEMMA TopPageFacts == TopPage \in Nat /\ \A p \in Frames \cup {0, TopPage} : p \in 0 .. TopPage
<1>1. TopPage \in Nat
  BY SMT DEF TopPage
<1> QED
  BY <1>1, FramesAssumption, SMT

\* The pixel clock has a row in the table of the PLL.
LEMMA PllFacts ==
  ASSUME NEW kHz \in KHz
  PROVE  CruFindPllRate(kHz) \in CruPllRates
<1>1. \E p \in CruPllRates : p.rate = kHz
  BY DEF KHz, Timings, DisplayMode720p, DisplayMode1080p, CruPllRates
<1> QED
  BY <1>1 DEF CruFindPllRate

\* The pixel clock has a row in the tables of the PHY.
LEMMA RowFacts ==
  ASSUME NEW kHz \in KHz
  PROVE  /\ RowFor(MpllConfig, kHz) \in 0 .. Len(MpllConfig)
         /\ RowFor(PhyConfig, kHz) \in 0 .. Len(PhyConfig)
<1>1. kHz \in {74250, 148500}
  BY DEF KHz, Timings, DisplayMode720p, DisplayMode1080p
<1>2. \E i \in DOMAIN MpllConfig :
        /\ kHz <= MpllConfig[i] \/ MpllConfig[i] = 0
        /\ \A j \in 1 .. i - 1 : MpllConfig[j] < kHz /\ MpllConfig[j] # 0
  <2>1. CASE kHz = 74250
    <3>1. 4 \in DOMAIN MpllConfig
      BY DEF MpllConfig
    <3> QED
      BY <2>1, <3>1 DEF MpllConfig
  <2>2. CASE kHz = 148500
    <3>1. 6 \in DOMAIN MpllConfig
      BY DEF MpllConfig
    <3> QED
      BY <2>2, <3>1 DEF MpllConfig
  <2> QED
    BY <1>1, <2>1, <2>2
<1>3. \E i \in DOMAIN PhyConfig :
        /\ kHz <= PhyConfig[i] \/ PhyConfig[i] = 0
        /\ \A j \in 1 .. i - 1 : PhyConfig[j] < kHz /\ PhyConfig[j] # 0
  <2>1. CASE kHz = 74250
    <3>1. 1 \in DOMAIN PhyConfig
      BY DEF PhyConfig
    <3> QED
      BY <2>1, <3>1 DEF PhyConfig
  <2>2. CASE kHz = 148500
    <3>1. 2 \in DOMAIN PhyConfig
      BY DEF PhyConfig
    <3> QED
      BY <2>2, <3>1 DEF PhyConfig
  <2> QED
    BY <1>1, <2>1, <2>2
<1>4. RowFor(MpllConfig, kHz) \in DOMAIN MpllConfig
  BY <1>2 DEF RowFor
<1>5. RowFor(PhyConfig, kHz) \in DOMAIN PhyConfig
  BY <1>3 DEF RowFor
<1> QED
  BY <1>4, <1>5 DEF MpllConfig, PhyConfig

\* A PHY that has been reset holds no row.
LEMMA TableFacts == 0 \in 0 .. Len(MpllConfig) /\ 0 \in 0 .. Len(PhyConfig)
  BY DEF MpllConfig, PhyConfig

\* The pages of a framebuffer hold it.
LEMMA NeededFacts ==
  ASSUME res \in {<<1280, 720>>, <<1920, 1080>>}
  PROVE  Needed \in Nat \ {0} /\ FramebufferSize(res[1], res[2]) <= Needed * 4096
<1>1. CASE res = <<1280, 720>>
  <2>1. res[1] = 1280 /\ res[2] = 720
    BY <1>1
  <2>2. Needed = 900 /\ FramebufferSize(res[1], res[2]) = 3686400
    BY <2>1 DEF Needed, PagesFor, FramebufferSize
  <2> QED
    BY <2>2
<1>2. CASE res = <<1920, 1080>>
  <2>1. res[1] = 1920 /\ res[2] = 1080
    BY <1>2
  <2>2. Needed = 2025 /\ FramebufferSize(res[1], res[2]) = 8294400
    BY <2>1 DEF Needed, PagesFor, FramebufferSize
  <2> QED
    BY <2>2
<1> QED
  BY <1>1, <1>2

-----------------------------------------------------------------------------
(* The invariant *)

LEMMA InitInv == Init => IInv
<1> SUFFICES ASSUME Init PROVE IInv
  OBVIOUS
<1>1. TypeOK
  <2>1. phy \in [tx : BOOLEAN, pddq : BOOLEAN, tmds : BOOLEAN,
                 mpll : 0 .. Len(MpllConfig), config : 0 .. Len(PhyConfig)]
    <3>1. phy \in [tx : {FALSE}, pddq : BOOLEAN, tmds : {FALSE}, mpll : {0}, config : {0}]
      BY DEF Init
    <3> QED
      BY <3>1, TableFacts
  <2>2. current \in [width : {0, 1280, 1920}, height : {0, 720, 1080}, base : Frames \cup {0}]
    BY DEF Init, Zero
  <2>3. vop \in [on : BOOLEAN, base : Frames \cup {0}, width : {0, 1280, 1920},
                height : {0, 720, 1080}, kHz : {0} \cup KHz]
    BY DEF Init, NoScan
  <2>4. 0 \in 0 .. TopPage
    BY TopPageFacts
  <2>5. mFbBase \in 0 .. TopPage /\ mFbNumPages \in Nat /\ pass \in 1 .. 2 /\ pools \in 0 .. 2
    BY <2>4 DEF Init
  <2>6. pc \in PCs /\ job \in {"start", "client"} /\ content \in {"garbage", "black", "drawn"}
    BY DEF Init, PCs
  <2>7. /\ opened \in BOOLEAN /\ gop \in BOOLEAN /\ Mode \in BOOLEAN /\ Info \in BOOLEAN
        /\ live \subseteq Frames /\ combined \subseteq Frames
        /\ hpll \in {<<>>} \cup CruPllRates /\ fc \in {0} \cup KHz
    BY DEF Init
  <2>8. res \in Resolutions
    BY DEF Init
  <2> QED
    BY <2>1, <2>2, <2>3, <2>5, <2>6, <2>7, <2>8 DEF TypeOK
<1>2. Account /\ Held /\ Described /\ Scanned /\ Undrawn /\ Quiet
  BY DEF Init, Account, Held, Described, Scanned, Undrawn, Quiet, InSetMode, Zero, NoScan
<1> QED
  BY <1>1, <1>2 DEF IInv

\* The build does not change, nor what follows from it.
LEMMA SameBuild ==
  ASSUME TypeOK, [Next]_vars
  PROVE  /\ res' = res /\ Needed' = Needed /\ CurrentTimings' = CurrentTimings
         /\ CurrentTimings.HDisplay = res[1] /\ CurrentTimings.VDisplay = res[2]
         /\ CurrentTimings.kHz \in KHz
         /\ Needed \in Nat \ {0}
         /\ res[1] \in {1280, 1920} /\ res[2] \in {720, 1080}
<1>1. res' = res
  BY SMT DEF Next, vars, Start, AllocMode, AllocInfo, Install, CleanUp, CleanUpWithoutMode,
    ClientSetMode, KeepFramebuffer, NewFramebuffer, SetAttributes, ClearScreen, SetClock, Scan,
    BridgeEnable, PhyOff, PhyReset, PhyTables, PhyOn, Stop, Uninstall, Draw, ExitBootServices
<1>2. Needed' = Needed /\ CurrentTimings' = CurrentTimings
  BY <1>1 DEF Needed, CurrentTimings
<1>3. res \in Resolutions
  BY DEF TypeOK
<1>4. res \in {<<1280, 720>>, <<1920, 1080>>}
  BY <1>3, TimingsFacts
<1>5. res[1] \in {1280, 1920} /\ res[2] \in {720, 1080}
  BY <1>4
<1> QED
  BY <1>1, <1>2, <1>3, <1>4, <1>5, TimingsFacts, NeededFacts

LEMMA NextInv == IInv /\ [Next]_vars => IInv'
<1> SUFFICES ASSUME IInv, [Next]_vars PROVE IInv'
  OBVIOUS
<1>0. /\ res' = res /\ Needed' = Needed /\ CurrentTimings' = CurrentTimings
      /\ CurrentTimings.HDisplay = res[1] /\ CurrentTimings.VDisplay = res[2]
      /\ CurrentTimings.kHz \in KHz
      /\ Needed \in Nat \ {0}
      /\ res[1] \in {1280, 1920} /\ res[2] \in {720, 1080}
  BY SameBuild DEF IInv
<1>t. /\ opened \in BOOLEAN /\ gop \in BOOLEAN /\ Mode \in BOOLEAN /\ Info \in BOOLEAN
      /\ pools \in 0 .. 2 /\ job \in {"start", "client"}
  BY DEF IInv, TypeOK
<1>p. phy \in [tx : BOOLEAN, pddq : BOOLEAN, tmds : BOOLEAN,
               mpll : 0 .. Len(MpllConfig), config : 0 .. Len(PhyConfig)]
  BY DEF IInv, TypeOK
<1>1. CASE Start
  <2>1. TypeOK'
    BY <1>1, <1>0 DEF IInv, TypeOK, PCs, Start, Goto, vars, driverVars, gopVars, frameVars, hdmiVars
  <2>2. Account'
    BY <1>1, <1>0, <1>t DEF IInv, Account, InSetMode, Start, Goto, vars, driverVars, gopVars, frameVars, hdmiVars
  <2>3. Held'
    BY <1>1, <1>0 DEF IInv, Held, Start, Goto, vars, driverVars, gopVars, frameVars, hdmiVars
  <2>4. Described'
    BY <1>1, <1>0 DEF IInv, Described, Held, Start, Goto, vars, driverVars, gopVars, frameVars, hdmiVars
  <2>5. Scanned' /\ Undrawn'
    BY <1>1, <1>0 DEF IInv, Scanned, Undrawn, Described, Held, Start, Goto, vars, driverVars, gopVars, frameVars, hdmiVars
  <2>6. Quiet'
    BY <1>1, <1>0 DEF IInv, Quiet, Start, Goto, vars, driverVars, gopVars, frameVars, hdmiVars
  <2> QED
    BY <2>1, <2>2, <2>3, <2>4, <2>5, <2>6 DEF IInv
<1>f. ASSUME Fails, pc \in {"allocMode", "allocInfo", "install"},
             UNCHANGED <<res, frameVars, content, vop, hpll, hdmiVars>>
      PROVE  IInv'
  <2>1. TypeOK'
    BY <1>f DEF IInv, TypeOK, PCs, Fails, Goto, driverVars, gopVars, frameVars, hdmiVars
  <2>2. Account'
    BY <1>f, <1>t DEF IInv, Account, InSetMode, Fails, Goto, driverVars, gopVars, frameVars, hdmiVars
  <2>3. Held' /\ Described'
    BY <1>f, <1>0 DEF IInv, Held, Described, Fails, Goto, driverVars, gopVars, frameVars, hdmiVars
  <2>4. Scanned' /\ Undrawn'
    BY <1>f, <1>0 DEF IInv, Scanned, Undrawn, Fails, Goto, driverVars, gopVars, frameVars, hdmiVars
  <2>5. Quiet'
    BY <1>f DEF IInv, Quiet, Fails, Goto, driverVars, gopVars, frameVars, hdmiVars
  <2> QED
    BY <2>1, <2>2, <2>3, <2>4, <2>5 DEF IInv
<1>2. CASE AllocMode
  <2>1. pc = "allocMode" /\ UNCHANGED <<res, frameVars, content, vop, hpll, hdmiVars>>
    BY <1>2 DEF AllocMode
  <2>2. ASSUME Mode' = TRUE, pools' = pools + 1, current' = Zero, pc' = "allocInfo",
               UNCHANGED <<opened, gop, Info, job>>
        PROVE  IInv'
    <3>1. current' \in [width : {0, 1280, 1920}, height : {0, 720, 1080}, base : Frames \cup {0}]
      BY <2>2 DEF Zero
    <3>2. Account'
      BY <2>1, <2>2, <1>t DEF IInv, Account, InSetMode
    <3>3. pools' \in 0 .. 2
      BY <2>1, <2>2, <1>t DEF IInv, Account
    <3>4. TypeOK'
      BY <2>1, <2>2, <3>1, <3>3 DEF IInv, TypeOK, PCs, Goto, driverVars, gopVars, frameVars, hdmiVars
    <3>5. Held' /\ Described'
      BY <2>1, <2>2, <1>0 DEF IInv, Held, Described, Zero, Goto, driverVars, gopVars, frameVars, hdmiVars
    <3>6. ~gop
      BY <2>1 DEF IInv, Account
    <3>7. Scanned' /\ Undrawn'
      BY <2>1, <2>2, <3>6, <1>0 DEF IInv, Scanned, Undrawn, Goto, driverVars, gopVars, frameVars, hdmiVars
    <3>8. Quiet'
      BY <2>1, <2>2 DEF IInv, Quiet, Goto, driverVars, gopVars, frameVars, hdmiVars
    <3> QED
      BY <3>2, <3>4, <3>5, <3>7, <3>8 DEF IInv
  <2> QED
    BY <1>2, <1>f, <2>1, <2>2 DEF AllocMode, Goto
<1>3. CASE AllocInfo
  <2>1. pc = "allocInfo" /\ UNCHANGED <<res, frameVars, content, vop, hpll, hdmiVars>>
    BY <1>3 DEF AllocInfo
  <2>2. ASSUME Info' = TRUE, pools' = pools + 1, pc' = "framebuffer",
               UNCHANGED <<opened, gop, Mode, current, job>>
        PROVE  IInv'
    <3>1. job = "start"
      BY <2>1, <1>t DEF IInv, Account
    <3>2. Account'
      BY <2>1, <2>2, <3>1, <1>t DEF IInv, Account, InSetMode
    <3>3. pools' \in 0 .. 2
      BY <2>1, <2>2, <1>t DEF IInv, Account
    <3>4. TypeOK'
      BY <2>1, <2>2, <3>3 DEF IInv, TypeOK, PCs, Goto, driverVars, gopVars, frameVars, hdmiVars
    <3>5. Held' /\ Described'
      BY <2>1, <2>2, <1>0 DEF IInv, Held, Described, Goto, driverVars, gopVars, frameVars, hdmiVars
    <3>6. Scanned' /\ Undrawn'
      BY <2>1, <2>2, <1>0 DEF IInv, Scanned, Undrawn, Goto, driverVars, gopVars, frameVars, hdmiVars
    <3>7. Quiet'
      BY <2>1, <2>2 DEF IInv, Quiet, Goto, driverVars, gopVars, frameVars, hdmiVars
    <3> QED
      BY <3>2, <3>4, <3>5, <3>6, <3>7 DEF IInv
  <2> QED
    BY <1>3, <1>f, <2>1, <2>2 DEF AllocInfo, Goto
<1>4. CASE Install
  <2>1. pc = "install" /\ UNCHANGED <<res, frameVars, content, vop, hpll, hdmiVars>>
    BY <1>4 DEF Install
  <2>2. ASSUME gop' = TRUE, pc' = "idle", UNCHANGED <<opened, Mode, Info, current, pools, job>>
        PROVE  IInv'
    <3>1. TypeOK'
      BY <2>1, <2>2 DEF IInv, TypeOK, PCs, Goto, driverVars, gopVars, frameVars, hdmiVars
    <3>2. Account'
      BY <2>1, <2>2, <1>t DEF IInv, Account, InSetMode
    <3>3. Held' /\ Described'
      BY <2>1, <2>2, <1>0 DEF IInv, Held, Described, Goto, driverVars, gopVars, frameVars, hdmiVars
    <3>4. ~gop
      BY <2>1 DEF IInv, Account
    <3>5. Scanned' /\ Undrawn'
      BY <2>1, <2>2, <3>4, <1>0 DEF IInv, Scanned, Undrawn, Goto, driverVars, gopVars, frameVars, hdmiVars
    <3>6. Quiet'
      BY <2>1, <2>2 DEF IInv, Quiet, Goto, driverVars, gopVars, frameVars, hdmiVars
    <3> QED
      BY <3>1, <3>2, <3>3, <3>5, <3>6 DEF IInv
  <2> QED
    BY <1>4, <1>f, <2>1, <2>2 DEF Install, Goto
<1>5. CASE CleanUp
  <2>0. /\ pc = "failed" /\ Mode' = FALSE /\ Info' = FALSE /\ opened' = FALSE /\ pc' = "idle"
        /\ ~gop /\ pools' = 0 /\ gop' = gop
    <3>1. CASE Info
      BY <1>5, <1>t, <3>1 DEF IInv, Account, CleanUp, Goto
    <3>2. CASE ~Info
      BY <1>5, <1>t, <3>2 DEF IInv, Account, CleanUp, Goto
    <3> QED
      BY <3>1, <3>2
  <2>1. TypeOK'
    <3>1. UNCHANGED <<res, job, current, frameVars, content, vop, hpll, hdmiVars>>
      BY <1>5 DEF CleanUp
    <3>2. opened' \in BOOLEAN /\ gop' \in BOOLEAN /\ Mode' \in BOOLEAN /\ Info' \in BOOLEAN
      BY <2>0, <1>t
    <3>3. pools' \in 0 .. 2
      BY <2>0
    <3> QED
      BY <3>1, <3>2, <3>3, <2>0 DEF IInv, TypeOK, PCs, Goto, driverVars, gopVars, frameVars, hdmiVars
  <2>2. Account'
    BY <2>0, <1>t DEF Account, InSetMode
  <2>3. Held'
    BY <1>5, <1>0 DEF IInv, Held, CleanUp, Goto, vars, driverVars, gopVars, frameVars, hdmiVars
  <2>4. Described'
    BY <1>5, <1>0 DEF IInv, Described, Held, CleanUp, Goto, vars, driverVars, gopVars, frameVars, hdmiVars
  <2>5. Scanned' /\ Undrawn'
    BY <1>5, <1>0 DEF IInv, Scanned, Undrawn, Described, Held, CleanUp, Goto, vars, driverVars, gopVars, frameVars, hdmiVars
  <2>6. Quiet'
    BY <1>5, <1>0 DEF IInv, Quiet, CleanUp, Goto, vars, driverVars, gopVars, frameVars, hdmiVars
  <2> QED
    BY <2>1, <2>2, <2>3, <2>4, <2>5, <2>6 DEF IInv
<1>6. CASE CleanUpWithoutMode
  <2>0. /\ pc = "failed" /\ Mode = FALSE /\ Info = FALSE /\ gop = FALSE /\ pools = 0
        /\ opened' \in BOOLEAN /\ pc' \in {"idle", "fault"} /\ (pc' = "idle" => opened' = FALSE)
        /\ UNCHANGED <<res, job, gop, Mode, Info, current, pools, frameVars, content, vop, hpll, hdmiVars>>
    BY <1>6, <1>t DEF IInv, Account, CleanUpWithoutMode, Goto
  <2>1. TypeOK'
    BY <2>0 DEF IInv, TypeOK, PCs, Goto, driverVars, gopVars, frameVars, hdmiVars
  <2>2. Account'
    BY <2>0 DEF Account, InSetMode
  <2>3. Held'
    BY <1>6, <1>0 DEF IInv, Held, CleanUpWithoutMode, Goto, vars, driverVars, gopVars, frameVars, hdmiVars
  <2>4. Described'
    BY <1>6, <1>0 DEF IInv, Described, Held, CleanUpWithoutMode, Goto, vars, driverVars, gopVars, frameVars, hdmiVars
  <2>5. Scanned' /\ Undrawn'
    BY <1>6, <1>0 DEF IInv, Scanned, Undrawn, Described, Held, CleanUpWithoutMode, Goto, vars, driverVars, gopVars, frameVars, hdmiVars
  <2>6. Quiet'
    BY <1>6, <1>0 DEF IInv, Quiet, CleanUpWithoutMode, Goto, vars, driverVars, gopVars, frameVars, hdmiVars
  <2> QED
    BY <2>1, <2>2, <2>3, <2>4, <2>5, <2>6 DEF IInv
<1>7. CASE ClientSetMode
  <2>1. TypeOK'
    BY <1>7, <1>0 DEF IInv, TypeOK, PCs, ClientSetMode, Goto, vars, driverVars, gopVars, frameVars, hdmiVars
  <2>2. Account'
    BY <1>7, <1>0, <1>t DEF IInv, Account, InSetMode, ClientSetMode, Goto, vars, driverVars, gopVars, frameVars, hdmiVars
  <2>3. Held'
    BY <1>7, <1>0 DEF IInv, Held, ClientSetMode, Goto, vars, driverVars, gopVars, frameVars, hdmiVars
  <2>4. Described'
    BY <1>7, <1>0 DEF IInv, Described, Held, ClientSetMode, Goto, vars, driverVars, gopVars, frameVars, hdmiVars
  <2>5. Scanned' /\ Undrawn'
    BY <1>7, <1>0 DEF IInv, Scanned, Undrawn, Described, Held, ClientSetMode, Goto, vars, driverVars, gopVars, frameVars, hdmiVars
  <2>6. Quiet'
    BY <1>7, <1>0 DEF IInv, Quiet, ClientSetMode, Goto, vars, driverVars, gopVars, frameVars, hdmiVars
  <2> QED
    BY <2>1, <2>2, <2>3, <2>4, <2>5, <2>6 DEF IInv
<1>8. CASE KeepFramebuffer
  <2>1. TypeOK'
    BY <1>8, <1>0 DEF IInv, TypeOK, PCs, KeepFramebuffer, Goto, vars, driverVars, gopVars, frameVars, hdmiVars
  <2>2. Account'
    BY <1>8, <1>0, <1>t DEF IInv, Account, InSetMode, KeepFramebuffer, Goto, vars, driverVars, gopVars, frameVars, hdmiVars
  <2>3. Held'
    BY <1>8, <1>0 DEF IInv, Held, KeepFramebuffer, Goto, vars, driverVars, gopVars, frameVars, hdmiVars
  <2>4. Described'
    BY <1>8, <1>0 DEF IInv, Described, Held, KeepFramebuffer, Goto, vars, driverVars, gopVars, frameVars, hdmiVars
  <2>5. Scanned' /\ Undrawn'
    BY <1>8, <1>0 DEF IInv, Scanned, Undrawn, Described, Held, KeepFramebuffer, Goto, vars, driverVars, gopVars, frameVars, hdmiVars
  <2>6. Quiet'
    BY <1>8, <1>0 DEF IInv, Quiet, KeepFramebuffer, Goto, vars, driverVars, gopVars, frameVars, hdmiVars
  <2> QED
    BY <2>1, <2>2, <2>3, <2>4, <2>5, <2>6 DEF IInv
<1>9. CASE NewFramebuffer
  <2>0. /\ pc = "framebuffer" /\ UNCHANGED <<res, job, gopVars, vop, hpll, hdmiVars>>
        /\ pc' \in {"attributes", "install", "idle"} /\ content' \in {"garbage", content}
    BY <1>9 DEF NewFramebuffer, Goto, Returned
  <2>a. /\ mFbBase' \in Frames \cup {TopPage} /\ mFbNumPages' \in {Needed, 0}
        /\ live' \subseteq live \cup {mFbBase'} /\ live' \ live \subseteq Frames /\ combined' \subseteq combined
    BY <1>9 DEF NewFramebuffer, Kept
  <2>1. TypeOK'
    <3>1. mFbBase' \in 0 .. TopPage /\ mFbNumPages' \in Nat
      BY <2>a, <1>0, TopPageFacts
    <3>2. live' \subseteq Frames /\ combined' \subseteq Frames
      BY <2>a DEF IInv, TypeOK
    <3> QED
      BY <2>0, <3>1, <3>2 DEF IInv, TypeOK, PCs, Goto, driverVars, gopVars, frameVars, hdmiVars
  <2>2. Account'
    BY <1>9, <1>0, <1>t DEF IInv, Account, InSetMode, NewFramebuffer, Kept, Returned, Goto, vars, driverVars, gopVars, frameVars, hdmiVars
  <2>3. Held'
    BY <1>9, <1>0 DEF IInv, Held, NewFramebuffer, Kept, Returned, Goto, vars, driverVars, gopVars, frameVars, hdmiVars
  <2>4. Described'
    BY <1>9, <1>0 DEF IInv, Described, Held, NewFramebuffer, Kept, Returned, Goto, vars, driverVars, gopVars, frameVars, hdmiVars
  <2>5. Scanned' /\ Undrawn'
    BY <1>9, <1>0 DEF IInv, Scanned, Undrawn, Described, Held, NewFramebuffer, Kept, Returned, Goto, vars, driverVars, gopVars, frameVars, hdmiVars
  <2>6. Quiet'
    BY <1>9, <1>0 DEF IInv, Quiet, NewFramebuffer, Kept, Returned, Goto, vars, driverVars, gopVars, frameVars, hdmiVars
  <2> QED
    BY <2>1, <2>2, <2>3, <2>4, <2>5, <2>6 DEF IInv
<1>10. CASE SetAttributes
  <2>0. /\ pc = "attributes" /\ pc' \in {"clear", "install", "idle"}
        /\ UNCHANGED <<res, job, opened, gop, Mode, Info, pools, mFbBase, mFbNumPages, live, content,
                       vop, hpll, hdmiVars>>
    BY <1>10 DEF SetAttributes, Returned, Goto
  <2>1. TypeOK'
    <3>1. mFbBase \in Frames
      BY <2>0 DEF IInv, Held, TypeOK
    <3>2. combined' \subseteq Frames
      BY <1>10, <3>1 DEF SetAttributes, IInv, TypeOK
    <3>3. current' \in [width : {0, 1280, 1920}, height : {0, 720, 1080}, base : Frames \cup {0}]
      <4>1. \/ current' = current
            \/ current' = [width |-> res[1], height |-> res[2], base |-> mFbBase]
        BY <1>10 DEF SetAttributes
      <4> QED
        BY <4>1, <3>1, <1>0 DEF IInv, TypeOK
    <3> QED
      BY <2>0, <3>2, <3>3 DEF IInv, TypeOK, PCs, Goto, driverVars, gopVars, frameVars, hdmiVars
  <2>2. Account'
    BY <1>10, <1>0, <1>t DEF IInv, Account, InSetMode, SetAttributes, Returned, Goto, vars, driverVars, gopVars, frameVars, hdmiVars
  <2>3. Held'
    BY <1>10, <1>0 DEF IInv, Held, SetAttributes, Returned, Goto, vars, driverVars, gopVars, frameVars, hdmiVars
  <2>4. Described'
    BY <1>10, <1>0 DEF IInv, Described, Held, SetAttributes, Returned, Goto, vars, driverVars, gopVars, frameVars, hdmiVars
  <2>5. Scanned' /\ Undrawn'
    BY <1>10, <1>0 DEF IInv, Scanned, Undrawn, Described, Held, SetAttributes, Returned, Goto, vars, driverVars, gopVars, frameVars, hdmiVars
  <2>6. Quiet'
    BY <1>10, <1>0 DEF IInv, Quiet, SetAttributes, Returned, Goto, vars, driverVars, gopVars, frameVars, hdmiVars
  <2> QED
    BY <2>1, <2>2, <2>3, <2>4, <2>5, <2>6 DEF IInv
<1>11. CASE ClearScreen
  <2>1. TypeOK'
    BY <1>11, <1>0 DEF IInv, TypeOK, PCs, ClearScreen, Filled, Goto, vars, driverVars, gopVars, frameVars, hdmiVars
  <2>2. Account'
    BY <1>11, <1>0, <1>t DEF IInv, Account, InSetMode, ClearScreen, Filled, Goto, vars, driverVars, gopVars, frameVars, hdmiVars
  <2>3. Held'
    BY <1>11, <1>0 DEF IInv, Held, ClearScreen, Filled, Goto, vars, driverVars, gopVars, frameVars, hdmiVars
  <2>4. Described'
    BY <1>11, <1>0 DEF IInv, Described, Held, ClearScreen, Filled, Goto, vars, driverVars, gopVars, frameVars, hdmiVars
  <2>5. Scanned' /\ Undrawn'
    BY <1>11, <1>0 DEF IInv, Scanned, Undrawn, Described, Held, ClearScreen, Filled, Goto, vars, driverVars, gopVars, frameVars, hdmiVars
  <2>6. Quiet'
    BY <1>11, <1>0 DEF IInv, Quiet, ClearScreen, Filled, Goto, vars, driverVars, gopVars, frameVars, hdmiVars
  <2> QED
    BY <2>1, <2>2, <2>3, <2>4, <2>5, <2>6 DEF IInv
<1>12. CASE SetClock
  <2>0. hpll' \in CruPllRates
    BY <1>12, <1>0, PllFacts DEF SetClock, CruSetHdmiClockRate
  <2>1. TypeOK'
    BY <1>12, <2>0 DEF IInv, TypeOK, PCs, SetClock, Goto, driverVars, gopVars, frameVars, hdmiVars
  <2>2. Account'
    BY <1>12, <1>0, <1>t DEF IInv, Account, InSetMode, SetClock, CruSetHdmiClockRate, Goto, vars, driverVars, gopVars, frameVars, hdmiVars
  <2>3. Held'
    BY <1>12, <1>0 DEF IInv, Held, SetClock, CruSetHdmiClockRate, Goto, vars, driverVars, gopVars, frameVars, hdmiVars
  <2>4. Described'
    BY <1>12, <1>0 DEF IInv, Described, Held, SetClock, CruSetHdmiClockRate, Goto, vars, driverVars, gopVars, frameVars, hdmiVars
  <2>5. Scanned' /\ Undrawn'
    BY <1>12, <1>0 DEF IInv, Scanned, Undrawn, Described, Held, SetClock, CruSetHdmiClockRate, Goto, vars, driverVars, gopVars, frameVars, hdmiVars
  <2>6. Quiet'
    BY <1>12, <1>0 DEF IInv, Quiet, SetClock, CruSetHdmiClockRate, Goto, vars, driverVars, gopVars, frameVars, hdmiVars
  <2> QED
    BY <2>1, <2>2, <2>3, <2>4, <2>5, <2>6 DEF IInv
<1>13. CASE Scan
  <2>1. TypeOK'
    BY <1>13, <1>0 DEF IInv, TypeOK, PCs, Scan, Goto, vars, driverVars, gopVars, frameVars, hdmiVars
  <2>2. Account'
    BY <1>13, <1>0, <1>t DEF IInv, Account, InSetMode, Scan, Goto, vars, driverVars, gopVars, frameVars, hdmiVars
  <2>3. Held'
    BY <1>13, <1>0 DEF IInv, Held, Scan, Goto, vars, driverVars, gopVars, frameVars, hdmiVars
  <2>4. Described'
    BY <1>13, <1>0 DEF IInv, Described, Held, Scan, Goto, vars, driverVars, gopVars, frameVars, hdmiVars
  <2>5. Scanned' /\ Undrawn'
    <3>1. /\ pc = "scan" /\ current = [width |-> res[1], height |-> res[2], base |-> mFbBase]
          /\ content = "black" /\ mFbNumPages # 0 /\ mFbBase \in combined
      BY <1>13 DEF IInv, Held, Scan
    <3>2. vop' = [on |-> TRUE, base |-> mFbBase, width |-> res[1], height |-> res[2],
                  kHz |-> CurrentTimings.kHz]
      BY <1>13, <1>0, <3>1 DEF Scan
    <3>3. UNCHANGED <<res, gop, current, mFbBase, mFbNumPages, combined, content>>
      BY <1>13 DEF Scan, gopVars, frameVars
    <3> QED
      BY <1>0, <3>1, <3>2, <3>3 DEF Scanned, Undrawn
  <2>6. Quiet'
    BY <1>13, <1>0 DEF IInv, Quiet, Scan, Goto, vars, driverVars, gopVars, frameVars, hdmiVars
  <2> QED
    BY <2>1, <2>2, <2>3, <2>4, <2>5, <2>6 DEF IInv
<1>14. CASE BridgeEnable
  <2>1. TypeOK'
    BY <1>14, <1>0 DEF IInv, TypeOK, PCs, BridgeEnable, Goto, vars, driverVars, gopVars, frameVars, hdmiVars
  <2>2. Account'
    BY <1>14, <1>0, <1>t DEF IInv, Account, InSetMode, BridgeEnable, Goto, vars, driverVars, gopVars, frameVars, hdmiVars
  <2>3. Held'
    BY <1>14, <1>0 DEF IInv, Held, BridgeEnable, Goto, vars, driverVars, gopVars, frameVars, hdmiVars
  <2>4. Described'
    BY <1>14, <1>0 DEF IInv, Described, Held, BridgeEnable, Goto, vars, driverVars, gopVars, frameVars, hdmiVars
  <2>5. Scanned' /\ Undrawn'
    BY <1>14, <1>0 DEF IInv, Scanned, Undrawn, Described, Held, BridgeEnable, Goto, vars, driverVars, gopVars, frameVars, hdmiVars
  <2>6. Quiet'
    BY <1>14, <1>0 DEF IInv, Quiet, BridgeEnable, Goto, vars, driverVars, gopVars, frameVars, hdmiVars
  <2> QED
    BY <2>1, <2>2, <2>3, <2>4, <2>5, <2>6 DEF IInv
<1>15. CASE PhyOff
  <2>0. phy' \in [tx : BOOLEAN, pddq : BOOLEAN, tmds : BOOLEAN,
                  mpll : 0 .. Len(MpllConfig), config : 0 .. Len(PhyConfig)]
    <3>1. phy' = [phy EXCEPT !.tmds = FALSE, !.tx = FALSE, !.pddq = TRUE]
      BY <1>15 DEF PhyOff
    <3> QED
      BY <3>1, <1>p
  <2>1. TypeOK'
    BY <1>15, <2>0 DEF IInv, TypeOK, PCs, PhyOff, Goto, driverVars, gopVars, frameVars, hdmiVars
  <2>2. Account'
    BY <1>15, <1>0, <1>t DEF IInv, Account, InSetMode, PhyOff, Goto, vars, driverVars, gopVars, frameVars, hdmiVars
  <2>3. Held'
    BY <1>15, <1>0 DEF IInv, Held, PhyOff, Goto, vars, driverVars, gopVars, frameVars, hdmiVars
  <2>4. Described'
    BY <1>15, <1>0 DEF IInv, Described, Held, PhyOff, Goto, vars, driverVars, gopVars, frameVars, hdmiVars
  <2>5. Scanned' /\ Undrawn'
    BY <1>15, <1>0 DEF IInv, Scanned, Undrawn, Described, Held, PhyOff, Goto, vars, driverVars, gopVars, frameVars, hdmiVars
  <2>6. Quiet'
    BY <1>15, <1>0 DEF IInv, Quiet, PhyOff, Goto, vars, driverVars, gopVars, frameVars, hdmiVars
  <2> QED
    BY <2>1, <2>2, <2>3, <2>4, <2>5, <2>6 DEF IInv
<1>16. CASE PhyReset
  <2>0. phy' \in [tx : BOOLEAN, pddq : BOOLEAN, tmds : BOOLEAN,
                  mpll : 0 .. Len(MpllConfig), config : 0 .. Len(PhyConfig)]
    <3>1. phy' = [phy EXCEPT !.mpll = 0, !.config = 0]
      BY <1>16 DEF PhyReset
    <3> QED
      BY <3>1, <1>p, TableFacts
  <2>1. TypeOK'
    BY <1>16, <2>0 DEF IInv, TypeOK, PCs, PhyReset, Goto, driverVars, gopVars, frameVars, hdmiVars
  <2>2. Account'
    BY <1>16, <1>0, <1>t DEF IInv, Account, InSetMode, PhyReset, Goto, vars, driverVars, gopVars, frameVars, hdmiVars
  <2>3. Held'
    BY <1>16, <1>0 DEF IInv, Held, PhyReset, Goto, vars, driverVars, gopVars, frameVars, hdmiVars
  <2>4. Described'
    BY <1>16, <1>0 DEF IInv, Described, Held, PhyReset, Goto, vars, driverVars, gopVars, frameVars, hdmiVars
  <2>5. Scanned' /\ Undrawn'
    BY <1>16, <1>0 DEF IInv, Scanned, Undrawn, Described, Held, PhyReset, Goto, vars, driverVars, gopVars, frameVars, hdmiVars
  <2>6. Quiet'
    BY <1>16, <1>0 DEF IInv, Quiet, PhyReset, Goto, vars, driverVars, gopVars, frameVars, hdmiVars
  <2> QED
    BY <2>1, <2>2, <2>3, <2>4, <2>5, <2>6 DEF IInv
<1>17. CASE PhyTables
  <2>0. phy' \in [tx : BOOLEAN, pddq : BOOLEAN, tmds : BOOLEAN,
                  mpll : 0 .. Len(MpllConfig), config : 0 .. Len(PhyConfig)]
    <3>1. phy' = [phy EXCEPT !.mpll = RowFor(MpllConfig, CurrentTimings.kHz),
                            !.config = RowFor(PhyConfig, CurrentTimings.kHz)]
      BY <1>17 DEF PhyTables
    <3>2. /\ RowFor(MpllConfig, CurrentTimings.kHz) \in 0 .. Len(MpllConfig)
          /\ RowFor(PhyConfig, CurrentTimings.kHz) \in 0 .. Len(PhyConfig)
      BY <1>0, RowFacts
    <3> QED
      BY <3>1, <3>2, <1>p
  <2>1. TypeOK'
    BY <1>17, <2>0 DEF IInv, TypeOK, PCs, PhyTables, Goto, driverVars, gopVars, frameVars, hdmiVars
  <2>2. Account'
    BY <1>17, <1>0, <1>t DEF IInv, Account, InSetMode, PhyTables, Goto, vars, driverVars, gopVars, frameVars, hdmiVars
  <2>3. Held'
    BY <1>17, <1>0 DEF IInv, Held, PhyTables, Goto, vars, driverVars, gopVars, frameVars, hdmiVars
  <2>4. Described'
    BY <1>17, <1>0 DEF IInv, Described, Held, PhyTables, Goto, vars, driverVars, gopVars, frameVars, hdmiVars
  <2>5. Scanned' /\ Undrawn'
    BY <1>17, <1>0 DEF IInv, Scanned, Undrawn, Described, Held, PhyTables, Goto, vars, driverVars, gopVars, frameVars, hdmiVars
  <2>6. Quiet'
    BY <1>17, <1>0 DEF IInv, Quiet, PhyTables, Goto, vars, driverVars, gopVars, frameVars, hdmiVars
  <2> QED
    BY <2>1, <2>2, <2>3, <2>4, <2>5, <2>6 DEF IInv
<1>18. CASE PhyOn
  <2>0. phy' \in [tx : BOOLEAN, pddq : BOOLEAN, tmds : BOOLEAN,
                  mpll : 0 .. Len(MpllConfig), config : 0 .. Len(PhyConfig)]
    <3>1. phy' = [phy EXCEPT !.tmds = TRUE, !.tx = TRUE, !.pddq = FALSE]
      BY <1>18 DEF PhyOn
    <3> QED
      BY <3>1, <1>p
  <2>1. TypeOK'
    BY <1>18, <2>0 DEF IInv, TypeOK, PCs, PhyOn, Returned, Goto, driverVars, gopVars, frameVars, hdmiVars
  <2>2. Account'
    BY <1>18, <1>0, <1>t DEF IInv, Account, InSetMode, PhyOn, Returned, Goto, vars, driverVars, gopVars, frameVars, hdmiVars
  <2>3. Held'
    BY <1>18, <1>0 DEF IInv, Held, PhyOn, Returned, Goto, vars, driverVars, gopVars, frameVars, hdmiVars
  <2>4. Described'
    BY <1>18, <1>0 DEF IInv, Described, Held, PhyOn, Returned, Goto, vars, driverVars, gopVars, frameVars, hdmiVars
  <2>5. Scanned' /\ Undrawn'
    BY <1>18, <1>0 DEF IInv, Scanned, Undrawn, Described, Held, PhyOn, Returned, Goto, vars, driverVars, gopVars, frameVars, hdmiVars
  <2>6. Quiet'
    BY <1>18, <1>0 DEF IInv, Quiet, PhyOn, Returned, Goto, vars, driverVars, gopVars, frameVars, hdmiVars
  <2> QED
    BY <2>1, <2>2, <2>3, <2>4, <2>5, <2>6 DEF IInv
<1>19. CASE Stop
  <2>1. TypeOK'
    BY <1>19, <1>0 DEF IInv, TypeOK, PCs, Stop, Filled, Goto, vars, driverVars, gopVars, frameVars, hdmiVars
  <2>2. Account'
    BY <1>19, <1>0, <1>t DEF IInv, Account, InSetMode, Stop, Filled, Goto, vars, driverVars, gopVars, frameVars, hdmiVars
  <2>3. Held'
    BY <1>19, <1>0 DEF IInv, Held, Stop, Filled, Goto, vars, driverVars, gopVars, frameVars, hdmiVars
  <2>4. Described'
    BY <1>19, <1>0 DEF IInv, Described, Held, Stop, Filled, Goto, vars, driverVars, gopVars, frameVars, hdmiVars
  <2>5. Scanned' /\ Undrawn'
    BY <1>19, <1>0 DEF IInv, Scanned, Undrawn, Described, Held, Stop, Filled, Goto, vars, driverVars, gopVars, frameVars, hdmiVars
  <2>6. Quiet'
    BY <1>19, <1>0 DEF IInv, Quiet, Stop, Filled, Goto, vars, driverVars, gopVars, frameVars, hdmiVars
  <2> QED
    BY <2>1, <2>2, <2>3, <2>4, <2>5, <2>6 DEF IInv
<1>20. CASE Uninstall
  <2>0. /\ pc = "uninstall" /\ pc' = "idle" /\ gop /\ Mode /\ Info /\ opened /\ pools = 2
        /\ UNCHANGED <<res, job, current, frameVars, content, vop, hpll, hdmiVars>>
    BY <1>20, <1>t DEF IInv, Account, Uninstall, Goto
  <2>a. \/ gop' = FALSE /\ opened' = FALSE /\ Mode' = FALSE /\ Info' = FALSE /\ pools' = 0
        \/ UNCHANGED <<gop, opened, Mode, Info, pools>>
    <3>1. CASE gop' = FALSE /\ opened' = FALSE /\ Mode' = FALSE /\ Info' = FALSE /\ pools' = pools - 2
      <4>1. pools' = 0
        BY <3>1, <2>0
      <4> QED
        BY <3>1, <4>1
    <3> QED
      BY <1>20, <3>1 DEF Uninstall
  <2>b. opened' \in BOOLEAN /\ gop' \in BOOLEAN /\ Mode' \in BOOLEAN /\ Info' \in BOOLEAN
    BY <2>a, <1>t
  <2>c. pools' \in 0 .. 2
    BY <2>a, <1>t
  <2>1. TypeOK'
    BY <2>0, <2>b, <2>c DEF IInv, TypeOK, PCs, Goto, driverVars, gopVars, frameVars, hdmiVars
  <2>2. Account'
    BY <2>0, <2>a, <1>t DEF Account, InSetMode
  <2>3. Held'
    BY <1>20, <1>0 DEF IInv, Held, Uninstall, Goto, vars, driverVars, gopVars, frameVars, hdmiVars
  <2>4. Described'
    BY <1>20, <1>0 DEF IInv, Described, Held, Uninstall, Goto, vars, driverVars, gopVars, frameVars, hdmiVars
  <2>5. Scanned' /\ Undrawn'
    BY <1>20, <1>0 DEF IInv, Scanned, Undrawn, Described, Held, Uninstall, Goto, vars, driverVars, gopVars, frameVars, hdmiVars
  <2>6. Quiet'
    BY <1>20, <1>0 DEF IInv, Quiet, Uninstall, Goto, vars, driverVars, gopVars, frameVars, hdmiVars
  <2> QED
    BY <2>1, <2>2, <2>3, <2>4, <2>5, <2>6 DEF IInv
<1>21. CASE Draw
  <2>1. TypeOK'
    BY <1>21, <1>0 DEF IInv, TypeOK, PCs, Draw, Goto, vars, driverVars, gopVars, frameVars, hdmiVars
  <2>2. Account'
    BY <1>21, <1>0, <1>t DEF IInv, Account, InSetMode, Draw, Goto, vars, driverVars, gopVars, frameVars, hdmiVars
  <2>3. Held'
    BY <1>21, <1>0 DEF IInv, Held, Draw, Goto, vars, driverVars, gopVars, frameVars, hdmiVars
  <2>4. Described'
    BY <1>21, <1>0 DEF IInv, Described, Held, Draw, Goto, vars, driverVars, gopVars, frameVars, hdmiVars
  <2>5. Scanned' /\ Undrawn'
    BY <1>21, <1>0 DEF IInv, Scanned, Undrawn, Described, Held, Draw, Goto, vars, driverVars, gopVars, frameVars, hdmiVars
  <2>6. Quiet'
    BY <1>21, <1>0 DEF IInv, Quiet, Draw, Goto, vars, driverVars, gopVars, frameVars, hdmiVars
  <2> QED
    BY <2>1, <2>2, <2>3, <2>4, <2>5, <2>6 DEF IInv
<1>22. CASE ExitBootServices
  <2>1. TypeOK'
    BY <1>22, <1>0 DEF IInv, TypeOK, PCs, ExitBootServices, FramebufferType, Goto, vars, driverVars, gopVars, frameVars, hdmiVars
  <2>2. Account'
    BY <1>22, <1>0, <1>t DEF IInv, Account, InSetMode, ExitBootServices, FramebufferType, Goto, vars, driverVars, gopVars, frameVars, hdmiVars
  <2>3. Held'
    BY <1>22, <1>0 DEF IInv, Held, ExitBootServices, FramebufferType, Goto, vars, driverVars, gopVars, frameVars, hdmiVars
  <2>4. Described'
    BY <1>22, <1>0 DEF IInv, Described, Held, ExitBootServices, FramebufferType, Goto, vars, driverVars, gopVars, frameVars, hdmiVars
  <2>5. Scanned' /\ Undrawn'
    BY <1>22, <1>0 DEF IInv, Scanned, Undrawn, Described, Held, ExitBootServices, FramebufferType, Goto, vars, driverVars, gopVars, frameVars, hdmiVars
  <2>6. Quiet'
    BY <1>22, <1>0 DEF IInv, Quiet, ExitBootServices, FramebufferType, Goto, vars, driverVars, gopVars, frameVars, hdmiVars
  <2> QED
    BY <2>1, <2>2, <2>3, <2>4, <2>5, <2>6 DEF IInv
<1>23. CASE UNCHANGED vars
  BY <1>23, <1>0 DEF IInv, TypeOK, Account, Held, Described, Scanned, Undrawn, Quiet, Goto, vars, driverVars, gopVars, frameVars, hdmiVars
<1> QED
  BY <1>1, <1>2, <1>3, <1>4, <1>5, <1>6, <1>7, <1>8, <1>9, <1>10, <1>11, <1>12, <1>13, <1>14, <1>15, <1>16, <1>17, <1>18, <1>19, <1>20, <1>21, <1>22, <1>23 DEF Next

(* IInv is an invariant of the driver. *)
THEOREM Invariance == Spec => []IInv
  BY InitInv, NextInv, PTL DEF Spec

(* The variables keep their types: the tables have a row for every clock   *)
(* that is asked for, and no page number leaves the first 4 GB.            *)
THEOREM TypeCorrect == Spec => []TypeOK
<1>1. IInv => TypeOK
  BY DEF IInv
<1> QED
  BY Invariance, <1>1, PTL

(* Whatever the engine scans is allocated, mapped write-combining and      *)
(* large enough (ScanBacked), wherever the boot services place it.         *)
THEOREM ScanIsBacked == Spec => []ScanBacked
<1>1. IInv => ScanBacked
  <2> SUFFICES ASSUME IInv, vop.on
               PROVE  /\ vop.base = mFbBase /\ vop.base \in live \cap combined
                      /\ FramebufferSize(vop.width, vop.height) <= mFbNumPages * 4096
    BY DEF ScanBacked
  <2>1. /\ mFbNumPages = Needed /\ mFbBase \in live /\ mFbBase \in combined
        /\ vop = [on |-> TRUE, base |-> mFbBase, width |-> res[1], height |-> res[2],
                  kHz |-> CurrentTimings.kHz]
    BY DEF IInv, Scanned, Held
  <2>2. vop.base = mFbBase /\ vop.width = res[1] /\ vop.height = res[2]
    BY <2>1
  <2>3. FramebufferSize(res[1], res[2]) <= Needed * 4096
    BY TimingsFacts, NeededFacts DEF IInv, TypeOK
  <2> QED
    BY <2>1, <2>2, <2>3
<1> QED
  BY Invariance, <1>1, PTL

(* What a client is told of the mode is what is scanned, and no pixel of   *)
(* the rectangle lies outside the pages (ModeDescribesScan).               *)
THEOREM ModeIsTrue == Spec => []ModeDescribesScan
<1>1. IInv => ModeDescribesScan
  <2> SUFFICES ASSUME IInv, pc \in {"idle", "os"}, gop, current.width # 0
               PROVE  /\ vop = [on |-> TRUE, base |-> current.base, width |-> current.width,
                                height |-> current.height, kHz |-> vop.kHz]
                      /\ current.base \in live
                      /\ \A x \in {0, 1, current.width - 1}, y \in {0, 1, current.height - 1} :
                           PixelOffset(x, y) + 4 <= mFbNumPages * 4096
    BY DEF ModeDescribesScan
  <2>1. /\ current = [width |-> res[1], height |-> res[2], base |-> mFbBase]
        /\ mFbNumPages = Needed /\ mFbBase \in live /\ vop.on
    BY DEF IInv, Described, Held
  <2>2. vop = [on |-> TRUE, base |-> mFbBase, width |-> res[1], height |-> res[2],
               kHz |-> CurrentTimings.kHz]
    BY <2>1 DEF IInv, Scanned
  <2>3. current.width = res[1] /\ current.height = res[2] /\ current.base = mFbBase
    BY <2>1
  <2>4. /\ res \in {<<1280, 720>>, <<1920, 1080>>}
        /\ FramebufferSize(res[1], res[2]) <= Needed * 4096
        /\ Needed \in Nat \ {0}
    BY TimingsFacts, NeededFacts DEF IInv, TypeOK
  <2>5. ASSUME NEW x \in {0, 1, current.width - 1}, NEW y \in {0, 1, current.height - 1}
        PROVE  PixelOffset(x, y) + 4 <= mFbNumPages * 4096
    <3>1. CASE res[1] = 1280 /\ res[2] = 720
      BY <2>1, <2>3, <2>4, <3>1 DEF PixelOffset, FramebufferSize
    <3>2. CASE res[1] = 1920 /\ res[2] = 1080
      BY <2>1, <2>3, <2>4, <3>2 DEF PixelOffset, FramebufferSize
    <3> QED
      BY <2>4, <3>1, <3>2
  <2> QED
    BY <2>1, <2>2, <2>3, <2>5
<1> QED
  BY Invariance, <1>1, PTL

(* Between calls the driver holds what the protocol needs and nothing      *)
(* else (Balanced): a start that failed leaves the next one its chance.    *)
THEOREM IsBalanced == Spec => []Balanced
<1>1. IInv => Balanced
  <2> SUFFICES ASSUME IInv, pc = "idle"
               PROVE  /\ pools = (IF gop THEN 2 ELSE 0)
                      /\ opened = gop /\ Mode = gop /\ Info = gop
    BY DEF Balanced
  <2>1. opened = gop /\ Mode = gop /\ Info = gop
    BY DEF IInv, Account
  <2>2. CASE gop
    BY <2>1, <2>2 DEF IInv, Account
  <2>3. CASE ~gop
    BY <2>1, <2>3 DEF IInv, Account
  <2> QED
    BY <2>1, <2>2, <2>3
<1> QED
  BY Invariance, <1>1, PTL

(* The tables of the PHY change only while it is off (TablesWhileOff).     *)
THEOREM TablesChangeWhileOff == Spec => TablesWhileOff
<1>1. ASSUME IInv, [Next]_vars
      PROVE  [phy'.mpll # phy.mpll \/ phy'.config # phy.config => ~phy.tx /\ phy.pddq]_vars
  <2>1. CASE PhyReset \/ PhyTables
    BY <1>1, <2>1 DEF IInv, Quiet, PhyReset, PhyTables
  <2>2. CASE PhyOff \/ PhyOn
    <3>1. phy \in [tx : BOOLEAN, pddq : BOOLEAN, tmds : BOOLEAN,
                   mpll : 0 .. Len(MpllConfig), config : 0 .. Len(PhyConfig)]
      BY <1>1 DEF IInv, TypeOK
    <3> QED
      BY <2>2, <3>1 DEF PhyOff, PhyOn
  <2>3. CASE ~(PhyOff \/ PhyReset \/ PhyTables \/ PhyOn)
    <3>1. phy' = phy
      BY <1>1, <2>3 DEF Next, vars, Start, AllocMode, AllocInfo, Install, CleanUp,
        CleanUpWithoutMode, ClientSetMode, KeepFramebuffer, NewFramebuffer, SetAttributes,
        ClearScreen, SetClock, Scan, BridgeEnable, Stop, Uninstall, Draw, ExitBootServices, hdmiVars
    <3> QED
      BY <3>1
  <2> QED
    BY <2>1, <2>2, <2>3
<1> QED
  BY Invariance, <1>1, PTL DEF Spec, TablesWhileOff

(* The driver implements Screen.                                           *)
THEOREM KeepsPromise == Spec => ScreenPromise
<1>1. Init => Promise!Init
  BY DEF Init, Promise!Init, Shown, NoScan
<1>2. ASSUME IInv, IInv', [Next]_vars
      PROVE  [Promise!Next]_<<gop, Shown>>
  <2>0. /\ gop \in BOOLEAN /\ gop' \in BOOLEAN
        /\ content \in {"garbage", "black", "drawn"} /\ content' \in {"garbage", "black", "drawn"}
    BY <1>2 DEF IInv, TypeOK
  <2>1. /\ ~vop.on => Shown = "dark"
        /\ vop.on /\ content = "black" => Shown = "blank"
        /\ vop.on /\ content = "drawn" => Shown = "picture"
    BY DEF Shown
  <2>2. /\ ~vop'.on => Shown' = "dark"
        /\ vop'.on /\ content' = "black" => Shown' = "blank"
        /\ vop'.on /\ content' = "drawn" => Shown' = "picture"
    BY DEF Shown
  <2>3. UNCHANGED <<vop, content>> => Shown' = Shown
    BY DEF Shown
  <2>4. CASE Install \/ Uninstall
    <3>1. UNCHANGED <<vop, content>>
      BY <2>4 DEF Install, Uninstall
    <3>2. Install => gop' = gop \/ (~gop /\ gop')
      BY <1>2 DEF IInv, Account, Install, Fails, gopVars
    <3>3. Uninstall => gop /\ (gop' = gop \/ ~gop')
      BY <1>2 DEF IInv, Account, Uninstall
    <3>4. Install \/ Uninstall => Shown # "picture"
      BY <1>2, <2>1 DEF IInv, Account, Scanned, Install, Uninstall, Shown
    <3> QED
      BY <2>0, <2>3, <2>4, <3>1, <3>2, <3>3, <3>4 DEF Promise!Next, Promise!Offer, Promise!Withdraw
  <2>5. CASE Scan
    <3>1. gop' = gop /\ vop'.on /\ content = "black" /\ content' = content
      BY <1>2, <2>5 DEF Scan, gopVars, IInv, Held
    <3> QED
      BY <2>2, <3>1 DEF Promise!Next, Promise!Blank
  <2>6. CASE Stop \/ ClearScreen
    <3>1. gop' = gop /\ vop' = vop /\ content' \in {content, "black"}
      BY <2>6 DEF Stop, ClearScreen, Filled, gopVars
    <3> QED
      BY <2>1, <2>2, <2>3, <3>1 DEF Promise!Next, Promise!Blank
  <2>7. CASE Draw
    <3>1. gop /\ gop' = gop /\ vop' = vop /\ vop.on /\ content' = "drawn"
      BY <1>2, <2>7 DEF Draw, gopVars, IInv, Described
    <3>2. Shown # "dark"
      BY <1>2, <2>0, <2>1, <3>1 DEF IInv, Scanned
    <3> QED
      BY <2>2, <3>1, <3>2 DEF Promise!Next, Promise!Paint
  <2>8. CASE NewFramebuffer
    <3>1. ~vop.on
      BY <1>2, <2>8 DEF NewFramebuffer, IInv, Scanned, Held, TypeOK
    <3>2. gop' = gop /\ vop' = vop
      BY <2>8 DEF NewFramebuffer, gopVars
    <3> QED
      BY <2>1, <2>2, <3>1, <3>2
  <2>9. CASE ~(Install \/ Uninstall \/ Scan \/ Stop \/ ClearScreen \/ Draw \/ NewFramebuffer)
    <3>1. UNCHANGED <<gop, vop, content>>
      BY <1>2, <2>9 DEF Next, vars, gopVars, Start, AllocMode, AllocInfo, Fails, CleanUp,
        CleanUpWithoutMode, ClientSetMode, KeepFramebuffer, SetAttributes, SetClock,
        BridgeEnable, PhyOff, PhyReset, PhyTables, PhyOn, ExitBootServices
    <3> QED
      BY <2>3, <3>1
  <2> QED
    BY <2>4, <2>5, <2>6, <2>7, <2>8, <2>9
<1> QED
  BY Invariance, <1>1, <1>2, PTL DEF Spec, ScreenPromise, Promise!Spec, Promise!vars

-----------------------------------------------------------------------------
(* One pixel clock *)

\* The table of the PLL has dividers that give the clock exactly.
LEMMA PllExact ==
  ASSUME NEW kHz \in KHz
  PROVE  PllRate(CruFindPllRate(kHz)) = kHz
<1>1. kHz \in {74250, 148500}
  BY DEF KHz, Timings, DisplayMode720p, DisplayMode1080p
<1>2. CruFindPllRate(kHz) \in CruPllRates /\ CruFindPllRate(kHz).rate = kHz
  <2>1. \E p \in CruPllRates : p.rate = kHz
    BY DEF KHz, Timings, DisplayMode720p, DisplayMode1080p, CruPllRates
  <2> QED
    BY <2>1 DEF CruFindPllRate
<1> DEFINE p == CruFindPllRate(kHz)
<1>3. \/ kHz = 148500 /\ p.RefDiv = 1 /\ p.FbDiv = 99 /\ p.PostDiv1 = 4 /\ p.PostDiv2 = 4
      \/ kHz = 74250 /\ p.RefDiv = 2 /\ p.FbDiv = 99 /\ p.PostDiv1 = 4 /\ p.PostDiv2 = 4
  BY <1>1, <1>2 DEF CruPllRates
<1> HIDE DEF p
<1>4. PllRate(p) = kHz
  BY <1>3 DEF PllRate
<1> QED
  BY <1>4 DEF p

\* The rows of the PHY's tables that serve the two clocks.
LEMMA RowIs ==
  /\ RowFor(MpllConfig, 74250) = 4 /\ RowFor(MpllConfig, 148500) = 6
  /\ RowFor(PhyConfig, 74250) = 1 /\ RowFor(PhyConfig, 148500) = 2
<1> DEFINE Fits(table, clock, i) ==
             /\ clock <= table[i] \/ table[i] = 0
             /\ \A j \in 1 .. i - 1 : table[j] < clock /\ table[j] # 0
<1>1. ASSUME NEW i \in DOMAIN MpllConfig PROVE Fits(MpllConfig, 74250, i) <=> i = 4
  BY DEF MpllConfig
<1>2. ASSUME NEW i \in DOMAIN MpllConfig PROVE Fits(MpllConfig, 148500, i) <=> i = 6
  BY DEF MpllConfig
<1>3. ASSUME NEW i \in DOMAIN PhyConfig PROVE Fits(PhyConfig, 74250, i) <=> i = 1
  BY DEF PhyConfig
<1>4. ASSUME NEW i \in DOMAIN PhyConfig PROVE Fits(PhyConfig, 148500, i) <=> i = 2
  BY DEF PhyConfig
<1>5. 4 \in DOMAIN MpllConfig /\ 6 \in DOMAIN MpllConfig
      /\ 1 \in DOMAIN PhyConfig /\ 2 \in DOMAIN PhyConfig
  BY DEF MpllConfig, PhyConfig
<1>6. \A table, clock : RowFor(table, clock) = CHOOSE i \in DOMAIN table : Fits(table, clock, i)
  BY DEF RowFor
<1> HIDE DEF Fits
<1> QED
  BY <1>1, <1>2, <1>3, <1>4, <1>5, <1>6

\* It reaches the clock, and no row below it does.
LEMMA RowBest ==
  ASSUME NEW kHz \in KHz, NEW t \in {MpllConfig, PhyConfig}
  PROVE  /\ kHz <= t[RowFor(t, kHz)]
         /\ \A j \in DOMAIN t : t[j] # 0 /\ kHz <= t[j] => t[RowFor(t, kHz)] <= t[j]
<1>1. kHz \in {74250, 148500}
  BY DEF KHz, Timings, DisplayMode720p, DisplayMode1080p
<1>2. CASE t = MpllConfig /\ kHz = 74250
  <2>1. RowFor(t, kHz) = 4
    BY <1>2, RowIs
  <2> QED
    BY <1>2, <2>1 DEF MpllConfig
<1>3. CASE t = MpllConfig /\ kHz = 148500
  <2>1. RowFor(t, kHz) = 6
    BY <1>3, RowIs
  <2> QED
    BY <1>3, <2>1 DEF MpllConfig
<1>4. CASE t = PhyConfig /\ kHz = 74250
  <2>1. RowFor(t, kHz) = 1
    BY <1>4, RowIs
  <2> QED
    BY <1>4, <2>1 DEF PhyConfig
<1>5. CASE t = PhyConfig /\ kHz = 148500
  <2>1. RowFor(t, kHz) = 2
    BY <1>5, RowIs
  <2> QED
    BY <1>5, <2>1 DEF PhyConfig
<1> QED
  BY <1>1, <1>2, <1>3, <1>4, <1>5

(* Each stage is set for the build's clock from the step that sets it to   *)
(* the end of the call, and for as long as the transmitter has power: a    *)
(* later change of mode sets it to the same.                               *)
PhySteps == {"phyOff", "phyReset", "phyTables", "phyOn"}

ClockInv ==
  /\ phy.tx \/ pc \in PhySteps \cup {"bridge", "scan"} => hpll = CruFindPllRate(CurrentTimings.kHz)
  /\ phy.tx \/ pc \in PhySteps \cup {"bridge"} => vop.kHz = CurrentTimings.kHz
  /\ phy.tx \/ pc \in PhySteps => fc = CurrentTimings.kHz
  /\ phy.tx \/ pc = "phyOn" => /\ phy.mpll = RowFor(MpllConfig, CurrentTimings.kHz)
                               /\ phy.config = RowFor(PhyConfig, CurrentTimings.kHz)

LEMMA ClockInit == Init => ClockInv
  BY DEF Init, ClockInv, PhySteps

LEMMA ClockNext == IInv /\ ClockInv /\ [Next]_vars => ClockInv'
<1> SUFFICES ASSUME IInv, ClockInv, [Next]_vars PROVE ClockInv'
  OBVIOUS
<1>0. CurrentTimings' = CurrentTimings
  BY SameBuild DEF IInv
<1>1. phy \in [tx : BOOLEAN, pddq : BOOLEAN, tmds : BOOLEAN,
               mpll : 0 .. Len(MpllConfig), config : 0 .. Len(PhyConfig)]
  BY DEF IInv, TypeOK
<1> DEFINE clock == CurrentTimings.kHz
           M == RowFor(MpllConfig, clock)
           P == RowFor(PhyConfig, clock)
           D == CruFindPllRate(clock)
<1>2. clock' = clock /\ M' = M /\ P' = P /\ D' = D
  BY <1>0
<1>3. /\ phy.tx \/ pc \in PhySteps \cup {"bridge", "scan"} => hpll = D
      /\ phy.tx \/ pc \in PhySteps \cup {"bridge"} => vop.kHz = clock
      /\ phy.tx \/ pc \in PhySteps => fc = clock
      /\ phy.tx \/ pc = "phyOn" => phy.mpll = M /\ phy.config = P
  BY DEF ClockInv
<1>4. SUFFICES /\ phy'.tx \/ pc' \in PhySteps \cup {"bridge", "scan"} => hpll' = D
               /\ phy'.tx \/ pc' \in PhySteps \cup {"bridge"} => vop'.kHz = clock
               /\ phy'.tx \/ pc' \in PhySteps => fc' = clock
               /\ phy'.tx \/ pc' = "phyOn" => phy'.mpll = M /\ phy'.config = P
  BY <1>2 DEF ClockInv
<1> USE DEF PhySteps, Goto
<1>5. CASE SetClock
  <2>1. hpll' = D /\ pc' = "scan" /\ UNCHANGED <<vop, fc, phy>>
    BY <1>5 DEF SetClock, CruSetHdmiClockRate, hdmiVars
  <2> HIDE DEF D, M, P, clock
  <2> QED
    BY <1>3, <2>1
<1>6. CASE Scan
  <2>1. vop'.kHz = clock /\ pc = "scan" /\ pc' = "bridge" /\ UNCHANGED <<hpll, fc, phy>>
    BY <1>6 DEF Scan, hdmiVars
  <2> HIDE DEF D, M, P, clock
  <2> QED
    BY <1>3, <2>1
<1>7. CASE BridgeEnable
  <2>1. fc' = clock /\ pc = "bridge" /\ pc' = "phyOff" /\ UNCHANGED <<hpll, vop, phy>>
    BY <1>7 DEF BridgeEnable
  <2> HIDE DEF D, M, P, clock
  <2> QED
    BY <1>3, <2>1
<1>8. CASE PhyOff \/ PhyReset
  <2>1. ~phy'.tx /\ pc \in PhySteps /\ pc' \in {"phyReset", "phyTables"}
        /\ UNCHANGED <<hpll, vop, fc>>
    BY <1>1, <1>8 DEF PhyOff, PhyReset, IInv, Quiet
  <2> HIDE DEF D, M, P, clock
  <2> QED
    BY <1>3, <2>1
<1>9. CASE PhyTables
  <2>1. /\ phy'.tx = phy.tx /\ pc \in PhySteps /\ pc' = "phyOn"
        /\ phy'.mpll = M /\ phy'.config = P /\ UNCHANGED <<hpll, vop, fc>>
    BY <1>1, <1>9 DEF PhyTables
  <2> HIDE DEF D, M, P, clock
  <2> QED
    BY <1>3, <2>1
<1>10. CASE PhyOn
  <2>1. /\ pc = "phyOn" /\ phy'.mpll = phy.mpll /\ phy'.config = phy.config
        /\ UNCHANGED <<hpll, vop, fc>>
    BY <1>1, <1>10 DEF PhyOn
  <2> HIDE DEF D, M, P, clock
  <2> QED
    BY <1>3, <2>1
<1>11. CASE ~(SetClock \/ Scan \/ BridgeEnable \/ PhyOff \/ PhyReset \/ PhyTables \/ PhyOn)
  <2>1. UNCHANGED <<hpll, vop, phy, fc>>
    BY <1>11 DEF Next, vars, Start, AllocMode, AllocInfo, Install, CleanUp, CleanUpWithoutMode,
      ClientSetMode, KeepFramebuffer, NewFramebuffer, SetAttributes, ClearScreen, Stop, Uninstall,
      Draw, ExitBootServices, hdmiVars
  <2>2. pc' \in {"allocMode", "allocInfo", "failed", "framebuffer", "install", "idle", "fault",
                 "attributes", "clear", "vop", "uninstall", "os"} \/ pc' = pc
    BY <1>11 DEF Next, vars, driverVars, Start, AllocMode, AllocInfo, Install, Fails, CleanUp,
      CleanUpWithoutMode, ClientSetMode, KeepFramebuffer, NewFramebuffer, SetAttributes, Returned,
      ClearScreen, Stop, Uninstall, Draw, ExitBootServices
  <2> HIDE DEF D, M, P, clock
  <2> QED
    BY <1>3, <2>1, <2>2
<1> QED
  BY <1>5, <1>6, <1>7, <1>8, <1>9, <1>10, <1>11

(* Scan-out, PLL, frame composer and the PHY's tables agree on one pixel   *)
(* clock whenever a call is over and the PHY sends (OneClock): after a     *)
(* call that failed half way too, and in the operating system              *)
(* (Vop2.c:114-189, DwHdmiCore.c:546, DwHdmiPhy.c:324-351).                *)
THEOREM ClocksAgree == Spec => []OneClock
<1>1. IInv /\ ClockInv => OneClock
  <2> SUFFICES ASSUME IInv, ClockInv, phy.tx
               PROVE  /\ vop.kHz = PllRate(hpll) /\ fc = PllRate(hpll)
                      /\ \A row \in {<<MpllConfig, phy.mpll>>, <<PhyConfig, phy.config>>} :
                           /\ PllRate(hpll) <= row[1][row[2]]
                           /\ \A j \in DOMAIN row[1] :
                                row[1][j] # 0 /\ PllRate(hpll) <= row[1][j] =>
                                  row[1][row[2]] <= row[1][j]
    BY DEF OneClock
  <2>1. CurrentTimings.kHz \in KHz
    BY TimingsFacts DEF IInv, TypeOK
  <2>2. PllRate(hpll) = CurrentTimings.kHz
    BY <2>1, PllExact DEF ClockInv
  <2>3. PICK k \in KHz : k = CurrentTimings.kHz
    BY <2>1
  <2>4. vop.kHz = k /\ fc = k /\ PllRate(hpll) = k
        /\ phy.mpll = RowFor(MpllConfig, k) /\ phy.config = RowFor(PhyConfig, k)
    BY <2>2, <2>3 DEF ClockInv
  <2>5. ASSUME NEW row \in {<<MpllConfig, phy.mpll>>, <<PhyConfig, phy.config>>}
        PROVE  /\ k <= row[1][row[2]]
               /\ \A j \in DOMAIN row[1] : row[1][j] # 0 /\ k <= row[1][j] =>
                    row[1][row[2]] <= row[1][j]
    <3>1. PICK t \in {MpllConfig, PhyConfig} : row[1] = t /\ row[2] = RowFor(t, k)
      BY <2>4
    <3>2. row[1][row[2]] = t[RowFor(t, k)]
      BY <3>1
    <3> QED
      BY <3>1, <3>2, RowBest
  <2> QED
    BY <2>4, <2>5
<1>2. Spec => []ClockInv
  BY ClockInit, ClockNext, Invariance, PTL DEF Spec
<1> QED
  BY <1>1, <1>2, Invariance, PTL
=============================================================================
