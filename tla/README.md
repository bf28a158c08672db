# TLA+ models of the RK35xx EDK II platform

The repository holds the board-specific part of a UEFI firmware for the Rockchip RK3566/RK3568 and
RK3588: libraries and drivers in C (`src/custRkPkg`) that EDK II's core calls. This directory models
the parts of it that have state worth reasoning about, model-checks them with TLC and proves the
central safety properties with TLAPS.

Two boards are built: the Rock 3A (RK3568) and the RK3588 test board. Libraries and single drivers are
modelled as they are, whichever board uses them, and the memory map is that of both chips. The model of a
whole boot (`Board`, with its run and its proofs) is that of the **Rock 3A only**; what differs on
the RK3588 test board, where several of its results do not hold, is listed under "Things to know".

To check: `tlc -config X.cfg M` for the pairs in the table of runs, `tlapm M.tla` for the `*Proofs`
modules. `PROJECT.json` maps every definition to the lines of C it stands for.

## The system

A boot goes: `PlatformLib` gives the memory map, `MemoryInitPeiLib` declares it and has `ArmMmuLib`
build the page tables and turn the MMU on; DXE drivers set up the board (`BoardInitDxe` over `I2cLib`
and `GpioLib`), clocks (SCMI over `RkMtlLib`, or `CruLib` directly), PCIe, USB, eMMC, SD, display; then
the boot device selection phase (BDS) calls `PlatformBootManagerLib`. Everything runs on one core
without preemption by other firmware code; what runs concurrently is hardware (table walker, SD
controller, link training), the system control processor (SCP) behind the mailbox, and the power switch.

| Component | State | Operations | Talks to | What is hard |
|---|---|---|---|---|
| `ArmMmuLib` | page tables, TLB, MMU state | configure, set/clear attributes, execute-never, read-only | walker reads the tables during updates; GCD calls it | live tables, blocks split into tables, failure half way, overlapping regions |
| `RkMtlLib` | mailbox: status word, header | send, receive, wait | SCP over shared memory and a secure call | both sides write one buffer; replies after the time-out; doorbell failure |
| `MshcDxe` | noted command, FIFO, interrupt bits | send command, read/write block, notify | controller, card; `MmcDxe` calls it | the controller runs by itself; bits of one transfer seen in the next |
| `PlatformBootManagerLib` | boot options, hot keys, policy variables, capsules | before/after console, unable to boot | BDS core, variable store, user | power failure between two variable writes; stale policy; reboot loops |
| `DisplayDxe` | framebuffer, mode, controller registers | start, set mode, blt, stop | `gBS` pages, VOP2, HDMI PHY, DDC | an allocation or mode change that fails after the old state is gone |
| `I2cLib` | controller, bus, the device's registers | read, write | PMIC; `BoardInitDxe` | error paths without a stop, events after the time-out |
| `OtpLib` | controller, retry counter | read a range | `BoardInitDxe` | a counter that all words share and that wraps |
| PCIe bring-up (`PciHostBridgeInit`, `MultiPhyLib`, `CruLib`, `PciSegmentLib`) | PHY, reset lines, address translation, link | initialise, configuration access | link partner, `PciBusDxe` | link up after the last look; PHY left in reset; windows that have to agree |
| `TrngDxe` | generator, its data registers | get random bytes | generator | a run that ends after its call gave up on it |
| `BoardInitDxe`, `UsbHcdInitDxe`, `EmmcDxe`, `TsadcDxe`, `GpioLib`, `CruLib` | registers many of them share | entry points, callbacks | each other, by write masks only | order of the drivers, clocks the loader left behind |
| memory map (`SdramLib`, `PlatformLib`, `MemoryInitPeiLib`), `FdtDxe`, `ResetSystemLib` | table of regions, descriptors, device tree | once per boot | DXE core, operating system | sizes, overlaps, failed allocations |
| `VirtualRealTimeClockLib`, ACPI, SMBIOS, logo | none | | | |

What makes each correct:

* `ArmMmuLib`: every mapped page maps to itself at every moment; a call changes its own region only, page
  by page, and keeps what it changed if memory runs out; no table is lost; no descriptor is illegal at
  its level; the TLB never disagrees with the tables after a flush of one address per descriptor.
* `RkMtlLib`: a reply answers the command just sent; the mailbox has one owner; calls end.
* `MshcDxe`: a read returns the words of its own block; a write reported as done is on the card; an
  error seen before the last word is reported; reads end.
* `PlatformBootManagerLib`: an option is registered once; a hot key has its option; devices found are
  offered; the menu is the last resort; the machine comes to rest.
* `DisplayDxe`: what is scanned out is allocated and described by the current mode.
* `I2cLib`, `OtpLib`, `TrngDxe`: success means that it was done: the byte is in the device, the bytes are those
  asked for, the bits are new; nothing of an earlier request is taken for an answer to this one.
* Drivers of the Rock 3A: what one has set up stays as it is when the others run; a controller that is handed
  on can work (its PHY, clocks, resets, power); the bus driver's accesses reach what they name and no more.
* Memory map: what is declared as memory exists, and what is in use is taken. The boot reaches the boot
  manager whatever fails.

## Modules

### PageMap and ArmMmu (`Library/ArmMmuLib/AArch64/ArmMmuLibCore.c`)

`PageMap` is the promise to callers: a map from pages to attribute bits and a call that changes a
region in address order, possibly several pages at once, possibly giving up. `ArmMmu` is the library:

| Code | Model |
|---|---|
| `ArmConfigureMmu`, `FillTranslationTable` | `ConfigureMmu`, `FillNextRegion`, `EnableMmu` |
| `ArmSetMemoryAttributes`, `ArmSet/ClearMemoryRegionNoExec`, `...ReadOnly` | `SetRegion` with `ChangeOf` |
| `UpdateRegionMapping` | `UpdateRegionMapping` (entry), `WriteEntry` (one descriptor) |
| `GetBlockEntryListFromAddress` | `FirstPageLevel`, then per level `DescendTable`, `SplitBlock`, `LinkTable`, `OutOfResources`, `ReachLevel` |
| table walker and TLB | `Reaches`/`MappedAt`/`Leaf`, `TlbFill`, `Flushed` |

Addresses count pages. A descriptor is named by its level and by its number across that level; the
table that descriptor `<<l, n>>` points to is table `<<l+1, n>>`, so that "which page of memory the
table got" is left out but "is it allocated, and does exactly one descriptor point to it" is kept.
An allocation may fail whenever the code makes one. The two read-modify-write statements that change a
descriptor are one store (the compiler merges them: the pointer is not volatile). The TLB holds one
translation, filled at any time: enough to be stale, not to conflict with another.

### RkMtl (`Library/RkMtlLib/RkMtlLib.c`)

`MtlSendMessage` is `SendMessage`, `FillMailbox`, `RingDoorbell` or `DoorbellFails`; `MtlReceiveMessage`
with `MtlWaitUntilChannelFree` is `ReceiveMessage`, `PollFree`, `PollBusy`, `LastLook*`. Every access to
the shared status word is a step; the SCP answers in two (`ScpReply`, `ScpRelease`). A command carries its
number as payload, which is all that tells a late reply from the right one.

### Mshc (`Drivers/MshcDxe/MshcDxe.c`)

`SendCommand` is `SendWait` (card busy), `SendClear` (interrupt bits), `SendIssue`, `SendPoll`;
`ReadBlockData` and `WriteBlockData` are `DataWait`, `ResetFifo`, then `Read*` or `Write*`. The client
follows `MmcDxe` (status before a request, stop after a failure or after several blocks). The
controller accepts, answers, moves words, raises bits, in any order its data sheet and the driver's
flags allow. The rigid variable `slow` chooses between a controller that has answered whatever nothing
holds back before the driver's next command, and one that may lag. Two facts that the model brought out:

* `SendCommand` takes the end of the *previous* transfer for the end of its own command (line 329): the
  end of a read leaves the transfer running, the following status command then returns early.
* The write loops at 655 and 660 have no way out when the controller stops taking words: not claimed
  otherwise by any property (`ReadReturns` is about reads).

### PlatformBm (`Library/PlatformBootManagerLib/PlatformBm.c`)

One reset to the next. `PlatformRegisterOptionsAndKeys` is `RegisterOption`/`RegisterKey` over the list
`todo`; `BootDiscoveryPolicyHandler` is `PolicyReturns`, `ConnectDeviceClass`, the refresh, `SetPolicyOld`;
`HandleCapsules` is `CapsuleApplies`/`Fails`/`Done`; `PlatformBootManagerUnableToBoot` is `UnableToBoot`, the
refresh and `CompareCounts`. The refresh of the BDS core (`RefreshDelete`, `RefreshAdd`, `RefreshEnds`) and
its boot loop (`TryNext`, `Launch`) are external. A write of a variable is a step and the power may fail
between any two (`PowerCycle`); emulated variables are then gone. Left out: console devices and splash
screen of `BeforeConsole`, and `GetPlatformOptions`, whose protocol nothing in the tree produces. Devices
come and go only while the power is off. Applications that run (`SimpleInit`, the shell, Maskrom) do as
they please. Observed while modelling:

* If saving the policy fails at *every* boot under the network policy, each boot deletes the options of
  the other devices, `UnableToBoot` adds them again and resets: an endless loop. With finitely many failed
  writes the machine settles (`Settles`).
* `UnableToBoot` compares the *number* of options. Replacing one device by another keeps the number and
  the new device is not tried; `MenuIsLast` therefore excludes refreshes that removed an option.

### Screen and Display (`Drivers/DisplayDxe`, pixel clock of `Library/CruLib`)

`Screen` is the promise to the user and to clients: the screen is dark, blank or shows a client's
picture, never what happened to be in memory; the graphics output protocol comes and goes with no
picture on it. `Display` is the driver:

| Code | Model |
|---|---|
| `DriverStart` | `Start`, `AllocMode`, `AllocInfo`, `Install`; `Fails` leads to `CleanUp` or `CleanUpWithoutMode` |
| `DisplaySetMode` | `ClientSetMode` (by a client), `KeepFramebuffer` or `NewFramebuffer`, `SetAttributes`, `ClearScreen` |
| `Vop2SetMode`, `CruSetHdmiClockRate` | `SetClock`, `Scan` |
| `DwHdmiEnable`, `DwHdmiPhyInit` | `BridgeEnable`, then `PhyOff`, `PhyReset`, `PhyTables`, `PhyOn` twice |
| `DriverStop` | `Stop`, `Uninstall` |
| `DisplayBlt` by clients, an operating system | `Draw`, `ExitBootServices` |

A call is cut where memory, the scan-out engine or the PHY change hands, as these work on their own
meanwhile. A framebuffer is the number of its first page; its content is garbage, black or drawn. The
rate that the PLL's dividers give is computed as `PmuCruGetPllRate` does, and compared with what the other
parts are timed for. Every allocation, the change of attributes, installation and removal may
fail. Two abstractions to know: the PHY takes what is written to it (the driver does not notice when it
does not, DwHdmiPhy.c:158), and the wait for a PLL changes nothing, because both outcomes go on alike in a
release build. When `Mode` itself cannot be allocated the clean-up reads through NULL: the model lets it
fault or go on.

### The boot of a board: Board and the modules it composes

`Soc` holds what the drivers share: `pc`, the one thread of control, and `regs`, the register file as
the set of bits that are one. A register access is an operator on that set, so that a driver's effect is a
function of the registers it finds, and only write masks keep drivers apart, as in the code
(`HiwordWrite`: the upper half of the word says which bits of the lower half count).

| Module | Code | State of its own |
|---|---|---|
| `Cru`, `Gpio`, `MultiPhy` | `CruLib`, `GpioLib`, `MultiPhyLib` | none: operators on the register file |
| `I2c` | `I2cLib` | controller, device, call: a step per access to CON, IPD and the FIFO |
| `Otp` | `OtpLib` | controller, call, retry counter |
| `BoardInitDxe` | `BoardInitDxe` (the Rock 3A's) | processor clock, MAC address |
| `PciSegment`, `PciHost` | `Rk356xPciSegmentLib`, `Rk356xPciHostBridgeLib` | link, address translation, configuration space, bridge |
| `UsbHcd` | `UsbHcdInitDxe` | event, registered devices, state of each XHCI |
| `Emmc`, `MshcInit` | `EmmcDxe`; entry points of `MshcDxe`, `TsadcDxe` | bus mode |
| `Trng` | `TrngDxe` | generator, call, what was handed out |
| `FdtDxe` | `FdtDxe` | the loader's tree, the copy, the installed table |
| `PlatformMemory` | `SdramLib`, `PlatformLib`, `MemoryInitPeiLib` | the DRAM, table of regions, descriptors |
| `ResetSystem` | `ResetSystemLib`, `maskrom` | none |
| `Board` | the DXE core's dispatcher over the Rock 3A's drivers (external) | drivers waiting, started, loaded |

An entry point runs as one step wherever nothing else can touch what it works on; it is cut where a
device goes on by itself (I2C, OTP, random numbers, PCIe link) or where a call can fail. Hardware steps
interleave with it. A clock is the rate that its source, PLL and dividers give, computed as the library
computes it; a controller "can work" (`PhyServes`, `PcieClocked`, `XhciReady`) when the registers say so.
Configuration accesses are modelled down to bytes and bits; a value is the set of its bits.

Things to know when reading it:

* `focus` is a bound. It is rigid and names the part a behaviour is about; the others do not fail and have no
  clients (`Works`). Faults of two parts in one boot are therefore not explored, with one exception that
  matters: drivers run in any order, with their registers shared, under `dispatch`. Parts that share nothing
  but the register file cannot meet in another way, and what they do to it is the same whether they fail or not,
  except for a PHY in reset (`focus = "Cru"`, where USB and PCIe both run).
* `DriverOrder` is the order of `rk356x.fdf`, which takes in `rock3a.fdf.inc`. Two of the drivers are not in the volume
  that is shipped (`NotInVolume`). This repository's `EmmcDxe` is built (rock3a.dsc:80) and commented out of the .fdf
  (line 199) in favour of the core's. This repository's `FdtDxe` is in no .dsc and no .fdf: what is built and
  dispatched is EmbeddedPkg's `DtPlatformDxe` (rk356x.fdf:228). The boot starts from either volume, the shipped one or
  the one that has the two as well (`Volumes`), and everything checked and proved covers both. `DisplayDxe` is in the
  volume too (line 118) and has a model of its own.
* The RK3588 test board is another boot. Its `BoardInitDxe3588test` only sets the processor's clocks: the entry
  point (its lines 432-467) has PMIC, `MultiPhySetMode`, USB power, GMAC with its OTP address, and WiFi as comments.
  It is not modelled. `rk3588.fdf` dispatches it with `UsbHcdInitDxe` (line 178), so on that board `XhciReady` and
  the `BoardInitDxe` part of `DriversKept` would not hold. `rk3588.fdf` also comments out `DisplayDxe` (118),
  `PciHostBridgeDxe` (183) and `MshcDxe` (192); their models concern the RK356x.
* `FdtDxe` has a type invariant only: what it does to the tree is best effort, and nothing promises more.
* `PlatformMemory` and `ArmMmu` meet in the table of regions: `MemorySound` says that regions which overlap
  are mapped alike unless plain memory is overlaid, `MemoryMapInstalled` of `ArmMmu` that the last region wins.

## Runs

Deadlock is not checked in most of them, because each model stops by itself: calls, requests or events
are bounded, and `booted` and `menu` are where the firmware hands over. `board` and `pci_io` check it: the
boot only stops where it waits for a client (`Rest`).

| Run | Config | What it asks | Distinct states |
|---|---|---|---|
| `mmu` | `MCArmMmu.cfg` | type, identity map, tables, installed memory map, termination, refinement of `PageMap` | 25 thousand |
| `mmu_calls` | `MCArmMmuCalls.cfg` | TLB coherence and what the caller reads back, over two calls | 459 thousand |
| `mailbox` | `RkMtl.cfg` | replies, ownership, termination, the channel is usable again | 174 |
| `mailbox_device_error` | `RkMtlDeviceError.cfg` | violation: see findings | |
| `sd_card` | `Mshc.cfg` | data integrity, errors, termination of reads | 286 thousand |
| `sd_card_idle` | `MshcIdle.cfg` | violation: see findings | |
| `boot_manager` | `PlatformBm.cfg` | options, keys, devices, menu, no reboot loop | 135 thousand |
| `boot_manager_new_device` | `PlatformBmNewDevice.cfg` | violation: see findings | |
| `display` | `Display.cfg` | scan-out, what clients are told, balance, clocks, PHY sequence, refinement of `Screen` | 640 |
| `display_start` | `DisplayStart.cfg` | violation: see findings | |
| `board` | `Board.cfg` | PMIC transfers, OTP bytes, random numbers, USB and PCIe that are handed on can work, drivers keep each other's set-up, memory map, configuration accesses, the boot gets through; a Rock 3A | 99 thousand |
| `pci_io` | `PciIo.cfg` | violation: see findings | |

Bounds and why they are enough.
`mmu`: tables of two entries, four levels, eight pages: every level has a first and a last entry, regions
start and end at, before and after every alignment, and one call follows a map with an overlap.
`mmu_calls`: four pages, two calls, all attribute kinds: the second call meets tables the first has split or
abandoned; EL1, where the execute-never masks differ. `mailbox`: time for two polls and a remainder, four
commands: one can time out, be answered during the next, and be followed by two more. `sd_card`: three words
through a FIFO of two, so that it fills and runs dry; three requests: a transfer given up, one that meets
its remains, and one after. `boot_manager`: two devices, of which the network policy connects one and one
boots; three events: a failure, another during the repair, and one more for the user. `display`: no bound but
the two places for a framebuffer: one may be taken while the other is given out; both resolutions with
timings; any number of starts, changes of mode and stops. `board`: the drivers of either volume, and
every order of them under `dispatch`;
the six PMIC calls of the code; OTP ranges with an even and an odd start that end inside and at the end of a word,
so that a late word is followed by others; four random requests: less than a run, more than one, nothing, and one
that can meet an abandoned run; 32 memories: one and two ranks, equal and unequal, one and two channels, three
quarters of a power of two, the three versions of the encoding; PHY clocks at the crystal, at the three rates
the PHYs can use and at one they cannot; bus accesses of each width, on each side of the link, to functions
that are not there, buffers over every alignment; `focus`, above.

Fairness. Firmware steps are weakly fair: the code is sequential and nothing keeps it from its next
statement. What is outside is not fair unless a property says so: the SCP only in the antecedent of
`ChannelComesBack`; in `Mshc` the controller answers commands it can execute and the card's busy time ends, but
data need not come; events, power failures and users never have to happen. `Settles` has weak fairness of the
firmware only. In `Board` the processor goes on except where `Waits` says that it cannot by itself; the
deadlock check shows that these are the only such places. The hardware of parts that do not fail answers, and
so does the OTP controller: `BootReachesBds` rests on that, because after one late word the wrapped retry
counter leaves `OtpRead` without a time-out. The I2C device, the link and the generator under `focus` need
not answer, and the boot gets through by its time-outs.

## Findings

* `DeviceErrorMeansBusy`: `MtlSendMessage` returns `EFI_DEVICE_ERROR` also when the doorbell fails; its
  comment (RkMtlLib.c:120) says it means a busy channel, and the channel stays marked busy for good.
* `IdleWhenIssued`: the comment "Wait until MMC is idle" (MshcDxe.c:308) is not what the loop does: it looks
  at the card's busy line and a transfer may still run.
* `RefreshedForNew`: with persistent variables the boot order is refreshed only when the *policy* has
  changed, so a newly plugged device is not offered, against the comments at PlatformBm.c:829 and :1002.
* `StartedWithMode`: `DriverStart` ignores the status of its `DisplaySetMode` (DisplayDxe.c:490), whose comment
  says that it sets the mode and initialises the mode's information. Without memory for the framebuffer
  the protocol is installed with 0 x 0 pixels and no framebuffer, while `DisplayQueryMode` says otherwise.
* `IoReachesIo`: the library opens the I/O window at 0x3AFFF0000 (PciHostBridgeInit.c:371 and :379), which is
  inside the 64-bit memory window; `PcdPciIoTranslation` (rock3a.dsc:54), which the bridge reports, and the
  ACPI table (Pcie3x1.asl:53) say 0x3BFFF0000. I/O reaches no region there, and memory placed at the end of
  the window is reached as I/O.

## Proofs

All proofs are about the modules TLC checks, for all values of the constants that their `ASSUME`s allow.

* `ArmMmuProofs` (774 obligations): for every geometry (levels, entries, root size), memory map and number
  of calls: `TypeOK`, `NoTableLost`, `IdentityMap`, and that no descriptor is illegal
  at its level (`DescriptorsLegal`). The inductive invariant adds: a block
  descriptor's address is the one its place stands for (`BlocksInPlace`, which is what makes a split
  correct); table descriptors lie in allocated tables; what is left of a region is aligned for the level it
  is written at and lies inside the address space; the descriptor about to be written holds no table.
  `IdentityMap` alone is not inductive, as it says nothing of descriptors that no walk reaches yet. The geometry lemmas (division and remainder, nested
  tables, alignment) come first. The bits a memory type translates to play no part here.
* `PageMapProofs`: for the same parameters, what a walk of the tables finds. `ArmMmu` implements
  `PageMap` step by step (`PageMapRefined`): each step keeps the view of the tables that walks give
  (`View`) or does, on the pages of one descriptor, what the call asks for. A split keeps the view although it
  changes descriptors, because every new one carries the old bits (`NewTableStep`). `NothingStale` is
  `TlbCoherent`; its invariant (`CachedLeaf`) says that a cached translation of a block covers only pages
  whose walks now end at its level or below, with its bits. `MapInstalled` is
  `MemoryMapInstalled`, by an invariant over the regions filled so far (`MapApplied`): the last of them that
  holds a page has given it its bits, the current one on the part it has reached. `EffectTaken` is
  `CallTakesEffect`: the pages the call has passed are mapped and have what was asked (`Calling`), and what was
  asked reads back as such (`GcdAttributesAssumption`, which names the conversion's attribute kinds).
* `MshcProofs`: for any number of words, any FIFO depth and mark (`SizeAssumption`): `ReadsOwnData`,
  `WriteIsStored`, `EarlyErrorReported`. `DriverInv` is about the driver alone: the command it works on is that of
  the client's request, words counted down are words stored, and an early error stays in the interrupt
  bits until it is looked at. `ControllerInv` holds if the controller is not `slow` and is the argument of why the
  end of the previous transfer, taken for the answer to the status command, does no harm: at that point
  the controller has nothing left that could move data (`StatusAnswer`), so the data command meets an empty
  FIFO (`CleanStart`), from there on the only transfer is its own (`OwnTransfer`), and buffer and FIFO, or
  card and FIFO, hold consecutive words of its block (`ReadStream`, `WriteStream`).
* `RkMtlProofs` (91): for every time-out, poll interval and number of commands: `TypeOK`, `ReplyIsMine`,
  `OneOwner`, and that a free channel has answered (`FreeIsAnswer`). The invariant adds who may write the mailbox in each phase: while it is being
  filled the SCP has not been rung, and while it is waited for it holds this command or its answer.
* `DeviceProofs`: the parts of the board. First three libraries that poll a device, each against an environment that
  makes legal calls and otherwise leaves the library alone (`I2cSpec`, `OtpSpec`, `RngSpec`). For every device, value set and sequence of calls,
  `SuccessMeansDone`: the invariant says how far the I2C controller is at each point of the code
  (`Phase`); it is off before the pending bits are acknowledged, and this order is what keeps the answer to an abandoned
  transfer out of the next one. For every range, `OtpExact`: the invariant counts the bytes taken against the
  word the controller is at, as long as no word timed out. For every sequence of lengths and time-outs,
  `FreshRandom`: the invariant says why a late run is no stale one: the driver sees START clear only after a run
  that ended since START was set (`RunIsNew`), and within a call all words copied so far are whole (`WholeWords`).
  Then lemmas about the memory table, and about the register file: a masked write changes the fields of its
  mask only (`Keeps`, `OtherRegister`), hence which registers each step of each driver writes, and what a
  PHY's mode setting comes to for every clock the loader may have left. Last the configuration space: a store changes
  only the bytes it names, none that is read-only while these are locked (`StoreHolds`), and the two buffer loops
  split every buffer into naturally aligned pieces that follow each other without a gap (`AlignedPieces`, `Chain`),
  so that each byte gets its place, for every address and size (`BusStepExact`).
* `BoardProofs`: a Rock 3A's boot, with either volume, every order of its drivers and all its clients, is such an environment for the three
  (`BoardUsesI2c`, `BoardUsesOtp`, `BoardUsesTrng`: the board's steps are the library's, its environment's or
  stutters), hence `SuccessMeansDone`, `OtpExact` and `FreshRandom` hold in every such boot. The invariant (`SetUpOnce`) is that the board is set up
  once and the OTP is read after the PMIC.
  `MemoryDescribed` is `MemorySound` for every memory the two registers of the loader can describe
  (`DramsAssumption`: one or two channels of any geometry, at least 148 MB, below the device
  registers of the chip): the size read back is the capacity (`SizeIsCapacity`, in powers of two), the
  table made of it is one of three shapes (`TableEntries`, `EntryShapes`), and regions of these shapes agree where they
  overlap. That a power of
  two is a natural number and that exponents add needs an induction, for which the least counterexample stands in
  (`LeastMember`, from the well-foundedness of the naturals).
  `UsbReady` is `XhciReady`. Its invariant (`UsbInv`) follows PHYs and ports from board set-up on: before it nothing is
  claimed, after it what it has set stays set; the cores are started only when no driver waits, so that the
  only writer left is the start of the other core. `BridgeUsable` is `BridgeReady`; `PciInv` says how far the
  library is by what it has yet to do (`Ahead`): the root port's class and speed are set after `PciSetup` and, being
  read-only from then on, are out of the bus driver's reach; the windows are open before training is
  enabled, and without training there is no link; the bridge is exposed with the link up only. It needs
  that the bus driver never writes the root port's port logic, which would unlock
  what is read-only (`PciAccessesAssumption`: `PciBusDxe` knows the standard registers only).
  `SetUpsStay` is `DriversKept`. What a driver has set up is a set of bits (`MshcBits`, `EmmcPins`, `GmacBits`,
  `WiFiBits`, `EmmcClockBits`); that no other step writes one of them (`StepKeeps`, `SetUpsKept`) comes from the tables
  of pins, no two of which name the same pin (`CellsApart`), and from the masks of the shared
  registers. `DriversInv` adds the order: before its entry point has run a driver is waiting or at that entry,
  and for a driver that is loaded neither holds any more.
  `AccessesExact` is `PciAccessExact`: no other step of the board makes a request, and each access is exact.
  `BoardTyped` is `BoardTypeOK`, put together from the parts' invariants.
* `PlatformBmProofs` (654): for all sets of devices and any number of power failures, failed writes and
  resets: `TypeOK`, `NoDuplicates`, `KeysHaveOptions`, `NewDevicesOffered`, `MenuIsLast`. The invariant adds: the
  loop's position is zero outside the loop; the option of the key about to be written is in the order; with
  emulated variables the policy of the last refresh is unset until the refresh; and the accounting of
  `UnableToBoot` (`CountsTell`): an order of unchanged length from which nothing was dropped is the order
  that was tried in vain.
* `DisplayProofs` (1038): for any places the boot services may find: `TypeOK`, `ScanBacked`, `ModeDescribesScan`,
  `Balanced`, `TablesWhileOff`, `OneClock`, and that `Display` implements `Screen`. The invariant adds: what the driver
  holds at every step of a start (`Account`); a counted framebuffer is allocated and large enough for the
  resolution of the build (`Held`); what `Mode` says is that framebuffer, also while the engine still shows
  the one before (`Described`); the engine scans nothing that was not cleared, and only black where no
  client can have drawn (`Scanned`), without which a second start could be thought to show an old picture.
  For `OneClock` the dividers are computed once for both resolutions (`PllExact`) and the rows of the two PHY
  tables compared (`RowBest`); the invariant (`ClockInv`) says which of the parts are timed so far.

Only model-checked: liveness (`CallsEnd`, `CallsReturn`, `ChannelComesBack`, `ReadReturns`, `Settles`, `BootReachesBds`), which is beyond
the prover.

Assumed throughout: release builds, where `ASSERT` does nothing; hardware does what the driver's own use
of it implies.

## Not modelled

`PROJECT.json` lists every component. Not modelled are:

* `VirtualRealTimeClockLib`: a date from one counter, no state. Its day starts at zero and passes the end of the
  month, which the list of hazards has.
* `BoardInitDxe3588test`, and with it the boot of the RK3588 test board ("Things to know").
* Constant tables and answers: ACPI, SMBIOS, logo, `SocLib`, `PlatformPeiLib`, `PlatformLib`'s constants. Code that is
  not built: the 32-bit `ArmMmuLib`.
* In modelled components: clock and bus set-up of `MshcDxe` between transfers; the consoles and the splash screen
  of `PlatformBootManagerLib`, and boot options from a protocol nobody installs; the copies of `DisplayBlt` and
  the registers of the HDMI bridge that no later step depends on; register values of `ArmConfigureMmu`; in
  `CruLib` and `PciSegmentLib` what no caller in the tree uses or what changes nothing.
* A second TLB entry in `ArmMmu`, which break-before-make would need, and a variable store that is full.

## Where to go on

1. The boot of the RK3588 test board: its own `BoardInitDxe`, and what its USB does without it.
2. `MshcDxe`'s clock changes between transfers, composed with `Mshc`.
3. Faults of two parts in one boot (`focus` as a set), when a larger run is affordable.
