------------------------------- MODULE ArmMmu -------------------------------
(***************************************************************************)
(* The AArch64 page-table library (Library/ArmMmuLib): building the tables *)
(* from the platform's memory map and changing the attributes of a region  *)
(* while the MMU walks them.                                               *)
(*                                                                         *)
(* Addresses count 4 KB pages.  A table has TT_ENTRY_COUNT entries, so an  *)
(* entry at level l maps S(l) pages and the entry that a walk for address  *)
(* a reads at level l is number a \div S(l) of that level.  Entries are    *)
(* numbered across the whole level: <<l, n>> is one 8-byte descriptor, the *)
(* table it lies in is table <<l, n \div TT_ENTRY_COUNT>>, and the table   *)
(* that the table descriptor <<l, n>> points to is table <<l + 1, n>>.     *)
(* Every store to a live table is a step of its own.                       *)
(***************************************************************************)
EXTENDS Integers, Sequences

CONSTANTS
  RootLevel,        \* level of the root table: GetRootTranslationTableInfo
  RootEntryCount,   \* number of entries of the root table
  TT_ENTRY_COUNT,   \* number of entries of any other table
  EL,               \* exception level the firmware runs at: 1 or 2
  MemoryTables,     \* memory maps the platform may pass to ArmConfigureMmu:
                    \* sequences of [base, length, attr]
  GcdAttributes,    \* attributes callers set: [cache, xp, ro]
  MaxCalls          \* bound: calls made once the MMU is on

VARIABLES
  pt,             \* pt[l, n]: the descriptors, [type, addr, bits]
  tables,         \* pages taken from AllocatePages and not given back
  mmu,            \* "off", "on", or "failed": ArmConfigureMmu gave up
  tlb,            \* one cached translation: none, or [level, n, desc]
  pc,             \* where the library is
  memoryTable,    \* what ArmConfigureMmu has left to map
  RegionStart, RegionLength, change,     \* arguments of UpdateRegionMapping
  IndexLevel, PageLevel,                 \* GetBlockEntryListFromAddress
  BlockEntry,     \* number of the next descriptor to write, at PageLevel
  call,           \* the last call and its arguments
  status,         \* what the last call returned
  calls           \* calls made so far (bounded by MaxCalls)

callVars == <<memoryTable, call, calls>>
regionVars == <<RegionStart, RegionLength, change>>
walkVars == <<IndexLevel, PageLevel, BlockEntry>>
vars == <<pt, tables, mmu, tlb, pc, regionVars, walkVars, callVars, status>>

-----------------------------------------------------------------------------
(* Geometry *)

Level == RootLevel .. 3

\* TT_BLOCK_ENTRY_SIZE_AT_LEVEL, in pages.
S(l) == IF l = 3 THEN 1
        ELSE IF l = 2 THEN TT_ENTRY_COUNT
        ELSE IF l = 1 THEN TT_ENTRY_COUNT * TT_ENTRY_COUNT
        ELSE TT_ENTRY_COUNT * TT_ENTRY_COUNT * TT_ENTRY_COUNT

PageCount == RootEntryCount * S(RootLevel)
Page == 0 .. PageCount - 1

\* TT_GET_ENTRY_FOR_ADDRESS: the descriptor a walk for page p reads.
Entry(l, p) == <<l, p \div S(l)>>

Descriptors == {d \in Level \X Page : d[2] * S(d[1]) < PageCount}

\* TT_LAST_BLOCK_ADDRESS: is n the last entry of its table?
IsLast(l, n) == IF l = RootLevel THEN n = RootEntryCount - 1
                                 ELSE n % TT_ENTRY_COUNT = TT_ENTRY_COUNT - 1

Root == <<RootLevel, 0>>
TableOf(d) == <<d[1], IF d[1] = RootLevel THEN 0 ELSE d[2] \div TT_ENTRY_COUNT>>

\* The root table is at level 2 only below 2^30 bytes of address space, which
\* no AArch64 core has.
ASSUME GeometryAssumption ==
  /\ RootLevel \in 0 .. 1
  /\ TT_ENTRY_COUNT \in Nat \ {0, 1}
  /\ RootEntryCount \in 1 .. TT_ENTRY_COUNT
  /\ EL \in {1, 2}
  /\ MaxCalls \in Nat

\* Regions of the memory map lie inside the address space that ArmConfigureMmu
\* chose for it; a zero length ends the map.
MemoryRegion ==
  {r \in [base : Page, length : Page \cup {PageCount}, attr : STRING] :
     r.length > 0 /\ r.base + r.length <= PageCount}

ASSUME MemoryTablesAssumption == MemoryTables \subseteq Seq(MemoryRegion)

\* Callers ask for one of the cache types that the library's switch names, or
\* for none (ArmMmuLibCore.c:421); xp and ro are single bits.
ASSUME GcdAttributesAssumption ==
  GcdAttributes \subseteq [cache : {"UC", "WC", "WT", "WB", "none"},
                          xp : BOOLEAN, ro : BOOLEAN]

-----------------------------------------------------------------------------
(* Attribute bits: the memory attribute index I0, I1 (device 0,            *)
(* non-cacheable 1, write-through 2, write-back 3), inner shareability SH, *)
(* access permission AP1, AP2, access flag AF and execute-never PXN, XN    *)
(* (bit 54, which EL1 calls UXN).                                          *)

Bits == {"I0", "I1", "SH", "AP1", "AP2", "AF", "PXN", "XN"}

XnMask == IF EL = 2 THEN {"XN"} ELSE {"XN", "PXN"}

ArmMemoryAttributeToPageAttribute(a) ==
  CASE a = "WRITE_BACK_NONSHAREABLE" -> {"I0", "I1"}
    [] a = "WRITE_BACK"              -> {"I0", "I1", "SH"}
    [] a = "WRITE_THROUGH"           -> {"I1", "SH"}
    [] a = "UNCACHED_UNBUFFERED"     -> {"I0"}
    [] OTHER                         -> XnMask

GcdAttributeToPageAttribute(g) ==
  (CASE g.cache = "UC" -> {}
     [] g.cache = "WC" -> {"I0"}
     [] g.cache = "WT" -> {"I1", "SH"}
     [] g.cache = "WB" -> {"I0", "I1", "SH"}
     [] OTHER          -> {"I0", "I1"})
  \cup (IF g.xp \/ g.cache = "UC" THEN XnMask ELSE {})
  \cup (IF g.ro THEN {"AP1", "AP2"} ELSE {})
  \cup {"AF"}

PageAttributeToGcdAttribute(bits) ==
  [cache |-> CASE bits \cap {"I0", "I1"} = {}     -> "UC"
               [] bits \cap {"I0", "I1"} = {"I0"} -> "WC"
               [] bits \cap {"I0", "I1"} = {"I1"} -> "WT"
               [] OTHER                           -> "WB",
   ro |-> "AP2" \in bits,
   xp |-> bits \cap {"PXN", "XN"} # {}]

\* Fault: the bits of the region below are kept.
FaultKeepsBits(a) ==
  [keep |-> Bits, set |-> ArmMemoryAttributeToPageAttribute(a) \cup {"AF"}]

\* The change of a descriptor that each entry point asks for: the bits it
\* keeps (BlockEntryMask) and the bits it sets.
FillTranslationTable(a) ==
  [keep |-> {}, set |-> ArmMemoryAttributeToPageAttribute(a) \cup {"AF"}]

ArmSetMemoryAttributes(g) ==
  IF g.cache = "none"
    THEN [keep |-> Bits \ {"AP1", "AP2", "PXN", "XN"},
          set  |-> GcdAttributeToPageAttribute(g)
                     \cap {"AP1", "AP2", "PXN", "XN"}]
    ELSE [keep |-> {}, set |-> GcdAttributeToPageAttribute(g)]

ArmSetMemoryRegionNoExec ==
  [keep |-> Bits, set |-> IF EL = 1 THEN {"PXN", "XN"} ELSE {"XN"}]
\* Fault: clears XN only.
FaultClearsXnOnly == [keep |-> Bits \ {"XN"}, set |-> {}]
ArmClearMemoryRegionNoExec ==
  [keep |-> Bits \ {"PXN", "XN"}, set |-> {}]
ArmSetMemoryRegionReadOnly ==
  [keep |-> Bits, set |-> {"AP1", "AP2"}]
ArmClearMemoryRegionReadOnly ==
  [keep |-> Bits \ {"AP1", "AP2"}, set |-> {"AP1"}]

Calls == [op : {"SetAttributes"}, gcd : GcdAttributes]
         \cup [op : {"SetNoExec", "ClearNoExec", "SetReadOnly", "ClearReadOnly"}]

ChangeOf(c) ==
  CASE c.op = "SetAttributes" -> ArmSetMemoryAttributes(c.gcd)
    [] c.op = "SetNoExec"     -> ArmSetMemoryRegionNoExec
    [] c.op = "ClearNoExec"   -> ArmClearMemoryRegionNoExec
    [] c.op = "SetReadOnly"   -> ArmSetMemoryRegionReadOnly
    [] OTHER                  -> ArmClearMemoryRegionReadOnly

-----------------------------------------------------------------------------
(* What a walk of the tables finds *)

Invalid == [type |-> "invalid", addr |-> 0, bits |-> {}]
TableDesc == [type |-> "table", addr |-> 0, bits |-> {}]
Block(a, b) == [type |-> "block", addr |-> a, bits |-> b]

\* The walk for page p goes through table descriptors down to level l.
Reaches(p, l) == \A m \in RootLevel .. l - 1 : pt[Entry(m, p)].type = "table"

\* ... and ends there, at a block or page descriptor.
MappedAt(p, l) == Reaches(p, l) /\ pt[Entry(l, p)].type = "block"

Mapped(p) == \E l \in Level : MappedAt(p, l)

Leaf(p) == pt[Entry(CHOOSE l \in Level : MappedAt(p, l), p)]

\* The translation that a descriptor at level l gives page p.
Output(l, d, p) == d.addr + (p % S(l))

-----------------------------------------------------------------------------
(* Initial state: reset, the MMU off. *)

Init ==
  /\ pt = [d \in Descriptors |-> Invalid]
  /\ tables = {}
  /\ mmu = "off"
  /\ tlb = {}
  /\ pc = "idle"
  /\ memoryTable = <<>>
  /\ RegionStart = 0 /\ RegionLength = 0
  /\ change = [keep |-> {}, set |-> {}]
  /\ IndexLevel = RootLevel /\ PageLevel = 3 /\ BlockEntry = 0
  /\ call = [op |-> "none"]
  /\ status = "SUCCESS"
  /\ calls = 0

(* ArmConfigureMmu *)

ConfigureMmu ==
  /\ pc = "idle" /\ mmu = "off"
  /\ \E m \in MemoryTables : memoryTable' = m
  /\ pt' = [d \in Descriptors |-> IF d[1] = RootLevel THEN Invalid ELSE pt[d]]
  /\ tables' = {Root}
  /\ tlb' = {}                            \* ArmDisableMmu
  /\ pc' = "fill"
  /\ call' = [op |-> "Configure", table |-> memoryTable']
  /\ UNCHANGED <<mmu, regionVars, walkVars, status, calls>>

ConfigureMmuNoMemory ==
  /\ pc = "idle" /\ mmu = "off"
  /\ mmu' = "failed"
  /\ status' = "OUT_OF_RESOURCES"
  /\ UNCHANGED <<pt, tables, tlb, pc, regionVars, walkVars, callVars>>

\* Fault: the length of the region is not looked at.
FaultIgnoresLength(start, length) ==
  CHOOSE l \in 1 .. 3 :
    /\ (IF start = 0 THEN length ELSE start) % S(l) = 0
    /\ \A m \in 1 .. l - 1 : (IF start = 0 THEN length ELSE start) % S(m) # 0

\* The largest level from 1 down whose blocks fit the start and the length of
\* what is left of the region.
FirstPageLevel(start, length) ==
  LET Fits(l) == /\ (IF start = 0 THEN length ELSE start) % S(l) = 0
                 /\ length >= S(l)
  IN  CHOOSE l \in 1 .. 3 : Fits(l) /\ \A m \in 1 .. l - 1 : ~Fits(m)

\* Entry to GetBlockEntryListFromAddress for what is left of the region.
StartWalk(start, length) ==
  /\ pc' = "walk"
  /\ IndexLevel' = RootLevel
  /\ PageLevel' = FirstPageLevel(start, length)

UpdateRegionMapping(start, length, c) ==
  /\ RegionStart' = start
  /\ RegionLength' = length
  /\ change' = c
  /\ StartWalk(start, length)
  /\ UNCHANGED BlockEntry

FillNextRegion ==
  /\ pc = "fill" /\ memoryTable # <<>>
  /\ LET r == Head(memoryTable)
     IN  UpdateRegionMapping(r.base, r.length, FillTranslationTable(r.attr))
  /\ memoryTable' = Tail(memoryTable)
  /\ UNCHANGED <<pt, tables, mmu, tlb, call, status, calls>>

EnableMmu ==
  /\ pc = "fill" /\ memoryTable = <<>>
  /\ mmu' = "on"
  /\ pc' = "idle"
  /\ status' = "SUCCESS"
  /\ UNCHANGED <<pt, tables, tlb, regionVars, walkVars, callVars>>

(* The entry points of a running system; the region is one GCD knows, so    *)
(* it lies inside the address space.                                        *)

SetRegion(c, start, length) ==
  /\ pc = "idle" /\ mmu = "on" /\ calls < MaxCalls
  /\ start + length <= PageCount
  /\ calls' = calls + 1
  /\ call' = [op |-> c.op, args |-> c, start |-> start, length |-> length]
  /\ IF length = 0
       THEN /\ status' = "INVALID_PARAMETER"
            /\ UNCHANGED <<pc, regionVars, walkVars>>
       ELSE /\ UpdateRegionMapping(start, length, ChangeOf(c))
            /\ UNCHANGED status
  /\ UNCHANGED <<pt, tables, mmu, tlb, memoryTable>>

(* GetBlockEntryListFromAddress: one step per level of the walk.            *)

Here == Entry(IndexLevel, RegionStart)

NextLevel(level) ==
  /\ IndexLevel' = IndexLevel + 1
  /\ PageLevel' = level

\* Fault: the loop never goes to the next level.
FaultNoNextLevel ==
  /\ pc = "walk" /\ pt[Here].type = "table"
  /\ UNCHANGED vars

DescendTable ==
  /\ pc = "walk" /\ pt[Here].type = "table"
  /\ NextLevel(IF IndexLevel = PageLevel THEN PageLevel + 1 ELSE PageLevel)
  /\ UNCHANGED <<pt, tables, mmu, tlb, pc, regionVars, BlockEntry, callVars, status>>

\* A descriptor above the level the region needs is replaced by a new table.
NewTable(contents) ==
  /\ LET child == <<IndexLevel + 1, Here[2]>>
     IN  /\ tables' = tables \cup {child}
         /\ pt' = [d \in Descriptors |->
                     IF d = Here THEN TableDesc
                     ELSE IF TableOf(d) = child THEN contents[d]
                     ELSE pt[d]]
  /\ NextLevel(PageLevel)
  /\ UNCHANGED <<mmu, tlb, pc, regionVars, BlockEntry, callVars, status>>

\* The block's own attributes go to every entry of the table that replaces it.
BlockEntryAddress == (RegionStart \div S(IndexLevel)) * S(IndexLevel)

\* Fault: the entries are a block apart, not one block of the next level.
FaultEntriesABlockApart(n) ==
  Block(BlockEntryAddress + ((n % TT_ENTRY_COUNT) * S(IndexLevel)), pt[Here].bits)

\* Fault: the attributes of the block are lost.
FaultDropsAttributes(n) ==
  Block(BlockEntryAddress + ((n % TT_ENTRY_COUNT) * S(IndexLevel + 1)), {"AF"})

SplitEntry(n) ==
  Block(BlockEntryAddress + ((n % TT_ENTRY_COUNT) * S(IndexLevel + 1)), pt[Here].bits)

SplitBlock ==
  /\ pc = "walk" /\ IndexLevel # PageLevel /\ pt[Here].type = "block"
  /\ NewTable([d \in Descriptors |-> SplitEntry(d[2])])

LinkTable ==
  /\ pc = "walk" /\ IndexLevel # PageLevel /\ pt[Here].type = "invalid"
  /\ NewTable([d \in Descriptors |-> Invalid])

\* AllocatePages returns NULL.  ArmConfigureMmu then frees the root table and
\* only the root table; TTBR0 keeps its address.
OutOfResources ==
  /\ pc = "walk" /\ IndexLevel # PageLevel /\ pt[Here].type # "table"
  /\ status' = "OUT_OF_RESOURCES"
  /\ pc' = "idle"
  /\ RegionLength' = 0
  /\ IF mmu = "on" THEN UNCHANGED <<mmu, tables, memoryTable>>
                   ELSE /\ mmu' = "failed"
                        /\ tables' = tables \ {Root}
                        /\ memoryTable' = <<>>
  /\ UNCHANGED <<pt, tlb, RegionStart, change, walkVars, call, calls>>

ReachLevel ==
  /\ pc = "walk" /\ IndexLevel = PageLevel /\ pt[Here].type # "table"
  /\ pc' = "write"
  /\ BlockEntry' = Here[2]
  /\ UNCHANGED <<pt, tables, mmu, tlb, regionVars, IndexLevel, PageLevel, callVars, status>>

(* UpdateRegionMapping, the inner loop: one descriptor per step.            *)

\* Fault: the address has been advanced already.
FaultFlushesNext(p) == {t \in tlb : t.n # (p + S(PageLevel)) \div S(t.level)}

\* ArmUpdateTranslationTableEntry drops the translation cached for page p.
Flushed(p) == {t \in tlb : t.n # p \div S(t.level)}

NewDescriptor(old) == Block(RegionStart, (old.bits \cap change.keep) \cup change.set)

\* Fault: a table descriptor is written over.
FaultOverwritesTable(start, length) ==
  /\ length >= S(PageLevel)
  /\ ~IsLast(PageLevel, BlockEntry)

\* The inner loop goes on to the next descriptor of the same table ...
StaysInTable(start, length) ==
  /\ length >= S(PageLevel)
  /\ ~IsLast(PageLevel, BlockEntry)
  /\ pt[<<PageLevel, BlockEntry + 1>>].type # "table"

WriteEntry ==
  /\ pc = "write"
  /\ pt' = [pt EXCEPT ![<<PageLevel, BlockEntry>>] = NewDescriptor(@)]
  /\ tlb' = Flushed(RegionStart)
  /\ LET start == RegionStart + S(PageLevel)
         length == RegionLength - S(PageLevel)
     IN  /\ RegionStart' = start
         /\ RegionLength' = length
         /\ BlockEntry' = BlockEntry + 1
         /\ \/ /\ StaysInTable(start, length)
               /\ UNCHANGED <<pc, IndexLevel, PageLevel, status>>
            \* ... or a new walk starts for the rest ...
            \/ /\ ~StaysInTable(start, length) /\ length # 0
               /\ StartWalk(start, length)
               /\ UNCHANGED status
            \* ... or the region is done.
            \/ /\ length = 0
               /\ pc' = IF mmu = "on" THEN "idle" ELSE "fill"
               /\ status' = "SUCCESS"
               /\ UNCHANGED <<IndexLevel, PageLevel>>
  /\ UNCHANGED <<tables, mmu, change, callVars>>

(* The table walker caches a translation of its own accord.                 *)

TlbFill(p) ==
  /\ mmu = "on" /\ tlb = {}
  /\ \E l \in Level :
       /\ MappedAt(p, l)
       /\ tlb' = {[level |-> l, n |-> p \div S(l), desc |-> pt[Entry(l, p)]]}
  /\ UNCHANGED <<pt, tables, mmu, pc, regionVars, walkVars, callVars, status>>

-----------------------------------------------------------------------------

\* The steps of the library itself, once it has been called.
Library ==
  \/ FillNextRegion \/ EnableMmu
  \/ DescendTable \/ SplitBlock \/ LinkTable \/ OutOfResources \/ ReachLevel
  \/ WriteEntry

Next ==
  \/ ConfigureMmu \/ ConfigureMmuNoMemory
  \/ \E c \in Calls, start \in Page, length \in 0 .. PageCount :
        SetRegion(c, start, length)
  \/ Library
  \/ \E p \in Page : TlbFill(p)

Spec == Init /\ [][Next]_vars

\* The library is sequential code: nothing keeps it from its next step.
FairSpec == Spec /\ WF_vars(Library)

-----------------------------------------------------------------------------
(* Properties *)

TypeOK ==
  /\ pt \in [Descriptors -> [type : {"invalid", "block", "table"},
                             addr : Page, bits : SUBSET Bits]]
  /\ tables \subseteq Level \X Page
  /\ mmu \in {"off", "on", "failed"}
  /\ tlb \subseteq [level : Level, n : Page,
                    desc : [type : {"block"}, addr : Page, bits : SUBSET Bits]]
  /\ pc \in {"idle", "fill", "walk", "write"}
  /\ memoryTable \in Seq(MemoryRegion)
  /\ RegionStart \in 0 .. PageCount
  /\ RegionLength \in 0 .. PageCount
  /\ change \in [keep : SUBSET Bits, set : SUBSET Bits]
  /\ IndexLevel \in RootLevel .. 4
  /\ PageLevel \in 1 .. 3
  /\ BlockEntry \in 0 .. PageCount
  /\ status \in {"SUCCESS", "INVALID_PARAMETER", "OUT_OF_RESOURCES"}
  /\ calls \in 0 .. MaxCalls

\* UEFI mandates a 1:1 mapping (ArmMmuLibCore.c:575): whatever tables a walk
\* goes through, the page it finds is the page it was asked for, in the middle
\* of a split as well.
IdentityMap ==
  \A p \in Page, l \in Level :
    MappedAt(p, l) => Output(l, pt[Entry(l, p)], p) = p

\* Each table has exactly one table descriptor that points to it, and that one
\* lies in a table itself: no table is lost when a block is written over the
\* descriptor of a table, which is what the early exit of the inner loop is
\* for (ArmMmuLibCore.c:392), and none is used before it is allocated.
NoTableLost ==
  mmu # "failed" =>
    \A d \in Descriptors :
      d[1] < 3 => (pt[d].type = "table" <=> <<d[1] + 1, d[2]>> \in tables)

\* Level 0 has no block descriptors and level 3 no table descriptors
\* (ArmMmuLibCore.c:218 and :239).
LegalDescriptors ==
  \A d \in Descriptors :
    /\ d[1] = 0 => pt[d].type # "block"
    /\ d[1] = 3 => pt[d].type # "table"

\* A translation the MMU has cached is the one the tables hold, for every page
\* it covers: the flush of one address per descriptor is enough, even for a
\* block that was split after it was cached (ArmMmuLibCore.c:385).
TlbCoherent ==
  \A t \in tlb, p \in Page :
    p \div S(t.level) = t.n =>
      /\ Mapped(p)
      /\ Leaf(p).bits = t.desc.bits
      /\ \A l \in Level : MappedAt(p, l) =>
           Output(l, Leaf(p), p) = Output(t.level, t.desc, p)

\* The memory map is applied in order: once the MMU is on, a page has the
\* attributes of the last region that holds it and no other page is mapped
\* (the platform's map overlaps: Rk356xMem.c).
MemoryMapInstalled ==
  LET table == call.table
      Holding(p) == {i \in DOMAIN table :
                       p \in table[i].base .. table[i].base + table[i].length - 1}
  IN  mmu = "on" /\ calls = 0 =>
        \A p \in Page :
          /\ Mapped(p) <=> Holding(p) # {}
          /\ \A i \in Holding(p) :
               (\A j \in Holding(p) : j <= i) =>
                 Leaf(p).bits
                   = {"AF"} \cup ArmMemoryAttributeToPageAttribute(table[i].attr)

\* What the caller of a successful call reads back, by the conversion the
\* library offers for it, is what it asked for.
CallTakesEffect ==
  pc = "idle" /\ status = "SUCCESS" /\ calls > 0 =>
    \A p \in call.start .. call.start + call.length - 1 :
      LET got == PageAttributeToGcdAttribute(Leaf(p).bits)
          c == call.args
      IN  /\ Mapped(p)
          /\ c.op = "SetNoExec" => got.xp
          /\ c.op = "ClearNoExec" => ~got.xp
          /\ c.op = "SetReadOnly" => got.ro
          /\ c.op = "ClearReadOnly" => ~got.ro
          /\ c.op = "SetAttributes" =>
               /\ got.ro = c.gcd.ro
               /\ got.xp = (c.gcd.xp \/ c.gcd.cache = "UC")
               /\ c.gcd.cache # "none" => got.cache = c.gcd.cache

\* Every call ends.
CallsEnd == pc # "idle" ~> pc = "idle"

\* Seen through the walk, the library does what PageMap promises: a call
\* changes the pages of its own region, in order, each of them once.
PM == INSTANCE PageMap
        WITH map <- [p \in Page |-> IF Mapped(p)
                                      THEN [mapped |-> TRUE, bits |-> Leaf(p).bits]
                                      ELSE [mapped |-> FALSE, bits |-> {}]],
             start <- RegionStart,
             length <- RegionLength

ImplementsPageMap == PM!Spec
=============================================================================
