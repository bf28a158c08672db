---------------------------- MODULE ArmMmuProofs ----------------------------
(* Safety of the page-table library for every geometry and memory map. *)
EXTENDS ArmMmu, TLAPS

-----------------------------------------------------------------------------
(* Geometry *)

LEMMA SizeType == \A l \in 0 .. 3 : S(l) \in Nat \ {0}
<1>1. TT_ENTRY_COUNT * TT_ENTRY_COUNT \in Nat \ {0}
  BY GeometryAssumption
<1>2. TT_ENTRY_COUNT * TT_ENTRY_COUNT * TT_ENTRY_COUNT \in Nat \ {0}
  BY <1>1, GeometryAssumption
<1> QED BY <1>1, <1>2, GeometryAssumption DEF S

LEMMA SizeStep == \A l \in 0 .. 2 : S(l) = TT_ENTRY_COUNT * S(l + 1)
BY GeometryAssumption DEF S

LEMMA DivMod ==
  ASSUME NEW a \in Nat, NEW b \in Nat \ {0}
  PROVE  /\ a \div b \in Nat
         /\ a % b \in 0 .. b - 1
         /\ a = b * (a \div b) + (a % b)
         /\ a \div b <= a
         /\ (a \div b) * b <= a
         /\ (a \div b) * b + (a % b) = a
OBVIOUS

LEMMA DivUnique ==
  ASSUME NEW a \in Nat, NEW b \in Nat \ {0}, NEW q \in Nat,
         b * q <= a, a < b * q + b
  PROVE  a \div b = q
OBVIOUS

LEMMA NestedDiv ==
  ASSUME NEW a \in Nat, NEW b \in Nat \ {0}, NEW c \in Nat \ {0}
  PROVE  (a \div b) \div c = a \div (c * b)
OBVIOUS

\* An address aligned for large blocks is aligned for smaller ones.
LEMMA SmallerBlocks ==
  ASSUME NEW a \in Nat, NEW s \in Nat \ {0}, NEW f \in Nat \ {0},
         a % (f * s) = 0
  PROVE  a % s = 0
<1> DEFINE b == f * s
           q == a \div b
           p == f * q
<1>1. b \in Nat \ {0} /\ a % b = 0
  OBVIOUS
<1>2. q \in Nat /\ a = b * q
  <2> HIDE DEF b
  <2> QED BY <1>1, DivMod
<1>3. p \in Nat /\ a = s * p
  <2> HIDE DEF q
  <2> QED BY <1>2
<1>4. a \div s = p
  <2> HIDE DEF p
  <2>1. s * p <= a /\ a < s * p + s
    BY <1>3
  <2> QED BY <1>3, <2>1, DivUnique
<1>5. a = s * (a \div s) + (a % s) /\ a % s \in Nat
  BY DivMod
<1> QED
  <2> HIDE DEF p
  <2> QED BY <1>3, <1>4, <1>5

LEMMA SizeGrows ==
  ASSUME NEW s \in Nat \ {0}, NEW f \in Nat \ {0}
  PROVE  s <= f * s
OBVIOUS

LEMMA PageCountType == PageCount \in Nat \ {0}
BY SizeType, GeometryAssumption DEF PageCount

LEMMA EntryType ==
  ASSUME NEW l \in Level, NEW p \in Page
  PROVE  /\ Entry(l, p) \in Descriptors
         /\ p \div S(l) \in Page
<1>1. S(l) \in Nat \ {0}
  BY SizeType, GeometryAssumption DEF Level
<1>2. p \in Nat /\ p < PageCount
  BY PageCountType DEF Page
<1>3. /\ p \div S(l) \in Nat
      /\ p \div S(l) <= p
      /\ (p \div S(l)) * S(l) <= p
  BY <1>1, <1>2, DivMod
<1> QED BY <1>1, <1>2, <1>3, PageCountType DEF Entry, Descriptors, Page

\* The walk's next descriptor lies in the table the present one points to.
LEMMA NextTable ==
  ASSUME NEW l \in RootLevel .. 2, NEW p \in Page
  PROVE  TableOf(Entry(l + 1, p)) = <<l + 1, p \div S(l)>>
<1>1. /\ l \in 0 .. 2 /\ l + 1 \in 0 .. 3 /\ l + 1 # RootLevel
      /\ p \in Nat
  BY GeometryAssumption, PageCountType DEF Page
<1>2. S(l + 1) \in Nat \ {0} /\ S(l) = TT_ENTRY_COUNT * S(l + 1)
  BY <1>1, SizeType, SizeStep
<1>3. (p \div S(l + 1)) \div TT_ENTRY_COUNT = p \div S(l)
  BY <1>1, <1>2, NestedDiv, GeometryAssumption
<1> QED BY <1>1, <1>3 DEF TableOf, Entry

\* The address a split gives entry m of the table under entry n.
LEMMA SplitAddress ==
  ASSUME NEW l \in 0 .. 2, NEW m \in Nat
  PROVE  (m \div TT_ENTRY_COUNT) * S(l) + ((m % TT_ENTRY_COUNT) * S(l + 1))
           = m * S(l + 1)
<1> DEFINE q == m \div TT_ENTRY_COUNT
           r == m % TT_ENTRY_COUNT
           s == S(l + 1)
           f == TT_ENTRY_COUNT
<1>1. s \in Nat /\ S(l) = f * s
  BY SizeType, SizeStep
<1>2. f \in Nat /\ q \in Nat /\ r \in Nat /\ m = f * q + r
  BY DivMod, GeometryAssumption
<1>3. q * (f * s) + (r * s) = (f * q + r) * s
  <2> HIDE DEF q, r, s, f
  <2> QED BY <1>1, <1>2
<1>4. q * S(l) + (r * s) = m * s
  <2> HIDE DEF q, r, s, f
  <2> QED BY <1>1, <1>2, <1>3
<1> QED BY <1>4

LEMMA FirstLevel ==
  ASSUME NEW start \in Page, NEW length \in Nat \ {0}
  PROVE  LET l == FirstPageLevel(start, length)
         IN  l \in 1 .. 3 /\ S(l) <= length /\ start % S(l) = 0
<1> DEFINE Fits(l) == /\ (IF start = 0 THEN length ELSE start) % S(l) = 0
                      /\ length >= S(l)
<1>1. start \in Nat
  BY PageCountType DEF Page
<1>2. Fits(3)
  BY <1>1 DEF S
<1>3. \E l \in 1 .. 3 : Fits(l) /\ \A m \in 1 .. l - 1 : ~Fits(m)
  <2> HIDE DEF Fits
  <2>1. CASE Fits(1)
    BY <2>1
  <2>2. CASE ~Fits(1) /\ Fits(2)
    BY <2>2
  <2>3. CASE ~Fits(1) /\ ~Fits(2)
    BY <2>3, <1>2
  <2> QED BY <2>1, <2>2, <2>3
<1>4. /\ FirstPageLevel(start, length) \in 1 .. 3
      /\ Fits(FirstPageLevel(start, length))
  BY <1>3 DEF FirstPageLevel
<1>5. S(FirstPageLevel(start, length)) \in Nat \ {0}
  BY <1>4, SizeType
<1> QED BY <1>1, <1>4, <1>5

-----------------------------------------------------------------------------
(* The inductive invariant *)

\* A block descriptor maps the addresses that a walk finds it for.
BlocksInPlace ==
  \A d \in Descriptors : pt[d].type = "block" => pt[d].addr = d[2] * S(d[1])

\* Table descriptors lie in allocated tables.
TablesInTables ==
  mmu # "failed" =>
    \A d \in Descriptors : pt[d].type = "table" => TableOf(d) \in tables

RegionInSpace == RegionStart + RegionLength <= PageCount

\* The walk is in an allocated table, above or at a level whose blocks fit.
WalkInv ==
  pc = "walk" =>
    /\ IndexLevel \in RootLevel .. PageLevel
    /\ RegionStart \in Page
    /\ S(PageLevel) <= RegionLength
    /\ RegionStart % S(PageLevel) = 0
    /\ TableOf(Here) \in tables

\* The next descriptor to write maps the start of the region and holds no table.
WriteInv ==
  pc = "write" =>
    /\ PageLevel \in Level
    /\ <<PageLevel, BlockEntry>> \in Descriptors
    /\ BlockEntry * S(PageLevel) = RegionStart
    /\ S(PageLevel) <= RegionLength
    /\ pt[<<PageLevel, BlockEntry>>].type # "table"

\* Which phases go together.
PhaseInv ==
  /\ pc # "idle" => mmu # "failed"
  /\ pc # "idle" \/ mmu = "on" => Root \in tables
  /\ pc = "idle" /\ mmu = "off" => pt = [d \in Descriptors |-> Invalid]

IInv ==
  /\ TypeOK /\ BlocksInPlace /\ LegalDescriptors /\ NoTableLost /\ TablesInTables
  /\ RegionInSpace /\ WalkInv /\ WriteInv /\ PhaseInv

-----------------------------------------------------------------------------
(* One lemma per action *)

LEMMA InitInv == Init => IInv
<1> SUFFICES ASSUME Init PROVE IInv
  OBVIOUS
<1> USE GeometryAssumption, PageCountType DEF Init
<1>1. \A d \in Descriptors : pt[d] = Invalid
  OBVIOUS
<1>2. TypeOK
  <2>1. Invalid \in [type : {"invalid", "block", "table"}, addr : Page, bits : SUBSET Bits]
    BY DEF Invalid, Page
  <2>2. memoryTable \in Seq(MemoryRegion)
    OBVIOUS
  <2> QED BY <2>1, <2>2 DEF TypeOK
<1>3. /\ BlocksInPlace /\ LegalDescriptors /\ NoTableLost /\ TablesInTables
  BY <1>1 DEF BlocksInPlace, LegalDescriptors, NoTableLost, TablesInTables, Invalid
<1>4. RegionInSpace /\ WalkInv /\ WriteInv /\ PhaseInv
  BY DEF RegionInSpace, WalkInv, WriteInv, PhaseInv
<1> QED BY <1>2, <1>3, <1>4 DEF IInv

LEMMA StartWalkInv ==
  ASSUME NEW start \in Page, NEW length \in Nat \ {0}, start + length <= PageCount,
         StartWalk(start, length), RegionStart' = start, RegionLength' = length,
         Root \in tables'
  PROVE  /\ IndexLevel' \in RootLevel .. 4
         /\ PageLevel' \in 1 .. 3
         /\ RegionStart' \in 0 .. PageCount
         /\ RegionLength' \in 0 .. PageCount
         /\ RegionInSpace' /\ WalkInv'
<1>1. /\ PageLevel' \in 1 .. 3
      /\ S(PageLevel') <= length
      /\ start % S(PageLevel') = 0
  BY FirstLevel DEF StartWalk
<1>2. TableOf(Entry(RootLevel, start)) = Root
  BY DEF TableOf, Entry, Root
<1> QED BY <1>1, <1>2, GeometryAssumption, PageCountType
        DEF StartWalk, RegionInSpace, WalkInv, Here, Page

LEMMA ConfigureMmuInv == IInv /\ ConfigureMmu => IInv'
<1> SUFFICES ASSUME IInv, ConfigureMmu PROVE IInv'
  OBVIOUS
<1> USE GeometryAssumption, PageCountType DEF ConfigureMmu, regionVars, walkVars
<1>1. pt' = [d \in Descriptors |-> Invalid]
  BY DEF IInv, PhaseInv
<1>2. TypeOK'
  <2>1. Invalid \in [type : {"invalid", "block", "table"}, addr : Page, bits : SUBSET Bits]
    BY DEF Invalid, Page
  <2>2. memoryTable' \in Seq(MemoryRegion)
    BY MemoryTablesAssumption
  <2>3. Root \in Level \X Page
    BY DEF Root, Level, Page
  <2> QED BY <1>1, <2>1, <2>2, <2>3 DEF TypeOK, IInv
<1>3. (BlocksInPlace /\ LegalDescriptors /\ TablesInTables)'
  BY <1>1 DEF BlocksInPlace, LegalDescriptors, TablesInTables, Invalid
<1>4. NoTableLost'
  <2>1. ASSUME NEW d \in Descriptors, d[1] < 3 PROVE <<d[1] + 1, d[2]>> # Root
    BY DEF Descriptors, Level, Root
  <2> QED BY <1>1, <2>1 DEF NoTableLost, Invalid
<1>5. (RegionInSpace /\ WalkInv /\ WriteInv /\ PhaseInv)'
  BY DEF IInv, RegionInSpace, WalkInv, WriteInv, PhaseInv
<1> QED BY <1>2, <1>3, <1>4, <1>5 DEF IInv

LEMMA ConfigureMmuNoMemoryInv == IInv /\ ConfigureMmuNoMemory => IInv'
BY DEF IInv, ConfigureMmuNoMemory, regionVars, walkVars, callVars, TypeOK,
       BlocksInPlace, LegalDescriptors, NoTableLost, TablesInTables,
       RegionInSpace, WalkInv, WriteInv, PhaseInv

LEMMA FillNextRegionInv == IInv /\ FillNextRegion => IInv'
<1> SUFFICES ASSUME IInv, FillNextRegion PROVE IInv'
  OBVIOUS
<1> DEFINE r == Head(memoryTable)
<1>1. /\ r \in MemoryRegion
      /\ Tail(memoryTable) \in Seq(MemoryRegion)
  BY DEF IInv, TypeOK, FillNextRegion
<1>2. /\ r.base \in Page /\ r.length \in Nat \ {0}
      /\ r.base + r.length <= PageCount
  BY <1>1, PageCountType DEF MemoryRegion, Page
<1>3. /\ StartWalk(r.base, r.length)
      /\ RegionStart' = r.base
      /\ RegionLength' = r.length
      /\ change' = FillTranslationTable(r.attr)
      /\ UNCHANGED <<BlockEntry, pt, tables, mmu, tlb, call, status, calls>>
      /\ memoryTable' = Tail(memoryTable)
      /\ pc = "fill" /\ pc' = "walk"
  BY DEF FillNextRegion, UpdateRegionMapping, StartWalk
<1>4. FillTranslationTable(r.attr) \in [keep : SUBSET Bits, set : SUBSET Bits]
  BY Zenon DEF FillTranslationTable, ArmMemoryAttributeToPageAttribute, Bits, XnMask
<1>5. Root \in tables'
  BY <1>3 DEF IInv, PhaseInv
<1> HIDE DEF r
<1>6. /\ IndexLevel' \in RootLevel .. 4
      /\ PageLevel' \in 1 .. 3
      /\ RegionStart' \in 0 .. PageCount
      /\ RegionLength' \in 0 .. PageCount
      /\ RegionInSpace' /\ WalkInv'
  BY <1>2, <1>3, <1>5, StartWalkInv
<1>7. TypeOK'
  BY <1>1, <1>3, <1>4, <1>6 DEF IInv, TypeOK, r
<1>8. (BlocksInPlace /\ LegalDescriptors /\ NoTableLost /\ TablesInTables)'
  BY <1>3 DEF IInv, BlocksInPlace, LegalDescriptors, NoTableLost, TablesInTables
<1>9. (WriteInv /\ PhaseInv)'
  BY <1>3, <1>5 DEF IInv, WriteInv, PhaseInv
<1> QED BY <1>6, <1>7, <1>8, <1>9 DEF IInv

LEMMA EnableMmuInv == IInv /\ EnableMmu => IInv'
BY DEF IInv, EnableMmu, regionVars, walkVars, callVars, TypeOK, BlocksInPlace,
       LegalDescriptors, NoTableLost, TablesInTables, RegionInSpace, WalkInv,
       WriteInv, PhaseInv

LEMMA ChangeType ==
  ASSUME NEW c \in Calls
  PROVE  ChangeOf(c) \in [keep : SUBSET Bits, set : SUBSET Bits]
<1>1. \A g : ArmSetMemoryAttributes(g) \in [keep : SUBSET Bits, set : SUBSET Bits]
  BY Zenon DEF ArmSetMemoryAttributes, GcdAttributeToPageAttribute, Bits, XnMask
<1>2. /\ ArmSetMemoryRegionNoExec \in [keep : SUBSET Bits, set : SUBSET Bits]
      /\ ArmClearMemoryRegionNoExec \in [keep : SUBSET Bits, set : SUBSET Bits]
      /\ ArmSetMemoryRegionReadOnly \in [keep : SUBSET Bits, set : SUBSET Bits]
      /\ ArmClearMemoryRegionReadOnly \in [keep : SUBSET Bits, set : SUBSET Bits]
  BY DEF ArmSetMemoryRegionNoExec, ArmClearMemoryRegionNoExec,
         ArmSetMemoryRegionReadOnly, ArmClearMemoryRegionReadOnly, Bits
<1> QED BY <1>1, <1>2, Zenon DEF ChangeOf

LEMMA SetRegionInv ==
  ASSUME NEW c \in Calls, NEW start \in Page, NEW length \in 0 .. PageCount,
         IInv, SetRegion(c, start, length)
  PROVE  IInv'
<1>1. /\ UNCHANGED <<pt, tables, mmu, tlb, memoryTable, BlockEntry>>
      /\ pc = "idle" /\ mmu = "on" /\ start + length <= PageCount
      /\ calls' = calls + 1 /\ calls < MaxCalls
  BY DEF SetRegion, walkVars, UpdateRegionMapping
<1>2. (BlocksInPlace /\ LegalDescriptors /\ NoTableLost /\ TablesInTables)'
  BY <1>1 DEF IInv, BlocksInPlace, LegalDescriptors, NoTableLost, TablesInTables
<1>3. Root \in tables'
  BY <1>1 DEF IInv, PhaseInv
<1>4. CASE length = 0
  <2>1. UNCHANGED <<pc, regionVars, walkVars>> /\ status' = "INVALID_PARAMETER"
    BY <1>4 DEF SetRegion
  <2>2. TypeOK'
    BY <2>1, <1>1, GeometryAssumption DEF IInv, TypeOK, regionVars, walkVars
  <2> QED BY <1>1, <1>2, <1>3, <2>1, <2>2
          DEF IInv, RegionInSpace, WalkInv, WriteInv, PhaseInv, regionVars, walkVars
<1>5. CASE length # 0
  <2>1. /\ StartWalk(start, length) /\ pc' = "walk"
        /\ RegionStart' = start /\ RegionLength' = length
        /\ change' = ChangeOf(c) /\ status' = status
    BY <1>5 DEF SetRegion, UpdateRegionMapping, StartWalk
  <2>2. length \in Nat \ {0}
    BY <1>5, PageCountType
  <2>3. /\ IndexLevel' \in RootLevel .. 4
        /\ PageLevel' \in 1 .. 3
        /\ RegionStart' \in 0 .. PageCount
        /\ RegionLength' \in 0 .. PageCount
        /\ RegionInSpace' /\ WalkInv'
    BY <1>1, <1>3, <2>1, <2>2, StartWalkInv
  <2>4. TypeOK'
    BY <1>1, <2>1, <2>3, ChangeType, GeometryAssumption DEF IInv, TypeOK
  <2> QED BY <1>1, <1>2, <1>3, <2>1, <2>3, <2>4 DEF IInv, WriteInv, PhaseInv
<1> QED BY <1>4, <1>5

\* While a walk is under way the next descriptor exists.
LEMMA HereType ==
  ASSUME IInv, pc = "walk"
  PROVE  /\ IndexLevel \in Level /\ Here \in Descriptors
         /\ Here[1] = IndexLevel /\ Here[2] = RegionStart \div S(IndexLevel)
         /\ Here[2] \in Page
<1>1. IndexLevel \in Level /\ RegionStart \in Page
  BY GeometryAssumption DEF IInv, WalkInv, TypeOK, Level
<1> QED BY <1>1, EntryType DEF Here, Entry

\* A walk that goes down one level stays in allocated tables.
LEMMA GoDown ==
  ASSUME IInv, pc = "walk", IndexLevel < 3, IndexLevel' = IndexLevel + 1,
         RegionStart' = RegionStart, <<IndexLevel + 1, Here[2]>> \in tables'
  PROVE  TableOf(Here)' \in tables'
<1>1. IndexLevel \in RootLevel .. 2 /\ RegionStart \in Page
  BY GeometryAssumption DEF IInv, WalkInv, TypeOK
<1>2. TableOf(Entry(IndexLevel + 1, RegionStart))
        = <<IndexLevel + 1, RegionStart \div S(IndexLevel)>>
  BY <1>1, NextTable
<1>3. Here' = Entry(IndexLevel + 1, RegionStart)
  BY DEF Here, Entry
<1>4. Here[2] = RegionStart \div S(IndexLevel)
  BY HereType
<1> QED BY <1>2, <1>3, <1>4 DEF TableOf

LEMMA DescendTableInv == IInv /\ DescendTable => IInv'
<1> SUFFICES ASSUME IInv, DescendTable PROVE IInv'
  OBVIOUS
<1>1. /\ UNCHANGED <<pt, tables, mmu, tlb, pc, RegionStart, RegionLength, change,
                     BlockEntry, memoryTable, call, calls, status>>
      /\ pc = "walk" /\ pt[Here].type = "table"
      /\ IndexLevel' = IndexLevel + 1
      /\ PageLevel' = IF IndexLevel = PageLevel THEN PageLevel + 1 ELSE PageLevel
  BY DEF DescendTable, NextLevel, regionVars, callVars
<1>2. /\ IndexLevel \in RootLevel .. PageLevel /\ PageLevel \in 1 .. 3
      /\ RegionStart \in Page /\ RegionLength \in Nat
      /\ S(PageLevel) <= RegionLength /\ RegionStart % S(PageLevel) = 0
  BY <1>1, PageCountType DEF IInv, WalkInv, TypeOK
<1>3. IndexLevel < 3
  BY <1>1, <1>2, HereType DEF IInv, LegalDescriptors
<1>4. TableOf(Here)' \in tables'
  <2>1. <<IndexLevel + 1, Here[2]>> \in tables
    BY <1>1, <1>3, HereType DEF IInv, NoTableLost, PhaseInv
  <2> QED BY <1>1, <1>3, <2>1, GoDown
<1>5. /\ PageLevel' \in 1 .. 3 /\ IndexLevel' \in RootLevel .. PageLevel'
      /\ S(PageLevel') <= RegionLength /\ RegionStart % S(PageLevel') = 0
  <2>1. CASE IndexLevel # PageLevel
    BY <2>1, <1>1, <1>2, GeometryAssumption
  <2>2. CASE IndexLevel = PageLevel
    <3>1. /\ S(PageLevel) = TT_ENTRY_COUNT * S(PageLevel + 1)
          /\ S(PageLevel + 1) \in Nat \ {0}
      BY <2>2, <1>2, <1>3, SizeStep, SizeType
    <3>2. RegionStart \in Nat
      BY <1>2, PageCountType DEF Page
    <3>3. TT_ENTRY_COUNT \in Nat \ {0}
      BY GeometryAssumption
    <3>4. RegionStart % S(PageLevel + 1) = 0
      BY <3>1, <3>2, <3>3, <1>2, SmallerBlocks
    <3>5. S(PageLevel + 1) <= RegionLength
      BY <3>1, <3>3, <1>2, SizeGrows
    <3> QED BY <3>4, <3>5, <2>2, <1>1, <1>2, <1>3, GeometryAssumption
  <2> QED BY <2>1, <2>2
<1>6. TypeOK'
  BY <1>1, <1>3, <1>5, <1>2, GeometryAssumption DEF IInv, TypeOK
<1>7. WalkInv'
  BY <1>1, <1>2, <1>4, <1>5 DEF WalkInv
<1>8. (BlocksInPlace /\ LegalDescriptors /\ NoTableLost /\ TablesInTables)'
  BY <1>1 DEF IInv, BlocksInPlace, LegalDescriptors, NoTableLost, TablesInTables
<1>9. (RegionInSpace /\ WriteInv /\ PhaseInv)'
  BY <1>1 DEF IInv, RegionInSpace, WriteInv, PhaseInv
<1> QED BY <1>6, <1>7, <1>8, <1>9 DEF IInv

\* Both ways of putting a new table under a descriptor.
LEMMA NewTableInv ==
  ASSUME IInv, pc = "walk", IndexLevel # PageLevel, pt[Here].type # "table",
         NEW contents,
         contents \in [Descriptors -> [type : {"invalid", "block", "table"},
                                      addr : Page, bits : SUBSET Bits]],
         \A d \in Descriptors : contents[d].type # "table",
         \A d \in Descriptors :
            TableOf(d) = <<IndexLevel + 1, Here[2]>> /\ d[1] # RootLevel
              => (contents[d].type = "block" => contents[d].addr = d[2] * S(d[1])),
         tables' = tables \cup {<<IndexLevel + 1, Here[2]>>},
         pt' = [d \in Descriptors |->
                  IF d = Here THEN TableDesc
                  ELSE IF TableOf(d) = <<IndexLevel + 1, Here[2]>> THEN contents[d]
                  ELSE pt[d]],
         IndexLevel' = IndexLevel + 1, PageLevel' = PageLevel,
         UNCHANGED <<mmu, tlb, pc, regionVars, BlockEntry, callVars, status>>
  PROVE  IInv'
<1> DEFINE child == <<IndexLevel + 1, Here[2]>>
           Desc == [type : {"invalid", "block", "table"}, addr : Page, bits : SUBSET Bits]
<1> USE DEF regionVars, callVars
<1>1. /\ IndexLevel \in RootLevel .. PageLevel /\ PageLevel \in 1 .. 3
      /\ IndexLevel \in 0 .. 2 /\ IndexLevel + 1 \in Level
      /\ RegionStart \in Page
      /\ S(PageLevel) <= RegionLength /\ RegionStart % S(PageLevel) = 0
      /\ TableOf(Here) \in tables
  BY GeometryAssumption DEF IInv, WalkInv, TypeOK, Level
<1>2. /\ Here \in Descriptors /\ Here[1] = IndexLevel /\ Here[2] \in Page
  BY HereType
<1>3. ASSUME NEW d \in Descriptors, TableOf(d) = child
      PROVE  d[1] = IndexLevel + 1 /\ d # Here /\ d[1] # RootLevel
             /\ d[1] \in 1 .. 3
  BY <1>1, <1>2, <1>3, GeometryAssumption DEF TableOf
<1>4. TypeOK'
  <2>1. TableDesc \in Desc
    BY PageCountType DEF TableDesc, Page
  <2>2. pt' \in [Descriptors -> Desc]
    BY <2>1 DEF IInv, TypeOK
  <2>3. child \in Level \X Page
    BY <1>1, <1>2
  <2> QED BY <1>1, <2>2, <2>3, GeometryAssumption DEF IInv, TypeOK
<1>5. BlocksInPlace'
  BY <1>3 DEF IInv, BlocksInPlace, TableDesc
<1>6. LegalDescriptors'
  BY <1>1, <1>2, <1>3 DEF IInv, LegalDescriptors, TableDesc
<1>7. child \notin tables
  BY <1>1, <1>2 DEF IInv, NoTableLost, PhaseInv
<1>8. NoTableLost'
  <2> SUFFICES ASSUME NEW d \in Descriptors, d[1] < 3
               PROVE  pt'[d].type = "table" <=> <<d[1] + 1, d[2]>> \in tables'
    BY DEF NoTableLost
  <2>1. mmu # "failed"
    BY DEF IInv, PhaseInv
  <2>2. CASE d = Here
    BY <2>2, <1>2 DEF TableDesc
  <2>3. <<d[1] + 1, d[2]>> = child => d = Here
    <3>1. d = <<d[1], d[2]>> /\ d[1] \in Int /\ IndexLevel \in Int
      BY <1>1, GeometryAssumption DEF Descriptors, Level
    <3>2. Here = <<IndexLevel, Here[2]>>
      BY <1>2 DEF Here, Entry
    <3>3. ASSUME <<d[1] + 1, d[2]>> = child
          PROVE  d[1] + 1 = IndexLevel + 1 /\ d[2] = Here[2]
      BY <3>3
    <3>4. ASSUME <<d[1] + 1, d[2]>> = child
          PROVE  d[1] = IndexLevel
      BY <3>1, <3>3, <3>4
    <3> QED BY <3>1, <3>2, <3>3, <3>4
  <2>4. CASE TableOf(d) = child
    <3>1. pt[d].type # "table"
      BY <2>1, <2>4, <1>7 DEF IInv, TablesInTables
    <3>2. <<d[1] + 1, d[2]>> \notin tables
      BY <3>1, <2>1 DEF IInv, NoTableLost
    <3> QED BY <3>2, <2>3, <2>4, <1>3
  <2>5. CASE d # Here /\ TableOf(d) # child
    BY <2>5, <2>1, <2>3 DEF IInv, NoTableLost
  <2> QED BY <2>2, <2>4, <2>5
<1>9. TablesInTables'
  BY <1>1 DEF IInv, TablesInTables, TableDesc
<1>10. WalkInv'
  <2>1. TableOf(Here)' \in tables'
    BY <1>1, GoDown
  <2>2. IndexLevel' \in RootLevel .. PageLevel'
    BY <1>1, GeometryAssumption
  <2> QED BY <1>1, <2>1, <2>2 DEF WalkInv
<1>11. (RegionInSpace /\ WriteInv /\ PhaseInv)'
  BY DEF IInv, RegionInSpace, WriteInv, PhaseInv
<1> QED BY <1>4, <1>5, <1>6, <1>8, <1>9, <1>10, <1>11 DEF IInv

LEMMA SplitBlockInv == IInv /\ SplitBlock => IInv'
<1> SUFFICES ASSUME IInv, SplitBlock PROVE IInv'
  OBVIOUS
<1> DEFINE child == <<IndexLevel + 1, Here[2]>>
           Mine(d) == TableOf(d) = child /\ d[1] # RootLevel
           contents == [d \in Descriptors |-> IF Mine(d) THEN SplitEntry(d[2]) ELSE Invalid]
<1>1. /\ pc = "walk" /\ IndexLevel # PageLevel /\ pt[Here].type = "block"
      /\ tables' = tables \cup {child}
      /\ pt' = [d \in Descriptors |->
                   IF d = Here THEN TableDesc
                   ELSE IF TableOf(d) = child THEN SplitEntry(d[2])
                   ELSE pt[d]]
      /\ IndexLevel' = IndexLevel + 1 /\ PageLevel' = PageLevel
      /\ UNCHANGED <<mmu, tlb, pc, regionVars, BlockEntry, callVars, status>>
  BY DEF SplitBlock, NewTable, NextLevel
<1>2. /\ IndexLevel \in RootLevel .. PageLevel /\ PageLevel \in 1 .. 3
      /\ IndexLevel \in 0 .. 2
      /\ Here \in Descriptors /\ Here[1] = IndexLevel
      /\ Here[2] = RegionStart \div S(IndexLevel)
  BY <1>1, HereType, GeometryAssumption DEF IInv, WalkInv, TypeOK
<1>3. ASSUME NEW d \in Descriptors, TableOf(d) = child
      PROVE  /\ d[1] = IndexLevel + 1 /\ d[1] # RootLevel
             /\ d[2] \in Nat /\ d[2] \div TT_ENTRY_COUNT = Here[2]
  BY <1>2, <1>3, GeometryAssumption, PageCountType DEF TableOf, Descriptors, Page
<1>4. ASSUME NEW d \in Descriptors, Mine(d)
      PROVE  SplitEntry(d[2]) = Block(d[2] * S(d[1]), pt[Here].bits)
  <2>1. (d[2] \div TT_ENTRY_COUNT) * S(IndexLevel)
           + ((d[2] % TT_ENTRY_COUNT) * S(IndexLevel + 1)) = d[2] * S(IndexLevel + 1)
    BY <1>2, <1>3, <1>4, SplitAddress
  <2> QED BY <2>1, <1>2, <1>3, <1>4 DEF SplitEntry, BlockEntryAddress
<1>5. ASSUME NEW d \in Descriptors
      PROVE  d[2] * S(d[1]) \in Page
  <2>1. d[1] \in 0 .. 3 /\ d[2] \in Nat /\ d[2] * S(d[1]) < PageCount
    BY <1>5, GeometryAssumption, PageCountType DEF Descriptors, Level, Page
  <2>2. S(d[1]) \in Nat
    BY <2>1, SizeType
  <2>3. d[2] * S(d[1]) \in Nat
    BY <2>1, <2>2
  <2> QED BY <2>1, <2>3, PageCountType DEF Page
<1>6. contents \in [Descriptors -> [type : {"invalid", "block", "table"},
                                   addr : Page, bits : SUBSET Bits]]
  <2>1. pt[Here].bits \in SUBSET Bits /\ Invalid \in
          [type : {"invalid", "block", "table"}, addr : Page, bits : SUBSET Bits]
    BY <1>2, PageCountType DEF IInv, TypeOK, Invalid, Page
  <2>2. ASSUME NEW d \in Descriptors, Mine(d)
        PROVE  SplitEntry(d[2]) \in
                 [type : {"invalid", "block", "table"}, addr : Page, bits : SUBSET Bits]
    <3>1. Block(d[2] * S(d[1]), pt[Here].bits) \in
            [type : {"invalid", "block", "table"}, addr : Page, bits : SUBSET Bits]
      BY <2>1, <1>5 DEF Block
    <3> QED BY <3>1, <2>2, <1>4
  <2> HIDE DEF Mine
  <2> QED BY <2>1, <2>2
<1>7. ASSUME NEW d \in Descriptors
      PROVE  /\ contents[d].type # "table"
             /\ Mine(d) => contents[d].addr = d[2] * S(d[1])
  <2>1. CASE Mine(d)
    <3>1. contents[d] = Block(d[2] * S(d[1]), pt[Here].bits)
      BY <2>1, <1>4
    <3> QED BY <3>1 DEF Block
  <2>2. CASE ~Mine(d)
    <3>1. contents[d] = Invalid
      BY <2>2
    <3> QED BY <3>1, <2>2 DEF Invalid
  <2> QED BY <2>1, <2>2
<1>8. pt' = [d \in Descriptors |->
               IF d = Here THEN TableDesc
               ELSE IF TableOf(d) = child THEN contents[d]
               ELSE pt[d]]
  BY <1>1, <1>3
<1> HIDE DEF contents
<1> QED BY <1>1, <1>6, <1>7, <1>8, NewTableInv

LEMMA LinkTableInv == IInv /\ LinkTable => IInv'
<1> SUFFICES ASSUME IInv, LinkTable PROVE IInv'
  OBVIOUS
<1> DEFINE child == <<IndexLevel + 1, Here[2]>>
           contents == [d \in Descriptors |-> Invalid]
<1>1. /\ pc = "walk" /\ IndexLevel # PageLevel /\ pt[Here].type = "invalid"
      /\ tables' = tables \cup {child}
      /\ pt' = [d \in Descriptors |->
                   IF d = Here THEN TableDesc
                   ELSE IF TableOf(d) = child THEN contents[d]
                   ELSE pt[d]]
      /\ IndexLevel' = IndexLevel + 1 /\ PageLevel' = PageLevel
      /\ UNCHANGED <<mmu, tlb, pc, regionVars, BlockEntry, callVars, status>>
  BY DEF LinkTable, NewTable, NextLevel
<1>2. contents \in [Descriptors -> [type : {"invalid", "block", "table"},
                                   addr : Page, bits : SUBSET Bits]]
  BY PageCountType DEF Invalid, Page
<1>3. \A d \in Descriptors : contents[d].type = "invalid"
  BY DEF Invalid
<1> HIDE DEF contents
<1> QED BY <1>1, <1>2, <1>3, NewTableInv

LEMMA OutOfResourcesInv == IInv /\ OutOfResources => IInv'
<1> SUFFICES ASSUME IInv, OutOfResources PROVE IInv'
  OBVIOUS
<1> USE DEF OutOfResources, walkVars
<1>1. TypeOK'
  <2>1. memoryTable' \in Seq(MemoryRegion) /\ tables' \subseteq tables
        /\ mmu' \in {"on", "failed"}
    <3>1. CASE mmu = "on"
      BY <3>1 DEF IInv, TypeOK
    <3>2. CASE mmu # "on"
      <4>1. memoryTable' = <<>> /\ tables' = tables \ {Root} /\ mmu' = "failed"
        BY <3>2
      <4>2. <<>> \in Seq(MemoryRegion)
        OBVIOUS
      <4> QED BY <4>1, <4>2
    <3> QED BY <3>1, <3>2
  <2> QED BY <2>1, PageCountType DEF IInv, TypeOK
<1>2. (BlocksInPlace /\ LegalDescriptors /\ NoTableLost /\ TablesInTables)'
  BY DEF IInv, BlocksInPlace, LegalDescriptors, NoTableLost, TablesInTables
<1>3. RegionInSpace'
  BY PageCountType DEF IInv, TypeOK, RegionInSpace
<1>4. (WalkInv /\ WriteInv /\ PhaseInv)'
  BY DEF IInv, WalkInv, WriteInv, PhaseInv
<1> QED BY <1>1, <1>2, <1>3, <1>4 DEF IInv

\* The descriptor that maps an aligned address maps it at its start.
LEMMA AlignedEntry ==
  ASSUME NEW a \in Nat, NEW s \in Nat \ {0}, a % s = 0
  PROVE  (a \div s) * s = a
OBVIOUS

LEMMA ReachLevelInv == IInv /\ ReachLevel => IInv'
<1> SUFFICES ASSUME IInv, ReachLevel PROVE IInv'
  OBVIOUS
<1>1. /\ UNCHANGED <<pt, tables, mmu, tlb, RegionStart, RegionLength, change,
                     IndexLevel, PageLevel, memoryTable, call, calls, status>>
      /\ pc = "walk" /\ pc' = "write" /\ IndexLevel = PageLevel
      /\ pt[Here].type # "table" /\ BlockEntry' = Here[2]
  BY DEF ReachLevel, regionVars, callVars
<1>2. /\ PageLevel \in Level /\ Here \in Descriptors
      /\ Here = <<PageLevel, RegionStart \div S(PageLevel)>>
      /\ RegionStart \div S(PageLevel) \in Page
  BY <1>1, HereType DEF Here, Entry
<1>3. (RegionStart \div S(PageLevel)) * S(PageLevel) = RegionStart
  <2>1. RegionStart \in Nat /\ RegionStart % S(PageLevel) = 0
    BY <1>1, PageCountType DEF IInv, WalkInv, Page
  <2>2. S(PageLevel) \in Nat \ {0}
    BY <1>2, SizeType, GeometryAssumption DEF Level
  <2> QED BY <2>1, <2>2, AlignedEntry
<1>4. TypeOK'
  BY <1>1, <1>2, PageCountType DEF IInv, TypeOK, Page
<1>5. WriteInv'
  BY <1>1, <1>2, <1>3 DEF IInv, WalkInv, WriteInv
<1>6. (BlocksInPlace /\ LegalDescriptors /\ NoTableLost /\ TablesInTables)'
  BY <1>1 DEF IInv, BlocksInPlace, LegalDescriptors, NoTableLost, TablesInTables
<1>7. (RegionInSpace /\ WalkInv /\ PhaseInv)'
  BY <1>1 DEF IInv, RegionInSpace, WalkInv, PhaseInv
<1> QED BY <1>4, <1>5, <1>6, <1>7 DEF IInv

LEMMA WriteEntryInv == IInv /\ WriteEntry => IInv'
<1> SUFFICES ASSUME IInv, WriteEntry PROVE IInv'
  OBVIOUS
<1> DEFINE size == S(PageLevel)
           start == RegionStart + size
           length == RegionLength - size
           d == <<PageLevel, BlockEntry>>
<1>1. /\ pc = "write" /\ pt' = [pt EXCEPT ![d] = NewDescriptor(@)]
      /\ tlb' = Flushed(RegionStart)
      /\ RegionStart' = start /\ RegionLength' = length
      /\ BlockEntry' = BlockEntry + 1
      /\ UNCHANGED <<tables, mmu, change, memoryTable, call, calls>>
  BY DEF WriteEntry, callVars
<1>2. \/ /\ StaysInTable(start, length)
         /\ UNCHANGED <<pc, IndexLevel, PageLevel, status>>
      \/ length # 0 /\ StartWalk(start, length) /\ UNCHANGED status
      \/ /\ length = 0
         /\ pc' = IF mmu = "on" THEN "idle" ELSE "fill"
         /\ status' = "SUCCESS" /\ UNCHANGED <<IndexLevel, PageLevel>>
  BY DEF WriteEntry
<1>3. /\ PageLevel \in Level /\ PageLevel \in 1 .. 3
      /\ d \in Descriptors /\ pt[d].type # "table"
      /\ BlockEntry * size = RegionStart /\ size <= RegionLength
      /\ RegionStart + RegionLength <= PageCount
      /\ mmu \in {"on", "off"} /\ Root \in tables
      /\ RegionLength \in Nat /\ RegionStart \in Nat
  BY <1>1, PageCountType DEF IInv, TypeOK, WriteInv, RegionInSpace, PhaseInv
<1>4. /\ size \in Nat \ {0} /\ BlockEntry \in Page /\ BlockEntry \in Nat
      /\ RegionStart \in Page
  <2>1. size \in Nat \ {0}
    BY <1>3, SizeType
  <2>2. BlockEntry \in Page /\ BlockEntry \in Nat
    BY <1>3, PageCountType DEF Descriptors, Page
  <2> HIDE DEF size
  <2> QED BY <1>3, <2>1, <2>2, PageCountType DEF Page
<1>5. /\ start \in Nat /\ length \in Nat /\ start + length <= PageCount
      /\ start <= PageCount /\ length <= PageCount
      /\ (length # 0 => start \in Page)
  <2> HIDE DEF size
  <2> QED BY <1>3, <1>4, PageCountType DEF Page
<1>6. /\ NewDescriptor(pt[d]) \in [type : {"invalid", "block", "table"},
                                  addr : Page, bits : SUBSET Bits]
      /\ NewDescriptor(pt[d]).type = "block"
      /\ NewDescriptor(pt[d]).addr = BlockEntry * size
  BY <1>3, <1>4 DEF NewDescriptor, Block, IInv, TypeOK
<1>7. /\ pt' \in [Descriptors -> [type : {"invalid", "block", "table"},
                                  addr : Page, bits : SUBSET Bits]]
      /\ \A e \in Descriptors : e # d => pt'[e] = pt[e]
      /\ pt'[d] = NewDescriptor(pt[d])
  BY <1>1, <1>3, <1>6 DEF IInv, TypeOK
<1>8. /\ PageLevel' \in 1 .. 3 /\ IndexLevel' \in RootLevel .. 4
      /\ RegionInSpace' /\ WalkInv'
      /\ pc' \in {"idle", "fill", "walk", "write"}
      /\ status' \in {"SUCCESS", "INVALID_PARAMETER", "OUT_OF_RESOURCES"}
  <2>1. CASE StaysInTable(start, length) /\ UNCHANGED <<pc, IndexLevel, PageLevel, status>>
    BY <2>1, <1>1, <1>3, <1>5 DEF IInv, TypeOK, RegionInSpace, WalkInv
  <2>2. CASE length # 0 /\ StartWalk(start, length) /\ UNCHANGED status
    <3>1. length \in Nat \ {0} /\ start \in Page /\ Root \in tables'
      BY <2>2, <1>1, <1>3, <1>5
    <3>2. pc' = "walk" /\ status' = status
      BY <2>2 DEF StartWalk
    <3> HIDE DEF length, start
    <3> QED BY <1>1, <1>5, <2>2, <3>1, <3>2, StartWalkInv DEF IInv, TypeOK
  <2>3. CASE /\ length = 0
             /\ pc' = IF mmu = "on" THEN "idle" ELSE "fill"
             /\ status' = "SUCCESS" /\ UNCHANGED <<IndexLevel, PageLevel>>
    BY <2>3, <1>1, <1>3, <1>5 DEF IInv, TypeOK, RegionInSpace, WalkInv
  <2> QED BY <1>2, <2>1, <2>2, <2>3
<1>9. TypeOK'
  <2>1. tlb' \subseteq tlb
    BY <1>1 DEF Flushed
  <2>2. BlockEntry + 1 \in 0 .. PageCount
    BY <1>4, PageCountType DEF Page
  <2> HIDE DEF start, length
  <2> QED BY <1>1, <1>5, <1>7, <1>8, <2>1, <2>2 DEF IInv, TypeOK
<1>10. (BlocksInPlace /\ LegalDescriptors /\ NoTableLost /\ TablesInTables)'
  <2> HIDE DEF start, length
  <2>1. BlocksInPlace'
    <3>1. NewDescriptor(pt[d]).addr = d[2] * S(d[1])
      BY <1>6
    <3> HIDE DEF d
    <3> QED BY <1>7, <3>1 DEF IInv, BlocksInPlace
  <2>2. LegalDescriptors' /\ NoTableLost' /\ TablesInTables'
    <3>1. d[1] # 0
      BY <1>3
    <3> HIDE DEF d
    <3> QED BY <1>1, <1>3, <1>6, <1>7, <3>1
            DEF IInv, LegalDescriptors, NoTableLost, TablesInTables
  <2> QED BY <2>1, <2>2
<1>11. WriteInv'
  <2>1. CASE StaysInTable(start, length) /\ UNCHANGED <<pc, IndexLevel, PageLevel, status>>
    <3>1. /\ size <= length /\ pt[<<PageLevel, BlockEntry + 1>>].type # "table"
      BY <2>1 DEF StaysInTable
    <3>2. (BlockEntry + 1) * size = start
      <4> HIDE DEF size
      <4> QED BY <1>3, <1>4
    <3>3. BlockEntry + 1 \in Page /\ start < PageCount
      <4>1. BlockEntry + 1 <= start
        <5> HIDE DEF size
        <5> QED BY <1>4, <3>2
      <4>2. start < PageCount
        <5> HIDE DEF size
        <5> QED BY <1>3, <1>4, <1>5, <3>1, PageCountType
      <4> HIDE DEF start
      <4> QED BY <1>4, <1>5, <4>1, <4>2, PageCountType DEF Page
    <3>4. <<PageLevel, BlockEntry + 1>> \in Descriptors
      BY <1>3, <3>2, <3>3 DEF Descriptors
    <3>5. pt'[<<PageLevel, BlockEntry + 1>>] = pt[<<PageLevel, BlockEntry + 1>>]
      <4>1. <<PageLevel, BlockEntry + 1>> # d
        BY <1>4
      <4> HIDE DEF d
      <4> QED BY <1>7, <3>4, <4>1
    <3> QED BY <2>1, <1>1, <1>3, <3>1, <3>2, <3>4, <3>5 DEF WriteInv
  <2>2. CASE ~(StaysInTable(start, length) /\ UNCHANGED <<pc, IndexLevel, PageLevel, status>>)
    <3>1. pc' # "write"
      BY <1>2, <2>2 DEF StartWalk
    <3> QED BY <3>1 DEF WriteInv
  <2> QED BY <2>1, <2>2
<1>12. PhaseInv'
  BY <1>1, <1>2, <1>3 DEF IInv, PhaseInv, StartWalk
<1> QED BY <1>8, <1>9, <1>10, <1>11, <1>12 DEF IInv

LEMMA TlbFillInv == ASSUME NEW p \in Page, IInv, TlbFill(p) PROVE IInv'
<1>1. UNCHANGED <<pt, tables, mmu, pc, RegionStart, RegionLength, change, IndexLevel,
                 PageLevel, BlockEntry, memoryTable, call, calls, status>>
  BY DEF TlbFill, regionVars, walkVars, callVars
<1>2. tlb' \subseteq [level : Level, n : Page,
                     desc : [type : {"block"}, addr : Page, bits : SUBSET Bits]]
  <2>1. PICK l \in Level :
          /\ MappedAt(p, l)
          /\ tlb' = {[level |-> l, n |-> p \div S(l), desc |-> pt[Entry(l, p)]]}
    BY DEF TlbFill
  <2>2. /\ pt[Entry(l, p)] \in [type : {"invalid", "block", "table"},
                                addr : Page, bits : SUBSET Bits]
        /\ pt[Entry(l, p)].type = "block" /\ p \div S(l) \in Page
    BY <2>1, EntryType DEF IInv, TypeOK, MappedAt
  <2> QED BY <2>1, <2>2
<1>3. TypeOK'
  BY <1>1, <1>2 DEF IInv, TypeOK
<1>4. (BlocksInPlace /\ LegalDescriptors /\ NoTableLost /\ TablesInTables)'
  BY <1>1 DEF IInv, BlocksInPlace, LegalDescriptors, NoTableLost, TablesInTables
<1>5. (RegionInSpace /\ WalkInv /\ WriteInv /\ PhaseInv)'
  BY <1>1 DEF IInv, RegionInSpace, WalkInv, WriteInv, PhaseInv, Here
<1> QED BY <1>3, <1>4, <1>5 DEF IInv

-----------------------------------------------------------------------------
(* Theorems *)

LEMMA NextInv == IInv /\ [Next]_vars => IInv'
<1>1. ASSUME IInv, UNCHANGED vars PROVE IInv'
  BY <1>1 DEF IInv, vars, regionVars, walkVars, callVars, TypeOK, BlocksInPlace,
              LegalDescriptors, NoTableLost, TablesInTables, RegionInSpace,
              WalkInv, WriteInv, PhaseInv, Here
<1>2. ASSUME IInv, Library PROVE IInv'
  BY <1>2, FillNextRegionInv, EnableMmuInv, DescendTableInv, SplitBlockInv,
     LinkTableInv, OutOfResourcesInv, ReachLevelInv, WriteEntryInv DEF Library
<1> QED BY <1>1, <1>2, ConfigureMmuInv, ConfigureMmuNoMemoryInv, SetRegionInv, TlbFillInv
        DEF Next

\* The inductive invariant holds in every reachable state.
THEOREM Invariance == Spec => []IInv
BY InitInv, NextInv, PTL DEF Spec

\* Every variable keeps its type; in particular no index leaves its table and
\* the length that UpdateRegionMapping counts down never wraps.
THEOREM TypeCorrect == Spec => []TypeOK
<1>1. IInv => TypeOK
  BY DEF IInv
<1> QED BY <1>1, Invariance, PTL

\* A table is lost or used unallocated in no state of any run: the early exit
\* of the inner loop of UpdateRegionMapping is enough (ArmMmuLibCore.c:392).
THEOREM TablesKept == Spec => []NoTableLost
<1>1. IInv => NoTableLost
  BY DEF IInv
<1> QED BY <1>1, Invariance, PTL

\* Descriptors are always ones the architecture has at their level.
THEOREM DescriptorsLegal == Spec => []LegalDescriptors
<1>1. IInv => LegalDescriptors
  BY DEF IInv
<1> QED BY <1>1, Invariance, PTL

\* Every mapped page is mapped to itself at every step of every call: the 1:1
\* mapping that UEFI mandates (ArmMmuLibCore.c:575).
THEOREM AlwaysIdentity == Spec => []IdentityMap
<1>1. IInv => IdentityMap
  <2> SUFFICES ASSUME IInv, NEW p \in Page, NEW l \in Level, MappedAt(p, l)
               PROVE  Output(l, pt[Entry(l, p)], p) = p
    BY DEF IdentityMap
  <2>1. S(l) \in Nat \ {0} /\ p \in Nat
    BY SizeType, GeometryAssumption, PageCountType DEF Level, Page
  <2>2. pt[Entry(l, p)].addr = (p \div S(l)) * S(l)
    BY EntryType DEF IInv, BlocksInPlace, MappedAt, Entry
  <2>3. (p \div S(l)) * S(l) + (p % S(l)) = p
    BY <2>1, DivMod
  <2> QED BY <2>2, <2>3 DEF Output
<1> QED BY <1>1, Invariance, PTL
=============================================================================
