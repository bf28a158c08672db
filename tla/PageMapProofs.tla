---------------------------- MODULE PageMapProofs ----------------------------
(* What a walk of the page tables finds, proved for every geometry, memory   *)
(* map and sequence of calls: the library implements PageMap, the memory map *)
(* is installed, a call that succeeds has the effect it was made for, and    *)
(* the translation lookaside buffer never holds a stale translation.         *)
EXTENDS ArmMmuProofs

-----------------------------------------------------------------------------
(* Walks *)

\* What PageMap sees of page p.
View(p) == IF Mapped(p) THEN [mapped |-> TRUE, bits |-> Leaf(p).bits]
                        ELSE [mapped |-> FALSE, bits |-> {}]

\* A walk ends at one descriptor at most.
LEMMA OneLeaf ==
  ASSUME NEW p \in Page, NEW l \in Level, NEW m \in Level,
         MappedAt(p, l), MappedAt(p, m)
  PROVE  l = m
<1>1. RootLevel \in Int /\ l \in RootLevel .. 3 /\ m \in RootLevel .. 3
  BY GeometryAssumption DEF Level
<1>2. ASSUME NEW i \in RootLevel .. 3, NEW j \in RootLevel .. 3,
             MappedAt(p, i), MappedAt(p, j), i < j
      PROVE  FALSE
  <2>1. i \in RootLevel .. j - 1
    BY <1>1, <1>2
  <2>2. pt[Entry(i, p)].type = "table"
    BY <1>2, <2>1 DEF MappedAt, Reaches
  <2> QED BY <1>2, <2>2 DEF MappedAt
<1>3. ~(l < m) /\ ~(m < l)
  BY <1>1, <1>2
<1> QED BY <1>1, <1>3

LEMMA LeafIs ==
  ASSUME NEW p \in Page, NEW l \in Level, MappedAt(p, l)
  PROVE  /\ Mapped(p) /\ Leaf(p) = pt[Entry(l, p)]
         /\ View(p) = [mapped |-> TRUE, bits |-> pt[Entry(l, p)].bits]
<1>1. Mapped(p)
  BY DEF Mapped
<1>2. (CHOOSE k \in Level : MappedAt(p, k)) = l
  <2>1. \E k \in Level : MappedAt(p, k)
    OBVIOUS
  <2>2. /\ (CHOOSE k \in Level : MappedAt(p, k)) \in Level
        /\ MappedAt(p, CHOOSE k \in Level : MappedAt(p, k))
    BY <2>1
  <2> QED BY <2>2, OneLeaf
<1>3. Leaf(p) = pt[Entry(l, p)]
  BY <1>2 DEF Leaf
<1> QED BY <1>1, <1>3 DEF View

\* A walk that ends at a descriptor of neither kind finds nothing.
LEMMA DeadEnd ==
  ASSUME NEW p \in Page, NEW l \in Level, Reaches(p, l),
         pt[Entry(l, p)].type # "table", pt[Entry(l, p)].type # "block"
  PROVE  ~Mapped(p) /\ View(p) = [mapped |-> FALSE, bits |-> {}]
<1>1. RootLevel \in Int /\ l \in RootLevel .. 3
  BY GeometryAssumption DEF Level
<1>2. ASSUME NEW m \in Level, MappedAt(p, m) PROVE FALSE
  <2>1. m \in RootLevel .. 3
    BY DEF Level
  <2>2. CASE m < l
    <3>1. m \in RootLevel .. l - 1
      BY <1>1, <2>1, <2>2
    <3> QED BY <1>2, <3>1 DEF Reaches, MappedAt
  <2>3. CASE l < m
    <3>1. l \in RootLevel .. m - 1
      BY <1>1, <2>1, <2>3
    <3> QED BY <1>2, <3>1 DEF Reaches, MappedAt
  <2>4. CASE l = m
    BY <1>2, <2>4 DEF MappedAt
  <2> QED BY <1>1, <2>1, <2>2, <2>3, <2>4
<1> QED BY <1>2 DEF Mapped, View

\* A walk that stops at a block goes no further.
LEMMA LastStop ==
  ASSUME NEW p \in Page, NEW l \in Level, NEW m \in Level,
         Reaches(p, l), pt[Entry(l, p)].type # "table", MappedAt(p, m)
  PROVE  l = m
<1>1. CASE pt[Entry(l, p)].type = "block"
  BY <1>1, OneLeaf DEF MappedAt
<1>2. CASE pt[Entry(l, p)].type # "block"
  BY <1>2, DeadEnd DEF Mapped
<1> QED BY <1>1, <1>2

\* The table above an allocated table is allocated and points to it.
LEMMA TableAbove ==
  ASSUME IInv, mmu # "failed", NEW l \in RootLevel .. 2, NEW p \in Page,
         TableOf(Entry(l + 1, p)) \in tables
  PROVE  pt[Entry(l, p)].type = "table" /\ TableOf(Entry(l, p)) \in tables
<1>1. l \in Level /\ l < 3 /\ RootLevel \in Int
  BY GeometryAssumption DEF Level
<1>2. TableOf(Entry(l + 1, p)) = <<l + 1, p \div S(l)>>
  BY NextTable
<1>3. /\ Entry(l, p) \in Descriptors
      /\ Entry(l, p)[1] = l /\ Entry(l, p)[2] = p \div S(l)
  BY <1>1, EntryType DEF Entry
<1>4. pt[Entry(l, p)].type = "table"
  BY <1>1, <1>2, <1>3 DEF IInv, NoTableLost
<1> QED BY <1>3, <1>4 DEF IInv, TablesInTables

\* A walk reaches every descriptor of an allocated table.
LEMMA ReachesByTables ==
  ASSUME IInv, mmu # "failed", NEW l \in Level, NEW p \in Page,
         TableOf(Entry(l, p)) \in tables
  PROVE  Reaches(p, l)
<1> DEFINE In(m) == m \in Level => TableOf(Entry(m, p)) \in tables
           Points(m) == m \in Level => pt[Entry(m, p)].type = "table"
<1>1. RootLevel \in 0 .. 1 /\ l \in 0 .. 3 /\ RootLevel <= l /\ Level = RootLevel .. 3
  BY GeometryAssumption DEF Level
<1>2. ASSUME NEW m \in 0 .. 2, In(m + 1) PROVE In(m) /\ Points(m)
  <2>1. ASSUME m \in Level PROVE m \in RootLevel .. 2 /\ m + 1 \in Level
    BY <1>1, <2>1
  <2> QED BY <1>2, <2>1, TableAbove
<1>3. In(l)
  OBVIOUS
<1> HIDE DEF In, Points
<1>4. l >= 3 => In(2) /\ Points(2)
  BY <1>1, <1>2, <1>3
<1>5. l >= 2 => In(1) /\ Points(1)
  BY <1>1, <1>2, <1>3, <1>4
<1>6. l >= 1 => In(0) /\ Points(0)
  BY <1>1, <1>2, <1>3, <1>5
<1>7. ASSUME NEW m \in RootLevel .. l - 1 PROVE Points(m) /\ m \in Level
  <2>1. m \in 0 .. 2 /\ m + 1 <= l /\ m \in Level
    BY <1>1
  <2> QED BY <1>1, <1>4, <1>5, <1>6, <2>1
<1> QED BY <1>7 DEF Points, Reaches

\* Pages that share a descriptor share the descriptors above it.
LEMMA SharedAbove ==
  ASSUME NEW p \in Page, NEW q \in Page, NEW l \in Level, NEW m \in RootLevel .. l,
         p \div S(l) = q \div S(l)
  PROVE  p \div S(m) = q \div S(m)
<1> DEFINE Same(i) == i \in Level => p \div S(i) = q \div S(i)
<1>1. RootLevel \in 0 .. 1 /\ l \in 0 .. 3 /\ m \in 0 .. l /\ m \in Level
      /\ Level = RootLevel .. 3
  BY GeometryAssumption DEF Level
<1>2. ASSUME NEW i \in 0 .. 2, i \in Level, Same(i + 1) PROVE Same(i)
  <2>1. p \in Nat /\ q \in Nat
    BY PageCountType DEF Page
  <2>2. S(i) = TT_ENTRY_COUNT * S(i + 1) /\ S(i + 1) \in Nat \ {0}
    BY SizeStep, SizeType
  <2>3. TT_ENTRY_COUNT \in Nat \ {0}
    BY GeometryAssumption
  <2>4. /\ (p \div S(i + 1)) \div TT_ENTRY_COUNT = p \div S(i)
        /\ (q \div S(i + 1)) \div TT_ENTRY_COUNT = q \div S(i)
    BY <2>1, <2>2, <2>3, NestedDiv
  <2>5. i + 1 \in Level
    BY <1>1, <1>2
  <2> QED BY <1>2, <2>4, <2>5
<1>3. Same(l) /\ (Same(m) => p \div S(m) = q \div S(m))
  BY <1>1
<1> HIDE DEF Same
<1>4. l = 3 /\ m <= 2 => Same(2)
  BY <1>1, <1>2, <1>3
<1>5. l >= 2 /\ m <= 1 => Same(1)
  BY <1>1, <1>2, <1>3, <1>4
<1>6. l >= 1 /\ m <= 0 => Same(0)
  BY <1>1, <1>2, <1>3, <1>5
<1> QED BY <1>1, <1>3, <1>4, <1>5, <1>6

-----------------------------------------------------------------------------
(* What the map needs besides IInv *)

\* An empty descriptor holds no attributes.
EmptyInvalid ==
  \A d \in Descriptors : pt[d].type = "invalid" => pt[d].bits = {}

\* The table that is written to is one that walks go through.
WriteReached ==
  pc = "write" => TableOf(<<PageLevel, BlockEntry>>) \in tables

\* A region is left exactly while UpdateRegionMapping runs.
NothingLeft ==
  /\ pc \in {"idle", "fill"} => RegionLength = 0
  /\ pc = "fill" => mmu = "off"

ViewInv == IInv /\ EmptyInvalid /\ WriteReached /\ NothingLeft

\* The steps that put a table under the descriptor the walk stands at.
NewTableStep ==
  /\ pc = "walk" /\ IndexLevel # PageLevel /\ pt[Here].type # "table"
  /\ tables' = tables \cup {<<IndexLevel + 1, Here[2]>>}
  /\ pt' = [d \in Descriptors |->
              IF d = Here THEN TableDesc
              ELSE IF TableOf(d) = <<IndexLevel + 1, Here[2]>>
                THEN IF pt[Here].type = "block" THEN SplitEntry(d[2]) ELSE Invalid
              ELSE pt[d]]
  /\ UNCHANGED <<mmu, tlb, pc, regionVars, BlockEntry, callVars, status>>

LEMMA NewTableSteps ==
  ASSUME SplitBlock \/ LinkTable
  PROVE  NewTableStep
<1>1. CASE SplitBlock
  <2>1. pt[Here].type = "block" /\ pt[Here].type # "table"
    BY <1>1 DEF SplitBlock
  <2>2. pt' = [d \in Descriptors |->
                 IF d = Here THEN TableDesc
                 ELSE IF TableOf(d) = <<IndexLevel + 1, Here[2]>> THEN SplitEntry(d[2])
                 ELSE pt[d]]
    BY <1>1 DEF SplitBlock, NewTable
  <2> QED BY <1>1, <2>1, <2>2 DEF SplitBlock, NewTable, NewTableStep
<1>2. CASE LinkTable
  <2>1. pt[Here].type = "invalid" /\ pt[Here].type # "table" /\ pt[Here].type # "block"
    BY <1>2 DEF LinkTable
  <2>2. pt' = [d \in Descriptors |->
                 IF d = Here THEN TableDesc
                 ELSE IF TableOf(d) = <<IndexLevel + 1, Here[2]>> THEN Invalid
                 ELSE pt[d]]
    BY <1>2 DEF LinkTable, NewTable
  <2> QED BY <1>2, <2>1, <2>2 DEF LinkTable, NewTable, NewTableStep
<1> QED BY <1>1, <1>2

\* The steps that touch no table descriptor.
LibraryOther ==
  \/ FillNextRegion \/ EnableMmu \/ DescendTable \/ OutOfResources \/ ReachLevel

LEMMA LibraryKinds ==
  Library => SplitBlock \/ LinkTable \/ WriteEntry \/ LibraryOther
BY DEF Library, LibraryOther

LEMMA EmptyInvalidStep == ViewInv /\ [Next]_vars => EmptyInvalid'
<1> SUFFICES ASSUME ViewInv, [Next]_vars PROVE EmptyInvalid'
  OBVIOUS
<1> USE DEF ViewInv, EmptyInvalid
<1>1. CASE UNCHANGED pt
  BY <1>1
<1>2. CASE ConfigureMmu
  BY <1>2 DEF ConfigureMmu, Invalid
<1>3. CASE SplitBlock \/ LinkTable
  BY <1>3, NewTableSteps DEF NewTableStep, TableDesc, Invalid, SplitEntry, Block
<1>4. CASE WriteEntry
  <2>1. pt' = [pt EXCEPT ![<<PageLevel, BlockEntry>>] = NewDescriptor(@)]
    BY <1>4 DEF WriteEntry
  <2>2. \A d \in Descriptors :
          pt'[d] = pt[d] \/ pt'[d].type = "block"
    BY <2>1 DEF IInv, TypeOK, NewDescriptor, Block
  <2> QED BY <2>2
<1> QED BY <1>1, <1>2, <1>3, <1>4, LibraryKinds
        DEF Next, LibraryOther, ConfigureMmuNoMemory, SetRegion, FillNextRegion, EnableMmu,
            DescendTable, OutOfResources, ReachLevel, TlbFill, vars

LEMMA WriteReachedStep == ViewInv /\ [Next]_vars => WriteReached'
<1> SUFFICES ASSUME ViewInv, [Next]_vars, pc' = "write"
             PROVE  TableOf(<<PageLevel', BlockEntry'>>) \in tables'
  BY DEF WriteReached, TableOf
<1>1. CASE UNCHANGED <<pc, tables, PageLevel, BlockEntry>>
  BY <1>1 DEF ViewInv, WriteReached
<1>2. CASE ReachLevel
  <2>1. /\ pc = "walk" /\ IndexLevel = PageLevel /\ PageLevel' = PageLevel
        /\ BlockEntry' = Here[2] /\ tables' = tables
    BY <1>2 DEF ReachLevel
  <2>2. <<PageLevel', BlockEntry'>> = Here
    BY <2>1 DEF Here, Entry
  <2> QED BY <2>1, <2>2 DEF ViewInv, IInv, WalkInv
<1>3. CASE WriteEntry
  <2>1. /\ pc = "write" /\ BlockEntry' = BlockEntry + 1 /\ tables' = tables
        /\ PageLevel' = PageLevel /\ ~IsLast(PageLevel, BlockEntry)
    BY <1>3 DEF WriteEntry, StaysInTable, StartWalk
  <2>2. TableOf(<<PageLevel, BlockEntry>>) \in tables /\ BlockEntry \in Nat
    BY <2>1, PageCountType DEF ViewInv, WriteReached, IInv, TypeOK
  <2>3. CASE PageLevel = RootLevel
    BY <2>1, <2>2, <2>3 DEF TableOf
  <2>4. CASE PageLevel # RootLevel
    <3>1. BlockEntry % TT_ENTRY_COUNT # TT_ENTRY_COUNT - 1
      BY <2>1, <2>4 DEF IsLast
    <3>2. (BlockEntry + 1) \div TT_ENTRY_COUNT = BlockEntry \div TT_ENTRY_COUNT
      <4> DEFINE f == TT_ENTRY_COUNT
                 q == BlockEntry \div f
                 r == BlockEntry % f
      <4>1. f \in Nat \ {0}
        BY GeometryAssumption
      <4>2. /\ q \in Nat /\ r \in 0 .. f - 1 /\ BlockEntry = f * q + r /\ r # f - 1
        BY <2>2, <3>1, <4>1, DivMod
      <4>3. BlockEntry + 1 \in Nat /\ f * q <= BlockEntry + 1 /\ BlockEntry + 1 < f * q + f
        <5> HIDE DEF f, q, r
        <5> QED BY <2>2, <4>1, <4>2
      <4> HIDE DEF f, q, r
      <4>4. (BlockEntry + 1) \div f = q
        BY <4>1, <4>2, <4>3, DivUnique
      <4> QED BY <4>4 DEF q, f
    <3> QED BY <2>1, <2>2, <2>4, <3>2 DEF TableOf
  <2> QED BY <2>3, <2>4
<1>4. CASE ConfigureMmu \/ FillNextRegion \/ EnableMmu \/ DescendTable \/ OutOfResources
  BY <1>4 DEF ConfigureMmu, FillNextRegion, UpdateRegionMapping, StartWalk, EnableMmu,
              DescendTable, OutOfResources
<1>5. CASE SplitBlock \/ LinkTable
  BY <1>5, NewTableSteps DEF NewTableStep
<1>6. ASSUME NEW c \in Calls, NEW start \in Page, NEW length \in 0 .. PageCount,
             SetRegion(c, start, length)
      PROVE  UNCHANGED <<pc, tables, PageLevel, BlockEntry>> \/ pc' # "write"
  BY <1>6 DEF SetRegion, UpdateRegionMapping, StartWalk, walkVars
<1>7. CASE ConfigureMmuNoMemory \/ \E p \in Page : TlbFill(p)
  BY <1>7, <1>1 DEF ConfigureMmuNoMemory, TlbFill, walkVars
<1> QED BY <1>1, <1>2, <1>3, <1>4, <1>5, <1>6, <1>7, LibraryKinds
        DEF Next, LibraryOther, vars, walkVars

LEMMA NothingLeftStep == ViewInv /\ [Next]_vars => NothingLeft'
<1> SUFFICES ASSUME ViewInv, [Next]_vars PROVE NothingLeft'
  OBVIOUS
<1> USE DEF ViewInv, NothingLeft
<1>1. CASE UNCHANGED <<pc, RegionLength, mmu>>
  BY <1>1
<1>2. CASE WriteEntry
  <2>1. /\ pc = "write" /\ mmu' = mmu /\ mmu \in {"off", "on"}
        /\ RegionLength' = RegionLength - S(PageLevel)
        /\ \/ pc' = "write"
           \/ pc' = "walk"
           \/ /\ RegionLength - S(PageLevel) = 0
              /\ pc' = IF mmu = "on" THEN "idle" ELSE "fill"
    BY <1>2 DEF WriteEntry, StartWalk, IInv, TypeOK, PhaseInv
  <2> QED BY <2>1
<1>3. CASE ConfigureMmu \/ FillNextRegion \/ EnableMmu \/ DescendTable \/ OutOfResources
           \/ ReachLevel \/ ConfigureMmuNoMemory
  BY <1>3 DEF ConfigureMmu, FillNextRegion, UpdateRegionMapping, StartWalk, EnableMmu,
              DescendTable, OutOfResources, ReachLevel, ConfigureMmuNoMemory, regionVars
<1>4. CASE SplitBlock \/ LinkTable
  BY <1>4, NewTableSteps DEF NewTableStep, regionVars
<1>5. ASSUME NEW c \in Calls, NEW start \in Page, NEW length \in 0 .. PageCount,
             SetRegion(c, start, length)
      PROVE  UNCHANGED <<pc, RegionLength, mmu>> \/ pc' = "walk"
  BY <1>5 DEF SetRegion, UpdateRegionMapping, StartWalk, regionVars
<1>6. CASE \E p \in Page : TlbFill(p)
  BY <1>6 DEF TlbFill, regionVars
<1> QED BY <1>1, <1>2, <1>3, <1>4, <1>5, <1>6, LibraryKinds
        DEF Next, LibraryOther, vars, regionVars

LEMMA ViewInvInit == Init => ViewInv
BY InitInv DEF ViewInv, Init, EmptyInvalid, Invalid, WriteReached, NothingLeft

LEMMA ViewInvNext == ViewInv /\ [Next]_vars => ViewInv'
BY NextInv, EmptyInvalidStep, WriteReachedStep, NothingLeftStep DEF ViewInv

LEMMA ViewInvariance == Spec => []ViewInv
BY ViewInvInit, ViewInvNext, PTL DEF Spec

-----------------------------------------------------------------------------
(* What one step does to the map *)

\* The pages whose walk reads descriptor n of level l.
LEMMA PagesOfEntry ==
  ASSUME NEW l \in Level, NEW n \in Nat, NEW p \in Page
  PROVE  Entry(l, p) = <<l, n>> <=> p \in n * S(l) .. n * S(l) + S(l) - 1
<1> DEFINE s == S(l)
<1>1. s \in Nat \ {0} /\ p \in Nat
  BY SizeType, GeometryAssumption, PageCountType DEF Level, Page
<1>2. p \div s = n <=> n * s <= p /\ p < n * s + s
  <2> HIDE DEF s
  <2>1. ASSUME n * s <= p, p < n * s + s PROVE p \div s = n
    <3>1. s * n <= p /\ p < s * n + s
      BY <1>1, <2>1
    <3> QED BY <1>1, <3>1, DivUnique
  <2>2. ASSUME p \div s = n PROVE n * s <= p /\ p < n * s + s
    <3>1. p = s * n + (p % s) /\ p % s \in 0 .. s - 1
      BY <1>1, <2>2, DivMod
    <3> QED BY <1>1, <3>1
  <2> QED BY <2>1, <2>2
<1>3. n * s \in Nat
  BY <1>1
<1>4. p \in n * s .. n * s + s - 1 <=> n * s <= p /\ p < n * s + s
  <2> DEFINE a == n * s
  <2>1. a \in Nat
    BY <1>3
  <2> HIDE DEF a, s
  <2>2. p \in a .. a + s - 1 <=> a <= p /\ p < a + s
    BY <1>1, <2>1
  <2> QED BY <2>2 DEF a
<1> QED BY <1>2, <1>4 DEF Entry

\* What a walk finds, in the state a step leads to as well.
WalkFacts ==
  \A p \in Page, l \in Level :
    /\ MappedAt(p, l) =>
         /\ Mapped(p) /\ Leaf(p) = pt[Entry(l, p)]
         /\ View(p) = [mapped |-> TRUE, bits |-> pt[Entry(l, p)].bits]
    /\ Reaches(p, l) /\ pt[Entry(l, p)].type \notin {"table", "block"} =>
         ~Mapped(p) /\ View(p) = [mapped |-> FALSE, bits |-> {}]

LEMMA WalkFactsNow == WalkFacts
BY LeafIs, DeadEnd DEF WalkFacts

LEMMA WalkFactsNext == WalkFacts'
BY WalkFactsNow, PTL

\* What a write does to the descriptors.
LEMMA WriteFacts ==
  ASSUME ViewInv, WriteEntry, NEW d, d = <<PageLevel, BlockEntry>>
  PROVE  /\ mmu # "failed" /\ TableOf(d) \in tables
         /\ PageLevel \in Level /\ PageLevel \in 1 .. 3
         /\ d \in Descriptors /\ pt[d].type # "table"
         /\ BlockEntry * S(PageLevel) = RegionStart /\ BlockEntry \in Nat
         /\ S(PageLevel) \in 1 .. RegionLength /\ RegionStart \in Page
         /\ RegionStart + RegionLength <= PageCount /\ RegionLength \in Nat
         /\ \A e \in Descriptors : e # d => pt'[e] = pt[e]
         /\ pt'[d].type = "block"
         /\ pt'[d].bits = (pt[d].bits \cap change.keep) \cup change.set
<1>1. pc = "write" /\ pt' = [pt EXCEPT ![d] = NewDescriptor(@)]
  BY DEF WriteEntry
<1>2. /\ mmu # "failed" /\ TableOf(d) \in tables
      /\ PageLevel \in Level /\ PageLevel \in 1 .. 3
      /\ d \in Descriptors /\ pt[d].type # "table"
      /\ BlockEntry * S(PageLevel) = RegionStart /\ BlockEntry \in Nat
      /\ S(PageLevel) <= RegionLength /\ RegionLength \in Nat /\ RegionStart \in Nat
      /\ RegionStart + RegionLength <= PageCount
  BY <1>1, PageCountType
     DEF ViewInv, IInv, WriteInv, PhaseInv, WriteReached, TypeOK, RegionInSpace
<1>3. S(PageLevel) \in Nat \ {0}
  BY <1>2, SizeType
<1>4. S(PageLevel) \in 1 .. RegionLength /\ RegionStart \in Page
  BY <1>2, <1>3, PageCountType DEF Page
<1>5. /\ \A e \in Descriptors : e # d => pt'[e] = pt[e]
      /\ pt'[d] = NewDescriptor(pt[d])
  BY <1>1, <1>2 DEF ViewInv, IInv, TypeOK
<1> QED BY <1>2, <1>4, <1>5 DEF NewDescriptor, Block

\* A write changes the pages of its descriptor as the caller asked ...
LEMMA WriteInside ==
  ASSUME ViewInv, WriteEntry, NEW p \in Page,
         p \in RegionStart .. RegionStart + S(PageLevel) - 1
  PROVE  /\ View(p)' = [mapped |-> TRUE,
                        bits |-> (View(p).bits \cap change.keep) \cup change.set]
         /\ Entry(PageLevel, p) = Entry(PageLevel, RegionStart)
         /\ \A l \in Level : MappedAt(p, l) => l = PageLevel
         /\ \E l \in Level : /\ l = PageLevel /\ MappedAt(p, l)'
                             /\ pt'[Entry(l, p)].bits
                                  = (View(p).bits \cap change.keep) \cup change.set
<1>0. PICK d : d = <<PageLevel, BlockEntry>>
  OBVIOUS
<1>1. PICK n \in Level : n = PageLevel
  BY <1>0, WriteFacts
<1>2. Entry(n, p) = d /\ Entry(n, RegionStart) = d
  <2>1. /\ BlockEntry * S(n) = RegionStart /\ BlockEntry \in Nat
        /\ S(n) \in 1 .. RegionLength /\ RegionStart \in Page /\ RegionLength \in Nat
    BY <1>0, <1>1, WriteFacts
  <2>2. RegionStart \in RegionStart .. RegionStart + S(n) - 1
    BY <2>1, PageCountType DEF Page
  <2> QED BY <1>0, <1>1, <2>1, <2>2, PagesOfEntry
<1>3. Reaches(p, n) /\ pt[Entry(n, p)].type # "table"
  BY <1>0, <1>1, <1>2, WriteFacts, ReachesByTables DEF ViewInv
<1>4. Reaches(p, n)'
  <2>1. ASSUME NEW m \in RootLevel .. n - 1
        PROVE  pt'[Entry(m, p)].type = "table"
    <3>1. m \in Level /\ m # n
      BY GeometryAssumption DEF Level
    <3>2. Entry(m, p) \in Descriptors /\ Entry(m, p) # d
      BY <1>0, <1>1, <3>1, EntryType DEF Entry
    <3>3. pt[Entry(m, p)].type = "table"
      BY <1>3 DEF Reaches
    <3> QED BY <1>0, <3>2, <3>3, WriteFacts
  <2> QED BY <2>1 DEF Reaches, Entry
<1>5. pt'[Entry(n, p)].type = "block"
      /\ pt'[Entry(n, p)].bits = (pt[d].bits \cap change.keep) \cup change.set
  BY <1>0, <1>2, WriteFacts
<1>6. MappedAt(p, n)'
  BY <1>4, <1>5 DEF MappedAt
<1>7. View(p).bits = pt[d].bits
  <2>1. d \in Descriptors /\ pt[d].type \in {"invalid", "block", "table"}
    BY <1>0, WriteFacts DEF ViewInv, IInv, TypeOK
  <2>2. CASE pt[d].type = "block"
    <3>1. MappedAt(p, n)
      BY <1>2, <1>3, <2>2 DEF MappedAt
    <3> QED BY <1>2, <3>1, LeafIs
  <2>3. CASE pt[d].type = "invalid"
    <3>1. pt[d].bits = {}
      BY <2>1, <2>3 DEF ViewInv, EmptyInvalid
    <3>2. View(p) = [mapped |-> FALSE, bits |-> {}]
      BY <1>2, <1>3, <2>3, DeadEnd
    <3> QED BY <3>1, <3>2
  <2> QED BY <1>2, <1>3, <2>1, <2>2, <2>3
<1>8. View(p)' = [mapped |-> TRUE, bits |-> pt'[Entry(n, p)].bits]
  BY <1>6, WalkFactsNext DEF WalkFacts
<1>9. \A l \in Level : MappedAt(p, l) => l = n
  BY <1>3, LastStop
<1> QED BY <1>1, <1>2, <1>5, <1>6, <1>7, <1>8, <1>9

\* ... and no others.
LEMMA WriteOutside ==
  ASSUME ViewInv, WriteEntry, NEW p \in Page,
         p \notin RegionStart .. RegionStart + S(PageLevel) - 1
  PROVE  /\ View(p)' = View(p)
         /\ \A l \in Level : MappedAt(p, l) =>
              MappedAt(p, l)' /\ pt'[Entry(l, p)] = pt[Entry(l, p)]
<1>0. PICK d : d = <<PageLevel, BlockEntry>>
  OBVIOUS
<1>1. ASSUME NEW l \in Level
      PROVE  Entry(l, p) \in Descriptors /\ pt'[Entry(l, p)] = pt[Entry(l, p)]
  <2>1. Entry(l, p) # d
    <3>1. CASE l = PageLevel
      BY <1>0, <3>1, WriteFacts, PagesOfEntry
    <3>2. CASE l # PageLevel
      BY <1>0, <3>2 DEF Entry
    <3> QED BY <3>1, <3>2
  <2> QED BY <1>0, <2>1, EntryType, WriteFacts
<1>2. ASSUME NEW l \in Level PROVE MappedAt(p, l)' <=> MappedAt(p, l)
  <2>1. \A m \in RootLevel .. l - 1 : m \in Level
    BY GeometryAssumption DEF Level
  <2>2. \A m \in RootLevel .. l - 1 : pt'[Entry(m, p)] = pt[Entry(m, p)]
    BY <1>1, <2>1
  <2>3. Reaches(p, l)' <=> Reaches(p, l)
    BY <2>2 DEF Reaches, Entry
  <2> QED BY <1>1, <2>3 DEF MappedAt
<1>3. Mapped(p)' <=> Mapped(p)
  BY <1>2 DEF Mapped
<1>4. CASE Mapped(p)
  <2>1. PICK l \in Level : MappedAt(p, l)
    BY <1>4 DEF Mapped
  <2>2. View(p)' = [mapped |-> TRUE, bits |-> pt'[Entry(l, p)].bits]
    BY <1>2, <2>1, WalkFactsNext DEF WalkFacts
  <2> QED BY <1>1, <1>2, <2>1, <2>2, LeafIs
<1>5. CASE ~Mapped(p)
  BY <1>1, <1>2, <1>3, <1>5 DEF View
<1> QED BY <1>1, <1>2, <1>4, <1>5

\* A new table holds what the descriptor it replaces held, for every page.
LEMMA NewTableKeeps ==
  ASSUME ViewInv, NewTableStep, NEW p \in Page
  PROVE  /\ View(p)' = View(p)
         /\ \A l \in Level : MappedAt(p, l) =>
              \E m \in Level : /\ l <= m /\ MappedAt(p, m)'
                               /\ pt'[Entry(m, p)].bits = pt[Entry(l, p)].bits
<1>0. PICK d, n, child : d = Here /\ n = IndexLevel /\ child = <<IndexLevel + 1, Here[2]>>
  OBVIOUS
<1>1. /\ d \in Descriptors /\ pt[d].type # "table" /\ TableOf(d) \in tables
      /\ mmu # "failed" /\ pc = "walk"
      /\ pt' = [e \in Descriptors |->
                  IF e = d THEN TableDesc
                  ELSE IF TableOf(e) = child
                    THEN IF pt[d].type = "block" THEN SplitEntry(e[2]) ELSE Invalid
                  ELSE pt[e]]
  BY <1>0, HereType DEF NewTableStep, ViewInv, IInv, WalkInv, PhaseInv
<1>2. /\ n \in RootLevel .. 2 /\ n \in Level /\ n + 1 \in Level /\ n \in Int
      /\ d = <<n, d[2]>> /\ child = <<n + 1, d[2]>>
  <2>1. IndexLevel \in RootLevel .. PageLevel /\ PageLevel \in 1 .. 3 /\ IndexLevel # PageLevel
    BY <1>1 DEF NewTableStep, ViewInv, IInv, WalkInv, TypeOK
  <2> QED BY <1>0, <2>1, GeometryAssumption DEF Level, Here, Entry
<1>3. ASSUME NEW l \in Level
      PROVE  /\ Entry(l, p) \in Descriptors
             /\ Entry(l, p) = d <=> l = n /\ p \div S(n) = d[2]
             /\ TableOf(Entry(l, p)) = child <=> l = n + 1 /\ p \div S(n) = d[2]
  <2>1. Entry(l, p) \in Descriptors
    BY EntryType
  <2>2. Entry(l, p) = d <=> l = n /\ p \div S(n) = d[2]
    BY <1>2 DEF Entry
  <2>3. l = n + 1 => TableOf(Entry(l, p)) = <<n + 1, p \div S(n)>>
    BY <1>2, NextTable
  <2>4. TableOf(Entry(l, p)) = child => l = n + 1
    BY <1>2 DEF TableOf, Entry
  <2>5. TableOf(Entry(l, p)) = child <=> l = n + 1 /\ p \div S(n) = d[2]
    BY <1>2, <2>3, <2>4
  <2> QED BY <2>1, <2>2, <2>5
<1>4. CASE p \div S(n) # d[2]
  <2>1. ASSUME NEW l \in Level PROVE pt'[Entry(l, p)] = pt[Entry(l, p)]
    BY <1>1, <1>3, <1>4
  <2>2. ASSUME NEW l \in Level PROVE MappedAt(p, l)' <=> MappedAt(p, l)
    <3>1. \A m \in RootLevel .. l - 1 : m \in Level
      BY GeometryAssumption DEF Level
    <3>2. \A m \in RootLevel .. l - 1 : pt'[Entry(m, p)] = pt[Entry(m, p)]
      BY <2>1, <3>1
    <3>3. Reaches(p, l)' <=> Reaches(p, l)
      BY <3>2 DEF Reaches, Entry
    <3> QED BY <2>1, <3>3 DEF MappedAt
  <2>3. View(p)' = View(p)
    <3>1. CASE Mapped(p)
      <4>1. PICK l \in Level : MappedAt(p, l)
        BY <3>1 DEF Mapped
      <4>2. View(p)' = [mapped |-> TRUE, bits |-> pt'[Entry(l, p)].bits]
        BY <2>2, <4>1, WalkFactsNext DEF WalkFacts
      <4> QED BY <2>1, <4>1, <4>2, LeafIs
    <3>2. CASE ~Mapped(p)
      <4>1. ~Mapped(p)'
        BY <2>2, <3>2 DEF Mapped
      <4> QED BY <3>2, <4>1 DEF View
    <3> QED BY <3>1, <3>2
  <2>4. ASSUME NEW l \in Level, MappedAt(p, l)
        PROVE  \E m \in Level : /\ l <= m /\ MappedAt(p, m)'
                                /\ pt'[Entry(m, p)].bits = pt[Entry(l, p)].bits
    <3>1. l <= l
      BY GeometryAssumption DEF Level
    <3> QED BY <2>1, <2>2, <2>4, <3>1
  <2> QED BY <2>3, <2>4
<1>5. CASE p \div S(n) = d[2]
  <2>1. Entry(n, p) = d /\ Reaches(p, n)
    BY <1>1, <1>2, <1>3, <1>5, ReachesByTables DEF ViewInv
  <2>2. PICK m \in Level : m = n + 1
    BY <1>2
  <2>3. /\ Entry(m, p) \in Descriptors /\ Entry(m, p) # d
        /\ TableOf(Entry(m, p)) = child
    BY <1>2, <1>3, <1>5, <2>2
  <2>4. pt'[Entry(m, p)] = IF pt[d].type = "block" THEN SplitEntry(Entry(m, p)[2])
                                                   ELSE Invalid
    BY <1>1, <2>3
  <2>5. Reaches(p, m)'
    <3>1. ASSUME NEW k \in RootLevel .. m - 1 PROVE pt'[Entry(k, p)].type = "table"
      <4>1. k \in Level /\ k \in RootLevel .. n /\ k # n + 1
        BY <1>2, <2>2, GeometryAssumption DEF Level
      <4>2. CASE k = n
        BY <1>1, <2>1, <4>2 DEF TableDesc
      <4>3. CASE k # n
        <5>1. k \in RootLevel .. n - 1
          BY <1>2, <4>1, <4>3, GeometryAssumption
        <5>2. pt[Entry(k, p)].type = "table"
          BY <2>1, <5>1 DEF Reaches
        <5>3. pt'[Entry(k, p)] = pt[Entry(k, p)]
          BY <1>1, <1>3, <4>1, <4>3
        <5> QED BY <5>2, <5>3
      <4> QED BY <4>2, <4>3
    <3> QED BY <3>1 DEF Reaches, Entry
  <2>6. CASE pt[d].type = "block"
    <3>1. MappedAt(p, n)
      BY <2>1, <2>6 DEF MappedAt
    <3>2. pt'[Entry(m, p)].type = "block" /\ pt'[Entry(m, p)].bits = pt[d].bits
      BY <1>0, <2>4, <2>6 DEF SplitEntry, Block
    <3>3. MappedAt(p, m)'
      BY <2>5, <3>2 DEF MappedAt
    <3>4. View(p) = [mapped |-> TRUE, bits |-> pt[d].bits]
      BY <1>2, <2>1, <3>1, LeafIs
    <3>5. View(p)' = [mapped |-> TRUE, bits |-> pt'[Entry(m, p)].bits]
      BY <3>3, WalkFactsNext DEF WalkFacts
    <3>6. ASSUME NEW l \in Level, MappedAt(p, l)
          PROVE  l <= m /\ pt[Entry(l, p)].bits = pt[d].bits
      BY <1>2, <2>1, <2>2, <3>1, <3>6, OneLeaf
    <3> QED BY <3>2, <3>3, <3>4, <3>5, <3>6
  <2>7. CASE pt[d].type # "block"
    <3>1. ~Mapped(p) /\ View(p) = [mapped |-> FALSE, bits |-> {}]
      BY <1>1, <1>2, <2>1, <2>7, DeadEnd
    <3>2. pt'[Entry(m, p)].type \notin {"table", "block"}
      BY <2>4, <2>7 DEF Invalid
    <3>3. View(p)' = [mapped |-> FALSE, bits |-> {}]
      BY <2>5, <3>2, WalkFactsNext DEF WalkFacts
    <3> QED BY <3>1, <3>3 DEF Mapped
  <2> QED BY <2>6, <2>7
<1> QED BY <1>4, <1>5

\* The steps that neither write nor put in a table change no page.
LEMMA ViewKept ==
  ASSUME ViewInv, [Next]_vars, ~WriteEntry, NEW p \in Page
  PROVE  View(p)' = View(p)
<1>1. CASE UNCHANGED pt
  BY <1>1 DEF View, Leaf, Mapped, MappedAt, Reaches, Entry
<1>2. CASE ConfigureMmu
  <2>1. pt = [d \in Descriptors |-> Invalid]
    BY <1>2 DEF ConfigureMmu, ViewInv, IInv, PhaseInv
  <2>2. pt' = pt
    BY <1>2, <2>1 DEF ConfigureMmu
  <2> QED BY <1>1, <2>2
<1>3. CASE SplitBlock \/ LinkTable
  BY <1>3, NewTableSteps, NewTableKeeps
<1> QED BY <1>1, <1>2, <1>3, LibraryKinds
        DEF Next, LibraryOther, ConfigureMmuNoMemory, SetRegion, FillNextRegion, EnableMmu,
            DescendTable, OutOfResources, ReachLevel, TlbFill, vars

-----------------------------------------------------------------------------
(* The refinement of PageMap *)

\* The length of what a first walk is made for.
LEMMA CallStep ==
  ASSUME NEW start \in Page, NEW length \in Nat \ {0}, start + length <= PageCount,
         RegionLength = 0, RegionStart' = start, RegionLength' = length,
         change' \in [keep : SUBSET Bits, set : SUBSET Bits],
         \A p \in Page : View(p)' = View(p)
  PROVE  PM!Call
<1>1. start + length - 1 \in Page
  BY PageCountType DEF Page
<1>2. [p \in Page |-> View(p)]' = [p \in Page |-> View(p)]
  OBVIOUS
<1> QED BY <1>1, <1>2 DEF PM!Call, View

LEMMA ApplyStep == ViewInv /\ WriteEntry => PM!Apply
<1> SUFFICES ASSUME ViewInv, WriteEntry PROVE PM!Apply
  OBVIOUS
<1> DEFINE n == S(PageLevel)
<1>1. /\ n \in 1 .. RegionLength /\ RegionStart' = RegionStart + n
      /\ RegionLength' = RegionLength - n /\ change' = change
  BY WriteFacts DEF WriteEntry
<1>2. ASSUME NEW p \in Page
      PROVE  View(p)' = IF p \in RegionStart .. RegionStart + n - 1
                          THEN PM!Changed(View(p), change)
                          ELSE View(p)
  BY WriteInside, WriteOutside DEF PM!Changed
<1> HIDE DEF n
<1>3. [p \in Page |-> View(p)]'
        = [p \in Page |-> IF p \in RegionStart .. RegionStart + n - 1
                            THEN PM!Changed([q \in Page |-> View(q)][p], change)
                            ELSE [q \in Page |-> View(q)][p]]
  BY <1>2
<1> QED BY <1>1, <1>3 DEF PM!Apply, View

LEMMA RefinementStep == ViewInv /\ [Next]_vars => [PM!Next]_PM!vars
<1> SUFFICES ASSUME ViewInv, [Next]_vars PROVE PM!Next \/ UNCHANGED PM!vars
  OBVIOUS
<1>1. CASE WriteEntry
  BY <1>1, ApplyStep DEF PM!Next
<1>2. CASE FillNextRegion
  <2> DEFINE r == Head(memoryTable)
  <2>1. r \in MemoryRegion
    BY <1>2 DEF ViewInv, IInv, TypeOK, FillNextRegion
  <2>2. /\ r.base \in Page /\ r.length \in Nat \ {0} /\ r.base + r.length <= PageCount
    BY <2>1, PageCountType DEF MemoryRegion, Page
  <2>3. /\ RegionStart' = r.base /\ RegionLength' = r.length /\ RegionLength = 0
    BY <1>2 DEF FillNextRegion, UpdateRegionMapping, ViewInv, NothingLeft
  <2>4. change' \in [keep : SUBSET Bits, set : SUBSET Bits]
    BY NextInv DEF ViewInv, IInv, TypeOK
  <2>5. \A p \in Page : View(p)' = View(p)
    BY <1>2, ViewKept DEF FillNextRegion, WriteEntry
  <2> HIDE DEF r
  <2> QED BY <2>2, <2>3, <2>4, <2>5, CallStep DEF PM!Next
<1>3. ASSUME NEW c \in Calls, NEW start \in Page, NEW length \in 0 .. PageCount,
             SetRegion(c, start, length), length # 0
      PROVE  PM!Next
  <2>1. /\ length \in Nat \ {0} /\ start + length <= PageCount /\ pc = "idle"
        /\ RegionStart' = start /\ RegionLength' = length /\ RegionLength = 0
    BY <1>3, PageCountType DEF SetRegion, UpdateRegionMapping, ViewInv, NothingLeft
  <2>2. change' \in [keep : SUBSET Bits, set : SUBSET Bits]
    BY NextInv DEF ViewInv, IInv, TypeOK
  <2>3. \A p \in Page : View(p)' = View(p)
    BY <2>1, ViewKept DEF WriteEntry
  <2> QED BY <2>1, <2>2, <2>3, CallStep DEF PM!Next
<1>4. CASE OutOfResources
  <2>1. /\ RegionLength # 0 /\ RegionLength' = 0 /\ UNCHANGED <<RegionStart, change>>
    <3>1. S(PageLevel) <= RegionLength /\ PageLevel \in 0 .. 3
      BY <1>4 DEF OutOfResources, ViewInv, IInv, WalkInv, TypeOK
    <3>2. S(PageLevel) \in Nat \ {0}
      BY <3>1, SizeType
    <3> QED BY <1>4, <3>1, <3>2 DEF OutOfResources
  <2>2. \A p \in Page : View(p)' = View(p)
    BY <1>4, ViewKept DEF OutOfResources, WriteEntry
  <2>3. [p \in Page |-> View(p)]' = [p \in Page |-> View(p)]
    BY <2>2
  <2> QED BY <2>1, <2>3 DEF PM!Next, PM!GiveUp, View
<1>5. CASE UNCHANGED regionVars /\ ~WriteEntry
  <2>1. \A p \in Page : View(p)' = View(p)
    BY <1>5, ViewKept
  <2>2. [p \in Page |-> View(p)]' = [p \in Page |-> View(p)]
    BY <2>1
  <2> QED BY <1>5, <2>2 DEF PM!vars, View, regionVars
<1>6. ASSUME NEW c \in Calls, NEW start \in Page, NEW length \in 0 .. PageCount,
             SetRegion(c, start, length), length = 0
      PROVE  UNCHANGED regionVars
  BY <1>6 DEF SetRegion
<1>7. CASE SplitBlock \/ LinkTable
  BY <1>1, <1>5, <1>7, NewTableSteps DEF NewTableStep
<1> QED BY <1>1, <1>2, <1>3, <1>4, <1>5, <1>6, <1>7, LibraryKinds
        DEF Next, LibraryOther, ConfigureMmu, ConfigureMmuNoMemory, EnableMmu, DescendTable,
            ReachLevel, TlbFill, vars

LEMMA RefinementInit == Init => PM!Init
<1> SUFFICES ASSUME Init PROVE PM!Init
  OBVIOUS
<1>1. ASSUME NEW p \in Page
      PROVE  ~Mapped(p)
  <2>1. ASSUME NEW l \in Level PROVE pt[Entry(l, p)].type = "invalid"
    BY EntryType DEF Init, Invalid
  <2> QED BY <2>1 DEF Mapped, MappedAt
<1> QED BY <1>1 DEF PM!Init, PM!Unmapped, Init

\* Seen through the walk, the library changes the pages of a call's region, in
\* address order, each once and as the caller asked, and no other page at any
\* step: splitting a block, putting in a table and giving up change nothing
\* (ArmMmuLibCore.c:180 to :412).
THEOREM PageMapRefined == Spec => ImplementsPageMap
BY RefinementInit, RefinementStep, ViewInvariance, PTL DEF Spec, ImplementsPageMap, PM!Spec

-----------------------------------------------------------------------------
(* The translation lookaside buffer *)

\* A cached translation maps addresses to themselves, and wherever it is used
\* the walk ends no higher than where it was found, with the same attributes.
CachedLeaf ==
  /\ mmu # "on" => tlb = {}
  /\ \A t \in tlb :
       /\ t.desc.addr = t.n * S(t.level)
       /\ \A p \in Page : p \div S(t.level) = t.n =>
            \E l \in Level : /\ t.level <= l /\ MappedAt(p, l)
                             /\ pt[Entry(l, p)].bits = t.desc.bits

TlbInv == ViewInv /\ CachedLeaf

LEMMA TlbFillCached ==
  ASSUME TlbInv, NEW p \in Page, TlbFill(p)
  PROVE  CachedLeaf'
<1>1. PICK l \in Level :
        /\ MappedAt(p, l)
        /\ tlb' = {[level |-> l, n |-> p \div S(l), desc |-> pt[Entry(l, p)]]}
  BY DEF TlbFill
<1>2. mmu' = "on" /\ pt' = pt
  BY DEF TlbFill
<1>3. pt[Entry(l, p)].addr = (p \div S(l)) * S(l)
  BY <1>1, EntryType DEF TlbInv, ViewInv, IInv, BlocksInPlace, MappedAt, Entry
<1>4. ASSUME NEW q \in Page, q \div S(l) = p \div S(l)
      PROVE  l <= l /\ MappedAt(q, l)' /\ pt'[Entry(l, q)].bits = pt[Entry(l, p)].bits
  <2>1. Entry(l, q) = Entry(l, p) /\ l <= l
    BY <1>4, GeometryAssumption DEF Entry, Level
  <2>2. ASSUME NEW m \in RootLevel .. l - 1 PROVE Entry(m, q) = Entry(m, p)
    <3>1. m \in RootLevel .. l
      BY GeometryAssumption DEF Level
    <3> QED BY <1>4, <3>1, SharedAbove DEF Entry
  <2>3. MappedAt(q, l)
    BY <1>1, <2>1, <2>2 DEF MappedAt, Reaches
  <2> QED BY <1>2, <2>1, <2>3 DEF MappedAt, Reaches, Entry
<1>5. ASSUME NEW t \in tlb'
      PROVE  /\ t.desc.addr = t.n * S(t.level)
             /\ \A q \in Page : q \div S(t.level) = t.n =>
                  \E m \in Level : /\ t.level <= m /\ MappedAt(q, m)'
                                   /\ pt'[Entry(m, q)].bits = t.desc.bits
  <2>1. t.level = l /\ t.n = p \div S(l) /\ t.desc = pt[Entry(l, p)]
    BY <1>1, <1>5
  <2> QED BY <1>3, <1>4, <2>1
<1> QED BY <1>2, <1>5 DEF CachedLeaf, Entry, S

LEMMA WriteCached ==
  ASSUME TlbInv, WriteEntry
  PROVE  CachedLeaf'
<1>1. tlb' = {t \in tlb : t.n # RegionStart \div S(t.level)} /\ mmu' = mmu
  BY DEF WriteEntry, Flushed
<1>2. ASSUME NEW t \in tlb', NEW p \in Page, p \div S(t.level) = t.n
      PROVE  \E l \in Level : /\ t.level <= l /\ MappedAt(p, l)'
                              /\ pt'[Entry(l, p)].bits = t.desc.bits
  <2>1. t \in tlb /\ t.n # RegionStart \div S(t.level) /\ t.level \in Level
    BY <1>1 DEF TlbInv, ViewInv, IInv, TypeOK
  <2>2. PICK l \in Level : /\ t.level <= l /\ MappedAt(p, l)
                           /\ pt[Entry(l, p)].bits = t.desc.bits
    BY <1>2, <2>1 DEF TlbInv, CachedLeaf
  <2>3. CASE p \in RegionStart .. RegionStart + S(PageLevel) - 1
    <3>1. l = PageLevel /\ Entry(PageLevel, p) = Entry(PageLevel, RegionStart)
      BY <2>2, <2>3, WriteInside DEF TlbInv
    <3>2. p \div S(l) = RegionStart \div S(l)
      BY <3>1 DEF Entry
    <3>3. RegionStart \in Page /\ t.level \in RootLevel .. l
      <4>1. PICK d : d = <<PageLevel, BlockEntry>>
        OBVIOUS
      <4>2. RegionStart \in Page
        BY <4>1, WriteFacts DEF TlbInv
      <4>3. t.level \in RootLevel .. l
        BY <2>1, <2>2, GeometryAssumption DEF Level
      <4> QED BY <4>2, <4>3
    <3> QED BY <1>2, <2>1, <3>2, <3>3, SharedAbove
  <2>4. CASE p \notin RegionStart .. RegionStart + S(PageLevel) - 1
    BY <2>2, <2>4, WriteOutside DEF TlbInv
  <2> QED BY <2>3, <2>4
<1> QED BY <1>1, <1>2 DEF TlbInv, CachedLeaf, Entry, S

LEMMA NewTableCached ==
  ASSUME TlbInv, NewTableStep
  PROVE  CachedLeaf'
<1>1. tlb' = tlb /\ mmu' = mmu
  BY DEF NewTableStep
<1>2. ASSUME NEW t \in tlb', NEW p \in Page, p \div S(t.level) = t.n
      PROVE  \E l \in Level : /\ t.level <= l /\ MappedAt(p, l)'
                              /\ pt'[Entry(l, p)].bits = t.desc.bits
  <2>1. t \in tlb /\ t.level \in Level
    BY <1>1 DEF TlbInv, ViewInv, IInv, TypeOK
  <2>2. PICK l \in Level : /\ t.level <= l /\ MappedAt(p, l)
                           /\ pt[Entry(l, p)].bits = t.desc.bits
    BY <1>2, <2>1 DEF TlbInv, CachedLeaf
  <2>3. PICK m \in Level : /\ l <= m /\ MappedAt(p, m)'
                           /\ pt'[Entry(m, p)].bits = pt[Entry(l, p)].bits
    BY <2>2, NewTableKeeps DEF TlbInv
  <2>4. t.level <= m
    BY <2>1, <2>2, <2>3, GeometryAssumption DEF Level
  <2> QED BY <2>2, <2>3, <2>4
<1> QED BY <1>1, <1>2 DEF TlbInv, CachedLeaf, Entry, S

LEMMA TlbInvInit == Init => TlbInv
BY ViewInvInit DEF TlbInv, CachedLeaf, Init

LEMMA TlbInvNext == TlbInv /\ [Next]_vars => TlbInv'
<1> SUFFICES ASSUME TlbInv, [Next]_vars PROVE CachedLeaf'
  BY ViewInvNext DEF TlbInv
<1>1. CASE UNCHANGED <<pt, tlb, mmu>>
  <2>1. ASSUME NEW p \in Page, NEW l \in Level
        PROVE  (MappedAt(p, l)' <=> MappedAt(p, l)) /\ pt'[Entry(l, p)] = pt[Entry(l, p)]
    BY <1>1 DEF MappedAt, Reaches, Entry
  <2> QED BY <1>1, <2>1 DEF TlbInv, CachedLeaf, Entry, S
<1>2. CASE tlb' = {}
  BY <1>2 DEF CachedLeaf
<1>3. CASE EnableMmu \/ OutOfResources
  <2>1. tlb = {} \/ mmu = "on"
    BY DEF TlbInv, CachedLeaf
  <2>2. tlb = {} => tlb' = {}
    BY <1>3 DEF EnableMmu, OutOfResources
  <2>3. mmu = "on" => UNCHANGED <<pt, tlb, mmu>>
    BY <1>3 DEF EnableMmu, OutOfResources
  <2> QED BY <1>1, <1>2, <2>1, <2>2, <2>3
<1>4. CASE ConfigureMmuNoMemory
  BY <1>2, <1>4 DEF ConfigureMmuNoMemory, TlbInv, CachedLeaf
<1>5. CASE ConfigureMmu
  BY <1>2, <1>5 DEF ConfigureMmu
<1>6. CASE WriteEntry
  BY <1>6, WriteCached
<1>7. CASE SplitBlock \/ LinkTable
  BY <1>7, NewTableSteps, NewTableCached
<1>8. ASSUME NEW p \in Page, TlbFill(p) PROVE CachedLeaf'
  BY <1>8, TlbFillCached
<1> QED BY <1>1, <1>3, <1>4, <1>5, <1>6, <1>7, <1>8, LibraryKinds
        DEF Next, LibraryOther, SetRegion, FillNextRegion, DescendTable, ReachLevel, vars

\* A translation the MMU has cached agrees with the tables at every step,
\* wherever in a block it is used and whatever was split since: the flush of
\* one address for each descriptor written is enough (ArmMmuLibCore.c:385).
THEOREM NothingStale == Spec => []TlbCoherent
<1>1. TlbInv => TlbCoherent
  <2> SUFFICES ASSUME TlbInv, NEW t \in tlb, NEW p \in Page, p \div S(t.level) = t.n
               PROVE  /\ Mapped(p)
                      /\ Leaf(p).bits = t.desc.bits
                      /\ \A l \in Level : MappedAt(p, l) =>
                           Output(l, Leaf(p), p) = Output(t.level, t.desc, p)
    BY DEF TlbCoherent
  <2>1. PICK l \in Level : /\ MappedAt(p, l)
                           /\ pt[Entry(l, p)].bits = t.desc.bits
    BY DEF TlbInv, CachedLeaf
  <2>2. Mapped(p) /\ Leaf(p) = pt[Entry(l, p)]
    BY <2>1, LeafIs
  <2>3. /\ t.level \in Level /\ p \in Nat /\ l \in 0 .. 3 /\ t.level \in 0 .. 3
    BY PageCountType, GeometryAssumption DEF TlbInv, ViewInv, IInv, TypeOK, Level, Page
  <2>4. ASSUME NEW k \in 0 .. 3 PROVE (p \div S(k)) * S(k) + (p % S(k)) = p
    BY <2>3, SizeType, DivMod
  <2>5. Output(t.level, t.desc, p) = p
    BY <2>3, <2>4 DEF TlbInv, CachedLeaf, Output
  <2>6. Output(l, Leaf(p), p) = p
    <3>1. Leaf(p).addr = (p \div S(l)) * S(l)
      BY <2>1, <2>2, EntryType DEF TlbInv, ViewInv, IInv, BlocksInPlace, MappedAt, Entry
    <3> QED BY <2>3, <2>4, <3>1 DEF Output
  <2> QED BY <2>1, <2>2, <2>5, <2>6, OneLeaf
<1>2. Spec => []TlbInv
  BY TlbInvInit, TlbInvNext, PTL DEF Spec
<1> QED BY <1>1, <1>2, PTL

-----------------------------------------------------------------------------
(* The memory map that ArmConfigureMmu installs *)

Holds(r, p) == p \in r.base .. r.base + r.length - 1

\* How many regions of the map have been begun; the last may be under way.
Current == Len(call.table) - Len(memoryTable)

\* Region i of the map has been applied to page p.
Applied(i, p) == Holds(call.table[i], p) /\ (i < Current \/ p < RegionStart)

\* ArmConfigureMmu is at work, or nobody has changed what it made.
Installing == (mmu = "off" /\ pc # "idle") \/ (mmu = "on" /\ calls = 0)

\* How far the memory map has been read.
MapRead ==
  /\ call.table \in Seq(MemoryRegion)
  /\ Current \in 0 .. Len(call.table)
  /\ \A i \in 1 .. Len(memoryTable) : memoryTable[i] = call.table[Current + i]
  /\ mmu = "on" => memoryTable = <<>> /\ pc = "idle"
  /\ pc \in {"walk", "write"} =>
       Current > 0 /\ change = FillTranslationTable(call.table[Current].attr)
  /\ Current > 0 =>
       /\ RegionStart + RegionLength
            = call.table[Current].base + call.table[Current].length
       /\ call.table[Current].base <= RegionStart

\* A page is mapped if some region has been applied to it, and has the
\* attributes of the last of them.
MapApplied ==
  \A p \in Page :
    /\ View(p).mapped <=> \E i \in 1 .. Current : Applied(i, p)
    /\ \A i \in 1 .. Current :
         Applied(i, p) /\ (\A j \in i + 1 .. Current : ~Applied(j, p)) =>
           View(p).bits = FillTranslationTable(call.table[i].attr).set

InstallInv == Installing => MapRead /\ MapApplied

\* The steps that read no region and write no descriptor.
LEMMA InstallSame ==
  ASSUME InstallInv, UNCHANGED <<call, memoryTable, regionVars>>,
         Installing' => Installing,
         mmu' = "on" => memoryTable = <<>> /\ pc' = "idle",
         pc' \in {"walk", "write"} => pc \in {"walk", "write"},
         \A p \in Page : View(p)' = View(p)
  PROVE  InstallInv'
<1>1. Current' = Current
  BY DEF Current
<1>2. MapRead => MapRead'
  BY <1>1 DEF MapRead, regionVars
<1>3. \A i, p : Applied(i, p)' <=> Applied(i, p)
  BY <1>1 DEF Applied, Holds, regionVars
<1>4. MapApplied => MapApplied'
  <2> SUFFICES ASSUME MapApplied, NEW p \in Page
               PROVE  /\ View(p)'.mapped <=> \E i \in 1 .. Current' : Applied(i, p)'
                      /\ \A i \in 1 .. Current' :
                           Applied(i, p)' /\ (\A j \in i + 1 .. Current' : ~Applied(j, p)') =>
                             View(p)'.bits = FillTranslationTable(call.table[i].attr).set
    BY DEF MapApplied
  <2>1. View(p)' = View(p)
    OBVIOUS
  <2> QED BY <1>1, <1>3, <2>1 DEF MapApplied
<1> QED BY <1>2, <1>4 DEF InstallInv

LEMMA ConfigureInstall ==
  ASSUME ViewInv, [Next]_vars, ConfigureMmu
  PROVE  InstallInv'
<1>1. PICK m \in MemoryTables : memoryTable' = m /\ call' = [op |-> "Configure", table |-> m]
  BY DEF ConfigureMmu
<1>2. m \in Seq(MemoryRegion) /\ call'.table = m /\ Len(m) \in Nat
  BY <1>1, MemoryTablesAssumption
<1>3. Current' = 0
  BY <1>1, <1>2 DEF Current
<1>4. pc' = "fill" /\ mmu' = "off"
  BY DEF ConfigureMmu
<1>5. MapRead'
  BY <1>1, <1>2, <1>3, <1>4 DEF MapRead
<1>6. ASSUME NEW p \in Page PROVE View(p)'.mapped = FALSE
  <2>1. View(p)' = View(p)
    BY ViewKept DEF ConfigureMmu, WriteEntry
  <2>2. pt = [d \in Descriptors |-> Invalid]
    BY DEF ConfigureMmu, ViewInv, IInv, PhaseInv
  <2>3. ASSUME NEW l \in Level PROVE pt[Entry(l, p)].type = "invalid"
    BY <2>2, EntryType DEF Invalid
  <2>4. ~Mapped(p)
    BY <2>3 DEF Mapped, MappedAt
  <2> QED BY <2>1, <2>4 DEF View
<1>7. MapApplied'
  <2>1. \A i \in 1 .. Current' : FALSE
    BY <1>3
  <2> QED BY <1>6, <2>1 DEF MapApplied
<1> QED BY <1>5, <1>7 DEF InstallInv

LEMMA FillInstall ==
  ASSUME ViewInv, InstallInv, [Next]_vars, FillNextRegion
  PROVE  InstallInv'
<1> DEFINE r == Head(memoryTable)
<1>1. /\ pc = "fill" /\ pc' = "walk" /\ mmu = "off" /\ mmu' = "off"
      /\ memoryTable # <<>> /\ memoryTable' = Tail(memoryTable) /\ call' = call
      /\ RegionStart' = r.base /\ RegionLength' = r.length /\ RegionLength = 0
      /\ change' = FillTranslationTable(r.attr)
  BY DEF FillNextRegion, UpdateRegionMapping, StartWalk, ViewInv, NothingLeft
<1>2. MapRead /\ MapApplied
  BY <1>1 DEF InstallInv, Installing
<1>3. /\ memoryTable \in Seq(MemoryRegion) /\ call.table \in Seq(MemoryRegion)
      /\ Current \in 0 .. Len(call.table) /\ Len(call.table) \in Nat
      /\ RegionStart \in Nat
  BY <1>2, PageCountType DEF ViewInv, IInv, TypeOK, MapRead
<1>4. /\ Len(memoryTable) \in Nat \ {0} /\ r = memoryTable[1]
      /\ Len(memoryTable') = Len(memoryTable) - 1
      /\ \A i \in 1 .. Len(memoryTable') : memoryTable'[i] = memoryTable[i + 1]
  BY <1>1, <1>3
<1>5. PICK k \in 1 .. Len(call.table) : Current' = k /\ k = Current + 1
  <2>1. Current' = Current + 1
    BY <1>1, <1>3, <1>4 DEF Current
  <2>2. Current < Len(call.table)
    BY <1>3, <1>4 DEF Current
  <2> QED BY <1>3, <2>1, <2>2
<1>6. r = call.table[k]
  BY <1>2, <1>4, <1>5 DEF MapRead
<1>7. r.base \in Nat /\ r.length \in Nat
  <2>1. r \in MemoryRegion
    BY <1>3, <1>5, <1>6
  <2> QED BY <2>1, PageCountType DEF MemoryRegion, Page
<1>8. MapRead'
  <2>1. ASSUME NEW i \in 1 .. Len(memoryTable')
        PROVE  memoryTable'[i] = call.table[k + i]
    <3>1. i + 1 \in 1 .. Len(memoryTable) /\ Current + (i + 1) = k + i
      BY <1>3, <1>4, <1>5
    <3>2. memoryTable[i + 1] = call.table[Current + (i + 1)]
      BY <1>2, <3>1 DEF MapRead
    <3> QED BY <1>4, <3>1, <3>2
  <2> HIDE DEF r
  <2> QED BY <1>1, <1>3, <1>5, <1>6, <1>7, <2>1 DEF MapRead
<1>9. ASSUME NEW p \in Page, NEW i \in 1 .. Current
      PROVE  Applied(i, p)' <=> Applied(i, p)
  <2>1. i \in 1 .. Len(call.table) /\ i < k
    BY <1>3, <1>5
  <2>2. i = Current => (Holds(call.table[i], p) => p < RegionStart)
    <3>1. call.table[i] \in MemoryRegion
      BY <1>3, <2>1
    <3>2. call.table[i].base \in Nat /\ call.table[i].length \in Nat /\ p \in Nat
      BY <3>1, PageCountType DEF MemoryRegion, Page
    <3>3. i = Current => RegionStart = call.table[i].base + call.table[i].length
      BY <1>1, <1>2, <1>3 DEF MapRead
    <3> QED BY <1>3, <3>2, <3>3 DEF Holds
  <2>3. i < Current \/ i = Current
    BY <1>3
  <2> HIDE DEF r
  <2> QED BY <1>1, <1>5, <2>1, <2>2, <2>3 DEF Applied, Holds
<1>10. ASSUME NEW p \in Page PROVE ~Applied(k, p)'
  <2>1. p \in Nat /\ ~(k < k)
    BY <1>5, PageCountType DEF Page
  <2> HIDE DEF r
  <2>2. Holds(r, p) => r.base <= p
    BY <1>7, <2>1 DEF Holds
  <2>3. Applied(k, p)' => Holds(r, p) /\ p < r.base
    BY <1>1, <1>5, <1>6, <2>1 DEF Applied, Holds
  <2> QED BY <1>7, <2>1, <2>2, <2>3
<1>11. MapApplied'
  <2> SUFFICES ASSUME NEW p \in Page
               PROVE  /\ View(p)'.mapped <=> \E i \in 1 .. k : Applied(i, p)'
                      /\ \A i \in 1 .. k :
                           Applied(i, p)' /\ (\A j \in i + 1 .. k : ~Applied(j, p)') =>
                             View(p)'.bits = FillTranslationTable(call.table[i].attr).set
    BY <1>1, <1>5 DEF MapApplied
  <2>1. View(p)' = View(p)
    BY <1>1, ViewKept DEF WriteEntry
  <2>2. \A i \in 1 .. k : i = k \/ i \in 1 .. Current
    BY <1>3, <1>5
  <2>3. \A i \in 1 .. Current : i \in 1 .. k /\ i + 1 .. Current \subseteq i + 1 .. k
    BY <1>3, <1>5
  <2>4. \A i \in 1 .. Current : \A j \in i + 1 .. Current : j \in 1 .. Current
    BY <1>3
  <2>5. View(p)'.mapped <=> \E i \in 1 .. k : Applied(i, p)'
    BY <1>2, <1>9, <1>10, <2>1, <2>2, <2>3 DEF MapApplied
  <2>6. ASSUME NEW i \in 1 .. k, Applied(i, p)',
               \A j \in i + 1 .. k : ~Applied(j, p)'
        PROVE  View(p)'.bits = FillTranslationTable(call.table[i].attr).set
    <3>1. i \in 1 .. Current
      BY <1>10, <2>2, <2>6
    <3>2. Applied(i, p)
      BY <1>9, <2>6, <3>1
    <3>3. ASSUME NEW j \in i + 1 .. Current PROVE ~Applied(j, p)
      BY <1>9, <2>3, <2>4, <2>6, <3>1
    <3> QED BY <1>2, <2>1, <3>1, <3>2, <3>3 DEF MapApplied
  <2> QED BY <2>5, <2>6
<1> QED BY <1>8, <1>11 DEF InstallInv

LEMMA WriteInstall ==
  ASSUME ViewInv, InstallInv, WriteEntry
  PROVE  InstallInv'
<1> DEFINE n == S(PageLevel)
<1>1. /\ pc = "write" /\ mmu' = mmu /\ change' = change
      /\ call' = call /\ memoryTable' = memoryTable /\ calls' = calls
      /\ RegionStart' = RegionStart + n /\ RegionLength' = RegionLength - n
  BY DEF WriteEntry, callVars
<1>2. n \in 1 .. RegionLength /\ RegionStart \in Page /\ RegionLength \in Nat
  <2>1. PICK d : d = <<PageLevel, BlockEntry>>
    OBVIOUS
  <2> QED BY <2>1, WriteFacts
<1> HIDE DEF n
<1>3. SUFFICES ASSUME Installing' PROVE MapRead' /\ MapApplied'
  BY DEF InstallInv
<1>4. Installing /\ MapRead /\ MapApplied
  BY <1>1, <1>3 DEF Installing, InstallInv
<1>5. mmu = "off"
  BY <1>1, <1>4 DEF MapRead, Installing
<1>6. Current' = Current /\ Current \in 1 .. Len(call.table) /\ Len(call.table) \in Nat
  <2>1. Current \in 0 .. Len(call.table) /\ Current > 0 /\ Len(call.table) \in Nat
    BY <1>1, <1>4 DEF MapRead
  <2> QED BY <1>1, <2>1 DEF Current
<1>7. /\ call.table[Current] \in MemoryRegion
      /\ RegionStart \in Nat
      /\ call.table[Current].base \in Nat /\ call.table[Current].length \in Nat
      /\ call.table[Current].base <= RegionStart
      /\ RegionStart + RegionLength = call.table[Current].base + call.table[Current].length
      /\ change = FillTranslationTable(call.table[Current].attr)
  <2>1. call.table[Current] \in MemoryRegion
    BY <1>4, <1>6 DEF MapRead
  <2>2. call.table[Current].base \in Nat /\ call.table[Current].length \in Nat
    BY <2>1, PageCountType DEF MemoryRegion, Page
  <2> QED BY <1>1, <1>2, <1>4, <1>6, <2>1, <2>2, PageCountType DEF MapRead, Page
<1>8. MapRead'
  <2>1. mmu' # "on"
    BY <1>1, <1>5
  <2>2. /\ RegionStart' + RegionLength' = RegionStart + RegionLength
        /\ RegionStart <= RegionStart'
    BY <1>1, <1>2, <1>7
  <2>3. call.table[Current].base <= RegionStart'
    BY <1>1, <1>2, <1>7
  <2> QED BY <1>1, <1>4, <1>6, <1>7, <2>1, <2>2, <2>3 DEF MapRead
<1>9. ASSUME NEW p \in Page, NEW i \in 1 .. Current
      PROVE  Applied(i, p)'
               <=> Applied(i, p) \/ (i = Current /\ p \in RegionStart .. RegionStart + n - 1)
  <2>1. p \in Nat /\ (i < Current \/ i = Current) /\ Current \in Nat
    BY <1>6, PageCountType DEF Page
  <2>2. Applied(i, p)' <=> Holds(call.table[i], p) /\ (i < Current \/ p < RegionStart + n)
    BY <1>1, <1>6 DEF Applied, Holds
  <2>3. p \in RegionStart .. RegionStart + n - 1 => Holds(call.table[Current], p)
    BY <1>2, <1>7, <2>1 DEF Holds
  <2>4. p < RegionStart + n <=> p < RegionStart \/ p \in RegionStart .. RegionStart + n - 1
    BY <1>2, <1>7, <2>1
  <2>5. CASE i < Current
    BY <1>6, <2>2, <2>5 DEF Applied
  <2>6. CASE i = Current
    BY <2>2, <2>3, <2>4, <2>6 DEF Applied
  <2> QED BY <2>1, <2>5, <2>6
<1>10. MapApplied'
  <2> SUFFICES ASSUME NEW p \in Page
               PROVE  /\ View(p)'.mapped <=> \E i \in 1 .. Current : Applied(i, p)'
                      /\ \A i \in 1 .. Current :
                           Applied(i, p)' /\ (\A j \in i + 1 .. Current : ~Applied(j, p)') =>
                             View(p)'.bits = FillTranslationTable(call.table[i].attr).set
    BY <1>1, <1>6 DEF MapApplied
  <2>1. CASE p \in RegionStart .. RegionStart + n - 1
    <3>1. View(p)' = [mapped |-> TRUE,
                      bits |-> (View(p).bits \cap change.keep) \cup change.set]
      BY <2>1, WriteInside DEF n
    <3>2. View(p)'.mapped /\ View(p)'.bits = change.set
      BY <1>7, <3>1 DEF FillTranslationTable
    <3>3. PICK k \in 1 .. Current : k = Current
      BY <1>6
    <3>4. Applied(k, p)'
      BY <1>9, <2>1, <3>3
    <3>5. ASSUME NEW i \in 1 .. Current, \A j \in i + 1 .. Current : ~Applied(j, p)'
          PROVE  i = Current
      <4>1. i # Current => k \in i + 1 .. Current
        BY <1>6, <3>3
      <4> QED BY <3>4, <3>5, <4>1
    <3>6. change.set = FillTranslationTable(call.table[Current].attr).set
      BY <1>7
    <3> QED BY <3>2, <3>3, <3>4, <3>5, <3>6
  <2>2. CASE p \notin RegionStart .. RegionStart + n - 1
    <3>1. View(p)' = View(p)
      BY <2>2, WriteOutside DEF n
    <3>2. \A i \in 1 .. Current : Applied(i, p)' <=> Applied(i, p)
      BY <1>9, <2>2
    <3>3. \A i \in 1 .. Current : \A j \in i + 1 .. Current : j \in 1 .. Current
      BY <1>6
    <3> QED BY <1>4, <3>1, <3>2, <3>3 DEF MapApplied
  <2> QED BY <2>1, <2>2
<1> QED BY <1>8, <1>10

LEMMA InstallInvInit == Init => InstallInv
<1>1. Init => ~Installing
  BY DEF Init, Installing
<1> QED BY <1>1 DEF InstallInv

LEMMA InstallInvNext == ViewInv /\ InstallInv /\ [Next]_vars => InstallInv'
<1> SUFFICES ASSUME ViewInv, InstallInv, [Next]_vars PROVE InstallInv'
  OBVIOUS
<1>1. calls \in Nat
  BY GeometryAssumption DEF ViewInv, IInv, TypeOK
<1>2. Installing /\ mmu = "on" => memoryTable = <<>> /\ pc = "idle"
  BY DEF InstallInv, MapRead
<1>3. CASE WriteEntry
  BY <1>3, WriteInstall
<1>4. ~WriteEntry => \A p \in Page : View(p)' = View(p)
  BY ViewKept
<1>5. CASE ConfigureMmu
  BY <1>5, ConfigureInstall
<1>6. CASE FillNextRegion
  BY <1>6, FillInstall
<1>7. ASSUME ~Installing' PROVE InstallInv'
  BY <1>7 DEF InstallInv
<1>8. CASE ConfigureMmuNoMemory
  BY <1>7, <1>8 DEF ConfigureMmuNoMemory, Installing
<1>9. ASSUME NEW c \in Calls, NEW start \in Page, NEW length \in 0 .. PageCount,
             SetRegion(c, start, length)
      PROVE  InstallInv'
  BY <1>1, <1>7, <1>9 DEF SetRegion, Installing
<1>10. CASE OutOfResources
  <2>1. pc = "walk" /\ calls' = calls /\ mmu' = IF mmu = "on" THEN mmu ELSE "failed"
    BY <1>10 DEF OutOfResources
  <2> QED BY <1>2, <1>7, <2>1 DEF Installing
<1>11. CASE EnableMmu
  <2>1. /\ mmu = "off" /\ pc = "fill" /\ memoryTable = <<>> /\ pc' = "idle" /\ ~WriteEntry
        /\ UNCHANGED <<call, memoryTable, regionVars>>
    BY <1>11 DEF EnableMmu, ViewInv, NothingLeft, WriteEntry, callVars
  <2> QED BY <1>4, <2>1, InstallSame DEF Installing
<1>12. CASE /\ UNCHANGED <<call, memoryTable, regionVars, mmu, calls>> /\ ~WriteEntry
            /\ pc' = pc \/ (pc = "walk" /\ pc' = "write")
  <2>1. Installing' => Installing
    BY <1>12 DEF Installing
  <2>2. CASE Installing'
    <3>1. mmu' = "on" => memoryTable = <<>> /\ pc' = "idle"
      BY <1>2, <1>12, <2>1, <2>2
    <3>2. pc' \in {"walk", "write"} => pc \in {"walk", "write"}
      BY <1>12
    <3>3. \A p \in Page : View(p)' = View(p)
      BY <1>4, <1>12
    <3> QED BY <1>12, <2>1, <3>1, <3>2, <3>3, InstallSame
  <2> QED BY <1>7, <2>2
<1>13. CASE DescendTable \/ ReachLevel
  BY <1>12, <1>13 DEF DescendTable, ReachLevel, WriteEntry, callVars
<1>14. CASE SplitBlock \/ LinkTable
  BY <1>3, <1>12, <1>14, NewTableSteps DEF NewTableStep, callVars
<1>15. CASE (\E p \in Page : TlbFill(p)) \/ UNCHANGED vars
  BY <1>3, <1>12, <1>15 DEF TlbFill, vars, callVars
<1> QED BY <1>3, <1>5, <1>6, <1>8, <1>9, <1>10, <1>11, <1>13, <1>14, <1>15, LibraryKinds
        DEF Next, LibraryOther

\* Once ArmConfigureMmu has returned, each page has the attributes of the last
\* region of the platform's map that holds it, however the regions overlap, and
\* a page that no region holds is not mapped (ArmMmuLibCore.c:689 to :757).
THEOREM MapInstalled == Spec => []MemoryMapInstalled
<1>1. ViewInv /\ InstallInv => MemoryMapInstalled
  <2> SUFFICES ASSUME ViewInv, InstallInv, mmu = "on", calls = 0
               PROVE  MemoryMapInstalled
    BY DEF MemoryMapInstalled
  <2> DEFINE table == call.table
             Holding(p) == {i \in DOMAIN table :
                              p \in table[i].base .. table[i].base + table[i].length - 1}
  <2>1. MapRead /\ MapApplied
    BY DEF InstallInv, Installing
  <2>2. /\ table \in Seq(MemoryRegion) /\ Len(table) \in Nat /\ DOMAIN table = 1 .. Len(table)
        /\ Current = Len(table) /\ RegionLength = 0 /\ RegionStart \in Nat
    BY <2>1, PageCountType DEF MapRead, Current, ViewInv, NothingLeft, IInv, TypeOK
  <2>3. ASSUME NEW p \in Page, NEW i \in 1 .. Current
        PROVE  Applied(i, p) <=> i \in Holding(p)
    <3>1. table[i] \in MemoryRegion
      BY <2>2
    <3>2. table[i].base \in Nat /\ table[i].length \in Nat /\ p \in Nat
      BY <3>1, PageCountType DEF MemoryRegion, Page
    <3>3. i = Current => RegionStart = table[i].base + table[i].length
      BY <2>1, <2>2 DEF MapRead
    <3>4. i < Current \/ i = Current
      BY <2>2
    <3>5. i \in Holding(p) <=> Holds(table[i], p)
      BY <2>2 DEF Holds
    <3>6. i = Current => (Holds(table[i], p) => p < RegionStart)
      BY <2>2, <3>2, <3>3 DEF Holds
    <3> HIDE DEF Holding
    <3> QED BY <3>4, <3>5, <3>6 DEF Applied
  <2>4. ASSUME NEW p \in Page
        PROVE  Mapped(p) <=> Holding(p) # {}
    <3>1. Mapped(p) <=> View(p).mapped
      BY DEF View
    <3>2. Holding(p) \subseteq 1 .. Current
      BY <2>2
    <3> HIDE DEF Holding
    <3> QED BY <2>1, <2>3, <3>1, <3>2 DEF MapApplied
  <2>5. ASSUME NEW p \in Page, NEW i \in Holding(p), \A j \in Holding(p) : j <= i
        PROVE  Leaf(p).bits
                 = {"AF"} \cup ArmMemoryAttributeToPageAttribute(table[i].attr)
    <3>1. i \in 1 .. Current /\ Applied(i, p)
      BY <2>2, <2>3
    <3>2. \A j \in i + 1 .. Current : ~Applied(j, p)
      <4> SUFFICES ASSUME NEW j \in i + 1 .. Current PROVE ~Applied(j, p)
        OBVIOUS
      <4>1. j \in 1 .. Current /\ ~(j <= i)
        BY <2>2, <3>1
      <4> HIDE DEF Holding
      <4> QED BY <2>3, <2>5, <4>1
    <3>3. View(p).bits = FillTranslationTable(table[i].attr).set
      BY <2>1, <3>1, <3>2 DEF MapApplied
    <3>4. Mapped(p)
      BY <2>4
    <3>5. View(p).bits = Leaf(p).bits
      BY <3>4 DEF View
    <3> QED BY <3>3, <3>5 DEF FillTranslationTable
  <2> QED BY <2>4, <2>5 DEF MemoryMapInstalled
<1>2. Spec => [](ViewInv /\ InstallInv)
  BY ViewInvInit, ViewInvNext, InstallInvInit, InstallInvNext, PTL DEF Spec
<1> QED BY <1>1, <1>2, PTL

-----------------------------------------------------------------------------
(* What a call has done so far *)

LEMMA ViewType ==
  ASSUME ViewInv, NEW p \in Page
  PROVE  View(p).bits \in SUBSET Bits
<1>1. CASE Mapped(p)
  <2>1. PICK l \in Level : MappedAt(p, l)
    BY <1>1 DEF Mapped
  <2>2. View(p).bits = pt[Entry(l, p)].bits
    BY <2>1, LeafIs
  <2> QED BY <2>2, EntryType DEF ViewInv, IInv, TypeOK
<1>2. CASE ~Mapped(p)
  BY <1>2 DEF View
<1> QED BY <1>1, <1>2

\* The call under way, or the last one if it succeeded, has changed the pages
\* of its region up to RegionStart.
Calling ==
  /\ call.args \in Calls
  /\ change = ChangeOf(call.args)
  /\ call.start \in Page /\ call.length \in Nat
  /\ RegionStart + RegionLength = call.start + call.length
  /\ \A p \in Page : call.start <= p /\ p < RegionStart =>
       /\ View(p).mapped
       /\ \E b \in SUBSET Bits : View(p).bits = (b \cap change.keep) \cup change.set

CallInv ==
  /\ calls > 0 => mmu = "on"
  /\ calls > 0 /\ (pc # "idle" \/ status = "SUCCESS") => Calling

LEMMA CallSame ==
  ASSUME CallInv, ~WriteEntry, UNCHANGED <<mmu, calls, call, regionVars, status>>,
         pc' = "idle" <=> pc = "idle",
         \A p \in Page : View(p)' = View(p)
  PROVE  CallInv'
<1>1. Calling => Calling'
  <2> SUFFICES ASSUME Calling, NEW p \in Page, call.start <= p, p < RegionStart
               PROVE  /\ View(p)'.mapped
                      /\ \E b \in SUBSET Bits :
                           View(p)'.bits = (b \cap change.keep) \cup change.set
    BY DEF Calling, regionVars
  <2>1. View(p)' = View(p)
    OBVIOUS
  <2> QED BY <2>1 DEF Calling
<1> QED BY <1>1 DEF CallInv

LEMMA CallBegins ==
  ASSUME ViewInv, CallInv, NEW c \in Calls, NEW start \in Page, NEW length \in 0 .. PageCount,
         SetRegion(c, start, length)
  PROVE  CallInv'
<1>1. mmu = "on" /\ mmu' = "on" /\ pc = "idle"
  BY DEF SetRegion
<1>2. CASE length = 0
  <2>1. pc' = "idle" /\ status' = "INVALID_PARAMETER"
    BY <1>1, <1>2 DEF SetRegion
  <2> QED BY <1>1, <2>1 DEF CallInv
<1>3. CASE length # 0
  <2>1. /\ call' = [op |-> c.op, args |-> c, start |-> start, length |-> length]
        /\ RegionStart' = start /\ RegionLength' = length /\ change' = ChangeOf(c)
    BY <1>3 DEF SetRegion, UpdateRegionMapping
  <2>2. call'.args = c /\ call'.start = start /\ call'.length = length
    BY <2>1
  <2>3. \A p \in Page : ~(start <= p /\ p < start)
    BY PageCountType DEF Page
  <2>4. Calling'
    BY <2>1, <2>2, <2>3, PageCountType DEF Calling
  <2> QED BY <1>1, <2>4 DEF CallInv
<1> QED BY <1>2, <1>3

LEMMA CallWrites ==
  ASSUME ViewInv, CallInv, WriteEntry
  PROVE  CallInv'
<1> DEFINE n == S(PageLevel)
<1>1. /\ pc = "write" /\ mmu' = mmu /\ change' = change
      /\ call' = call /\ calls' = calls
      /\ RegionStart' = RegionStart + n /\ RegionLength' = RegionLength - n
  BY DEF WriteEntry, callVars
<1>2. n \in 1 .. RegionLength /\ RegionStart \in Nat /\ RegionLength \in Nat
  <2>1. PICK d : d = <<PageLevel, BlockEntry>>
    OBVIOUS
  <2>2. n \in 1 .. RegionLength /\ RegionStart \in Page /\ RegionLength \in Nat
    BY <2>1, WriteFacts
  <2> QED BY <2>2, PageCountType DEF Page
<1> HIDE DEF n
<1>3. CASE calls > 0
  <2>1. Calling /\ mmu = "on"
    BY <1>1, <1>3 DEF CallInv
  <2>2. ASSUME NEW p \in Page, call.start <= p, p < RegionStart + n
        PROVE  /\ View(p)'.mapped
               /\ \E b \in SUBSET Bits :
                    View(p)'.bits = (b \cap change.keep) \cup change.set
    <3>1. CASE p \in RegionStart .. RegionStart + n - 1
      <4>1. View(p)' = [mapped |-> TRUE,
                        bits |-> (View(p).bits \cap change.keep) \cup change.set]
        BY <3>1, WriteInside DEF n
      <4> QED BY <4>1, ViewType
    <3>2. CASE p \notin RegionStart .. RegionStart + n - 1
      <4>1. View(p)' = View(p)
        BY <3>2, WriteOutside DEF n
      <4>2. p < RegionStart
        BY <1>2, <2>2, <3>2, PageCountType DEF Page
      <4> QED BY <2>1, <2>2, <4>1, <4>2 DEF Calling
    <3> QED BY <3>1, <3>2
  <2>3. RegionStart' + RegionLength' = RegionStart + RegionLength
    BY <1>1, <1>2
  <2>4. Calling'
    BY <1>1, <2>1, <2>2, <2>3 DEF Calling
  <2> QED BY <1>1, <2>1, <2>4 DEF CallInv
<1>4. CASE ~(calls > 0)
  BY <1>1, <1>4 DEF CallInv
<1> QED BY <1>3, <1>4

LEMMA CallInvInit == Init => CallInv
BY DEF Init, CallInv

LEMMA CallInvNext == ViewInv /\ CallInv /\ [Next]_vars => CallInv'
<1> SUFFICES ASSUME ViewInv, CallInv, [Next]_vars PROVE CallInv'
  OBVIOUS
<1>1. ~WriteEntry => \A p \in Page : View(p)' = View(p)
  BY ViewKept
<1>2. ASSUME mmu # "on", calls' = calls PROVE CallInv'
  BY <1>2 DEF CallInv
<1>3. CASE ConfigureMmu \/ ConfigureMmuNoMemory \/ FillNextRegion \/ EnableMmu
  BY <1>2, <1>3 DEF ConfigureMmu, ConfigureMmuNoMemory, FillNextRegion, EnableMmu,
                    ViewInv, NothingLeft, callVars
<1>4. ASSUME NEW c \in Calls, NEW start \in Page, NEW length \in 0 .. PageCount,
             SetRegion(c, start, length)
      PROVE  CallInv'
  BY <1>4, CallBegins
<1>5. CASE WriteEntry
  BY <1>5, CallWrites
<1>6. CASE OutOfResources
  <2>1. /\ pc' = "idle" /\ status' = "OUT_OF_RESOURCES" /\ calls' = calls
        /\ mmu = "on" => mmu' = mmu
    BY <1>6 DEF OutOfResources
  <2> QED BY <2>1 DEF CallInv
<1>7. CASE /\ UNCHANGED <<mmu, calls, call, regionVars, status>> /\ ~WriteEntry
           /\ pc' = "idle" <=> pc = "idle"
  BY <1>1, <1>7, CallSame
<1>8. CASE DescendTable \/ ReachLevel
  BY <1>7, <1>8 DEF DescendTable, ReachLevel, WriteEntry, callVars
<1>9. CASE SplitBlock \/ LinkTable
  BY <1>5, <1>7, <1>9, NewTableSteps DEF NewTableStep, callVars
<1>10. CASE (\E p \in Page : TlbFill(p)) \/ UNCHANGED vars
  BY <1>5, <1>7, <1>10 DEF TlbFill, vars, callVars
<1> QED BY <1>3, <1>4, <1>5, <1>6, <1>8, <1>9, <1>10, LibraryKinds DEF Next, LibraryOther

-----------------------------------------------------------------------------
(* What a caller reads back *)

\* What was asked for, read back through the library's own conversion.
HasEffect(c, bits) ==
  LET got == PageAttributeToGcdAttribute(bits)
  IN  /\ c.op = "SetNoExec" => got.xp
      /\ c.op = "ClearNoExec" => ~got.xp
      /\ c.op = "SetReadOnly" => got.ro
      /\ c.op = "ClearReadOnly" => ~got.ro
      /\ c.op = "SetAttributes" =>
           /\ got.ro = c.gcd.ro
           /\ got.xp = (c.gcd.xp \/ c.gcd.cache = "UC")
           /\ c.gcd.cache # "none" => got.cache = c.gcd.cache

LEMMA XnMaskIs == "XN" \in XnMask /\ XnMask \subseteq {"XN", "PXN"}
BY DEF XnMask

LEMMA ReadBack ==
  ASSUME NEW bits
  PROVE  /\ PageAttributeToGcdAttribute(bits).ro = ("AP2" \in bits)
         /\ PageAttributeToGcdAttribute(bits).xp = (bits \cap {"PXN", "XN"} # {})
         /\ bits \cap {"I0", "I1"} = {} => PageAttributeToGcdAttribute(bits).cache = "UC"
         /\ bits \cap {"I0", "I1"} = {"I0"} => PageAttributeToGcdAttribute(bits).cache = "WC"
         /\ bits \cap {"I0", "I1"} = {"I1"} => PageAttributeToGcdAttribute(bits).cache = "WT"
         /\ bits \cap {"I0", "I1"} = {"I0", "I1"} =>
              PageAttributeToGcdAttribute(bits).cache = "WB"
<1>1. {"I0"} # {} /\ {"I1"} # {} /\ {"I0", "I1"} # {} /\ {"I0"} # {"I1"}
      /\ {"I0", "I1"} # {"I0"} /\ {"I0", "I1"} # {"I1"}
  OBVIOUS
<1> QED BY <1>1, Zenon DEF PageAttributeToGcdAttribute

\* What each of the attributes asked for puts into a descriptor.
LEMMA GcdBits ==
  ASSUME NEW g \in GcdAttributes
  PROVE  LET bits == GcdAttributeToPageAttribute(g)
         IN  /\ "AP2" \in bits <=> g.ro
             /\ bits \cap {"PXN", "XN"} # {} <=> g.xp \/ g.cache = "UC"
             /\ g.cache = "UC" => bits \cap {"I0", "I1"} = {}
             /\ g.cache = "WC" => bits \cap {"I0", "I1"} = {"I0"}
             /\ g.cache = "WT" => bits \cap {"I0", "I1"} = {"I1"}
             /\ g.cache = "WB" => bits \cap {"I0", "I1"} = {"I0", "I1"}
<1> DEFINE index == CASE g.cache = "UC" -> {}
                      [] g.cache = "WC" -> {"I0"}
                      [] g.cache = "WT" -> {"I1", "SH"}
                      [] g.cache = "WB" -> {"I0", "I1", "SH"}
                      [] OTHER          -> {"I0", "I1"}
           xn == IF g.xp \/ g.cache = "UC" THEN XnMask ELSE {}
           ap == IF g.ro THEN {"AP1", "AP2"} ELSE {}
<1>1. GcdAttributeToPageAttribute(g) = index \cup xn \cup ap \cup {"AF"}
  BY DEF GcdAttributeToPageAttribute
<1>2. /\ g.cache \in {"UC", "WC", "WT", "WB", "none"}
      /\ g.xp \in BOOLEAN /\ g.ro \in BOOLEAN
  BY GcdAttributesAssumption
<1>3. /\ "UC" # "WC" /\ "UC" # "WT" /\ "UC" # "WB" /\ "UC" # "none" /\ "WC" # "WT"
      /\ "WC" # "WB" /\ "WC" # "none" /\ "WT" # "WB" /\ "WT" # "none" /\ "WB" # "none"
  OBVIOUS
<1>4. /\ g.cache = "UC" => index = {}
      /\ g.cache = "WC" => index = {"I0"}
      /\ g.cache = "WT" => index = {"I1", "SH"}
      /\ g.cache = "WB" => index = {"I0", "I1", "SH"}
      /\ g.cache = "none" => index = {"I0", "I1"}
  BY <1>3, Zenon
<1>5. /\ g.xp \/ g.cache = "UC" => "XN" \in xn
      /\ ~(g.xp \/ g.cache = "UC") => xn = {}
      /\ xn \subseteq {"XN", "PXN"}
  BY XnMaskIs
<1>6. (g.ro => ap = {"AP1", "AP2"}) /\ (~g.ro => ap = {})
  OBVIOUS
<1> HIDE DEF index, xn, ap
<1>7. index \subseteq {"I0", "I1", "SH"} /\ ap \subseteq {"AP1", "AP2"}
  BY <1>2, <1>4, <1>6
<1> DEFINE all == index \cup xn \cup ap \cup {"AF"}
<1>8. "AP2" \in all <=> g.ro
  BY <1>2, <1>5, <1>6, <1>7
<1>9. all \cap {"PXN", "XN"} # {} <=> g.xp \/ g.cache = "UC"
  <2>1. all \cap {"PXN", "XN"} = xn
    BY <1>5, <1>7
  <2> HIDE DEF all
  <2> QED BY <1>5, <2>1
<1>10. all \cap {"I0", "I1"} = index \cap {"I0", "I1"}
  BY <1>5, <1>7
<1> HIDE DEF all
<1>11. /\ g.cache = "UC" => all \cap {"I0", "I1"} = {}
       /\ g.cache = "WC" => all \cap {"I0", "I1"} = {"I0"}
       /\ g.cache = "WT" => all \cap {"I0", "I1"} = {"I1"}
       /\ g.cache = "WB" => all \cap {"I0", "I1"} = {"I0", "I1"}
  BY <1>4, <1>10
<1> QED BY <1>1, <1>8, <1>9, <1>11 DEF all

\* A change read back says what was asked for, whatever it was made to.
LEMMA ChangeHasEffect ==
  ASSUME NEW c \in Calls, NEW b \in SUBSET Bits
  PROVE  HasEffect(c, (b \cap ChangeOf(c).keep) \cup ChangeOf(c).set)
<1> DEFINE bits == (b \cap ChangeOf(c).keep) \cup ChangeOf(c).set
           got == PageAttributeToGcdAttribute(bits)
<1>1. /\ "SetAttributes" # "SetNoExec" /\ "SetAttributes" # "ClearNoExec"
      /\ "SetAttributes" # "SetReadOnly" /\ "SetAttributes" # "ClearReadOnly"
      /\ "SetNoExec" # "ClearNoExec" /\ "SetNoExec" # "SetReadOnly"
      /\ "SetNoExec" # "ClearReadOnly" /\ "ClearNoExec" # "SetReadOnly"
      /\ "ClearNoExec" # "ClearReadOnly" /\ "SetReadOnly" # "ClearReadOnly"
  OBVIOUS
<1>2. got.ro = ("AP2" \in bits) /\ got.xp = (bits \cap {"PXN", "XN"} # {})
  BY ReadBack
<1>3. \/ c.op = "SetAttributes" /\ c.gcd \in GcdAttributes
      \/ c.op \in {"SetNoExec", "ClearNoExec", "SetReadOnly", "ClearReadOnly"}
  BY DEF Calls
<1>4. CASE c.op = "SetNoExec"
  <2>1. ChangeOf(c) = ArmSetMemoryRegionNoExec
    BY <1>1, <1>4, Zenon DEF ChangeOf
  <2>2. "XN" \in bits
    BY <2>1 DEF ArmSetMemoryRegionNoExec
  <2>3. got.xp
    BY <1>2, <2>2
  <2> QED BY <1>1, <1>4, <2>3 DEF HasEffect
<1>5. CASE c.op = "ClearNoExec"
  <2>1. ChangeOf(c) = ArmClearMemoryRegionNoExec
    BY <1>1, <1>5, Zenon DEF ChangeOf
  <2>2. bits \cap {"PXN", "XN"} = {}
    BY <2>1 DEF ArmClearMemoryRegionNoExec
  <2>3. ~got.xp
    BY <1>2, <2>2
  <2> QED BY <1>1, <1>5, <2>3 DEF HasEffect
<1>6. CASE c.op = "SetReadOnly"
  <2>1. ChangeOf(c) = ArmSetMemoryRegionReadOnly
    BY <1>1, <1>6, Zenon DEF ChangeOf
  <2>2. "AP2" \in bits
    BY <2>1 DEF ArmSetMemoryRegionReadOnly
  <2>3. got.ro
    BY <1>2, <2>2
  <2> QED BY <1>1, <1>6, <2>3 DEF HasEffect
<1>7. CASE c.op = "ClearReadOnly"
  <2>1. ChangeOf(c) = ArmClearMemoryRegionReadOnly
    BY <1>1, <1>7, Zenon DEF ChangeOf
  <2>2. "AP2" \notin bits
    BY <2>1 DEF ArmClearMemoryRegionReadOnly
  <2>3. ~got.ro
    BY <1>2, <2>2
  <2> QED BY <1>1, <1>7, <2>3 DEF HasEffect
<1>8. CASE c.op = "SetAttributes"
  <2> DEFINE g == c.gcd
             G == GcdAttributeToPageAttribute(g)
  <2>1. g \in GcdAttributes /\ g.cache \in {"UC", "WC", "WT", "WB", "none"}
        /\ g.xp \in BOOLEAN /\ g.ro \in BOOLEAN
    BY <1>1, <1>3, <1>8, GcdAttributesAssumption
  <2>2. ChangeOf(c) = ArmSetMemoryAttributes(g)
    BY <1>8, Zenon DEF ChangeOf
  <2>3. /\ "AP2" \in bits <=> "AP2" \in G
        /\ bits \cap {"PXN", "XN"} = G \cap {"PXN", "XN"}
        /\ g.cache # "none" => bits \cap {"I0", "I1"} = G \cap {"I0", "I1"}
    <3> HIDE DEF G
    <3>1. CASE g.cache = "none"
      <4>1. /\ ChangeOf(c).keep = Bits \ {"AP1", "AP2", "PXN", "XN"}
            /\ ChangeOf(c).set = G \cap {"AP1", "AP2", "PXN", "XN"}
        BY <2>2, <3>1 DEF ArmSetMemoryAttributes, G
      <4> QED BY <3>1, <4>1
    <3>2. CASE g.cache # "none"
      <4>1. ChangeOf(c).keep = {} /\ ChangeOf(c).set = G
        BY <2>2, <3>2 DEF ArmSetMemoryAttributes, G
      <4> QED BY <4>1
    <3> QED BY <3>1, <3>2
  <2>4. got.ro = g.ro
    BY <1>2, <2>1, <2>3, GcdBits
  <2>5. got.xp = (g.xp \/ g.cache = "UC")
    BY <1>2, <2>1, <2>3, GcdBits
  <2>6. g.cache # "none" => got.cache = g.cache
    BY <2>1, <2>3, GcdBits, ReadBack
  <2> QED BY <1>1, <1>8, <2>4, <2>5, <2>6 DEF HasEffect
<1> QED BY <1>3, <1>4, <1>5, <1>6, <1>7, <1>8

\* A call that returns EFI_SUCCESS has given every page of its region, and not
\* only the ones that its first or last descriptor covers, the attributes it
\* was asked for, whatever they were before and however the region lies across
\* blocks and tables (ArmMmuLibCore.c:300 to :412 and :456 to :620).
THEOREM EffectTaken == Spec => []CallTakesEffect
<1>1. ViewInv /\ CallInv => CallTakesEffect
  <2> SUFFICES ASSUME ViewInv, CallInv, pc = "idle", status = "SUCCESS", calls > 0,
                      NEW p \in call.start .. call.start + call.length - 1
               PROVE  Mapped(p) /\ HasEffect(call.args, Leaf(p).bits)
    BY DEF CallTakesEffect, HasEffect
  <2>1. Calling
    BY DEF CallInv
  <2>2. /\ RegionLength = 0 /\ RegionStart \in 0 .. PageCount /\ call.start \in Nat
        /\ call.length \in Nat /\ RegionStart = call.start + call.length
    BY <2>1, PageCountType DEF ViewInv, NothingLeft, IInv, TypeOK, Calling, Page
  <2>3. p \in Page /\ call.start <= p /\ p < RegionStart
    <3>1. p \in call.start .. RegionStart - 1
      BY <2>2
    <3> QED BY <2>2, <3>1, PageCountType DEF Page
  <2>4. View(p).mapped
    BY <2>1, <2>3 DEF Calling
  <2>5. PICK b \in SUBSET Bits :
          View(p).bits = (b \cap ChangeOf(call.args).keep) \cup ChangeOf(call.args).set
    BY <2>1, <2>3 DEF Calling
  <2>6. Mapped(p) /\ View(p).bits = Leaf(p).bits
    BY <2>4 DEF View
  <2>7. HasEffect(call.args,
                  (b \cap ChangeOf(call.args).keep) \cup ChangeOf(call.args).set)
    BY <2>1, ChangeHasEffect DEF Calling
  <2> QED BY <2>5, <2>6, <2>7
<1>2. Spec => [](ViewInv /\ CallInv)
  BY ViewInvInit, ViewInvNext, CallInvInit, CallInvNext, PTL DEF Spec
<1> QED BY <1>1, <1>2, PTL
=============================================================================
