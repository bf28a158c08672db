--------------------------- MODULE PlatformMemory ----------------------------
(***************************************************************************)
(* SdramLib, PlatformLib and MemoryInitPeiLib: the size of the DRAM, as    *)
(* read back from what the boot loader left in two registers; the table of *)
(* memory regions made from it; and the descriptors (HOBs) through which   *)
(* the DXE core learns what memory there is and what of it is taken.       *)
(* Addresses and lengths count pages of 4 KiB, sizes of DRAM megabytes.    *)
(***************************************************************************)
EXTENDS Soc, Sequences, SequencesExt

CONSTANT Drams     \* the memories a board can have (records, see Encode)

VARIABLES
    dram,       \* the memory of this board
    memoryMap,  \* the table of regions, <<>> before it is made
    hobs        \* the descriptors: [kind, base, pages]

memoryVars == <<dram, memoryMap, hobs>>

MemoryInitial == dram \in Drams /\ memoryMap = <<>> /\ hobs = {}

PagesPerMb == 256
GB(n) == n * 1024 * PagesPerMb

------------------------------------------------------------------------------
(* The loader's registers.  A channel's geometry is address bits: rows and   *)
(* columns of each chip select, banks, bank groups, bytes of the data bus.   *)

DDR4 == 0

Encode(d, c) ==
    LET row(n) == IF n = 12 THEN 7 ELSE n - 13
    IN  [rank |-> Len(c.rows) - 1, col |-> c.cols[1] - 9, col1 |-> c.cols[Len(c.cols)] - 9,
         row |-> row(c.rows[1]), row1 |-> row(c.rows[Len(c.rows)]),
         bk |-> 3 - c.banks, bw |-> 2 - c.width, dbw |-> c.groups,
         row34 |-> c.quarters = 3]

DramRegisters(d) == [type |-> d.type, version |-> d.version,
                     ch |-> [i \in DOMAIN d.ch |-> Encode(d, d.ch[i])]]

\* What the geometry amounts to, in MB.
Capacity(d) ==
    LET rank(c, k) == 2^(c.rows[k] + c.cols[k] + c.banks + c.groups + c.width - 20)
        channel(c) == (FoldLeft(+, 0, [k \in DOMAIN c.rows |-> rank(c, k)])
                         * c.quarters) \div 4
    IN  FoldLeft(+, 0, [i \in DOMAIN d.ch |-> channel(d.ch[i])])

\* What the registers can say of a channel: its row counts, three bits of
\* them since version 2, its column counts, of each rank since then, banks,
\* bank groups (of DDR4, and not in version 3) and the width of the data bus.
\* The first rank is the larger one.
IsChannel(d, c) ==
    LET rows  == IF d.version >= 2 THEN 12..19 ELSE 13..16
        ranks == Len(c.rows)
    IN  /\ c.rows \in Seq(rows) /\ ranks \in 1..2
        /\ c.cols \in Seq(9..12) /\ Len(c.cols) \in ranks..2
        /\ ranks = 2 => /\ c.rows[2] + c.cols[2] <= c.rows[1] + c.cols[1]
                        /\ d.version < 2 => c.cols[2] = c.cols[1]
        /\ c.banks \in 2..3 /\ c.width \in 0..2 /\ c.quarters \in 3..4
        /\ c.groups \in IF d.type = DDR4 /\ d.version # 3 THEN 1..2 ELSE {0}

------------------------------------------------------------------------------
(* The code. *)

RowBits(v, f) == IF v >= 2 /\ f = 7 THEN 12 ELSE 13 + f

BankGroupBits(r, c) ==
    IF r.type # DDR4 \/ r.version = 3 THEN 0 ELSE IF c.dbw = 2 THEN 2 ELSE 1

ChannelMb(r, c) ==
    LET cs0row == RowBits(r.version, c.row)
        cs1row == RowBits(r.version, c.row1)
        cs0col == 9 + c.col
        cs1col == IF r.version >= 2 THEN 9 + c.col1 ELSE cs0col
        size   == 2^(cs0row + cs0col + 3 - c.bk + BankGroupBits(r, c)
                       + (2 \div 2^c.bw) - 20)
        both   == IF c.rank = 0 THEN size
                  ELSE size + size \div 2^((cs0row - cs1row) + (cs0col - cs1col))
    IN  IF c.row34 THEN (both * 3) \div 4 ELSE both

SdramGetMemorySize(r) ==
    FoldLeft(LAMBDA sum, c : sum + ChannelMb(r, c), 0, r.ch)

\* A region: its type says what becomes of it, its attributes how it is mapped.
Region(base, pages, attributes, type) ==
    [base |-> base, pages |-> pages, attributes |-> attributes, type |-> type]

Smaller(m, n) == IF m < n THEN m ELSE n

MAX_VIRTUAL_MEMORY_MAP_DESCRIPTORS == 10

\* Rk356xMem.c and, with other constants, Rk3588Mem.c.
HighMmio(soc) ==
    IF soc = "RK356X" THEN Region(3145728, 789504, "device", "unmapped")
                      ELSE Region(9437184, 1315840, "device", "unmapped")
TfaPages(soc)      == IF soc = "RK356X" THEN 2560 ELSE 512
FdBaseAddress(soc) == IF soc = "RK356X" THEN 2560 ELSE 512

\* The memories of such boards: one channel or two, not less than what lies at
\* fixed addresses, and not so much that it meets the devices above it.
DramsAssumption ==
    \A d \in Drams :
        /\ d.soc \in {"RK356X", "RK3588"} /\ d.type \in Nat /\ d.version \in Nat
        /\ DOMAIN d.ch \in {1..1, 1..2} /\ \A i \in DOMAIN d.ch : IsChannel(d, d.ch[i])
        /\ Capacity(d) * PagesPerMb \in 37888..HighMmio(d.soc).base
ASSUME DramsAssumption

\* Fault: the memory below 4 GB is counted again.
FaultHighRam(pages) ==
    IF pages > GB(4) THEN <<Region(GB(4), pages, "write-back", "basic")>> ELSE <<>>

HighRam(pages) ==
    IF pages > GB(4) THEN <<Region(GB(4), pages - GB(4), "write-back", "basic")>>
    ELSE <<>>

ArmPlatformGetVirtualMemoryMap(soc, pages) ==
    <<Region(983040, 65536, "device", "unmapped"), HighMmio(soc),
      Region(0, Smaller(pages, 983040), "write-back", "basic")>>
    \o HighRam(pages)
    \o <<Region(0, TfaPages(soc), "uncached", "reserved"),
         Region(33792, 4096, "write-back", "reserved"),
         Region(271, 1, "uncached", "reserved"),
         Region(FdBaseAddress(soc), 896, "write-back", "reserved"),
         Region(2784, 16, "write-back", "reserved")>>

Resource(r)   == [kind |-> "resource", base |-> r.base, pages |-> r.pages]
Allocation(r) == [kind |-> "allocation", base |-> r.base, pages |-> r.pages]

AddRegion(r) ==
    CASE r.type = "unmapped" -> {}
      [] r.type = "basic"    -> {Resource(r)}
      [] r.type = "reserved" -> {Resource(r), Allocation(r)}

\* Without memory for the table its address is not set, and what follows
\* reads through a variable that was never written.
MemoryPeim ==
    /\ pc = <<"Pei", "memory">>
    /\ \/ LET pages == SdramGetMemorySize(DramRegisters(dram)) * PagesPerMb
          IN  /\ memoryMap' = ArmPlatformGetVirtualMemoryMap(dram.soc, pages)
              /\ hobs' = UNION {AddRegion(memoryMap'[i]) : i \in DOMAIN memoryMap'}
              /\ pc' = <<"DxeCore", "dispatch">>
       \/ /\ pc' = <<"Pei", "undefined">>
          /\ UNCHANGED <<memoryMap, hobs>>
    /\ UNCHANGED dram

------------------------------------------------------------------------------
MemoryTypeOK ==
    /\ dram \in Drams
    /\ \A h \in hobs : h.kind \in {"resource", "allocation"} /\ h.base \in Nat

Overlap(a, b) == a.base < b.base + b.pages /\ b.base < a.base + a.pages
Inside(a, b)  == b.base <= a.base /\ a.base + a.pages <= b.base + b.pages

\* What must not be given away, from the platform's description.
Firmware(soc) ==
    {[base |-> 0, pages |-> TfaPages(soc)], [base |-> 33792, pages |-> 4096],
     [base |-> FdBaseAddress(soc), pages |-> 896], [base |-> 2784, pages |-> 16]}

(* For every memory a board can have: what is declared as memory exists and *)
(* is no device; what the secure world, the firmware's own image and the    *)
(* device tree occupy is taken; all of the DRAM below the device window is  *)
(* declared; a region that a later one overlaps keeps its way of being      *)
(* mapped unless it is plain memory; and the table fits in its array.       *)
MemorySound ==
    memoryMap # <<>> =>
        /\ Len(memoryMap) + 1 <= MAX_VIRTUAL_MEMORY_MAP_DESCRIPTORS
        /\ \A h \in hobs : h.kind = "resource" =>
             /\ h.base + h.pages <= Capacity(dram) * PagesPerMb
             /\ \A i \in DOMAIN memoryMap :
                  memoryMap[i].attributes = "device" => ~Overlap(h, memoryMap[i])
        /\ \A f \in Firmware(dram.soc) :
             \E h \in hobs : h.kind = "allocation" /\ Inside(f, h)
        /\ \E h \in hobs :
             /\ h.kind = "resource" /\ h.base = 0
             /\ h.pages = Smaller(983040, Capacity(dram) * PagesPerMb)
        /\ \A i, j \in DOMAIN memoryMap :
             (i < j /\ Overlap(memoryMap[i], memoryMap[j]) /\ memoryMap[i].type # "basic")
               => memoryMap[i].attributes = memoryMap[j].attributes
==============================================================================
