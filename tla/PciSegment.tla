----------------------------- MODULE PciSegment ------------------------------
(***************************************************************************)
(* PciSegmentLib: configuration accesses, and the hardware they reach.     *)
(* Bus 0 is the root port's own register block, the DBI; bus 1 is a window *)
(* of the slave interface that the address translation unit turns into     *)
(* configuration requests.  An address is a page (4 KiB) above the slave   *)
(* interface's base and a byte in it; a value is the set of its bits that  *)
(* are one.                                                                *)
(***************************************************************************)
EXTENDS Soc, Sequences, SequencesExt

CONSTANT PciAccesses     \* the accesses the bus driver makes (records, below)

ConfigAddress == [bus : 0..255, dev : 0..31, off : 0..4095]

\* A register's access has its width, a buffer's as many bytes as the buffer.
Register(q) == q.kind \in {"update", "field"} /\ q.size \in {1, 2, 4}
BufferOf(q) == /\ q.kind \in {"read", "write"}
               /\ q.data \in Seq(SUBSET (0..7))
               /\ q.size = Len(q.data)

\* The bus driver does not know the root port's port logic registers: it never
\* writes the one that unlocks what is read-only (byte 0x8BC).
SparesPortLogic(q) ==
    (q.kind # "read" /\ q.at.bus = 0)
        => ~(q.at.off <= 2236 /\ 2236 < q.at.off + q.size)

PciAccessesAssumption ==
    \A q \in PciAccesses :
        /\ q.at \in ConfigAddress
        /\ Register(q) \/ BufferOf(q)
        /\ SparesPortLogic(q)
ASSUME PciAccessesAssumption

VARIABLES
    link,    \* of the root port: "down" or "up"
    atu,     \* the outbound regions that are enabled: index -> region
    cfg,     \* the configuration bits that are set, as <<function, byte, bit>>
    pciReq   \* the last access: what was asked and what came back

segVars == <<link, atu, cfg, pciReq>>

PCIE2X1_DBI_PAGE == 264192    \* 0x3C0800000, in pages above 0x380000000
CFG_WINDOW == 8               \* 0x8000: bus 1, device 0 is the window's middle

------------------------------------------------------------------------------
(* The hardware. *)

\* Revision and class of each function cannot be written, unless the root
\* port's are unlocked (DBI_RO_WR_EN); so is its link capability.
ReadOnly == (8..11) \cup {124}
Unlocked(c) == <<"rootPort", 2236, 0>> \in c

Place(f, off, b) == <<f, off + b \div 8, b % 8>>

Load(c, f, off, n) == {b \in 0..(8 * n - 1) : Place(f, off, b) \in c}

Store(c, f, off, n, bits) ==
    LET writable == {b \in 0..(8 * n - 1) : \/ off + b \div 8 \notin ReadOnly
                                            \/ f = "rootPort" /\ Unlocked(c)}
    IN  (c \ {Place(f, off, b) : b \in writable})
          \cup {Place(f, off, b) : b \in bits \cap writable}

InRegion(page, region) ==
    region.base <= page /\ page < region.base + region.pages

\* The function behind the link answers to every device number of a type 0
\* request; there is no bridge in it, so a type 1 request has no answer.
FunctionAt(page) ==
    IF page = PCIE2X1_DBI_PAGE THEN "rootPort"
    ELSE IF link = "up" /\ \E i \in DOMAIN atu : /\ atu[i].type = "CFG0"
                                                 /\ InRegion(page, atu[i])
    THEN "endpoint" ELSE "none"

------------------------------------------------------------------------------
(* The library.  An address has a bus, a device and a register. *)

PciSegmentLibGetConfigBase(bus) == IF bus = 0 THEN PCIE2X1_DBI_PAGE ELSE CFG_WINDOW

Page(a) == PciSegmentLibGetConfigBase(a.bus) + 256 * a.bus + 8 * a.dev

Ignored(a) == a.bus = 0 /\ a.dev # 0

PciSegmentLibReadWorker(c, a, n) ==
    IF Ignored(a) \/ FunctionAt(Page(a)) = "none" THEN 0..(8 * n - 1)
    ELSE Load(c, FunctionAt(Page(a)), a.off, n)

PciSegmentLibWriteWorker(c, a, n, bits) ==
    IF Ignored(a) \/ FunctionAt(Page(a)) = "none" THEN c
    ELSE Store(c, FunctionAt(Page(a)), a.off, n, bits)

PciSegmentRead8(c, a)         == PciSegmentLibReadWorker(c, a, 1)
PciSegmentRead16(c, a)        == PciSegmentLibReadWorker(c, a, 2)
PciSegmentRead32(c, a)        == PciSegmentLibReadWorker(c, a, 4)
PciSegmentWrite8(c, a, bits)  == PciSegmentLibWriteWorker(c, a, 1, bits)
PciSegmentWrite16(c, a, bits) == PciSegmentLibWriteWorker(c, a, 2, bits)
PciSegmentWrite32(c, a, bits) == PciSegmentLibWriteWorker(c, a, 4, bits)

\* What Or, And and AndThenOr write, and their bit field forms with Write.
Combine(old, op) == (old \cap op.and) \cup op.or

FieldBits(op) == op.start..op.end
\* Fault: bits beyond the field's end are not cut off.
FaultUnmasked(op, bits) == {b + op.start : b \in bits}

Shifted(op, bits) == {b + op.start : b \in bits} \cap FieldBits(op)

CombineField(old, op) ==
    (old \ FieldBits(op)) \cup (old \cap Shifted(op, op.and)) \cup Shifted(op, op.or)

Update8(c, a, op)  == PciSegmentWrite8(c, a, Combine(PciSegmentRead8(c, a), op))
Update16(c, a, op) == PciSegmentWrite16(c, a, Combine(PciSegmentRead16(c, a), op))
Update32(c, a, op) == PciSegmentWrite32(c, a, Combine(PciSegmentRead32(c, a), op))

BitField8(c, a, op) ==
    PciSegmentWrite8(c, a, CombineField(PciSegmentRead8(c, a), op))
BitField16(c, a, op) ==
    PciSegmentWrite16(c, a, CombineField(PciSegmentRead16(c, a), op))
BitField32(c, a, op) ==
    PciSegmentWrite32(c, a, CombineField(PciSegmentRead32(c, a), op))

\* The loads or stores of a buffer, as <<register, bytes>>: a byte and a word
\* up to a double word boundary, double words, a word and a byte.
Piece(at, n) == IF n > 0 THEN <<<<at, n>>>> ELSE <<>>

Pieces(off, size) ==
    LET odd   == IF off % 2 = 1 /\ size > 0 THEN 1 ELSE 0
        word  == IF size - odd >= 2 /\ ((off + odd) \div 2) % 2 = 1 THEN 2 ELSE 0
        at    == off + odd + word
        left  == size - odd - word
        dword == left \div 4
        tail  == 2 * ((left % 4) \div 2)
    IN  Piece(off, odd) \o Piece(off + odd, word)
          \o [i \in 1..dword |-> <<at + 4 * (i - 1), 4>>]
          \o Piece(at + 4 * dword, tail) \o Piece(at + 4 * dword + tail, left % 2)

\* The bytes of a value of n bytes, low byte first; and back.
ToBytes(bits, n) == [i \in 1..n |-> {b \in 0..7 : 8 * (i - 1) + b \in bits}]
FromBytes(bytes) == UNION {{8 * (i - 1) + b : b \in bytes[i]} : i \in DOMAIN bytes}

PciSegmentReadBuffer(c, a, size) ==
    FlattenSeq([k \in DOMAIN Pieces(a.off, size) |->
        LET p == Pieces(a.off, size)[k]
        IN  ToBytes(PciSegmentLibReadWorker(c, [a EXCEPT !.off = p[1]], p[2]), p[2])])

PciSegmentWriteBuffer(c, a, buffer) ==
    LET one(d, p) == PciSegmentLibWriteWorker(d, [a EXCEPT !.off = p[1]], p[2],
                         FromBytes(SubSeq(buffer, p[1] - a.off + 1,
                                                  p[1] - a.off + p[2])))
    IN  FoldLeft(one, c, Pieces(a.off, Len(buffer)))

------------------------------------------------------------------------------
(* An access of the bus driver: q.kind, q.at, q.size; for an update q.op,   *)
(* for a written buffer q.data.                                             *)

SegInitial ==
    /\ link = "down" /\ atu = <<>>
    /\ cfg = {<<"rootPort", 124, 1>>, <<"rootPort", 10, 7>>, <<"endpoint", 11, 0>>,
              <<"endpoint", 10, 3>>}
    /\ pciReq = [kind |-> "none"]

AfterUpdate(q) ==
    CASE q.kind = "update" /\ q.size = 1 -> Update8(cfg, q.at, q.op)
      [] q.kind = "update" /\ q.size = 2 -> Update16(cfg, q.at, q.op)
      [] q.kind = "update" /\ q.size = 4 -> Update32(cfg, q.at, q.op)
      [] q.kind = "field" /\ q.size = 1  -> BitField8(cfg, q.at, q.op)
      [] q.kind = "field" /\ q.size = 2  -> BitField16(cfg, q.at, q.op)
      [] q.kind = "field" /\ q.size = 4  -> BitField32(cfg, q.at, q.op)

PciUpdate ==
    \E q \in PciAccesses :
        /\ q.kind \in {"update", "field"}
        /\ cfg' = AfterUpdate(q) /\ pciReq' = q
        /\ UNCHANGED <<link, atu>>

PciReadBuffer ==
    \E q \in PciAccesses :
        /\ q.kind = "read"
        /\ pciReq' = [kind |-> "read", at |-> q.at, size |-> q.size,
                      data |-> PciSegmentReadBuffer(cfg, q.at, q.size)]
        /\ UNCHANGED <<link, atu, cfg>>

PciWriteBuffer ==
    \E q \in PciAccesses :
        /\ q.kind = "write"
        /\ cfg' = PciSegmentWriteBuffer(cfg, q.at, q.data) /\ pciReq' = q
        /\ UNCHANGED <<link, atu>>

PciBusStep == PciUpdate \/ PciReadBuffer \/ PciWriteBuffer

------------------------------------------------------------------------------
SegTypeOK ==
    /\ link \in {"down", "up"}
    /\ DOMAIN atu \subseteq 0..2
    /\ \A x \in cfg : x[1] \in {"rootPort", "endpoint"} /\ x[3] \in 0..7

\* The bits an access may change.
Asked(q) ==
    LET f == FunctionAt(Page(q.at))
    IN  IF q.kind = "field" THEN {Place(f, q.at.off, b) : b \in FieldBits(q.op)}
        ELSE {Place(f, q.at.off, b) : b \in 0..(8 * q.size - 1)}

(* An access of the bus driver changes at most what it names: its bit field *)
(* or its buffer, in the function it addresses.  A buffer that was read has *)
(* each of its bytes in its place, one that was written is in the register  *)
(* file where that can be written, and each load or store is aligned to its *)
(* width, however the library cuts the access up.                           *)
Access(q) ==
    /\ (cfg' \ cfg) \cup (cfg \ cfg') \subseteq Asked(q)
    /\ q.kind \in {"read", "write"} =>
        /\ \A p \in Range(Pieces(q.at.off, q.size)) : p[1] % p[2] = 0
        /\ Len(q.data) = q.size
        /\ FunctionAt(Page(q.at)) # "none" /\ ~Ignored(q.at) =>
             \A i \in 1..q.size :
               \/ q.kind = "write" /\ q.at.off + i - 1 \in ReadOnly
               \/ q.data[i] = Load(cfg', FunctionAt(Page(q.at)), q.at.off + i - 1, 1)

PciAccessExact == [][pciReq' # pciReq => Access(pciReq')]_pciReq
==============================================================================
