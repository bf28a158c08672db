--------------------------------- MODULE Soc ---------------------------------
(***************************************************************************)
(* What the drivers of the boot flow share: the processor's control point  *)
(* and the system-on-chip's register file.  A register is a name and its   *)
(* indices, e.g. <<"SOFTRST", 28>>; `regs' is the set of bits that are one, *)
(* each written <<register, bit>>.  MmioWrite32 to a register that has a   *)
(* write mask in its upper half is HiwordWrite; the rest of IoLib is the   *)
(* other two operators.                                                    *)
(***************************************************************************)
EXTENDS Integers, FiniteSets, FiniteSetsExt

VARIABLES
    pc,      \* <<driver, point>>: the one thread that runs before the OS
    regs     \* the bits of the registers that are set

EFI_SUCCESS == "EFI_SUCCESS"

\* The bits of the small number n, moved up by shift.
Bits(n, shift) == {shift + b : b \in {x \in 0..11 : (n \div 2^x) % 2 = 1}}

\* Fault: the upper half enables every bit.
FaultNoMask(r, reg, mask, bits) ==
    {x \in r : x[1] # reg} \cup ({reg} \X (bits \cap mask))

HiwordWrite(r, reg, mask, bits) ==
    (r \ ({reg} \X mask)) \cup ({reg} \X (bits \cap mask))

MmioWrite(r, reg, bits) == {x \in r : x[1] # reg} \cup ({reg} \X bits)

MmioAndThenOr(r, reg, clear, bits) ==
    (r \ ({reg} \X clear)) \cup ({reg} \X bits)

\* The number the bits lo..hi of a register hold.
Field(r, reg, lo, hi) ==
    MapThenSumSet(LAMBDA b : 2^(b - lo), {b \in lo..hi : <<reg, b>> \in r})
==============================================================================
