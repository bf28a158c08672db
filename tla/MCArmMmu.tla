------------------------------ MODULE MCArmMmu ------------------------------
(* Instances of ArmMmu small enough for TLC. *)
EXTENDS ArmMmu

Region(b, n, a) == [base |-> b, length |-> n, attr |-> a]

\* Memory maps in the style of ArmPlatformGetVirtualMemoryMap: device space,
\* RAM over part of it, reserved pages inside the RAM.
MCMemoryTables ==
  {<<Region(0, 8, "DEVICE"), Region(0, 6, "WRITE_BACK"), Region(3, 1, "DEVICE")>>,
   <<Region(4, 4, "WRITE_BACK")>>}

MCGcd ==
  {[cache |-> "WB", xp |-> TRUE, ro |-> FALSE],
   [cache |-> "none", xp |-> FALSE, ro |-> TRUE]}

\* One root entry: four pages, for long sequences of calls.
MCMemoryTablesSmall ==
  {<<Region(0, 4, "WRITE_BACK"), Region(3, 1, "UNCACHED_UNBUFFERED")>>}

MCGcdAll ==
  {g \in [cache : {"UC", "WC", "WT", "WB", "none"}, xp : BOOLEAN, ro : BOOLEAN] :
     g.xp # g.ro}
=============================================================================
