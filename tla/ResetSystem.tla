----------------------------- MODULE ResetSystem -----------------------------
(***************************************************************************)
(* ResetSystemLib and the maskrom application: how the firmware ends.      *)
(***************************************************************************)
EXTENDS Soc

BootModeFlag == <<"PMU_GRF_OS_REG0">>
MaskromFlag == {31, 30, 29, 27, 26, 25, 24, 19, 15, 13, 10, 8, 5, 4, 3, 2}  \* 0xEF08A53C

\* A PSCI call or a write to the global reset register: nothing of the
\* firmware goes on.
ResetCold     == pc' = <<"Rom", "start">> /\ UNCHANGED regs
ResetWarm     == pc' = <<"Rom", "start">> /\ UNCHANGED regs
ResetShutdown == pc' = <<"Rom", "off">> /\ UNCHANGED regs

\* The data, which would say what kind, is not looked at.
ResetPlatformSpecific ==
    /\ regs' = MmioWrite(regs, BootModeFlag, MaskromFlag)
    /\ pc' = <<"Rom", "start">>

\* Another type returns to the caller.
ResetSystem(ResetType) ==
    \/ ResetType = "EfiResetWarm" /\ ResetWarm
    \/ ResetType = "EfiResetCold" /\ ResetCold
    \/ ResetType = "EfiResetShutdown" /\ ResetShutdown
    \/ ResetType = "EfiResetPlatformSpecific" /\ ResetPlatformSpecific
    \/ ResetType = "another" /\ UNCHANGED <<pc, regs>>

\* The boot option Maskrom.
UefiMain == ResetSystem("EfiResetPlatformSpecific")
==============================================================================
