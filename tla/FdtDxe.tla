------------------------------- MODULE FdtDxe --------------------------------
(***************************************************************************)
(* FdtDxe: copies the device tree the loader passed, drops its memory node *)
(* and fixes its console, and hands it to the operating system.            *)
(***************************************************************************)
EXTENDS Soc

VARIABLES
    fdtBlob,     \* what is at PcdFdtBaseAddress: [valid, memory, stdout]
    mFdtImage,   \* "none", or the pages of the copy: "allocated", "freed"
    fdtTable     \* the installed configuration table: {} or {a tree}

fdtVars == <<fdtBlob, mFdtImage, fdtTable>>

\* `memory' counts the nodes of that name: the loader may add a second.
FdtInitial ==
    /\ fdtBlob \in [valid : BOOLEAN, memory : 0..2, stdout : {"none", "loader"}]
    /\ mFdtImage = "none" /\ fdtTable = {}

FAt(point) == pc = <<"FdtDxe", point>>

\* The first node only.
CleanMemoryNodes(t) == [t EXCEPT !.memory = IF @ > 0 THEN @ - 1 ELSE 0]

FixUartSpeed(t) == [t EXCEPT !.stdout = IF @ = "none" THEN @ ELSE "firmware"]

FdtRejected ==
    /\ FAt("entry") /\ ~fdtBlob.valid
    /\ pc' = <<"DxeCore", "failed">>
    /\ UNCHANGED fdtVars

FdtAllocate ==
    /\ FAt("entry") /\ fdtBlob.valid
    /\ \/ mFdtImage' = "allocated" /\ pc' = <<"FdtDxe", "open">>
       \/ mFdtImage' = "none" /\ pc' = <<"DxeCore", "failed">>
    /\ UNCHANGED <<fdtBlob, fdtTable>>

\* When the tree cannot be copied the status is still that of the allocation.
FdtOpen ==
    /\ FAt("open")
    /\ pc' \in {<<"FdtDxe", "install">>, <<"DxeCore", "loaded">>}
    /\ UNCHANGED fdtVars

\* Cleaning is best effort: either change may be left out.
FdtInstall ==
    /\ FAt("install")
    /\ \/ \E t \in {fdtBlob, CleanMemoryNodes(fdtBlob)} :
            fdtTable' \in {{t}, {FixUartSpeed(t)}}
          /\ mFdtImage' = mFdtImage /\ pc' = <<"DxeCore", "loaded">>
       \/ /\ mFdtImage' = "freed" /\ pc' = <<"DxeCore", "failed">>
          /\ UNCHANGED fdtTable
    /\ UNCHANGED fdtBlob

FdtStep == FdtRejected \/ FdtAllocate \/ FdtOpen \/ FdtInstall

------------------------------------------------------------------------------
FdtTypeOK ==
    /\ mFdtImage \in {"none", "allocated", "freed"}
    /\ fdtBlob.memory \in 0..2 /\ Cardinality(fdtTable) <= 1
==============================================================================
