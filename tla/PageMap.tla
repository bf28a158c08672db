------------------------------- MODULE PageMap -------------------------------
(***************************************************************************)
(* What the AArch64 page-table library promises its callers, with no page  *)
(* table in it: a map from pages to attributes that a call changes page    *)
(* by page, in address order, inside its own region and nowhere else.      *)
(* ArmMmu implements this specification.                                   *)
(***************************************************************************)
EXTENDS Integers

CONSTANTS
  Page,       \* page numbers, an interval that starts at 0
  Bits        \* attribute bits of a descriptor

VARIABLES
  map,        \* map[p]: is page p mapped, and with which attribute bits
  start,      \* first page of the region the current call has yet to change
  length,     \* how many pages that is; 0 when no call has work left
  change      \* the change the current call makes: [keep, set]

vars == <<map, start, length, change>>

Unmapped == [mapped |-> FALSE, bits |-> {}]

\* The attributes of a page once a change has been applied to it.
Changed(e, c) == [mapped |-> TRUE, bits |-> (e.bits \cap c.keep) \cup c.set]

Init ==
  /\ map = [p \in Page |-> Unmapped]
  /\ start = 0
  /\ length = 0
  /\ change = [keep |-> {}, set |-> {}]

\* A call is made; its region lies inside the address space.
Call ==
  /\ length = 0
  /\ length' \in Nat \ {0}
  /\ start' \in Page
  /\ start' + length' - 1 \in Page
  /\ change' \in [keep : SUBSET Bits, set : SUBSET Bits]
  /\ UNCHANGED map

\* The next few pages of the region change together.
Apply ==
  \E n \in 1 .. length :
    /\ map' = [p \in Page |->
                 IF p \in start .. start + n - 1 THEN Changed(map[p], change)
                                                 ELSE map[p]]
    /\ start' = start + n
    /\ length' = length - n
    /\ UNCHANGED change

\* The call gives up (no memory for a table): what it changed stays changed.
GiveUp ==
  /\ length # 0
  /\ length' = 0
  /\ UNCHANGED <<map, start, change>>

Next == Call \/ Apply \/ GiveUp

Spec == Init /\ [][Next]_vars
=============================================================================
