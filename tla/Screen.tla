------------------------------- MODULE Screen -------------------------------
(***************************************************************************)
(* What the user of the firmware sees and what its clients are promised:   *)
(* the screen is dark, blank or shows the picture of a client; only the    *)
(* holder of the graphics output protocol paints; and the protocol is      *)
(* offered, and withdrawn, with no picture on the screen.  The screen      *)
(* never shows what happened to be in memory.                              *)
(***************************************************************************)
VARIABLES offered,   \* the graphics output protocol is installed
          shown      \* on the screen

vars == <<offered, shown>>

TypeOK == offered \in BOOLEAN /\ shown \in {"dark", "blank", "picture"}

Init == ~offered /\ shown = "dark"

Blank == shown' = "blank" /\ UNCHANGED offered
Paint == offered /\ shown # "dark" /\ shown' = "picture" /\ UNCHANGED offered
Offer == ~offered /\ shown # "picture" /\ offered' /\ UNCHANGED shown
Withdraw == offered /\ shown # "picture" /\ ~offered' /\ UNCHANGED shown

Next == Blank \/ Paint \/ Offer \/ Withdraw

Spec == Init /\ [][Next]_vars
=============================================================================
