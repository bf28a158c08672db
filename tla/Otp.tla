--------------------------------- MODULE Otp ---------------------------------
(***************************************************************************)
(* OtpLib: a byte range of the one-time-programmable memory, read in       *)
(* 16-bit words.  One retry counter serves all the words of a call: it     *)
(* reaches zero once, wraps, and no later word can time out.  What a byte  *)
(* holds is its address, so that data says where it came from.             *)
(***************************************************************************)
EXTENDS Soc, Sequences

CONSTANT OtpRequests     \* the ranges asked for, as <<Offset, Length>>

OtpAssumption == \A q \in OtpRequests : q[1] \in Nat /\ q[2] \in Nat \ {0}
ASSUME OtpAssumption

VARIABLES
    userOp,      \* the word the controller is reading, NoWord if none
    userDone,    \* USER_DONE_INT_STATUS
    userQ,       \* OTPC_USER_Q: the word it read last
    otpCall      \* the call under way or the last one

otpVars == <<userOp, userDone, userQ, otpCall>>

NoWord == -1

OtpInitial ==
    /\ userOp = NoWord /\ userDone = FALSE /\ userQ = NoWord
    /\ otpCall = [offset |-> 0, length |-> 0, addr |-> 0, left |-> 0,
                  data |-> <<>>, retry |-> TRUE, timedOut |-> FALSE]

OtpAt(point) == pc = <<"Otp", point>>

CallOtp(offset, length) ==
    /\ otpCall' = [offset |-> offset, length |-> length, addr |-> offset \div 2,
                   left |-> length, data |-> <<>>, retry |-> TRUE, timedOut |-> FALSE]
    /\ pc' = <<"Otp", "ecc">>

\* The ECC command ends, or its own time-out ends the wait for it; the done
\* bit of an earlier read is not touched.
OtpDisableEcc ==
    /\ OtpAt("ecc")
    /\ pc' = <<"Otp", "issue">> /\ UNCHANGED otpVars

\* While a word that timed out is still being read the controller starts the
\* new word instead or keeps to the old one.
OtpIssue ==
    /\ OtpAt("issue")
    /\ userOp' \in {otpCall.addr} \cup ({userOp} \ {NoWord})
    /\ pc' = <<"Otp", "wait">>
    /\ UNCHANGED <<userDone, userQ, otpCall>>

OtpDone ==
    /\ OtpAt("wait") /\ userDone
    /\ pc' = <<"Otp", "collect">> /\ UNCHANGED otpVars

OtpTimeout ==
    /\ OtpAt("wait") /\ ~userDone /\ otpCall.retry
    /\ otpCall' = [otpCall EXCEPT !.retry = FALSE, !.timedOut = TRUE]
    /\ pc' = <<"Otp", "collect">>
    /\ UNCHANGED <<userOp, userDone, userQ>>

\* Fault: an odd offset is not looked at.
FaultEvenStart(w, left) ==
    IF left = 1 THEN <<2 * w>> ELSE <<2 * w, 2 * w + 1>>

\* Fault: a last byte takes a whole word.
FaultWholeWords(w, left) ==
    IF left = otpCall.length /\ otpCall.offset % 2 = 1 THEN <<2 * w + 1>>
    ELSE <<2 * w, 2 * w + 1>>

\* The bytes of the word w that a call takes with `left' bytes to go.
WordBytes(w, left) ==
    LET byte(k) == IF w = NoWord THEN NoWord ELSE 2 * w + k
    IN  IF left = otpCall.length /\ otpCall.offset % 2 = 1 THEN <<byte(1)>>
        ELSE IF left = 1 THEN <<byte(0)>>
        ELSE <<byte(0), byte(1)>>

\* Acknowledge, read OTPC_USER_Q and go on, whether the word came in or not.
OtpCollect ==
    LET bytes == WordBytes(userQ, otpCall.left)
        left  == otpCall.left - Len(bytes)
    IN  /\ OtpAt("collect")
        /\ userDone' = FALSE
        /\ otpCall' = [otpCall EXCEPT !.data = @ \o bytes, !.left = left,
                                      !.addr = @ + 1]
        /\ pc' = IF left = 0 THEN <<"BoardInitDxe", "mac">> ELSE <<"Otp", "issue">>
        /\ UNCHANGED <<userOp, userQ>>

OtpStep == OtpDisableEcc \/ OtpIssue \/ OtpDone \/ OtpTimeout \/ OtpCollect

HwOtp ==
    /\ userOp # NoWord
    /\ userQ' = userOp /\ userDone' = TRUE /\ userOp' = NoWord
    /\ UNCHANGED <<otpCall, pc>>

------------------------------------------------------------------------------
OtpTypeOK ==
    /\ userDone \in BOOLEAN
    /\ userOp \in Int /\ userQ \in Int
    /\ otpCall.left \in 0..otpCall.length
    /\ otpCall.retry \in BOOLEAN /\ otpCall.timedOut \in BOOLEAN

\* The bytes a request stands for.
OtpBytes(offset, length) == [i \in 1..length |-> offset + i - 1]

(* A read fills exactly the buffer it was given, from odd and even offsets, *)
(* and with exactly the bytes asked for, unless a word timed out: then it   *)
(* took the register's content of before for that word.                     *)
OtpExact ==
    pc[1] # "Otp" =>
        /\ Len(otpCall.data) = otpCall.length
        /\ ~otpCall.timedOut =>
             otpCall.data = OtpBytes(otpCall.offset, otpCall.length)
==============================================================================
