-------------------------------- MODULE Trng ---------------------------------
(***************************************************************************)
(* TrngDxe: the random number protocol.  Each start of the generator makes *)
(* eight words; a call starts it as often as it needs.  A start that does  *)
(* not end in time fails the call and leaves the generator enabled and     *)
(* running: it may end during a later call.                                *)
(***************************************************************************)
EXTENDS Soc, Sequences, Functions

CONSTANT RngLengths     \* the lengths asked for, one call each, in bytes

RngAssumption == RngLengths \in Seq(Nat)
ASSUME RngAssumption

VARIABLES
    rngCtl,     \* the bits of TRNG_RNG_CTL that matter: "ENABLE" and "START"
    rngDout,    \* the number of the run whose bits the DOUT registers hold
    rngRuns,    \* how many runs have ended
    rngCall,    \* the call under way or the last one
    rngCalls,   \* how many calls have been made
    rngGiven    \* the runs whose bits were handed out, in order

rngVars == <<rngCtl, rngDout, rngRuns, rngCall, rngCalls, rngGiven>>

WordsPerRun == 8

RngInitial ==
    /\ rngCtl = {} /\ rngDout = 0 /\ rngRuns = 0 /\ rngCalls = 0 /\ rngGiven = <<>>
    /\ rngCall = [left |-> 0, out |-> <<>>, status |-> "none"]

RngAt(point) == pc = <<"Trng", point>>

------------------------------------------------------------------------------
(* The driver. *)

\* TrngInit: the reset bit clears itself, or the driver does not load.
TrngInit ==
    /\ RngAt("entry")
    /\ pc' \in {<<"DxeCore", "loaded">>, <<"DxeCore", "failed">>}
    /\ UNCHANGED rngVars

\* TrngGetRNG: no bytes is an invalid request.
TrngGetRNG ==
    LET Length == RngLengths[rngCalls + 1]
    IN  /\ rngCalls < Len(RngLengths)
        /\ rngCalls' = rngCalls + 1
        /\ rngCall' = [left |-> Length, out |-> <<>>,
                       status |-> IF Length = 0 THEN "EFI_INVALID_PARAMETER" ELSE "busy"]
        /\ pc' = IF Length = 0 THEN pc ELSE <<"Trng", "start">>
        /\ UNCHANGED <<rngCtl, rngDout, rngRuns, rngGiven>>

TrngStart ==
    /\ RngAt("start")
    /\ rngCtl' = {"ENABLE", "START"}
    /\ pc' = <<"Trng", "poll">>
    /\ UNCHANGED <<rngDout, rngRuns, rngCall, rngCalls, rngGiven>>

\* Fault: the end of the time is taken for the end of the run.
FaultTimeIsEnough ==
    /\ RngAt("poll") /\ "START" \in rngCtl
    /\ rngCall' = [rngCall EXCEPT !.left = 0]
    /\ rngGiven' = Append(rngGiven, rngDout)
    /\ pc' = <<"Bds", "idle">>
    /\ UNCHANGED <<rngCtl, rngDout, rngRuns, rngCalls>>

TrngTimeout ==
    /\ RngAt("poll") /\ "START" \in rngCtl
    /\ rngCall' = [rngCall EXCEPT !.status = "EFI_DEVICE_ERROR"]
    /\ pc' = <<"Bds", "idle">>
    /\ UNCHANGED <<rngCtl, rngDout, rngRuns, rngCalls, rngGiven>>

\* The inner loop ends with the run's words or with the bytes that are wanted.
WordsTaken(left) ==
    IF left > 4 * WordsPerRun THEN WordsPerRun ELSE (left + 3) \div 4

WordCount(left, k) == IF left - 4 * (k - 1) < 4 THEN left - 4 * (k - 1) ELSE 4

TrngCopy ==
    LET words == [k \in 1..WordsTaken(rngCall.left) |->
                     [run |-> rngDout, word |-> k, bytes |-> WordCount(rngCall.left, k)]]
        left  == IF rngCall.left > 4 * WordsPerRun
                 THEN rngCall.left - 4 * WordsPerRun ELSE 0
    IN  /\ RngAt("poll") /\ "START" \notin rngCtl
        /\ rngCtl' = {}
        /\ rngCall' = [left |-> left, out |-> rngCall.out \o words,
                       status |-> IF left = 0 THEN EFI_SUCCESS ELSE "busy"]
        /\ pc' = IF left = 0 THEN <<"Bds", "idle">> ELSE <<"Trng", "start">>
        /\ rngGiven' = Append(rngGiven, rngDout)
        /\ UNCHANGED <<rngDout, rngRuns, rngCalls>>

\* The other algorithms and the null pointers, which change nothing, are left
\* out.
TrngStep == TrngInit \/ TrngStart \/ TrngTimeout \/ TrngCopy

------------------------------------------------------------------------------
(* The generator: a run ends, whoever started it. *)
HwTrng ==
    /\ {"ENABLE", "START"} \subseteq rngCtl
    /\ rngRuns' = rngRuns + 1 /\ rngDout' = rngRuns + 1
    /\ rngCtl' = rngCtl \ {"START"}
    /\ UNCHANGED <<rngCall, rngCalls, rngGiven, pc>>

------------------------------------------------------------------------------
RngTypeOK ==
    /\ rngCtl \subseteq {"ENABLE", "START"}
    /\ rngDout \in 0..rngRuns
    /\ rngCalls \in 0..Len(RngLengths)
    /\ rngGiven \in Seq(0..rngRuns)

(* A run of the generator is handed out once, to one pass of one call, also *)
(* when an earlier call gave up on it, and what the registers held before   *)
(* the generator first ran is never handed out.  A call that succeeds       *)
(* filled the whole buffer and no more, with bits no two parts of it share. *)
RunsOnce == IsInjective(rngGiven) /\ \A i \in DOMAIN rngGiven : rngGiven[i] # 0

Filled(out, Length) ==
    /\ 4 * (Len(out) - 1) < Length /\ Length <= 4 * Len(out)
    /\ \A i \in DOMAIN out :
         out[i].bytes = IF i < Len(out) THEN 4 ELSE Length - 4 * (Len(out) - 1)

Distinct(out) ==
    \A i, j \in DOMAIN out :
        out[i].run = out[j].run /\ out[i].word = out[j].word => i = j

FreshRandom ==
    /\ RunsOnce
    /\ rngCall.status = EFI_SUCCESS =>
         Filled(rngCall.out, RngLengths[rngCalls]) /\ Distinct(rngCall.out)
==============================================================================
