----------------------------- MODULE PlatformBm -----------------------------
(***************************************************************************)
(* The platform's boot manager (Library/PlatformBootManagerLib), from one  *)
(* reset to the next: registering boot options and hot keys, connecting    *)
(* the devices of the boot discovery policy, capsules, and what happens    *)
(* when nothing boots.  Each write of a variable is a step, and the power  *)
(* may fail before any step; the variables survive that unless they are    *)
(* emulated in memory (PcdEmuVariableNvModeEnable).                        *)
(*                                                                         *)
(* External: the BDS core (the load options it keeps, and the loop that    *)
(* tries them in order), the variable store, capsules, and the user, who   *)
(* plugs devices while the power is off and changes the policy.            *)
(***************************************************************************)
EXTENDS Integers, Sequences, SequencesExt

CONSTANTS
  Devices,         \* devices that can hold an operating system
  NetDevices,      \* those that the network policy connects
  Bootable,        \* those that hold a system that starts
  MaxEvents        \* bound: power failures, failed writes and acts of the user

Policies == {"MINIMAL", "NET", "ALL"}
Apps == {"Menu", "SimpleInit", "Maskrom", "Shell"}

ASSUME BootAssumption ==
  /\ Devices \cap Apps = {}
  /\ NetDevices \subseteq Devices /\ Bootable \subseteq Devices
  /\ MaxEvents \in Nat

VARIABLES
  PcdEmuVariableNvModeEnable, PcdBootDiscoveryPolicy,  \* fixed by the build
  BootOrder,       \* Boot####: the options in order
  KeyOptions,      \* Key####: pairs of a key and an option
  policy,          \* BOOT_DISCOVERY_POLICY_VAR, "none" when it is not set
  policyOld,       \* BOOT_DISCOVERY_POLICY_OLD_VAR
  plugged,         \* the devices that are there
  connected,       \* those that the drivers have been connected to
  pc,
  todo,            \* options still to register in this phase
  capsules,        \* capsules in the HOB list: what will become of each
  NeedReset,
  OldBootOptionCount,
  tried,           \* how many options the BDS loop has tried
  dropped,         \* observed: the last refresh removed an option
  events

pcdVars == <<PcdEmuVariableNvModeEnable, PcdBootDiscoveryPolicy>>
nvVars == <<BootOrder, KeyOptions, policy, policyOld>>
worldVars == <<pcdVars, plugged, events>>
capsuleVars == <<capsules, NeedReset>>
unableVars == <<OldBootOptionCount, tried, dropped>>
vars == <<nvVars, worldVars, capsuleVars, unableVars, connected, pc, todo>>

-----------------------------------------------------------------------------
(* What is registered: an option, its key, and whether the key is added    *)
(* even if the option is there already.                                    *)

Option(o, k, always) == [option |-> o, key |-> k, always |-> always]

PlatformOptionsAndKeys ==
  <<Option("Menu", "F2", TRUE), Option("Menu", "Esc", TRUE),
    Option("SimpleInit", "F3", FALSE), Option("Maskrom", "F4", FALSE)>>
ShellOption == <<Option("Shell", "s", FALSE)>>

Keys == {"F2", "Esc", "F3", "F4", "s"}
Capsules == {<<>>, <<"applies">>, <<"applies", "fails">>}

Init ==
  /\ PcdEmuVariableNvModeEnable \in BOOLEAN /\ PcdBootDiscoveryPolicy \in Policies
  /\ BootOrder = <<>> /\ KeyOptions = {}
  /\ policy = "none" /\ policyOld = "none"
  /\ plugged \in SUBSET Devices
  /\ connected = {}
  /\ pc = "register" /\ todo = PlatformOptionsAndKeys
  /\ capsules \in Capsules /\ NeedReset = FALSE
  /\ OldBootOptionCount = 0 /\ tried = 0 /\ dropped = FALSE
  /\ events = 0

\* Something happens outside; it does so MaxEvents times.
Event == events < MaxEvents /\ events' = events + 1

\* BDS starts again, with PlatformBootManagerBeforeConsole.
StartBds ==
  /\ pc' = "register" /\ todo' = PlatformOptionsAndKeys
  /\ connected' = {}
  /\ NeedReset' = FALSE
  /\ OldBootOptionCount' = 0 /\ tried' = 0 /\ dropped' = FALSE
  /\ IF PcdEmuVariableNvModeEnable
       THEN BootOrder' = <<>> /\ KeyOptions' = {} /\ policy' = "none" /\ policyOld' = "none"
       ELSE UNCHANGED nvVars

ResetSystem == StartBds /\ capsules' = <<>> /\ UNCHANGED worldVars

-----------------------------------------------------------------------------
(* PlatformRegisterFvBootOption and PlatformRegisterOptionsAndKeys *)

\* Faulty variant: one option too many.
FaultOneMore ==
  /\ todo' = Tail(todo)
  /\ pc' = IF Len(todo) > 0 THEN "register"
           ELSE IF Head(todo) \in Range(ShellOption) THEN "boot" ELSE "policy"

\* The option at the head of the list is dealt with.
NextOption ==
  /\ todo' = Tail(todo)
  /\ pc' = IF Len(todo) > 1 THEN "register"
           ELSE IF Head(todo) \in Range(ShellOption) THEN "boot" ELSE "policy"

\* Faulty variant: the option is not looked for.
FaultNoFind ==
  /\ pc = "register"
  /\ BootOrder' = Append(BootOrder, Head(todo).option)
  /\ pc' = "key"
  /\ UNCHANGED <<todo, KeyOptions, policy, policyOld, worldVars, connected, capsuleVars, unableVars>>

\* Faulty variant: the key comes before its option.
FaultKeyFirst ==
  /\ pc = "register"
  /\ LET new == Head(todo)
     IN  IF <<new.key, new.option>> \in KeyOptions
           THEN /\ BootOrder' = IF new.option \in Range(BootOrder) THEN BootOrder
                                ELSE Append(BootOrder, new.option)
                /\ NextOption
                /\ UNCHANGED KeyOptions
           ELSE /\ KeyOptions' = KeyOptions \cup {<<new.key, new.option>>}
                /\ UNCHANGED <<BootOrder, todo, pc>>
  /\ UNCHANGED <<policy, policyOld, worldVars, connected, capsuleVars, unableVars>>

RegisterOption ==
  /\ pc = "register"
  /\ LET new == Head(todo)
     IN  \/ /\ new.option \notin Range(BootOrder)
            /\ BootOrder' = Append(BootOrder, new.option)
            /\ pc' = "key"
            /\ UNCHANGED todo
         \/ /\ new.option \in Range(BootOrder) /\ new.always
            /\ pc' = "key"
            /\ UNCHANGED <<BootOrder, todo>>
         \/ /\ new.option \in Range(BootOrder) /\ ~new.always
            /\ NextOption
            /\ UNCHANGED BootOrder
  /\ UNCHANGED <<KeyOptions, policy, policyOld, worldVars, connected, capsuleVars, unableVars>>

\* A key that is in use already stays with its option.
RegisterKey ==
  /\ pc = "key"
  /\ LET new == Head(todo)
     IN  IF \E old \in KeyOptions : old[1] = new.key
           THEN UNCHANGED KeyOptions
           ELSE KeyOptions' = KeyOptions \cup {<<new.key, new.option>>}
  /\ NextOption
  /\ UNCHANGED <<BootOrder, policy, policyOld, worldVars, connected, capsuleVars, unableVars>>

-----------------------------------------------------------------------------
(* BootDiscoveryPolicyHandler *)

DiscoveryPolicy == IF policy = "none" THEN PcdBootDiscoveryPolicy ELSE policy
DeviceClass == IF DiscoveryPolicy = "NET" THEN NetDevices ELSE Devices

\* The minimal policy, or an error: nothing is connected.
PolicyReturns ==
  /\ pc = "policy"
  /\ pc' = "capsules"
  /\ UNCHANGED <<nvVars, worldVars, connected, todo, capsuleVars, unableVars>>

\* Faulty variant: a policy that was never saved is not a change.
FaultNoFirstRefresh ==
  /\ pc = "policy" /\ DiscoveryPolicy # "MINIMAL"
  /\ connected' = plugged \cap DeviceClass
  /\ pc' = IF policyOld \notin {"none", DiscoveryPolicy} THEN "refresh" ELSE "capsules"
  /\ UNCHANGED <<nvVars, worldVars, todo, capsuleVars, unableVars>>

ConnectDeviceClass ==
  /\ pc = "policy" /\ DiscoveryPolicy # "MINIMAL"
  /\ connected' = plugged \cap DeviceClass
  /\ pc' = IF policyOld # DiscoveryPolicy THEN "refresh" ELSE "capsules"
  /\ UNCHANGED <<nvVars, worldVars, todo, capsuleVars, unableVars>>

\* The status is ignored: when the write fails the variable keeps its old value.
SetPolicyOld ==
  /\ pc = "setOld"
  /\ \/ policyOld' = DiscoveryPolicy /\ UNCHANGED events
     \/ Event /\ UNCHANGED policyOld
  /\ pc' = "capsules"
  /\ UNCHANGED <<BootOrder, KeyOptions, policy, pcdVars, plugged, connected, todo, capsuleVars, unableVars>>

(* EfiBootManagerRefreshAllBootOption, a variable at a time: options of    *)
(* devices that are not found go, new ones are added at the end.           *)

Stale == (Range(BootOrder) \cap Devices) \ connected
New == connected \ Range(BootOrder)

RefreshDelete ==
  /\ pc \in {"refresh", "refreshAll"}
  /\ \E i \in DOMAIN BootOrder :
       BootOrder[i] \in Stale /\ BootOrder' = RemoveAt(BootOrder, i)
  /\ dropped' = TRUE
  /\ UNCHANGED <<KeyOptions, policy, policyOld, worldVars, connected, pc, todo,
                 capsuleVars, OldBootOptionCount, tried>>

RefreshAdd ==
  /\ pc \in {"refresh", "refreshAll"} /\ Stale = {}
  /\ \E d \in New : BootOrder' = Append(BootOrder, d)
  /\ UNCHANGED <<KeyOptions, policy, policyOld, worldVars, connected, pc, todo,
                 capsuleVars, unableVars>>

RefreshEnds ==
  /\ pc \in {"refresh", "refreshAll"} /\ Stale = {} /\ New = {}
  /\ pc' = IF pc = "refresh" THEN "setOld" ELSE "compare"
  /\ UNCHANGED <<nvVars, worldVars, connected, todo, capsuleVars, unableVars>>

-----------------------------------------------------------------------------
(* HandleCapsules: the first failure ends it, and then nothing is reset. *)

CapsulesEnd ==
  /\ pc' = "register" /\ todo' = ShellOption
  /\ UNCHANGED <<nvVars, worldVars, connected, capsuleVars, unableVars>>

CapsuleApplies ==
  /\ pc = "capsules" /\ capsules # <<>> /\ Head(capsules) = "applies"
  /\ capsules' = Tail(capsules)
  /\ NeedReset' = TRUE
  /\ UNCHANGED <<nvVars, worldVars, connected, pc, todo, unableVars>>

CapsuleFails == pc = "capsules" /\ capsules # <<>> /\ Head(capsules) # "applies" /\ CapsulesEnd

CapsulesDone ==
  /\ pc = "capsules" /\ capsules = <<>>
  /\ IF NeedReset THEN ResetSystem ELSE CapsulesEnd

-----------------------------------------------------------------------------
(* The BDS loop, which passes over the menu and the shell *)

Current == BootOrder[tried + 1]

TryNext ==
  /\ pc = "boot" /\ tried < Len(BootOrder)
  /\ Current \notin plugged \cap Bootable
  /\ tried' = tried + 1
  /\ UNCHANGED <<nvVars, worldVars, connected, pc, todo, capsuleVars, OldBootOptionCount, dropped>>

\* Maskrom resets the board into its ROM loader; Simple Init may start a system.
Launch ==
  /\ pc = "boot" /\ tried < Len(BootOrder)
  /\ \/ Current = "Maskrom" /\ pc' = "maskrom"
     \/ Current \in (plugged \cap Bootable) \cup {"SimpleInit"} /\ pc' = "booted"
  /\ UNCHANGED <<nvVars, worldVars, connected, todo, capsuleVars, unableVars>>

(* PlatformBootManagerUnableToBoot *)

UnableToBoot ==
  /\ pc = "boot" /\ tried = Len(BootOrder)
  /\ OldBootOptionCount' = Len(BootOrder)
  /\ connected' = plugged
  /\ dropped' = FALSE
  /\ tried' = 0
  /\ pc' = "refreshAll"
  /\ UNCHANGED <<nvVars, worldVars, todo, capsuleVars>>

\* Faulty variant: unableToBoot resets with emulated variables too.
FaultResetsEmulated == Len(BootOrder) # OldBootOptionCount

\* Faulty variant: unableToBoot resets only when options went away.
FaultFewerOnly == ~PcdEmuVariableNvModeEnable /\ Len(BootOrder) < OldBootOptionCount

MustReset == ~PcdEmuVariableNvModeEnable /\ Len(BootOrder) # OldBootOptionCount

CompareCounts ==
  /\ pc = "compare"
  /\ \/ MustReset /\ ResetSystem
     \/ /\ ~MustReset
        /\ pc' = "menu"
        /\ UNCHANGED <<nvVars, worldVars, connected, todo, capsuleVars, unableVars>>

-----------------------------------------------------------------------------
(* What may happen outside *)

\* The power fails; while it is off, devices are plugged and removed.
PowerCycle ==
  /\ Event
  /\ plugged' \in SUBSET Devices
  /\ StartBds
  /\ capsules' = <<>>
  /\ UNCHANGED pcdVars

\* The operating system resets the machine and may leave capsules.
OsResets ==
  /\ Event
  /\ pc = "booted"
  /\ StartBds
  /\ capsules' \in Capsules
  /\ UNCHANGED <<pcdVars, plugged>>

UserSetsPolicy ==
  /\ Event
  /\ pc = "menu"
  /\ policy' \in Policies
  /\ UNCHANGED <<BootOrder, KeyOptions, policyOld, pcdVars, plugged, connected, pc, todo,
                 capsuleVars, unableVars>>

Firmware ==
  \/ RegisterOption \/ RegisterKey
  \/ PolicyReturns \/ ConnectDeviceClass \/ SetPolicyOld
  \/ RefreshDelete \/ RefreshAdd \/ RefreshEnds
  \/ CapsuleApplies \/ CapsuleFails \/ CapsulesDone
  \/ TryNext \/ Launch \/ UnableToBoot \/ CompareCounts

Next == Firmware \/ PowerCycle \/ OsResets \/ UserSetsPolicy

Spec == Init /\ [][Next]_vars

\* The processor goes on; what happens outside need not happen.
FairSpec == Spec /\ WF_vars(Firmware)

-----------------------------------------------------------------------------
(* Properties *)

TypeOK ==
  /\ PcdEmuVariableNvModeEnable \in BOOLEAN /\ PcdBootDiscoveryPolicy \in Policies
  /\ BootOrder \in Seq(Devices \cup Apps)
  /\ KeyOptions \subseteq Keys \X Apps
  /\ policy \in Policies \cup {"none"} /\ policyOld \in Policies \cup {"none"}
  /\ plugged \subseteq Devices /\ connected \subseteq plugged
  /\ pc \in {"register", "key", "policy", "refresh", "setOld", "capsules", "boot", "refreshAll",
             "compare", "menu", "booted", "maskrom"}
  /\ pc \in {"register", "key"} => todo # <<>>
  /\ todo \in Seq([option : Apps, key : Keys, always : BOOLEAN])
  /\ capsules \in Seq({"applies", "fails"}) /\ NeedReset \in BOOLEAN
  /\ OldBootOptionCount \in Nat /\ tried \in 0 .. Len(BootOrder)
  /\ dropped \in BOOLEAN /\ events \in 0 .. MaxEvents

(* An option is in the boot order once, however often the power fails      *)
(* between the write of an option and the rest of the work, and however    *)
(* often the options are registered and refreshed again.                   *)
NoDuplicates == IsInjective(BootOrder)

(* A hot key never starts an option that is not in the boot order: the     *)
(* option is written before its key, and no refresh takes it away.         *)
KeysHaveOptions == \A k \in KeyOptions : k[2] \in Range(BootOrder)

(* With emulated variables every device the policy has connected is in the *)
(* boot order when the boot loop begins: no refresh is left out, because   *)
(* the policy of the last one is forgotten together with its options.      *)
NewDevicesOffered ==
  (PcdEmuVariableNvModeEnable /\ pc = "boot" /\ tried = 0) => connected \subseteq Range(BootOrder)

(* The same for every build, as the comments at BootDiscoveryPolicyHandler *)
(* ("Then it refreshes Boot order for newly discovered boot device") and   *)
(* at its call say.                                                        *)
RefreshedForNew == (pc = "boot" /\ tried = 0) => connected \subseteq Range(BootOrder)

(* With persistent variables the user meets the menu only when no device   *)
(* that is there would boot, whatever the policy has connected and         *)
(* whatever was interrupted: the rest is found by UnableToBoot, and tried  *)
(* after its reset.  It compares numbers of options, so this holds only    *)
(* when its refresh has removed none.                                      *)
MenuIsLast ==
  (pc = "menu" /\ ~PcdEmuVariableNvModeEnable /\ ~dropped) => plugged \cap Bootable = {}

(* The machine comes to rest: the resets of UnableToBoot and of capsules   *)
(* do not go on for ever.                                                  *)
Settles == <>[](pc \in {"booted", "menu", "maskrom"})
=============================================================================
