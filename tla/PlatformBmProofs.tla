-------------------------- MODULE PlatformBmProofs --------------------------
(* Proofs about PlatformBm. *)
EXTENDS PlatformBm, TLAPS

Working == {"register", "key", "policy", "refresh", "setOld", "capsules", "refreshAll", "compare", "menu"}

(* The boot loop's position is used only by the boot loop; a refresh may   *)
(* shorten the order under it otherwise.                                   *)
TriedReset == pc \in Working => tried = 0

(* A key is written after its option, and the options registered here are  *)
(* not devices, so that no refresh removes them.                           *)
KeyAfterOption == pc = "key" => Head(todo).option \in Range(BootOrder)

(* In which of the two registrations the firmware is. *)
Early == \A i \in DOMAIN todo : todo[i].option # "Shell"
Late == todo = ShellOption
Phase == pc \in {"register", "key"} => Early \/ Late

(* With emulated variables the policy of the last refresh is not known     *)
(* before the refresh, and from its end on what is connected is offered.   *)
RefreshComes ==
  PcdEmuVariableNvModeEnable =>
    /\ (pc = "policy" \/ (pc \in {"register", "key"} /\ Early)) => policyOld = "none" /\ connected = {}
    /\ pc \in {"setOld", "capsules", "boot"} \/ (pc \in {"register", "key"} /\ Late)
         => connected \subseteq Range(BootOrder)

(* The boot loop has tried what is behind it, in vain. *)
TriedInVain == pc = "boot" => \A i \in 1 .. tried : BootOrder[i] \notin plugged \cap Bootable

(* UnableToBoot starts from an order of which nothing boots, and ends with *)
(* every device in it: if the number is the same nothing was added.        *)
CountsTell ==
  /\ pc \in {"refreshAll", "compare"} =>
       /\ connected = plugged
       /\ ~dropped => /\ Len(BootOrder) >= OldBootOptionCount
                      /\ Len(BootOrder) = OldBootOptionCount =>
                           Range(BootOrder) \cap plugged \cap Bootable = {}
  /\ pc = "compare" => plugged \subseteq Range(BootOrder)

IInv ==
  /\ TypeOK /\ TriedReset
  /\ NoDuplicates /\ KeysHaveOptions /\ KeyAfterOption
  /\ Phase /\ RefreshComes
  /\ TriedInVain /\ CountsTell /\ MenuIsLast

-----------------------------------------------------------------------------
(* What the two operations on the boot order do *)

\* An option is added at the end ...
LEMMA AppendFacts ==
  ASSUME NEW S, NEW s \in Seq(S), NEW e \in S
  PROVE  /\ Append(s, e) \in Seq(S)
         /\ Len(Append(s, e)) = Len(s) + 1
         /\ Range(Append(s, e)) = Range(s) \cup {e}
         /\ \A i \in DOMAIN s : Append(s, e)[i] = s[i]
         /\ IsInjective(s) /\ e \notin Range(s) => IsInjective(Append(s, e))
<1> DEFINE t == Append(s, e)
<1>1. t \in Seq(S) /\ Len(t) = Len(s) + 1
  OBVIOUS
<1>2. DOMAIN s = 1 .. Len(s) /\ DOMAIN t = 1 .. (Len(s) + 1) /\ Len(s) \in Nat
  BY <1>1
<1>3. \A i \in 1 .. Len(s) : t[i] = s[i]
  OBVIOUS
<1>4. t[Len(s) + 1] = e
  OBVIOUS
<1> HIDE DEF t
<1>5. Range(t) = Range(s) \cup {e}
  BY <1>2, <1>3, <1>4 DEF Range
<1>6. ASSUME IsInjective(s), e \notin Range(s) PROVE IsInjective(t)
  BY <1>2, <1>3, <1>4, <1>6 DEF IsInjective, Range
<1> QED
  BY <1>1, <1>2, <1>3, <1>5, <1>6 DEF t

\* ... or taken out of the middle.
LEMMA ConcatFacts ==
  ASSUME NEW S, NEW a \in Seq(S), NEW b \in Seq(S)
  PROVE  /\ a \o b \in Seq(S)
         /\ Len(a \o b) = Len(a) + Len(b)
         /\ \A j \in 1 .. (Len(a) + Len(b)) :
              (a \o b)[j] = IF j <= Len(a) THEN a[j] ELSE b[j - Len(a)]
OBVIOUS

LEMMA RemoveFacts ==
  ASSUME NEW S, NEW s \in Seq(S), NEW i \in DOMAIN s, IsInjective(s)
  PROVE  /\ RemoveAt(s, i) \in Seq(S)
         /\ Len(RemoveAt(s, i)) = Len(s) - 1
         /\ Range(RemoveAt(s, i)) = Range(s) \ {s[i]}
         /\ IsInjective(RemoveAt(s, i))
<1> DEFINE t == RemoveAt(s, i)
           a == SubSeq(s, 1, i - 1)
           b == SubSeq(s, i + 1, Len(s))
<1>1. Len(s) \in Nat /\ i \in 1 .. Len(s) /\ DOMAIN s = 1 .. Len(s)
  OBVIOUS
<1>2. a \in Seq(S) /\ Len(a) = i - 1 /\ \A j \in 1 .. (i - 1) : a[j] = s[j]
  BY <1>1
<1>3. /\ b \in Seq(S) /\ Len(b) = Len(s) - i
      /\ \A j \in 1 .. (Len(s) - i) : b[j] = s[j + i]
  BY <1>1
<1>t. t = a \o b
  BY DEF RemoveAt
<1> HIDE DEF a, b, t
<1>4. t \in Seq(S) /\ Len(t) = Len(s) - 1
  <2>1. a \o b \in Seq(S) /\ Len(a \o b) = Len(a) + Len(b)
    BY <1>2, <1>3, ConcatFacts
  <2> QED
    BY <1>1, <1>2, <1>3, <1>t, <2>1
<1>5. \A j \in 1 .. (Len(s) - 1) : t[j] = IF j < i THEN s[j] ELSE s[j + 1]
  <2>1. TAKE j \in 1 .. (Len(s) - 1)
  <2>2. t[j] = IF j <= i - 1 THEN a[j] ELSE b[j - (i - 1)]
    BY <1>1, <1>2, <1>3, <1>t, ConcatFacts
  <2>3. CASE j < i
    BY <1>1, <1>2, <2>2, <2>3
  <2>4. CASE ~(j < i)
    <3>1. j - (i - 1) \in 1 .. (Len(s) - i) /\ (j - (i - 1)) + i = j + 1
      BY <1>1, <2>4
    <3> QED
      BY <1>1, <1>3, <2>2, <2>4, <3>1
  <2> QED
    BY <2>3, <2>4
<1>6. DOMAIN t = 1 .. (Len(s) - 1)
  BY <1>4
<1>7. IsInjective(t)
  BY <1>1, <1>5, <1>6 DEF IsInjective
<1>8. ASSUME NEW x \in Range(t) PROVE x \in Range(s) /\ x # s[i]
  BY <1>1, <1>5, <1>6 DEF IsInjective, Range
<1>9. ASSUME NEW x \in Range(s), x # s[i] PROVE x \in Range(t)
  <2>1. PICK k \in 1 .. Len(s) : x = s[k]
    BY <1>1 DEF Range
  <2>2. CASE k < i
    BY <1>1, <1>5, <1>6, <2>1, <2>2 DEF Range
  <2>3. CASE k > i
    <3>1. k - 1 \in 1 .. (Len(s) - 1) /\ ~(k - 1 < i) /\ (k - 1) + 1 = k
      BY <1>1, <2>1, <2>3
    <3> QED
      BY <1>5, <1>6, <2>1, <3>1 DEF Range
  <2> QED
    BY <1>1, <1>9, <2>1, <2>2, <2>3
<1> QED
  BY <1>4, <1>7, <1>8, <1>9 DEF t

-----------------------------------------------------------------------------
(* The lists of options to register *)

OptionSet == [option : Apps, key : Keys, always : BOOLEAN]

LEMMA Lists ==
  /\ PlatformOptionsAndKeys \in Seq(OptionSet) /\ PlatformOptionsAndKeys # <<>>
  /\ \A i \in DOMAIN PlatformOptionsAndKeys : PlatformOptionsAndKeys[i].option # "Shell"
  /\ ShellOption \in Seq(OptionSet) /\ ShellOption # <<>>
  /\ Len(ShellOption) = 1 /\ Head(ShellOption).option = "Shell"
  /\ Range(ShellOption) = {Head(ShellOption)}
<1> DEFINE menu == Option("Menu", "F2", TRUE)
           menu2 == Option("Menu", "Esc", TRUE)
           simple == Option("SimpleInit", "F3", FALSE)
           rom == Option("Maskrom", "F4", FALSE)
           shell == Option("Shell", "s", FALSE)
<1>1. {menu, menu2, simple, rom, shell} \subseteq OptionSet
  BY DEF Option, OptionSet, Apps, Keys
<1>2. /\ menu.option = "Menu" /\ menu2.option = "Menu" /\ simple.option = "SimpleInit"
      /\ rom.option = "Maskrom" /\ shell.option = "Shell"
  BY DEF Option
<1>3. PlatformOptionsAndKeys = <<menu, menu2, simple, rom>> /\ ShellOption = <<shell>>
  BY DEF PlatformOptionsAndKeys, ShellOption
<1> HIDE DEF menu, menu2, simple, rom, shell
<1>4. <<menu, menu2, simple, rom>> \in Seq(OptionSet) /\ <<shell>> \in Seq(OptionSet)
  BY <1>1
<1>5. DOMAIN <<menu, menu2, simple, rom>> = 1 .. 4 /\ DOMAIN <<shell>> = 1 .. 1
  OBVIOUS
<1>6. \A i \in 1 .. 4 : <<menu, menu2, simple, rom>>[i].option # "Shell"
  BY <1>2
<1>7. <<shell>>[1] = shell /\ Len(<<shell>>) = 1 /\ Head(<<shell>>) = shell
  OBVIOUS
<1> QED
  BY <1>2, <1>3, <1>4, <1>5, <1>6, <1>7 DEF Range

\* An option of the first list is followed by another or by the policy,
\* the one of the second by the boot loop.
LEMMA OptionTaken ==
  ASSUME todo \in Seq(OptionSet), todo # <<>>, Early \/ Late, NextOption
  PROVE  /\ todo' \in Seq(OptionSet)
         /\ pc' \in {"register", "policy", "boot"}
         /\ pc' = "register" => Early /\ Early' /\ todo' # <<>>
         /\ pc' = "policy" => Early
         /\ pc' = "boot" => Late
<1>1. /\ Head(todo) \in OptionSet /\ Head(todo) = todo[1] /\ 1 \in DOMAIN todo
      /\ Len(todo) \in Nat /\ Len(todo) > 0
      /\ Tail(todo) \in Seq(OptionSet) /\ Len(Tail(todo)) = Len(todo) - 1
  OBVIOUS
<1>2. CASE Early /\ Len(todo) > 1
  <2>1. \A i \in DOMAIN Tail(todo) : i + 1 \in DOMAIN todo /\ Tail(todo)[i] = todo[i + 1]
    OBVIOUS
  <2>2. todo' = Tail(todo) /\ pc' = "register"
    BY <1>2 DEF NextOption
  <2>3. Tail(todo) # <<>>
    <3> DEFINE t == Tail(todo)
    <3>1. Len(<<>>) = 0
      OBVIOUS
    <3>2. Len(t) \in Nat /\ Len(t) > 0
      BY <1>1, <1>2
    <3> HIDE DEF t
    <3>3. t # <<>>
      BY <3>1, <3>2
    <3> QED
      BY <3>3 DEF t
  <2> QED
    BY <1>1, <1>2, <2>1, <2>2, <2>3 DEF Early
<1>3. CASE Early /\ ~(Len(todo) > 1)
  <2>1. Head(todo) \notin Range(ShellOption)
    BY <1>1, <1>3, Lists DEF Early
  <2> QED
    BY <1>1, <1>3, <2>1 DEF NextOption
<1>4. CASE Late
  BY <1>1, <1>4, Lists DEF NextOption, Late
<1> QED
  BY <1>2, <1>3, <1>4

-----------------------------------------------------------------------------
(* Every step keeps the invariant. *)

\* A reset keeps the variables or clears them all.
LEMMA StartInv ==
  ASSUME IInv, StartBds, UNCHANGED pcdVars, plugged' \subseteq Devices,
         capsules' \in Seq({"applies", "fails"}), events' \in 0 .. MaxEvents
  PROVE  IInv'
<1>0. Early'
  BY Lists DEF StartBds, Early
<1> USE DEF IInv, StartBds, nvVars
<1>1. BootOrder' = <<>> \/ BootOrder' = BootOrder
  OBVIOUS
<1>2. BootOrder' \in Seq(Devices \cup Apps)
  <2>1. <<>> \in Seq(Devices \cup Apps)
    OBVIOUS
  <2>2. BootOrder \in Seq(Devices \cup Apps)
    BY DEF TypeOK
  <2> QED
    BY <1>1, <2>1, <2>2
<1>3. TypeOK'
  <2>1. todo' \in Seq([option : Apps, key : Keys, always : BOOLEAN]) /\ todo' # <<>>
    BY Lists DEF OptionSet
  <2>2. tried' \in 0 .. Len(BootOrder')
    BY <1>2
  <2>3. KeyOptions' \subseteq Keys \X Apps
    BY DEF TypeOK
  <2>4. policy' \in Policies \cup {"none"} /\ policyOld' \in Policies \cup {"none"}
    BY DEF TypeOK
  <2>5. PcdEmuVariableNvModeEnable' \in BOOLEAN /\ PcdBootDiscoveryPolicy' \in Policies
    BY DEF TypeOK, pcdVars
  <2> QED
    BY <1>2, <2>1, <2>2, <2>3, <2>4, <2>5 DEF TypeOK
<1>4. (NoDuplicates /\ KeysHaveOptions)'
  <2>1. CASE BootOrder' = BootOrder /\ KeyOptions' = KeyOptions
    BY <2>1 DEF NoDuplicates, KeysHaveOptions
  <2>2. CASE BootOrder' = <<>> /\ KeyOptions' = {}
    BY <2>2 DEF NoDuplicates, KeysHaveOptions, IsInjective
  <2> QED
    BY <2>1, <2>2
<1>5. (TriedReset /\ KeyAfterOption /\ Phase)'
  BY <1>0 DEF TriedReset, KeyAfterOption, Phase
<1>6. RefreshComes'
  <2>1. ~Late'
    <3>1. todo' # <<>> /\ todo' \in Seq(OptionSet)
      BY Lists
    <3>2. 1 \in DOMAIN todo' /\ Head(todo') = todo'[1]
      BY <3>1
    <3> QED
      BY <1>0, <3>2, Lists DEF Early, Late
  <2> QED
    BY <2>1 DEF RefreshComes, pcdVars
<1>7. (TriedInVain /\ CountsTell /\ MenuIsLast)'
  BY DEF TriedInVain, CountsTell, MenuIsLast
<1> QED
  BY <1>3, <1>4, <1>5, <1>6, <1>7

LEMMA ResetInv == IInv /\ ResetSystem => IInv'
<1> SUFFICES ASSUME IInv, ResetSystem PROVE IInv'
  OBVIOUS
<1>1. capsules' \in Seq({"applies", "fails"})
  BY DEF ResetSystem
<1> QED
  BY <1>1, StartInv DEF ResetSystem, IInv, TypeOK, worldVars

LEMMA PolicyReturnsInv == IInv /\ PolicyReturns => IInv'
<1> SUFFICES ASSUME IInv, PolicyReturns PROVE IInv'
  OBVIOUS
<1> USE BootAssumption DEF IInv, PolicyReturns, pcdVars, nvVars, worldVars, capsuleVars, unableVars
<1>1. TypeOK'
  BY DEF TypeOK
<1>2. (TriedReset /\ NoDuplicates /\ KeysHaveOptions /\ KeyAfterOption /\ Phase)'
  BY DEF TriedReset, NoDuplicates, KeysHaveOptions, KeyAfterOption, Phase, Early, Late, Working
<1>3. RefreshComes'
  BY DEF TypeOK, RefreshComes
<1>4. (TriedInVain /\ CountsTell /\ MenuIsLast)'
  BY DEF TypeOK, TriedInVain, CountsTell, MenuIsLast, TriedReset, Working
<1> QED
  BY <1>1, <1>2, <1>3, <1>4

LEMMA ConnectDeviceClassInv == IInv /\ ConnectDeviceClass => IInv'
<1> SUFFICES ASSUME IInv, ConnectDeviceClass PROVE IInv'
  OBVIOUS
<1> USE BootAssumption DEF IInv, ConnectDeviceClass, pcdVars, nvVars, worldVars, capsuleVars, unableVars
<1>1. TypeOK'
  BY DEF TypeOK
<1>2. (TriedReset /\ NoDuplicates /\ KeysHaveOptions /\ KeyAfterOption /\ Phase)'
  BY DEF TriedReset, NoDuplicates, KeysHaveOptions, KeyAfterOption, Phase, Early, Late, Working
<1>3. RefreshComes'
  <2>1. DiscoveryPolicy # "none"
    BY DEF TypeOK, DiscoveryPolicy, Policies
  <2> QED
    BY <2>1 DEF RefreshComes
<1>4. (TriedInVain /\ CountsTell /\ MenuIsLast)'
  BY DEF TypeOK, TriedInVain, CountsTell, MenuIsLast, TriedReset, Working
<1> QED
  BY <1>1, <1>2, <1>3, <1>4

LEMMA SetPolicyOldInv == IInv /\ SetPolicyOld => IInv'
<1> SUFFICES ASSUME IInv, SetPolicyOld PROVE IInv'
  OBVIOUS
<1> USE BootAssumption DEF IInv, SetPolicyOld, pcdVars, nvVars, worldVars, capsuleVars, unableVars
<1>1. TypeOK'
  BY DEF TypeOK, DiscoveryPolicy, Event
<1>2. (TriedReset /\ NoDuplicates /\ KeysHaveOptions /\ KeyAfterOption /\ Phase)'
  BY DEF TriedReset, NoDuplicates, KeysHaveOptions, KeyAfterOption, Phase, Early, Late, Working
<1>3. RefreshComes'
  BY DEF TypeOK, RefreshComes
<1>4. (TriedInVain /\ CountsTell /\ MenuIsLast)'
  BY DEF TypeOK, TriedInVain, CountsTell, MenuIsLast, TriedReset, Working
<1> QED
  BY <1>1, <1>2, <1>3, <1>4

LEMMA RefreshEndsInv == IInv /\ RefreshEnds => IInv'
<1> SUFFICES ASSUME IInv, RefreshEnds PROVE IInv'
  OBVIOUS
<1> USE BootAssumption DEF IInv, RefreshEnds, pcdVars, nvVars, worldVars, capsuleVars, unableVars
<1>1. TypeOK'
  BY DEF TypeOK
<1>2. (TriedReset /\ NoDuplicates /\ KeysHaveOptions /\ KeyAfterOption /\ Phase)'
  BY DEF TriedReset, NoDuplicates, KeysHaveOptions, KeyAfterOption, Phase, Early, Late, Working
<1>3. RefreshComes'
  BY DEF TypeOK, RefreshComes, New
<1>4. (TriedInVain /\ CountsTell /\ MenuIsLast)'
  BY DEF TypeOK, TriedInVain, CountsTell, MenuIsLast, TriedReset, Working, New
<1> QED
  BY <1>1, <1>2, <1>3, <1>4

LEMMA CapsuleAppliesInv == IInv /\ CapsuleApplies => IInv'
<1> SUFFICES ASSUME IInv, CapsuleApplies PROVE IInv'
  OBVIOUS
<1> USE BootAssumption DEF IInv, CapsuleApplies, pcdVars, nvVars, worldVars, capsuleVars, unableVars
<1>1. TypeOK'
  BY DEF TypeOK
<1>2. (TriedReset /\ NoDuplicates /\ KeysHaveOptions /\ KeyAfterOption /\ Phase)'
  BY DEF TriedReset, NoDuplicates, KeysHaveOptions, KeyAfterOption, Phase, Early, Late, Working
<1>3. RefreshComes'
  BY DEF TypeOK, RefreshComes
<1>4. (TriedInVain /\ CountsTell /\ MenuIsLast)'
  BY DEF TypeOK, TriedInVain, CountsTell, MenuIsLast, TriedReset, Working
<1> QED
  BY <1>1, <1>2, <1>3, <1>4

LEMMA TryNextInv == IInv /\ TryNext => IInv'
<1> SUFFICES ASSUME IInv, TryNext PROVE IInv'
  OBVIOUS
<1> USE BootAssumption DEF IInv, TryNext, pcdVars, nvVars, worldVars, capsuleVars, unableVars
<1>1. TypeOK'
  BY DEF TypeOK
<1>2. (TriedReset /\ NoDuplicates /\ KeysHaveOptions /\ KeyAfterOption /\ Phase)'
  BY DEF TriedReset, NoDuplicates, KeysHaveOptions, KeyAfterOption, Phase, Early, Late, Working
<1>3. RefreshComes'
  BY DEF TypeOK, RefreshComes
<1>4. (TriedInVain /\ CountsTell /\ MenuIsLast)'
  BY DEF TypeOK, TriedInVain, CountsTell, MenuIsLast, TriedReset, Working, Current
<1> QED
  BY <1>1, <1>2, <1>3, <1>4

LEMMA LaunchInv == IInv /\ Launch => IInv'
<1> SUFFICES ASSUME IInv, Launch PROVE IInv'
  OBVIOUS
<1> USE BootAssumption DEF IInv, Launch, pcdVars, nvVars, worldVars, capsuleVars, unableVars
<1>1. TypeOK'
  BY DEF TypeOK
<1>2. (TriedReset /\ NoDuplicates /\ KeysHaveOptions /\ KeyAfterOption /\ Phase)'
  BY DEF TriedReset, NoDuplicates, KeysHaveOptions, KeyAfterOption, Phase, Early, Late, Working
<1>3. RefreshComes'
  BY DEF TypeOK, RefreshComes
<1>4. (TriedInVain /\ CountsTell /\ MenuIsLast)'
  BY DEF TypeOK, TriedInVain, CountsTell, MenuIsLast, TriedReset, Working
<1> QED
  BY <1>1, <1>2, <1>3, <1>4

LEMMA UnableToBootInv == IInv /\ UnableToBoot => IInv'
<1> SUFFICES ASSUME IInv, UnableToBoot PROVE IInv'
  OBVIOUS
<1> USE BootAssumption DEF IInv, UnableToBoot, pcdVars, nvVars, worldVars, capsuleVars, unableVars
<1>0. Len(BootOrder) \in Nat
  BY DEF TypeOK
<1>1. TypeOK'
  <2>1. tried' \in 0 .. Len(BootOrder') /\ OldBootOptionCount' \in Nat
    BY <1>0
  <2> QED
    BY <2>1 DEF TypeOK
<1>2. (TriedReset /\ NoDuplicates /\ KeysHaveOptions /\ KeyAfterOption /\ Phase)'
  BY DEF TriedReset, NoDuplicates, KeysHaveOptions, KeyAfterOption, Phase, Early, Late, Working
<1>3. RefreshComes'
  BY DEF TypeOK, RefreshComes
<1>4. (TriedInVain /\ CountsTell /\ MenuIsLast)'
  <2>1. Range(BootOrder) \cap plugged \cap Bootable = {}
    <3>1. DOMAIN BootOrder = 1 .. tried
      BY DEF TypeOK
    <3> QED
      BY <3>1 DEF TriedInVain, Range
  <2> QED
    BY <1>0, <2>1 DEF TriedInVain, CountsTell, MenuIsLast
<1> QED
  BY <1>1, <1>2, <1>3, <1>4

LEMMA UserSetsPolicyInv == IInv /\ UserSetsPolicy => IInv'
<1> SUFFICES ASSUME IInv, UserSetsPolicy PROVE IInv'
  OBVIOUS
<1> USE BootAssumption DEF IInv, UserSetsPolicy, pcdVars, nvVars, worldVars, capsuleVars, unableVars
<1>1. TypeOK'
  BY DEF TypeOK, Event
<1>2. (TriedReset /\ NoDuplicates /\ KeysHaveOptions /\ KeyAfterOption /\ Phase)'
  BY DEF TriedReset, NoDuplicates, KeysHaveOptions, KeyAfterOption, Phase, Early, Late, Working
<1>3. RefreshComes'
  BY DEF TypeOK, RefreshComes
<1>4. (TriedInVain /\ CountsTell /\ MenuIsLast)'
  BY DEF TypeOK, TriedInVain, CountsTell, MenuIsLast, TriedReset, Working
<1> QED
  BY <1>1, <1>2, <1>3, <1>4

\* The option goes to the end if it is new; either way it is there when its key is written.
LEMMA RegisterOptionInv == IInv /\ RegisterOption => IInv'
<1> SUFFICES ASSUME IInv, RegisterOption PROVE IInv'
  OBVIOUS
<1> USE DEF IInv, RegisterOption, pcdVars, worldVars, capsuleVars, unableVars
<1> DEFINE new == Head(todo).option
<1>1. todo \in Seq(OptionSet) /\ todo # <<>> /\ new \in Apps /\ (Early \/ Late)
  <2>1. todo \in Seq(OptionSet) /\ todo # <<>>
    BY DEF TypeOK, OptionSet
  <2>2. Head(todo) \in OptionSet
    BY <2>1
  <2> QED
    BY <2>1, <2>2 DEF OptionSet, Phase
<1>2. BootOrder \in Seq(Devices \cup Apps) /\ tried = 0 /\ Len(BootOrder) \in Nat
  BY DEF TypeOK, TriedReset, Working
<1>3. \/ new \notin Range(BootOrder) /\ BootOrder' = Append(BootOrder, new) /\ pc' = "key" /\ todo' = todo
      \/ new \in Range(BootOrder) /\ BootOrder' = BootOrder /\ pc' = "key" /\ todo' = todo
      \/ BootOrder' = BootOrder /\ NextOption
  OBVIOUS
<1>4. /\ BootOrder' \in Seq(Devices \cup Apps) /\ Len(BootOrder') \in Nat
      /\ Range(BootOrder) \subseteq Range(BootOrder')
      /\ NoDuplicates'
  <2>1. CASE new \notin Range(BootOrder) /\ BootOrder' = Append(BootOrder, new)
    <3>1. new \in Devices \cup Apps
      BY <1>1
    <3> QED
      BY <1>2, <2>1, <3>1, AppendFacts DEF NoDuplicates
  <2>2. CASE BootOrder' = BootOrder
    BY <1>2, <2>2 DEF NoDuplicates
  <2> QED
    BY <1>3, <2>1, <2>2
<1>5. /\ todo' \in Seq(OptionSet)
      /\ pc' \in {"key", "register", "policy", "boot"}
      /\ pc' \in {"key", "register"} => todo' # <<>> /\ ((Early /\ Early') \/ (Late /\ Late'))
      /\ pc' = "policy" => Early
      /\ pc' = "boot" => Late
  <2>1. CASE pc' = "key" /\ todo' = todo
    BY <1>1, <2>1 DEF Early, Late
  <2>2. CASE NextOption
    BY <1>1, <2>2, OptionTaken
  <2> QED
    BY <1>3, <2>1, <2>2
<1>6. TypeOK'
  <2>1. tried' \in 0 .. Len(BootOrder')
    BY <1>2, <1>4
  <2>2. pc' \in {"register", "key"} => todo' # <<>>
    BY <1>5
  <2> QED
    BY <1>4, <1>5, <2>1, <2>2 DEF TypeOK, OptionSet
<1>7. (TriedReset /\ KeysHaveOptions /\ Phase)'
  BY <1>2, <1>4, <1>5 DEF TriedReset, KeysHaveOptions, Phase
<1>8. KeyAfterOption'
  <2>1. CASE new \notin Range(BootOrder) /\ BootOrder' = Append(BootOrder, new) /\ todo' = todo
    <3>1. new \in Devices \cup Apps
      BY <1>1
    <3> QED
      BY <1>2, <2>1, <3>1, AppendFacts DEF KeyAfterOption
  <2>2. CASE new \in Range(BootOrder) /\ BootOrder' = BootOrder /\ todo' = todo
    BY <2>2 DEF KeyAfterOption
  <2>3. CASE NextOption
    BY <1>1, <2>3, OptionTaken DEF KeyAfterOption
  <2> QED
    BY <1>3, <2>1, <2>2, <2>3
<1>9. RefreshComes'
  <2>1. ~(Early' /\ Late')
    BY Lists DEF Early, Late
  <2> QED
    BY <1>4, <1>5, <2>1 DEF RefreshComes
<1>10. (TriedInVain /\ CountsTell /\ MenuIsLast)'
  BY <1>2, <1>5 DEF TriedInVain, CountsTell, MenuIsLast
<1> QED
  BY <1>4, <1>6, <1>7, <1>8, <1>9, <1>10

LEMMA RegisterKeyInv == IInv /\ RegisterKey => IInv'
<1> SUFFICES ASSUME IInv, RegisterKey PROVE IInv'
  OBVIOUS
<1> USE DEF IInv, RegisterKey, pcdVars, worldVars, capsuleVars, unableVars
<1> DEFINE new == Head(todo)
<1>1. todo \in Seq(OptionSet) /\ todo # <<>> /\ new \in OptionSet /\ (Early \/ Late)
  <2>1. todo \in Seq(OptionSet) /\ todo # <<>>
    BY DEF TypeOK, OptionSet
  <2> QED
    BY <2>1 DEF Phase
<1>2. /\ todo' \in Seq(OptionSet)
      /\ pc' \in {"register", "policy", "boot"}
      /\ pc' = "register" => Early /\ Early' /\ todo' # <<>>
      /\ pc' = "policy" => Early
      /\ pc' = "boot" => Late
  BY <1>1, OptionTaken
<1>3. KeyOptions' \subseteq Keys \X Apps /\ KeysHaveOptions'
  <2>1. new.key \in Keys /\ new.option \in Apps /\ new.option \in Range(BootOrder)
    BY <1>1 DEF OptionSet, KeyAfterOption
  <2>2. KeyOptions' \subseteq KeyOptions \cup {<<new.key, new.option>>}
    OBVIOUS
  <2>3. KeyOptions \subseteq Keys \X Apps
    BY DEF TypeOK
  <2>4. KeyOptions' \subseteq Keys \X Apps
    BY <2>1, <2>2, <2>3
  <2>5. \A k \in KeyOptions' : k[2] \in Range(BootOrder)
    BY <2>1, <2>2 DEF KeysHaveOptions
  <2> QED
    BY <2>4, <2>5 DEF KeysHaveOptions
<1>4. TypeOK'
  BY <1>2, <1>3 DEF TypeOK, OptionSet
<1>5. (TriedReset /\ NoDuplicates /\ KeyAfterOption /\ Phase)'
  BY <1>2 DEF TriedReset, NoDuplicates, KeyAfterOption, Phase, Working
<1>6. RefreshComes'
  <2>1. ~(Early' /\ Late')
    BY Lists DEF Early, Late
  <2> QED
    BY <1>2, <2>1 DEF RefreshComes
<1>7. (TriedInVain /\ CountsTell /\ MenuIsLast)'
  BY <1>2 DEF TriedInVain, CountsTell, MenuIsLast, TypeOK, TriedReset, Working
<1> QED
  BY <1>3, <1>4, <1>5, <1>6, <1>7

\* A refresh removes only devices, so no key loses its option; and it says that it did.
LEMMA RefreshDeleteInv == IInv /\ RefreshDelete => IInv'
<1> SUFFICES ASSUME IInv, RefreshDelete PROVE IInv'
  OBVIOUS
<1> USE DEF IInv, RefreshDelete, pcdVars, worldVars, capsuleVars, unableVars
<1>1. PICK i \in DOMAIN BootOrder : BootOrder[i] \in Stale /\ BootOrder' = RemoveAt(BootOrder, i)
  OBVIOUS
<1>2. BootOrder \in Seq(Devices \cup Apps) /\ IsInjective(BootOrder)
  BY DEF TypeOK, NoDuplicates
<1>3. /\ BootOrder' \in Seq(Devices \cup Apps)
      /\ Range(BootOrder') = Range(BootOrder) \ {BootOrder[i]}
      /\ IsInjective(BootOrder')
  BY <1>1, <1>2, RemoveFacts
<1>4. BootOrder[i] \in Devices /\ BootOrder[i] \notin connected /\ BootOrder[i] \notin Apps
  BY <1>1, BootAssumption DEF Stale
<1>5. tried = 0 /\ pc \in {"refresh", "refreshAll"}
  BY DEF TriedReset, Working
<1>6. TypeOK'
  <2>1. tried' \in 0 .. Len(BootOrder')
    BY <1>3, <1>5
  <2> QED
    BY <1>3, <2>1 DEF TypeOK
<1>7. (TriedReset /\ NoDuplicates /\ KeyAfterOption /\ Phase)'
  BY <1>3, <1>5 DEF TriedReset, NoDuplicates, KeyAfterOption, Phase
<1>8. KeysHaveOptions'
  <2>1. \A k \in KeyOptions : k[2] \in Apps
    BY DEF TypeOK
  <2> QED
    BY <1>3, <1>4, <2>1 DEF KeysHaveOptions
<1>9. (RefreshComes /\ TriedInVain /\ CountsTell /\ MenuIsLast)'
  BY <1>5 DEF RefreshComes, TriedInVain, CountsTell, MenuIsLast
<1> QED
  BY <1>6, <1>7, <1>8, <1>9

\* A new device makes the order longer.
LEMMA RefreshAddInv == IInv /\ RefreshAdd => IInv'
<1> SUFFICES ASSUME IInv, RefreshAdd PROVE IInv'
  OBVIOUS
<1> USE DEF IInv, RefreshAdd, pcdVars, worldVars, capsuleVars, unableVars
<1>1. PICK d \in New : BootOrder' = Append(BootOrder, d)
  OBVIOUS
<1>2. BootOrder \in Seq(Devices \cup Apps) /\ IsInjective(BootOrder)
  BY DEF TypeOK, NoDuplicates
<1>3. d \in Devices \cup Apps /\ d \notin Range(BootOrder)
  BY DEF New, TypeOK
<1>4. /\ BootOrder' \in Seq(Devices \cup Apps)
      /\ Len(BootOrder') = Len(BootOrder) + 1
      /\ Range(BootOrder') = Range(BootOrder) \cup {d}
      /\ IsInjective(BootOrder')
  BY <1>1, <1>2, <1>3, AppendFacts
<1>5. tried = 0 /\ pc \in {"refresh", "refreshAll"}
  BY DEF TriedReset, Working
<1>6. TypeOK'
  <2>1. tried' \in 0 .. Len(BootOrder')
    BY <1>4, <1>5
  <2> QED
    BY <1>4, <2>1 DEF TypeOK
<1>7. (TriedReset /\ NoDuplicates /\ KeyAfterOption /\ Phase /\ KeysHaveOptions)'
  BY <1>4, <1>5 DEF TriedReset, NoDuplicates, KeyAfterOption, Phase, KeysHaveOptions
<1>8. (RefreshComes /\ TriedInVain /\ MenuIsLast)'
  BY <1>5 DEF RefreshComes, TriedInVain, MenuIsLast
<1>9. CountsTell'
  <2>1. Len(BootOrder) \in Nat /\ OldBootOptionCount \in Nat
    BY <1>2 DEF TypeOK
  <2> QED
    BY <1>4, <1>5, <2>1 DEF CountsTell
<1> QED
  BY <1>6, <1>7, <1>8, <1>9

\* The shell is registered last.
LEMMA CapsulesEndInv == IInv /\ pc = "capsules" /\ CapsulesEnd => IInv'
<1> SUFFICES ASSUME IInv, pc = "capsules", CapsulesEnd PROVE IInv'
  OBVIOUS
<1> USE DEF IInv, CapsulesEnd, nvVars, pcdVars, worldVars, capsuleVars, unableVars
<1>1. Late' /\ ~Early' /\ todo' \in Seq(OptionSet) /\ todo' # <<>>
  BY Lists DEF Late, Early
<1>2. TypeOK'
  BY <1>1 DEF TypeOK, OptionSet
<1>3. (TriedReset /\ NoDuplicates /\ KeysHaveOptions /\ KeyAfterOption /\ Phase)'
  BY <1>1 DEF TriedReset, NoDuplicates, KeysHaveOptions, KeyAfterOption, Phase, Working
<1>4. (RefreshComes /\ TriedInVain /\ CountsTell /\ MenuIsLast)'
  BY <1>1 DEF RefreshComes, TriedInVain, CountsTell, MenuIsLast
<1> QED
  BY <1>2, <1>3, <1>4

LEMMA CompareCountsInv == IInv /\ CompareCounts => IInv'
<1> SUFFICES ASSUME IInv, CompareCounts PROVE IInv'
  OBVIOUS
<1>1. CASE ResetSystem
  BY <1>1, ResetInv
<1>2. CASE ~MustReset /\ pc' = "menu" /\ UNCHANGED <<nvVars, worldVars, connected, todo, capsuleVars, unableVars>>
  <2> USE <1>2 DEF IInv, CompareCounts, nvVars, pcdVars, worldVars, capsuleVars, unableVars
  <2>1. TypeOK'
    BY DEF TypeOK
  <2>2. (TriedReset /\ NoDuplicates /\ KeysHaveOptions /\ KeyAfterOption /\ Phase)'
    BY DEF TriedReset, NoDuplicates, KeysHaveOptions, KeyAfterOption, Phase, Working
  <2>3. (RefreshComes /\ TriedInVain /\ CountsTell)'
    BY DEF RefreshComes, TriedInVain, CountsTell
  <2>4. MenuIsLast'
    BY DEF MenuIsLast, CountsTell, MustReset
  <2> QED
    BY <2>1, <2>2, <2>3, <2>4
<1> QED
  BY <1>1, <1>2 DEF CompareCounts

LEMMA PowerCycleInv == IInv /\ PowerCycle => IInv'
<1> SUFFICES ASSUME IInv, PowerCycle PROVE IInv'
  OBVIOUS
<1>1. capsules' \in Seq({"applies", "fails"}) /\ plugged' \subseteq Devices
  BY DEF PowerCycle
<1>2. events' \in 0 .. MaxEvents
  BY BootAssumption DEF PowerCycle, Event, IInv, TypeOK
<1> QED
  BY <1>1, <1>2, StartInv DEF PowerCycle

LEMMA OsResetsInv == IInv /\ OsResets => IInv'
<1> SUFFICES ASSUME IInv, OsResets PROVE IInv'
  OBVIOUS
<1>1. capsules' \in Seq({"applies", "fails"})
  <2>1. /\ <<>> \in Seq({"applies", "fails"}) /\ <<"applies">> \in Seq({"applies", "fails"})
        /\ <<"applies", "fails">> \in Seq({"applies", "fails"})
    OBVIOUS
  <2> QED
    BY <2>1 DEF OsResets, Capsules
<1>2. events' \in 0 .. MaxEvents
  BY BootAssumption DEF OsResets, Event, IInv, TypeOK
<1> QED
  BY <1>1, <1>2, StartInv DEF OsResets, IInv, TypeOK

LEMMA InitInv == Init => IInv
<1> SUFFICES ASSUME Init PROVE IInv
  OBVIOUS
<1> USE DEF Init
<1>1. Early /\ todo \in Seq(OptionSet) /\ todo # <<>>
  BY Lists DEF Early
<1>2. ~Late
  BY <1>1, Lists DEF Early, Late
<1>3. capsules \in Seq({"applies", "fails"})
  <2>1. /\ <<>> \in Seq({"applies", "fails"}) /\ <<"applies">> \in Seq({"applies", "fails"})
        /\ <<"applies", "fails">> \in Seq({"applies", "fails"})
    OBVIOUS
  <2> QED
    BY <2>1 DEF Capsules
<1>4. TypeOK
  <2>1. BootOrder \in Seq(Devices \cup Apps) /\ Len(BootOrder) = 0
    OBVIOUS
  <2>2. tried \in 0 .. Len(BootOrder) /\ OldBootOptionCount \in Nat /\ events \in 0 .. MaxEvents
    BY <2>1, BootAssumption
  <2>3. KeyOptions \subseteq Keys \X Apps
    OBVIOUS
  <2> QED
    BY <1>1, <1>3, <2>1, <2>2, <2>3 DEF TypeOK, OptionSet
<1>5. TriedReset /\ NoDuplicates /\ KeysHaveOptions /\ KeyAfterOption /\ Phase
  BY <1>1 DEF TriedReset, NoDuplicates, IsInjective, KeysHaveOptions, KeyAfterOption, Phase
<1>6. RefreshComes /\ TriedInVain /\ CountsTell /\ MenuIsLast
  BY <1>2 DEF RefreshComes, TriedInVain, CountsTell, MenuIsLast
<1> QED
  BY <1>4, <1>5, <1>6 DEF IInv

LEMMA StutterInv == IInv /\ UNCHANGED vars => IInv'
<1> SUFFICES ASSUME IInv, UNCHANGED vars PROVE IInv'
  OBVIOUS
<1> USE DEF IInv, vars, nvVars, pcdVars, worldVars, capsuleVars, unableVars
<1>1. TypeOK'
  BY DEF TypeOK
<1>2. (TriedReset /\ NoDuplicates /\ KeysHaveOptions /\ KeyAfterOption /\ Phase)'
  BY DEF TriedReset, NoDuplicates, KeysHaveOptions, KeyAfterOption, Phase, Early, Late
<1>3. (RefreshComes /\ TriedInVain /\ CountsTell /\ MenuIsLast)'
  BY DEF RefreshComes, TriedInVain, CountsTell, MenuIsLast, Early, Late
<1> QED
  BY <1>1, <1>2, <1>3

LEMMA NextInv == IInv /\ [Next]_vars => IInv'
<1> SUFFICES ASSUME IInv, [Next]_vars PROVE IInv'
  OBVIOUS
<1>1. CASE RegisterOption \/ RegisterKey
  BY <1>1, RegisterOptionInv, RegisterKeyInv
<1>2. CASE PolicyReturns \/ ConnectDeviceClass \/ SetPolicyOld
  BY <1>2, PolicyReturnsInv, ConnectDeviceClassInv, SetPolicyOldInv
<1>3. CASE RefreshDelete \/ RefreshAdd \/ RefreshEnds
  BY <1>3, RefreshDeleteInv, RefreshAddInv, RefreshEndsInv
<1>4. CASE CapsuleApplies
  BY <1>4, CapsuleAppliesInv
<1>5. CASE CapsuleFails
  BY <1>5, CapsulesEndInv DEF CapsuleFails
<1>6. CASE CapsulesDone
  BY <1>6, CapsulesEndInv, ResetInv DEF CapsulesDone
<1>7. CASE TryNext \/ Launch \/ UnableToBoot \/ CompareCounts
  BY <1>7, TryNextInv, LaunchInv, UnableToBootInv, CompareCountsInv
<1>8. CASE PowerCycle \/ OsResets \/ UserSetsPolicy
  BY <1>8, PowerCycleInv, OsResetsInv, UserSetsPolicyInv
<1>9. CASE UNCHANGED vars
  BY <1>9, StutterInv
<1> QED
  BY <1>1, <1>2, <1>3, <1>4, <1>5, <1>6, <1>7, <1>8, <1>9 DEF Next, Firmware

-----------------------------------------------------------------------------

(* Every reachable state satisfies the invariant. *)
THEOREM Invariance == Spec => []IInv
BY InitInv, NextInv, PTL DEF Spec

(* Every variable keeps its type through all resets and power failures. *)
THEOREM TypeCorrect == Spec => []TypeOK
BY Invariance, PTL DEF IInv

(* No boot option is registered twice, whatever sequence of resets, power  *)
(* failures and refreshes the firmware goes through.                       *)
THEOREM OptionsOnce == Spec => []NoDuplicates
BY Invariance, PTL DEF IInv

(* A hot key always has its option in the boot order. *)
THEOREM KeysBacked == Spec => []KeysHaveOptions
BY Invariance, PTL DEF IInv

(* With emulated variables the boot loop begins with every device that the *)
(* discovery policy has connected.                                         *)
THEOREM DevicesOffered == Spec => []NewDevicesOffered
<1>1. IInv => NewDevicesOffered
  BY DEF IInv, RefreshComes, NewDevicesOffered
<1> QED
  BY <1>1, Invariance, PTL

(* With persistent variables the setup menu is reached only when none of   *)
(* the devices that are there would boot.                                  *)
THEOREM MenuLast == Spec => []MenuIsLast
BY Invariance, PTL DEF IInv
=============================================================================
