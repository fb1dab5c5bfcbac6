------------------------- MODULE DeviceGuard_proofs -------------------------
(***************************************************************************)
(* For any device types, devices and depth of blocks: a guard restores     *)
(* what was selected when it began.                                        *)
(*                                                                         *)
(* What a call does to the innermost guard decides whether that guard      *)
(* stays sound; the guards outside of it lose at most one more type to the *)
(* spoiled ones, and when a guard ends the next one finds, in the types    *)
(* that are not spoiled, what it would have found when the guard began.    *)
(***************************************************************************)
EXTENDS DeviceGuard, SequenceTheorems, TLAPS

\* Devices that exist are devices, with an index below the count.
LEMMA DeviceFacts ==
  /\ \A device \in Devices : /\ device.type \in DeviceType
                             /\ device.index \in Int
                             /\ device.index # -1 => device.index \in Nat
                             /\ device = Device(device.type, device.index)
  /\ \A type \in DeviceType, k \in Nat :
       k < DeviceCount[type] => /\ Device(type, k) \in Devices
                                /\ Exists(Device(type, k))
  /\ \A device \in Devices :
       Exists(device) => /\ device.index \in Nat
                         /\ device.index < DeviceCount[device.type]
<1>1. \A type \in DeviceType : DeviceCount[type] \in Nat \ {0}
  BY TypeAssumption
<1>2. ASSUME NEW device \in Devices
      PROVE  /\ device.type \in DeviceType /\ device.index \in Int
             /\ device.index # -1 => device.index \in Nat
             /\ device = Device(device.type, device.index)
  <2>1. PICK type \in DeviceType :
          device \in {Device(type, index) : index \in -1..DeviceCount[type]}
    BY DEF Devices
  <2>2. PICK index \in -1..DeviceCount[type] : device = Device(type, index)
    BY <2>1
  <2>3. index \in Int /\ index >= -1
    BY <1>1, <2>2
  <2> QED
    BY <2>2, <2>3 DEF Device
<1>3. ASSUME NEW type \in DeviceType, NEW k \in Nat, k < DeviceCount[type]
      PROVE  Device(type, k) \in Devices /\ Exists(Device(type, k))
  <2>1. k \in -1..DeviceCount[type]
    BY <1>1, <1>3
  <2>2. k \in 0..(DeviceCount[type] - 1)
    BY <1>1, <1>3
  <2>3. Device(type, k).type = type /\ Device(type, k).index = k
    BY DEF Device
  <2> QED
    BY <2>1, <2>2, <2>3 DEF Devices, Exists
<1>4. ASSUME NEW device \in Devices, Exists(device)
      PROVE  device.index \in Nat /\ device.index < DeviceCount[device.type]
  BY <1>1, <1>2, <1>4 DEF Exists
<1> QED
  BY <1>2, <1>3, <1>4

\* A guard of which the type impl is spoiled, or none.
Spoilt(g, impl, device) ==
  IF impl = device.type THEN g ELSE [g EXCEPT !.spoiled = @ \cup {impl}]

\* Spoil works on each guard.
LEMMA SpoilGuards ==
  ASSUME NEW gs \in Seq(GuardRecord), NEW impl \in DeviceType, NEW device
  PROVE  /\ Spoil(gs, impl, device) \in Seq(GuardRecord)
         /\ Len(Spoil(gs, impl, device)) = Len(gs)
         /\ \A i \in 1..Len(gs) :
              Spoil(gs, impl, device)[i] = Spoilt(gs[i], impl, device)
<1>1. \A i \in 1..Len(gs) : gs[i] \in GuardRecord
  OBVIOUS
<1>2. CASE impl = device.type
  BY <1>2 DEF Spoil, Spoilt
<1>3. CASE impl # device.type
  <2> DEFINE f == [i \in 1..Len(gs) |-> [gs[i] EXCEPT !.spoiled = @ \cup {impl}]]
  <2>1. Spoil(gs, impl, device) = f
    BY <1>3 DEF Spoil
  <2>2. \A i \in 1..Len(gs) : f[i] \in GuardRecord
    BY <1>1 DEF GuardRecord
  <2>3. f \in Seq(GuardRecord) /\ Len(f) = Len(gs)
    BY <2>2
  <2> QED
    BY <1>3, <2>1, <2>3 DEF Spoilt
<1> QED
  BY <1>2, <1>3

-----------------------------------------------------------------------------
(* What an implementation selects.                                          *)

Selection(s) ==
  /\ s \in [DeviceType -> Nat]
  /\ \A type \in DeviceType : s[type] < DeviceCount[type]

\* Only the device of impl changes, to an existing one.
LEMMA SelectFacts ==
  ASSUME Selection(selected), NEW impl \in DeviceType, NEW device \in Devices,
         device.index # -1, impl = device.type => Exists(device),
         NEW s \in Select(impl, device)
  PROVE  /\ Selection(s)
         /\ \A type \in DeviceType : type # impl => s[type] = selected[type]
         /\ impl = device.type => s[impl] = device.index
<1>1. device.index \in Nat
  BY DeviceFacts
<1>2. CASE s = selected /\ impl # device.type
  BY <1>2
<1>3. CASE /\ s = [selected EXCEPT ![impl] = device.index]
           /\ impl = device.type \/ device.index < DeviceCount[impl]
  <2>1. device.index < DeviceCount[impl]
    BY <1>3, DeviceFacts
  <2>2. s \in [DeviceType -> Nat] /\ s[impl] = device.index
    BY <1>1, <1>3 DEF Selection
  <2>3. \A type \in DeviceType : type # impl => s[type] = selected[type]
    BY <1>3 DEF Selection
  <2> QED
    BY <2>1, <2>2, <2>3 DEF Selection
<1> QED
  BY <1>2, <1>3 DEF Select

\* What the implementation of a sound guard selects when it is given the device
\* to restore: what was selected when the guard began, apart from spoiled types.
LEMMA Restored ==
  ASSUME Selection(selected), NEW g \in GuardRecord, Sound(g, selected),
         NEW s \in Select(g.impl, g.original_device)
  PROVE  /\ Selection(s)
         /\ \A type \in DeviceType :
              type # g.impl => s[type] = selected[type]
         /\ \A type \in DeviceType \ g.spoiled :
              \/ s[type] = g.entry[type]
              \/ type = g.impl /\ type # g.original_device.type
<1>1. /\ g.impl \in DeviceType /\ g.original_device \in Devices
      /\ Exists(g.original_device)
  BY DEF GuardRecord
<1>2. g.original_device.index # -1
  BY <1>1, DeviceFacts
<1>3. /\ Selection(s)
      /\ \A type \in DeviceType : type # g.impl => s[type] = selected[type]
      /\ g.impl = g.original_device.type =>
           s[g.impl] = g.original_device.index
  BY <1>1, <1>2, SelectFacts
<1>4. ASSUME NEW type \in DeviceType \ g.spoiled
      PROVE  \/ s[type] = g.entry[type]
             \/ type = g.impl /\ type # g.original_device.type
  BY <1>3 DEF Sound
<1> QED
  BY <1>3, <1>4

-----------------------------------------------------------------------------
(* Sound guards.                                                            *)

LEMMA SpoiltFields ==
  ASSUME NEW g \in GuardRecord, NEW impl \in DeviceType, NEW device
  PROVE  /\ Spoilt(g, impl, device) \in GuardRecord
         /\ Spoilt(g, impl, device).impl = g.impl
         /\ Spoilt(g, impl, device).original_device = g.original_device
         /\ Spoilt(g, impl, device).current_device = g.current_device
         /\ Spoilt(g, impl, device).entry = g.entry
         /\ \A type : type \in Spoilt(g, impl, device).spoiled <=>
                       type \in g.spoiled \/ (type = impl /\ impl # device.type)
BY DEF Spoilt, GuardRecord

\* What Sound says of types and of the current device, with the exception of a
\* type that is being spoiled.
HoldsEntry(g, inside, type) ==
  IF type = g.original_device.type
  THEN /\ g.original_device.index = g.entry[type]
       /\ g.impl # type => inside[type] = g.entry[type]
  ELSE inside[type] = g.entry[type]

LEMMA SoundSpoilt ==
  ASSUME NEW g \in GuardRecord, NEW inside, NEW impl \in DeviceType, NEW device,
         \A type \in DeviceType \ g.spoiled :
           (type = impl /\ impl # device.type) \/ HoldsEntry(g, inside, type),
         ~g.failed =>
           /\ g.impl = g.original_device.type
           /\ g.impl = g.current_device.type
           /\ \/ g.impl \in g.spoiled
              \/ g.impl = impl /\ impl # device.type
              \/ inside[g.impl] = g.current_device.index
  PROVE  Sound(Spoilt(g, impl, device), inside)
<1> DEFINE h == Spoilt(g, impl, device)
<1>1. h.impl = g.impl /\ h.original_device = g.original_device
  BY DEF Spoilt, GuardRecord
<1>2. h.current_device = g.current_device /\ h.entry = g.entry
  BY DEF Spoilt, GuardRecord
<1>3. h.failed <=> g.failed
  BY DEF Spoilt, GuardRecord
<1>4. \A type : type \in h.spoiled <=>
        type \in g.spoiled \/ (type = impl /\ impl # device.type)
  BY SpoiltFields
<1>5. Sound(h, inside)
  <2> HIDE DEF h
  <2>1. ASSUME NEW type \in DeviceType \ h.spoiled
        PROVE  IF type = h.original_device.type
               THEN /\ h.original_device.index = h.entry[type]
                    /\ h.impl # type => inside[type] = h.entry[type]
               ELSE inside[type] = h.entry[type]
    BY <1>1, <1>2, <1>4 DEF HoldsEntry
  <2>2. ~h.failed =>
          /\ h.impl = h.original_device.type
          /\ h.impl = h.current_device.type
          /\ h.impl \notin h.spoiled => inside[h.impl] = h.current_device.index
    BY <1>1, <1>2, <1>3, <1>4
  <2> QED
    BY <2>1, <2>2 DEF Sound
<1> QED
  BY <1>5

\* A sound guard stays so when a type of it is spoiled.
LEMMA SpoiltSound ==
  ASSUME NEW g \in GuardRecord, NEW inside, Sound(g, inside),
         NEW impl \in DeviceType, NEW device
  PROVE  Sound(Spoilt(g, impl, device), inside)
<1>1. \A type \in DeviceType \ g.spoiled : HoldsEntry(g, inside, type)
  BY DEF Sound, HoldsEntry
<1>2. ~g.failed =>
        /\ g.impl = g.original_device.type
        /\ g.impl = g.current_device.type
        /\ g.impl \notin g.spoiled => inside[g.impl] = g.current_device.index
  BY DEF Sound
<1> QED
  BY <1>1, <1>2, SoundSpoilt

\* Guards are sound after a step when the innermost one is.
LEMMA InnermostDecides ==
  ASSUME IInv, guards # <<>>, NEW g \in GuardRecord,
         g.entry = Top.entry, g.spoiled = Top.spoiled,
         NEW impl \in DeviceType, NEW device,
         guards' = Spoil(SetTop(g), impl, device),
         Selection(selected'), Sound(Spoilt(g, impl, device), selected')
  PROVE  IInv' /\ Len(guards') >= Len(guards)
<1> DEFINE n == Len(guards)
<1>1. /\ guards \in Seq(GuardRecord) /\ n \in Nat \ {0}
      /\ \A i \in 1..n : guards[i] \in GuardRecord
  BY DEF IInv, TypeOK
<1>2. /\ SetTop(g) \in Seq(GuardRecord) /\ Len(SetTop(g)) = n
      /\ \A i \in 1..n : SetTop(g)[i] = IF i = n THEN g ELSE guards[i]
  BY <1>1 DEF SetTop
<1>3. /\ guards' \in Seq(GuardRecord) /\ Len(guards') = n
      /\ \A i \in 1..n : guards'[i] =
           Spoilt(IF i = n THEN g ELSE guards[i], impl, device)
  BY <1>2, SpoilGuards
<1>4. \A i \in 1..n : /\ guards'[i].entry = guards[i].entry
                      /\ \A type : type \in guards'[i].spoiled <=>
                           \/ type \in guards[i].spoiled
                           \/ type = impl /\ impl # device.type
  <2>1. ASSUME NEW i \in 1..n
        PROVE  /\ guards'[i].entry = guards[i].entry
               /\ \A type : type \in guards'[i].spoiled <=>
                    type \in guards[i].spoiled \/ (type = impl /\ impl # device.type)
    <3>1. PICK h \in GuardRecord : h = IF i = n THEN g ELSE guards[i]
      BY <1>1
    <3>2. h.entry = guards[i].entry /\ h.spoiled = guards[i].spoiled
      BY <3>1 DEF Top
    <3>3. guards'[i] = Spoilt(h, impl, device)
      BY <1>3, <3>1
    <3>4. Spoilt(h, impl, device).entry = h.entry
      BY SpoiltFields
    <3>5. \A type : type \in Spoilt(h, impl, device).spoiled <=>
            type \in h.spoiled \/ (type = impl /\ impl # device.type)
      BY SpoiltFields
    <3> QED
      BY <3>2, <3>3, <3>4, <3>5
  <2> QED
    BY <2>1
<1>5. TypeOK'
  BY <1>3 DEF TypeOK, Selection
<1>6. Nested'
  BY <1>1, <1>3, <1>4 DEF Nested, IInv
<1>7. ASSUME NEW i \in 1..n
      PROVE  Sound(guards'[i], IF i = n THEN selected' ELSE guards'[i + 1].entry)
  <2>1. CASE i = n
    BY <1>3, <2>1
  <2>2. CASE i # n
    <3>1. i + 1 \in 1..n
      BY <1>1, <2>2
    <3>2. Sound(guards[i], guards[i + 1].entry)
      BY <1>1, <2>2 DEF IInv, Inside
    <3>3. Sound(guards'[i], guards[i + 1].entry)
      BY <1>1, <1>3, <2>2, <3>2, SpoiltSound
    <3> QED
      BY <1>4, <2>2, <3>1, <3>3
  <2> QED
    BY <2>1, <2>2
<1>8. \A i \in DOMAIN guards' : Sound(guards'[i], Inside(i)')
  BY <1>1, <1>3, <1>7 DEF Inside
<1> QED
  BY <1>1, <1>3, <1>5, <1>6, <1>8 DEF IInv

\* The innermost guard finds what is selected.
LEMMA Innermost ==
  ASSUME IInv, guards # <<>>
  PROVE  /\ Len(guards) \in Nat \ {0}
         /\ Top \in GuardRecord /\ Selection(selected) /\ Sound(Top, selected)
         /\ Top.impl \in DeviceType /\ Top.original_device \in Devices
         /\ Exists(Top.original_device) /\ Top.original_device.index # -1
<1>1. guards \in Seq(GuardRecord) /\ Len(guards) \in Nat \ {0}
  BY DEF IInv, TypeOK
<1>2. Top \in GuardRecord
  BY <1>1 DEF Top
<1>3. Len(guards) \in DOMAIN guards
  BY <1>1
<1>4. Sound(Top, selected)
  BY <1>3 DEF IInv, Inside, Top
<1>5. /\ Top.impl \in DeviceType /\ Top.original_device \in Devices
      /\ Exists(Top.original_device)
  BY <1>2 DEF GuardRecord
<1> QED
  BY <1>1, <1>2, <1>4, <1>5, DeviceFacts DEF IInv, TypeOK, Selection

-----------------------------------------------------------------------------
(* The actions.                                                             *)

LEMMA ResetSameTypeInv ==
  ASSUME IInv, NEW device \in Devices, ResetSameType(device)
  PROVE  IInv' /\ Len(guards') >= Len(guards)
<1> DEFINE g == [Top EXCEPT !.current_device = device,
                            !.failed = Top.impl # device.type]
<1>1. /\ guards # <<>> /\ device.index # -1
      /\ device.type = Top.original_device.type
      /\ Top.impl = device.type => Exists(device)
      /\ selected' \in Select(Top.impl, device)
      /\ guards' = Spoil(SetTop(g), Top.impl, device)
  BY DEF ResetSameType
<1>2. /\ Selection(selected')
      /\ \A type \in DeviceType :
           type # Top.impl => selected'[type] = selected[type]
      /\ Top.impl = device.type => selected'[Top.impl] = device.index
  BY <1>1, Innermost, SelectFacts
<1>3. /\ Top \in GuardRecord /\ Top.impl \in DeviceType
      /\ Top.original_device \in Devices /\ Sound(Top, selected)
  BY <1>1, Innermost
<1>5. g \in GuardRecord
  BY <1>1, <1>3 DEF GuardRecord
<1>6. /\ g.impl = Top.impl /\ g.original_device = Top.original_device
      /\ g.entry = Top.entry /\ g.spoiled = Top.spoiled
      /\ g.current_device = device /\ (g.failed <=> Top.impl # device.type)
  BY <1>3 DEF GuardRecord
<1> HIDE DEF g
<1>7. ASSUME NEW type \in DeviceType \ g.spoiled,
             ~(type = Top.impl /\ Top.impl # device.type)
      PROVE  HoldsEntry(g, selected', type)
  BY <1>1, <1>2, <1>3, <1>6, <1>7 DEF HoldsEntry, Sound
<1>8. ~g.failed =>
        /\ g.impl = g.original_device.type
        /\ g.impl = g.current_device.type
        /\ g.impl \notin g.spoiled => selected'[g.impl] = g.current_device.index
  BY <1>1, <1>2, <1>6
<1>9. Sound(Spoilt(g, Top.impl, device), selected')
  BY <1>3, <1>5, <1>7, <1>8, SoundSpoilt
<1> QED
  BY <1>1, <1>2, <1>3, <1>5, <1>6, <1>9, InnermostDecides

\* Every failed change of type restores what the guard holds, as it does not
\* know what the implementation it asks does.
LEMMA FailedChangeInv ==
  ASSUME IInv, guards # <<>>, selected' \in Select(Top.impl, Top.original_device),
         NEW impl \in DeviceType,
         impl # Top.impl => impl # Top.original_device.type,
         guards' = Spoil(SetTop([Top EXCEPT !.impl = impl, !.failed = TRUE]),
                         Top.impl, Top.original_device)
  PROVE  IInv' /\ Len(guards') >= Len(guards)
<1> DEFINE g == [Top EXCEPT !.impl = impl, !.failed = TRUE]
<1>1. /\ Top \in GuardRecord /\ Top.impl \in DeviceType
      /\ Top.original_device \in Devices /\ Sound(Top, selected)
      /\ Selection(selected)
  BY Innermost
<1>2. /\ Selection(selected')
      /\ \A type \in DeviceType :
           type # Top.impl => selected'[type] = selected[type]
      /\ \A type \in DeviceType \ Top.spoiled :
           \/ selected'[type] = Top.entry[type]
           \/ type = Top.impl /\ type # Top.original_device.type
  BY <1>1, Restored
<1>3. g \in GuardRecord
  BY <1>1 DEF GuardRecord
<1>4. /\ g.impl = impl /\ g.original_device = Top.original_device
      /\ g.entry = Top.entry /\ g.spoiled = Top.spoiled /\ g.failed
  BY <1>1 DEF GuardRecord
<1> HIDE DEF g
<1>5. ASSUME NEW type \in DeviceType \ g.spoiled,
             ~(type = Top.impl /\ Top.impl # Top.original_device.type)
      PROVE  HoldsEntry(g, selected', type)
  <2>1. selected'[type] = Top.entry[type]
    BY <1>2, <1>4, <1>5
  <2>2. type = Top.original_device.type =>
          Top.original_device.index = Top.entry[type]
    BY <1>1, <1>4 DEF Sound
  <2> QED
    BY <1>4, <2>1, <2>2 DEF HoldsEntry
<1>6. Sound(Spoilt(g, Top.impl, Top.original_device), selected')
  BY <1>1, <1>3, <1>4, <1>5, SoundSpoilt
<1> QED
  BY <1>1, <1>2, <1>3, <1>4, <1>6, InnermostDecides DEF g

LEMMA LookupThrowsInv ==
  ASSUME IInv, NEW device \in Devices, LookupThrows(device)
  PROVE  IInv' /\ Len(guards') >= Len(guards)
<1>1. guards # <<>> /\ Top \in GuardRecord /\ Top.impl \in DeviceType
  BY Innermost DEF LookupThrows, ChangesType
<1>2. [Top EXCEPT !.failed = TRUE] = [Top EXCEPT !.impl = Top.impl, !.failed = TRUE]
  BY <1>1 DEF GuardRecord
<1> QED
  BY <1>1, <1>2, FailedChangeInv DEF LookupThrows

LEMMA ExchangeThrowsInv ==
  ASSUME IInv, NEW device \in Devices, ExchangeThrows(device)
  PROVE  IInv' /\ Len(guards') >= Len(guards)
<1>1. guards # <<>> /\ device.type \in DeviceType
  BY DeviceFacts DEF ExchangeThrows, ChangesType
<1> QED
  BY <1>1, FailedChangeInv DEF ExchangeThrows, ChangesType

LEMMA ResetToOtherTypeInv ==
  ASSUME IInv, NEW device \in Devices, ResetToOtherType(device)
  PROVE  IInv' /\ Len(guards') >= Len(guards)
<1>1. /\ guards # <<>> /\ device.type # Top.original_device.type
      /\ Exists(device) /\ device.index # -1
  BY DEF ResetToOtherType, ChangesType
<1>2. /\ Top \in GuardRecord /\ Top.impl \in DeviceType
      /\ Top.original_device \in Devices /\ Sound(Top, selected)
      /\ Selection(selected)
  BY <1>1, Innermost
<1>3. PICK restored \in Select(Top.impl, Top.original_device) :
        /\ guards' =
             Spoil(SetTop([Top EXCEPT
                     !.impl = device.type,
                     !.original_device = Device(device.type, restored[device.type]),
                     !.current_device = device, !.failed = FALSE]),
                   Top.impl, Top.original_device)
        /\ selected' = [restored EXCEPT ![device.type] = device.index]
  BY DEF ResetToOtherType
<1> DEFINE original == Device(device.type, restored[device.type])
           g == [Top EXCEPT !.impl = device.type, !.original_device = original,
                            !.current_device = device, !.failed = FALSE]
<1>4. /\ Selection(restored)
      /\ \A type \in DeviceType :
           type # Top.impl => restored[type] = selected[type]
      /\ \A type \in DeviceType \ Top.spoiled :
           \/ restored[type] = Top.entry[type]
           \/ type = Top.impl /\ type # Top.original_device.type
  BY <1>2, Restored
<1>5. /\ device.type \in DeviceType /\ device.index \in Nat
      /\ device.index < DeviceCount[device.type]
  BY <1>1, DeviceFacts
<1>6. Selection(selected')
  BY <1>3, <1>4, <1>5 DEF Selection
<1>7. /\ original \in Devices /\ Exists(original)
      /\ original.type = device.type /\ original.index = restored[device.type]
  <2>1. restored[device.type] \in Nat
    BY <1>4, <1>5 DEF Selection
  <2>2. restored[device.type] < DeviceCount[device.type]
    BY <1>4, <1>5 DEF Selection
  <2>3. original.type = device.type /\ original.index = restored[device.type]
    BY DEF Device
  <2> QED
    BY <1>5, <2>1, <2>2, <2>3, DeviceFacts
<1>8. /\ \A type \in DeviceType :
           type # device.type => selected'[type] = restored[type]
      /\ selected'[device.type] = device.index
  BY <1>3, <1>4, <1>5 DEF Selection
<1> HIDE DEF original
<1>9. g \in GuardRecord
  BY <1>1, <1>2, <1>5, <1>7 DEF GuardRecord
<1>10. /\ g.impl = device.type /\ g.original_device = original
       /\ g.entry = Top.entry /\ g.spoiled = Top.spoiled
       /\ g.current_device = device
  BY <1>2 DEF GuardRecord
<1>11. guards' = Spoil(SetTop(g), Top.impl, Top.original_device)
  BY <1>3 DEF original
<1> HIDE DEF g
<1>12. ASSUME NEW type \in DeviceType \ g.spoiled,
              ~(type = Top.impl /\ Top.impl # Top.original_device.type)
       PROVE  HoldsEntry(g, selected', type)
  <2>1. restored[type] = Top.entry[type]
    BY <1>4, <1>10, <1>12
  <2> QED
    BY <1>7, <1>8, <1>10, <2>1 DEF HoldsEntry
<1>13. /\ g.impl = g.original_device.type
       /\ g.impl = g.current_device.type
       /\ selected'[g.impl] = g.current_device.index
  BY <1>7, <1>8, <1>10
<1>14. Sound(Spoilt(g, Top.impl, Top.original_device), selected')
  BY <1>2, <1>9, <1>12, <1>13, SoundSpoilt
<1> QED
  BY <1>1, <1>2, <1>6, <1>9, <1>10, <1>11, <1>14, InnermostDecides

\* A new guard holds what is selected when it begins.
LEMMA BeginInv ==
  ASSUME IInv, NEW g \in GuardRecord, g.entry = selected, g.spoiled = {},
         guards' = Append(guards, g), Selection(selected'), Sound(g, selected')
  PROVE  IInv' /\ Len(guards') >= Len(guards)
<1> DEFINE n == Len(guards)
<1>1. guards \in Seq(GuardRecord) /\ n \in Nat
  BY DEF IInv, TypeOK
<1>2. /\ guards' \in Seq(GuardRecord) /\ Len(guards') = n + 1
      /\ \A i \in 1..n : guards'[i] = guards[i]
      /\ guards'[n + 1] = g
  BY <1>1
<1>3. TypeOK'
  BY <1>2 DEF TypeOK, Selection
<1>4. ASSUME NEW i \in 1..(n + 1), NEW j \in 1..(n + 1), i < j
      PROVE  guards'[j].spoiled \subseteq guards'[i].spoiled
  <2>1. CASE j = n + 1
    BY <1>2, <2>1
  <2>2. CASE j # n + 1
    <3>1. i \in 1..n /\ j \in 1..n
      BY <1>1, <1>4, <2>2
    <3> QED
      BY <1>1, <1>2, <1>4, <3>1 DEF IInv, Nested
  <2> QED
    BY <2>1, <2>2
<1>5. ASSUME NEW i \in 1..(n + 1)
      PROVE  Sound(guards'[i], IF i = n + 1 THEN selected' ELSE guards'[i + 1].entry)
  <2>1. CASE i = n + 1
    BY <1>2, <2>1
  <2>2. CASE i # n + 1
    <3>1. i \in 1..n
      BY <1>1, <2>2
    <3>2. Sound(guards[i], Inside(i))
      BY <1>1, <3>1 DEF IInv
    <3>3. Inside(i) = guards'[i + 1].entry
      <4>1. CASE i = n
        BY <1>2, <4>1 DEF Inside
      <4>2. CASE i # n
        <5>1. i + 1 \in 1..n
          BY <1>1, <3>1, <4>2
        <5> QED
          BY <1>2, <4>2, <5>1 DEF Inside
      <4> QED
        BY <4>1, <4>2
    <3> QED
      BY <1>2, <2>2, <3>1, <3>2, <3>3
  <2> QED
    BY <2>1, <2>2
<1>6. Nested'
  BY <1>1, <1>2, <1>4 DEF Nested
<1>7. \A i \in DOMAIN guards' : Sound(guards'[i], Inside(i)')
  BY <1>1, <1>2, <1>5 DEF Inside
<1> QED
  BY <1>1, <1>2, <1>3, <1>6, <1>7 DEF IInv

LEMMA ConstructInv ==
  ASSUME IInv, NEW device \in Devices, Construct(device)
  PROVE  IInv' /\ Len(guards') >= Len(guards)
<1> DEFINE type == device.type
           original == Device(type, selected[type])
<1>1. Selection(selected)
  BY DEF IInv, TypeOK, Selection
<1>2. type \in DeviceType /\ selected[type] \in Nat
  BY <1>1, DeviceFacts DEF Selection
<1>3. /\ original \in Devices /\ Exists(original)
      /\ original.type = type /\ original.index = selected[type]
  <2>1. selected[type] < DeviceCount[type]
    BY <1>1, <1>2 DEF Selection
  <2>2. original.type = type /\ original.index = selected[type]
    BY DEF Device
  <2> QED
    BY <1>2, <2>1, <2>2, DeviceFacts
<1>4. original.index # -1 /\ (Exists(device) => device.index # -1)
  BY <1>3, DeviceFacts
<1> HIDE DEF original
<1>5. ASSUME NEW current \in Devices, current.index # -1, current.type = type,
             guards' = Append(guards, Guard(type, original, current, selected)),
             Selection(selected'), selected'[type] = current.index,
             \A t \in DeviceType : t # type => selected'[t] = selected[t]
      PROVE  IInv' /\ Len(guards') >= Len(guards)
  <2> DEFINE g == Guard(type, original, current, selected)
  <2>1. g \in GuardRecord
    BY <1>1, <1>2, <1>3, <1>5 DEF Guard, GuardRecord, Selection
  <2>2. /\ g.impl = type /\ g.original_device = original
        /\ g.current_device = current /\ g.entry = selected /\ g.spoiled = {}
    BY DEF Guard
  <2>3. Sound(g, selected')
    <3> HIDE DEF g
    <3> QED
      BY <1>3, <1>5, <2>2 DEF Sound
  <2> QED
    BY <1>5, <2>1, <2>2, <2>3, BeginInv
<1>6. CASE /\ guards' = Append(guards, Guard(type, original, original, selected))
           /\ UNCHANGED selected
  BY <1>1, <1>3, <1>4, <1>5, <1>6
<1>7. CASE /\ Exists(device)
           /\ guards' = Append(guards, Guard(type, original, device, selected))
           /\ selected' \in Select(type, device)
  <2>1. /\ Selection(selected') /\ selected'[type] = device.index
        /\ \A t \in DeviceType : t # type => selected'[t] = selected[t]
    BY <1>1, <1>2, <1>4, <1>7, SelectFacts
  <2> QED
    BY <1>4, <1>5, <1>7, <2>1
<1> QED
  BY <1>6, <1>7 DEF Construct, original

\* The innermost guard ends.
LEMMA DestructInv ==
  ASSUME IInv, Destruct
  PROVE  IInv'
<1> DEFINE n == Len(guards)
           impl == Top.impl
           device == Top.original_device
<1>1. guards # <<>> /\ selected' \in Select(impl, device)
  BY DEF Destruct
<1>2. /\ guards \in Seq(GuardRecord) /\ n \in Nat \ {0}
      /\ Top \in GuardRecord /\ Selection(selected) /\ Sound(Top, selected)
      /\ impl \in DeviceType
      /\ \A i \in 1..n : guards[i] \in GuardRecord
  BY <1>1, Innermost DEF IInv, TypeOK
<1>3. /\ Selection(selected')
      /\ \A type \in DeviceType \ Top.spoiled :
           \/ selected'[type] = Top.entry[type]
           \/ type = impl /\ type # device.type
  BY <1>1, <1>2, Restored
<1>4. /\ Outer \in Seq(GuardRecord) /\ Len(Outer) = n - 1
      /\ \A i \in 1..(n - 1) : Outer[i] = guards[i]
  <2>1. n - 1 \in Nat /\ \A i \in 1..(n - 1) : guards[i] \in GuardRecord
    BY <1>2
  <2>2. /\ SubSeq(guards, 1, n - 1) \in Seq(GuardRecord)
        /\ Len(SubSeq(guards, 1, n - 1)) = IF 1 <= n - 1 THEN (n - 1) - 1 + 1 ELSE 0
        /\ \A i \in 1..((n - 1) - 1 + 1) :
             SubSeq(guards, 1, n - 1)[i] = guards[1 + i - 1]
    <3> HIDE DEF n
    <3> QED
      BY <2>1, SubSeqProperties
  <2>3. /\ Len(SubSeq(guards, 1, n - 1)) = n - 1
        /\ \A i \in 1..(n - 1) : SubSeq(guards, 1, n - 1)[i] = guards[i]
    <3> HIDE DEF n
    <3> QED
      BY <2>1, <2>2
  <2> QED
    BY <2>2, <2>3 DEF Outer
<1>5. /\ guards' \in Seq(GuardRecord) /\ Len(guards') = n - 1
      /\ \A i \in 1..(n - 1) : guards'[i] = Spoilt(guards[i], impl, device)
  BY <1>2, <1>4, SpoilGuards DEF Destruct
<1> HIDE DEF impl, device
<1>6. \A i \in 1..(n - 1) :
        /\ guards'[i].entry = guards[i].entry
        /\ \A type : type \in guards'[i].spoiled <=>
              \/ type \in guards[i].spoiled
              \/ type = impl /\ impl # device.type
  <2>1. ASSUME NEW g \in GuardRecord
        PROVE  /\ Spoilt(g, impl, device).entry = g.entry
               /\ \A type : type \in Spoilt(g, impl, device).spoiled <=>
                     \/ type \in g.spoiled
                     \/ type = impl /\ impl # device.type
    BY <1>2 DEF Spoilt, GuardRecord
  <2> QED
    BY <1>2, <1>5, <2>1
<1>7. TypeOK'
  BY <1>3, <1>5 DEF TypeOK, Selection
<1>8. Nested'
  BY <1>2, <1>5, <1>6 DEF Nested, IInv
<1>9. ASSUME NEW i \in 1..(n - 1)
      PROVE  Sound(guards'[i], IF i = n - 1 THEN selected' ELSE guards'[i + 1].entry)
  <2>1. i \in DOMAIN guards /\ i # n /\ guards[i] \in GuardRecord
    BY <1>2
  <2>2. Sound(guards[i], guards[i + 1].entry)
    BY <2>1 DEF IInv, Inside
  <2>3. CASE i # n - 1
    <3>1. i + 1 \in 1..(n - 1)
      BY <1>2, <2>3
    <3>2. Sound(guards'[i], guards[i + 1].entry)
      BY <1>2, <1>5, <2>1, <2>2, SpoiltSound
    <3> QED
      BY <1>6, <2>3, <3>1, <3>2
  <2>4. CASE i = n - 1
    <3>1. guards[i + 1] = Top
      BY <1>2, <2>4 DEF Top
    <3>2. Top.spoiled \subseteq guards[i].spoiled
      BY <1>2, <2>1, <2>4, <3>1 DEF IInv, Nested
    <3>3. ASSUME NEW type \in DeviceType \ guards[i].spoiled,
                 ~(type = impl /\ impl # device.type)
          PROVE  HoldsEntry(guards[i], selected', type)
      <4>1. selected'[type] = Top.entry[type]
        BY <1>3, <3>2, <3>3
      <4>2. HoldsEntry(guards[i], Top.entry, type)
        BY <2>2, <3>1, <3>3 DEF Sound, HoldsEntry
      <4> QED
        BY <4>1, <4>2 DEF HoldsEntry
    <3>4. ~guards[i].failed =>
            /\ guards[i].impl = guards[i].original_device.type
            /\ guards[i].impl = guards[i].current_device.type
            /\ \/ guards[i].impl \in guards[i].spoiled
               \/ Top.entry[guards[i].impl] = guards[i].current_device.index
      BY <2>2, <3>1 DEF Sound
    <3>5. guards[i].impl \in DeviceType
      BY <2>1 DEF GuardRecord
    <3>6. ~guards[i].failed =>
            \/ guards[i].impl \in guards[i].spoiled
            \/ guards[i].impl = impl /\ impl # device.type
            \/ selected'[guards[i].impl] = guards[i].current_device.index
      BY <1>3, <3>2, <3>4, <3>5
    <3>7. Sound(Spoilt(guards[i], impl, device), selected')
      BY <1>2, <2>1, <3>3, <3>4, <3>6, SoundSpoilt
    <3> QED
      BY <1>5, <2>4, <3>7
  <2> QED
    BY <2>3, <2>4
<1>10. \A i \in DOMAIN guards' : Sound(guards'[i], Inside(i)')
  BY <1>2, <1>5, <1>9 DEF Inside
<1> QED
  BY <1>7, <1>8, <1>10 DEF IInv

-----------------------------------------------------------------------------
LEMMA Initially == Init => IInv
<1> SUFFICES ASSUME Init PROVE IInv
  OBVIOUS
<1>1. TypeOK
  BY TypeAssumption DEF Init, TypeOK
<1>2. Len(guards) = 0 /\ DOMAIN guards = {}
  BY DEF Init
<1> QED
  BY <1>1, <1>2 DEF IInv, Nested

\* One step for each action.
LEMMA Preserved == IInv /\ [Next]_vars => IInv'
<1> SUFFICES ASSUME IInv, [Next]_vars PROVE IInv'
  OBVIOUS
<1>1. CASE UNCHANGED vars
  BY <1>1 DEF vars, IInv, TypeOK, Nested, Inside
<1>2. CASE Destruct
  BY <1>2, DestructInv
<1>3. ASSUME NEW device \in Devices, Construct(device)
      PROVE  IInv'
  BY <1>3, ConstructInv
<1>4. ASSUME NEW device \in Devices, ResetSameType(device)
      PROVE  IInv'
  BY <1>4, ResetSameTypeInv
<1>5. ASSUME NEW device \in Devices, ResetToOtherType(device)
      PROVE  IInv'
  BY <1>5, ResetToOtherTypeInv
<1>6. ASSUME NEW device \in Devices, LookupThrows(device)
      PROVE  IInv'
  BY <1>6, LookupThrowsInv
<1>7. ASSUME NEW device \in Devices, ExchangeThrows(device)
      PROVE  IInv'
  BY <1>7, ExchangeThrowsInv
<1> QED
  BY <1>1, <1>2, <1>3, <1>4, <1>5, <1>6, <1>7 DEF Next

\* The guards of all enclosing blocks hold what they have to restore.
THEOREM InductiveInvariant == Spec => []IInv
BY Initially, Preserved, PTL DEF Spec

\* What current_device() returns is what is selected, whatever guards have ended
\* since.
THEOREM CurrentDeviceIsSelected == Spec => []CurrentIsSelected
<1>1. IInv => CurrentIsSelected
  <2> SUFFICES ASSUME IInv, guards # <<>>
               PROVE  ~Top.failed /\ Top.current_device.type \notin Top.spoiled =>
                        selected[Top.current_device.type] = Top.current_device.index
    BY DEF CurrentIsSelected
  <2>1. Sound(Top, selected)
    BY Innermost
  <2> QED
    BY <2>1 DEF Sound
<1> QED
  BY <1>1, InductiveInvariant, PTL

\* A block that ends leaves every type as the guard found it, whatever it and the
\* blocks inside of it were reset to and whichever of these calls threw, apart
\* from types whose implementation was given a device of another type.
THEOREM GuardsRestore == Spec => Restores
<1> DEFINE Restoring ==
      Len(guards') < Len(guards) =>
        \A type \in DeviceType :
          \/ selected'[type] = Top.entry[type]
          \/ type \in Top.spoiled
          \/ type = Top.impl /\ type # Top.original_device.type
<1>1. IInv /\ Destruct => Restoring
  <2> SUFFICES ASSUME IInv, Destruct PROVE Restoring
    OBVIOUS
  <2>1. /\ guards # <<>> /\ selected' \in Select(Top.impl, Top.original_device)
    BY DEF Destruct
  <2>2. Top \in GuardRecord /\ Selection(selected) /\ Sound(Top, selected)
    BY <2>1, Innermost
  <2> QED
    BY <2>1, <2>2, Restored
<1>2. ASSUME IInv, IInv', Len(guards') >= Len(guards)
      PROVE  Restoring
  BY <1>2 DEF IInv, TypeOK
<1>3. IInv /\ IInv' /\ [Next]_vars => [Restoring]_vars
  <2> SUFFICES ASSUME IInv, IInv', Next PROVE Restoring
    OBVIOUS
  <2>1. ASSUME NEW device \in Devices,
               \/ Construct(device) \/ ResetSameType(device)
               \/ ResetToOtherType(device) \/ LookupThrows(device)
               \/ ExchangeThrows(device)
        PROVE  Len(guards') >= Len(guards)
    BY <2>1, ConstructInv, ResetSameTypeInv, ResetToOtherTypeInv,
       LookupThrowsInv, ExchangeThrowsInv
  <2> QED
    BY <1>1, <1>2, <2>1 DEF Next
<1>4. Spec => [][Restoring]_vars
  BY <1>3, InductiveInvariant, PTL DEF Spec
<1> QED
  BY <1>4 DEF Restores

=============================================================================
