---------------------------- MODULE DeviceGuard ----------------------------
(***************************************************************************)
(* c10/core/DeviceGuard.h and c10/core/impl/: guards that select a device  *)
(* and restore in their destructor what was selected before.  DeviceGuard, *)
(* InlineDeviceGuard<VirtualGuardImpl> and VirtualGuardImpl only forward   *)
(* to each other.                                                          *)
(*                                                                         *)
(* The implementations of DeviceGuardImplInterface are external.  The one  *)
(* of a device type has a selected device; exchangeDevice and setDevice    *)
(* throw without an effect for a device that does not exist.  What one     *)
(* does with a device of another type is not said anywhere: it ignores it, *)
(* selects its own device of that index, or throws.                        *)
(*                                                                         *)
(* Guards are local variables of nested blocks of one thread, and a block  *)
(* calls methods of its own guard only.  An implementation that is passed  *)
(* to a guard is one of the type of the device it is passed with, except   *)
(* where the code checks that.                                             *)
(***************************************************************************)
EXTENDS Integers, Sequences

CONSTANTS
  DeviceType,   \* the device types of the build
  CPU,          \* the one of them that has no device above 0
  DeviceCount,  \* devices of each type
  Registered,   \* types with an implementation in device_guard_impl_registry
  MaxDepth      \* bound of the model on nested guards

ASSUME TypeAssumption ==
  /\ CPU \in DeviceType /\ Registered \subseteq DeviceType
  /\ DeviceCount \in [DeviceType -> Nat \ {0}] /\ DeviceCount[CPU] = 1
ASSUME DepthAssumption == MaxDepth \in Nat

VARIABLES
  selected,  \* external: the index of the selected device of each type
  guards     \* the guards of the enclosing blocks, the innermost last

vars == <<selected, guards>>

Device(type, index) == [type |-> type, index |-> index]

\* What Device::validate() or, for the CPU, set_index() lets through, up to
\* one device too many.
Devices ==
  UNION {{Device(type, index) : index \in -1..DeviceCount[type]} :
         type \in DeviceType}

Exists(device) == device.index \in 0..(DeviceCount[device.type] - 1)

\* The members of a guard, and the history that the properties are about:
\* `entry' is what was selected when the guard began, `spoiled' the types
\* whose implementation has since been given a device of another type, and
\* `failed' says that a change of type threw.
Guard(impl, original, current, entry) ==
  [impl |-> impl, original_device |-> original, current_device |-> current,
   entry |-> entry, spoiled |-> {}, failed |-> FALSE]

Top == guards[Len(guards)]
Outer == SubSeq(guards, 1, Len(guards) - 1)
SetTop(g) == [guards EXCEPT ![Len(guards)] = g]

\* The values of `selected' when impl was made to select a device.
Select(impl, device) ==
  IF impl = device.type \/ device.index < DeviceCount[impl]
  THEN {[selected EXCEPT ![impl] = device.index]}
         \cup (IF impl = device.type THEN {} ELSE {selected})
  ELSE {selected}

\* reset_device(device) does more than select a device.
ChangesType(device) ==
  /\ guards # <<>>
  /\ device.index # -1 /\ device.type # Top.original_device.type

\* Nobody can tell any more what the guards in gs should restore for impl.
Spoil(gs, impl, device) ==
  IF impl = device.type THEN gs
  ELSE [i \in DOMAIN gs |-> [gs[i] EXCEPT !.spoiled = @ \cup {impl}]]

-----------------------------------------------------------------------------
Init ==
  /\ selected = [type \in DeviceType |-> 0]
  /\ guards = <<>>

\* The constructor: getDevice() for a device without an index, and otherwise
\* exchangeDevice().  If the look-up or the exchange throws there is no guard.
Construct(device) ==
  LET original == Device(device.type, selected[device.type]) IN
  /\ Len(guards) < MaxDepth
  /\ \/ /\ device.index = -1
        /\ guards' = Append(guards,
                       Guard(device.type, original, original, selected))
        /\ UNCHANGED selected
     \/ /\ Exists(device)
        /\ guards' = Append(guards,
                       Guard(device.type, original, device, selected))
        /\ selected' \in Select(device.type, device)

\* The destructor: uncheckedSetDevice().
Destruct ==
  /\ guards # <<>>
  /\ selected' \in Select(Top.impl, Top.original_device)
  /\ guards' = Spoil(Outer, Top.impl, Top.original_device)

\* Faulty: current_device_ is not assigned.
ResetSameTypeOnly(device) ==
  /\ guards # <<>>
  /\ device.index # -1 /\ device.type = Top.original_device.type
  /\ Top.impl = device.type /\ Exists(device)
  /\ selected' \in Select(Top.impl, device)
  /\ UNCHANGED guards

\* reset_device() to a device of the type that the guard restores, which is also
\* what set_index() does.  If setDevice throws nothing changes.
ResetSameType(device) ==
  /\ guards # <<>>
  /\ device.index # -1 /\ device.type = Top.original_device.type
  /\ Top.impl = device.type => Exists(device)
  /\ selected' \in Select(Top.impl, device)
  /\ guards' =
       Spoil(SetTop([Top EXCEPT !.current_device = device,
                                !.failed = Top.impl # device.type]),
             Top.impl, device)

\* Faulty: the old device is not restored.
ResetToOtherTypeOnly(device) ==
  /\ ChangesType(device) /\ Exists(device)
  /\ guards' = SetTop([Top EXCEPT
                  !.impl = device.type,
                  !.original_device = Device(device.type, selected[device.type]),
                  !.current_device = device, !.failed = FALSE])
  /\ selected' = [selected EXCEPT ![device.type] = device.index]

\* reset_device() to another type restores the old device, looks up an
\* implementation of the new type and exchanges the device.
ResetToOtherType(device) ==
  /\ ChangesType(device) /\ Exists(device)
  /\ \E restored \in Select(Top.impl, Top.original_device) :
       /\ guards' =
            Spoil(SetTop([Top EXCEPT
                    !.impl = device.type,
                    !.original_device = Device(device.type, restored[device.type]),
                    !.current_device = device, !.failed = FALSE]),
                  Top.impl, Top.original_device)
       /\ selected' = [restored EXCEPT ![device.type] = device.index]

\* The look-up throws: the guard keeps its members.
LookupThrows(device) ==
  /\ ChangesType(device) /\ device.type \notin Registered
  /\ selected' \in Select(Top.impl, Top.original_device)
  /\ guards' = Spoil(SetTop([Top EXCEPT !.failed = TRUE]),
                     Top.impl, Top.original_device)

\* The exchange throws: the implementation is new and the device to restore
\* is old.
ExchangeThrows(device) ==
  /\ ChangesType(device) /\ ~Exists(device)
  /\ selected' \in Select(Top.impl, Top.original_device)
  /\ guards' = Spoil(SetTop([Top EXCEPT !.impl = device.type, !.failed = TRUE]),
                     Top.impl, Top.original_device)

Next ==
  \/ Destruct
  \/ \E device \in Devices :
       \/ Construct(device) \/ ResetSameType(device) \/ ResetToOtherType(device)
       \/ LookupThrows(device) \/ ExchangeThrows(device)

Spec == Init /\ [][Next]_vars

-----------------------------------------------------------------------------
GuardRecord ==
  [impl : DeviceType,
   original_device : {d \in Devices : Exists(d)},
   current_device : {d \in Devices : d.index # -1},
   entry : [DeviceType -> Nat], spoiled : SUBSET DeviceType, failed : BOOLEAN]

TypeOK ==
  /\ selected \in [DeviceType -> Nat]
  /\ \A type \in DeviceType : selected[type] < DeviceCount[type]
  /\ guards \in Seq(GuardRecord)

\* When a guard ends, every type is back at the device that was selected when
\* the guard began, whatever it and the guards inside it were reset to and
\* whichever of these calls threw.  The exception are types whose
\* implementation was given a device of another type, which happens only
\* after an exchange threw half-way (InlineDeviceGuard.h:43, 62-65).
Restores ==
  [][Len(guards') < Len(guards) =>
       \A type \in DeviceType :
         \/ selected'[type] = Top.entry[type]
         \/ type \in Top.spoiled
         \/ type = Top.impl /\ type # Top.original_device.type]_vars

\* current_device() of the innermost guard is the device that is selected, also
\* when guards inside it ended, unless a change of its type threw since it was
\* last reset or its type was spoiled.
CurrentIsSelected ==
  guards # <<>> /\ ~Top.failed /\ Top.current_device.type \notin Top.spoiled =>
    selected[Top.current_device.type] = Top.current_device.index

\* What was selected at the place in the code where the block inside of guard
\* i is or begins.
Inside(i) == IF i = Len(guards) THEN selected ELSE guards[i + 1].entry

\* A guard g holds what its type was at, and all other types are where they
\* were when it began.  Its current device is the one selected inside of it, and
\* it asks only the implementation of the device that it restores, unless a
\* change of its type threw.
Sound(g, inside) ==
  /\ \A type \in DeviceType \ g.spoiled :
       IF type = g.original_device.type
       THEN /\ g.original_device.index = g.entry[type]
            /\ g.impl # type => inside[type] = g.entry[type]
       ELSE inside[type] = g.entry[type]
  /\ ~g.failed =>
       /\ g.impl = g.original_device.type
       /\ g.impl = g.current_device.type
       /\ g.impl \notin g.spoiled => inside[g.impl] = g.current_device.index

\* What is spoiled for a guard is so for those outside of it.
Nested ==
  \A i, j \in DOMAIN guards : i < j => guards[j].spoiled \subseteq guards[i].spoiled

\* The inductive invariant: the innermost guard is sound, and the others will be
\* when the guards inside of them have ended.
IInv == TypeOK /\ Nested /\ \A i \in DOMAIN guards : Sound(guards[i], Inside(i))

=============================================================================
