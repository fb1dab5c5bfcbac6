-------------------------- MODULE AllocatorRegistry --------------------------
(***************************************************************************)
(* The table of allocators of c10/core/Allocator.cpp: one for each type of *)
(* device, replaced by a registration of the same or a higher priority.    *)
(* REGISTER_ALLOCATOR registers from the constructors of static objects,   *)
(* in an order that the build decides, before, after and between the calls *)
(* that the program makes.                                                 *)
(***************************************************************************)
EXTENDS Device

CONSTANTS
  Allocator,
  Static,        \* static registrations, [type, alloc]
  MaxPriority,   \* the greatest uint8_t
  MaxCalls,      \* bound on the registrations
  NULL

ASSUME StaticAssumption == Static \subseteq [type : DeviceType, alloc : Allocator]
ASSUME PriorityAssumption == MaxPriority \in Nat
ASSUME NullAssumption == NULL \notin Allocator

VARIABLES
  allocator_array, allocator_priority,
  pending,    \* static objects that are not constructed yet
  calls       \* the registrations so far

rvars == <<allocator_array, allocator_priority, pending, calls>>

RegistryInit ==
  /\ allocator_array = [t \in DeviceType |-> NULL]
  /\ allocator_priority = [t \in DeviceType |-> 0]
  /\ pending = Static
  /\ calls = <<>>

\* Faulty: of equal priorities the first one stays.
SetAllocatorStrictly(t, alloc, priority) ==
  /\ calls' = Append(calls, [type |-> t, alloc |-> alloc, priority |-> priority])
  /\ IF priority > allocator_priority[t]
     THEN /\ allocator_array' = [allocator_array EXCEPT ![t] = alloc]
          /\ allocator_priority' = [allocator_priority EXCEPT ![t] = priority]
     ELSE UNCHANGED <<allocator_array, allocator_priority>>

SetAllocator(t, alloc, priority) ==
  /\ calls' = Append(calls, [type |-> t, alloc |-> alloc, priority |-> priority])
  /\ IF priority >= allocator_priority[t]
     THEN /\ allocator_array' = [allocator_array EXCEPT ![t] = alloc]
          /\ allocator_priority' = [allocator_priority EXCEPT ![t] = priority]
     ELSE UNCHANGED <<allocator_array, allocator_priority>>

\* NULL stands for the exception that there is no allocator.
GetAllocator(t) == allocator_array[t]

AllocatorRegisterer ==
  \E r \in pending :
    /\ SetAllocator(r.type, r.alloc, 0)
    /\ pending' = pending \ {r}

\* SetAllocator() and SetCPUAllocator(), also with a null pointer.
Call ==
  /\ Len(calls) < MaxCalls
  /\ \E t \in DeviceType, alloc \in Allocator \cup {NULL},
        priority \in 0..MaxPriority : SetAllocator(t, alloc, priority)
  /\ UNCHANGED pending

RegistryNext == AllocatorRegisterer \/ Call

RegistrySpec == RegistryInit /\ [][RegistryNext]_rvars

-----------------------------------------------------------------------------
(* Correctness.                                                             *)

Of(t) == {i \in DOMAIN calls : calls[i].type = t}
Outranks(i, j) ==
  \/ calls[i].priority > calls[j].priority
  \/ calls[i].priority = calls[j].priority /\ i >= j

\* Whatever the order was, the allocator of a type is the last one of those
\* that were registered with its highest priority, and a registration of a
\* priority of its own is not a matter of order (Allocator.cpp:30).
HighestWins ==
  \A t \in DeviceType :
    /\ Of(t) = {} => GetAllocator(t) = NULL
    /\ \A i \in Of(t) :
         (\A j \in Of(t) : Outranks(i, j)) => GetAllocator(t) = calls[i].alloc

\* The inductive invariant: the table holds one of the calls, which outranks
\* all others for its type, and no call has a priority that the table has not
\* seen.
RegistryTypeOK ==
  /\ calls \in Seq([type : DeviceType, alloc : Allocator \cup {NULL},
                    priority : 0..MaxPriority])
  /\ allocator_array \in [DeviceType -> Allocator \cup {NULL}]
  /\ allocator_priority \in [DeviceType -> 0..MaxPriority]
  /\ pending \subseteq Static
Holds(t, i) ==
  /\ \A j \in Of(t) : Outranks(i, j)
  /\ allocator_array[t] = calls[i].alloc
  /\ allocator_priority[t] = calls[i].priority
RegistryInv ==
  /\ RegistryTypeOK
  /\ \A t \in DeviceType :
       \/ Of(t) = {} /\ allocator_array[t] = NULL /\ allocator_priority[t] = 0
       \/ \E i \in Of(t) : Holds(t, i)

=============================================================================
