------------------------------ MODULE MCDevice ------------------------------
(* Strings of five characters with digits to the base 4: three digits are   *)
(* enough for an int of 0..31 and an index of -4..3.  Devices and the table *)
(* of allocators have no state in common, so a behaviour is one of either.  *)
EXTENDS AllocatorRegistry

CONSTANTS a, b

\* The default allocator of the CPU, and two registrations for one type.
MCStatic ==
  {[type |-> CPU, alloc |-> a], [type |-> CUDA, alloc |-> a],
   [type |-> CUDA, alloc |-> b]}

vars == <<dvars, rvars>>

Init == DeviceInit /\ RegistryInit

Next ==
  \/ RegistryInit /\ DeviceNext /\ UNCHANGED rvars
  \/ DeviceInit /\ RegistryNext /\ UNCHANGED dvars

Spec == Init /\ [][Next]_vars

=============================================================================
