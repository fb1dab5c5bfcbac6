--------------------------- MODULE MCDeviceGuard ---------------------------
(* DeviceGuard on the two device types of the source.                       *)
EXTENDS DeviceGuard

CONSTANT CUDA

\* One CPU and two CUDA devices.
Count == [type \in DeviceType |-> IF type = CPU THEN 1 ELSE 2]

=============================================================================
