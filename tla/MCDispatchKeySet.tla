-------------------------- MODULE MCDispatchKeySet --------------------------
(* The enumerations of the source: CPU, CUDA and Meta, and the keys from    *)
(* Undefined to AutocastCUDA.                                               *)
EXTENDS DispatchKeySetIterator

=============================================================================
