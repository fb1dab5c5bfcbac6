---------------------------- MODULE MCWeakReset ----------------------------
(* IntrusivePtrWeakReset with one thread, which is all it takes.            *)
EXTENDS IntrusivePtrWeakReset

CONSTANTS t1, o1, p1, w1

=============================================================================
