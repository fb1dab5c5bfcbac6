----------------------------- MODULE MCStorage -----------------------------
(* Storage on small sets of blocks, DataPtrs, storages and handles, which    *)
(* the configurations give.  There is no symmetry, as one of them checks     *)
(* liveness.                                                                 *)
EXTENDS Storage

=============================================================================
