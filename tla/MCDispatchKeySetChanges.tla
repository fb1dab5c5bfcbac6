---------------------- MODULE MCDispatchKeySetChanges ----------------------
(* Two backends, and a functionality of its own after each of the two that  *)
(* exist for every backend.                                                 *)
EXTENDS DispatchKeySetChanges

=============================================================================
