--------------------------- MODULE MCMaybeOwned ---------------------------
(* MaybeOwned on small sets of objects and pointers.                        *)
EXTENDS MaybeOwned, TLC

\* Objects and pointers of a kind are interchangeable.
Symmetry ==
  Permutations(Object) \cup Permutations(Handle) \cup Permutations(Maybe)

=============================================================================
