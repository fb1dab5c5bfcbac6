------------------------- MODULE MCSizesAndStrides -------------------------
EXTENDS SizesAndStrides, TLC

Symmetry == Permutations(Obj)

=============================================================================
