-------------------------- MODULE MCIntrusivePtr --------------------------
(* IntrusivePtr on small sets of threads, pointers and targets.            *)
EXTENDS IntrusivePtr, TLC

CONSTANTS t1, t2, t3, o1, o2, p1, p2, r1, r2, w1, w2, x1, x2

\* Pointers of a kind, threads and targets are interchangeable.
Symmetry ==
  Permutations(Thread) \cup Permutations(Object) \cup Permutations(Ptr)
    \cup Permutations(RawPtr) \cup Permutations(WeakPtr)
    \cup Permutations(RawWeakPtr)

=============================================================================
