------------------------------ MODULE ArrayRef ------------------------------
(***************************************************************************)
(* c10/util/ArrayRef.h: a view of consecutive elements that another object *)
(* owns, [data, length].  An address is the buffer and a position in it;   *)
(* size_t wraps after SizeMax.                                             *)
(***************************************************************************)
EXTENDS Integers

CONSTANTS
  SizeMax,   \* the greatest size_t
  NULL

ASSUME SizeMaxAssumption == SizeMax \in Nat \ {0}

SizeT == 0..SizeMax
Wrap(n) == n % (SizeMax + 1)

Ref(data, length) == [data |-> data, length |-> length]

Advance(data, n) == IF n = 0 THEN data ELSE [data EXCEPT !.at = @ + n]

\* The checks of slice(); what fails them throws.
CanSlice(ref, N, M) == Wrap(N + M) <= ref.length
CanChop(ref, N) == N <= ref.length

slice(ref, N, M) == Ref(Advance(ref.data, N), M)
chop(ref, N) == slice(ref, N, ref.length - N)

=============================================================================
