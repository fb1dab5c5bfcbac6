----------------------------- MODULE Dimensions -----------------------------
(***************************************************************************)
(* What each call of SizesAndStrides promises, without its storage: an     *)
(* object has a number of dimensions, each with a size and a stride.       *)
(* Dimensions that are added are zero, whatever the object held before,    *)
(* the ones that stay keep what they have, what is set is what was given,  *)
(* and an object that was moved from has no dimensions.                    *)
(***************************************************************************)
EXTENDS Integers

CONSTANT Obj

VARIABLES
  rank,      \* number of dimensions
  sizes,     \* sizes[o][k] and strides[o][k] of dimension k, from 0
  strides

Put(o, n, newSizes, newStrides) ==
  /\ rank' = [rank EXCEPT ![o] = n]
  /\ sizes' = [sizes EXCEPT ![o] = newSizes]
  /\ strides' = [strides EXCEPT ![o] = newStrides]

\* An array made longer or shorter.
Fitted(array, old, n) == [k \in 0..(n - 1) |-> IF k < old THEN array[k] ELSE 0]

New(o) == Put(o, 1, [k \in 0..0 |-> 0], [k \in 0..0 |-> 1])

Init ==
  /\ rank = [o \in Obj |-> 1]
  /\ sizes = [o \in Obj |-> [k \in 0..0 |-> 0]]
  /\ strides = [o \in Obj |-> [k \in 0..0 |-> 1]]

Copy(o, p) == Put(o, rank[p], sizes[p], strides[p])

Move(o, p) ==
  /\ o # p
  /\ rank' = [rank EXCEPT ![o] = rank[p], ![p] = 0]
  /\ sizes' = [sizes EXCEPT ![o] = sizes[p], ![p] = [k \in 0..-1 |-> 0]]
  /\ strides' = [strides EXCEPT ![o] = strides[p], ![p] = [k \in 0..-1 |-> 0]]

Resize(o, n) ==
  Put(o, n, Fitted(sizes[o], rank[o], n), Fitted(strides[o], rank[o], n))

SetSizes(o, n, array) == Put(o, n, array, Fitted(strides[o], rank[o], n))

SetStrides(o, array) == Put(o, rank[o], sizes[o], array)

AssignSize(o, k, v) == Put(o, rank[o], [sizes[o] EXCEPT ![k] = v], strides[o])
AssignStride(o, k, v) == Put(o, rank[o], sizes[o], [strides[o] EXCEPT ![k] = v])

=============================================================================
