-------------------------- MODULE SizesAndStrides --------------------------
(***************************************************************************)
(* c10/core/SizesAndStrides.h: the sizes of a tensor's dimensions in the   *)
(* first half of an array, their strides in the second, and how many of    *)
(* the fixed number of places count.  The arrays that are assigned are     *)
(* vectors of the client, or views of the sizes or strides of an object,   *)
(* also of the one that is assigned to.                                    *)
(*                                                                         *)
(* The asserts are guards, as they end a debug build; the check of         *)
(* set_strides() throws before anything is changed.                        *)
(***************************************************************************)
EXTENDS ArrayRef

CONSTANTS
  Obj,        \* objects of class SizesAndStrides
  MAX_SIZE,   \* C10_SIZES_AND_STRIDES_MAX_SIZE: 10
  Number      \* int64_t

ASSUME MaxSizeAssumption ==
  MAX_SIZE \in Nat \ {0} /\ 2 * MAX_SIZE <= SizeMax
ASSUME NumberAssumption == {0, 1} \subseteq Number

VARIABLES size, storage

vars == <<size, storage>>

Place == 0..(2 * MAX_SIZE - 1)
Array(n) == [0..(n - 1) -> Number]

\* size_{1}, and storage_{} but for the stride of the first dimension.
Fresh == [i \in Place |-> IF i = MAX_SIZE THEN 1 ELSE 0]

Init ==
  /\ size = [o \in Obj |-> 1]
  /\ storage = [o \in Obj |-> Fresh]

\* An object ends and another takes its place.
Construct(o) ==
  /\ size' = [size EXCEPT ![o] = 1]
  /\ storage' = [storage EXCEPT ![o] = Fresh]

\* Copies are of the whole array, also of the places that do not count.
Copy(o, p) ==
  /\ o # p
  /\ size' = [size EXCEPT ![o] = size[p]]
  /\ storage' = [storage EXCEPT ![o] = storage[p]]

Move(o, p) ==
  /\ o # p
  /\ size' = [size EXCEPT ![o] = size[p], ![p] = 0]
  /\ storage' = [storage EXCEPT ![o] = storage[p]]

\* Faulty: only strides are cleared.
ZeroedStrides(array, old, n) ==
  [i \in Place |-> IF i - MAX_SIZE \in old..(n - 1) THEN 0 ELSE array[i]]

\* memset() of the places from old to n, of the sizes and of the strides.
Zeroed(array, old, n) ==
  [i \in Place |->
     IF i \in old..(n - 1) \/ i - MAX_SIZE \in old..(n - 1) THEN 0 ELSE array[i]]

\* Faulty: the old places are cleared as well.
ResizedFromStart(o, n) == [storage EXCEPT ![o] = Zeroed(@, 0, n)]

Resized(o, n) == [storage EXCEPT ![o] = Zeroed(@, size[o], n)]

resize(o, n) ==
  /\ n <= MAX_SIZE
  /\ size' = [size EXCEPT ![o] = n]
  /\ storage' = Resized(o, n)

-----------------------------------------------------------------------------
(* The arrays that are assigned.                                            *)

sizes_arrayref(o) == Ref([obj |-> o, at |-> 0], size[o])
strides_arrayref(o) == Ref([obj |-> o, at |-> MAX_SIZE], size[o])

\* The views of objects that a client can make of slices of these.
View ==
  UNION {{slice(ref, N, M) : N \in {n \in 0..MAX_SIZE : CanSlice(ref, n, M)}}
           : ref \in {sizes_arrayref(o) : o \in Obj}
                       \cup {strides_arrayref(o) : o \in Obj},
             M \in 0..MAX_SIZE}

Read(memory, view) ==
  [k \in 0..(view.length - 1) |-> memory[view.data.obj][view.data.at + k]]

\* std::copy() to the places from `first' on.
CopyTo(memory, o, first, n, array) ==
  [memory EXCEPT ![o] =
     [i \in Place |-> IF i - first \in 0..(n - 1) THEN array[i - first] ELSE @[i]]]

\* The array is read and written after the object was resized.
SizesSet(o, n, array) == CopyTo(Resized(o, n), o, 0, n, array)
StridesSet(o, n, array) == CopyTo(storage, o, MAX_SIZE, n, array)
SizesFrom(o, view) ==
  SizesSet(o, view.length, Read(Resized(o, view.length), view))
StridesFrom(o, view) == StridesSet(o, view.length, Read(storage, view))

set_sizes(o, n, array) ==
  /\ n <= MAX_SIZE
  /\ size' = [size EXCEPT ![o] = n]
  /\ storage' = SizesSet(o, n, array)

set_sizes_view(o, view) ==
  /\ view.length <= MAX_SIZE
  /\ size' = [size EXCEPT ![o] = view.length]
  /\ storage' = SizesFrom(o, view)

set_strides(o, n, array) ==
  /\ n = size[o]
  /\ UNCHANGED size
  /\ storage' = StridesSet(o, n, array)

set_strides_view(o, view) ==
  /\ view.length = size[o]
  /\ UNCHANGED size
  /\ storage' = StridesFrom(o, view)

\* Assignments to size_at(), stride_at() and through the iterators.
Assign(o, i, v) ==
  /\ i \in 0..(size[o] - 1) \/ i - MAX_SIZE \in 0..(size[o] - 1)
  /\ UNCHANGED size
  /\ storage' = [storage EXCEPT ![o][i] = v]

Next ==
  \E o \in Obj :
    \/ Construct(o)
    \/ \E p \in Obj : Copy(o, p) \/ Move(o, p)
    \/ \E n \in 0..MAX_SIZE :
         \/ resize(o, n)
         \/ \E array \in Array(n) : set_sizes(o, n, array) \/ set_strides(o, n, array)
    \/ \E view \in View : set_sizes_view(o, view) \/ set_strides_view(o, view)
    \/ \E i \in Place, v \in Number : Assign(o, i, v)

Spec == Init /\ [][Next]_vars

-----------------------------------------------------------------------------
(* Correctness.                                                             *)

TypeOK ==
  /\ size \in [Obj -> 0..MAX_SIZE]
  /\ storage \in [Obj -> [Place -> Number]]

Shown(o, first) == [k \in 0..(size[o] - 1) |-> storage[o][first + k]]
D == INSTANCE Dimensions WITH
  rank <- size,
  sizes <- [o \in Obj |-> Shown(o, 0)],
  strides <- [o \in Obj |-> Shown(o, MAX_SIZE)]

\* Every call does to all objects what Dimensions says of a call with these
\* arguments.  Whatever an object was before it was shrunk, moved from or
\* copied to, it shows the numbers that it was given, the dimensions that
\* stay keep theirs and new ones are zero (SizesAndStrides.h:33-53, 87-90,
\* 120-123, 161-176).
CallsAreKept ==
  /\ \A o \in Obj :
       /\ Construct(o) => D!New(o)
       /\ \A p \in Obj : (Copy(o, p) => D!Copy(o, p)) /\ (Move(o, p) => D!Move(o, p))
       /\ \A n \in 0..MAX_SIZE : resize(o, n) => D!Resize(o, n)
       /\ \A i \in Place, v \in Number :
            Assign(o, i, v) => IF i < MAX_SIZE THEN D!AssignSize(o, i, v)
                               ELSE D!AssignStride(o, i - MAX_SIZE, v)
  /\ \A n \in 0..MAX_SIZE : \A array \in Array(n), o \in Obj :
       /\ set_sizes(o, n, array) => D!SetSizes(o, n, array)
       /\ set_strides(o, n, array) => D!SetStrides(o, array)
  /\ \A view \in View, o \in Obj :
       /\ set_sizes_view(o, view) => D!SetSizes(o, view.length, Read(storage, view))
       /\ set_strides_view(o, view) => D!SetStrides(o, Read(storage, view))
ImplementsDimensions == D!Init /\ [][CallsAreKept]_vars

\* A view that is assigned arrives as it was seen before the call, although
\* the object it may show is resized and written on the way
\* (SizesAndStrides.h:87, 120).
ViewArrives ==
  \A o \in Obj, view \in View : \A k \in 0..(view.length - 1) :
    LET seen == storage[view.data.obj][view.data.at + k] IN
    /\ SizesFrom(o, view)[o][k] = seen
    /\ view.length = size[o] => StridesFrom(o, view)[o][MAX_SIZE + k] = seen

=============================================================================
