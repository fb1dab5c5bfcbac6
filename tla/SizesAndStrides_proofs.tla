----------------------- MODULE SizesAndStrides_proofs -----------------------
(***************************************************************************)
(* Proofs about SizesAndStrides, for every number of objects, places and   *)
(* numbers: its types, that a view arrives as it was seen, and that every  *)
(* call does what Dimensions says of it.                                   *)
(*                                                                         *)
(* Every operation but a move gives one object a new array and a new size. *)
(* Lemma PutStep says what Dimensions sees of that, and the lemma of an    *)
(* operation only has to say what is in the places that count.             *)
(***************************************************************************)
EXTENDS SizesAndStrides, TLAPS

USE MaxSizeAssumption, NumberAssumption, SizeMaxAssumption

\* What the places from `first' on show of an array.
Seen(array, first, n) == [k \in 0..(n - 1) |-> array[first + k]]

LEMMA PutStep ==
  ASSUME TypeOK, NEW o \in Obj, NEW n \in 0..MAX_SIZE,
         NEW array \in [Place -> Number],
         storage' = [storage EXCEPT ![o] = array],
         size' = [size EXCEPT ![o] = n]
  PROVE  /\ TypeOK'
         /\ D!Put(o, n, Seen(array, 0, n), Seen(array, MAX_SIZE, n))
<1>1. TypeOK'
  BY DEF TypeOK
<1>2. ASSUME NEW first \in {0, MAX_SIZE}
      PROVE  [p \in Obj |-> Shown(p, first)]'
               = [[p \in Obj |-> Shown(p, first)] EXCEPT
                     ![o] = Seen(array, first, n)]
  <2>1. ASSUME NEW p \in Obj
        PROVE  Shown(p, first)' =
                 IF p = o THEN Seen(array, first, n) ELSE Shown(p, first)
    BY DEF TypeOK, Shown, Seen
  <2> QED
    BY <2>1
<1> QED
  BY <1>1, <1>2 DEF D!Put

LEMMA ConstructStep ==
  ASSUME TypeOK, NEW o \in Obj, Construct(o)
  PROVE  TypeOK' /\ D!New(o)
<1>1. Fresh \in [Place -> Number]
  BY DEF Fresh, Place
<1>2. /\ Seen(Fresh, 0, 1) = [k \in 0..0 |-> 0]
      /\ Seen(Fresh, MAX_SIZE, 1) = [k \in 0..0 |-> 1]
  BY DEF Seen, Fresh, Place
<1>3. 1 \in 0..MAX_SIZE
  OBVIOUS
<1> QED
  BY <1>1, <1>2, <1>3, PutStep DEF Construct, D!New

LEMMA CopyStep ==
  ASSUME TypeOK, NEW o \in Obj, NEW p \in Obj, Copy(o, p)
  PROVE  TypeOK' /\ D!Copy(o, p)
<1>1. storage[p] \in [Place -> Number] /\ size[p] \in 0..MAX_SIZE
  BY DEF TypeOK
<1>2. /\ Seen(storage[p], 0, size[p]) = Shown(p, 0)
      /\ Seen(storage[p], MAX_SIZE, size[p]) = Shown(p, MAX_SIZE)
  BY DEF Seen, Shown
<1> QED
  BY <1>1, <1>2, PutStep DEF Copy, D!Copy

LEMMA MoveStep ==
  ASSUME TypeOK, NEW o \in Obj, NEW p \in Obj, Move(o, p)
  PROVE  TypeOK' /\ D!Move(o, p)
<1>1. /\ o # p
      /\ size' = [size EXCEPT ![o] = size[p], ![p] = 0]
      /\ storage' = [storage EXCEPT ![o] = storage[p]]
  BY DEF Move
<1>2. TypeOK'
  BY <1>1 DEF TypeOK
<1>3. ASSUME NEW first \in {0, MAX_SIZE}
      PROVE  [q \in Obj |-> Shown(q, first)]'
               = [[q \in Obj |-> Shown(q, first)] EXCEPT
                     ![o] = [q \in Obj |-> Shown(q, first)][p],
                     ![p] = [k \in 0..-1 |-> 0]]
  <2>1. ASSUME NEW q \in Obj
        PROVE  Shown(q, first)' =
                 IF q = p THEN [k \in 0..-1 |-> 0]
                 ELSE IF q = o THEN Shown(p, first) ELSE Shown(q, first)
    <3>1. CASE q = p
      <4>1. size'[q] = 0
        BY <1>1, <3>1 DEF TypeOK
      <4>2. 0..(size'[q] - 1) = {} /\ 0..-1 = {}
        BY <4>1
      <4> QED
        BY <3>1, <4>2 DEF Shown
    <3>2. CASE q = o /\ q # p
      <4>1. size'[q] = size[p] /\ storage'[q] = storage[p]
        BY <1>1, <3>2 DEF TypeOK
      <4> QED
        BY <3>2, <4>1 DEF Shown
    <3>3. CASE q # o /\ q # p
      <4>1. size'[q] = size[q] /\ storage'[q] = storage[q]
        BY <1>1, <3>3 DEF TypeOK
      <4> QED
        BY <3>3, <4>1 DEF Shown
    <3> QED
      BY <3>1, <3>2, <3>3
  <2> QED
    BY <1>1, <2>1
<1> QED
  BY <1>1, <1>2, <1>3 DEF D!Move

-----------------------------------------------------------------------------
(* What resize() leaves in the array.                                       *)

LEMMA ZeroedShows ==
  ASSUME NEW array \in [Place -> Number],
         NEW old \in 0..MAX_SIZE, NEW n \in 0..MAX_SIZE
  PROVE  /\ Zeroed(array, old, n) \in [Place -> Number]
         /\ \A first \in {0, MAX_SIZE} : \A k \in 0..(n - 1) :
              Zeroed(array, old, n)[first + k]
                = IF k < old THEN array[first + k] ELSE 0
  BY DEF Zeroed, Place

LEMMA ResizeFits ==
  ASSUME TypeOK, NEW o \in Obj, NEW n \in 0..MAX_SIZE, NEW first \in {0, MAX_SIZE}
  PROVE  Seen(Zeroed(storage[o], size[o], n), first, n)
           = D!Fitted(Shown(o, first), size[o], n)
<1>1. storage[o] \in [Place -> Number] /\ size[o] \in 0..MAX_SIZE
  BY DEF TypeOK
<1>2. \A k \in 0..(n - 1) :
        Zeroed(storage[o], size[o], n)[first + k]
          = IF k < size[o] THEN storage[o][first + k] ELSE 0
  BY <1>1, ZeroedShows
<1>3. \A k \in 0..(n - 1) :
        k < size[o] => Shown(o, first)[k] = storage[o][first + k]
  BY <1>1 DEF Shown
<1> QED
  BY <1>2, <1>3 DEF Seen, D!Fitted

LEMMA ResizeStep ==
  ASSUME TypeOK, NEW o \in Obj, NEW n \in 0..MAX_SIZE, resize(o, n)
  PROVE  TypeOK' /\ D!Resize(o, n)
<1>1. storage[o] \in [Place -> Number] /\ size[o] \in 0..MAX_SIZE
  BY DEF TypeOK
<1>2. Zeroed(storage[o], size[o], n) \in [Place -> Number]
  BY <1>1, ZeroedShows
<1>3. /\ storage' = [storage EXCEPT ![o] = Zeroed(storage[o], size[o], n)]
      /\ size' = [size EXCEPT ![o] = n]
  BY DEF resize, Resized
<1> QED
  BY <1>2, <1>3, PutStep, ResizeFits DEF D!Resize

-----------------------------------------------------------------------------
(* What the assignments write.                                              *)

\* An array after std::copy() of n elements to the places from `first' on.
Written(base, first, n, array) ==
  [i \in Place |-> IF i - first \in 0..(n - 1) THEN array[i - first] ELSE base[i]]

LEMMA WrittenShows ==
  ASSUME NEW base \in [Place -> Number], NEW first \in {0, MAX_SIZE},
         NEW n \in 0..MAX_SIZE, NEW array \in Array(n)
  PROVE  /\ Written(base, first, n, array) \in [Place -> Number]
         /\ Seen(Written(base, first, n, array), first, n) = array
         /\ \A other \in {0, MAX_SIZE} \ {first} :
              Seen(Written(base, first, n, array), other, n) = Seen(base, other, n)
<1>1. Written(base, first, n, array) \in [Place -> Number]
  BY DEF Written, Array, Place
<1>2. \A k \in 0..(n - 1) : Written(base, first, n, array)[first + k] = array[k]
  BY DEF Written, Place
<1>3. \A other \in {0, MAX_SIZE} \ {first} : \A k \in 0..(n - 1) :
        Written(base, first, n, array)[other + k] = base[other + k]
  BY DEF Written, Place
<1>4. array = [k \in 0..(n - 1) |-> array[k]]
  BY DEF Array
<1> QED
  BY <1>1, <1>2, <1>3, <1>4 DEF Seen

LEMMA SizesWritten ==
  ASSUME TypeOK, NEW o \in Obj, NEW n \in 0..MAX_SIZE, NEW array \in Array(n),
         storage' = SizesSet(o, n, array),
         size' = [size EXCEPT ![o] = n]
  PROVE  TypeOK' /\ D!SetSizes(o, n, array)
<1>1. storage[o] \in [Place -> Number] /\ size[o] \in 0..MAX_SIZE
  BY DEF TypeOK
<1>2. Zeroed(storage[o], size[o], n) \in [Place -> Number]
  BY <1>1, ZeroedShows
<1>3. storage' = [storage EXCEPT
                    ![o] = Written(Zeroed(storage[o], size[o], n), 0, n, array)]
  BY DEF TypeOK, SizesSet, Resized, CopyTo, Written
<1>4. /\ Written(Zeroed(storage[o], size[o], n), 0, n, array) \in [Place -> Number]
      /\ Seen(Written(Zeroed(storage[o], size[o], n), 0, n, array), 0, n) = array
      /\ Seen(Written(Zeroed(storage[o], size[o], n), 0, n, array), MAX_SIZE, n)
           = Seen(Zeroed(storage[o], size[o], n), MAX_SIZE, n)
  BY <1>2, WrittenShows
<1>5. Seen(Zeroed(storage[o], size[o], n), MAX_SIZE, n)
        = D!Fitted(Shown(o, MAX_SIZE), size[o], n)
  BY ResizeFits
<1> QED
  BY <1>3, <1>4, <1>5, PutStep DEF D!SetSizes

LEMMA StridesWritten ==
  ASSUME TypeOK, NEW o \in Obj, NEW array \in Array(size[o]),
         storage' = StridesSet(o, size[o], array),
         UNCHANGED size
  PROVE  TypeOK' /\ D!SetStrides(o, array)
<1>1. storage[o] \in [Place -> Number] /\ size[o] \in 0..MAX_SIZE
  BY DEF TypeOK
<1>2. storage' = [storage EXCEPT
                    ![o] = Written(storage[o], MAX_SIZE, size[o], array)]
  BY DEF StridesSet, CopyTo, Written
<1>3. size' = [size EXCEPT ![o] = size[o]]
  BY DEF TypeOK
<1>4. /\ Written(storage[o], MAX_SIZE, size[o], array) \in [Place -> Number]
      /\ Seen(Written(storage[o], MAX_SIZE, size[o], array), MAX_SIZE, size[o])
           = array
      /\ Seen(Written(storage[o], MAX_SIZE, size[o], array), 0, size[o])
           = Seen(storage[o], 0, size[o])
  BY <1>1, WrittenShows
<1>5. Seen(storage[o], 0, size[o]) = Shown(o, 0)
  BY DEF Seen, Shown
<1>6. PICK new \in [Place -> Number] :
        /\ storage' = [storage EXCEPT ![o] = new]
        /\ Seen(new, MAX_SIZE, size[o]) = array
        /\ Seen(new, 0, size[o]) = Shown(o, 0)
  BY <1>2, <1>4, <1>5
<1>7. /\ TypeOK'
      /\ D!Put(o, size[o], Seen(new, 0, size[o]), Seen(new, MAX_SIZE, size[o]))
  BY <1>1, <1>3, <1>6, PutStep
<1>8. TypeOK' /\ D!Put(o, size[o], Shown(o, 0), array)
  BY <1>6, <1>7
<1> QED
  BY <1>8 DEF D!SetStrides

\* One place of an array is assigned.
LEMMA AssignedShows ==
  ASSUME NEW array \in [Place -> Number], NEW i \in Place, NEW v \in Number,
         NEW n \in 0..MAX_SIZE, NEW first \in {0, MAX_SIZE}
  PROVE  Seen([array EXCEPT ![i] = v], first, n)
           = [Seen(array, first, n) EXCEPT ![i - first] = v]
<1>1. ASSUME NEW k \in 0..(n - 1)
      PROVE  [array EXCEPT ![i] = v][first + k]
               = IF k = i - first THEN v ELSE array[first + k]
  BY DEF Place
<1> QED
  BY <1>1 DEF Seen

LEMMA AssignStep ==
  ASSUME TypeOK, NEW o \in Obj, NEW i \in Place, NEW v \in Number, Assign(o, i, v)
  PROVE  /\ TypeOK'
         /\ IF i < MAX_SIZE THEN D!AssignSize(o, i, v)
            ELSE D!AssignStride(o, i - MAX_SIZE, v)
<1>1. storage[o] \in [Place -> Number] /\ size[o] \in 0..MAX_SIZE
  BY DEF TypeOK
<1>2. /\ i \in 0..(size[o] - 1) \/ i - MAX_SIZE \in 0..(size[o] - 1)
      /\ storage' = [storage EXCEPT ![o] = [storage[o] EXCEPT ![i] = v]]
      /\ size' = [size EXCEPT ![o] = size[o]]
  BY DEF TypeOK, Assign
<1>3. [storage[o] EXCEPT ![i] = v] \in [Place -> Number]
  BY <1>1
<1>4. /\ TypeOK'
      /\ D!Put(o, size[o], Seen([storage[o] EXCEPT ![i] = v], 0, size[o]),
               Seen([storage[o] EXCEPT ![i] = v], MAX_SIZE, size[o]))
  BY <1>1, <1>2, <1>3, PutStep
<1>5. /\ Seen(storage[o], 0, size[o]) = Shown(o, 0)
      /\ Seen(storage[o], MAX_SIZE, size[o]) = Shown(o, MAX_SIZE)
  BY DEF Seen, Shown
<1>6. /\ Seen([storage[o] EXCEPT ![i] = v], 0, size[o])
            = [Shown(o, 0) EXCEPT ![i - 0] = v]
      /\ Seen([storage[o] EXCEPT ![i] = v], MAX_SIZE, size[o])
            = [Shown(o, MAX_SIZE) EXCEPT ![i - MAX_SIZE] = v]
  BY <1>1, <1>5, AssignedShows
<1>7. i - 0 = i /\ i \in 0..(2 * MAX_SIZE - 1)
  BY DEF Place
<1>8. ASSUME NEW first \in {0, MAX_SIZE}, NEW j \in Int, j \notin 0..(size[o] - 1)
      PROVE  [Shown(o, first) EXCEPT ![j] = v] = Shown(o, first)
  BY <1>8 DEF Shown
<1>9. CASE i < MAX_SIZE
  <2>1. [Shown(o, MAX_SIZE) EXCEPT ![i - MAX_SIZE] = v] = Shown(o, MAX_SIZE)
    BY <1>1, <1>7, <1>8, <1>9
  <2> QED
    BY <1>4, <1>6, <1>7, <1>9, <2>1 DEF D!AssignSize
<1>10. CASE ~ (i < MAX_SIZE)
  <2>1. [Shown(o, 0) EXCEPT ![i - 0] = v] = Shown(o, 0)
    BY <1>1, <1>7, <1>8, <1>10
  <2> QED
    BY <1>4, <1>6, <1>10, <2>1 DEF D!AssignStride
<1> QED
  BY <1>9, <1>10

-----------------------------------------------------------------------------
(* Views.                                                                   *)

\* The sum of two lengths of the class does not wrap.
LEMMA SumFits ==
  ASSUME NEW N \in 0..MAX_SIZE, NEW M \in 0..MAX_SIZE
  PROVE  Wrap(N + M) = N + M
<1>1. N + M \in Nat /\ N + M < SizeMax + 1
  OBVIOUS
<1>2. ASSUME NEW a \in Nat, NEW b \in Nat, a < b
      PROVE  a % b = a
  BY <1>2
<1> QED
  BY <1>1, <1>2 DEF Wrap

\* A view lies within the places that count of one of the two halves.
LEMMA ViewLies ==
  ASSUME TypeOK, NEW view \in View
  PROVE  /\ view.length \in 0..MAX_SIZE
         /\ view.length > 0 =>
              /\ view.data.obj \in Obj
              /\ \E first \in {0, MAX_SIZE} :
                   /\ view.data.at \in Int
                   /\ first <= view.data.at
                   /\ view.data.at + view.length <= first + size[view.data.obj]
<1>1. PICK p \in Obj, first \in {0, MAX_SIZE}, N \in 0..MAX_SIZE, M \in 0..MAX_SIZE :
        /\ CanSlice(Ref([obj |-> p, at |-> first], size[p]), N, M)
        /\ view = slice(Ref([obj |-> p, at |-> first], size[p]), N, M)
  BY DEF View, sizes_arrayref, strides_arrayref
<1>2. N + M <= size[p]
  BY <1>1, SumFits DEF CanSlice, Ref
<1>3. view.length = M
  BY <1>1 DEF slice, Ref
<1>4. view.data = [obj |-> p, at |-> first + N]
  <2>1. view.data = Advance([obj |-> p, at |-> first], N)
    BY <1>1 DEF slice, Ref
  <2>2. CASE N = 0
    BY <2>1, <2>2 DEF Advance
  <2>3. CASE N # 0
    BY <2>1, <2>3 DEF Advance
  <2> QED
    BY <2>2, <2>3
<1>5. size[p] \in 0..MAX_SIZE
  BY DEF TypeOK
<1> QED
  BY <1>2, <1>3, <1>4, <1>5

LEMMA ReadIsArray ==
  ASSUME TypeOK, NEW view \in View,
         NEW memory \in [Obj -> [Place -> Number]]
  PROVE  Read(memory, view) \in Array(view.length)
<1>1. ASSUME NEW k \in 0..(view.length - 1)
      PROVE  memory[view.data.obj][view.data.at + k] \in Number
  <2>1. view.length \in 0..MAX_SIZE /\ view.length > 0
    BY <1>1, ViewLies
  <2>2. PICK first \in {0, MAX_SIZE} :
          /\ view.data.obj \in Obj
          /\ view.data.at \in Int
          /\ first <= view.data.at
          /\ view.data.at + view.length <= first + size[view.data.obj]
    BY <2>1, ViewLies
  <2>3. size[view.data.obj] \in 0..MAX_SIZE
    BY <2>2 DEF TypeOK
  <2>4. view.data.at + k \in Place
    BY <1>1, <2>1, <2>2, <2>3 DEF Place
  <2> QED
    BY <2>2, <2>4
<1> QED
  BY <1>1 DEF Read, Array

LEMMA ResizedType ==
  ASSUME TypeOK, NEW o \in Obj, NEW n \in 0..MAX_SIZE
  PROVE  Resized(o, n) \in [Obj -> [Place -> Number]]
<1>1. storage[o] \in [Place -> Number] /\ size[o] \in 0..MAX_SIZE
  BY DEF TypeOK
<1>2. Zeroed(storage[o], size[o], n) \in [Place -> Number]
  BY <1>1, ZeroedShows
<1> QED
  BY <1>2 DEF TypeOK, Resized

\* What resize() clears is not what a view of the same object shows.
LEMMA ResizeKeepsView ==
  ASSUME TypeOK, NEW o \in Obj, NEW view \in View, NEW k \in 0..(view.length - 1)
  PROVE  Resized(o, view.length)[view.data.obj][view.data.at + k]
           = storage[view.data.obj][view.data.at + k]
<1>1. view.length \in 0..MAX_SIZE /\ view.length > 0
  BY ViewLies
<1>2. PICK first \in {0, MAX_SIZE} :
        /\ view.data.obj \in Obj
        /\ view.data.at \in Int
        /\ first <= view.data.at
        /\ view.data.at + view.length <= first + size[view.data.obj]
  BY <1>1, ViewLies
<1>3. CASE view.data.obj = o
  <2>1. size[o] \in 0..MAX_SIZE
    BY DEF TypeOK
  <2>2. view.data.at + k \in Place
    BY <1>1, <1>2, <1>3, <2>1 DEF Place
  <2>3. Resized(o, view.length)[o] = Zeroed(storage[o], size[o], view.length)
    BY DEF TypeOK, Resized
  <2>4. PICK i \in Place : i = view.data.at + k
    BY <2>2
  <2>5. /\ i \notin size[o]..(view.length - 1)
        /\ i - MAX_SIZE \notin size[o]..(view.length - 1)
    BY <1>1, <1>2, <1>3, <2>1, <2>4 DEF Place
  <2>6. Zeroed(storage[o], size[o], view.length)[i] = storage[o][i]
    BY <2>5 DEF Zeroed
  <2> QED
    BY <1>3, <2>3, <2>4, <2>6
<1>4. CASE view.data.obj # o
  BY <1>2, <1>4 DEF TypeOK, Resized
<1> QED
  BY <1>3, <1>4

LEMMA SizesViewStep ==
  ASSUME TypeOK, NEW o \in Obj, NEW view \in View, set_sizes_view(o, view)
  PROVE  TypeOK' /\ D!SetSizes(o, view.length, Read(storage, view))
<1>1. view.length \in 0..MAX_SIZE
  BY ViewLies
<1>2. Read(storage, view) \in Array(view.length)
  BY ReadIsArray DEF TypeOK
<1>3. Read(Resized(o, view.length), view) = Read(storage, view)
  BY ResizeKeepsView DEF Read
<1>4. /\ storage' = SizesSet(o, view.length, Read(storage, view))
      /\ size' = [size EXCEPT ![o] = view.length]
  BY <1>3 DEF set_sizes_view, SizesFrom
<1> QED
  BY <1>1, <1>2, <1>4, SizesWritten

LEMMA StridesViewStep ==
  ASSUME TypeOK, NEW o \in Obj, NEW view \in View, set_strides_view(o, view)
  PROVE  TypeOK' /\ D!SetStrides(o, Read(storage, view))
<1>1. /\ view.length = size[o]
      /\ storage' = StridesSet(o, size[o], Read(storage, view))
      /\ UNCHANGED size
  BY DEF set_strides_view, StridesFrom
<1>2. Read(storage, view) \in Array(size[o])
  BY <1>1, ReadIsArray DEF TypeOK
<1> QED
  BY <1>1, <1>2, StridesWritten

-----------------------------------------------------------------------------
(* Every step.                                                              *)

\* Every call is the one of Dimensions, whichever other call the step may be.
LEMMA CallsStep ==
  ASSUME TypeOK
  PROVE  CallsAreKept
<1>1. ASSUME NEW o \in Obj
      PROVE  /\ Construct(o) => D!New(o)
             /\ \A p \in Obj :
                  (Copy(o, p) => D!Copy(o, p)) /\ (Move(o, p) => D!Move(o, p))
             /\ \A n \in 0..MAX_SIZE : resize(o, n) => D!Resize(o, n)
             /\ \A i \in Place, v \in Number :
                  Assign(o, i, v) => IF i < MAX_SIZE THEN D!AssignSize(o, i, v)
                                     ELSE D!AssignStride(o, i - MAX_SIZE, v)
  BY ConstructStep, CopyStep, MoveStep, ResizeStep, AssignStep
<1>2. ASSUME NEW n \in 0..MAX_SIZE, NEW array \in Array(n), NEW o \in Obj
      PROVE  /\ set_sizes(o, n, array) => D!SetSizes(o, n, array)
             /\ set_strides(o, n, array) => D!SetStrides(o, array)
  BY SizesWritten, StridesWritten DEF set_sizes, set_strides
<1>3. ASSUME NEW view \in View, NEW o \in Obj
      PROVE  /\ set_sizes_view(o, view) =>
                   D!SetSizes(o, view.length, Read(storage, view))
             /\ set_strides_view(o, view) => D!SetStrides(o, Read(storage, view))
  BY SizesViewStep, StridesViewStep
<1> QED
  BY <1>1, <1>2, <1>3 DEF CallsAreKept

LEMMA TypeStep ==
  ASSUME TypeOK, [Next]_vars
  PROVE  TypeOK'
<1>1. ASSUME NEW o \in Obj, NEW n \in 0..MAX_SIZE, NEW array \in Array(n),
             set_sizes(o, n, array) \/ set_strides(o, n, array)
      PROVE  TypeOK'
  BY <1>1, SizesWritten, StridesWritten DEF set_sizes, set_strides
<1>2. ASSUME NEW o \in Obj, NEW view \in View,
             set_sizes_view(o, view) \/ set_strides_view(o, view)
      PROVE  TypeOK'
  BY <1>2, SizesViewStep, StridesViewStep
<1>3. ASSUME NEW o \in Obj,
             \/ Construct(o) \/ \E p \in Obj : Copy(o, p) \/ Move(o, p)
             \/ \E n \in 0..MAX_SIZE : resize(o, n)
             \/ \E i \in Place, v \in Number : Assign(o, i, v)
      PROVE  TypeOK'
  BY <1>3, ConstructStep, CopyStep, MoveStep, ResizeStep, AssignStep
<1>4. CASE UNCHANGED vars
  BY <1>4 DEF TypeOK, vars
<1> QED
  BY <1>1, <1>2, <1>3, <1>4 DEF Next

-----------------------------------------------------------------------------
(* The theorems.                                                            *)

\* Every size is one that the array has places for, and every place holds a
\* number (SizesAndStrides.h:173).
THEOREM TypeCorrect == Spec => []TypeOK
<1>1. Init => TypeOK
  BY DEF Init, TypeOK, Fresh, Place
<1>2. TypeOK /\ [Next]_vars => TypeOK'
  BY TypeStep
<1> QED
  BY <1>1, <1>2, PTL DEF Spec

\* A view that is assigned arrives as it was seen before the call, although
\* the object it may show is resized and written on the way
\* (SizesAndStrides.h:87, 120).
THEOREM ViewsArrive == Spec => []ViewArrives
<1>1. TypeOK => ViewArrives
  <2> SUFFICES ASSUME TypeOK, NEW o \in Obj, NEW view \in View,
                      NEW k \in 0..(view.length - 1)
               PROVE  /\ SizesFrom(o, view)[o][k]
                            = storage[view.data.obj][view.data.at + k]
                      /\ view.length = size[o] =>
                           StridesFrom(o, view)[o][MAX_SIZE + k]
                             = storage[view.data.obj][view.data.at + k]
    BY DEF ViewArrives
  <2>1. view.length \in 0..MAX_SIZE /\ k \in Int /\ 0 <= k /\ k < view.length
    BY ViewLies
  <2>2. k \in Place /\ MAX_SIZE + k \in Place
    BY <2>1 DEF Place
  <2>3. Resized(o, view.length) \in [Obj -> [Place -> Number]]
    BY <2>1, ResizedType
  <2>4. SizesFrom(o, view)[o][k] = Read(Resized(o, view.length), view)[k]
    BY <2>1, <2>2, <2>3 DEF SizesFrom, SizesSet, CopyTo
  <2>5. StridesFrom(o, view)[o][MAX_SIZE + k] = Read(storage, view)[k]
    BY <2>1, <2>2 DEF TypeOK, StridesFrom, StridesSet, CopyTo
  <2> QED
    BY <2>1, <2>4, <2>5, ResizeKeepsView DEF Read
<1> QED
  BY <1>1, TypeCorrect, PTL

\* Every call of SizesAndStrides does what Dimensions says of it: whatever an
\* object was before it was shrunk, moved from or copied to, it shows the
\* numbers it was given, and new dimensions are zero (SizesAndStrides.h:161).
THEOREM DimensionsAreImplemented == Spec => ImplementsDimensions
<1>1. Init => D!Init
  <2> SUFFICES ASSUME Init
               PROVE  D!Init
    OBVIOUS
  <2>1. ASSUME NEW o \in Obj
        PROVE  /\ Shown(o, 0) = [k \in 0..0 |-> 0]
               /\ Shown(o, MAX_SIZE) = [k \in 0..0 |-> 1]
    BY DEF Init, Shown, Fresh, Place
  <2> QED
    BY <2>1 DEF Init, D!Init
<1>2. TypeOK => CallsAreKept
  BY CallsStep
<1> QED
  BY <1>1, <1>2, TypeCorrect, PTL DEF Spec, ImplementsDimensions

=============================================================================
