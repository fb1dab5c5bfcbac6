-------------------------- MODULE MaybeOwned_proofs --------------------------
(***************************************************************************)
(* For any numbers of objects, pointers and MaybeOwneds: the count of an   *)
(* object is the number of its owners.                                     *)
(*                                                                         *)
(* The owners are the places of one function, `Held', which is NULL where  *)
(* something is borrowed.  Every action changes it at one place, or moves  *)
(* a pointer from one place to another; two lemmas say what that is for    *)
(* the counts, in terms of retain and reset.  An assignment of a borrow    *)
(* changes no count as long as what is borrowed has an owner, which is why *)
(* Lent is part of the induction.                                          *)
(***************************************************************************)
EXTENDS MaybeOwned, FiniteSetTheorems, TLAPS

Holder == Handle \cup Maybe

\* The places of f that hold o.
Holding(f, o) == {p \in Holder : f[p] = o}
Counts(f) == [o \in Object |-> Cardinality(Holding(f, o))]

\* Counts are numbers, and positive where something is held.
LEMMA CountsType ==
  ASSUME NEW f
  PROVE  /\ Counts(f) \in [Object -> Nat]
         /\ \A o \in Object : Counts(f)[o] > 0 <=> Holding(f, o) # {}
<1>1. IsFiniteSet(Holder)
  BY PointerAssumption, FS_Union DEF Holder
<1>2. \A o \in Object : IsFiniteSet(Holding(f, o))
  BY <1>1, FS_Subset DEF Holding
<1>3. \A o \in Object : /\ Cardinality(Holding(f, o)) \in Nat
                        /\ Cardinality(Holding(f, o)) = 0 <=> Holding(f, o) = {}
  BY <1>2, FS_CardinalityType, FS_EmptySet
<1> QED
  BY <1>3 DEF Counts

\* The functions differ at p, and only there.
Differ(f, g, p) ==
  /\ f[p] # g[p]
  /\ \A q \in Holder : q # p => f[q] = g[q]

\* What a change at one place is for the counts.
LEMMA Replace ==
  ASSUME NEW f, NEW g, NEW p \in Holder, Differ(f, g, p), NEW o \in Object
  PROVE  Counts(g)[o] =
           IF o = g[p] THEN Counts(f)[o] + 1
           ELSE IF o = f[p] THEN Counts(f)[o] - 1 ELSE Counts(f)[o]
<1>1. IsFiniteSet(Holding(f, o))
  BY PointerAssumption, FS_Union, FS_Subset DEF Holder, Holding
<1>2. CASE o = g[p]
  <2>1. Holding(g, o) = Holding(f, o) \cup {p} /\ p \notin Holding(f, o)
    BY <1>2 DEF Holding, Differ
  <2> QED
    BY <1>1, <1>2, <2>1, FS_AddElement DEF Counts
<1>3. CASE o = f[p]
  <2>1. o # g[p]
    BY <1>3 DEF Differ
  <2>2. Holding(g, o) = Holding(f, o) \ {p} /\ p \in Holding(f, o)
    BY <1>3 DEF Holding, Differ
  <2> QED
    BY <1>1, <1>3, <2>1, <2>2, FS_RemoveElement DEF Counts
<1>4. CASE o # g[p] /\ o # f[p]
  <2>1. Holding(g, o) = Holding(f, o)
    BY <1>4 DEF Holding, Differ
  <2> QED
    BY <1>4, <2>1 DEF Counts
<1> QED
  BY <1>2, <1>3, <1>4

\* Pointers in a function, and what retain and reset make of counts.
LEMMA CountSteps ==
  ASSUME NEW count \in [Object -> Nat], NEW o \in Pointer,
         o # NULL => count[o] > 0
  PROVE  /\ retain(count, o) = [x \in Object |->
                                  IF x = o THEN count[x] + 1 ELSE count[x]]
         /\ reset(count, o) = [x \in Object |->
                                  IF x = o THEN count[x] - 1 ELSE count[x]]
         /\ retain(count, o) \in [Object -> Nat]
         /\ reset(count, o) \in [Object -> Nat]
<1>1. CASE o = NULL
  <2>1. \A x \in Object : x # o
    BY <1>1, PointerAssumption
  <2>2. retain(count, o) = count /\ reset(count, o) = count
    BY <1>1 DEF retain, reset
  <2> QED
    BY <2>1, <2>2
<1>2. CASE o # NULL
  <2>1. o \in Object /\ count[o] > 0 /\ count[o] \in Nat
    BY <1>2 DEF Pointer
  <2>2. /\ retain(count, o) = [count EXCEPT ![o] = count[o] + 1]
        /\ reset(count, o) = [count EXCEPT ![o] = count[o] - 1]
    BY <1>2, <2>1 DEF retain, reset
  <2>3. /\ retain(count, o) =
             [x \in Object |-> IF x = o THEN count[x] + 1 ELSE count[x]]
        /\ reset(count, o) =
             [x \in Object |-> IF x = o THEN count[x] - 1 ELSE count[x]]
    BY <2>1, <2>2
  <2>4. /\ [count EXCEPT ![o] = count[o] + 1] \in [Object -> Nat]
        /\ [count EXCEPT ![o] = count[o] - 1] \in [Object -> Nat]
    BY <2>1
  <2> QED
    BY <2>2, <2>3, <2>4
<1> QED
  BY <1>1, <1>2

\* The counted parameter of assignBorrow comes and goes.
LEMMA BorrowIsFree ==
  ASSUME NEW count \in [Object -> Nat], NEW lhs, NEW o \in Pointer,
         o # NULL => count[o] > 0
  PROVE  assignBorrow(count, lhs, o) = count
<1> DEFINE c == retain(count, o)
<1>1. /\ c \in [Object -> Nat]
      /\ c = [x \in Object |-> IF x = o THEN count[x] + 1 ELSE count[x]]
  BY CountSteps
<1>2. o # NULL => c[o] > 0
  BY <1>1 DEF Pointer
<1>3. reset(c, NULL) = c
  BY DEF reset
<1>4. reset(c, o) = [x \in Object |-> IF x = o THEN c[x] - 1 ELSE c[x]]
  BY <1>1, <1>2, CountSteps
<1>5. [x \in Object |-> IF x = o THEN c[x] - 1 ELSE c[x]] = count
  BY <1>1
<1> QED
  BY <1>3, <1>4, <1>5 DEF assignBorrow

\* A place gives up what it held and takes b, which has an owner.
LEMMA TakeCounts ==
  ASSUME NEW f \in [Holder -> Pointer], NEW p \in Holder, NEW b \in Pointer,
         b # NULL => Counts(f)[b] > 0
  PROVE  Counts([f EXCEPT ![p] = b]) = reset(retain(Counts(f), b), f[p])
<1> DEFINE c == Counts(f)
           r == retain(c, b)
           g == [f EXCEPT ![p] = b]
<1>1. c \in [Object -> Nat] /\ (f[p] # NULL => c[f[p]] > 0)
  BY CountsType DEF Holding, Pointer
<1>2. /\ r \in [Object -> Nat]
      /\ r = [x \in Object |-> IF x = b THEN c[x] + 1 ELSE c[x]]
  BY <1>1, CountSteps
<1>3. f[p] # NULL => r[f[p]] > 0
  BY <1>1, <1>2 DEF Pointer
<1>4. reset(r, f[p]) = [x \in Object |-> IF x = f[p] THEN r[x] - 1 ELSE r[x]]
  BY <1>2, <1>3, CountSteps
<1>5. Counts(g) = [x \in Object |-> Counts(g)[x]]
  BY DEF Counts
<1>6. CASE f[p] = b
  <2>1. g = f
    BY <1>6
  <2>2. reset(r, f[p]) = [x \in Object |-> c[x]]
    BY <1>1, <1>2, <1>4, <1>6
  <2> QED
    BY <1>5, <2>1, <2>2
<1>7. CASE f[p] # b
  <2>1. Differ(f, g, p) /\ g[p] = b
    BY <1>7 DEF Differ
  <2>2. ASSUME NEW x \in Object
        PROVE  Counts(g)[x] =
          IF x = b THEN c[x] + 1 ELSE IF x = f[p] THEN c[x] - 1 ELSE c[x]
    <3> HIDE DEF g
    <3> QED
      BY <2>1, Replace
  <2>3. \A x \in Object : (IF x = f[p] THEN r[x] - 1 ELSE r[x]) = Counts(g)[x]
    BY <1>1, <1>2, <1>7, <2>2
  <2> QED
    BY <1>4, <1>5, <2>3
<1> QED
  BY <1>6, <1>7

\* A place p gives up what it held and takes what q held.
LEMMA MoveCounts ==
  ASSUME NEW f \in [Holder -> Pointer], NEW p \in Holder, NEW q \in Holder,
         p # q
  PROVE  Counts([f EXCEPT ![p] = f[q], ![q] = NULL]) = reset(Counts(f), f[p])
<1> DEFINE a == f[q]
           c == Counts(f)
           g == [f EXCEPT ![p] = a]
<1>1. /\ c \in [Object -> Nat] /\ a \in Pointer /\ NULL \in Pointer
      /\ a # NULL => c[a] > 0
      /\ f[p] # NULL => c[f[p]] > 0
  BY CountsType DEF Holding, Pointer
<1>2. [f EXCEPT ![p] = f[q], ![q] = NULL] = [g EXCEPT ![q] = NULL]
  BY DEF Holder
<1>3. g \in [Holder -> Pointer] /\ g[q] = a
  BY <1>1
<1>4. Counts([g EXCEPT ![q] = NULL]) = reset(retain(Counts(g), NULL), a)
  BY <1>1, <1>3, TakeCounts
<1>5. Counts([g EXCEPT ![q] = NULL]) = reset(Counts(g), a)
  BY <1>4 DEF retain
<1>6. CASE f[p] = a
  <2>1. g = f
    BY <1>6
  <2> QED
    BY <1>2, <1>5, <1>6, <2>1
<1>7. CASE f[p] # a
  <2>1. Counts(g) \in [Object -> Nat]
    BY CountsType
  <2>2. Differ(f, g, p) /\ g[p] = a
    BY <1>7 DEF Differ
  <2>3. \A x \in Object : Counts(g)[x] =
             IF x = a THEN c[x] + 1 ELSE IF x = f[p] THEN c[x] - 1 ELSE c[x]
    <3> HIDE DEF g
    <3> QED
      BY <2>2, Replace
  <2>4. a # NULL => Counts(g)[a] > 0
    <3> HIDE DEF g, c
    <3>1. SUFFICES ASSUME a # NULL PROVE Counts(g)[a] > 0
      OBVIOUS
    <3>2. a \in Object /\ c[a] \in Nat
      BY <1>1, <3>1 DEF Pointer
    <3> QED
      BY <2>3, <3>2
  <2>5. reset(Counts(g), a) =
          [x \in Object |-> IF x = a THEN Counts(g)[x] - 1 ELSE Counts(g)[x]]
    BY <1>1, <2>1, <2>4, CountSteps
  <2>6. reset(c, f[p]) = [x \in Object |-> IF x = f[p] THEN c[x] - 1 ELSE c[x]]
    BY <1>1, CountSteps
  <2>7. ASSUME NEW x \in Object
        PROVE  (IF x = a THEN Counts(g)[x] - 1 ELSE Counts(g)[x]) =
                 (IF x = f[p] THEN c[x] - 1 ELSE c[x])
    <3>1. c[x] \in Nat
      BY <1>1
    <3> HIDE DEF g, c
    <3> QED
      BY <1>7, <2>3, <3>1
  <2> QED
    BY <1>2, <1>5, <2>5, <2>6, <2>7
<1> QED
  BY <1>6, <1>7

-----------------------------------------------------------------------------
(* What the places of a state hold.                                         *)

Value == {Owned(o) : o \in Pointer} \cup {Borrow(o) : o \in Pointer} \cup {None}

\* The pointer that a MaybeOwned with value v owns.
OwnedBy(v) == IF v.kind = "owned" THEN v.ptr ELSE NULL

Held ==
  [p \in Holder |-> IF p \in Handle THEN target[p] ELSE OwnedBy(maybe[p])]

Typed == target \in [Handle -> Pointer] /\ maybe \in [Maybe -> Value]

\* The induction hypothesis: with counts that are those of Held, what is
\* borrowed has an owner.
IInv == Typed /\ refcount = Counts(Held) /\ Lent

\* What the values of a MaybeOwned are.
LEMMA Values ==
  /\ None \in Value /\ OwnedBy(None) = NULL /\ NULL \in Pointer
  /\ \A o \in Pointer : /\ Owned(o) \in Value /\ OwnedBy(Owned(o)) = o
                        /\ Borrow(o) \in Value /\ OwnedBy(Borrow(o)) = NULL
  /\ \A v \in Value : /\ v.ptr \in Pointer /\ OwnedBy(v) \in Pointer
                      /\ v.kind = "owned" => v = Owned(v.ptr)
                      /\ v.kind # "owned" => OwnedBy(v) = NULL
                      /\ v.kind = "none" \/ v.kind = "borrowed" \/ v.kind = "owned"
<1>1. NULL \in Pointer
  BY DEF Pointer
<1>2. None.kind = "none" /\ None.ptr = NULL
  BY DEF None
<1>3. ASSUME NEW o \in Pointer
      PROVE  /\ Owned(o).kind = "owned" /\ Owned(o).ptr = o
             /\ Borrow(o).kind = "borrowed" /\ Borrow(o).ptr = o
             /\ Owned(o) \in Value /\ Borrow(o) \in Value
  <2>1. Owned(o).kind = "owned" /\ Owned(o).ptr = o
    BY DEF Owned
  <2>2. Borrow(o).kind = "borrowed" /\ Borrow(o).ptr = o
    BY DEF Borrow
  <2> QED
    BY <2>1, <2>2 DEF Value
<1>4. ASSUME NEW v \in Value
      PROVE  /\ v.ptr \in Pointer
             /\ v.kind = "owned" => v = Owned(v.ptr)
             /\ v.kind = "none" \/ v.kind = "borrowed" \/ v.kind = "owned"
  <2>1. CASE v = None
    BY <1>1, <1>2, <2>1
  <2>2. CASE \E o \in Pointer : v = Owned(o)
    BY <1>3, <2>2
  <2>3. CASE \E o \in Pointer : v = Borrow(o)
    BY <1>3, <2>3
  <2> QED
    BY <2>1, <2>2, <2>3 DEF Value
<1>5. None \in Value
  BY DEF Value
<1> QED
  BY <1>1, <1>2, <1>3, <1>4, <1>5 DEF OwnedBy

\* Held is a function to pointers, and its places are the owners.
LEMMA HeldOwners ==
  ASSUME Typed
  PROVE  /\ Held \in [Holder -> Pointer]
         /\ \A o \in Object : Owners(o) = Holding(Held, o)
<1>1. \A p \in Holder : (p \in Handle) \/ (p \in Maybe /\ p \notin Handle)
  BY PointerAssumption DEF Holder
<1>2. Held \in [Holder -> Pointer]
  BY <1>1, Values DEF Held, Typed
<1>3. ASSUME NEW o \in Object, NEW m \in Maybe
      PROVE  maybe[m] = Owned(o) <=> OwnedBy(maybe[m]) = o
  <2>1. o \in Pointer /\ o # NULL /\ maybe[m] \in Value
    BY PointerAssumption DEF Pointer, Typed
  <2>2. maybe[m].kind = "owned" => OwnedBy(maybe[m]) = maybe[m].ptr
    BY DEF OwnedBy
  <2> QED
    BY <2>1, <2>2, Values
<1>4. ASSUME NEW o \in Object
      PROVE  Owners(o) = Holding(Held, o)
  <2>1. \A m \in Maybe : m \in Holder /\ Held[m] = OwnedBy(maybe[m])
    BY PointerAssumption DEF Held, Holder
  <2>2. \A h \in Handle : h \in Holder /\ Held[h] = target[h]
    BY DEF Held, Holder
  <2> QED
    BY <1>1, <1>3, <2>1, <2>2 DEF Owners, Holding
<1> QED
  BY <1>2, <1>4

\* The same after a step.
LEMMA HeldOwnersNext ==
  (Typed => \A o \in Object : Owners(o) = Holding(Held, o))'
<1>1. Typed => \A o \in Object : Owners(o) = Holding(Held, o)
  BY HeldOwners
<1> QED
  BY <1>1, PTL

\* What the client can name is null or counted.
LEMMA VisibleCounted ==
  ASSUME IInv, NEW o \in Visible
  PROVE  o \in Pointer /\ (o # NULL => Counts(Held)[o] > 0)
<1> USE DEF IInv
<1>1. o \in Pointer
  BY Values DEF Visible, Typed, Ptr
<1>2. SUFFICES ASSUME o # NULL PROVE Owners(o) # {}
  BY <1>1, CountsType, HeldOwners DEF Pointer
<1>3. CASE \E h \in Handle : target[h] = o
  BY <1>3 DEF Owners
<1>4. CASE \E m \in Maybe : IsOwned(m) /\ Ptr(m) = o
  BY <1>4, Values DEF Owners, IsOwned, Ptr, Typed
<1>5. CASE \E m \in Maybe : IsBorrowed(m) /\ Ptr(m) = o
  BY <1>2, <1>5 DEF Lent
<1> QED
  BY <1>3, <1>4, <1>5, Values
     DEF Visible, Typed, Exists, Free, IsOwned, IsBorrowed

-----------------------------------------------------------------------------
(* What an action may do to the places and the counts.                      *)

\* Place p gives up what it holds and takes b, which has an owner.
Take(p, b) ==
  /\ b \in Pointer /\ (b # NULL => Counts(Held)[b] > 0)
  /\ Held' = [Held EXCEPT ![p] = b]
  /\ refcount' = reset(retain(refcount, b), Held[p])

\* Place p gives up what it holds and takes what q held.
Move(p, q) ==
  /\ p # q
  /\ Held' = [Held EXCEPT ![p] = Held[q], ![q] = NULL]
  /\ refcount' = reset(refcount, Held[p])

Effect ==
  \/ Held' = Held /\ refcount' = refcount
  \/ \E p \in Holder, b \in Pointer : Take(p, b)
  \/ \E p, q \in Holder : Move(p, q)

\* After each of them the counts are those of the places.
LEMMA EffectCounts ==
  ASSUME IInv, Effect
  PROVE  refcount' = Counts(Held)'
<1>1. Held \in [Holder -> Pointer] /\ refcount = Counts(Held)
  BY HeldOwners DEF IInv
<1>2. Counts(Held)' = Counts(Held')
  BY DEF Counts, Holding
<1>3. CASE Held' = Held /\ refcount' = refcount
  BY <1>1, <1>2, <1>3
<1>4. ASSUME NEW p \in Holder, NEW b \in Pointer, Take(p, b)
      PROVE  refcount' = Counts(Held')
  <2> HIDE DEF Held
  <2> QED
    BY <1>1, <1>4, TakeCounts DEF Take
<1>5. ASSUME NEW p \in Holder, NEW q \in Holder, Move(p, q)
      PROVE  refcount' = Counts(Held')
  BY <1>1, <1>5, MoveCounts DEF Move
<1> QED
  BY <1>2, <1>3, <1>4, <1>5 DEF Effect

\* An action that writes one place of target, or of maybe, or one of each.
LEMMA WriteTarget ==
  ASSUME Typed, NEW h \in Handle, NEW b \in Pointer,
         target' = [target EXCEPT ![h] = b], maybe' = maybe
  PROVE  Typed' /\ Held' = [Held EXCEPT ![h] = b] /\ Held[h] = target[h]
BY DEF Typed, Held, Holder

LEMMA WriteMaybe ==
  ASSUME Typed, NEW m \in Maybe, NEW v \in Value,
         maybe' = [maybe EXCEPT ![m] = v], target' = target
  PROVE  /\ Typed' /\ Held' = [Held EXCEPT ![m] = OwnedBy(v)]
         /\ m \in Holder /\ Held[m] = OwnedBy(maybe[m])
BY PointerAssumption DEF Typed, Held, Holder

-----------------------------------------------------------------------------
(* The actions of the client's own pointers.                                *)

\* No place holds the object before: one holds it now.
LEMMA MakeStep ==
  ASSUME IInv, NEW h \in Handle, NEW o \in Object, Make(h, o)
  PROVE  Typed' /\ refcount' = Counts(Held)'
<1>1. o \in Pointer /\ o # NULL
  BY PointerAssumption DEF Pointer
<1>2. /\ Typed' /\ Held' = [Held EXCEPT ![h] = o] /\ Held[h] = NULL
      /\ h \in Holder
  BY <1>1, WriteTarget DEF IInv, Make, Holder
<1>3. Differ(Held, Held', h) /\ Held'[h] = o
  BY <1>1, <1>2, HeldOwners DEF IInv, Differ
<1>4. ASSUME NEW x \in Object
      PROVE  Counts(Held')[x] =
               IF x = o THEN Counts(Held)[x] + 1 ELSE Counts(Held)[x]
  <2>1. x # NULL
    BY PointerAssumption
  <2>2. Counts(Held')[x] =
          IF x = Held'[h] THEN Counts(Held)[x] + 1
          ELSE IF x = Held[h] THEN Counts(Held)[x] - 1 ELSE Counts(Held)[x]
    <3>1. \A f, g : Differ(f, g, h) =>
            Counts(g)[x] =
              IF x = g[h] THEN Counts(f)[x] + 1
              ELSE IF x = f[h] THEN Counts(f)[x] - 1 ELSE Counts(f)[x]
      BY <1>2, Replace
    <3> QED
      BY <1>3, <3>1
  <2> QED
    BY <1>2, <1>3, <2>1, <2>2
<1>5. Counts(Held)[o] = 0 /\ refcount' = [Counts(Held) EXCEPT ![o] = 1]
  BY DEF IInv, Make
<1>6. Counts(Held) \in [Object -> Nat] /\ Counts(Held') \in [Object -> Nat]
  BY CountsType
<1>7. refcount' = Counts(Held')
  BY <1>4, <1>5, <1>6
<1> QED
  BY <1>2, <1>7 DEF Counts, Holding

LEMMA CopyEffect ==
  ASSUME IInv, NEW h \in Handle, NEW o \in Visible, Copy(h, o)
  PROVE  Typed' /\ Effect
<1>1. o \in Pointer /\ (o # NULL => Counts(Held)[o] > 0)
  BY VisibleCounted
<1>2. /\ Typed' /\ Held' = [Held EXCEPT ![h] = o] /\ Held[h] = NULL
      /\ h \in Holder
  BY <1>1, WriteTarget DEF IInv, Copy, Holder
<1>3. Take(h, o)
  BY <1>1, <1>2 DEF Take, Copy, reset
<1> QED
  BY <1>1, <1>2, <1>3 DEF Effect

LEMMA ResetEffect ==
  ASSUME IInv, NEW h \in Handle, Reset(h)
  PROVE  Typed' /\ Effect
<1>1. NULL \in Pointer
  BY DEF Pointer
<1>2. /\ Typed' /\ Held' = [Held EXCEPT ![h] = NULL] /\ Held[h] = target[h]
      /\ h \in Holder
  BY <1>1, WriteTarget DEF IInv, Reset, Holder
<1>3. Take(h, NULL)
  BY <1>1, <1>2 DEF Take, Reset, retain
<1> QED
  BY <1>1, <1>2, <1>3 DEF Effect

-----------------------------------------------------------------------------
(* Constructors and the destructor.                                         *)

\* A borrow is written where nothing was owned.
LEMMA BorrowEffect ==
  ASSUME IInv, NEW m \in Maybe, NEW v \in Value,
         OwnedBy(maybe[m]) = NULL, OwnedBy(v) = NULL,
         maybe' = [maybe EXCEPT ![m] = v], refcount' = refcount, target' = target
  PROVE  Typed' /\ Effect
<1>1. /\ Typed' /\ Held' = [Held EXCEPT ![m] = NULL]
      /\ m \in Holder /\ Held[m] = NULL
  BY WriteMaybe DEF IInv
<1>2. Held' = Held
  BY <1>1, HeldOwners DEF IInv
<1> QED
  BY <1>1, <1>2 DEF Effect

LEMMA DefaultEffect ==
  ASSUME IInv, NEW m \in Maybe, Default(m)
  PROVE  Typed' /\ Effect
<1>1. maybe[m] \in Value /\ maybe[m].kind = "none"
  BY DEF IInv, Typed, Default, Free
<1> QED
  BY <1>1, Values, BorrowEffect DEF Default

LEMMA borrowedEffect ==
  ASSUME IInv, NEW m \in Maybe, NEW o \in Visible, borrowed(m, o)
  PROVE  Typed' /\ Effect
<1>1. maybe[m] \in Value /\ maybe[m].kind = "none"
  BY DEF IInv, Typed, borrowed, Free
<1> QED
  BY <1>1, Values, VisibleCounted, BorrowEffect DEF borrowed

\* A place of maybe takes an owned pointer to b, and gives up what it owned.
LEMMA TakeEffect ==
  ASSUME IInv, NEW m \in Maybe, NEW v \in Value, NEW b \in Pointer,
         OwnedBy(v) = b, b # NULL => Counts(Held)[b] > 0,
         maybe' = [maybe EXCEPT ![m] = v], target' = target,
         refcount' = reset(retain(refcount, b), OwnedBy(maybe[m]))
  PROVE  Typed' /\ Effect
<1>1. /\ Typed' /\ Held' = [Held EXCEPT ![m] = b]
      /\ m \in Holder /\ Held[m] = OwnedBy(maybe[m])
  BY WriteMaybe DEF IInv
<1>2. Take(m, b)
  BY <1>1 DEF Take
<1> QED
  BY <1>1, <1>2 DEF Effect

LEMMA ownedInPlaceEffect ==
  ASSUME IInv, NEW m \in Maybe, NEW o \in Visible, ownedInPlace(m, o)
  PROVE  Typed' /\ Effect
<1>1. maybe[m] \in Value /\ OwnedBy(maybe[m]) = NULL
  BY Values DEF IInv, Typed, ownedInPlace, Free
<1>2. o \in Pointer /\ (o # NULL => Counts(Held)[o] > 0)
  BY VisibleCounted
<1>3. Owned(o) \in Value /\ OwnedBy(Owned(o)) = o
  BY <1>2, Values
<1>4. refcount' = reset(retain(refcount, o), NULL)
  BY DEF ownedInPlace, reset
<1> QED
  BY <1>1, <1>2, <1>3, <1>4, TakeEffect DEF ownedInPlace

LEMMA DestroyEffect ==
  ASSUME IInv, NEW m \in Maybe, Destroy(m)
  PROVE  Typed' /\ Effect
<1>1. maybe[m] \in Value
  BY DEF IInv, Typed
<1>2. OwnedBy(maybe[m]) = IF IsBorrowed(m) THEN NULL ELSE Ptr(m)
  BY <1>1, Values DEF Destroy, Exists, Free, IsBorrowed, Ptr, OwnedBy
<1>3. refcount' = reset(retain(refcount, NULL), OwnedBy(maybe[m]))
  BY <1>2 DEF Destroy, retain, reset
<1> QED
  BY <1>3, Values, TakeEffect DEF Destroy

\* A place of maybe takes what another one owned.
LEMMA MoveEffect ==
  ASSUME IInv, NEW m \in Maybe, NEW n \in Maybe, m # n, IsOwned(n),
         maybe' = [maybe EXCEPT ![m] = maybe[n], ![n] = Owned(NULL)],
         target' = target, refcount' = reset(refcount, OwnedBy(maybe[m]))
  PROVE  Typed' /\ Effect
<1>1. /\ Typed /\ m \in Holder /\ n \in Holder
      /\ m \notin Handle /\ n \notin Handle
  BY PointerAssumption DEF IInv, Holder
<1>2. Owned(NULL) \in Value /\ OwnedBy(Owned(NULL)) = NULL
  BY Values
<1>3. Typed'
  BY <1>1, <1>2 DEF Typed
<1>4. Held' = [Held EXCEPT ![m] = Held[n], ![n] = NULL]
  <2>1. ASSUME NEW p \in Holder
        PROVE  Held'[p] = IF p = n THEN NULL ELSE IF p = m THEN Held[n]
                          ELSE Held[p]
    <3>1. CASE p \in Handle
      BY <1>1, <3>1 DEF Held
    <3>2. CASE p \in Maybe /\ p \notin Handle
      <4>1. maybe'[p] = IF p = n THEN Owned(NULL) ELSE IF p = m THEN maybe[n]
                        ELSE maybe[p]
        BY <3>2 DEF IInv, Typed
      <4> QED
        BY <1>1, <1>2, <3>2, <4>1 DEF Held
    <3> QED
      BY <3>1, <3>2 DEF Holder
  <2>2. /\ Held' = [p \in Holder |-> Held'[p]]
        /\ Held \in [Holder -> Pointer]
    BY <1>1, HeldOwners DEF Held
  <2> HIDE DEF Held
  <2> QED
    BY <1>1, <2>1, <2>2
<1>5. Held[m] = OwnedBy(maybe[m])
  BY <1>1 DEF Held
<1>6. Move(m, n)
  BY <1>4, <1>5 DEF Move
<1> QED
  BY <1>1, <1>3, <1>6 DEF Effect

\* The client gives its pointer away: the free m takes what h held.
LEMMA ownedEffect ==
  ASSUME IInv, NEW m \in Maybe, NEW h \in Handle, owned(m, h)
  PROVE  Typed' /\ Effect
<1>1. /\ Typed /\ m \in Holder /\ h \in Holder /\ m \notin Handle /\ m # h
  BY PointerAssumption DEF IInv, Holder
<1>2. /\ target[h] \in Pointer /\ NULL \in Pointer
      /\ maybe[m] \in Value /\ OwnedBy(maybe[m]) = NULL
  BY <1>1, Values DEF Typed, owned, Free
<1>3. Owned(target[h]) \in Value /\ OwnedBy(Owned(target[h])) = target[h]
  BY <1>2, Values
<1>4. Typed'
  BY <1>1, <1>2, <1>3 DEF Typed, owned
<1>5. Held[m] = NULL /\ Held[h] = target[h]
  BY <1>1, <1>2 DEF Held
<1>6. Held' = [Held EXCEPT ![m] = Held[h], ![h] = NULL]
  BY <1>1, <1>3, <1>5 DEF Typed, Held, Holder, owned
<1>7. Move(m, h)
  BY <1>1, <1>5, <1>6 DEF Move, owned, reset
<1> QED
  BY <1>1, <1>4, <1>7 DEF Effect

\* What the client copies or moves out of m.
LEMMA DerefEffect ==
  ASSUME IInv, NEW h \in Handle, NEW m \in Maybe, Deref(h, m)
  PROVE  Typed' /\ Effect
<1>1. /\ Typed /\ m \in Holder /\ h \in Holder /\ m \notin Handle /\ m # h
  BY PointerAssumption DEF IInv, Holder
<1>2. Ptr(m) \in Visible /\ Ptr(m) \in Pointer /\ NULL \in Pointer
  BY Values DEF Visible, Deref, IInv, Typed, Ptr
<1>3. CASE IsBorrowed(m)
  <2>1. maybe' = maybe /\ refcount' = retain(refcount, Ptr(m))
    BY <1>3 DEF Deref, IsBorrowed, IsOwned
  <2>2. /\ Typed' /\ Held' = [Held EXCEPT ![h] = Ptr(m)] /\ Held[h] = NULL
    BY <1>1, <1>2, <2>1, WriteTarget DEF Deref
  <2>3. Take(h, Ptr(m))
    BY <1>2, <2>1, <2>2, VisibleCounted DEF Take, reset
  <2> QED
    BY <1>1, <1>2, <2>2, <2>3 DEF Effect
<1>4. CASE IsOwned(m)
  <2>1. /\ maybe' = [maybe EXCEPT ![m] = Owned(NULL)] /\ refcount' = refcount
        /\ target' = [target EXCEPT ![h] = Ptr(m)] /\ target[h] = NULL
    BY <1>4 DEF Deref, IsBorrowed, IsOwned
  <2>2. Owned(NULL) \in Value /\ OwnedBy(Owned(NULL)) = NULL
    BY Values
  <2>3. Held[h] = NULL /\ Held[m] = Ptr(m)
    BY <1>1, <1>4, <2>1 DEF Held, OwnedBy, IsOwned, Ptr
  <2>4. Typed'
    BY <1>1, <1>2, <2>1, <2>2 DEF Typed
  <2>5. Held' = [Held EXCEPT ![h] = Held[m], ![m] = NULL]
    BY <1>1, <2>1, <2>2, <2>3 DEF Typed, Held, Holder
  <2>6. Move(h, m)
    BY <1>1, <2>1, <2>3, <2>5 DEF Move, reset
  <2> QED
    BY <1>1, <2>4, <2>6 DEF Effect
<1> QED
  BY <1>3, <1>4 DEF Deref

-----------------------------------------------------------------------------
(* Copies and moves between two MaybeOwneds.                                *)

\* What a MaybeOwned refers to is null or counted.
LEMMA PtrCounted ==
  ASSUME IInv, NEW n \in Maybe, Exists(n)
  PROVE  /\ Ptr(n) \in Pointer /\ (Ptr(n) # NULL => Counts(Held)[Ptr(n)] > 0)
         /\ maybe[n] \in Value
         /\ IsBorrowed(n) => OwnedBy(maybe[n]) = NULL
         /\ IsOwned(n) => OwnedBy(maybe[n]) = Ptr(n)
         /\ IsBorrowed(n) \/ IsOwned(n)
         /\ ~(IsBorrowed(n) /\ IsOwned(n))
<1>1. Ptr(n) \in Visible
  BY DEF Visible
<1>2. maybe[n] \in Value
  BY DEF IInv, Typed
<1> QED
  BY <1>1, <1>2, VisibleCounted, Values
     DEF IsBorrowed, IsOwned, OwnedBy, Ptr, Exists, Free

\* An assignment of what n borrows changes no count.
LEMMA AssignFree ==
  ASSUME IInv, NEW n \in Maybe, IsBorrowed(n), NEW lhs
  PROVE  assignBorrow(refcount, lhs, Ptr(n)) = refcount
<1>1. Ptr(n) \in Pointer /\ (Ptr(n) # NULL => Counts(Held)[Ptr(n)] > 0)
  BY PtrCounted DEF IsBorrowed, Exists, Free
<1>2. refcount = Counts(Held) /\ Counts(Held) \in [Object -> Nat]
  BY CountsType DEF IInv
<1> QED
  BY <1>1, <1>2, BorrowIsFree

LEMMA CopyConstructEffect ==
  ASSUME IInv, NEW m \in Maybe, NEW n \in Maybe, CopyConstruct(m, n)
  PROVE  Typed' /\ Effect
<1>1. OwnedBy(maybe[m]) = NULL
  BY Values DEF IInv, Typed, CopyConstruct, Free
<1>2. CASE IsBorrowed(n)
  <2>1. refcount' = refcount
    BY <1>2, AssignFree DEF CopyConstruct
  <2> QED
    BY <1>1, <1>2, <2>1, PtrCounted, BorrowEffect DEF CopyConstruct
<1>3. CASE ~IsBorrowed(n)
  <2>1. refcount' = reset(retain(refcount, Ptr(n)), NULL)
    BY <1>3 DEF CopyConstruct, reset
  <2> QED
    BY <1>1, <1>3, <2>1, PtrCounted, TakeEffect DEF CopyConstruct
<1> QED
  BY <1>2, <1>3

LEMMA MoveConstructEffect ==
  ASSUME IInv, NEW m \in Maybe, NEW n \in Maybe, MoveConstruct(m, n)
  PROVE  Typed' /\ Effect
<1>1. OwnedBy(maybe[m]) = NULL /\ m # n
  BY Values DEF IInv, Typed, MoveConstruct, Free, Exists
<1>2. CASE IsBorrowed(n)
  <2>1. refcount' = refcount /\ maybe' = [maybe EXCEPT ![m] = maybe[n]]
    BY <1>2, AssignFree DEF MoveConstruct, IsBorrowed, IsOwned
  <2> QED
    BY <1>1, <1>2, <2>1, PtrCounted, BorrowEffect DEF MoveConstruct
<1>3. CASE IsOwned(n)
  <2>1. /\ maybe' = [maybe EXCEPT ![m] = maybe[n], ![n] = Owned(NULL)]
        /\ refcount' = reset(refcount, NULL)
    BY <1>3 DEF MoveConstruct, IsBorrowed, IsOwned, reset
  <2> QED
    BY <1>1, <1>3, <2>1, MoveEffect DEF MoveConstruct
<1> QED
  BY <1>2, <1>3 DEF MoveConstruct

LEMMA AssignBorrowEffect ==
  ASSUME IInv, NEW m \in Maybe, NEW n \in Maybe, AssignBorrow(m, n),
         target' = target
  PROVE  Typed' /\ Effect
<1>1. refcount' = refcount
  BY AssignFree DEF AssignBorrow
<1>2. Exists(m) /\ Exists(n)
  BY DEF AssignBorrow, IsBorrowed, Exists, Free
<1> QED
  BY <1>1, <1>2, PtrCounted, BorrowEffect DEF AssignBorrow

LEMMA CopyOwnedEffect ==
  ASSUME IInv, NEW m \in Maybe, NEW n \in Maybe, CopyOwned(m, n),
         target' = target
  PROVE  Typed' /\ Effect
<1>1. Exists(m) /\ Exists(n) /\ IsOwned(n)
  BY DEF CopyOwned, IsOwned, Exists, Free
<1>2. refcount' = reset(retain(refcount, Ptr(n)), OwnedBy(maybe[m]))
  BY <1>1, PtrCounted DEF CopyOwned, reset
<1> QED
  BY <1>1, <1>2, PtrCounted, TakeEffect DEF CopyOwned

LEMMA MoveOwnedEffect ==
  ASSUME IInv, NEW m \in Maybe, NEW n \in Maybe, m # n, MoveOwned(m, n),
         target' = target
  PROVE  Typed' /\ Effect
<1>1. Exists(m) /\ IsOwned(n)
  BY DEF MoveOwned
<1>2. refcount' = reset(refcount, OwnedBy(maybe[m]))
  BY <1>1, PtrCounted DEF MoveOwned, reset
<1> QED
  BY <1>1, <1>2, MoveEffect DEF MoveOwned

\* m releases what it owned, and what n borrows has an owner other than m: it
\* has one after the step, when m borrows it as well.
LEMMA BecomeBorrowStep ==
  ASSUME IInv, Lent', NEW m \in Maybe, NEW n \in Maybe, BecomeBorrow(m, n),
         target' = target
  PROVE  Typed' /\ refcount' = Counts(Held)'
<1>1. /\ Exists(m) /\ IsOwned(m) /\ Exists(n) /\ IsBorrowed(n)
      /\ NULL \in Pointer
  BY DEF BecomeBorrow, IsOwned, IsBorrowed, Exists, Free, Pointer
<1>2. /\ Typed' /\ Held' = [Held EXCEPT ![m] = NULL]
      /\ m \in Holder /\ Held[m] = Ptr(m)
  BY <1>1, PtrCounted, WriteMaybe DEF BecomeBorrow, IInv
<1>3. Counts(Held') = reset(retain(Counts(Held), NULL), Held[m])
  <2>1. Held \in [Holder -> Pointer]
    BY HeldOwners DEF IInv
  <2> HIDE DEF Held
  <2> QED
    BY <1>1, <1>2, <2>1, TakeCounts
<1>4. Counts(Held') = reset(refcount, Ptr(m))
  BY <1>2, <1>3 DEF retain, IInv
<1>5. Ptr(n) # NULL => Counts(Held')[Ptr(n)] > 0
  <2>1. SUFFICES ASSUME Ptr(n) # NULL PROVE Counts(Held')[Ptr(n)] > 0
    OBVIOUS
  <2>2. PICK o \in Object : o = Ptr(n)
    BY <1>1, <2>1, PtrCounted DEF Pointer
  <2>3. maybe'[m].kind = "borrowed" /\ maybe'[m].ptr = o
    BY <1>1, <2>2 DEF BecomeBorrow, IInv, Typed, IsBorrowed, Ptr
  <2>4. Owners(o)' # {}
    BY <2>1, <2>2, <2>3 DEF Lent, IsBorrowed, Ptr
  <2>5. Owners(o)' = Holding(Held, o)'
    BY <1>2, HeldOwnersNext
  <2>6. Holding(Held', o) # {}
    BY <1>2, <2>4, <2>5 DEF Holding
  <2> QED
    BY <2>2, <2>6, CountsType
<1>6. Counts(Held') \in [Object -> Nat]
  BY CountsType
<1>7. refcount' = Counts(Held')
  BY <1>1, <1>4, <1>5, <1>6, PtrCounted, BorrowIsFree DEF BecomeBorrow
<1> QED
  BY <1>2, <1>7 DEF Counts, Holding

-----------------------------------------------------------------------------
LEMMA Initially == Init => IInv
<1> SUFFICES ASSUME Init PROVE IInv
  OBVIOUS
<1>1. Typed
  BY Values DEF Init, Typed
<1>2. Lent
  BY DEF Init, Lent, IsBorrowed, None
<1>3. \A p \in Holder : Held[p] = NULL
  BY Values DEF Init, Held, Holder
<1>4. \A o \in Object : Holding(Held, o) = {}
  BY <1>3, PointerAssumption DEF Holding
<1>5. \A o \in Object : Cardinality(Holding(Held, o)) = 0
  BY <1>4, FS_EmptySet
<1>6. refcount = Counts(Held)
  BY <1>5 DEF Init, Counts
<1> QED
  BY <1>1, <1>2, <1>6 DEF IInv

\* One step for each action of the client, and of a MaybeOwned.
LEMMA Preserved == IInv /\ [Next]_vars => IInv'
<1> SUFFICES ASSUME IInv, [Next]_vars PROVE IInv'
  OBVIOUS
<1>1. CASE UNCHANGED vars
  BY <1>1 DEF vars, IInv, Typed, Held, Counts, Holding, Lent, IsBorrowed, Ptr,
              Owners
<1>2. CASE Next
  <2>1. Lent' /\ Step
    BY <1>2 DEF Next
  <2>2. Typed' /\ Effect => Typed' /\ refcount' = Counts(Held)'
    BY EffectCounts
  <2>3. SUFFICES Typed' /\ refcount' = Counts(Held)'
    BY <2>1 DEF IInv
  <2>4. ASSUME NEW h \in Handle, Reset(h)
        PROVE  Typed' /\ refcount' = Counts(Held)'
    BY <2>2, <2>4, ResetEffect
  <2>5. ASSUME NEW h \in Handle, NEW o \in Object, Make(h, o)
        PROVE  Typed' /\ refcount' = Counts(Held)'
    BY <2>5, MakeStep
  <2>6. ASSUME NEW h \in Handle, NEW o \in Visible, Copy(h, o)
        PROVE  Typed' /\ refcount' = Counts(Held)'
    BY <2>2, <2>6, CopyEffect
  <2>7. ASSUME NEW h \in Handle, NEW m \in Maybe, owned(m, h)
        PROVE  Typed' /\ refcount' = Counts(Held)'
    BY <2>2, <2>7, ownedEffect
  <2>8. ASSUME NEW h \in Handle, NEW m \in Maybe, Deref(h, m)
        PROVE  Typed' /\ refcount' = Counts(Held)'
    BY <2>2, <2>8, DerefEffect
  <2>9. ASSUME NEW m \in Maybe, Default(m)
        PROVE  Typed' /\ refcount' = Counts(Held)'
    BY <2>2, <2>9, DefaultEffect
  <2>10. ASSUME NEW m \in Maybe, Destroy(m)
         PROVE  Typed' /\ refcount' = Counts(Held)'
    BY <2>2, <2>10, DestroyEffect
  <2>11. ASSUME NEW m \in Maybe, NEW o \in Visible, borrowed(m, o)
         PROVE  Typed' /\ refcount' = Counts(Held)'
    BY <2>2, <2>11, borrowedEffect
  <2>12. ASSUME NEW m \in Maybe, NEW o \in Visible, ownedInPlace(m, o)
         PROVE  Typed' /\ refcount' = Counts(Held)'
    BY <2>2, <2>12, ownedInPlaceEffect
  <2>13. ASSUME NEW m \in Maybe, NEW n \in Maybe, CopyConstruct(m, n)
         PROVE  Typed' /\ refcount' = Counts(Held)'
    BY <2>2, <2>13, CopyConstructEffect
  <2>14. ASSUME NEW m \in Maybe, NEW n \in Maybe, MoveConstruct(m, n)
         PROVE  Typed' /\ refcount' = Counts(Held)'
    BY <2>2, <2>14, MoveConstructEffect
  <2>15. ASSUME NEW m \in Maybe, NEW n \in Maybe, CopyAssign(m, n)
         PROVE  Typed' /\ refcount' = Counts(Held)'
    BY <2>1, <2>2, <2>15, BecomeBorrowStep, AssignBorrowEffect, CopyOwnedEffect
       DEF CopyAssign
  <2>16. ASSUME NEW m \in Maybe, NEW n \in Maybe, MoveAssign(m, n)
         PROVE  Typed' /\ refcount' = Counts(Held)'
    BY <2>1, <2>2, <2>16, BecomeBorrowStep, AssignBorrowEffect, MoveOwnedEffect
       DEF MoveAssign
  <2> QED
    BY <2>1, <2>4, <2>5, <2>6, <2>7, <2>8, <2>9, <2>10, <2>11, <2>12, <2>13,
       <2>14, <2>15, <2>16 DEF Step
<1> QED
  BY <1>1, <1>2 DEF IInv

\* Whatever the client copies, moves, assigns and borrows, the counts are those
\* of the owners, as long as it keeps an owner of what it has lent.
THEOREM CountsAreOwners == Spec => []CountIsOwners
<1>1. IInv => CountIsOwners
  BY HeldOwners DEF IInv, CountIsOwners, Counts
<1> QED
  BY <1>1, Initially, Preserved, PTL DEF Spec

\* No count is ever touched when its object is gone: none is Corrupt.
THEOREM TypeCorrect == Spec => []TypeOK
<1>1. IInv => TypeOK
  BY CountsType DEF IInv, TypeOK, Typed, Value
<1> QED
  BY <1>1, Initially, Preserved, PTL DEF Spec

=============================================================================
