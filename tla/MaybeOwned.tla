---------------------------- MODULE MaybeOwned ----------------------------
(***************************************************************************)
(* c10/util/MaybeOwned.h for intrusive_ptr, with MaybeOwnedTraits of       *)
(* c10/util/IntrusivePtr.h: an object that either owns a pointer or holds  *)
(* a borrow, which is an intrusive_ptr that is not counted.                *)
(*                                                                         *)
(* The class does nothing about threads: what it calls in intrusive_ptr is *)
(* atomic where module IntrusivePtr says so, and one thread is enough to   *)
(* see what the class adds.                                                *)
(*                                                                         *)
(* The client keeps an owner of everything that is borrowed (Lent).        *)
(***************************************************************************)
EXTENDS Integers, FiniteSets

CONSTANTS
  Object,  \* memory an object can be constructed at
  Handle,  \* intrusive_ptrs of the client
  Maybe,   \* memory a MaybeOwned can be constructed at
  NULL     \* the singleton of the null pointer

ASSUME PointerAssumption ==
  /\ NULL \notin Object /\ Handle \cap Maybe = {}
  /\ IsFiniteSet(Handle) /\ IsFiniteSet(Maybe)

VARIABLES
  refcount,  \* of each object; 0 if there is none
  target,    \* target_ of each intrusive_ptr of the client
  maybe      \* each MaybeOwned, or None

vars == <<refcount, target, maybe>>

Pointer == Object \cup {NULL}

Owned(o) == [kind |-> "owned", ptr |-> o]
Borrow(o) == [kind |-> "borrowed", ptr |-> o]
None == [kind |-> "none", ptr |-> NULL]

Free(m) == maybe[m].kind = "none"
Exists(m) == ~Free(m)
IsBorrowed(m) == maybe[m].kind = "borrowed"
IsOwned(m) == maybe[m].kind = "owned"
Ptr(m) == maybe[m].ptr

\* Objects in a pointer that the client can name: one of its own, or the one
\* that operator* of a MaybeOwned refers to.
Visible ==
  {target[h] : h \in Handle} \cup {Ptr(m) : m \in {n \in Maybe : Exists(n)}}

Owners(o) ==
  {h \in Handle : target[h] = o} \cup {m \in Maybe : maybe[m] = Owned(o)}

\* A count that is touched when there is no object.
Corrupt == -1

retain(count, o) ==
  IF o = NULL THEN count
  ELSE [count EXCEPT ![o] = IF @ > 0 THEN @ + 1 ELSE Corrupt]

\* The object is deleted when the count reaches 0.
reset(count, o) ==
  IF o = NULL THEN count
  ELSE [count EXCEPT ![o] = IF @ > 0 THEN @ - 1 ELSE Corrupt]

\* Faulty: lhs is not released, and the assignment resets what it held.
assignBorrowNoRelease(count, lhs, rhs) ==
  reset(reset(retain(count, rhs), lhs), rhs)

\* assignBorrow(lhs, rhs).  The parameter rhs is a copy that is counted for
\* as long as the call lasts.  lhs, which may hold anything, is released, so
\* that the assignment to it resets a null pointer.
assignBorrow(count, lhs, rhs) == reset(reset(retain(count, rhs), NULL), rhs)

-----------------------------------------------------------------------------
Init ==
  /\ refcount = [o \in Object |-> 0]
  /\ target = [h \in Handle |-> NULL]
  /\ maybe = [m \in Maybe |-> None]

(* What the client does with its own pointers.                              *)

Make(h, o) ==
  /\ target[h] = NULL /\ refcount[o] = 0
  /\ refcount' = [refcount EXCEPT ![o] = 1]
  /\ target' = [target EXCEPT ![h] = o]
  /\ UNCHANGED maybe

Copy(h, o) ==
  /\ target[h] = NULL /\ o # NULL
  /\ refcount' = retain(refcount, o)
  /\ target' = [target EXCEPT ![h] = o]
  /\ UNCHANGED maybe

Reset(h) ==
  /\ target[h] # NULL
  /\ refcount' = reset(refcount, target[h])
  /\ target' = [target EXCEPT ![h] = NULL]
  /\ UNCHANGED maybe

-----------------------------------------------------------------------------
(* Constructors of the MaybeOwned m.                                        *)

Default(m) ==
  /\ Free(m)
  /\ maybe' = [maybe EXCEPT ![m] = Borrow(NULL)]
  /\ UNCHANGED <<refcount, target>>

\* borrowed(t), where t is a reference to a pointer to o.
borrowed(m, o) ==
  /\ Free(m)
  /\ maybe' = [maybe EXCEPT ![m] = Borrow(o)]
  /\ UNCHANGED <<refcount, target>>

\* owned(std::move(h)).
owned(m, h) ==
  /\ Free(m)
  /\ maybe' = [maybe EXCEPT ![m] = Owned(target[h])]
  /\ target' = [target EXCEPT ![h] = NULL]
  /\ UNCHANGED refcount

\* owned(std::in_place, t).
ownedInPlace(m, o) ==
  /\ Free(m)
  /\ refcount' = retain(refcount, o)
  /\ maybe' = [maybe EXCEPT ![m] = Owned(o)]
  /\ UNCHANGED target

\* The copy constructor assigns to a borrow_ that was never constructed and
\* holds the bits of any pointer.
CopyConstruct(m, n) ==
  /\ Free(m) /\ Exists(n)
  /\ \E garbage \in Pointer :
       refcount' = IF IsBorrowed(n) THEN assignBorrow(refcount, garbage, Ptr(n))
                   ELSE retain(refcount, Ptr(n))
  /\ maybe' = [maybe EXCEPT ![m] = maybe[n]]
  /\ UNCHANGED target

\* The move constructor leaves a borrow where it is.
MoveConstruct(m, n) ==
  /\ Free(m) /\ Exists(n)
  /\ \/ /\ IsBorrowed(n)
        /\ \E garbage \in Pointer :
             refcount' = assignBorrow(refcount, garbage, Ptr(n))
        /\ maybe' = [maybe EXCEPT ![m] = maybe[n]]
     \/ /\ IsOwned(n)
        /\ maybe' = [maybe EXCEPT ![m] = maybe[n], ![n] = Owned(NULL)]
        /\ UNCHANGED refcount
  /\ UNCHANGED target

-----------------------------------------------------------------------------
(* Assignments m = n.  An assignment to itself returns early.               *)

\* An owner becomes a borrower: own_ is destroyed, and borrow_ has its bits
\* when it is assigned to.
BecomeBorrow(m, n) ==
  /\ IsOwned(m) /\ IsBorrowed(n)
  /\ refcount' = assignBorrow(reset(refcount, Ptr(m)), Ptr(m), Ptr(n))
  /\ maybe' = [maybe EXCEPT ![m] = maybe[n]]

AssignBorrow(m, n) ==
  /\ IsBorrowed(m) /\ IsBorrowed(n)
  /\ refcount' = assignBorrow(refcount, Ptr(m), Ptr(n))
  /\ maybe' = [maybe EXCEPT ![m] = maybe[n]]

\* A borrow is forgotten, and an owned pointer released, after n is copied.
CopyOwned(m, n) ==
  /\ Exists(m) /\ IsOwned(n)
  /\ refcount' = LET copied == retain(refcount, Ptr(n)) IN
                 IF IsBorrowed(m) THEN copied ELSE reset(copied, Ptr(m))
  /\ maybe' = [maybe EXCEPT ![m] = maybe[n]]

\* Faulty: a pointer that m owned is forgotten like a borrow.
MoveOwnedForgets(m, n) ==
  /\ Exists(m) /\ IsOwned(n)
  /\ maybe' = [maybe EXCEPT ![m] = maybe[n], ![n] = Owned(NULL)]
  /\ UNCHANGED refcount

MoveOwned(m, n) ==
  /\ Exists(m) /\ IsOwned(n)
  /\ refcount' = IF IsBorrowed(m) THEN refcount ELSE reset(refcount, Ptr(m))
  /\ maybe' = [maybe EXCEPT ![m] = maybe[n], ![n] = Owned(NULL)]

CopyAssign(m, n) ==
  /\ m # n
  /\ BecomeBorrow(m, n) \/ AssignBorrow(m, n) \/ CopyOwned(m, n)
  /\ UNCHANGED target

MoveAssign(m, n) ==
  /\ m # n
  /\ BecomeBorrow(m, n) \/ AssignBorrow(m, n) \/ MoveOwned(m, n)
  /\ UNCHANGED target

-----------------------------------------------------------------------------
Destroy(m) ==
  /\ Exists(m)
  /\ refcount' = IF IsBorrowed(m) THEN refcount ELSE reset(refcount, Ptr(m))
  /\ maybe' = [maybe EXCEPT ![m] = None]
  /\ UNCHANGED target

\* h = *std::move(m), for an h that is null.
Deref(h, m) ==
  /\ target[h] = NULL /\ Exists(m) /\ Ptr(m) # NULL
  /\ target' = [target EXCEPT ![h] = Ptr(m)]
  /\ \/ /\ IsBorrowed(m)
        /\ refcount' = retain(refcount, Ptr(m))
        /\ UNCHANGED maybe
     \/ /\ IsOwned(m)
        /\ maybe' = [maybe EXCEPT ![m] = Owned(NULL)]
        /\ UNCHANGED refcount

Step ==
  \/ \E h \in Handle :
       \/ Reset(h)
       \/ \E o \in Object : Make(h, o)
       \/ \E o \in Visible : Copy(h, o)
       \/ \E m \in Maybe : owned(m, h) \/ Deref(h, m)
  \/ \E m \in Maybe :
       \/ Default(m) \/ Destroy(m)
       \/ \E o \in Visible : borrowed(m, o) \/ ownedInPlace(m, o)
       \/ \E n \in Maybe :
            \/ CopyConstruct(m, n) \/ MoveConstruct(m, n)
            \/ CopyAssign(m, n) \/ MoveAssign(m, n)

\* What is borrowed has an owner.
Lent ==
  \A m \in Maybe : IsBorrowed(m) /\ Ptr(m) # NULL => Owners(Ptr(m)) # {}

\* The client does nothing that would leave a borrow without an owner.
Next == Step /\ Lent'

Spec == Init /\ [][Next]_vars

-----------------------------------------------------------------------------
TypeOK ==
  /\ refcount \in [Object -> Nat]
  /\ target \in [Handle -> Pointer]
  /\ maybe \in [Maybe -> {Owned(o) : o \in Pointer} \cup
                         {Borrow(o) : o \in Pointer} \cup {None}]

\* The count of an object is the number of its owners.  Borrows, and what is
\* copied, moved and assigned from one kind to the other, leave it as it is,
\* although each assignment of a borrow counts a pointer for a while, and an
\* object is deleted with its last owner (IntrusivePtr.h:390, MaybeOwned.h:82).
CountIsOwners == \A o \in Object : refcount[o] = Cardinality(Owners(o))

=============================================================================
