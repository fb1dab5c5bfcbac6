---------------------------- MODULE IntrusivePtr ----------------------------
(***************************************************************************)
(* The reference counting of c10/util/IntrusivePtr.h: intrusive_ptr,       *)
(* weak_intrusive_ptr and the raw:: functions, run by several threads.     *)
(*                                                                         *)
(* Every step of a thread performs at most one operation on an atomic      *)
(* counter, so TLC and the proofs see every interleaving of the loads,     *)
(* fetch_adds, fetch_subs and compare_exchanges of the code.               *)
(*                                                                         *)
(* A pointer value lives in a slot: a named intrusive_ptr (Ptr) or         *)
(* weak_intrusive_ptr (WeakPtr), a raw T* that a release() made an owner   *)
(* (RawPtr, RawWeakPtr), or the temporary of the expression a thread is    *)
(* evaluating (the slot of the Thread itself: the value a function         *)
(* returns, `tmp' of operator=, the pointer whose destructor runs).        *)
(*                                                                         *)
(* The client obeys the rules of C++: a pointer object that one thread     *)
(* reads is not modified by another (Pinned), and a raw owner is given     *)
(* back once.  It never calls weak_intrusive_ptr::reset(), which is the    *)
(* subject of module IntrusivePtrWeakReset.                                *)
(***************************************************************************)
EXTENDS Integers, FiniteSets

CONSTANTS
  Thread,       \* threads of the client
  Object,       \* memory an intrusive_ptr_target can be allocated at
  Ptr,          \* named intrusive_ptr objects
  RawPtr,       \* raw T* that own one strong count
  WeakPtr,      \* named weak_intrusive_ptr objects
  RawWeakPtr,   \* raw T* that own one weak count
  NULL,         \* NullType::null()
  CountMax      \* largest value of a counter (2^32 - 1 in the code)

StrongSlot == Ptr \cup RawPtr \cup Thread
WeakSlot   == WeakPtr \cup RawWeakPtr \cup Thread

ASSUME FiniteAssumption == IsFiniteSet(StrongSlot) /\ IsFiniteSet(WeakSlot)
ASSUME DisjointAssumption ==
  /\ Ptr \cap RawPtr = {} /\ (Ptr \cup RawPtr) \cap Thread = {}
  /\ WeakPtr \cap RawWeakPtr = {} /\ (WeakPtr \cup RawWeakPtr) \cap Thread = {}
  /\ RawPtr \cap (WeakPtr \cup RawWeakPtr) = {}
ASSUME NullAssumption == NULL \notin Object \cup StrongSlot \cup WeakSlot
\* The counters are wide enough for the pointers there are.
ASSUME WidthAssumption ==
  /\ CountMax \in Nat
  /\ Cardinality(StrongSlot) < CountMax
  /\ Cardinality(WeakSlot) < CountMax

VARIABLES
  refcount,     \* refcount_ of each target
  weakcount,    \* weakcount_ of each target
  life,         \* what has been done to each target
  strong,       \* target_ of each strong slot
  weak,         \* target_ of each weak slot
  pc,           \* where each thread is
  obj,          \* target a thread works on without (yet) owning a count of it
  src,          \* slot a thread is reading for the length of a call
  expected      \* lock(): the local variable `refcount'

vars == <<refcount, weakcount, life, strong, weak, pc, obj, src, expected>>
frame == <<obj, src, expected>>

ResetPC       == {"load_weak", "release", "dec_weak", "delete"}
LockPC        == {"expire", "load", "cas"}
ReclaimPC     == {"reclaim_ref", "reclaim_weak", "reclaimed"}
WeakReclaimPC == {"wreclaim_weak", "wreclaim_ref", "wreclaim_weak2",
                  "wreclaimed"}
PC == {"idle", "temp", "dec", "wtemp", "wdec", "thrown"}
        \cup ResetPC \cup LockPC \cup ReclaimPC \cup WeakReclaimPC

-----------------------------------------------------------------------------
(* The counters.  fetch_add and fetch_sub wrap around.                      *)

Inc(c) == IF c = CountMax THEN 0 ELSE c + 1
Dec(c) == IF c = 0 THEN CountMax ELSE c - 1

Goto(t, label) == pc' = [pc EXCEPT ![t] = label]
Swapped(f, a, b) == [f EXCEPT ![a] = f[b], ![b] = f[a]]

\* Some thread is executing a call that reads slot h.
Pinned(h) == \E t \in Thread : src[t] = h
PinnedByOther(t, h) == \E u \in Thread \ {t} : src[u] = h

\* The end of a call that leaves no temporary behind.
Return(t) ==
  /\ Goto(t, "idle")
  /\ obj' = [obj EXCEPT ![t] = NULL]
  /\ src' = [src EXCEPT ![t] = NULL]
  /\ expected' = [expected EXCEPT ![t] = 0]

\* retain_() of a new intrusive_ptr to o, and its TORCH_CHECK.
Retain(t, o) ==
  LET new == Inc(refcount[o]) IN
  /\ refcount' = [refcount EXCEPT ![o] = new]
  /\ IF new # 1
     THEN strong' = [strong EXCEPT ![t] = o] /\ Goto(t, "temp")
     ELSE UNCHANGED strong /\ Goto(t, "thrown")
  /\ UNCHANGED <<weakcount, life, weak>>

\* retain_() of a new weak_intrusive_ptr to o, and its TORCH_CHECK.
WeakRetain(t, o) ==
  LET new == Inc(weakcount[o]) IN
  /\ weakcount' = [weakcount EXCEPT ![o] = new]
  /\ IF new # 1
     THEN weak' = [weak EXCEPT ![t] = o] /\ Goto(t, "wtemp")
     ELSE UNCHANGED weak /\ Goto(t, "thrown")
  /\ UNCHANGED <<refcount, life, strong>>

-----------------------------------------------------------------------------
Init ==
  /\ refcount = [o \in Object |-> 0]
  /\ weakcount = [o \in Object |-> 0]
  /\ life = [o \in Object |-> "free"]
  /\ strong = [s \in StrongSlot |-> NULL]
  /\ weak = [s \in WeakSlot |-> NULL]
  /\ pc = [t \in Thread |-> "idle"]
  /\ obj = [t \in Thread |-> NULL]
  /\ src = [t \in Thread |-> NULL]
  /\ expected = [t \in Thread |-> 0]

-----------------------------------------------------------------------------
(* intrusive_ptr.                                                           *)

\* make(): `new TTarget' and the private constructor that adopts it.  No
\* other thread has the address yet, so its plain stores are one step, and the
\* check before them finds the counts at the 0 that a new target starts with.
Make(t) ==
  /\ pc[t] = "idle"
  /\ \E o \in Object :
       /\ life[o] = "free"
       /\ life' = [life EXCEPT ![o] = "live"]
       /\ refcount' = [refcount EXCEPT ![o] = 1]
       /\ weakcount' = [weakcount EXCEPT ![o] = 1]
       /\ strong' = [strong EXCEPT ![t] = o]
  /\ Goto(t, "temp")
  /\ UNCHANGED <<weak, frame>>

\* Copy construction from q, also of the `tmp' of a copy assignment.
CopyConstruct(t, q) ==
  /\ pc[t] = "idle"
  /\ strong[q] # NULL
  /\ Retain(t, strong[q])
  /\ UNCHANGED frame

\* Move construction from q, also of the `tmp' of a move assignment.
MoveConstruct(t, q) ==
  /\ pc[t] = "idle"
  /\ strong[q] # NULL
  /\ strong' = Swapped(strong, t, q)
  /\ Goto(t, "temp")
  /\ UNCHANGED <<refcount, weakcount, life, weak, frame>>

\* The temporary becomes the value of p.  operator= swaps the two and runs
\* the destructor of what p held; a p that held nothing (or is only now
\* constructed) leaves nothing to destroy.
Assign(t, p) ==
  /\ pc[t] = "temp"
  /\ strong' = Swapped(strong, t, p)
  /\ Goto(t, IF strong[p] = NULL THEN "idle" ELSE "dec")
  /\ UNCHANGED <<refcount, weakcount, life, weak, frame>>

\* p.reset() and ~intrusive_ptr() of a named pointer.  The target_ that
\* reset_() works on is in the slot of the thread from here on.
Reset(t, p) ==
  /\ pc[t] = "idle"
  /\ strong[p] # NULL
  /\ strong' = Swapped(strong, t, p)
  /\ Goto(t, "dec")
  /\ UNCHANGED <<refcount, weakcount, life, weak, frame>>

\* The temporary is destroyed at the end of the expression.
DestroyTemp(t) ==
  /\ pc[t] = "temp"
  /\ Goto(t, "dec")
  /\ UNCHANGED <<refcount, weakcount, life, strong, weak, frame>>

\* release(): the count the temporary holds is now owned by the raw r.
Release(t, r) ==
  /\ pc[t] = "temp"
  /\ strong[r] = NULL
  /\ strong' = Swapped(strong, t, r)
  /\ Goto(t, "idle")
  /\ UNCHANGED <<refcount, weakcount, life, weak, frame>>

\* raw::intrusive_ptr::incref() of the target of q, a raw owner or the get()
\* of a pointer; the new count is owned by the raw r.
IncRef(t, q, r) ==
  /\ pc[t] = "idle"
  /\ strong[q] # NULL /\ strong[r] = NULL
  /\ refcount' = [refcount EXCEPT ![strong[q]] = Inc(@)]
  /\ strong' = [strong EXCEPT ![r] = strong[q]]
  /\ UNCHANGED <<weakcount, life, weak, pc, frame>>

(* reset_(), one step per access to a counter.                              *)

\* Faulty: the last but one owner already goes on.
DecRefEarly(t) ==
  LET o == strong[t] IN
  /\ pc[t] = "dec"
  /\ refcount' = [refcount EXCEPT ![o] = Dec(@)]
  /\ strong' = [strong EXCEPT ![t] = NULL]
  /\ \/ /\ Dec(refcount[o]) <= 1
        /\ obj' = [obj EXCEPT ![t] = o]
        /\ Goto(t, "load_weak")
     \/ /\ Dec(refcount[o]) > 1
        /\ Goto(t, "idle")
        /\ UNCHANGED obj
  /\ UNCHANGED <<weakcount, life, weak, src, expected>>

\* fetch_sub on refcount_.  The count this thread gave up no longer
\* protects the target; only the last owner goes on.
DecRef(t) ==
  LET o == strong[t] IN
  /\ pc[t] = "dec"
  /\ refcount' = [refcount EXCEPT ![o] = Dec(@)]
  /\ strong' = [strong EXCEPT ![t] = NULL]
  /\ \/ /\ Dec(refcount[o]) = 0
        /\ obj' = [obj EXCEPT ![t] = o]
        /\ Goto(t, "load_weak")
     \/ /\ Dec(refcount[o]) # 0
        /\ Goto(t, "idle")
        /\ UNCHANGED obj
  /\ UNCHANGED <<weakcount, life, weak, src, expected>>

\* Faulty: one weak pointer is taken for none.
LoadWeakOffByOne(t) ==
  /\ pc[t] = "load_weak"
  /\ Goto(t, IF weakcount[obj[t]] <= 2 THEN "delete" ELSE "release")
  /\ UNCHANGED <<refcount, weakcount, life, strong, weak, frame>>

\* Faulty: the resources are left to the last weak pointer.
LoadWeakForgetsRelease(t) ==
  /\ pc[t] = "load_weak"
  /\ Goto(t, IF weakcount[obj[t]] = 1 THEN "delete" ELSE "dec_weak")
  /\ UNCHANGED <<refcount, weakcount, life, strong, weak, frame>>

\* The acquire load of weakcount_: 1 means that there is no weak pointer.
LoadWeak(t) ==
  /\ pc[t] = "load_weak"
  /\ Goto(t, IF weakcount[obj[t]] = 1 THEN "delete" ELSE "release")
  /\ UNCHANGED <<refcount, weakcount, life, strong, weak, frame>>

\* release_resources() of a target that weak pointers outlive.
ReleaseResources(t) ==
  /\ pc[t] = "release"
  /\ life' = [life EXCEPT ![obj[t]] = "released"]
  /\ Goto(t, "dec_weak")
  /\ UNCHANGED <<refcount, weakcount, strong, weak, frame>>

\* Faulty: the decrement hits the other counter, which is signed.
DecWeakShareSigned(t) ==
  /\ pc[t] = "dec_weak"
  /\ refcount' = [refcount EXCEPT ![obj[t]] = @ - 1]
  /\ Return(t)
  /\ UNCHANGED <<weakcount, life, strong, weak>>

\* Faulty: fetch_sub's result, the old value, is compared with 1 or less.
DecWeakShareEarly(t) ==
  /\ pc[t] = "dec_weak"
  /\ weakcount' = [weakcount EXCEPT ![obj[t]] = Dec(@)]
  /\ \/ /\ Dec(weakcount[obj[t]]) <= 1
        /\ Goto(t, "delete")
        /\ UNCHANGED frame
     \/ /\ Dec(weakcount[obj[t]]) > 1
        /\ Return(t)
  /\ UNCHANGED <<refcount, life, strong, weak>>

\* Faulty: the last weak pointer is believed to delete the target always.
DecWeakShareKeeps(t) ==
  /\ pc[t] = "dec_weak"
  /\ weakcount' = [weakcount EXCEPT ![obj[t]] = Dec(@)]
  /\ Return(t)
  /\ UNCHANGED <<refcount, life, strong, weak>>

\* fetch_sub of the weak count that all strong owners share.
DecWeakShare(t) ==
  /\ pc[t] = "dec_weak"
  /\ weakcount' = [weakcount EXCEPT ![obj[t]] = Dec(@)]
  /\ \/ /\ Dec(weakcount[obj[t]]) = 0
        /\ Goto(t, "delete")
        /\ UNCHANGED frame
     \/ /\ Dec(weakcount[obj[t]]) # 0
        /\ Return(t)
  /\ UNCHANGED <<refcount, life, strong, weak>>

\* delete target_.  The counters of freed memory are abstracted to 0.
Delete(t) ==
  /\ pc[t] = "delete"
  /\ life' = [life EXCEPT ![obj[t]] = "free"]
  /\ refcount' = [refcount EXCEPT ![obj[t]] = 0]
  /\ weakcount' = [weakcount EXCEPT ![obj[t]] = 0]
  /\ Return(t)
  /\ UNCHANGED <<strong, weak>>

(* reclaim(r): the two loads of its TORCH_CHECK, then what the caller does  *)
(* with the pointer it returns.  r keeps its count until reclaim returns.   *)

ReclaimBegin(t, r) ==
  /\ pc[t] = "idle"
  /\ strong[r] # NULL
  /\ obj' = [obj EXCEPT ![t] = strong[r]]
  /\ src' = [src EXCEPT ![t] = r]
  /\ Goto(t, "reclaim_ref")
  /\ UNCHANGED <<refcount, weakcount, life, strong, weak, expected>>

ReclaimLoadRef(t) ==
  /\ pc[t] = "reclaim_ref"
  /\ Goto(t, IF refcount[obj[t]] = 0 THEN "reclaimed" ELSE "reclaim_weak")
  /\ UNCHANGED <<refcount, weakcount, life, strong, weak, frame>>

ReclaimLoadWeak(t) ==
  /\ pc[t] = "reclaim_weak"
  /\ Goto(t, IF weakcount[obj[t]] > 0 THEN "reclaimed" ELSE "thrown")
  /\ UNCHANGED <<refcount, weakcount, life, strong, weak, frame>>

\* reclaim(r) takes over the count of r.  Destroying the result is decref().
Reclaim(t) ==
  /\ pc[t] = "reclaimed"
  /\ ~PinnedByOther(t, src[t])
  /\ strong' = Swapped(strong, t, src[t])
  /\ Goto(t, "temp")
  /\ obj' = [obj EXCEPT ![t] = NULL]
  /\ src' = [src EXCEPT ![t] = NULL]
  /\ UNCHANGED <<refcount, weakcount, life, weak, expected>>

\* reclaim_copy(r) adds a count; r keeps its own.
ReclaimCopy(t) ==
  /\ pc[t] = "reclaimed"
  /\ Retain(t, obj[t])
  /\ obj' = [obj EXCEPT ![t] = NULL]
  /\ src' = [src EXCEPT ![t] = NULL]
  /\ UNCHANGED expected

\* raw::intrusive_ptr::make_weak(r), up to its wptr.release().
MakeWeak(t) ==
  /\ pc[t] = "reclaimed"
  /\ WeakRetain(t, obj[t])
  /\ obj' = [obj EXCEPT ![t] = NULL]
  /\ src' = [src EXCEPT ![t] = NULL]
  /\ UNCHANGED expected

-----------------------------------------------------------------------------
(* weak_intrusive_ptr.                                                      *)

\* The constructor from an intrusive_ptr q.
WeakConstruct(t, q) ==
  /\ pc[t] = "idle"
  /\ strong[q] # NULL
  /\ WeakRetain(t, strong[q])
  /\ UNCHANGED frame

WeakCopyConstruct(t, w) ==
  /\ pc[t] = "idle"
  /\ weak[w] # NULL
  /\ WeakRetain(t, weak[w])
  /\ UNCHANGED frame

WeakMoveConstruct(t, w) ==
  /\ pc[t] = "idle"
  /\ weak[w] # NULL /\ ~Pinned(w)
  /\ weak' = Swapped(weak, t, w)
  /\ Goto(t, "wtemp")
  /\ UNCHANGED <<refcount, weakcount, life, strong, frame>>

\* The temporary becomes the value of w, as in Assign.
WeakAssign(t, w) ==
  /\ pc[t] = "wtemp"
  /\ ~Pinned(w)
  /\ weak' = Swapped(weak, t, w)
  /\ Goto(t, IF weak[w] = NULL THEN "idle" ELSE "wdec")
  /\ UNCHANGED <<refcount, weakcount, life, strong, frame>>

\* ~weak_intrusive_ptr() of a named pointer.
WeakDestroy(t, w) ==
  /\ pc[t] = "idle"
  /\ weak[w] # NULL /\ ~Pinned(w)
  /\ weak' = Swapped(weak, t, w)
  /\ Goto(t, "wdec")
  /\ UNCHANGED <<refcount, weakcount, life, strong, frame>>

WeakDestroyTemp(t) ==
  /\ pc[t] = "wtemp"
  /\ Goto(t, "wdec")
  /\ UNCHANGED <<refcount, weakcount, life, strong, weak, frame>>

WeakRelease(t, r) ==
  /\ pc[t] = "wtemp"
  /\ weak[r] = NULL
  /\ weak' = Swapped(weak, t, r)
  /\ Goto(t, "idle")
  /\ UNCHANGED <<refcount, weakcount, life, strong, frame>>

\* raw::weak_intrusive_ptr::incref() of the target of w; the new count is
\* owned by the raw r.
WeakIncRef(t, w, r) ==
  /\ pc[t] = "idle"
  /\ weak[w] # NULL /\ weak[r] = NULL
  /\ weakcount' = [weakcount EXCEPT ![weak[w]] = Inc(@)]
  /\ weak' = [weak EXCEPT ![r] = weak[w]]
  /\ UNCHANGED <<refcount, life, strong, pc, frame>>

\* Faulty: deletes although the count of the strong owners is left.
DecWeakEarly(t) ==
  LET o == weak[t] IN
  /\ pc[t] = "wdec"
  /\ weakcount' = [weakcount EXCEPT ![o] = Dec(@)]
  /\ weak' = [weak EXCEPT ![t] = NULL]
  /\ \/ /\ Dec(weakcount[o]) <= 1
        /\ obj' = [obj EXCEPT ![t] = o]
        /\ Goto(t, "delete")
     \/ /\ Dec(weakcount[o]) > 1
        /\ Goto(t, "idle")
        /\ UNCHANGED obj
  /\ UNCHANGED <<refcount, life, src, strong, expected>>

\* Faulty: only strong owners delete the target.
DecWeakKeeps(t) ==
  /\ pc[t] = "wdec"
  /\ weakcount' = [weakcount EXCEPT ![weak[t]] = Dec(@)]
  /\ weak' = [weak EXCEPT ![t] = NULL]
  /\ Goto(t, "idle")
  /\ UNCHANGED <<refcount, life, strong, frame>>

\* reset_(): fetch_sub on weakcount_; whoever reaches 0 deletes the target.
DecWeak(t) ==
  LET o == weak[t] IN
  /\ pc[t] = "wdec"
  /\ weakcount' = [weakcount EXCEPT ![o] = Dec(@)]
  /\ weak' = [weak EXCEPT ![t] = NULL]
  /\ \/ /\ Dec(weakcount[o]) = 0
        /\ obj' = [obj EXCEPT ![t] = o]
        /\ Goto(t, "delete")
     \/ /\ Dec(weakcount[o]) # 0
        /\ Goto(t, "idle")
        /\ UNCHANGED obj
  /\ UNCHANGED <<refcount, life, strong, src, expected>>

(* lock(): expire(), the load, and the compare_exchange loop.               *)

LockBegin(t, w) ==
  /\ pc[t] = "idle"
  /\ weak[w] # NULL
  /\ obj' = [obj EXCEPT ![t] = weak[w]]
  /\ src' = [src EXCEPT ![t] = w]
  /\ Goto(t, "expire")
  /\ UNCHANGED <<refcount, weakcount, life, strong, weak, expected>>

LockExpire(t) ==
  /\ pc[t] = "expire"
  /\ \/ /\ refcount[obj[t]] = 0
        /\ Return(t)
     \/ /\ refcount[obj[t]] # 0
        /\ Goto(t, "load")
        /\ UNCHANGED frame
  /\ UNCHANGED <<refcount, weakcount, life, strong, weak>>

LockLoad(t) ==
  /\ pc[t] = "load"
  /\ expected' = [expected EXCEPT ![t] = refcount[obj[t]]]
  /\ Goto(t, "cas")
  /\ UNCHANGED <<refcount, weakcount, life, strong, weak, obj, src>>

\* The local `refcount' is 0: lock() returns an empty intrusive_ptr.
LockEmpty(t) ==
  /\ pc[t] = "cas"
  /\ expected[t] = 0
  /\ Return(t)
  /\ UNCHANGED <<refcount, weakcount, life, strong, weak>>

\* Faulty: a plain store of the loaded value plus one.
LockSucceedStore(t) ==
  /\ pc[t] = "cas"
  /\ expected[t] # 0
  /\ refcount' = [refcount EXCEPT ![obj[t]] = Inc(expected[t])]
  /\ strong' = [strong EXCEPT ![t] = obj[t]]
  /\ Goto(t, "temp")
  /\ obj' = [obj EXCEPT ![t] = NULL]
  /\ src' = [src EXCEPT ![t] = NULL]
  /\ expected' = [expected EXCEPT ![t] = 0]
  /\ UNCHANGED <<weakcount, life, weak>>

\* Faulty: the loop does not test for 0.
LockSucceedZero(t) ==
  /\ pc[t] = "cas"
  /\ refcount[obj[t]] = expected[t]
  /\ refcount' = [refcount EXCEPT ![obj[t]] = Inc(expected[t])]
  /\ strong' = [strong EXCEPT ![t] = obj[t]]
  /\ Goto(t, "temp")
  /\ obj' = [obj EXCEPT ![t] = NULL]
  /\ src' = [src EXCEPT ![t] = NULL]
  /\ expected' = [expected EXCEPT ![t] = 0]
  /\ UNCHANGED <<weakcount, life, weak>>

\* compare_exchange_weak succeeds and the new pointer adopts the count.
LockSucceed(t) ==
  /\ pc[t] = "cas"
  /\ expected[t] # 0
  /\ refcount[obj[t]] = expected[t]
  /\ refcount' = [refcount EXCEPT ![obj[t]] = Inc(expected[t])]
  /\ strong' = [strong EXCEPT ![t] = obj[t]]
  /\ Goto(t, "temp")
  /\ obj' = [obj EXCEPT ![t] = NULL]
  /\ src' = [src EXCEPT ![t] = NULL]
  /\ expected' = [expected EXCEPT ![t] = 0]
  /\ UNCHANGED <<weakcount, life, weak>>

\* Faulty: an `if' instead of a loop.
LockFailGivesUp(t) ==
  /\ pc[t] = "cas"
  /\ expected[t] # 0
  /\ Return(t)
  /\ UNCHANGED <<refcount, weakcount, life, strong, weak>>

\* Faulty: the loaded value is passed by copy and never reloaded.
LockFailNoReload(t) ==
  /\ pc[t] = "cas"
  /\ expected[t] # 0
  /\ UNCHANGED vars

\* It fails, spuriously when the values agree, and reloads `refcount'.
LockFail(t) ==
  /\ pc[t] = "cas"
  /\ expected[t] # 0
  /\ expected' = [expected EXCEPT ![t] = refcount[obj[t]]]
  /\ UNCHANGED <<refcount, weakcount, life, strong, weak, pc, obj, src>>

(* weak_intrusive_ptr::reclaim(r): up to three loads in its TORCH_CHECK.    *)

WeakReclaimBegin(t, r) ==
  /\ pc[t] = "idle"
  /\ weak[r] # NULL
  /\ obj' = [obj EXCEPT ![t] = weak[r]]
  /\ src' = [src EXCEPT ![t] = r]
  /\ Goto(t, "wreclaim_weak")
  /\ UNCHANGED <<refcount, weakcount, life, strong, weak, expected>>

\* Faulty: a weak owner is expected to be accompanied by a strong one.
WeakReclaimLoadWeakOnly(t) ==
  /\ pc[t] = "wreclaim_weak"
  /\ Goto(t, IF weakcount[obj[t]] > 1 THEN "wreclaimed" ELSE "thrown")
  /\ UNCHANGED <<refcount, weakcount, life, strong, weak, frame>>

WeakReclaimLoadWeak(t) ==
  /\ pc[t] = "wreclaim_weak"
  /\ Goto(t, IF weakcount[obj[t]] > 1 THEN "wreclaimed" ELSE "wreclaim_ref")
  /\ UNCHANGED <<refcount, weakcount, life, strong, weak, frame>>

WeakReclaimLoadRef(t) ==
  /\ pc[t] = "wreclaim_ref"
  /\ Goto(t, IF refcount[obj[t]] = 0 THEN "wreclaim_weak2" ELSE "thrown")
  /\ UNCHANGED <<refcount, weakcount, life, strong, weak, frame>>

WeakReclaimLoadWeak2(t) ==
  /\ pc[t] = "wreclaim_weak2"
  /\ Goto(t, IF weakcount[obj[t]] > 0 THEN "wreclaimed" ELSE "thrown")
  /\ UNCHANGED <<refcount, weakcount, life, strong, weak, frame>>

\* reclaim(r) takes over the count of r.  Destroying the result is decref().
WeakReclaim(t) ==
  /\ pc[t] = "wreclaimed"
  /\ ~PinnedByOther(t, src[t])
  /\ weak' = Swapped(weak, t, src[t])
  /\ Goto(t, "wtemp")
  /\ obj' = [obj EXCEPT ![t] = NULL]
  /\ src' = [src EXCEPT ![t] = NULL]
  /\ UNCHANGED <<refcount, weakcount, life, strong, expected>>

\* reclaim_copy(r) adds a count; r keeps its own.
WeakReclaimCopy(t) ==
  /\ pc[t] = "wreclaimed"
  /\ WeakRetain(t, obj[t])
  /\ obj' = [obj EXCEPT ![t] = NULL]
  /\ src' = [src EXCEPT ![t] = NULL]
  /\ UNCHANGED expected

\* raw::weak_intrusive_ptr::lock(r) goes on with the loop of lock().
RawLock(t) ==
  /\ pc[t] = "wreclaimed"
  /\ Goto(t, "expire")
  /\ UNCHANGED <<refcount, weakcount, life, strong, weak, frame>>

-----------------------------------------------------------------------------
\* A step of a call that a thread has begun.
CallStep(t) ==
  \/ DecRef(t) \/ LoadWeak(t) \/ ReleaseResources(t) \/ DecWeakShare(t)
  \/ Delete(t) \/ DecWeak(t)
  \/ ReclaimLoadRef(t) \/ ReclaimLoadWeak(t)
  \/ LockExpire(t) \/ LockLoad(t) \/ LockEmpty(t) \/ LockSucceed(t)
  \/ LockFail(t)
  \/ WeakReclaimLoadWeak(t) \/ WeakReclaimLoadRef(t) \/ WeakReclaimLoadWeak2(t)

\* A choice of the client: which call to make, what to do with its result.
ClientStep(t) ==
  \/ Make(t) \/ DestroyTemp(t) \/ WeakDestroyTemp(t)
  \/ Reclaim(t) \/ ReclaimCopy(t) \/ MakeWeak(t)
  \/ WeakReclaim(t) \/ WeakReclaimCopy(t) \/ RawLock(t)
  \/ \E p \in Ptr :
       \/ CopyConstruct(t, p) \/ MoveConstruct(t, p) \/ Assign(t, p)
       \/ Reset(t, p) \/ WeakConstruct(t, p)
  \/ \E r \in RawPtr : Release(t, r) \/ ReclaimBegin(t, r)
  \/ \E q \in Ptr \cup RawPtr, r \in RawPtr : IncRef(t, q, r)
  \/ \E w \in WeakPtr :
       \/ WeakCopyConstruct(t, w) \/ WeakMoveConstruct(t, w)
       \/ WeakAssign(t, w) \/ WeakDestroy(t, w) \/ LockBegin(t, w)
  \/ \E r \in RawWeakPtr : WeakRelease(t, r) \/ WeakReclaimBegin(t, r)
  \/ \E w \in WeakPtr \cup RawWeakPtr, r \in RawWeakPtr : WeakIncRef(t, w, r)

Next == \E t \in Thread : CallStep(t) \/ ClientStep(t)

Spec == Init /\ [][Next]_vars

\* The operating system schedules a thread inside a call until it returns.
\* Nothing forces the client to make a call, and a compare_exchange_weak may
\* lose to other threads for ever.
FairSpec == Spec /\ \A t \in Thread : WF_vars(CallStep(t))

-----------------------------------------------------------------------------
(* What the counters, the slots and the threads must agree on.              *)

TypeOK ==
  /\ refcount \in [Object -> 0..CountMax]
  /\ weakcount \in [Object -> 0..CountMax]
  /\ life \in [Object -> {"free", "live", "released"}]
  /\ strong \in [StrongSlot -> Object \cup {NULL}]
  /\ weak \in [WeakSlot -> Object \cup {NULL}]
  /\ pc \in [Thread -> PC]
  /\ obj \in [Thread -> Object \cup {NULL}]
  /\ src \in [Thread -> RawPtr \cup WeakPtr \cup RawWeakPtr \cup {NULL}]
  /\ expected \in [Thread -> 0..CountMax]

StrongRefs(o) == {s \in StrongSlot : strong[s] = o}
WeakRefs(o) == {s \in WeakSlot : weak[s] = o}

\* t took refcount_ of o to 0 and has not given up the weak count that the
\* strong owners shared.
HoldsShare(t, o) ==
  obj[t] = o /\ pc[t] \in {"load_weak", "release", "dec_weak"}
Deletes(t, o) == obj[t] = o /\ pc[t] = "delete"

\* The strong owners of o, or the last of them while it cleans up, share one
\* weak count.
Shared(o) == StrongRefs(o) # {} \/ \E t \in Thread : HoldsShare(t, o)

\* refcount_ is the number of strong owners, and weakcount_ the number of weak
\* ones plus one for all the strong ones, at every step of every interleaving.
\* Only `delete' may leave the shared count standing (IntrusivePtr.h:131-143).
CountsExact ==
  \A o \in Object :
    /\ refcount[o] = Cardinality(StrongRefs(o))
    /\ (\E t \in Thread : Deletes(t, o)) \/
       weakcount[o] = Cardinality(WeakRefs(o)) + (IF Shared(o) THEN 1 ELSE 0)

\* No pointer and no thread in the middle of a call refers to memory that
\* has been deleted.
NoUseAfterFree ==
  \A o \in Object : life[o] = "free" =>
    /\ StrongRefs(o) = {} /\ WeakRefs(o) = {}
    /\ \A t \in Thread : obj[t] # o

\* An owner never sees a target whose release_resources() has run.
OwnersSeeResources ==
  \A o \in Object : StrongRefs(o) # {} => life[o] = "live"

\* The thread that runs `delete' is the only one that knows the target, and
\* the asserts of ~intrusive_ptr_target hold (IntrusivePtr.h:42-45).
DtorAsserts ==
  \A t \in Thread, o \in Object : Deletes(t, o) =>
    /\ refcount[o] = 0
    /\ weakcount[o] \in {0, 1}
SoleDeleter ==
  \A t \in Thread, o \in Object : Deletes(t, o) =>
    /\ StrongRefs(o) = {} /\ WeakRefs(o) = {}
    /\ \A u \in Thread \ {t} : obj[u] # o

\* No TORCH_CHECK of this header fails: not the ones of retain_(), and not
\* the ones of reclaim(), whose two or three loads other threads interleave
\* with (IntrusivePtr.h:122, 277, 431, 587).
ChecksNeverFail == \A t \in Thread : pc[t] # "thrown"

\* A target that is not free is referred to, or a thread is about to free it.
NoLeak ==
  \A o \in Object : life[o] # "free" =>
    \/ StrongRefs(o) # {} \/ WeakRefs(o) # {}
    \/ \E t \in Thread : HoldsShare(t, o) \/ Deletes(t, o)

\* Once refcount_ of a target is 0 it stays 0, whatever a lock() that loaded
\* an older value does, until the memory is used for a new target.
NoResurrection ==
  [][\A o \in Object :
       life[o] # "free" /\ refcount[o] = 0 => refcount'[o] = 0]_vars

\* lock() returns an empty pointer only if no owner is left at that moment,
\* also when it decides so from a refcount loaded many steps before.
LockEmptyOnlyIfExpired ==
  [][\A t \in Thread :
       pc[t] \in LockPC /\ pc'[t] = "idle" => StrongRefs(obj[t]) = {}]_vars

-----------------------------------------------------------------------------
(* The inductive invariant behind these properties.                         *)

\* What the slots and the locals of a thread hold at each point of a call.
FrameInv ==
  \A t \in Thread :
    /\ strong[t] # NULL <=> pc[t] \in {"temp", "dec"}
    /\ weak[t] # NULL <=> pc[t] \in {"wtemp", "wdec"}
    /\ pc[t] # "thrown" =>
         (obj[t] # NULL
            <=> pc[t] \in ResetPC \cup LockPC \cup ReclaimPC \cup WeakReclaimPC)

\* What a call reads from stays there until it is done with it.
PinInv ==
  \A t \in Thread :
    /\ pc[t] \in ReclaimPC => src[t] \in RawPtr /\ strong[src[t]] = obj[t]
    /\ pc[t] \in LockPC \cup WeakReclaimPC =>
         src[t] \in WeakPtr \cup RawWeakPtr /\ weak[src[t]] = obj[t]

\* After the last decrement of refcount_ one thread is responsible.
CloserInv ==
  \A t \in Thread, o \in Object :
    HoldsShare(t, o) =>
      /\ StrongRefs(o) = {}
      /\ life[o] = IF pc[t] = "dec_weak" THEN "released" ELSE "live"
      /\ \A u \in Thread \ {t} : ~HoldsShare(u, o) /\ ~Deletes(u, o)

\* What a thread concluded from an earlier load is still true.
LoadInv ==
  \A t \in Thread, o \in Object : obj[t] = o =>
    /\ pc[t] = "cas" /\ expected[t] = 0 => refcount[o] = 0
    /\ pc[t] \in {"wreclaim_ref", "wreclaim_weak2"} => StrongRefs(o) = {}

\* The part of the invariant that is about each thread alone.
LocalInv == TypeOK /\ FrameInv /\ PinInv

IInv ==
  /\ LocalInv
  /\ CountsExact
  /\ NoUseAfterFree /\ OwnersSeeResources /\ NoLeak
  /\ CloserInv /\ SoleDeleter /\ DtorAsserts
  /\ LoadInv /\ ChecksNeverFail

-----------------------------------------------------------------------------
(* Liveness, and what all this implements.                                  *)

\* Fairness of the calls is enough for the resources of a target without
\* owners to be given up, and for its memory to be freed when no weak
\* pointer is left either.
ResourcesReleased ==
  \A o \in Object :
    life[o] = "live" /\ StrongRefs(o) = {} ~> life[o] # "live"
Freed ==
  \A o \in Object :
    life[o] # "free" /\ StrongRefs(o) = {} /\ WeakRefs(o) = {}
      ~> life[o] = "free"

\* The loop of lock() ends once the target has expired.
LockReturns ==
  \A t \in Thread :
    pc[t] \in LockPC /\ refcount[obj[t]] = 0 ~> pc[t] = "idle"

\* The counters, slots and threads implement shared ownership: a weak pointer
\* is promoted only beside an owner, the resources go once after the last
\* owner, the memory once after the last reference.
Ownership == INSTANCE SharedOwnership WITH
  phase <- life,
  owners <- [o \in Object |-> Cardinality(StrongRefs(o))],
  watchers <- [o \in Object |-> Cardinality(WeakRefs(o))]

ImplementsOwnership == Ownership!FairSpec

=============================================================================
