------------------------ MODULE IntrusivePtr_proofs ------------------------
(***************************************************************************)
(* Proofs about IntrusivePtr, for any number of threads, targets and       *)
(* pointers.                                                               *)
(***************************************************************************)
EXTENDS IntrusivePtr, FiniteSetTheorems, TLAPS

-----------------------------------------------------------------------------
(* Each thread alone: types, what its slots hold, what it has pinned.       *)

\* A counter can hold a count.
LEMMA CountMaxPositive == CountMax \in Nat /\ CountMax >= 1
BY FS_CardinalityType, FiniteAssumption, WidthAssumption

\* No thread has begun a call.
LEMMA InitLocal == Init => LocalInv
BY NullAssumption, WidthAssumption
   DEF Init, LocalInv, TypeOK, FrameInv, PinInv, PC, ResetPC, LockPC,
       ReclaimPC, WeakReclaimPC, StrongSlot, WeakSlot

\* Each step leaves a thread with the slots and locals that its next step
\* expects.
LEMMA NextLocal == LocalInv /\ [Next]_vars => LocalInv'
<1> SUFFICES ASSUME LocalInv, [Next]_vars PROVE LocalInv'
  OBVIOUS
<1> USE NullAssumption, CountMaxPositive, DisjointAssumption
<1> USE DEF LocalInv, TypeOK, FrameInv, PinInv, PC, ResetPC, LockPC,
       ReclaimPC, WeakReclaimPC, StrongSlot, WeakSlot, frame, Goto, Inc, Dec,
       Return, Swapped, Pinned, PinnedByOther
<1>a. ASSUME NEW t \in Thread, CallStep(t) PROVE LocalInv'
  <2>1. CASE DecRef(t)
    BY <2>1 DEF DecRef
  <2>2. CASE LoadWeak(t)
    BY <2>2 DEF LoadWeak
  <2>3. CASE ReleaseResources(t)
    BY <2>3 DEF ReleaseResources
  <2>4. CASE DecWeakShare(t)
    BY <2>4 DEF DecWeakShare
  <2>5. CASE Delete(t)
    BY <2>5 DEF Delete
  <2>6. CASE DecWeak(t)
    BY <2>6 DEF DecWeak
  <2>7. CASE ReclaimLoadRef(t)
    BY <2>7 DEF ReclaimLoadRef
  <2>8. CASE ReclaimLoadWeak(t)
    BY <2>8 DEF ReclaimLoadWeak
  <2>9. CASE LockExpire(t)
    BY <2>9 DEF LockExpire
  <2>10. CASE LockLoad(t)
    BY <2>10 DEF LockLoad
  <2>11. CASE LockEmpty(t)
    BY <2>11 DEF LockEmpty
  <2>12. CASE LockSucceed(t)
    BY <2>12 DEF LockSucceed
  <2>13. CASE LockFail(t)
    BY <2>13 DEF LockFail
  <2>14. CASE WeakReclaimLoadWeak(t)
    BY <2>14 DEF WeakReclaimLoadWeak
  <2>15. CASE WeakReclaimLoadRef(t)
    BY <2>15 DEF WeakReclaimLoadRef
  <2>16. CASE WeakReclaimLoadWeak2(t)
    BY <2>16 DEF WeakReclaimLoadWeak2
  <2>q. QED
    BY <1>a, <2>1, <2>2, <2>3, <2>4, <2>5, <2>6, <2>7, <2>8, <2>9, <2>10,
       <2>11, <2>12, <2>13, <2>14, <2>15, <2>16 DEF CallStep
<1>b. ASSUME NEW t \in Thread, ClientStep(t) PROVE LocalInv'
  <2>1. CASE Make(t)
    BY <2>1 DEF Make
  <2>2. CASE DestroyTemp(t)
    BY <2>2 DEF DestroyTemp
  <2>3. CASE WeakDestroyTemp(t)
    BY <2>3 DEF WeakDestroyTemp
  <2>4. CASE Reclaim(t)
    BY <2>4 DEF Reclaim
  <2>5. CASE ReclaimCopy(t)
    BY <2>5 DEF ReclaimCopy, Retain
  <2>6. CASE MakeWeak(t)
    BY <2>6 DEF MakeWeak, WeakRetain
  <2>7. CASE WeakReclaim(t)
    BY <2>7 DEF WeakReclaim
  <2>8. CASE WeakReclaimCopy(t)
    BY <2>8 DEF WeakReclaimCopy, WeakRetain
  <2>9. CASE RawLock(t)
    BY <2>9 DEF RawLock
  <2>10. ASSUME NEW p \in Ptr, CopyConstruct(t, p) PROVE LocalInv'
    BY <2>10 DEF CopyConstruct, Retain
  <2>11. ASSUME NEW p \in Ptr, MoveConstruct(t, p) PROVE LocalInv'
    BY <2>11 DEF MoveConstruct
  <2>12. ASSUME NEW p \in Ptr, Assign(t, p) PROVE LocalInv'
    BY <2>12 DEF Assign
  <2>13. ASSUME NEW p \in Ptr, Reset(t, p) PROVE LocalInv'
    BY <2>13 DEF Reset
  <2>14. ASSUME NEW p \in Ptr, WeakConstruct(t, p) PROVE LocalInv'
    BY <2>14 DEF WeakConstruct, WeakRetain
  <2>15. ASSUME NEW r \in RawPtr, Release(t, r) PROVE LocalInv'
    BY <2>15 DEF Release
  <2>16. ASSUME NEW r \in RawPtr, ReclaimBegin(t, r) PROVE LocalInv'
    BY <2>16 DEF ReclaimBegin
  <2>17. ASSUME NEW q \in Ptr \cup RawPtr, NEW r \in RawPtr, IncRef(t, q, r)
       PROVE LocalInv'
    BY <2>17 DEF IncRef
  <2>18. ASSUME NEW w \in WeakPtr, WeakCopyConstruct(t, w) PROVE LocalInv'
    BY <2>18 DEF WeakCopyConstruct, WeakRetain
  <2>19. ASSUME NEW w \in WeakPtr, WeakMoveConstruct(t, w) PROVE LocalInv'
    BY <2>19 DEF WeakMoveConstruct
  <2>20. ASSUME NEW w \in WeakPtr, WeakAssign(t, w) PROVE LocalInv'
    BY <2>20 DEF WeakAssign
  <2>21. ASSUME NEW w \in WeakPtr, WeakDestroy(t, w) PROVE LocalInv'
    BY <2>21 DEF WeakDestroy
  <2>22. ASSUME NEW w \in WeakPtr, LockBegin(t, w) PROVE LocalInv'
    BY <2>22 DEF LockBegin
  <2>23. ASSUME NEW r \in RawWeakPtr, WeakRelease(t, r) PROVE LocalInv'
    BY <2>23 DEF WeakRelease
  <2>24. ASSUME NEW r \in RawWeakPtr, WeakReclaimBegin(t, r) PROVE LocalInv'
    BY <2>24 DEF WeakReclaimBegin
  <2>25. ASSUME NEW w \in WeakPtr \cup RawWeakPtr, NEW r \in RawWeakPtr, WeakIncRef(t, w, r)
       PROVE LocalInv'
    BY <2>25 DEF WeakIncRef
  <2>q. QED
    BY <1>b, <2>1, <2>2, <2>3, <2>4, <2>5, <2>6, <2>7, <2>8, <2>9, <2>10,
       <2>11, <2>12, <2>13, <2>14, <2>15, <2>16, <2>17, <2>18, <2>19, <2>20,
       <2>21, <2>22, <2>23, <2>24, <2>25 DEF ClientStep
<1>c. CASE UNCHANGED vars
  BY <1>c DEF vars
<1>q. QED
  BY <1>a, <1>b, <1>c DEF Next

\* The variables keep their types.  In particular no thread is ever at a line
\* that dereferences obj or src without their being set.
THEOREM TypeCorrect == Spec => []TypeOK
<1>1. LocalInv => TypeOK
  BY DEF LocalInv
<1>q. QED
  BY <1>1, InitLocal, NextLocal, PTL DEF Spec

-----------------------------------------------------------------------------
(* How many slots refer to a target, after one slot has changed.            *)

Refs(S, f, o) == {s \in S : f[s] = o}

\* The slots that refer to a target can be counted.
LEMMA RefsFinite ==
  ASSUME NEW S, IsFiniteSet(S), NEW f, NEW o
  PROVE  /\ IsFiniteSet(Refs(S, f, o))
         /\ Cardinality(Refs(S, f, o)) \in Nat
         /\ Cardinality(Refs(S, f, o)) <= Cardinality(S)
         /\ Cardinality(Refs(S, f, o)) = 0 <=> Refs(S, f, o) = {}
<1>1. Refs(S, f, o) \in SUBSET S
  BY DEF Refs
<1>q. QED
  BY <1>1, FS_Subset, FS_EmptySet, FS_CardinalityType

\* Counting a slot that begins to refer to o.
LEMMA RefsAdd ==
  ASSUME NEW S, IsFiniteSet(S), NEW f, DOMAIN f = S,
         NEW s \in S, NEW o, f[s] # o
  PROVE  Cardinality(Refs(S, [f EXCEPT ![s] = o], o))
           = Cardinality(Refs(S, f, o)) + 1
<1>1. Refs(S, [f EXCEPT ![s] = o], o) = Refs(S, f, o) \cup {s}
  BY DEF Refs
<1>2. s \notin Refs(S, f, o)
  BY DEF Refs
<1>q. QED
  BY <1>1, <1>2, RefsFinite, FS_AddElement

\* Counting a slot that no longer refers to o.
LEMMA RefsDrop ==
  ASSUME NEW S, IsFiniteSet(S), NEW f, DOMAIN f = S,
         NEW s \in S, NEW o, f[s] = o, NEW n, n # o
  PROVE  Cardinality(Refs(S, [f EXCEPT ![s] = n], o))
           = Cardinality(Refs(S, f, o)) - 1
<1>1. Refs(S, [f EXCEPT ![s] = n], o) = Refs(S, f, o) \ {s}
  BY DEF Refs
<1>2. s \in Refs(S, f, o)
  BY DEF Refs
<1>3. IsFiniteSet(Refs(S, f, o))
  BY RefsFinite
<1>q. QED
  BY <1>1, <1>2, <1>3, FS_RemoveElement

\* A swap of two slots does not change what is counted.
LEMMA RefsSwap ==
  ASSUME NEW S, IsFiniteSet(S), NEW f, DOMAIN f = S,
         NEW a \in S, NEW b \in S, NEW o
  PROVE  Cardinality(Refs(S, Swapped(f, a, b), o))
           = Cardinality(Refs(S, f, o))
<1>1. CASE f[a] = f[b]
  <2>1. Refs(S, Swapped(f, a, b), o) = Refs(S, f, o)
    BY <1>1 DEF Refs, Swapped
  <2>q. QED
    BY <2>1
<1>2. CASE f[a] # f[b] /\ f[a] = o
  <2>1. Refs(S, Swapped(f, a, b), o) = (Refs(S, f, o) \ {a}) \cup {b}
    BY <1>2 DEF Refs, Swapped
  <2>2. a \in Refs(S, f, o) /\ b \notin Refs(S, f, o)
    BY <1>2 DEF Refs
  <2>3. /\ IsFiniteSet(Refs(S, f, o) \ {a})
        /\ Cardinality(Refs(S, f, o) \ {a}) = Cardinality(Refs(S, f, o)) - 1
    BY <2>2, RefsFinite, FS_RemoveElement
  <2>4. Cardinality((Refs(S, f, o) \ {a}) \cup {b})
          = Cardinality(Refs(S, f, o) \ {a}) + 1
    BY <2>2, <2>3, FS_AddElement
  <2>q. QED
    BY <2>1, <2>3, <2>4, RefsFinite
<1>3. CASE f[a] # f[b] /\ f[b] = o
  <2>1. Refs(S, Swapped(f, a, b), o) = (Refs(S, f, o) \ {b}) \cup {a}
    BY <1>3 DEF Refs, Swapped
  <2>2. b \in Refs(S, f, o) /\ a \notin Refs(S, f, o)
    BY <1>3 DEF Refs
  <2>3. /\ IsFiniteSet(Refs(S, f, o) \ {b})
        /\ Cardinality(Refs(S, f, o) \ {b}) = Cardinality(Refs(S, f, o)) - 1
    BY <2>2, RefsFinite, FS_RemoveElement
  <2>4. Cardinality((Refs(S, f, o) \ {b}) \cup {a})
          = Cardinality(Refs(S, f, o) \ {b}) + 1
    BY <2>2, <2>3, FS_AddElement
  <2>q. QED
    BY <2>1, <2>3, <2>4, RefsFinite
<1>4. CASE f[a] # o /\ f[b] # o
  <2>1. Refs(S, Swapped(f, a, b), o) = Refs(S, f, o)
    BY <1>4 DEF Refs, Swapped
  <2>q. QED
    BY <2>1
<1>q. QED
  BY <1>1, <1>2, <1>3, <1>4

SN(o) == Cardinality(StrongRefs(o))
WN(o) == Cardinality(WeakRefs(o))

\* What the numbers of references are known to be in every state.
RefFacts ==
  \A o \in Object :
    /\ SN(o) \in Nat /\ SN(o) < CountMax /\ (SN(o) = 0 <=> StrongRefs(o) = {})
    /\ WN(o) \in Nat /\ WN(o) < CountMax /\ (WN(o) = 0 <=> WeakRefs(o) = {})

\* SN and WN are numbers, bounded by the slots there are, and 0 if nothing
\* refers to the target.
LEMMA RefFactsHold == RefFacts
<1>1. ASSUME NEW o \in Object
      PROVE StrongRefs(o) = Refs(StrongSlot, strong, o)
  BY DEF StrongRefs, Refs
<1>2. ASSUME NEW o \in Object
      PROVE WeakRefs(o) = Refs(WeakSlot, weak, o)
  BY DEF WeakRefs, Refs
<1>3. Cardinality(StrongSlot) \in Nat /\ Cardinality(WeakSlot) \in Nat
  BY FS_CardinalityType, FiniteAssumption
<1>q. QED
  BY <1>1, <1>2, <1>3, RefsFinite, FiniteAssumption, WidthAssumption
     DEF RefFacts, SN, WN

-----------------------------------------------------------------------------
(* The counters and the threads together.                                   *)

CoreInv ==
  /\ CountsExact
  /\ NoUseAfterFree /\ OwnersSeeResources /\ NoLeak
  /\ CloserInv /\ SoleDeleter /\ DtorAsserts
  /\ LoadInv /\ ChecksNeverFail

\* A step that gives up no reference and ends no life: every new reference is
\* counted, and to a target that had one, every thread that begins to work on
\* a target does so beside a reference.  All but seven actions are such steps.
CountersGrow ==
  \A o \in Object :
    /\ refcount'[o] - refcount[o] = SN(o)' - SN(o)
    /\ weakcount'[o] - weakcount[o] = WN(o)' - WN(o)
    /\ SN(o)' >= SN(o) /\ WN(o)' >= WN(o)
    /\ SN(o) = 0 => SN(o)' = 0
    /\ SN(o) = 0 /\ WN(o) = 0 => WN(o)' = 0

\* Such a step moves references about or adds one.
OneStrong(o) ==
  /\ SN(o) > 0
  /\ \A x \in Object : SN(x)' = IF x = o THEN SN(x) + 1 ELSE SN(x)
  /\ \A x \in Object : WN(x)' = WN(x)
OneWeak(o) ==
  /\ SN(o) > 0 \/ WN(o) > 0
  /\ \A x \in Object : SN(x)' = SN(x)
  /\ \A x \in Object : WN(x)' = IF x = o THEN WN(x) + 1 ELSE WN(x)
AtMostOne ==
  \/ \A x \in Object : SN(x)' = SN(x) /\ WN(x)' = WN(x)
  \/ \E o \in Object : OneStrong(o) \/ OneWeak(o)

ThreadsGo ==
  /\ \A u \in Thread :
       /\ pc[u] \in ResetPC \/ pc'[u] \in ResetPC =>
            pc'[u] = pc[u] /\ obj'[u] = obj[u]
       /\ pc'[u] # "thrown"
  /\ \A u \in Thread, o \in Object : obj'[u] = o =>
       /\ obj[u] = o \/ SN(o) > 0 \/ WN(o) > 0
       /\ pc'[u] = "cas" /\ expected'[u] = 0 =>
            \/ pc[u] = "cas" /\ expected[u] = 0 /\ obj[u] = o
            \/ refcount[o] = 0
       /\ pc'[u] \in {"wreclaim_ref", "wreclaim_weak2"} =>
            \/ pc[u] \in {"wreclaim_ref", "wreclaim_weak2"} /\ obj[u] = o
            \/ SN(o) = 0

Grows == life' = life /\ CountersGrow /\ AtMostOne /\ ThreadsGo

\* A step that only adds references beside ones that exist preserves the
\* invariant.  Most steps are of this kind.
LEMMA GrowsPreserves ==
  ASSUME LocalInv, LocalInv', CoreInv, Grows
  PROVE  CoreInv'
<1>1. RefFacts /\ RefFacts'
  BY RefFactsHold, PTL
<1> USE DEF Grows
<1>2. ASSUME NEW o \in Object
      PROVE /\ StrongRefs(o)' = {} <=> StrongRefs(o) = {}
            /\ WeakRefs(o) # {} => WeakRefs(o)' # {}
            /\ StrongRefs(o) = {} /\ WeakRefs(o) = {} => WeakRefs(o)' = {}
  BY <1>1 DEF RefFacts, CountersGrow
<1>3. ASSUME NEW u \in Thread, NEW o \in Object
      PROVE /\ HoldsShare(u, o)' <=> HoldsShare(u, o)
            /\ Deletes(u, o)' <=> Deletes(u, o)
            /\ HoldsShare(u, o) => pc'[u] = pc[u]
  BY DEF ThreadsGo, HoldsShare, Deletes, ResetPC
<1>4. ASSUME NEW o \in Object
      PROVE Shared(o)' <=> Shared(o)
  BY <1>2, <1>3 DEF Shared
<1>n. ASSUME NEW o \in Object
      PROVE /\ refcount[o] \in Nat /\ refcount'[o] \in Nat
            /\ weakcount[o] \in Nat /\ weakcount'[o] \in Nat
            /\ SN(o) \in Nat /\ SN(o)' \in Nat
            /\ WN(o) \in Nat /\ WN(o)' \in Nat
            /\ refcount'[o] - refcount[o] = SN(o)' - SN(o)
            /\ weakcount'[o] - weakcount[o] = WN(o)' - WN(o)
  BY <1>1, CountMaxPositive DEF RefFacts, LocalInv, TypeOK, CountersGrow
<1>5. CountsExact'
  <2>2. ASSUME NEW o \in Object PROVE refcount'[o] = SN(o)'
    BY <1>n DEF CoreInv, CountsExact, SN
  <2>3. ASSUME NEW o \in Object, ~\E t \in Thread : Deletes(t, o)'
        PROVE weakcount'[o] = WN(o)' + (IF Shared(o)' THEN 1 ELSE 0)
    <3>1. ~\E t \in Thread : Deletes(t, o)
      BY <1>3, <2>3
    <3>2. weakcount[o] = WN(o) + (IF Shared(o) THEN 1 ELSE 0)
      BY <3>1 DEF CoreInv, CountsExact, WN
    <3>q. QED
      BY <3>2, <1>n, <1>4
  <2>q. QED
    BY <2>2, <2>3 DEF CountsExact, SN, WN
<1>6. NoUseAfterFree'
  BY <1>1, <1>2 DEF CoreInv, ThreadsGo, NoUseAfterFree, RefFacts
<1>7. OwnersSeeResources'
  BY <1>2 DEF CoreInv, OwnersSeeResources
<1>8. NoLeak'
  BY <1>2, <1>3 DEF CoreInv, NoLeak
<1>9. CloserInv'
  BY <1>2, <1>3 DEF CoreInv, CloserInv
<1>10. SoleDeleter'
  BY <1>1, <1>2, <1>3 DEF CoreInv, ThreadsGo, SoleDeleter, RefFacts
<1>11. DtorAsserts'
  <2>1. ASSUME NEW t \in Thread, NEW o \in Object, Deletes(t, o)
        PROVE refcount'[o] = refcount[o] /\ weakcount'[o] = weakcount[o]
    <3>1. StrongRefs(o) = {} /\ WeakRefs(o) = {}
      BY <2>1 DEF CoreInv, SoleDeleter
    <3>2. SN(o) = 0 /\ SN(o)' = 0 /\ WN(o) = 0 /\ WN(o)' = 0
      BY <3>1, <1>1, <1>2 DEF RefFacts
    <3>3. SN(o)' - SN(o) = 0 /\ WN(o)' - WN(o) = 0
      BY <3>2
    <3>4. refcount'[o] - refcount[o] = 0 /\ weakcount'[o] - weakcount[o] = 0
      BY <3>3, <1>n
    <3>5. /\ refcount[o] \in Nat /\ refcount'[o] \in Nat
          /\ weakcount[o] \in Nat /\ weakcount'[o] \in Nat
      BY <1>n
    <3>q. QED
      BY <3>4, <3>5
  <2>q. QED
    BY <1>3, <2>1 DEF CoreInv, DtorAsserts
<1>12. LoadInv'
  <2>1. ASSUME NEW o \in Object
        PROVE /\ refcount[o] = 0 => refcount'[o] = 0
              /\ SN(o) = 0 => StrongRefs(o)' = {}
    BY <1>1, <1>2, <1>5 DEF CoreInv, CountsExact, RefFacts, SN
  <2>2. ASSUME NEW t \in Thread, NEW o \in Object, obj'[t] = o,
               pc'[t] = "cas", expected'[t] = 0
        PROVE refcount'[o] = 0
    BY <2>1, <2>2 DEF CoreInv, LoadInv, ThreadsGo
  <2>3. ASSUME NEW t \in Thread, NEW o \in Object, obj'[t] = o,
               pc'[t] \in {"wreclaim_ref", "wreclaim_weak2"}
        PROVE StrongRefs(o)' = {}
    BY <2>3, <2>1, <1>2 DEF CoreInv, LoadInv, ThreadsGo
  <2>q. QED
    BY <2>2, <2>3 DEF LoadInv
<1>13. ChecksNeverFail'
  BY DEF ThreadsGo, ChecksNeverFail
<1>q. QED
  BY <1>5, <1>6, <1>7, <1>8, <1>9, <1>10, <1>11, <1>12, <1>13 DEF CoreInv

(* The three ways in which the slots change.                                *)

\* The ways a step changes strong: it swaps two slots,
LEMMA StrongSwapped ==
  ASSUME LocalInv, NEW a \in StrongSlot, NEW b \in StrongSlot,
         strong' = Swapped(strong, a, b)
  PROVE  \A o \in Object : SN(o)' = SN(o)
<1> SUFFICES ASSUME NEW o \in Object PROVE SN(o)' = SN(o)
  OBVIOUS
<1>1. /\ SN(o) = Cardinality(Refs(StrongSlot, strong, o))
      /\ SN(o)' = Cardinality(Refs(StrongSlot, strong', o))
  BY DEF SN, StrongRefs, Refs
<1>2. IsFiniteSet(StrongSlot) /\ DOMAIN strong = StrongSlot
  BY FiniteAssumption DEF LocalInv, TypeOK
<1>3. Cardinality(Refs(StrongSlot, Swapped(strong, a, b), o))
        = Cardinality(Refs(StrongSlot, strong, o))
  BY <1>2, RefsSwap
<1>q. QED
  BY <1>1, <1>3

\* it fills an empty slot,
LEMMA StrongAdded ==
  ASSUME LocalInv, NEW s \in StrongSlot, NEW o \in Object,
         strong[s] = NULL, strong' = [strong EXCEPT ![s] = o]
  PROVE  \A x \in Object : SN(x)' = IF x = o THEN SN(x) + 1 ELSE SN(x)
<1> SUFFICES ASSUME NEW x \in Object
             PROVE  SN(x)' = IF x = o THEN SN(x) + 1 ELSE SN(x)
  OBVIOUS
<1>1. /\ SN(x) = Cardinality(Refs(StrongSlot, strong, x))
      /\ SN(x)' = Cardinality(Refs(StrongSlot, strong', x))
  BY DEF SN, StrongRefs, Refs
<1>2. IsFiniteSet(StrongSlot) /\ DOMAIN strong = StrongSlot /\ o # NULL /\ x # NULL
  BY FiniteAssumption, NullAssumption DEF LocalInv, TypeOK
<1>3. strong[s] # o /\ strong[s] # x
  BY <1>2
<1>4. Cardinality(Refs(StrongSlot, [strong EXCEPT ![s] = o], o))
        = Cardinality(Refs(StrongSlot, strong, o)) + 1
  BY <1>2, <1>3, RefsAdd
<1>5. ASSUME x # o
      PROVE Refs(StrongSlot, [strong EXCEPT ![s] = o], x) = Refs(StrongSlot, strong, x)
  BY <1>2, <1>3, <1>5 DEF Refs
<1>q. QED
  BY <1>1, <1>4, <1>5

\* or it empties one.
LEMMA StrongDropped ==
  ASSUME LocalInv, NEW s \in StrongSlot, NEW o \in Object,
         strong[s] = o, strong' = [strong EXCEPT ![s] = NULL]
  PROVE  \A x \in Object : SN(x)' = IF x = o THEN SN(x) - 1 ELSE SN(x)
<1> SUFFICES ASSUME NEW x \in Object
             PROVE  SN(x)' = IF x = o THEN SN(x) - 1 ELSE SN(x)
  OBVIOUS
<1>1. /\ SN(x) = Cardinality(Refs(StrongSlot, strong, x))
      /\ SN(x)' = Cardinality(Refs(StrongSlot, strong', x))
  BY DEF SN, StrongRefs, Refs
<1>2. IsFiniteSet(StrongSlot) /\ DOMAIN strong = StrongSlot /\ o # NULL /\ x # NULL
  BY FiniteAssumption, NullAssumption DEF LocalInv, TypeOK
<1>3. NULL # o /\ (x # o => x # strong[s])
  BY <1>2
<1>4. Cardinality(Refs(StrongSlot, [strong EXCEPT ![s] = NULL], o))
        = Cardinality(Refs(StrongSlot, strong, o)) - 1
  BY <1>2, <1>3, RefsDrop
<1>5. ASSUME x # o
      PROVE Refs(StrongSlot, [strong EXCEPT ![s] = NULL], x) = Refs(StrongSlot, strong, x)
  BY <1>2, <1>3, <1>5 DEF Refs
<1>q. QED
  BY <1>1, <1>4, <1>5

\* The same for weak.
LEMMA WeakSwapped ==
  ASSUME LocalInv, NEW a \in WeakSlot, NEW b \in WeakSlot,
         weak' = Swapped(weak, a, b)
  PROVE  \A o \in Object : WN(o)' = WN(o)
<1> SUFFICES ASSUME NEW o \in Object PROVE WN(o)' = WN(o)
  OBVIOUS
<1>1. /\ WN(o) = Cardinality(Refs(WeakSlot, weak, o))
      /\ WN(o)' = Cardinality(Refs(WeakSlot, weak', o))
  BY DEF WN, WeakRefs, Refs
<1>2. IsFiniteSet(WeakSlot) /\ DOMAIN weak = WeakSlot
  BY FiniteAssumption DEF LocalInv, TypeOK
<1>3. Cardinality(Refs(WeakSlot, Swapped(weak, a, b), o))
        = Cardinality(Refs(WeakSlot, weak, o))
  BY <1>2, RefsSwap
<1>q. QED
  BY <1>1, <1>3

\* An empty weak slot is filled.
LEMMA WeakAdded ==
  ASSUME LocalInv, NEW s \in WeakSlot, NEW o \in Object,
         weak[s] = NULL, weak' = [weak EXCEPT ![s] = o]
  PROVE  \A x \in Object : WN(x)' = IF x = o THEN WN(x) + 1 ELSE WN(x)
<1> SUFFICES ASSUME NEW x \in Object
             PROVE  WN(x)' = IF x = o THEN WN(x) + 1 ELSE WN(x)
  OBVIOUS
<1>1. /\ WN(x) = Cardinality(Refs(WeakSlot, weak, x))
      /\ WN(x)' = Cardinality(Refs(WeakSlot, weak', x))
  BY DEF WN, WeakRefs, Refs
<1>2. IsFiniteSet(WeakSlot) /\ DOMAIN weak = WeakSlot /\ o # NULL /\ x # NULL
  BY FiniteAssumption, NullAssumption DEF LocalInv, TypeOK
<1>3. weak[s] # o /\ weak[s] # x
  BY <1>2
<1>4. Cardinality(Refs(WeakSlot, [weak EXCEPT ![s] = o], o))
        = Cardinality(Refs(WeakSlot, weak, o)) + 1
  BY <1>2, <1>3, RefsAdd
<1>5. ASSUME x # o
      PROVE Refs(WeakSlot, [weak EXCEPT ![s] = o], x) = Refs(WeakSlot, weak, x)
  BY <1>2, <1>3, <1>5 DEF Refs
<1>q. QED
  BY <1>1, <1>4, <1>5

\* A weak slot is emptied.
LEMMA WeakDropped ==
  ASSUME LocalInv, NEW s \in WeakSlot, NEW o \in Object,
         weak[s] = o, weak' = [weak EXCEPT ![s] = NULL]
  PROVE  \A x \in Object : WN(x)' = IF x = o THEN WN(x) - 1 ELSE WN(x)
<1> SUFFICES ASSUME NEW x \in Object
             PROVE  WN(x)' = IF x = o THEN WN(x) - 1 ELSE WN(x)
  OBVIOUS
<1>1. /\ WN(x) = Cardinality(Refs(WeakSlot, weak, x))
      /\ WN(x)' = Cardinality(Refs(WeakSlot, weak', x))
  BY DEF WN, WeakRefs, Refs
<1>2. IsFiniteSet(WeakSlot) /\ DOMAIN weak = WeakSlot /\ o # NULL /\ x # NULL
  BY FiniteAssumption, NullAssumption DEF LocalInv, TypeOK
<1>3. NULL # o /\ (x # o => x # weak[s])
  BY <1>2
<1>4. Cardinality(Refs(WeakSlot, [weak EXCEPT ![s] = NULL], o))
        = Cardinality(Refs(WeakSlot, weak, o)) - 1
  BY <1>2, <1>3, RefsDrop
<1>5. ASSUME x # o
      PROVE Refs(WeakSlot, [weak EXCEPT ![s] = NULL], x) = Refs(WeakSlot, weak, x)
  BY <1>2, <1>3, <1>5 DEF Refs
<1>q. QED
  BY <1>1, <1>4, <1>5

\* Steps that do not touch the strong slots keep their number,
LEMMA StrongSame ==
  ASSUME strong' = strong PROVE \A o \in Object : SN(o)' = SN(o)
BY DEF SN, StrongRefs

\* and likewise for the weak ones.
LEMMA WeakSame ==
  ASSUME weak' = weak PROVE \A o \in Object : WN(o)' = WN(o)
BY DEF WN, WeakRefs

\* What a slot refers to is counted.
LEMMA SlotCounted ==
  ASSUME LocalInv
  PROVE  /\ \A s \in StrongSlot, o \in Object : strong[s] = o => SN(o) > 0
         /\ \A s \in WeakSlot, o \in Object : weak[s] = o => WN(o) > 0
BY RefFactsHold DEF RefFacts, StrongRefs, WeakRefs

\* A step that moves references about leaves the counters right.
LEMMA SlotsKept ==
  ASSUME LocalInv, refcount' = refcount, weakcount' = weakcount,
         \A o \in Object : SN(o)' = SN(o),
         \A o \in Object : WN(o)' = WN(o)
  PROVE  CountersGrow /\ AtMostOne
<1> SUFFICES ASSUME NEW o \in Object
             PROVE  /\ refcount[o] - refcount[o] = SN(o) - SN(o)
                    /\ weakcount[o] - weakcount[o] = WN(o) - WN(o)
                    /\ SN(o) >= SN(o) /\ WN(o) >= WN(o)
  BY DEF CountersGrow, AtMostOne
<1>1. /\ refcount[o] \in Nat /\ weakcount[o] \in Nat
      /\ SN(o) \in Nat /\ WN(o) \in Nat
  BY RefFactsHold, CountMaxPositive DEF RefFacts, LocalInv, TypeOK
<1>q. QED
  BY <1>1

\* refcount_ is far from its limits while there is an owner: the increment
\* neither wraps around nor yields 1.
LEMMA StrongCounted ==
  ASSUME LocalInv, CoreInv, NEW o \in Object, SN(o) > 0
  PROVE  /\ refcount[o] = SN(o) /\ refcount[o] \in Nat
         /\ Inc(refcount[o]) = refcount[o] + 1 /\ Inc(refcount[o]) # 1
<1>1. SN(o) \in Nat /\ SN(o) < CountMax /\ refcount[o] = SN(o)
  BY RefFactsHold DEF RefFacts, CoreInv, CountsExact, SN
<1>q. QED
  BY <1>1, CountMaxPositive DEF Inc

\* An increment of refcount_ for a new strong slot.
LEMMA StrongGrows ==
  ASSUME LocalInv, CoreInv, NEW o \in Object, SN(o) > 0,
         NEW s \in StrongSlot, strong[s] = NULL,
         strong' = [strong EXCEPT ![s] = o], weak' = weak,
         refcount' = [refcount EXCEPT ![o] = Inc(refcount[o])],
         weakcount' = weakcount
  PROVE  CountersGrow /\ AtMostOne
<1>1. \A x \in Object : SN(x)' = IF x = o THEN SN(x) + 1 ELSE SN(x)
  BY StrongAdded
<1>2. \A x \in Object : WN(x)' = WN(x)
  BY WeakSame
<1>3. \A x \in Object : /\ refcount[x] \in Nat /\ weakcount[x] \in Nat
                       /\ SN(x) \in Nat /\ WN(x) \in Nat
  BY RefFactsHold, CountMaxPositive DEF RefFacts, LocalInv, TypeOK
<1>4. \A x \in Object :
        refcount'[x] = IF x = o THEN refcount[x] + 1 ELSE refcount[x]
  BY StrongCounted DEF LocalInv, TypeOK
<1>q. QED
  BY <1>1, <1>2, <1>3, <1>4 DEF CountersGrow, AtMostOne, OneStrong

\* A target with a reference is not being deleted, its weakcount_ is exact and
\* has room for the slots that do not refer to it yet.
LEMMA WeakCounted ==
  ASSUME LocalInv, CoreInv, NEW o \in Object, SN(o) > 0 \/ WN(o) > 0
  PROVE  /\ weakcount[o] = WN(o) + (IF Shared(o) THEN 1 ELSE 0)
         /\ weakcount[o] \in Nat /\ weakcount[o] > 0
         /\ \A s \in WeakSlot : weak[s] = NULL =>
              Inc(weakcount[o]) = weakcount[o] + 1 /\ Inc(weakcount[o]) # 1
<1>1. StrongRefs(o) # {} \/ WeakRefs(o) # {}
  BY RefFactsHold DEF RefFacts
<1>2. \A t \in Thread : ~Deletes(t, o)
  BY <1>1 DEF CoreInv, SoleDeleter
<1>3. weakcount[o] = WN(o) + (IF Shared(o) THEN 1 ELSE 0)
  BY <1>2 DEF CoreInv, CountsExact, WN
<1>4. SN(o) \in Nat /\ WN(o) \in Nat /\ (SN(o) = 0 <=> StrongRefs(o) = {})
  BY RefFactsHold DEF RefFacts
<1>5. weakcount[o] \in Nat /\ weakcount[o] > 0
  BY <1>3, <1>4 DEF Shared
<1>6. ASSUME NEW s \in WeakSlot, weak[s] = NULL
      PROVE  weakcount[o] < CountMax
  <2>1. /\ IsFiniteSet(WeakSlot) /\ Cardinality(WeakSlot) < CountMax
        /\ Cardinality(WeakSlot) \in Nat
    BY FiniteAssumption, WidthAssumption, FS_CardinalityType
  <2>2. /\ Cardinality(WeakSlot \ {s}) = Cardinality(WeakSlot) - 1
        /\ IsFiniteSet(WeakSlot \ {s})
    BY <2>1, FS_RemoveElement
  <2>3. WeakRefs(o) \in SUBSET (WeakSlot \ {s})
    BY <1>6, NullAssumption DEF WeakRefs
  <2>4. WN(o) <= Cardinality(WeakSlot) - 1
    BY <2>2, <2>3, FS_Subset DEF WN
  <2>q. QED
    BY <2>1, <2>4, <1>3, <1>4, CountMaxPositive
<1>q. QED
  BY <1>3, <1>5, <1>6, CountMaxPositive DEF Inc

\* An increment of weakcount_ for a new weak slot.
LEMMA WeakGrows ==
  ASSUME LocalInv, CoreInv, NEW o \in Object, SN(o) > 0 \/ WN(o) > 0,
         NEW s \in WeakSlot, weak[s] = NULL,
         weak' = [weak EXCEPT ![s] = o], strong' = strong,
         weakcount' = [weakcount EXCEPT ![o] = Inc(weakcount[o])],
         refcount' = refcount
  PROVE  CountersGrow /\ AtMostOne
<1>1. \A x \in Object : WN(x)' = IF x = o THEN WN(x) + 1 ELSE WN(x)
  BY WeakAdded
<1>2. \A x \in Object : SN(x)' = SN(x)
  BY StrongSame
<1>3. \A x \in Object : /\ refcount[x] \in Nat /\ weakcount[x] \in Nat
                       /\ SN(x) \in Nat /\ WN(x) \in Nat
  BY RefFactsHold, CountMaxPositive DEF RefFacts, LocalInv, TypeOK
<1>4. \A x \in Object :
        weakcount'[x] = IF x = o THEN weakcount[x] + 1 ELSE weakcount[x]
  BY WeakCounted DEF LocalInv, TypeOK
<1>q. QED
  BY <1>1, <1>2, <1>3, <1>4 DEF CountersGrow, AtMostOne, OneWeak

-----------------------------------------------------------------------------
(* The steps that only add references, or move them.                     *)

\* All but seven of the actions are of the kind that GrowsPreserves is about.
LEMMA GrowingStep ==
  ASSUME LocalInv, CoreInv, NEW t \in Thread,
         \/ DestroyTemp(t) \/ WeakDestroyTemp(t)
         \/ Reclaim(t) \/ ReclaimCopy(t) \/ MakeWeak(t)
         \/ WeakReclaim(t) \/ WeakReclaimCopy(t) \/ RawLock(t)
         \/ ReclaimLoadRef(t) \/ ReclaimLoadWeak(t)
         \/ LockExpire(t) \/ LockLoad(t) \/ LockEmpty(t) \/ LockSucceed(t)
         \/ LockFail(t)
         \/ WeakReclaimLoadWeak(t) \/ WeakReclaimLoadRef(t)
         \/ WeakReclaimLoadWeak2(t)
         \/ \E p \in Ptr :
              \/ CopyConstruct(t, p) \/ MoveConstruct(t, p) \/ Assign(t, p)
              \/ Reset(t, p) \/ WeakConstruct(t, p)
         \/ \E r \in RawPtr : Release(t, r) \/ ReclaimBegin(t, r)
         \/ \E q \in Ptr \cup RawPtr, r \in RawPtr : IncRef(t, q, r)
         \/ \E w \in WeakPtr :
              \/ WeakCopyConstruct(t, w) \/ WeakMoveConstruct(t, w)
              \/ WeakAssign(t, w) \/ WeakDestroy(t, w) \/ LockBegin(t, w)
         \/ \E r \in RawWeakPtr : WeakRelease(t, r) \/ WeakReclaimBegin(t, r)
         \/ \E w \in WeakPtr \cup RawWeakPtr, r \in RawWeakPtr :
              WeakIncRef(t, w, r)
  PROVE  Grows
<1>s. t \in StrongSlot /\ t \in WeakSlot
  BY DEF StrongSlot, WeakSlot
<1>f. /\ strong \in [StrongSlot -> Object \cup {NULL}]
      /\ weak \in [WeakSlot -> Object \cup {NULL}]
      /\ pc \in [Thread -> PC] /\ obj \in [Thread -> Object \cup {NULL}]
      /\ expected \in [Thread -> 0..CountMax]
      /\ refcount \in [Object -> 0..CountMax]
      /\ weakcount \in [Object -> 0..CountMax]
      /\ NULL \notin Object
  BY NullAssumption DEF LocalInv, TypeOK
<1>c. \A u \in Thread : pc[u] # "thrown"
  BY DEF CoreInv, ChecksNeverFail
<1>1. ASSUME NEW p \in Ptr, MoveConstruct(t, p)
      PROVE  Grows
  <2>0. p \in StrongSlot
    BY DEF StrongSlot
  <2>1. CountersGrow /\ AtMostOne
    BY <1>1, <1>s, <2>0, StrongSwapped, WeakSame, SlotsKept DEF MoveConstruct
  <2>2. ThreadsGo
    BY <1>1, <1>f, <1>c DEF MoveConstruct, ThreadsGo, ResetPC, frame, Goto
  <2>q. QED
    BY <1>1, <2>1, <2>2 DEF Grows, MoveConstruct
<1>2. ASSUME NEW p \in Ptr, Assign(t, p)
      PROVE  Grows
  <2>0. p \in StrongSlot
    BY DEF StrongSlot
  <2>1. CountersGrow /\ AtMostOne
    BY <1>2, <1>s, <2>0, StrongSwapped, WeakSame, SlotsKept DEF Assign
  <2>2. ThreadsGo
    BY <1>2, <1>f, <1>c DEF Assign, ThreadsGo, ResetPC, frame, Goto
  <2>q. QED
    BY <1>2, <2>1, <2>2 DEF Grows, Assign
<1>3. ASSUME NEW p \in Ptr, Reset(t, p)
      PROVE  Grows
  <2>0. p \in StrongSlot
    BY DEF StrongSlot
  <2>1. CountersGrow /\ AtMostOne
    BY <1>3, <1>s, <2>0, StrongSwapped, WeakSame, SlotsKept DEF Reset
  <2>2. ThreadsGo
    BY <1>3, <1>f, <1>c DEF Reset, ThreadsGo, ResetPC, frame, Goto
  <2>q. QED
    BY <1>3, <2>1, <2>2 DEF Grows, Reset
<1>4. ASSUME NEW r \in RawPtr, Release(t, r)
      PROVE  Grows
  <2>0. r \in StrongSlot
    BY DEF StrongSlot
  <2>1. CountersGrow /\ AtMostOne
    BY <1>4, <1>s, <2>0, StrongSwapped, WeakSame, SlotsKept DEF Release
  <2>2. ThreadsGo
    BY <1>4, <1>f, <1>c DEF Release, ThreadsGo, ResetPC, frame, Goto
  <2>q. QED
    BY <1>4, <2>1, <2>2 DEF Grows, Release
<1>5. CASE Reclaim(t)
  <2>0. src[t] \in StrongSlot
    BY <1>5 DEF Reclaim, LocalInv, PinInv, ReclaimPC, WeakReclaimPC, StrongSlot
  <2>1. CountersGrow /\ AtMostOne
    BY <1>5, <1>s, <2>0, StrongSwapped, WeakSame, SlotsKept DEF Reclaim
  <2>2. ThreadsGo
    BY <1>5, <1>f, <1>c DEF Reclaim, ThreadsGo, ResetPC, frame, Goto
  <2>q. QED
    BY <1>5, <2>1, <2>2 DEF Grows, Reclaim
<1>6. ASSUME NEW w \in WeakPtr, WeakMoveConstruct(t, w)
      PROVE  Grows
  <2>0. w \in WeakSlot
    BY DEF WeakSlot
  <2>1. CountersGrow /\ AtMostOne
    BY <1>6, <1>s, <2>0, WeakSwapped, StrongSame, SlotsKept DEF WeakMoveConstruct
  <2>2. ThreadsGo
    BY <1>6, <1>f, <1>c DEF WeakMoveConstruct, ThreadsGo, ResetPC, frame,
       Goto
  <2>q. QED
    BY <1>6, <2>1, <2>2 DEF Grows, WeakMoveConstruct
<1>7. ASSUME NEW w \in WeakPtr, WeakAssign(t, w)
      PROVE  Grows
  <2>0. w \in WeakSlot
    BY DEF WeakSlot
  <2>1. CountersGrow /\ AtMostOne
    BY <1>7, <1>s, <2>0, WeakSwapped, StrongSame, SlotsKept DEF WeakAssign
  <2>2. ThreadsGo
    BY <1>7, <1>f, <1>c DEF WeakAssign, ThreadsGo, ResetPC, frame, Goto
  <2>q. QED
    BY <1>7, <2>1, <2>2 DEF Grows, WeakAssign
<1>8. ASSUME NEW w \in WeakPtr, WeakDestroy(t, w)
      PROVE  Grows
  <2>0. w \in WeakSlot
    BY DEF WeakSlot
  <2>1. CountersGrow /\ AtMostOne
    BY <1>8, <1>s, <2>0, WeakSwapped, StrongSame, SlotsKept DEF WeakDestroy
  <2>2. ThreadsGo
    BY <1>8, <1>f, <1>c DEF WeakDestroy, ThreadsGo, ResetPC, frame, Goto
  <2>q. QED
    BY <1>8, <2>1, <2>2 DEF Grows, WeakDestroy
<1>9. ASSUME NEW r \in RawWeakPtr, WeakRelease(t, r)
      PROVE  Grows
  <2>0. r \in WeakSlot
    BY DEF WeakSlot
  <2>1. CountersGrow /\ AtMostOne
    BY <1>9, <1>s, <2>0, WeakSwapped, StrongSame, SlotsKept DEF WeakRelease
  <2>2. ThreadsGo
    BY <1>9, <1>f, <1>c DEF WeakRelease, ThreadsGo, ResetPC, frame, Goto
  <2>q. QED
    BY <1>9, <2>1, <2>2 DEF Grows, WeakRelease
<1>10. CASE WeakReclaim(t)
  <2>0. src[t] \in WeakSlot
    BY <1>10 DEF WeakReclaim, LocalInv, PinInv, ReclaimPC, WeakReclaimPC, WeakSlot
  <2>1. CountersGrow /\ AtMostOne
    BY <1>10, <1>s, <2>0, WeakSwapped, StrongSame, SlotsKept DEF WeakReclaim
  <2>2. ThreadsGo
    BY <1>10, <1>f, <1>c DEF WeakReclaim, ThreadsGo, ResetPC, frame, Goto
  <2>q. QED
    BY <1>10, <2>1, <2>2 DEF Grows, WeakReclaim
<1>11. CASE DestroyTemp(t)
  <2>1. CountersGrow /\ AtMostOne
    BY <1>11, StrongSame, WeakSame, SlotsKept DEF DestroyTemp
  <2>2. ThreadsGo
    BY <1>11, <1>f, <1>c DEF DestroyTemp, ThreadsGo, ResetPC, frame, Goto
  <2>q. QED
    BY <1>11, <2>1, <2>2 DEF Grows, DestroyTemp
<1>12. CASE WeakDestroyTemp(t)
  <2>1. CountersGrow /\ AtMostOne
    BY <1>12, StrongSame, WeakSame, SlotsKept DEF WeakDestroyTemp
  <2>2. ThreadsGo
    BY <1>12, <1>f, <1>c DEF WeakDestroyTemp, ThreadsGo, ResetPC, frame, Goto
  <2>q. QED
    BY <1>12, <2>1, <2>2 DEF Grows, WeakDestroyTemp
<1>13. CASE RawLock(t)
  <2>1. CountersGrow /\ AtMostOne
    BY <1>13, StrongSame, WeakSame, SlotsKept DEF RawLock
  <2>2. ThreadsGo
    BY <1>13, <1>f, <1>c DEF RawLock, ThreadsGo, ResetPC, frame, Goto
  <2>q. QED
    BY <1>13, <2>1, <2>2 DEF Grows, RawLock
<1>14. CASE ReclaimLoadRef(t)
  <2>1. CountersGrow /\ AtMostOne
    BY <1>14, StrongSame, WeakSame, SlotsKept DEF ReclaimLoadRef
  <2>2. ThreadsGo
    BY <1>14, <1>f, <1>c DEF ReclaimLoadRef, ThreadsGo, ResetPC, frame, Goto
  <2>q. QED
    BY <1>14, <2>1, <2>2 DEF Grows, ReclaimLoadRef
<1>15. CASE LockExpire(t)
  <2>1. CountersGrow /\ AtMostOne
    BY <1>15, StrongSame, WeakSame, SlotsKept DEF LockExpire
  <2>2. ThreadsGo
    BY <1>15, <1>f, <1>c DEF LockExpire, ThreadsGo, ResetPC, frame, Goto,
       Return
  <2>q. QED
    BY <1>15, <2>1, <2>2 DEF Grows, LockExpire
<1>16. CASE LockLoad(t)
  <2>1. CountersGrow /\ AtMostOne
    BY <1>16, StrongSame, WeakSame, SlotsKept DEF LockLoad
  <2>2. ThreadsGo
    BY <1>16, <1>f, <1>c DEF LockLoad, ThreadsGo, ResetPC, frame, Goto
  <2>q. QED
    BY <1>16, <2>1, <2>2 DEF Grows, LockLoad
<1>17. CASE LockEmpty(t)
  <2>1. CountersGrow /\ AtMostOne
    BY <1>17, StrongSame, WeakSame, SlotsKept DEF LockEmpty
  <2>2. ThreadsGo
    BY <1>17, <1>f, <1>c DEF LockEmpty, ThreadsGo, ResetPC, frame, Goto,
       Return
  <2>q. QED
    BY <1>17, <2>1, <2>2 DEF Grows, LockEmpty
<1>18. CASE LockFail(t)
  <2>1. CountersGrow /\ AtMostOne
    BY <1>18, StrongSame, WeakSame, SlotsKept DEF LockFail
  <2>2. ThreadsGo
    BY <1>18, <1>f, <1>c DEF LockFail, ThreadsGo, ResetPC, frame, Goto
  <2>q. QED
    BY <1>18, <2>1, <2>2 DEF Grows, LockFail
<1>19. ASSUME NEW r \in RawPtr, ReclaimBegin(t, r)
      PROVE  Grows
  <2>1. CountersGrow /\ AtMostOne
    BY <1>19, StrongSame, WeakSame, SlotsKept DEF ReclaimBegin
  <2>2. ThreadsGo
    BY <1>19, <1>f, <1>c, SlotCounted DEF ReclaimBegin, ThreadsGo, ResetPC,
       frame, Goto, StrongSlot, WeakSlot
  <2>q. QED
    BY <1>19, <2>1, <2>2 DEF Grows, ReclaimBegin
<1>20. ASSUME NEW w \in WeakPtr, LockBegin(t, w)
      PROVE  Grows
  <2>1. CountersGrow /\ AtMostOne
    BY <1>20, StrongSame, WeakSame, SlotsKept DEF LockBegin
  <2>2. ThreadsGo
    BY <1>20, <1>f, <1>c, SlotCounted DEF LockBegin, ThreadsGo, ResetPC,
       frame, Goto, StrongSlot, WeakSlot
  <2>q. QED
    BY <1>20, <2>1, <2>2 DEF Grows, LockBegin
<1>21. ASSUME NEW r \in RawWeakPtr, WeakReclaimBegin(t, r)
      PROVE  Grows
  <2>1. CountersGrow /\ AtMostOne
    BY <1>21, StrongSame, WeakSame, SlotsKept DEF WeakReclaimBegin
  <2>2. ThreadsGo
    BY <1>21, <1>f, <1>c, SlotCounted DEF WeakReclaimBegin, ThreadsGo,
       ResetPC, frame, Goto, StrongSlot, WeakSlot
  <2>q. QED
    BY <1>21, <2>1, <2>2 DEF Grows, WeakReclaimBegin
<1>22. CASE ReclaimLoadWeak(t)
  <2>1. CountersGrow /\ AtMostOne
    BY <1>22, StrongSame, WeakSame, SlotsKept DEF ReclaimLoadWeak
  <2>3. obj[t] \in Object /\ SN(obj[t]) > 0
    BY <1>22, SlotCounted DEF ReclaimLoadWeak, LocalInv, TypeOK, FrameInv, PinInv,
       ReclaimPC, StrongSlot
  <2>4. weakcount[obj[t]] > 0
    BY <2>3, WeakCounted
  <2>2. ThreadsGo
    BY <1>22, <1>f, <1>c, <2>3, <2>4 DEF ReclaimLoadWeak, ThreadsGo, ResetPC,
       frame, Goto
  <2>q. QED
    BY <1>22, <2>1, <2>2 DEF Grows, ReclaimLoadWeak
<1>23. CASE WeakReclaimLoadWeak(t)
  <2>1. CountersGrow /\ AtMostOne
    BY <1>23, StrongSame, WeakSame, SlotsKept DEF WeakReclaimLoadWeak
  <2>3. obj[t] \in Object /\ WN(obj[t]) > 0
    BY <1>23, SlotCounted DEF WeakReclaimLoadWeak, LocalInv, TypeOK, FrameInv, PinInv,
       WeakReclaimPC, WeakSlot
  <2>4. ASSUME ~(weakcount[obj[t]] > 1) PROVE SN(obj[t]) = 0
    <3>1. /\ WN(obj[t]) \in Nat
          /\ SN(obj[t]) = 0 <=> StrongRefs(obj[t]) = {}
      BY <2>3, RefFactsHold DEF RefFacts
    <3>2. weakcount[obj[t]] = WN(obj[t]) + (IF Shared(obj[t]) THEN 1 ELSE 0)
      BY <2>3, WeakCounted
    <3>3. ~Shared(obj[t])
      BY <2>3, <2>4, <3>1, <3>2
    <3>q. QED
      BY <3>1, <3>3 DEF Shared
  <2>2. ThreadsGo
    BY <1>23, <1>f, <1>c, <2>3, <2>4 DEF WeakReclaimLoadWeak, ThreadsGo,
       ResetPC, frame, Goto
  <2>q. QED
    BY <1>23, <2>1, <2>2 DEF Grows, WeakReclaimLoadWeak
<1>24. CASE WeakReclaimLoadRef(t)
  <2>1. CountersGrow /\ AtMostOne
    BY <1>24, StrongSame, WeakSame, SlotsKept DEF WeakReclaimLoadRef
  <2>3. obj[t] \in Object
    BY <1>24 DEF WeakReclaimLoadRef, LocalInv, TypeOK, FrameInv, WeakReclaimPC
  <2>4. refcount[obj[t]] = 0 /\ SN(obj[t]) = 0
    BY <1>24, <2>3, RefFactsHold
       DEF WeakReclaimLoadRef, CoreInv, LoadInv, CountsExact, RefFacts, SN
  <2>2. ThreadsGo
    BY <1>24, <1>f, <1>c, <2>3, <2>4 DEF WeakReclaimLoadRef, ThreadsGo,
       ResetPC, frame, Goto
  <2>q. QED
    BY <1>24, <2>1, <2>2 DEF Grows, WeakReclaimLoadRef
<1>25. CASE WeakReclaimLoadWeak2(t)
  <2>1. CountersGrow /\ AtMostOne
    BY <1>25, StrongSame, WeakSame, SlotsKept DEF WeakReclaimLoadWeak2
  <2>3. obj[t] \in Object /\ WN(obj[t]) > 0
    BY <1>25, SlotCounted DEF WeakReclaimLoadWeak2, LocalInv, TypeOK, FrameInv, PinInv,
       WeakReclaimPC, WeakSlot
  <2>4. weakcount[obj[t]] > 0
    BY <2>3, WeakCounted
  <2>2. ThreadsGo
    BY <1>25, <1>f, <1>c, <2>3, <2>4 DEF WeakReclaimLoadWeak2, ThreadsGo,
       ResetPC, frame, Goto
  <2>q. QED
    BY <1>25, <2>1, <2>2 DEF Grows, WeakReclaimLoadWeak2
<1>26. ASSUME NEW p \in Ptr, CopyConstruct(t, p)
      PROVE  Grows
  <2>3. /\ strong[p] \in Object /\ SN(strong[p]) > 0
        /\ t \in StrongSlot /\ strong[t] = NULL
    BY <1>26, <1>s, <1>f, SlotCounted DEF CopyConstruct, Retain, LocalInv,
       FrameInv, StrongSlot
  <2>4. Inc(refcount[strong[p]]) # 1
    BY <2>3, StrongCounted
  <2>1. CountersGrow /\ AtMostOne
    BY <1>26, <2>3, <2>4, StrongGrows DEF CopyConstruct, Retain
  <2>2. ThreadsGo
    BY <1>26, <1>f, <1>c, <2>3, <2>4 DEF CopyConstruct, ThreadsGo, ResetPC,
       frame, Goto, Retain
  <2>q. QED
    BY <1>26, <2>1, <2>2 DEF Grows, CopyConstruct, Retain
<1>27. CASE ReclaimCopy(t)
  <2>3. /\ obj[t] \in Object /\ SN(obj[t]) > 0
        /\ t \in StrongSlot /\ strong[t] = NULL
    BY <1>27, <1>s, <1>f, SlotCounted DEF ReclaimCopy, Retain, LocalInv,
       FrameInv, PinInv, ReclaimPC, StrongSlot
  <2>4. Inc(refcount[obj[t]]) # 1
    BY <2>3, StrongCounted
  <2>1. CountersGrow /\ AtMostOne
    BY <1>27, <2>3, <2>4, StrongGrows DEF ReclaimCopy, Retain
  <2>2. ThreadsGo
    BY <1>27, <1>f, <1>c, <2>3, <2>4 DEF ReclaimCopy, ThreadsGo, ResetPC,
       frame, Goto, Retain
  <2>q. QED
    BY <1>27, <2>1, <2>2 DEF Grows, ReclaimCopy, Retain
<1>28. ASSUME NEW q \in Ptr \cup RawPtr, NEW r \in RawPtr, IncRef(t, q, r)
      PROVE  Grows
  <2>3. /\ strong[q] \in Object /\ SN(strong[q]) > 0
        /\ r \in StrongSlot /\ strong[r] = NULL
    BY <1>28, <1>s, <1>f, SlotCounted DEF IncRef, LocalInv, FrameInv,
       StrongSlot
  <2>4. Inc(refcount[strong[q]]) # 1
    BY <2>3, StrongCounted
  <2>1. CountersGrow /\ AtMostOne
    BY <1>28, <2>3, <2>4, StrongGrows DEF IncRef
  <2>2. ThreadsGo
    BY <1>28, <1>f, <1>c, <2>3, <2>4 DEF IncRef, ThreadsGo, ResetPC, frame,
       Goto
  <2>q. QED
    BY <1>28, <2>1, <2>2 DEF Grows, IncRef
<1>29. CASE LockSucceed(t)
  <2>0. obj[t] \in Object
    BY <1>29 DEF LockSucceed, LocalInv, TypeOK, FrameInv, LockPC
  <2>3. SN(obj[t]) > 0 /\ strong[t] = NULL
    BY <1>29, <2>0, <1>f, RefFactsHold
       DEF LockSucceed, CoreInv, CountsExact, SN, RefFacts, LocalInv, FrameInv
  <2>4. Inc(refcount[obj[t]]) # 1
    BY <2>0, <2>3, StrongCounted
  <2>1. CountersGrow /\ AtMostOne
    BY <1>29, <1>s, <2>0, <2>3, StrongGrows DEF LockSucceed
  <2>2. ThreadsGo
    BY <1>29, <1>f, <1>c, <2>3, <2>4 DEF LockSucceed, ThreadsGo, ResetPC,
       frame, Goto
  <2>q. QED
    BY <1>29, <2>1, <2>2 DEF Grows, LockSucceed
<1>30. ASSUME NEW p \in Ptr, WeakConstruct(t, p)
      PROVE  Grows
  <2>3. /\ strong[p] \in Object /\ (SN(strong[p]) > 0 \/ WN(strong[p]) > 0)
        /\ t \in WeakSlot /\ weak[t] = NULL
    BY <1>30, <1>s, <1>f, SlotCounted DEF WeakConstruct, WeakRetain,
       LocalInv, FrameInv, StrongSlot
  <2>4. Inc(weakcount[strong[p]]) # 1
    BY <2>3, WeakCounted
  <2>1. CountersGrow /\ AtMostOne
    BY <1>30, <2>3, <2>4, WeakGrows DEF WeakConstruct, WeakRetain
  <2>2. ThreadsGo
    BY <1>30, <1>f, <1>c, <2>3, <2>4 DEF WeakConstruct, ThreadsGo, ResetPC,
       frame, Goto, WeakRetain
  <2>q. QED
    BY <1>30, <2>1, <2>2 DEF Grows, WeakConstruct, WeakRetain
<1>31. ASSUME NEW w \in WeakPtr, WeakCopyConstruct(t, w)
      PROVE  Grows
  <2>3. /\ weak[w] \in Object /\ (SN(weak[w]) > 0 \/ WN(weak[w]) > 0)
        /\ t \in WeakSlot /\ weak[t] = NULL
    BY <1>31, <1>s, <1>f, SlotCounted DEF WeakCopyConstruct, WeakRetain,
       LocalInv, FrameInv, WeakSlot
  <2>4. Inc(weakcount[weak[w]]) # 1
    BY <2>3, WeakCounted
  <2>1. CountersGrow /\ AtMostOne
    BY <1>31, <2>3, <2>4, WeakGrows DEF WeakCopyConstruct, WeakRetain
  <2>2. ThreadsGo
    BY <1>31, <1>f, <1>c, <2>3, <2>4 DEF WeakCopyConstruct, ThreadsGo,
       ResetPC, frame, Goto, WeakRetain
  <2>q. QED
    BY <1>31, <2>1, <2>2 DEF Grows, WeakCopyConstruct, WeakRetain
<1>32. CASE MakeWeak(t)
  <2>3. /\ obj[t] \in Object /\ (SN(obj[t]) > 0 \/ WN(obj[t]) > 0)
        /\ t \in WeakSlot /\ weak[t] = NULL
    BY <1>32, <1>s, <1>f, SlotCounted DEF MakeWeak, WeakRetain, LocalInv,
       FrameInv, PinInv, ReclaimPC, StrongSlot
  <2>4. Inc(weakcount[obj[t]]) # 1
    BY <2>3, WeakCounted
  <2>1. CountersGrow /\ AtMostOne
    BY <1>32, <2>3, <2>4, WeakGrows DEF MakeWeak, WeakRetain
  <2>2. ThreadsGo
    BY <1>32, <1>f, <1>c, <2>3, <2>4 DEF MakeWeak, ThreadsGo, ResetPC, frame,
       Goto, WeakRetain
  <2>q. QED
    BY <1>32, <2>1, <2>2 DEF Grows, MakeWeak, WeakRetain
<1>33. CASE WeakReclaimCopy(t)
  <2>3. /\ obj[t] \in Object /\ (SN(obj[t]) > 0 \/ WN(obj[t]) > 0)
        /\ t \in WeakSlot /\ weak[t] = NULL
    BY <1>33, <1>s, <1>f, SlotCounted DEF WeakReclaimCopy, WeakRetain,
       LocalInv, FrameInv, PinInv, WeakReclaimPC, WeakSlot
  <2>4. Inc(weakcount[obj[t]]) # 1
    BY <2>3, WeakCounted
  <2>1. CountersGrow /\ AtMostOne
    BY <1>33, <2>3, <2>4, WeakGrows DEF WeakReclaimCopy, WeakRetain
  <2>2. ThreadsGo
    BY <1>33, <1>f, <1>c, <2>3, <2>4 DEF WeakReclaimCopy, ThreadsGo, ResetPC,
       frame, Goto, WeakRetain
  <2>q. QED
    BY <1>33, <2>1, <2>2 DEF Grows, WeakReclaimCopy, WeakRetain
<1>34. ASSUME NEW w \in WeakPtr \cup RawWeakPtr, NEW r \in RawWeakPtr, WeakIncRef(t, w, r)
      PROVE  Grows
  <2>3. /\ weak[w] \in Object /\ (SN(weak[w]) > 0 \/ WN(weak[w]) > 0)
        /\ r \in WeakSlot /\ weak[r] = NULL
    BY <1>34, <1>s, <1>f, SlotCounted DEF WeakIncRef, LocalInv, FrameInv,
       WeakSlot
  <2>4. Inc(weakcount[weak[w]]) # 1
    BY <2>3, WeakCounted
  <2>1. CountersGrow /\ AtMostOne
    BY <1>34, <2>3, <2>4, WeakGrows DEF WeakIncRef
  <2>2. ThreadsGo
    BY <1>34, <1>f, <1>c, <2>3, <2>4 DEF WeakIncRef, ThreadsGo, ResetPC,
       frame, Goto
  <2>q. QED
    BY <1>34, <2>1, <2>2 DEF Grows, WeakIncRef
<1>q. QED
  BY <1>1, <1>2, <1>3, <1>4, <1>5, <1>6, <1>7, <1>8, <1>9, <1>10, <1>11,
     <1>12, <1>13, <1>14, <1>15, <1>16, <1>17, <1>18, <1>19, <1>20, <1>21,
     <1>22, <1>23, <1>24, <1>25, <1>26, <1>27, <1>28, <1>29, <1>30, <1>31,
     <1>32, <1>33, <1>34

-----------------------------------------------------------------------------
(* The steps that begin, release or end a life.                             *)

\* The numbers of one state and the next, in the form the steps below use.
Numbers ==
  \A o \in Object :
    /\ refcount[o] \in Nat /\ refcount'[o] \in Nat
    /\ weakcount[o] \in Nat /\ weakcount'[o] \in Nat
    /\ SN(o) \in Nat /\ SN(o)' \in Nat /\ WN(o) \in Nat /\ WN(o)' \in Nat
    /\ SN(o) = 0 <=> StrongRefs(o) = {}
    /\ SN(o)' = 0 <=> StrongRefs(o)' = {}
    /\ WN(o) = 0 <=> WeakRefs(o) = {}
    /\ WN(o)' = 0 <=> WeakRefs(o)' = {}
    /\ refcount[o] = SN(o)
    /\ (\A t \in Thread : ~Deletes(t, o)) =>
         weakcount[o] = WN(o) + (IF Shared(o) THEN 1 ELSE 0)

\* The numbers before and after a step, for the arithmetic solver.
LEMMA NumbersHold ==
  ASSUME LocalInv, LocalInv', CoreInv PROVE Numbers
<1>1. RefFacts /\ RefFacts'
  BY RefFactsHold, PTL
<1>2. CountsExact
  BY DEF CoreInv
<1>q. QED
  BY <1>1, <1>2, CountMaxPositive
     DEF Numbers, RefFacts, LocalInv, TypeOK, CountsExact, SN, WN

\* CountsExact', in the same form.
LEMMA CountsFromNumbers ==
  ASSUME Numbers,
         \A o \in Object :
           /\ refcount'[o] = SN(o)'
           /\ (\A t \in Thread : ~Deletes(t, o)') =>
                weakcount'[o] = WN(o)' + (IF Shared(o)' THEN 1 ELSE 0)
  PROVE  CountsExact'
BY DEF CountsExact, SN, WN

\* make() takes memory that nothing refers to.
LEMMA MakeStep ==
  ASSUME LocalInv, LocalInv', CoreInv, NEW t \in Thread, Make(t)
  PROVE  CoreInv'
<1>1. PICK o \in Object :
        /\ life[o] = "free"
        /\ life' = [life EXCEPT ![o] = "live"]
        /\ refcount' = [refcount EXCEPT ![o] = 1]
        /\ weakcount' = [weakcount EXCEPT ![o] = 1]
        /\ strong' = [strong EXCEPT ![t] = o]
  BY DEF Make
<1>2. /\ pc[t] = "idle" /\ pc' = [pc EXCEPT ![t] = "temp"]
      /\ weak' = weak /\ obj' = obj /\ expected' = expected
  BY DEF Make, Goto, frame
<1>n. Numbers
  BY NumbersHold
<1>3. /\ \A x \in Object : SN(x)' = IF x = o THEN SN(x) + 1 ELSE SN(x)
      /\ \A x \in Object : WN(x)' = WN(x)
  BY <1>1, <1>2, StrongAdded, WeakSame DEF LocalInv, FrameInv, StrongSlot
<1>4. /\ SN(o) = 0 /\ WN(o) = 0
      /\ \A u \in Thread : obj[u] # o
  BY <1>1, <1>n DEF CoreInv, NoUseAfterFree, Numbers
<1>5. ASSUME NEW u \in Thread, NEW x \in Object
      PROVE  /\ HoldsShare(u, x)' <=> HoldsShare(u, x)
             /\ Deletes(u, x)' <=> Deletes(u, x)
             /\ HoldsShare(u, x) => x # o /\ pc'[u] = pc[u]
             /\ Deletes(u, x) => x # o
  BY <1>2, <1>4 DEF HoldsShare, Deletes, LocalInv, TypeOK
<1>6. ASSUME NEW x \in Object
      PROVE  Shared(x)' <=> (x = o \/ Shared(x))
  BY <1>3, <1>5, <1>n DEF Shared, Numbers
<1>7. ASSUME NEW x \in Object
      PROVE  /\ refcount'[x] = IF x = o THEN 1 ELSE refcount[x]
             /\ weakcount'[x] = IF x = o THEN 1 ELSE weakcount[x]
             /\ life'[x] = IF x = o THEN "live" ELSE life[x]
  BY <1>1 DEF LocalInv, TypeOK
<1>8. CountsExact'
  BY <1>n, <1>3, <1>4, <1>5, <1>6, <1>7, CountsFromNumbers DEF Numbers
<1>9. NoUseAfterFree'
  BY <1>n, <1>2, <1>3, <1>7 DEF CoreInv, NoUseAfterFree, Numbers
<1>10. OwnersSeeResources'
  BY <1>n, <1>3, <1>7 DEF CoreInv, OwnersSeeResources, Numbers
<1>11. NoLeak'
  BY <1>n, <1>3, <1>5, <1>7 DEF CoreInv, NoLeak, Numbers
<1>12. CloserInv'
  BY <1>n, <1>3, <1>5, <1>7 DEF CoreInv, CloserInv, Numbers
<1>13. SoleDeleter'
  BY <1>n, <1>2, <1>3, <1>5 DEF CoreInv, SoleDeleter, Numbers
<1>14. DtorAsserts'
  BY <1>5, <1>7 DEF CoreInv, DtorAsserts
<1>15. LoadInv'
  BY <1>n, <1>2, <1>3, <1>4, <1>7
     DEF CoreInv, LoadInv, Numbers, LocalInv, TypeOK
<1>16. ChecksNeverFail'
  BY <1>2 DEF CoreInv, ChecksNeverFail, LocalInv, TypeOK
<1>q. QED
  BY <1>8, <1>9, <1>10, <1>11, <1>12, <1>13, <1>14, <1>15, <1>16 DEF CoreInv

\* A thread that works on a target does so beside a reference to it, unless it
\* is the one that cleans up.
Explained ==
  \A u \in Thread, o \in Object : obj[u] = o =>
    \/ HoldsShare(u, o) \/ Deletes(u, o)
    \/ StrongRefs(o) # {} \/ WeakRefs(o) # {}

\* A target that a thread works on without owning a count is protected by a
\* slot that the thread has pinned, or by the thread's own duty to delete it.
LEMMA ObjExplained == LocalInv /\ ChecksNeverFail => Explained
BY NullAssumption
   DEF Explained, LocalInv, TypeOK, FrameInv, PinInv, ChecksNeverFail, HoldsShare,
       Deletes, StrongRefs, WeakRefs, ResetPC, LockPC, ReclaimPC,
       WeakReclaimPC, StrongSlot, WeakSlot

\* The last owner becomes responsible for the target; any other just leaves.
LEMMA DecRefStep ==
  ASSUME LocalInv, LocalInv', CoreInv, NEW t \in Thread, DecRef(t)
  PROVE  CoreInv'
<1>0. PICK o \in Object : o = strong[t]
  BY DEF DecRef, LocalInv, TypeOK, FrameInv, StrongSlot
<1>1. /\ o = strong[t] /\ t \in StrongSlot /\ pc[t] = "dec"
      /\ weakcount' = weakcount /\ life' = life /\ weak' = weak
      /\ expected' = expected
      /\ strong' = [strong EXCEPT ![t] = NULL]
      /\ refcount' = [refcount EXCEPT ![o] = Dec(refcount[o])]
  BY <1>0 DEF DecRef, StrongSlot
<1>n. Numbers
  BY NumbersHold
<1>3. /\ \A x \in Object : SN(x)' = IF x = o THEN SN(x) - 1 ELSE SN(x)
      /\ \A x \in Object : WN(x)' = WN(x)
  BY <1>1, StrongDropped, WeakSame
<1>4. /\ SN(o) > 0 /\ life[o] = "live"
      /\ \A u \in Thread : ~HoldsShare(u, o) /\ ~Deletes(u, o)
  BY <1>1, <1>n, SlotCounted
     DEF CoreInv, OwnersSeeResources, CloserInv, SoleDeleter, Numbers
<1>7. ASSUME NEW x \in Object
      PROVE  refcount'[x] = IF x = o THEN refcount[x] - 1 ELSE refcount[x]
  BY <1>1, <1>4, <1>n DEF Numbers, LocalInv, TypeOK, Dec
<1>2. \/ /\ SN(o)' = 0
         /\ obj' = [obj EXCEPT ![t] = o] /\ pc' = [pc EXCEPT ![t] = "load_weak"]
      \/ /\ SN(o)' > 0
         /\ obj' = obj /\ pc' = [pc EXCEPT ![t] = "idle"]
  <2>1. Dec(refcount[o]) = SN(o)'
    BY <1>1, <1>3, <1>4, <1>n DEF Numbers, Dec
  <2>2. SN(o)' = 0 \/ SN(o)' > 0
    BY <1>1, <1>n DEF Numbers
  <2>q. QED
    BY <1>0, <2>1, <2>2 DEF DecRef, Goto
<1>5. ASSUME NEW u \in Thread, NEW x \in Object
      PROVE  /\ HoldsShare(u, x)'
                  <=> HoldsShare(u, x) \/ (u = t /\ x = o /\ SN(o)' = 0)
             /\ Deletes(u, x)' <=> Deletes(u, x)
             /\ HoldsShare(u, x) => pc'[u] = pc[u]
             /\ obj'[u] = x => obj[u] = x \/ (x = o /\ u = t)
             /\ obj[t] # x
             /\ pc'[t] \in {"load_weak", "idle"} /\ (u # t => pc'[u] = pc[u])
  <2>1. obj[t] = NULL /\ NULL \notin Object
    BY <1>1, NullAssumption
       DEF LocalInv, FrameInv, ResetPC, LockPC, ReclaimPC, WeakReclaimPC
  <2>q. QED
    BY <1>1, <1>2, <1>n, <2>1 DEF HoldsShare, Deletes, LocalInv, TypeOK, Numbers
<1>6. ASSUME NEW x \in Object
      PROVE  Shared(x)' <=> Shared(x)
  <2>1. CASE x = o
    <3>1. Shared(o)
      BY <1>1, <1>4, <1>n DEF Shared, Numbers
    <3>2. HoldsShare(t, o)' \/ SN(o)' > 0
      BY <1>1, <1>5, <1>2
    <3>3. Shared(o)'
      BY <1>1, <3>2, <1>n DEF Shared, Numbers
    <3>q. QED
      BY <2>1, <3>1, <3>3
  <2>2. CASE x # o
    <3>1. StrongRefs(x)' = {} <=> StrongRefs(x) = {}
      BY <2>2, <1>3, <1>n DEF Numbers
    <3>q. QED
      BY <2>2, <3>1, <1>5 DEF Shared
  <2>q. QED
    BY <2>1, <2>2
<1>m. ASSUME NEW x \in Object
      PROVE  /\ x # o => (StrongRefs(x)' = {} <=> StrongRefs(x) = {})
             /\ StrongRefs(x) = {} => StrongRefs(x)' = {}
             /\ WeakRefs(x)' = {} <=> WeakRefs(x) = {}
             /\ SN(o)' = 0 <=> StrongRefs(o)' = {}
             /\ refcount[x] = 0 => refcount'[x] = 0
  BY <1>1, <1>3, <1>4, <1>7, <1>n DEF Numbers
<1>8. CountsExact'
  BY <1>1, <1>n, <1>3, <1>5, <1>6, <1>7, CountsFromNumbers DEF Numbers
<1>9. NoUseAfterFree'
  BY <1>1, <1>n, <1>3, <1>4, <1>5 DEF CoreInv, NoUseAfterFree, Numbers
<1>10. OwnersSeeResources'
  BY <1>1, <1>n, <1>3 DEF CoreInv, OwnersSeeResources, Numbers
<1>11. NoLeak'
  BY <1>1, <1>m, <1>5 DEF CoreInv, NoLeak
<1>12. CloserInv'
  BY <1>1, <1>m, <1>4, <1>5 DEF CoreInv, CloserInv
<1>13. SoleDeleter'
  BY <1>1, <1>n, <1>3, <1>4, <1>5 DEF CoreInv, SoleDeleter, Numbers
<1>14. DtorAsserts'
  BY <1>1, <1>4, <1>5, <1>7 DEF CoreInv, DtorAsserts
<1>15. LoadInv'
  BY <1>1, <1>m, <1>5 DEF CoreInv, LoadInv
<1>16. ChecksNeverFail'
  BY <1>1, <1>2 DEF CoreInv, ChecksNeverFail, LocalInv, TypeOK
<1>q. QED
  BY <1>8, <1>9, <1>10, <1>11, <1>12, <1>13, <1>14, <1>15, <1>16 DEF CoreInv

\* What is known of a thread that took refcount_ to 0.
LEMMA CloserFacts ==
  ASSUME LocalInv, LocalInv', CoreInv, NEW t \in Thread,
         pc[t] \in {"load_weak", "release", "dec_weak"}
  PROVE  /\ obj[t] \in Object /\ HoldsShare(t, obj[t])
         /\ SN(obj[t]) = 0 /\ refcount[obj[t]] = 0 /\ Shared(obj[t])
         /\ weakcount[obj[t]] = WN(obj[t]) + 1
         /\ life[obj[t]] = IF pc[t] = "dec_weak" THEN "released" ELSE "live"
         /\ \A u \in Thread \ {t} :
              ~HoldsShare(u, obj[t]) /\ ~Deletes(u, obj[t])
         /\ \A u \in Thread : ~Deletes(u, obj[t])
<1>1. obj[t] \in Object
  BY DEF LocalInv, TypeOK, FrameInv, ResetPC
<1>2. HoldsShare(t, obj[t]) /\ ~Deletes(t, obj[t])
  BY DEF HoldsShare, Deletes
<1>3. Numbers
  BY NumbersHold
<1>4. /\ StrongRefs(obj[t]) = {}
      /\ life[obj[t]] = IF pc[t] = "dec_weak" THEN "released" ELSE "live"
      /\ \A u \in Thread \ {t} :
           ~HoldsShare(u, obj[t]) /\ ~Deletes(u, obj[t])
  BY <1>1, <1>2 DEF CoreInv, CloserInv
<1>5. Shared(obj[t]) /\ \A u \in Thread : ~Deletes(u, obj[t])
  BY <1>2, <1>4 DEF Shared
<1>q. QED
  BY <1>1, <1>2, <1>3, <1>4, <1>5 DEF Numbers

\* Without any reference, it is the only one that works on the target.
LEMMA CloserAlone ==
  ASSUME LocalInv, LocalInv', CoreInv, NEW t \in Thread,
         pc[t] \in {"load_weak", "release", "dec_weak"}, WN(obj[t]) = 0
  PROVE  /\ StrongRefs(obj[t]) = {} /\ WeakRefs(obj[t]) = {}
         /\ \A u \in Thread \ {t} : obj[u] # obj[t]
<1>1. StrongRefs(obj[t]) = {} /\ WeakRefs(obj[t]) = {} /\ obj[t] \in Object
  BY CloserFacts, RefFactsHold DEF RefFacts
<1>q. QED
  BY <1>1, CloserFacts, ObjExplained DEF CoreInv, Explained

\* A weakcount_ of 1 is the share of the strong owners: nothing can add to it
\* any more.
LEMMA LoadWeakStep ==
  ASSUME LocalInv, LocalInv', CoreInv, NEW t \in Thread, LoadWeak(t)
  PROVE  CoreInv'
<1>0. PICK o \in Object : o = obj[t]
  BY CloserFacts DEF LoadWeak
<1>1. /\ o = obj[t] /\ pc[t] = "load_weak" /\ refcount' = refcount /\ weakcount' = weakcount
      /\ life' = life /\ strong' = strong /\ weak' = weak /\ obj' = obj
      /\ expected' = expected
      /\ pc' = [pc EXCEPT ![t] = IF weakcount[o] = 1 THEN "delete"
                                                     ELSE "release"]
  BY <1>0 DEF LoadWeak, Goto, frame
<1>n. Numbers
  BY NumbersHold
<1>2. /\ SN(o) = 0 /\ refcount[o] = 0 /\ life[o] = "live"
      /\ weakcount[o] = WN(o) + 1
      /\ \A u \in Thread \ {t} : ~HoldsShare(u, o) /\ ~Deletes(u, o)
      /\ HoldsShare(t, o) /\ ~Deletes(t, o)
  BY <1>1, CloserFacts
<1>3. /\ \A x \in Object : SN(x)' = SN(x)
      /\ \A x \in Object : WN(x)' = WN(x)
  BY <1>1, StrongSame, WeakSame
<1>4. weakcount[o] = 1 =>
        /\ StrongRefs(o) = {} /\ WeakRefs(o) = {}
        /\ \A u \in Thread \ {t} : obj[u] # o
  BY <1>1, <1>2, <1>n, CloserAlone DEF Numbers
<1>5. ASSUME NEW u \in Thread, NEW x \in Object
      PROVE  /\ HoldsShare(u, x)'
                  <=> HoldsShare(u, x) /\ ~(u = t /\ weakcount[o] = 1)
             /\ Deletes(u, x)'
                  <=> Deletes(u, x) \/ (u = t /\ x = o /\ weakcount[o] = 1)
             /\ u # t => pc'[u] = pc[u]
             /\ pc'[t] \in {"delete", "release"}
             /\ obj'[u] = obj[u]
  BY <1>1 DEF HoldsShare, Deletes, LocalInv, TypeOK
<1>6. ASSUME NEW x \in Object, \A u \in Thread : ~Deletes(u, x)'
      PROVE  (Shared(x)' <=> Shared(x)) /\ \A u \in Thread : ~Deletes(u, x)
  BY <1>1, <1>2, <1>3, <1>5, <1>6, <1>n DEF Shared, Numbers, HoldsShare
<1>8. CountsExact'
  BY <1>1, <1>n, <1>3, <1>6, CountsFromNumbers DEF Numbers
<1>9. NoUseAfterFree'
  BY <1>1, <1>n, <1>3 DEF CoreInv, NoUseAfterFree, Numbers
<1>10. OwnersSeeResources'
  BY <1>1, <1>n, <1>3 DEF CoreInv, OwnersSeeResources, Numbers
<1>11. NoLeak'
  BY <1>1, <1>n, <1>3, <1>5 DEF CoreInv, NoLeak, Numbers, HoldsShare
<1>12. CloserInv'
  <2>1. SUFFICES ASSUME NEW u \in Thread, NEW x \in Object, HoldsShare(u, x)'
        PROVE /\ StrongRefs(x)' = {}
              /\ life'[x] = IF pc'[u] = "dec_weak" THEN "released" ELSE "live"
              /\ \A v \in Thread \ {u} : ~HoldsShare(v, x)' /\ ~Deletes(v, x)'
    BY DEF CloserInv
  <2>2. HoldsShare(u, x) /\ (u = t => x = o)
    BY <2>1, <1>5, <1>1 DEF HoldsShare
  <2>3. /\ StrongRefs(x) = {}
        /\ life[x] = IF pc[u] = "dec_weak" THEN "released" ELSE "live"
        /\ \A v \in Thread \ {u} : ~HoldsShare(v, x) /\ ~Deletes(v, x)
    BY <2>2 DEF CoreInv, CloserInv
  <2>4. StrongRefs(x)' = {}
    BY <2>3, <1>3, <1>n DEF Numbers
  <2>5. life'[x] = IF pc'[u] = "dec_weak" THEN "released" ELSE "live"
    BY <2>2, <2>3, <1>1, <1>5
  <2>6. \A v \in Thread \ {u} : ~HoldsShare(v, x)' /\ ~Deletes(v, x)'
    BY <2>2, <2>3, <1>5, <1>2
  <2>q. QED
    BY <2>4, <2>5, <2>6
<1>13. SoleDeleter'
  BY <1>1, <1>2, <1>n, <1>3, <1>4, <1>5 DEF CoreInv, SoleDeleter, Numbers
<1>14. DtorAsserts'
  BY <1>1, <1>2, <1>5 DEF CoreInv, DtorAsserts
<1>15. LoadInv'
  BY <1>1, <1>n, <1>3, <1>5 DEF CoreInv, LoadInv, Numbers
<1>16. ChecksNeverFail'
  BY <1>1 DEF CoreInv, ChecksNeverFail, LocalInv, TypeOK
<1>q. QED
  BY <1>8, <1>9, <1>10, <1>11, <1>12, <1>13, <1>14, <1>15, <1>16 DEF CoreInv

\* No owner is left to see the resources go.
LEMMA ReleaseResourcesStep ==
  ASSUME LocalInv, LocalInv', CoreInv, NEW t \in Thread, ReleaseResources(t)
  PROVE  CoreInv'
<1>0. PICK o \in Object : o = obj[t]
  BY CloserFacts DEF ReleaseResources
<1>1. /\ o = obj[t] /\ pc[t] = "release" /\ refcount' = refcount /\ weakcount' = weakcount
      /\ life' = [life EXCEPT ![o] = "released"]
      /\ strong' = strong /\ weak' = weak /\ obj' = obj
      /\ expected' = expected /\ pc' = [pc EXCEPT ![t] = "dec_weak"]
  BY <1>0 DEF ReleaseResources, Goto, frame
<1>n. Numbers
  BY NumbersHold
<1>2. /\ SN(o) = 0 /\ life[o] = "live" /\ HoldsShare(t, o)
      /\ \A u \in Thread \ {t} : ~HoldsShare(u, o) /\ ~Deletes(u, o)
  BY <1>1, CloserFacts
<1>3. /\ \A x \in Object : SN(x)' = SN(x)
      /\ \A x \in Object : WN(x)' = WN(x)
      /\ \A x \in Object : life'[x] = IF x = o THEN "released" ELSE life[x]
  BY <1>1, StrongSame, WeakSame DEF LocalInv, TypeOK
<1>5. ASSUME NEW u \in Thread, NEW x \in Object
      PROVE  /\ HoldsShare(u, x)' <=> HoldsShare(u, x)
             /\ Deletes(u, x)' <=> Deletes(u, x)
             /\ u # t => pc'[u] = pc[u]
             /\ pc'[t] = "dec_weak" /\ obj'[u] = obj[u]
  BY <1>1 DEF HoldsShare, Deletes, LocalInv, TypeOK
<1>6. ASSUME NEW x \in Object
      PROVE  Shared(x)' <=> Shared(x)
  BY <1>3, <1>5, <1>n DEF Shared, Numbers
<1>8. CountsExact'
  BY <1>1, <1>n, <1>3, <1>5, <1>6, CountsFromNumbers DEF Numbers
<1>9. NoUseAfterFree'
  BY <1>1, <1>n, <1>3 DEF CoreInv, NoUseAfterFree, Numbers
<1>10. OwnersSeeResources'
  BY <1>2, <1>n, <1>3 DEF CoreInv, OwnersSeeResources, Numbers
<1>11. NoLeak'
  BY <1>2, <1>n, <1>3, <1>5 DEF CoreInv, NoLeak, Numbers
<1>12. CloserInv'
  BY <1>1, <1>2, <1>n, <1>3, <1>5 DEF CoreInv, CloserInv, Numbers, HoldsShare
<1>13. SoleDeleter'
  BY <1>n, <1>3, <1>5 DEF CoreInv, SoleDeleter, Numbers
<1>14. DtorAsserts'
  BY <1>1, <1>5 DEF CoreInv, DtorAsserts
<1>15. LoadInv'
  BY <1>1, <1>n, <1>3, <1>5 DEF CoreInv, LoadInv, Numbers
<1>16. ChecksNeverFail'
  BY <1>1 DEF CoreInv, ChecksNeverFail, LocalInv, TypeOK
<1>q. QED
  BY <1>8, <1>9, <1>10, <1>11, <1>12, <1>13, <1>14, <1>15, <1>16 DEF CoreInv

\* The share is given up, and the last reference deletes the target.
LEMMA DecWeakShareStep ==
  ASSUME LocalInv, LocalInv', CoreInv, NEW t \in Thread, DecWeakShare(t)
  PROVE  CoreInv'
<1>0. PICK o \in Object : o = obj[t]
  BY CloserFacts DEF DecWeakShare
<1>n. Numbers
  BY NumbersHold
<1>2. /\ SN(o) = 0 /\ refcount[o] = 0 /\ life[o] = "released"
      /\ weakcount[o] = WN(o) + 1
      /\ \A u \in Thread \ {t} : ~HoldsShare(u, o) /\ ~Deletes(u, o)
      /\ HoldsShare(t, o) /\ ~Deletes(t, o)
  BY <1>0, CloserFacts DEF DecWeakShare
<1>4. Dec(weakcount[o]) = WN(o)
  BY <1>n, <1>2 DEF Dec, Numbers
<1>1. /\ o = obj[t] /\ pc[t] = "dec_weak"
      /\ refcount' = refcount /\ life' = life
      /\ strong' = strong /\ weak' = weak
      /\ weakcount' = [weakcount EXCEPT ![o] = WN(o)]
      /\ \/ /\ WN(o) = 0 /\ pc' = [pc EXCEPT ![t] = "delete"]
            /\ obj' = obj /\ expected' = expected
         \/ /\ WN(o) # 0 /\ pc' = [pc EXCEPT ![t] = "idle"]
            /\ obj' = [obj EXCEPT ![t] = NULL]
            /\ expected' = [expected EXCEPT ![t] = 0]
  BY <1>0, <1>4 DEF DecWeakShare, Goto, Return, frame
<1>3. /\ \A x \in Object : SN(x)' = SN(x)
      /\ \A x \in Object : WN(x)' = WN(x)
      /\ \A x \in Object :
           weakcount'[x] = IF x = o THEN WN(o) ELSE weakcount[x]
  BY <1>1, StrongSame, WeakSame DEF LocalInv, TypeOK
<1>5. ASSUME NEW u \in Thread, NEW x \in Object
      PROVE  /\ HoldsShare(u, x)' <=> HoldsShare(u, x) /\ u # t
             /\ Deletes(u, x)'
                  <=> Deletes(u, x) \/ (u = t /\ x = o /\ WN(o) = 0)
             /\ u # t => pc'[u] = pc[u] /\ expected'[u] = expected[u]
             /\ obj'[u] = x => obj[u] = x
             /\ pc'[t] \in {"delete", "idle"}
  BY <1>1, NullAssumption DEF HoldsShare, Deletes, LocalInv, TypeOK
<1>m. ASSUME NEW x \in Object
      PROVE  /\ StrongRefs(x)' = {} <=> StrongRefs(x) = {}
             /\ WeakRefs(x)' = {} <=> WeakRefs(x) = {}
             /\ WN(x) = 0 <=> WeakRefs(x) = {}
  BY <1>3, <1>n DEF Numbers
<1>8. CountsExact'
  <2>1. ASSUME NEW x \in Object, x # o
        PROVE  /\ Shared(x)' <=> Shared(x)
               /\ \A u \in Thread : Deletes(u, x)' <=> Deletes(u, x)
    BY <2>1, <1>1, <1>5, <1>m DEF Shared, HoldsShare
  <2>2. ~Shared(o)'
    BY <1>2, <1>5, <1>m, <1>n DEF Shared, Numbers
  <2>q. QED
    BY <2>1, <2>2, <1>1, <1>3, <1>n, CountsFromNumbers DEF Numbers
<1>9. NoUseAfterFree'
  BY <1>1, <1>m, <1>5 DEF CoreInv, NoUseAfterFree
<1>10. OwnersSeeResources'
  BY <1>1, <1>m DEF CoreInv, OwnersSeeResources
<1>11. NoLeak'
  BY <1>1, <1>m, <1>5 DEF CoreInv, NoLeak, HoldsShare
<1>12. CloserInv'
  <2> SUFFICES ASSUME NEW u \in Thread, NEW x \in Object, HoldsShare(u, x)'
        PROVE /\ StrongRefs(x)' = {}
              /\ life'[x] = IF pc'[u] = "dec_weak" THEN "released" ELSE "live"
              /\ \A v \in Thread \ {u} : ~HoldsShare(v, x)' /\ ~Deletes(v, x)'
    BY DEF CloserInv
  <2>2. HoldsShare(u, x) /\ u # t
    BY <1>5
  <2>3. /\ StrongRefs(x) = {}
        /\ life[x] = IF pc[u] = "dec_weak" THEN "released" ELSE "live"
        /\ \A v \in Thread \ {u} : ~HoldsShare(v, x) /\ ~Deletes(v, x)
    BY <2>2 DEF CoreInv, CloserInv
  <2>q. QED
    BY <2>2, <2>3, <1>1, <1>2, <1>5, <1>m
<1>13. SoleDeleter'
  <2>1. WN(o) = 0 => /\ StrongRefs(o) = {} /\ WeakRefs(o) = {}
                     /\ \A u \in Thread \ {t} : obj[u] # o
    BY <1>1, CloserAlone
  <2>q. QED
    BY <2>1, <1>1, <1>2, <1>5, <1>m DEF CoreInv, SoleDeleter
<1>14. DtorAsserts'
  BY <1>1, <1>2, <1>3, <1>5 DEF CoreInv, DtorAsserts
<1>15. LoadInv'
  BY <1>1, <1>5, <1>m DEF CoreInv, LoadInv
<1>16. ChecksNeverFail'
  BY <1>1 DEF CoreInv, ChecksNeverFail, LocalInv, TypeOK
<1>q. QED
  BY <1>8, <1>9, <1>10, <1>11, <1>12, <1>13, <1>14, <1>15, <1>16 DEF CoreInv

\* The memory is given back and nothing refers to it.
LEMMA DeleteStep ==
  ASSUME LocalInv, LocalInv', CoreInv, NEW t \in Thread, Delete(t)
  PROVE  CoreInv'
<1>0. PICK o \in Object : o = obj[t]
  BY DEF Delete, LocalInv, TypeOK, FrameInv, ResetPC
<1>n. Numbers
  BY NumbersHold
<1>1. /\ o = obj[t] /\ pc[t] = "delete"
      /\ strong' = strong /\ weak' = weak
      /\ life' = [life EXCEPT ![o] = "free"]
      /\ refcount' = [refcount EXCEPT ![o] = 0]
      /\ weakcount' = [weakcount EXCEPT ![o] = 0]
      /\ pc' = [pc EXCEPT ![t] = "idle"] /\ obj' = [obj EXCEPT ![t] = NULL]
      /\ expected' = [expected EXCEPT ![t] = 0]
  BY <1>0 DEF Delete, Goto, Return
<1>2. /\ StrongRefs(o) = {} /\ WeakRefs(o) = {} /\ SN(o) = 0 /\ WN(o) = 0
      /\ \A u \in Thread \ {t} : obj[u] # o
  BY <1>1, <1>n DEF CoreInv, SoleDeleter, Deletes, Numbers
<1>3. /\ \A x \in Object : SN(x)' = SN(x)
      /\ \A x \in Object : WN(x)' = WN(x)
      /\ \A x \in Object :
           /\ refcount'[x] = IF x = o THEN 0 ELSE refcount[x]
           /\ weakcount'[x] = IF x = o THEN 0 ELSE weakcount[x]
           /\ life'[x] = IF x = o THEN "free" ELSE life[x]
  BY <1>1, StrongSame, WeakSame DEF LocalInv, TypeOK
<1>5. ASSUME NEW u \in Thread, NEW x \in Object
      PROVE  /\ HoldsShare(u, x)' <=> HoldsShare(u, x)
             /\ HoldsShare(u, x) => u # t /\ x # o
             /\ Deletes(u, x)' <=> Deletes(u, x) /\ u # t
             /\ Deletes(u, x) => (u = t <=> x = o)
             /\ u # t => pc'[u] = pc[u] /\ expected'[u] = expected[u]
             /\ obj'[u] = x <=> obj[u] = x /\ u # t
             /\ obj[u] = o => u = t
  BY <1>1, <1>2, NullAssumption DEF HoldsShare, Deletes, LocalInv, TypeOK
<1>m. ASSUME NEW x \in Object
      PROVE  /\ StrongRefs(x)' = {} <=> StrongRefs(x) = {}
             /\ WeakRefs(x)' = {} <=> WeakRefs(x) = {}
  BY <1>3, <1>n DEF Numbers
<1>8. CountsExact'
  <2>1. ASSUME NEW x \in Object, x # o
        PROVE  /\ Shared(x)' <=> Shared(x)
               /\ \A u \in Thread : Deletes(u, x)' <=> Deletes(u, x)
    BY <2>1, <1>5, <1>m DEF Shared
  <2>2. ~Shared(o)'
    BY <1>2, <1>5, <1>m DEF Shared
  <2>q. QED
    BY <2>1, <2>2, <1>2, <1>3, <1>n, CountsFromNumbers DEF Numbers
<1>9. NoUseAfterFree'
  BY <1>2, <1>3, <1>m, <1>5 DEF CoreInv, NoUseAfterFree
<1>10. OwnersSeeResources'
  BY <1>2, <1>3, <1>m DEF CoreInv, OwnersSeeResources
<1>11. NoLeak'
  BY <1>3, <1>m, <1>5 DEF CoreInv, NoLeak
<1>12. CloserInv'
  <2> SUFFICES ASSUME NEW u \in Thread, NEW x \in Object, HoldsShare(u, x)'
        PROVE /\ StrongRefs(x)' = {}
              /\ life'[x] = IF pc'[u] = "dec_weak" THEN "released" ELSE "live"
              /\ \A v \in Thread \ {u} : ~HoldsShare(v, x)' /\ ~Deletes(v, x)'
    BY DEF CloserInv
  <2>2. HoldsShare(u, x) /\ u # t /\ x # o
    BY <1>5
  <2>3. /\ StrongRefs(x) = {}
        /\ life[x] = IF pc[u] = "dec_weak" THEN "released" ELSE "live"
        /\ \A v \in Thread \ {u} : ~HoldsShare(v, x) /\ ~Deletes(v, x)
    BY <2>2 DEF CoreInv, CloserInv
  <2>q. QED
    BY <2>2, <2>3, <1>3, <1>5, <1>m
<1>13. SoleDeleter'
  BY <1>5, <1>m DEF CoreInv, SoleDeleter
<1>14. DtorAsserts'
  BY <1>3, <1>5 DEF CoreInv, DtorAsserts
<1>15. LoadInv'
  BY <1>3, <1>5, <1>m DEF CoreInv, LoadInv
<1>16. ChecksNeverFail'
  BY <1>1 DEF CoreInv, ChecksNeverFail, LocalInv, TypeOK
<1>q. QED
  BY <1>8, <1>9, <1>10, <1>11, <1>12, <1>13, <1>14, <1>15, <1>16 DEF CoreInv

\* A weak owner leaves; it deletes the target only if the share is gone too.
LEMMA DecWeakStep ==
  ASSUME LocalInv, LocalInv', CoreInv, NEW t \in Thread, DecWeak(t)
  PROVE  CoreInv'
<1>0. PICK o \in Object : o = weak[t]
  BY DEF DecWeak, LocalInv, TypeOK, FrameInv, WeakSlot
<1>n. Numbers
  BY NumbersHold
<1>1. /\ o = weak[t] /\ t \in WeakSlot /\ pc[t] = "wdec"
      /\ refcount' = refcount /\ life' = life /\ strong' = strong
      /\ expected' = expected
      /\ weak' = [weak EXCEPT ![t] = NULL]
      /\ weakcount' = [weakcount EXCEPT ![o] = Dec(weakcount[o])]
  BY <1>0 DEF DecWeak, WeakSlot
<1>3. /\ \A x \in Object : WN(x)' = IF x = o THEN WN(x) - 1 ELSE WN(x)
      /\ \A x \in Object : SN(x)' = SN(x)
  BY <1>1, WeakDropped, StrongSame
<1>4. /\ WN(o) > 0 /\ life[o] # "free"
      /\ \A u \in Thread : ~Deletes(u, o)
      /\ weakcount[o] = WN(o) + (IF Shared(o) THEN 1 ELSE 0)
  BY <1>1, <1>n, SlotCounted, WeakCounted
     DEF CoreInv, NoUseAfterFree, SoleDeleter, Numbers
<1>6. /\ Dec(weakcount[o]) = weakcount[o] - 1
      /\ weakcount[o] - 1 = WN(o)' + (IF Shared(o) THEN 1 ELSE 0)
      /\ weakcount[o] - 1 = 0 <=> WN(o)' = 0 /\ ~Shared(o)
  BY <1>3, <1>4, <1>n DEF Dec, Numbers
<1>7. ASSUME NEW x \in Object
      PROVE  weakcount'[x] = IF x = o THEN weakcount[x] - 1 ELSE weakcount[x]
  BY <1>1, <1>6 DEF LocalInv, TypeOK
<1>2. \/ /\ WN(o)' = 0 /\ ~Shared(o)
         /\ obj' = [obj EXCEPT ![t] = o] /\ pc' = [pc EXCEPT ![t] = "delete"]
      \/ /\ WN(o)' # 0 \/ Shared(o)
         /\ obj' = obj /\ pc' = [pc EXCEPT ![t] = "idle"]
  BY <1>0, <1>6 DEF DecWeak, Goto
<1>5. ASSUME NEW u \in Thread, NEW x \in Object
      PROVE  /\ HoldsShare(u, x)' <=> HoldsShare(u, x)
             /\ HoldsShare(u, x) => u # t
             /\ Deletes(u, x)' <=> Deletes(u, x)
                  \/ (u = t /\ x = o /\ WN(o)' = 0 /\ ~Shared(o))
             /\ Deletes(u, x) => u # t /\ x # o
             /\ obj'[u] = x => obj[u] = x \/ (x = o /\ u = t)
             /\ pc'[t] \in {"delete", "idle"} /\ (u # t => pc'[u] = pc[u])
  <2>1. obj[t] = NULL /\ NULL \notin Object
    BY <1>1, NullAssumption
       DEF LocalInv, FrameInv, ResetPC, LockPC, ReclaimPC, WeakReclaimPC
  <2>q. QED
    BY <1>1, <1>2, <1>4, <2>1 DEF HoldsShare, Deletes, LocalInv, TypeOK
<1>m. ASSUME NEW x \in Object
      PROVE  /\ StrongRefs(x)' = {} <=> StrongRefs(x) = {}
             /\ WeakRefs(x) = {} => WeakRefs(x)' = {}
             /\ x # o => (WeakRefs(x)' = {} <=> WeakRefs(x) = {})
             /\ WN(o)' = 0 <=> WeakRefs(o)' = {}
             /\ Shared(x)' <=> Shared(x)
  <2>1. /\ StrongRefs(x)' = {} <=> StrongRefs(x) = {}
        /\ x # o => (WeakRefs(x)' = {} <=> WeakRefs(x) = {})
    BY <1>3, <1>n DEF Numbers
  <2>2. WN(o)' = 0 <=> WeakRefs(o)' = {}
    BY <1>0, <1>n DEF Numbers
  <2>3. WeakRefs(o) # {}
    BY <1>0, <1>4, <1>n DEF Numbers
  <2>4. Shared(x)' <=> Shared(x)
    BY <2>1, <1>5 DEF Shared
  <2>q. QED
    BY <2>1, <2>2, <2>3, <2>4
<1>8. CountsExact'
  <2>1. ASSUME NEW x \in Object PROVE refcount'[x] = SN(x)'
    BY <1>1, <1>3, <1>n DEF Numbers
  <2>2. ASSUME NEW x \in Object, \A u \in Thread : ~Deletes(u, x)'
        PROVE  weakcount'[x] = WN(x)' + (IF Shared(x)' THEN 1 ELSE 0)
    <3>1. CASE x = o
      BY <3>1, <1>6, <1>7, <1>m
    <3>2. CASE x # o
      <4>1. \A u \in Thread : ~Deletes(u, x)
        BY <2>2, <1>5
      <4>2. weakcount[x] = WN(x) + (IF Shared(x) THEN 1 ELSE 0)
        BY <4>1, <1>n DEF Numbers
      <4>q. QED
        BY <3>2, <4>2, <1>3, <1>7, <1>m
    <3>q. QED
      BY <3>1, <3>2
  <2>q. QED
    BY <2>1, <2>2, <1>n, CountsFromNumbers
<1>9. NoUseAfterFree'
  BY <1>1, <1>4, <1>m, <1>5 DEF CoreInv, NoUseAfterFree
<1>10. OwnersSeeResources'
  BY <1>1, <1>m DEF CoreInv, OwnersSeeResources
<1>11. NoLeak'
  BY <1>0, <1>1, <1>m, <1>5 DEF CoreInv, NoLeak, Shared
<1>12. CloserInv'
  <2> SUFFICES ASSUME NEW u \in Thread, NEW x \in Object, HoldsShare(u, x)'
        PROVE /\ StrongRefs(x)' = {}
              /\ life'[x] = IF pc'[u] = "dec_weak" THEN "released" ELSE "live"
              /\ \A v \in Thread \ {u} : ~HoldsShare(v, x)' /\ ~Deletes(v, x)'
    BY DEF CloserInv
  <2>2. HoldsShare(u, x) /\ u # t
    BY <1>5
  <2>3. /\ StrongRefs(x) = {}
        /\ life[x] = IF pc[u] = "dec_weak" THEN "released" ELSE "live"
        /\ \A v \in Thread \ {u} : ~HoldsShare(v, x) /\ ~Deletes(v, x)
    BY <2>2 DEF CoreInv, CloserInv
  <2>4. Shared(x)
    BY <2>2 DEF Shared
  <2>q. QED
    BY <2>2, <2>3, <2>4, <1>1, <1>5, <1>m
<1>13. SoleDeleter'
  <2>1. ASSUME WN(o)' = 0, ~Shared(o)
        PROVE  /\ StrongRefs(o)' = {} /\ WeakRefs(o)' = {}
               /\ \A u \in Thread \ {t} : obj'[u] # o
    <3>1. StrongRefs(o)' = {} /\ WeakRefs(o)' = {}
      BY <1>0, <2>1, <1>m DEF Shared
    <3>2. ASSUME NEW u \in Thread \ {t} PROVE ~HoldsShare(u, o)' /\ ~Deletes(u, o)'
      BY <1>0, <2>1, <1>4, <1>5 DEF Shared
    <3>3. ChecksNeverFail'
      BY <1>1, <1>2 DEF CoreInv, ChecksNeverFail, LocalInv, TypeOK
    <3>4. Explained'
      BY <3>3, ObjExplained, PTL
    <3>q. QED
      BY <3>1, <3>2, <3>4 DEF Explained
  <2>q. QED
    BY <2>1, <1>1, <1>5, <1>m DEF CoreInv, SoleDeleter
<1>14. DtorAsserts'
  <2>1. ASSUME WN(o)' = 0, ~Shared(o)
        PROVE  refcount'[o] = 0 /\ weakcount'[o] = 0
    BY <1>0, <2>1, <1>1, <1>6, <1>7, <1>n DEF Shared, Numbers
  <2>q. QED
    BY <2>1, <1>1, <1>5, <1>7 DEF CoreInv, DtorAsserts
<1>15. LoadInv'
  BY <1>1, <1>5, <1>m DEF CoreInv, LoadInv
<1>16. ChecksNeverFail'
  BY <1>1, <1>2 DEF CoreInv, ChecksNeverFail, LocalInv, TypeOK
<1>q. QED
  BY <1>8, <1>9, <1>10, <1>11, <1>12, <1>13, <1>14, <1>15, <1>16 DEF CoreInv

-----------------------------------------------------------------------------
(* The theorems.                                                            *)

\* Nothing is allocated.
LEMMA InitCore == Init => CoreInv
<1> SUFFICES ASSUME Init PROVE CoreInv
  OBVIOUS
<1>1. \A o \in Object : /\ StrongRefs(o) = {} /\ WeakRefs(o) = {}
                        /\ refcount[o] = 0 /\ weakcount[o] = 0
                        /\ life[o] = "free"
  BY NullAssumption DEF Init, StrongRefs, WeakRefs
<1>2. \A t \in Thread : pc[t] = "idle" /\ obj[t] = NULL
  BY DEF Init
<1>3. \A t \in Thread, o \in Object : ~HoldsShare(t, o) /\ ~Deletes(t, o)
  BY <1>2 DEF HoldsShare, Deletes
<1>4. \A o \in Object : ~Shared(o)
  BY <1>1, <1>3 DEF Shared
<1>5. \A o \in Object : Cardinality(StrongRefs(o)) = 0 /\ Cardinality(WeakRefs(o)) = 0
  BY <1>1, FS_EmptySet
<1>6. CountsExact
  BY <1>1, <1>4, <1>5 DEF CountsExact
<1>q. QED
  BY <1>1, <1>2, <1>3, <1>6, NullAssumption
     DEF CoreInv, NoUseAfterFree, OwnersSeeResources, NoLeak, CloserInv,
         SoleDeleter, DtorAsserts, LoadInv, ChecksNeverFail

\* The invariant in the two parts that the proof is split into.
LEMMA IInvParts == IInv <=> LocalInv /\ CoreInv
BY DEF IInv, CoreInv

\* Every step preserves the part about the counters.
LEMMA NextCore == LocalInv /\ LocalInv' /\ CoreInv /\ [Next]_vars => CoreInv'
<1> SUFFICES ASSUME LocalInv, LocalInv', CoreInv, [Next]_vars PROVE CoreInv'
  OBVIOUS
<1>1. ASSUME NEW t \in Thread, CallStep(t) PROVE CoreInv'
  <2>1. CASE DecRef(t)
    BY <2>1, DecRefStep
  <2>2. CASE LoadWeak(t)
    BY <2>2, LoadWeakStep
  <2>3. CASE ReleaseResources(t)
    BY <2>3, ReleaseResourcesStep
  <2>4. CASE DecWeakShare(t)
    BY <2>4, DecWeakShareStep
  <2>5. CASE Delete(t)
    BY <2>5, DeleteStep
  <2>6. CASE DecWeak(t)
    BY <2>6, DecWeakStep
  <2>7. CASE \/ ReclaimLoadRef(t) \/ ReclaimLoadWeak(t)
             \/ LockExpire(t) \/ LockLoad(t) \/ LockEmpty(t)
             \/ LockSucceed(t) \/ LockFail(t)
             \/ WeakReclaimLoadWeak(t) \/ WeakReclaimLoadRef(t)
             \/ WeakReclaimLoadWeak2(t)
    <3>1. Grows
      BY <2>7, GrowingStep
    <3>q. QED
      BY <3>1, GrowsPreserves
  <2>q. QED
    BY <1>1, <2>1, <2>2, <2>3, <2>4, <2>5, <2>6, <2>7 DEF CallStep
<1>2. ASSUME NEW t \in Thread, ClientStep(t) PROVE CoreInv'
  <2>1. CASE Make(t)
    BY <2>1, MakeStep
  <2>2. CASE ~Make(t)
    <3>1. Grows
      BY <1>2, <2>2, GrowingStep DEF ClientStep
    <3>q. QED
      BY <3>1, GrowsPreserves
  <2>q. QED
    BY <2>1, <2>2
<1>3. CASE UNCHANGED vars
  <2>1. /\ \A o \in Object : SN(o)' = SN(o)
        /\ \A o \in Object : WN(o)' = WN(o)
    BY <1>3, StrongSame, WeakSame DEF vars
  <2>2. CountersGrow /\ AtMostOne
    BY <1>3, <2>1, SlotsKept DEF vars
  <2>3. ThreadsGo
    BY <1>3 DEF vars, ThreadsGo, CoreInv, ChecksNeverFail
  <2>q. QED
    BY <1>3, <2>2, <2>3, GrowsPreserves DEF Grows, vars
<1>q. QED
  BY <1>1, <1>2, <1>3 DEF Next

\* The inductive invariant holds for every number of threads, targets and
\* pointers of each kind.
THEOREM InductiveInvariant == Spec => []IInv
<1>1. Init => IInv
  BY InitLocal, InitCore, IInvParts
<1>2. IInv /\ [Next]_vars => IInv'
  <2>1. IInv /\ [Next]_vars => LocalInv' /\ CoreInv'
    BY NextLocal, NextCore, IInvParts
  <2>2. (IInv <=> LocalInv /\ CoreInv)'
    BY IInvParts, PTL
  <2>q. QED
    BY <2>1, <2>2
<1>q. QED
  BY <1>1, <1>2, PTL DEF Spec

\* refcount_ and weakcount_ count exactly what refers to the target.
THEOREM CountsAreExact == Spec => []CountsExact
<1>1. IInv => CountsExact
  BY DEF IInv
<1>q. QED
  BY <1>1, InductiveInvariant, PTL

\* No pointer, and no thread in the middle of a call, refers to deleted memory.
THEOREM MemoryIsSafe == Spec => []NoUseAfterFree
<1>1. IInv => NoUseAfterFree
  BY DEF IInv
<1>q. QED
  BY <1>1, InductiveInvariant, PTL

\* The thread that runs `delete' is the only one that knows the target.
THEOREM DeletersAreAlone == Spec => []SoleDeleter
<1>1. IInv => SoleDeleter
  BY DEF IInv
<1>q. QED
  BY <1>1, InductiveInvariant, PTL

\* The asserts of ~intrusive_ptr_target hold (IntrusivePtr.h:42-45).
THEOREM AssertsHold == Spec => []DtorAsserts
<1>1. IInv => DtorAsserts
  BY DEF IInv
<1>q. QED
  BY <1>1, InductiveInvariant, PTL

\* No TORCH_CHECK of the header fails in any interleaving.
THEOREM ChecksHold == Spec => []ChecksNeverFail
<1>1. IInv => ChecksNeverFail
  BY DEF IInv
<1>q. QED
  BY <1>1, InductiveInvariant, PTL

\* A target that has an owner has its resources.
THEOREM ResourcesAreKept == Spec => []OwnersSeeResources
<1>1. IInv => OwnersSeeResources
  BY DEF IInv
<1>q. QED
  BY <1>1, InductiveInvariant, PTL

\* A target that is not free is referred to or about to be deleted.
THEOREM NothingLeaks == Spec => []NoLeak
<1>1. IInv => NoLeak
  BY DEF IInv
<1>q. QED
  BY <1>1, InductiveInvariant, PTL

-----------------------------------------------------------------------------
(* IntrusivePtr implements the safety part of SharedOwnership, and what its *)
(* steps may never do.                                                      *)

\* The conditions under which a step is looked at.
Reached == LocalInv /\ LocalInv' /\ CoreInv

\* The actions that are not growing steps.
SpecialStep(t) ==
  \/ Make(t) \/ DecRef(t) \/ LoadWeak(t) \/ ReleaseResources(t)
  \/ DecWeakShare(t) \/ Delete(t) \/ DecWeak(t)

\* Every step is a growing one or one of the seven.
LEMMA StepKinds ==
  ASSUME Reached, NEW t \in Thread, CallStep(t) \/ ClientStep(t)
  PROVE  Grows \/ SpecialStep(t)
<1>1. CASE SpecialStep(t)
  BY <1>1
<1>2. CASE CallStep(t) /\ ~SpecialStep(t)
  BY <1>2, GrowingStep DEF CallStep, SpecialStep, Reached
<1>3. CASE ClientStep(t) /\ ~SpecialStep(t)
  BY <1>3, GrowingStep DEF ClientStep, SpecialStep, Reached
<1>q. QED
  BY <1>1, <1>2, <1>3

-----------------------------------------------------------------------------
(* What a step may never do.                                                *)

\* The two steps that write refcount_ of a target with owners or of none.
LEMMA RefcountStays ==
  ASSUME Reached, NEW t \in Thread, CallStep(t) \/ ClientStep(t),
         NEW o \in Object, life[o] # "free", refcount[o] = 0
  PROVE  refcount'[o] = 0
<1>n. Numbers
  BY NumbersHold DEF Reached
<1>1. SN(o) = 0
  BY <1>n DEF Numbers
<1>2. CASE Grows
  <2>0. /\ refcount'[o] - refcount[o] = SN(o)' - SN(o)
        /\ SN(o) = 0 => SN(o)' = 0
    BY <1>2 DEF Grows, CountersGrow
  <2>1. refcount'[o] - refcount[o] = 0
    BY <1>1, <2>0
  <2>2. refcount'[o] \in 0..CountMax
    BY DEF Reached, LocalInv, TypeOK
  <2>q. QED
    BY <2>1, <2>2, CountMaxPositive
<1>3. CASE Make(t)
  BY <1>3 DEF Make, Reached, LocalInv, TypeOK
<1>4. CASE DecRef(t)
  <2>1. strong[t] \in Object /\ t \in StrongSlot
    BY <1>4 DEF DecRef, Reached, LocalInv, TypeOK, FrameInv, StrongSlot
  <2>2. strong[t] # o
    BY <2>1, <1>1, SlotCounted DEF Reached
  <2>q. QED
    BY <1>4, <2>1, <2>2 DEF DecRef, Reached, LocalInv, TypeOK
<1>5. CASE Delete(t)
  BY <1>5 DEF Delete, Reached, LocalInv, TypeOK
<1>6. CASE \/ LoadWeak(t) \/ ReleaseResources(t) \/ DecWeakShare(t)
           \/ DecWeak(t)
  BY <1>6 DEF LoadWeak, ReleaseResources, DecWeakShare, DecWeak
<1>q. QED
  BY <1>2, <1>3, <1>4, <1>5, <1>6, StepKinds DEF SpecialStep

\* Once refcount_ of a target is 0, no lock() revives it.
THEOREM NothingIsResurrected == Spec => NoResurrection
<1>1. IInv /\ IInv' /\ [Next]_vars =>
        [\A o \in Object :
           life[o] # "free" /\ refcount[o] = 0 => refcount'[o] = 0]_vars
  <2>1. IInv /\ IInv' => Reached
    BY IInvParts DEF IInv, Reached, LocalInv
  <2>2. ASSUME IInv, IInv', Next, NEW o \in Object, life[o] # "free",
               refcount[o] = 0
        PROVE  refcount'[o] = 0
    BY <2>1, <2>2, RefcountStays DEF Next
  <2>q. QED
    BY <2>2
<1>q. QED
  BY <1>1, InductiveInvariant, PTL DEF Spec, NoResurrection

\* A thread leaves lock() with nothing only where the code returns an empty
\* pointer.
LEMMA OnlyLockEmpties ==
  ASSUME Reached, NEW u \in Thread, CallStep(u) \/ ClientStep(u),
         NEW t \in Thread, pc[t] \in LockPC, pc'[t] = "idle"
  PROVE  t = u /\ (LockExpire(t) \/ LockEmpty(t))
<1> USE DEF Reached, LocalInv, TypeOK, LockPC, Goto, Return
<1>1. ASSUME pc'[t] = pc[t] PROVE FALSE
  BY <1>1
<1>2. CASE CallStep(u)
  BY <1>1, <1>2
     DEF CallStep, DecRef, LoadWeak, ReleaseResources, DecWeakShare, Delete,
         DecWeak, ReclaimLoadRef, ReclaimLoadWeak, LockExpire, LockLoad,
         LockEmpty, LockSucceed, LockFail, WeakReclaimLoadWeak,
         WeakReclaimLoadRef, WeakReclaimLoadWeak2
<1>3. CASE ClientStep(u)
  BY <1>1, <1>3
     DEF ClientStep, Make, DestroyTemp, WeakDestroyTemp, Reclaim, ReclaimCopy,
         MakeWeak, WeakReclaim, WeakReclaimCopy, RawLock, CopyConstruct,
         MoveConstruct, Assign, Reset, WeakConstruct, Release, ReclaimBegin,
         IncRef, WeakCopyConstruct, WeakMoveConstruct, WeakAssign, WeakDestroy,
         LockBegin, WeakRelease, WeakReclaimBegin, WeakIncRef, Retain,
         WeakRetain
<1>q. QED
  BY <1>2, <1>3

\* lock() returns an empty pointer only if there is no owner at that moment.
THEOREM LockIsHonest == Spec => LockEmptyOnlyIfExpired
<1>1. IInv /\ IInv' /\ [Next]_vars =>
        [\A t \in Thread :
           pc[t] \in LockPC /\ pc'[t] = "idle" => StrongRefs(obj[t]) = {}]_vars
  <2>1. IInv /\ IInv' => Reached
    BY IInvParts DEF IInv, Reached, LocalInv
  <2>2. ASSUME IInv, IInv', Next, NEW t \in Thread, pc[t] \in LockPC,
               pc'[t] = "idle"
        PROVE  StrongRefs(obj[t]) = {}
    <3>1. LockExpire(t) \/ LockEmpty(t)
      BY <2>1, <2>2, OnlyLockEmpties DEF Next
    <3>2. obj[t] \in Object
      BY <2>1, <2>2 DEF Reached, LocalInv, TypeOK, FrameInv, LockPC
    <3>3. refcount[obj[t]] = 0
      <4>1. CASE LockExpire(t)
        BY <4>1, <2>1, <2>2 DEF LockExpire, Goto, Reached, LocalInv, TypeOK
      <4>2. CASE LockEmpty(t)
        BY <4>2, <2>2, <3>2 DEF LockEmpty, IInv, LoadInv
      <4>q. QED
        BY <3>1, <4>1, <4>2
    <3>q. QED
      BY <2>2, <3>2, <3>3, RefFactsHold DEF IInv, CountsExact, RefFacts, SN
  <2>q. QED
    BY <2>2
<1>q. QED
  BY <1>1, InductiveInvariant, PTL DEF Spec, LockEmptyOnlyIfExpired

-----------------------------------------------------------------------------
(* SharedOwnership.                                                         *)

\* The variables of SharedOwnership, as the numbers of references.
Owners == [o \in Object |-> SN(o)]
Watchers == [o \in Object |-> WN(o)]

\* Nothing is allocated, and no one owns or watches anything.
LEMMA OwnershipInit == Init => Ownership!Init
<1>1. Init => \A o \in Object : SN(o) = 0 /\ WN(o) = 0
  <2>1. Init => \A o \in Object : StrongRefs(o) = {} /\ WeakRefs(o) = {}
    BY NullAssumption DEF Init, StrongRefs, WeakRefs
  <2>q. QED
    BY <2>1, FS_EmptySet DEF SN, WN
<1>q. QED
  BY <1>1 DEF Init, Ownership!Init, SN, WN

\* A step that changes the number of one target, or of none.
LEMMA OwnersChange ==
  ASSUME NEW o \in Object, NEW d,
         \A x \in Object : SN(x)' = IF x = o THEN d ELSE SN(x)
  PROVE  Owners' = [Owners EXCEPT ![o] = d]
BY DEF Owners
\* The same for the weak references.
LEMMA WatchersChange ==
  ASSUME NEW o \in Object, NEW d,
         \A x \in Object : WN(x)' = IF x = o THEN d ELSE WN(x)
  PROVE  Watchers' = [Watchers EXCEPT ![o] = d]
BY DEF Watchers
\* No owner comes or goes.
LEMMA OwnersStay ==
  ASSUME \A x \in Object : SN(x)' = SN(x) PROVE Owners' = Owners
BY DEF Owners
\* No watcher comes or goes.
LEMMA WatchersStay ==
  ASSUME \A x \in Object : WN(x)' = WN(x) PROVE Watchers' = Watchers
BY DEF Watchers

\* The actions of SharedOwnership in these terms.
LEMMA OwnershipActions ==
  ASSUME NEW o \in Object
  PROVE  /\ /\ life[o] = "free" /\ life' = [life EXCEPT ![o] = "live"]
            /\ Owners' = [Owners EXCEPT ![o] = 1] /\ Watchers' = Watchers
            => Ownership!Create(o)
         /\ /\ life[o] = "live" /\ SN(o) > 0 /\ life' = life
            /\ Owners' = [Owners EXCEPT ![o] = SN(o) + 1]
            /\ Watchers' = Watchers
            => Ownership!Acquire(o)
         /\ /\ life[o] = "live" /\ SN(o) > 0 /\ life' = life
            /\ Owners' = [Owners EXCEPT ![o] = SN(o) - 1]
            /\ Watchers' = Watchers
            => Ownership!Drop(o)
         /\ /\ life[o] # "free" /\ SN(o) + WN(o) > 0 /\ life' = life
            /\ Watchers' = [Watchers EXCEPT ![o] = WN(o) + 1]
            /\ Owners' = Owners
            => Ownership!Observe(o)
         /\ /\ life[o] # "free" /\ WN(o) > 0 /\ life' = life
            /\ Watchers' = [Watchers EXCEPT ![o] = WN(o) - 1]
            /\ Owners' = Owners
            => Ownership!Unobserve(o)
         /\ /\ life[o] = "live" /\ SN(o) = 0
            /\ life' = [life EXCEPT ![o] = "released"]
            /\ Owners' = Owners /\ Watchers' = Watchers
            => Ownership!Release(o)
         /\ /\ life[o] # "free" /\ SN(o) = 0 /\ WN(o) = 0
            /\ life' = [life EXCEPT ![o] = "free"]
            /\ Owners' = Owners /\ Watchers' = Watchers
            => Ownership!Destroy(o)
         /\ life' = life /\ Owners' = Owners /\ Watchers' = Watchers
            => UNCHANGED Ownership!ovars
<1>1. /\ Owners[o] = SN(o) /\ Watchers[o] = WN(o)
  BY DEF Owners, Watchers
<1>q. QED
  BY <1>1 DEF Owners, Watchers, SN, WN, Ownership!ovars, Ownership!Create,
     Ownership!Acquire, Ownership!Drop, Ownership!Observe,
     Ownership!Unobserve, Ownership!Release, Ownership!Destroy

\* What a target with a reference is known to be.
LEMMA Alive ==
  ASSUME Reached, NEW o \in Object
  PROVE  /\ SN(o) \in Nat /\ WN(o) \in Nat
         /\ SN(o) > 0 => life[o] = "live"
         /\ WN(o) > 0 => life[o] # "free"
         /\ life[o] = "free" => SN(o) = 0 /\ WN(o) = 0
BY RefFactsHold
   DEF Reached, CoreInv, OwnersSeeResources, NoUseAfterFree, RefFacts

\* A growing step acquires, observes, or is not seen at all.
LEMMA GrowingRefines ==
  ASSUME Reached, Grows
  PROVE  Ownership!Next \/ UNCHANGED Ownership!ovars
<1>1. CASE \A x \in Object : SN(x)' = SN(x) /\ WN(x)' = WN(x)
  <2>1. Owners' = Owners /\ Watchers' = Watchers
    BY <1>1, OwnersStay, WatchersStay
  <2>2. life' = life
    BY DEF Grows
  <2>q. QED
    BY <2>1, <2>2 DEF Ownership!ovars, Owners, Watchers, SN, WN
<1>2. ASSUME NEW o \in Object, OneStrong(o) PROVE Ownership!Acquire(o)
  <2>1. SN(o) > 0 /\ life[o] = "live" /\ life' = life
    BY <1>2, Alive DEF OneStrong, Grows
  <2>2. \A x \in Object : SN(x)' = IF x = o THEN SN(o) + 1 ELSE SN(x)
    BY <1>2 DEF OneStrong
  <2>3. Owners' = [Owners EXCEPT ![o] = SN(o) + 1]
    BY <2>2, OwnersChange
  <2>4. Watchers' = Watchers
    BY <1>2, WatchersStay DEF OneStrong
  <2>q. QED
    BY <2>1, <2>3, <2>4, OwnershipActions
<1>3. ASSUME NEW o \in Object, OneWeak(o) PROVE Ownership!Observe(o)
  <2>1. SN(o) + WN(o) > 0 /\ life[o] # "free" /\ life' = life
    BY <1>3, Alive DEF OneWeak, Grows
  <2>2. \A x \in Object : WN(x)' = IF x = o THEN WN(o) + 1 ELSE WN(x)
    BY <1>3 DEF OneWeak
  <2>3. Watchers' = [Watchers EXCEPT ![o] = WN(o) + 1]
    BY <2>2, WatchersChange
  <2>4. Owners' = Owners
    BY <1>3, OwnersStay DEF OneWeak
  <2>q. QED
    BY <2>1, <2>3, <2>4, OwnershipActions
<1>q. QED
  BY <1>1, <1>2, <1>3 DEF Grows, AtMostOne, Ownership!Next

\* make() creates.
LEMMA MakeRefines ==
  ASSUME Reached, NEW t \in Thread, Make(t)
  PROVE  Ownership!Next
<1>1. PICK o \in Object :
        /\ life[o] = "free" /\ life' = [life EXCEPT ![o] = "live"]
        /\ strong' = [strong EXCEPT ![t] = o]
  BY DEF Make
<1>2. t \in StrongSlot /\ strong[t] = NULL /\ weak' = weak
  BY DEF Make, Reached, LocalInv, FrameInv, StrongSlot
<1>3. \A x \in Object : SN(x)' = IF x = o THEN SN(x) + 1 ELSE SN(x)
  BY <1>1, <1>2, StrongAdded DEF Reached
<1>4. SN(o) = 0
  BY <1>1, Alive
<1>5. \A x \in Object : SN(x)' = IF x = o THEN 1 ELSE SN(x)
  BY <1>3, <1>4
<1>6. Owners' = [Owners EXCEPT ![o] = 1]
  BY <1>5, OwnersChange
<1>7. Watchers' = Watchers
  BY <1>2, WeakSame, WatchersStay
<1>8. Ownership!Create(o)
  BY <1>1, <1>6, <1>7, OwnershipActions
<1>q. QED
  BY <1>8 DEF Ownership!Next

\* The decrement of refcount_ drops an owner.
LEMMA DecRefRefines ==
  ASSUME Reached, NEW t \in Thread, DecRef(t)
  PROVE  Ownership!Next
<1>0. PICK o \in Object : o = strong[t]
  BY DEF DecRef, Reached, LocalInv, TypeOK, FrameInv, StrongSlot
<1>1. /\ t \in StrongSlot /\ strong[t] = o
      /\ strong' = [strong EXCEPT ![t] = NULL] /\ weak' = weak /\ life' = life
  BY <1>0 DEF DecRef, StrongSlot
<1>2. SN(o) > 0 /\ life[o] = "live"
  BY <1>1, SlotCounted, Alive DEF Reached
<1>3. \A x \in Object : SN(x)' = IF x = o THEN SN(x) - 1 ELSE SN(x)
  BY <1>1, StrongDropped DEF Reached
<1>4. \A x \in Object : SN(x)' = IF x = o THEN SN(o) - 1 ELSE SN(x)
  BY <1>3
<1>5. Owners' = [Owners EXCEPT ![o] = SN(o) - 1]
  BY <1>4, OwnersChange
<1>6. Watchers' = Watchers
  BY <1>1, WeakSame, WatchersStay
<1>7. Ownership!Drop(o)
  BY <1>1, <1>2, <1>5, <1>6, OwnershipActions
<1>q. QED
  BY <1>7 DEF Ownership!Next

\* The decrement of weakcount_ by a weak pointer drops a watcher.
LEMMA DecWeakRefines ==
  ASSUME Reached, NEW t \in Thread, DecWeak(t)
  PROVE  Ownership!Next
<1>0. PICK o \in Object : o = weak[t]
  BY DEF DecWeak, Reached, LocalInv, TypeOK, FrameInv, WeakSlot
<1>1. /\ t \in WeakSlot /\ weak[t] = o
      /\ weak' = [weak EXCEPT ![t] = NULL] /\ strong' = strong /\ life' = life
  BY <1>0 DEF DecWeak, WeakSlot
<1>2. WN(o) > 0 /\ life[o] # "free"
  BY <1>1, SlotCounted, Alive DEF Reached
<1>3. \A x \in Object : WN(x)' = IF x = o THEN WN(x) - 1 ELSE WN(x)
  BY <1>1, WeakDropped DEF Reached
<1>4. \A x \in Object : WN(x)' = IF x = o THEN WN(o) - 1 ELSE WN(x)
  BY <1>3
<1>5. Watchers' = [Watchers EXCEPT ![o] = WN(o) - 1]
  BY <1>4, WatchersChange
<1>6. Owners' = Owners
  BY <1>1, StrongSame, OwnersStay
<1>7. Ownership!Unobserve(o)
  BY <1>1, <1>2, <1>5, <1>6, OwnershipActions
<1>q. QED
  BY <1>7 DEF Ownership!Next

\* The rest of reset_() releases, destroys, or is not seen.
LEMMA ResetRefines ==
  ASSUME Reached, NEW t \in Thread,
         \/ LoadWeak(t) \/ ReleaseResources(t) \/ DecWeakShare(t) \/ Delete(t)
  PROVE  Ownership!Next \/ UNCHANGED Ownership!ovars
<1>1. strong' = strong /\ weak' = weak
  BY DEF LoadWeak, ReleaseResources, DecWeakShare, Delete
<1>2. Owners' = Owners /\ Watchers' = Watchers
  BY <1>1, StrongSame, WeakSame, OwnersStay, WatchersStay
<1>3. CASE LoadWeak(t) \/ DecWeakShare(t)
  <2>1. life' = life
    BY <1>3 DEF LoadWeak, DecWeakShare
  <2>q. QED
    BY <1>2, <2>1 DEF Ownership!ovars, Owners, Watchers, SN, WN
<1>4. CASE ReleaseResources(t)
  <2>1. PICK o \in Object : o = obj[t]
    BY <1>4, CloserFacts DEF ReleaseResources, Reached
  <2>2. SN(o) = 0 /\ life[o] = "live"
    BY <1>4, <2>1, CloserFacts DEF ReleaseResources, Reached
  <2>3. life' = [life EXCEPT ![o] = "released"]
    BY <1>4, <2>1 DEF ReleaseResources
  <2>4. Ownership!Release(o)
    BY <1>2, <2>2, <2>3, OwnershipActions
  <2>q. QED
    BY <2>4 DEF Ownership!Next
<1>5. CASE Delete(t)
  <2>1. PICK o \in Object : o = obj[t]
    BY <1>5 DEF Delete, Reached, LocalInv, TypeOK, FrameInv, ResetPC
  <2>2. StrongRefs(o) = {} /\ WeakRefs(o) = {} /\ Deletes(t, o)
    BY <1>5, <2>1 DEF Delete, Deletes, Reached, CoreInv, SoleDeleter
  <2>3. life[o] # "free"
    BY <2>1, <2>2 DEF Reached, CoreInv, NoUseAfterFree
  <2>4. SN(o) = 0 /\ WN(o) = 0
    BY <2>2, RefFactsHold DEF RefFacts
  <2>5. life' = [life EXCEPT ![o] = "free"]
    BY <1>5, <2>1 DEF Delete
  <2>6. Ownership!Destroy(o)
    BY <1>2, <2>3, <2>4, <2>5, OwnershipActions
  <2>q. QED
    BY <2>6 DEF Ownership!Next
<1>q. QED
  BY <1>3, <1>4, <1>5

\* The counters, slots and threads implement shared ownership.  That cleaning
\* up is not put off for ever is left to the model checker.
THEOREM SharedOwnershipIsImplemented == Spec => Ownership!Spec
<1>1. Init => Ownership!Init
  BY OwnershipInit
<1>2. IInv /\ IInv' /\ [Next]_vars => [Ownership!Next]_(Ownership!ovars)
  <2>1. IInv /\ IInv' => Reached
    BY IInvParts DEF IInv, Reached, LocalInv
  <2>2. ASSUME IInv, IInv', Next
        PROVE  Ownership!Next \/ UNCHANGED Ownership!ovars
    <3>1. PICK t \in Thread : CallStep(t) \/ ClientStep(t)
      BY <2>2 DEF Next
    <3>2. Grows \/ SpecialStep(t)
      BY <2>1, <2>2, <3>1, StepKinds
    <3>q. QED
      BY <2>1, <2>2, <3>2, GrowingRefines, MakeRefines, DecRefRefines,
         DecWeakRefines, ResetRefines DEF SpecialStep
  <2>3. ASSUME UNCHANGED vars PROVE UNCHANGED Ownership!ovars
    <3>1. strong' = strong /\ weak' = weak /\ life' = life
      BY <2>3 DEF vars
    <3>2. Owners' = Owners /\ Watchers' = Watchers
      BY <3>1, StrongSame, WeakSame, OwnersStay, WatchersStay
    <3>q. QED
      BY <3>1, <3>2 DEF Ownership!ovars, Owners, Watchers, SN, WN
  <2>q. QED
    BY <2>2, <2>3
<1>q. QED
  BY <1>1, <1>2, InductiveInvariant, PTL DEF Spec, Ownership!Spec

=============================================================================
