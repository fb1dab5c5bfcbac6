--------------------------- MODULE Storage_proofs ---------------------------
(***************************************************************************)
(* For any numbers of storages, pointers, blocks and deleters: memory is   *)
(* freed once and goes with the last owner of its storage.                 *)
(*                                                                         *)
(* The first part is about DataPtr alone: every action of it, on any       *)
(* DataPtr, preserves DataInv, by which a block has one owner while it is  *)
(* held, and this owner knows the deleter that the block is due to.        *)
(* FreedOnceByItsDeleter is not inductive alone: that the deleter which is *)
(* called is the right one follows from DeleterInv, and that the block is  *)
(* held from OneOwner.  The lemmas hold for the data_ptr_ of a StorageImpl *)
(* too, and the second part uses them for it.                              *)
(***************************************************************************)
EXTENDS Storage, TLAPS

\* The new block is due to the CPU deleter; the old context is deleted.
LEMMA AllocateInv ==
  ASSUME DataInv, NEW x \in Slot, Allocate(x)
  PROVE  DataInv'
BY DataNullAssumption
   DEF DataInv, DataTypeOK, FreedOnceByItsDeleter, OneOwner, Owns, DataIsValid,
         DeleterInv, Allocate, Allocation, Held, DueTo, Freed,
       DataPtrValue, Deleter

\* The context of y gets another owner and the one of x is deleted.
LEMMA MoveInv ==
  ASSUME DataInv, NEW x \in Slot, NEW y \in Slot, Move(x, y)
  PROVE  DataInv'
<1>1. CASE x = y
  <2>1. dp' = dp /\ heap' = heap /\ stale' = stale
    BY <1>1 DEF DataInv, DataTypeOK, Move, StaleAfterMove, Freed
  <2> QED
    BY <2>1 DEF Move, DataInv, DataTypeOK, FreedOnceByItsDeleter, OneOwner,
         Owns, DataIsValid, DeleterInv
<1>2. CASE x # y
  <2>1. /\ heap' = Freed(heap, dp[x])
        /\ dp'[x] = dp[y] /\ dp'[y] = [dp[y] EXCEPT !.ctx = NULL]
        /\ \A z \in Slot \ {x, y} : dp'[z] = dp[z]
        /\ dp' \in [Slot -> [data : Block \cup {NULL}, ctx : Block \cup {NULL},
                            deleter : Deleter]]
    BY <1>2 DEF DataInv, DataTypeOK, Move
  <2>2. due' = due /\ raw' = raw /\ stale' = StaleAfterMove(x, y)
    BY DEF Move
  <2>3. DataTypeOK' /\ FreedOnceByItsDeleter'
    BY <2>1, <2>2 DEF StaleAfterMove, DataInv, DataTypeOK, DeleterInv,
         FreedOnceByItsDeleter, OneOwner, Owns, Freed
  <2>4. OneOwner'
    <3> SUFFICES ASSUME NEW b \in Block
                 PROVE  /\ heap'[b] = "held" <=>
                             raw[b] # NULL \/ \E z \in Slot : dp'[z].ctx = b
                        /\ \A z \in Slot : dp'[z].ctx = b =>
                             /\ raw[b] = NULL
                             /\ \A w \in Slot \ {z} : dp'[w].ctx # b
      BY <2>2 DEF OneOwner, Owns
    <3>1. /\ dp'[x].ctx = dp[y].ctx /\ dp'[y].ctx # b
          /\ \A z \in Slot \ {x, y} : dp'[z].ctx = dp[z].ctx
      BY <2>1, DataNullAssumption DEF DataInv, DataTypeOK
    <3>2. /\ heap[b] = "held" <=>
               raw[b] # NULL \/ \E z \in Slot : dp[z].ctx = b
          /\ \A z \in Slot : dp[z].ctx = b =>
               raw[b] = NULL /\ \A w \in Slot \ {z} : dp[w].ctx # b
      BY DEF DataInv, OneOwner, Owns
    <3>3. heap'[b] = "held" <=> heap[b] = "held" /\ dp[x].ctx # b
      BY <2>1, DataNullAssumption DEF DataInv, DataTypeOK, DeleterInv,
           FreedOnceByItsDeleter, OneOwner, Owns, Freed
    <3> QED
      BY <1>2, <3>1, <3>2, <3>3
  <2>5. DataIsValid'
    BY <1>2, <2>1, <2>2, DataNullAssumption
       DEF DataInv, DataTypeOK, DeleterInv, FreedOnceByItsDeleter, OneOwner,
           Owns, Freed, DataIsValid, StaleAfterMove
  <2>6. DeleterInv' /\ (\A z \in Slot \ stale : dp[z].data = dp[z].ctx)'
    BY <1>2, <2>1, <2>2, DataNullAssumption
       DEF DataInv, DataTypeOK, DeleterInv, StaleAfterMove
  <2> QED
    BY <2>3, <2>4, <2>5, <2>6 DEF DataInv
<1> QED
  BY <1>1, <1>2

\* clear() deletes the context and forgets the data.
LEMMA ClearInv ==
  ASSUME DataInv, NEW x \in Slot, Clear(x)
  PROVE  DataInv'
BY DataNullAssumption
   DEF DataInv, DataTypeOK, FreedOnceByItsDeleter, OneOwner, Owns, DataIsValid,
         DeleterInv, Clear, Take, DataPtrValue, Freed

\* The destructor deletes the context.
LEMMA DestroyInv ==
  ASSUME DataInv, NEW x \in Slot, Destroy(x)
  PROVE  DataInv'
BY DataNullAssumption
   DEF DataInv, DataTypeOK, FreedOnceByItsDeleter, OneOwner, Owns, DataIsValid,
         DeleterInv, Destroy, Take, Empty, DataPtrValue, Freed, Deleter

\* The context passes from the DataPtr to the client.
LEMMA ReleaseContextInv ==
  ASSUME DataInv, NEW x \in Slot, ReleaseContext(x)
  PROVE  DataInv'
BY DataNullAssumption
   DEF DataInv, DataTypeOK, FreedOnceByItsDeleter, OneOwner, Owns, DataIsValid,
         DeleterInv, ReleaseContext

\* A context passes from the client to a DataPtr.
LEMMA AdoptInv ==
  ASSUME DataInv, NEW x \in Slot, NEW b \in Block, Adopt(x, b)
  PROVE  DataInv'
BY DataNullAssumption
   DEF DataInv, DataTypeOK, FreedOnceByItsDeleter, OneOwner, Owns, DataIsValid,
         DeleterInv, Adopt, Take, DataPtrValue, Freed

\* An alias owns nothing.
LEMMA AliasInv ==
  ASSUME DataInv, NEW x \in Slot, NEW y \in Slot, Alias(x, y)
  PROVE  DataInv'
BY DataNullAssumption
   DEF DataInv, DataTypeOK, FreedOnceByItsDeleter, OneOwner, Owns, DataIsValid,
         DeleterInv, Alias, Take, DataPtrValue, Freed, Deleter

\* The block is due to the new deleter.
LEMMA ExchangeDeleterInv ==
  ASSUME DataInv, NEW x \in Slot, NEW expected, NEW new \in Deleter,
         ExchangeDeleter(x, expected, new)
  PROVE  DataInv'
BY DataNullAssumption
   DEF DataInv, DataTypeOK, FreedOnceByItsDeleter, OneOwner, Owns, DataIsValid,
         DeleterInv, ExchangeDeleter

\* The client gets a block.
LEMMA RawAllocateInv ==
  ASSUME DataInv, NEW b \in Block, RawAllocate(b)
  PROVE  DataInv'
BY DataNullAssumption
   DEF DataInv, DataTypeOK, FreedOnceByItsDeleter, OneOwner, Owns, DataIsValid,
         DeleterInv, RawAllocate, Allocation, Held, DueTo, Deleter

\* The client deletes a block it owns.
LEMMA RawDeleteInv ==
  ASSUME DataInv, NEW b \in Block, RawDelete(b)
  PROVE  DataInv'
BY DataNullAssumption
   DEF DataInv, DataTypeOK, FreedOnceByItsDeleter, OneOwner, Owns, DataIsValid,
         DeleterInv, RawDelete, Freed, DataPtrValue

\* As the deleter of the allocator is the one the context was released with.
LEMMA raw_deallocateInv ==
  ASSUME DataInv, NEW b \in Block, raw_deallocate(b)
  PROVE  DataInv'
<1>1. raw[b] = cpu_deleter /\ cpu_deleter # NULL
  BY DataNullAssumption DEF raw_deallocate, raw_deleter, Deleter
<1>2. RawDelete(b)
  BY <1>1 DEF raw_deallocate, raw_deleter, RawDelete
<1> QED
  BY <1>2, RawDeleteInv

\* The invariant is about the memory and the DataPtrs only.
LEMMA UnchangedInv ==
  ASSUME DataInv, UNCHANGED dvars
  PROVE  DataInv'
BY DEF dvars, DataInv, DataTypeOK, FreedOnceByItsDeleter, OneOwner, Owns,
       DataIsValid, DeleterInv

\* What a client does with its own DataPtrs.
LEMMA LocalInv ==
  ASSUME DataInv, LocalStep
  PROVE  DataInv'
<1> Local \subseteq Slot
  BY DEF Slot
<1>1. CASE \E b \in Block : RawAllocate(b) \/ raw_deallocate(b) \/ RawDelete(b)
  BY <1>1, RawAllocateInv, raw_deallocateInv, RawDeleteInv
<1>2. ASSUME NEW x \in Local,
             Allocate(x) \/ Clear(x) \/ Destroy(x) \/ ReleaseContext(x)
      PROVE  DataInv'
  BY <1>2, AllocateInv, ClearInv, DestroyInv, ReleaseContextInv
<1>3. ASSUME NEW x \in Local, NEW y \in Local, Move(x, y) \/ Alias(x, y)
      PROVE  DataInv'
  BY <1>3, MoveInv, AliasInv
<1>4. ASSUME NEW x \in Local, NEW b \in Block, Adopt(x, b)
      PROVE  DataInv'
  BY <1>4, AdoptInv
<1>5. ASSUME NEW x \in Local, NEW expected \in Deleter, NEW new \in Deleter,
             ExchangeDeleter(x, expected, new)
      PROVE  DataInv'
  BY <1>5, ExchangeDeleterInv
<1> QED
  BY <1>1, <1>2, <1>3, <1>4, <1>5 DEF LocalStep

\* Whatever a client does with DataPtrs, blocks are freed once and by their
\* deleter, and what is held has one owner.
THEOREM DataInvariant == DataSpec => []DataInv
<1>1. DataInit => DataInv
  BY DataNullAssumption DEF DataInit, DataInv, DataTypeOK, Empty, DataPtrValue,
     FreedOnceByItsDeleter, OneOwner, Owns, DataIsValid, DeleterInv, Deleter
<1> QED
  BY <1>1, LocalInv, UnchangedInv, PTL DEF DataSpec

-----------------------------------------------------------------------------
(* The actions that Storage adds.                                           *)

\* The DataPtr that was moved into the constructor is destroyed.
LEMMA MakeThrowsInv ==
  ASSUME DataInv, NEW x \in Local, MakeStorageThrows(x)
  PROVE  DataInv'
BY DataNullAssumption
   DEF DataInv, DataTypeOK, FreedOnceByItsDeleter, OneOwner, Owns, DataIsValid,
         DeleterInv, MakeStorageThrows, Take, Freed, Slot

\* The storage takes the context of x and gives its own to y, whose context is
\* deleted.
LEMMA set_data_ptrInv ==
  ASSUME DataInv, NEW s \in Slot, NEW x \in Slot, NEW y \in Slot, s # y, s # x,
         set_data_ptr(s, x, y)
  PROVE  DataInv'
<1> USE DataNullAssumption
<1> DEFINE freed == IF y = x THEN NULL ELSE dp[y].ctx
<1>1. /\ dp' \in [Slot -> [data : Block \cup {NULL}, ctx : Block \cup {NULL},
                          deleter : Deleter]]
      /\ dp'[s] = dp[x] /\ dp'[y] = dp[s]
      /\ x # y => dp'[x] = [dp[x] EXCEPT !.ctx = NULL]
      /\ \A z \in Slot \ {s, x, y} : dp'[z] = dp[z]
  BY DEF DataInv, DataTypeOK, set_data_ptr
<1>2. /\ due' = due /\ raw' = raw
      /\ stale' = (stale \ {s, y}) \cup ({x} \ {y})
                    \cup (IF x \in stale THEN {s} ELSE {})
                    \cup (IF s \in stale THEN {y} ELSE {})
  BY DEF set_data_ptr
<1>3. heap' \in [Block -> {"free", "held", "corrupt"}]
  BY DEF DataInv, DataTypeOK, set_data_ptr, Freed
<1>4. \A b \in Block : heap'[b] = IF b = freed THEN "free" ELSE heap[b]
  BY DEF DataInv, DataTypeOK, DeleterInv, OneOwner, Owns, set_data_ptr, Freed
<1>5. DataTypeOK' /\ FreedOnceByItsDeleter'
  BY <1>1, <1>2, <1>3, <1>4 DEF DataInv, DataTypeOK, FreedOnceByItsDeleter
<1>6. OneOwner'
  <2> SUFFICES ASSUME NEW b \in Block
               PROVE  /\ heap'[b] = "held" <=>
                           raw[b] # NULL \/ \E z \in Slot : dp'[z].ctx = b
                      /\ \A z \in Slot : dp'[z].ctx = b =>
                           /\ raw[b] = NULL
                           /\ \A w \in Slot \ {z} : dp'[w].ctx # b
    BY <1>2 DEF OneOwner, Owns
  <2>1. /\ dp'[s].ctx = dp[x].ctx /\ dp'[y].ctx = dp[s].ctx
        /\ x # y => dp'[x].ctx # b
        /\ \A z \in Slot \ {s, x, y} : dp'[z].ctx = dp[z].ctx
    BY <1>1 DEF DataInv, DataTypeOK
  <2>2. /\ heap[b] = "held" <=>
             raw[b] # NULL \/ \E z \in Slot : dp[z].ctx = b
        /\ \A z \in Slot : dp[z].ctx = b =>
             raw[b] = NULL /\ \A w \in Slot \ {z} : dp[w].ctx # b
    BY DEF DataInv, OneOwner, Owns
  <2>3. CASE x = y
    BY <1>4, <2>1, <2>2, <2>3
  <2>4. CASE x # y
    BY <1>4, <2>1, <2>2, <2>4
  <2> QED
    BY <2>3, <2>4
<1>7. DataIsValid'
  BY <1>1, <1>2, <1>4 DEF DataInv, DataTypeOK, OneOwner, Owns, DataIsValid
<1>8. DeleterInv' /\ (\A z \in Slot \ stale : dp[z].data = dp[z].ctx)'
  BY <1>1, <1>2 DEF DataInv, DataTypeOK, DeleterInv
<1> QED
  BY <1>5, <1>6, <1>7, <1>8 DEF DataInv

\* Methods of a storage that somebody owns.
LEMMA MethodInv ==
  ASSUME DataInv, NEW s \in StorageImpl, Method(s)
  PROVE  DataInv'
<1> s \in Slot /\ s \notin Local /\ Local \subseteq Slot
  BY MemberAssumption, SlotAssumption DEF Slot
<1>1. CASE reset(s)
  BY <1>1, ClearInv DEF reset
<1>2. CASE ThroughReference(s)
  BY <1>2, ClearInv, ReleaseContextInv, MoveInv, ExchangeDeleterInv
     DEF ThroughReference
<1>3. CASE \/ set_throw_on_mutable_data_ptr(s)
           \/ set_throw_on_immutable_data_ptr(s)
  BY <1>3, UnchangedInv
     DEF set_throw_on_mutable_data_ptr, set_throw_on_immutable_data_ptr
<1>4. CASE \E allocator \in NewAllocator : set_allocator(s, allocator)
  BY <1>4, UnchangedInv DEF set_allocator
<1>5. CASE \E resizable \in Resizable : set_resizable(s, resizable)
  BY <1>5, UnchangedInv DEF set_resizable
<1>6. ASSUME NEW x \in Local, AliasData(s, x)
      PROVE  DataInv'
  BY <1>6, AliasInv DEF AliasData
<1>7. ASSUME NEW x \in Local, set_data_ptr_noswap(s, x)
      PROVE  DataInv'
  BY <1>7, MoveInv DEF set_data_ptr_noswap
<1>8. ASSUME NEW x \in Local, NEW y \in Local, set_data_ptr(s, x, y)
      PROVE  DataInv'
  BY <1>8, set_data_ptrInv
<1> QED
  BY <1>1, <1>2, <1>3, <1>4, <1>5, <1>6, <1>7, <1>8 DEF Method

\* Every step preserves the invariant of the memory.
LEMMA StepInv ==
  ASSUME DataInv, [Next]_vars
  PROVE  DataInv'
<1> StorageImpl \subseteq Slot /\ Local \subseteq Slot
  BY MemberAssumption DEF Slot
<1>1. CASE UNCHANGED vars
  BY <1>1, UnchangedInv DEF vars
<1>2. CASE LocalStep /\ UNCHANGED svars
  BY <1>2, LocalInv
<1>3. ASSUME NEW s \in Owned, Method(s)
      PROVE  DataInv'
  BY <1>3, MethodInv DEF Owned
<1>4. ASSUME NEW h \in Handle, NEW s \in StorageImpl, MakeStorage(h, s)
      PROVE  DataInv'
  BY <1>4, AllocateInv DEF MakeStorage
<1>5. ASSUME NEW h \in Handle, NEW s \in StorageImpl, NEW x \in Local,
             MakeStorageFrom(h, s, x)
      PROVE  DataInv'
  BY <1>5, MoveInv DEF MakeStorageFrom
<1>6. ASSUME NEW x \in Local, MakeStorageThrows(x)
      PROVE  DataInv'
  BY <1>6, MakeThrowsInv
<1>7. ASSUME NEW h \in Handle, NEW g, CopyStorage(h, g) \/ DropStorage(h)
      PROVE  DataInv'
  BY <1>7, UnchangedInv DEF CopyStorage, DropStorage
<1>8. ASSUME NEW w \in WeakHandle, NEW h,
             getWeakStorageImpl(w, h) \/ Lock(h, w) \/ DropWeak(w)
      PROVE  DataInv'
  BY <1>8, UnchangedInv DEF getWeakStorageImpl, Lock, DropWeak
<1>9. ASSUME NEW s \in StorageImpl, Cleanup(s)
      PROVE  DataInv'
  BY <1>9, ClearInv, DestroyInv DEF Cleanup, release_resources, Delete
<1> QED
  BY <1>1, <1>2, <1>3, <1>4, <1>5, <1>6, <1>7, <1>8, <1>9 DEF Next, ClientStep

-----------------------------------------------------------------------------
\* The part of TypeOK that is about storages.
StorageTypeOK ==
  /\ phase \in [StorageImpl -> {"free", "live", "released"}]
  /\ impl \in [Handle -> StorageImpl \cup {NULL}]
  /\ weak \in [WeakHandle -> StorageImpl \cup {NULL}]
  /\ fields \in [StorageImpl ->
       [resizable : BOOLEAN, allocator : Allocator \cup {NULL},
        throw_on_mutable_data_ptr : BOOLEAN,
        throw_on_immutable_data_ptr : BOOLEAN,
        has_mutable_data_ptr_check : BOOLEAN]]

\* The inductive invariant of the storages.
StorageInv == StorageTypeOK /\ OnlyOwnersKeepMemory /\ CheckIsCurrent

\* A client that works on its own DataPtrs does not touch those of a storage.
LEMMA LocalKeeps ==
  ASSUME DataInv, LocalStep, NEW s \in StorageImpl
  PROVE  dp'[s] = dp[s]
<1> s \in Slot /\ s \notin Local /\ Local \subseteq Slot
  BY MemberAssumption, SlotAssumption DEF Slot
<1> dp \in [Slot -> [data : Block \cup {NULL}, ctx : Block \cup {NULL},
                      deleter : Deleter]]
  BY DEF DataInv, DataTypeOK
<1> QED
  BY DEF LocalStep, Allocate, Clear, Destroy, ReleaseContext, Move, Alias,
     Adopt, ExchangeDeleter, RawAllocate, raw_deallocate, RawDelete, Take

\* A method changes the data and the flags of its own storage only.
LEMMA MethodStorageInv ==
  ASSUME DataInv, StorageInv, NEW s \in Owned, Method(s)
  PROVE  StorageInv'
<1> s \in StorageImpl /\ s \notin Local /\ s \in Slot /\ Local \subseteq Slot
  BY MemberAssumption, SlotAssumption DEF Slot, Owned
<1>1. /\ phase' = phase /\ impl' = impl /\ weak' = weak
  BY DEF Method, reset, ThroughReference, set_throw_on_mutable_data_ptr,
     set_throw_on_immutable_data_ptr, set_allocator, set_resizable, AliasData,
     set_data_ptr_noswap, set_data_ptr, svars
<1>2. StorageTypeOK' /\ CheckIsCurrent'
  <2>1. fields' = fields => StorageTypeOK' /\ CheckIsCurrent'
    BY <1>1 DEF StorageInv, StorageTypeOK, CheckIsCurrent
  <2>2. ASSUME NEW f \in [resizable : BOOLEAN, allocator : Allocator \cup {NULL},
                          throw_on_mutable_data_ptr : BOOLEAN,
                          throw_on_immutable_data_ptr : BOOLEAN,
                          has_mutable_data_ptr_check : BOOLEAN],
               Set(s, f),
               f.has_mutable_data_ptr_check =
                 (f.throw_on_mutable_data_ptr \/ f.throw_on_immutable_data_ptr)
        PROVE  StorageTypeOK' /\ CheckIsCurrent'
    BY <1>1, <2>2 DEF Set, StorageInv, StorageTypeOK, CheckIsCurrent
  <2> DEFINE f == fields[s]
  <2>3. /\ f \in [resizable : BOOLEAN, allocator : Allocator \cup {NULL},
                  throw_on_mutable_data_ptr : BOOLEAN,
                  throw_on_immutable_data_ptr : BOOLEAN,
                  has_mutable_data_ptr_check : BOOLEAN]
        /\ f.has_mutable_data_ptr_check =
             (f.throw_on_mutable_data_ptr \/ f.throw_on_immutable_data_ptr)
    BY DEF StorageInv, StorageTypeOK, CheckIsCurrent
  <2>4. CASE reset(s) \/ ThroughReference(s) \/ \E x \in Local : AliasData(s, x)
    BY <2>1, <2>4 DEF reset, ThroughReference, AliasData, svars
  <2>5. CASE set_throw_on_mutable_data_ptr(s)
    BY <2>2, <2>3, <2>5
       DEF set_throw_on_mutable_data_ptr, refresh_has_data_ptr_check
  <2>6. CASE set_throw_on_immutable_data_ptr(s)
    BY <2>2, <2>3, <2>6
       DEF set_throw_on_immutable_data_ptr, refresh_has_data_ptr_check
  <2>7. CASE \E allocator \in NewAllocator : set_allocator(s, allocator)
    BY <2>2, <2>3, <2>7, ClientAssumption DEF set_allocator
  <2>8. CASE \E resizable \in Resizable : set_resizable(s, resizable)
    BY <2>2, <2>3, <2>8, ClientAssumption DEF set_resizable
  <2>9. CASE \E x \in Local : \/ set_data_ptr_noswap(s, x)
                             \/ \E y \in Local : set_data_ptr(s, x, y)
    BY <2>2, <2>3, <2>9
       DEF set_data_ptr_noswap, set_data_ptr, refresh_has_data_ptr_check
  <2> QED
    BY <2>4, <2>5, <2>6, <2>7, <2>8, <2>9 DEF Method
<1>3. \A t \in StorageImpl \ {s} : dp'[t] = dp[t]
  <2> SUFFICES ASSUME NEW t \in StorageImpl \ {s} PROVE dp'[t] = dp[t]
    OBVIOUS
  <2> t \in Slot /\ t \notin Local
    BY MemberAssumption, SlotAssumption DEF Slot
  <2> dp \in [Slot -> [data : Block \cup {NULL}, ctx : Block \cup {NULL},
                        deleter : Deleter]]
    BY DEF DataInv, DataTypeOK
  <2> QED
    BY DEF Method, reset, ThroughReference, set_throw_on_mutable_data_ptr,
       set_throw_on_immutable_data_ptr, set_allocator, set_resizable, AliasData,
       set_data_ptr_noswap, set_data_ptr, dvars, Clear, ReleaseContext, Move,
       Alias, ExchangeDeleter, Take
<1>4. OnlyOwnersKeepMemory'
  BY <1>1, <1>3 DEF StorageInv, OnlyOwnersKeepMemory, Owned, Strong
<1> QED
  BY <1>2, <1>4 DEF StorageInv

\* The flags of a new StorageImpl.
LEMMA FieldsType ==
  ASSUME NEW resizable \in BOOLEAN, NEW allocator \in Allocator \cup {NULL}
  PROVE  LET f == Fields(resizable, allocator) IN
         /\ f \in [resizable : BOOLEAN, allocator : Allocator \cup {NULL},
                  throw_on_mutable_data_ptr : BOOLEAN,
                  throw_on_immutable_data_ptr : BOOLEAN,
                  has_mutable_data_ptr_check : BOOLEAN]
         /\ f.has_mutable_data_ptr_check =
              (f.throw_on_mutable_data_ptr \/ f.throw_on_immutable_data_ptr)
BY DEF Fields

\* A new StorageImpl may have data, for it has an owner.
LEMMA ConstructStorageInv ==
  ASSUME StorageInv, NEW h \in Handle, NEW s \in StorageImpl,
         NEW resizable \in BOOLEAN, NEW allocator \in Allocator \cup {NULL},
         Construct(h, s, Fields(resizable, allocator)),
         \A t \in StorageImpl \ {s} : dp'[t] = dp[t]
  PROVE  StorageInv'
<1>1. StorageTypeOK' /\ CheckIsCurrent'
  BY FieldsType DEF Construct, Set, StorageInv, StorageTypeOK, CheckIsCurrent
<1>2. OnlyOwnersKeepMemory'
  BY DEF Construct, StorageInv, StorageTypeOK, OnlyOwnersKeepMemory,
     Owned, Strong
<1> QED
  BY <1>1, <1>2 DEF StorageInv

\* release_resources() and the destructor leave no data.
LEMMA CleanupStorageInv ==
  ASSUME DataInv, StorageInv, NEW s \in StorageImpl, Cleanup(s)
  PROVE  StorageInv'
<1>1. /\ impl' = impl /\ weak' = weak /\ Strong(s) = {}
      /\ dp' = [dp EXCEPT ![s] = dp'[s]]
      /\ dp'[s].data = NULL /\ dp'[s].ctx = NULL
      /\ \E p \in {"free", "released"} : phase' = [phase EXCEPT ![s] = p]
  BY MemberAssumption DEF Cleanup, release_resources, Delete, Clear, Destroy,
     Take, Empty, DataPtrValue, DataInv, DataTypeOK, Slot
<1>2. fields' = fields \/ fields' = [fields EXCEPT ![s] = Fields(FALSE, NULL)]
  BY DEF Cleanup, release_resources, Delete, Set, NoFields
<1>3. StorageTypeOK' /\ CheckIsCurrent'
  <2>1. CASE fields' = fields
    BY <1>1, <2>1 DEF StorageInv, StorageTypeOK, CheckIsCurrent
  <2>2. CASE fields' = [fields EXCEPT ![s] = Fields(FALSE, NULL)]
    BY <1>1, <2>2 DEF Fields, StorageInv, StorageTypeOK, CheckIsCurrent
  <2> QED
    BY <1>2, <2>1, <2>2
<1>4. OnlyOwnersKeepMemory'
  BY <1>1, MemberAssumption DEF StorageInv, StorageTypeOK, OnlyOwnersKeepMemory,
     Owned, Strong, DataInv, DataTypeOK, Slot
<1> QED
  BY <1>3, <1>4 DEF StorageInv

\* Every step preserves the invariant of the storages.
LEMMA StepStorageInv ==
  ASSUME DataInv, StorageInv, [Next]_vars
  PROVE  StorageInv'
<1> USE StorageNullAssumption
<1> /\ StorageImpl \subseteq Slot /\ Local \subseteq Slot
    /\ \A x \in Local : x \notin StorageImpl
  BY MemberAssumption, SlotAssumption DEF Slot
<1> dp \in [Slot -> [data : Block \cup {NULL}, ctx : Block \cup {NULL},
                      deleter : Deleter]]
  BY DEF DataInv, DataTypeOK
<1>1. ASSUME UNCHANGED svars, \A s \in StorageImpl : dp'[s] = dp[s]
      PROVE  StorageInv'
  BY <1>1 DEF svars, StorageInv, StorageTypeOK, OnlyOwnersKeepMemory,
     CheckIsCurrent, Owned, Strong
<1>2. CASE UNCHANGED vars \/ (LocalStep /\ UNCHANGED svars)
  BY <1>1, <1>2, LocalKeeps DEF vars, dvars
<1>3. ASSUME NEW x \in Local, MakeStorageThrows(x)
      PROVE  StorageInv'
  BY <1>1, <1>3 DEF MakeStorageThrows, Take
<1>4. ASSUME NEW h \in Handle, NEW s \in StorageImpl, MakeStorage(h, s)
      PROVE  StorageInv'
  <2>1. PICK allocator \in Allocator, resizable \in Resizable :
          Construct(h, s, Fields(resizable, allocator)) /\ Allocate(s)
    BY <1>4 DEF MakeStorage
  <2>2. \A t \in StorageImpl \ {s} : dp'[t] = dp[t]
    BY <2>1 DEF Allocate
  <2> QED
    BY <2>1, <2>2, ConstructStorageInv, ClientAssumption
<1>5. ASSUME NEW h \in Handle, NEW s \in StorageImpl, NEW x \in Local,
             MakeStorageFrom(h, s, x)
      PROVE  StorageInv'
  <2>1. PICK allocator \in Allocator \cup {NULL}, resizable \in Resizable :
          Construct(h, s, Fields(resizable, allocator)) /\ Move(s, x)
    BY <1>5 DEF MakeStorageFrom
  <2>2. \A t \in StorageImpl \ {s} : dp'[t] = dp[t]
    BY <2>1 DEF Move
  <2> QED
    BY <2>1, <2>2, ConstructStorageInv, ClientAssumption
<1>6. ASSUME NEW h \in Handle,
             \/ DropStorage(h)
             \/ \E g \in Handle : CopyStorage(h, g)
             \/ \E w \in WeakHandle : Lock(h, w)
      PROVE  StorageInv'
  <2>1. /\ UNCHANGED <<dp, phase, weak, fields>>
        /\ \E s \in Owned \cup {NULL} : impl' = [impl EXCEPT ![h] = s]
    BY <1>6 DEF DropStorage, CopyStorage, Lock, StorageInv, StorageTypeOK,
       Owned, Strong, dvars
  <2>2. Owned' \subseteq Owned
    BY <2>1 DEF StorageInv, StorageTypeOK, Owned, Strong
  <2> QED
    BY <2>1, <2>2 DEF StorageInv, StorageTypeOK, OnlyOwnersKeepMemory,
       CheckIsCurrent, Owned
<1>7. ASSUME NEW w \in WeakHandle, NEW h \in Handle,
             getWeakStorageImpl(w, h) \/ DropWeak(w)
      PROVE  StorageInv'
  <2>1. /\ UNCHANGED <<dp, phase, impl, fields>>
        /\ \E s \in StorageImpl \cup {NULL} : weak' = [weak EXCEPT ![w] = s]
    BY <1>7 DEF getWeakStorageImpl, DropWeak, StorageInv, StorageTypeOK, dvars
  <2> QED
    BY <2>1 DEF StorageInv, StorageTypeOK, OnlyOwnersKeepMemory,
       CheckIsCurrent, Owned, Strong
<1>8. ASSUME NEW w \in WeakHandle, DropWeak(w)
      PROVE  StorageInv'
  <2>1. /\ UNCHANGED <<dp, phase, impl, fields>>
        /\ weak' = [weak EXCEPT ![w] = NULL]
    BY <1>8 DEF DropWeak, dvars
  <2> QED
    BY <2>1 DEF StorageInv, StorageTypeOK, OnlyOwnersKeepMemory,
       CheckIsCurrent, Owned, Strong
<1> QED
  BY <1>2, <1>3, <1>4, <1>5, <1>6, <1>7, <1>8, MethodStorageInv,
     CleanupStorageInv DEF Next, ClientStep

\* The two invariants hold together.
THEOREM StorageInvariant == Spec => [](DataInv /\ StorageInv)
<1>1. Init => DataInv
  BY DataNullAssumption DEF Init, DataInit, DataInv, DataTypeOK, Empty,
     DataPtrValue, FreedOnceByItsDeleter, OneOwner, Owns, DataIsValid,
     DeleterInv, Deleter
<1>2. Init => StorageInv
  <2> SUFFICES ASSUME Init PROVE StorageInv
    OBVIOUS
  <2>1. StorageTypeOK /\ CheckIsCurrent
    BY DEF Init, StorageTypeOK, CheckIsCurrent, NoFields, Fields
  <2>2. OnlyOwnersKeepMemory
    BY StorageNullAssumption, MemberAssumption DEF Init, DataInit,
       OnlyOwnersKeepMemory, Owned, Strong, Empty, DataPtrValue, Slot
  <2> QED
    BY <2>1, <2>2 DEF StorageInv
<1> QED
  BY <1>1, <1>2, StepInv, StepStorageInv, PTL DEF Spec

\* TypeOK holds: no flag is used before it is initialized (StorageImpl.h:161).
THEOREM TypeCorrect == Spec => []TypeOK
<1>1. DataInv /\ StorageInv => TypeOK
  BY DEF DataInv, StorageInv, StorageTypeOK, TypeOK
<1> QED
  BY <1>1, StorageInvariant, PTL

\* Every block is freed once and by the deleter it was last given, however its
\* context moves between storages, DataPtrs and the client.
THEOREM MemoryIsFreedOnce == Spec => []FreedOnceByItsDeleter
<1>1. DataInv => FreedOnceByItsDeleter
  BY DEF DataInv
<1> QED
  BY <1>1, StorageInvariant, PTL

\* What is held has one owner: nothing leaks and nothing is owned twice.
THEOREM MemoryHasOneOwner == Spec => []OneOwner
<1>1. DataInv => OneOwner
  BY DEF DataInv
<1> QED
  BY <1>1, StorageInvariant, PTL

\* A DataPtr whose context was not taken away shows memory that is held.
THEOREM DataStaysValid == Spec => []DataIsValid
<1>1. DataInv => DataIsValid
  BY DEF DataInv
<1> QED
  BY <1>1, StorageInvariant, PTL

\* A storage without owners keeps no memory, with or without weak pointers.
THEOREM MemoryGoesWithOwners == Spec => []OnlyOwnersKeepMemory
<1>1. StorageInv => OnlyOwnersKeepMemory
  BY DEF StorageInv
<1> QED
  BY <1>1, StorageInvariant, PTL

\* The cached flag is never stale (StorageImpl.h:156).
THEOREM CheckStaysCurrent == Spec => []CheckIsCurrent
<1>1. StorageInv => CheckIsCurrent
  BY DEF StorageInv
<1> QED
  BY <1>1, StorageInvariant, PTL

=============================================================================
