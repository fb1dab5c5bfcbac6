------------------------------ MODULE Storage ------------------------------
(***************************************************************************)
(* c10/core/StorageImpl.h and c10/core/Storage.h: storages that share a    *)
(* StorageImpl, which owns memory through its member data_ptr_.            *)
(*                                                                         *)
(* Storage is an intrusive_ptr<StorageImpl>.  What that does is taken from *)
(* SharedOwnership, which module IntrusivePtr implements: the last strong  *)
(* pointer goes, then release_resources(), then the destructor, and other  *)
(* threads may act between these steps.                                    *)
(*                                                                         *)
(* The client owns what it calls a method of, gives an allocator to the    *)
(* constructors that allocate, and does not read a DataPtr after it has    *)
(* moved from it.  size_bytes_, which nothing else depends on, is left     *)
(* out.                                                                    *)
(***************************************************************************)
EXTENDS DataPtr

CONSTANTS
  StorageImpl,  \* memory a StorageImpl can be constructed at
  Handle,       \* objects of type Storage
  WeakHandle,   \* weak_intrusive_ptr<StorageImpl> objects
  Allocator,    \* allocators a storage can be constructed with
  NewAllocator, \* what the client gives to set_allocator: allocators or NULL
  Resizable     \* the values of `resizable' that the client uses

\* The member data_ptr_ of each StorageImpl.
ASSUME MemberAssumption == Member = StorageImpl
ASSUME StorageNullAssumption == NULL \notin StorageImpl \cup Allocator
ASSUME ClientAssumption ==
  NewAllocator \subseteq Allocator \cup {NULL} /\ Resizable \subseteq BOOLEAN

VARIABLES
  phase,   \* of each StorageImpl: "free", "live", or "released"
  impl,    \* storage_impl_ of each Storage
  weak,    \* target_ of each weak pointer
  fields   \* the other members of each StorageImpl

svars == <<phase, impl, weak, fields>>
vars == <<dvars, svars>>

Fields(resizable, allocator) ==
  [resizable |-> resizable, allocator |-> allocator,
   throw_on_mutable_data_ptr |-> FALSE,
   throw_on_immutable_data_ptr |-> FALSE, has_mutable_data_ptr_check |-> FALSE]
NoFields == Fields(FALSE, NULL)

refresh_has_data_ptr_check(f) ==
  [f EXCEPT !.has_mutable_data_ptr_check =
     f.throw_on_mutable_data_ptr \/ f.throw_on_immutable_data_ptr]

Strong(s) == {h \in Handle : impl[h] = s}
Weak(s) == {w \in WeakHandle : weak[w] = s}
Owned == {s \in StorageImpl : Strong(s) # {}}

Set(s, f) == fields' = [fields EXCEPT ![s] = f]

-----------------------------------------------------------------------------
Init ==
  /\ DataInit
  /\ phase = [s \in StorageImpl |-> "free"]
  /\ impl = [h \in Handle |-> NULL]
  /\ weak = [w \in WeakHandle |-> NULL]
  /\ fields = [s \in StorageImpl |-> NoFields]

\* make_intrusive<StorageImpl>() of a new impl, for the empty Storage h.
Construct(h, s, f) ==
  /\ impl[h] = NULL /\ phase[s] = "free"
  /\ phase' = [phase EXCEPT ![s] = "live"]
  /\ impl' = [impl EXCEPT ![h] = s]
  /\ Set(s, f)
  /\ UNCHANGED weak

\* Storage(use_byte_size_t, size_bytes, allocator, resizable).
MakeStorage(h, s) ==
  \E allocator \in Allocator, resizable \in Resizable :
    /\ Construct(h, s, Fields(resizable, allocator))
    /\ Allocate(s)

\* Storage(use_byte_size_t, size_bytes, std::move(x), allocator, resizable).
MakeStorageFrom(h, s, x) ==
  \E allocator \in Allocator \cup {NULL}, resizable \in Resizable :
    /\ resizable => allocator # NULL
    /\ Construct(h, s, Fields(resizable, allocator))
    /\ Move(s, x)

\* The same with resizable and without an allocator: the assert throws, and
\* the parameter that x was moved to is destroyed.
MakeStorageThrows(x) ==
  /\ TRUE \in Resizable
  /\ Take(x, [dp[x] EXCEPT !.ctx = NULL])
  /\ stale' = stale \cup {x}
  /\ UNCHANGED <<due, raw, svars>>

CopyStorage(h, g) ==
  /\ impl[h] = NULL /\ impl[g] # NULL
  /\ impl' = [impl EXCEPT ![h] = impl[g]]
  /\ UNCHANGED <<dvars, phase, weak, fields>>

DropStorage(h) ==
  /\ impl[h] # NULL
  /\ impl' = [impl EXCEPT ![h] = NULL]
  /\ UNCHANGED <<dvars, phase, weak, fields>>

getWeakStorageImpl(w, h) ==
  /\ weak[w] = NULL /\ impl[h] # NULL
  /\ weak' = [weak EXCEPT ![w] = impl[h]]
  /\ UNCHANGED <<dvars, phase, impl, fields>>

DropWeak(w) ==
  /\ weak[w] # NULL
  /\ weak' = [weak EXCEPT ![w] = NULL]
  /\ UNCHANGED <<dvars, phase, impl, fields>>

\* lock() of a weak pointer whose impl is still owned.
Lock(h, w) ==
  /\ impl[h] = NULL /\ weak[w] \in Owned
  /\ impl' = [impl EXCEPT ![h] = weak[w]]
  /\ UNCHANGED <<dvars, phase, weak, fields>>

\* Faulty: the data is left to the destructor.
release_resourcesKeeps(s) ==
  /\ phase[s] = "live" /\ Strong(s) = {}
  /\ phase' = [phase EXCEPT ![s] = "released"]
  /\ UNCHANGED <<dvars, impl, weak, fields>>

\* The last Storage is gone.
release_resources(s) ==
  /\ phase[s] = "live" /\ Strong(s) = {}
  /\ phase' = [phase EXCEPT ![s] = "released"]
  /\ Clear(s)
  /\ UNCHANGED <<impl, weak, fields>>

\* The last pointer is gone: ~StorageImpl() destroys data_ptr_.
Delete(s) ==
  /\ phase[s] # "free" /\ Strong(s) = {} /\ Weak(s) = {}
  /\ phase' = [phase EXCEPT ![s] = "free"]
  /\ Destroy(s)
  /\ Set(s, NoFields)
  /\ UNCHANGED <<impl, weak>>

-----------------------------------------------------------------------------
(* Methods of a StorageImpl s that a Storage owns.                          *)

reset(s) == Clear(s) /\ UNCHANGED svars

\* The reference that mutable_data_ptr() returns, unless it throws, and what
\* the client does with it.
mutable_data_ptr(s) ==
  ~(fields[s].has_mutable_data_ptr_check /\ fields[s].throw_on_mutable_data_ptr)

ThroughReference(s) ==
  /\ mutable_data_ptr(s)
  /\ \/ Clear(s) \/ ReleaseContext(s)
     \/ \E x \in Local : Move(s, x) \/ Move(x, s)
     \/ \E expected, new \in Deleter \ {deleteNothing} :
          ExchangeDeleter(s, expected, new)
  /\ UNCHANGED svars

\* data_ptr(), unless it throws, and a DataPtr of the client to the same data.
data_ptr(s) ==
  ~(fields[s].has_mutable_data_ptr_check
      /\ fields[s].throw_on_immutable_data_ptr)
AliasData(s, x) == data_ptr(s) /\ Alias(x, s) /\ UNCHANGED svars

\* y = set_data_ptr(std::move(x)): y takes the old value of the storage.
set_data_ptr(s, x, y) ==
  LET moved == [dp EXCEPT ![s] = dp[x], ![x].ctx = NULL] IN
  /\ heap' = Freed(heap, moved[y])
  /\ dp' = [moved EXCEPT ![y] = dp[s]]
  /\ stale' = (stale \ {s, y}) \cup ({x} \ {y})
                \cup (IF x \in stale THEN {s} ELSE {})
                \cup (IF s \in stale THEN {y} ELSE {})
  /\ Set(s, refresh_has_data_ptr_check(fields[s]))
  /\ UNCHANGED <<due, raw, phase, impl, weak>>

\* Faulty: the DataPtr is copied, as a raw pointer would be.
set_data_ptr_noswapCopies(s, x) ==
  /\ Take(s, dp[x])
  /\ Set(s, refresh_has_data_ptr_check(fields[s]))
  /\ UNCHANGED <<due, raw, stale, phase, impl, weak>>

set_data_ptr_noswap(s, x) ==
  /\ Move(s, x)
  /\ Set(s, refresh_has_data_ptr_check(fields[s]))
  /\ UNCHANGED <<phase, impl, weak>>

\* Faulty: the flag is set without the refresh.
set_throw_on_mutable_data_ptrOnly(s) ==
  /\ Set(s, [fields[s] EXCEPT !.throw_on_mutable_data_ptr = TRUE])
  /\ UNCHANGED <<dvars, phase, impl, weak>>

set_throw_on_mutable_data_ptr(s) ==
  /\ Set(s, refresh_has_data_ptr_check(
              [fields[s] EXCEPT !.throw_on_mutable_data_ptr = TRUE]))
  /\ UNCHANGED <<dvars, phase, impl, weak>>

set_throw_on_immutable_data_ptr(s) ==
  /\ Set(s, refresh_has_data_ptr_check(
              [fields[s] EXCEPT !.throw_on_immutable_data_ptr = TRUE]))
  /\ UNCHANGED <<dvars, phase, impl, weak>>

set_allocator(s, allocator) ==
  /\ Set(s, [fields[s] EXCEPT !.allocator = allocator])
  /\ UNCHANGED <<dvars, phase, impl, weak>>

\* The assert throws when there is no allocator.
set_resizable(s, resizable) ==
  /\ resizable => fields[s].allocator # NULL
  /\ Set(s, [fields[s] EXCEPT !.resizable = resizable])
  /\ UNCHANGED <<dvars, phase, impl, weak>>

-----------------------------------------------------------------------------
Method(s) ==
  \/ reset(s) \/ ThroughReference(s)
  \/ set_throw_on_mutable_data_ptr(s) \/ set_throw_on_immutable_data_ptr(s)
  \/ \E allocator \in NewAllocator : set_allocator(s, allocator)
  \/ \E resizable \in Resizable : set_resizable(s, resizable)
  \/ \E x \in Local :
       \/ AliasData(s, x) \/ set_data_ptr_noswap(s, x)
       \/ \E y \in Local : set_data_ptr(s, x, y)

ClientStep ==
  \/ LocalStep /\ UNCHANGED svars
  \/ \E s \in Owned : Method(s)
  \/ \E h \in Handle, s \in StorageImpl :
       \/ MakeStorage(h, s)
       \/ \E x \in Local : MakeStorageFrom(h, s, x)
  \/ \E x \in Local : MakeStorageThrows(x)
  \/ \E h, g \in Handle : CopyStorage(h, g)
  \/ \E h \in Handle : DropStorage(h)
  \/ \E w \in WeakHandle, h \in Handle : getWeakStorageImpl(w, h) \/ Lock(h, w)
  \/ \E w \in WeakHandle : DropWeak(w)

\* What the pointers do on their own.
Cleanup(s) == release_resources(s) \/ Delete(s)

Next == ClientStep \/ \E s \in StorageImpl : Cleanup(s)

Spec == Init /\ [][Next]_vars

\* A thread that dropped the last pointer goes on inside of its destructor.
FairSpec == Spec /\ \A s \in StorageImpl : WF_vars(Cleanup(s))

-----------------------------------------------------------------------------
TypeOK ==
  /\ DataTypeOK
  /\ phase \in [StorageImpl -> {"free", "live", "released"}]
  /\ impl \in [Handle -> StorageImpl \cup {NULL}]
  /\ weak \in [WeakHandle -> StorageImpl \cup {NULL}]
  /\ fields \in [StorageImpl ->
       [resizable : BOOLEAN, allocator : Allocator \cup {NULL},
        throw_on_mutable_data_ptr : BOOLEAN,
        throw_on_immutable_data_ptr : BOOLEAN,
        has_mutable_data_ptr_check : BOOLEAN]]

\* A StorageImpl that has no owner any more keeps no memory, although weak
\* pointers keep the StorageImpl itself (StorageImpl.h:59).
OnlyOwnersKeepMemory ==
  \A s \in StorageImpl :
    /\ s \in Owned => phase[s] = "live"
    /\ phase[s] # "live" => dp[s].data = NULL /\ dp[s].ctx = NULL

\* The flag that an access tests first is set when one of the flags that it
\* stands for is set, after every sequence of methods (StorageImpl.h:156).
CheckIsCurrent ==
  \A s \in StorageImpl :
    fields[s].has_mutable_data_ptr_check =
      (fields[s].throw_on_mutable_data_ptr
         \/ fields[s].throw_on_immutable_data_ptr)

\* "For resizable storage, allocator must be provided" (StorageImpl.h:31).
ResizableHasAllocator ==
  \A s \in Owned : fields[s].resizable => fields[s].allocator # NULL

\* The memory of a storage nobody owns is given up, with or without weak
\* pointers.
MemoryReturns ==
  \A s \in StorageImpl : s \notin Owned ~> s \in Owned \/ dp[s].ctx = NULL

=============================================================================
