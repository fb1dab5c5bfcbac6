# mytorch: TLA+ models and proofs

This directory models the core library of mytorch, `src/c10`, a reduced
re-implementation of PyTorch's c10: reference counted pointers, dispatch keys,
storages and their allocators, devices and device guards, the dimensions of a
tensor, and half precision numbers.  The modules are
written from the source; `PROJECT.json` maps every definition to its lines.

Run `tlc -config X.cfg M` for a module of the tables below and `tlapm M.tla`
for a `_proofs` module.

## 1. Inventory

All paths are under `src/c10`.

| Part | State | Operations | Hard because |
| --- | --- | --- | --- |
| `util/IntrusivePtr.h` | two atomic counters in each target, `target_` in each pointer | construct, copy, move, assign, reset, swap, release, reclaim, weak pointers and `lock()`, the `raw::` functions | the only concurrent code: several threads own one target, every call makes several accesses to the counters |
| `core/DispatchKey.h`, `core/DispatchKeySet.{h,cpp}`, `util/BitsUtil.h` | a 64-bit word: bits of backends, above them bits of functionalities | set algebra, the iterator, the index into the dispatch table | three numberings shifted against each other, an iterator over pairs with two masks |
| `util/UniqueVoidPtr.h`, `core/Allocator.h` (`DataPtr`, `Allocator`), `cpu/` | a data pointer, an owned context and its deleter | move, clear, release and exchange of the deleter, allocation | the context must be freed once, and the data pointer is not owned |
| `core/StorageImpl.h`, `core/Storage.h` | a `DataPtr`, size, flags and allocator, in an intrusive target | access, replacement of the data, flags, reset, release through the last pointer | the state is shared by strong and weak pointers and given up in two phases |
| `util/MaybeOwned.h` | a union of an owned and a borrowed value with a flag | copies and moves between the four combinations | union members are assigned before they are constructed, a borrow is an intrusive_ptr without a count |
| `core/DeviceGuard.h`, `core/impl/` | the current device of each device type (external), the device each guard restores | construct, `reset_device`, `set_index`, destroy | nesting, changes of type, implementations that throw half-way |
| `core/Allocator.cpp` | an allocator and a priority for each device type | `SetAllocator`, `GetAllocator` | order of registration |
| `core/Device.{h,cpp}`, `core/DeviceType.*` | type and index of 8 bits | parser of device strings, validation, `set_index()`, `str()`, hash | narrowing, states of the parser |
| `core/SizesAndStrides.h`, `util/ArrayRef.h` | a size and two arrays of 10; a pointer and a length | resize, copy, move, set, slice | size_t arithmetic, what remains in the arrays, views of the object that is assigned to |
| `util/Half.h` | 16 bits | conversions to and from `float`, arithmetic by way of `float` | tricks with bits, the rounding of the hardware, subnormal numbers, rounding twice |
| `core/GeneratorImpl.*` | device and key set | `clone()` adopts a pointer with incref and reclaim | a client of the raw functions |
| `core/TensorImpl.*`, `core/UndefinedTensorImpl.*`, aten headers, `core/ScalarType.h`, `util/Exception.*`, `util/StringUtil.h`, `util/Macros.h`, `util/typeid.h` | members without operations; tables; formatting | accessors, look-ups | nothing a model would add |

How the parts interact.  A `Storage` is an `intrusive_ptr<StorageImpl>`; a
`StorageImpl` is an `intrusive_ptr_target` whose `release_resources()` clears
its `DataPtr`; a `DataPtr` came from an `Allocator`, which was found in the
allocator registry.  `MaybeOwned<intrusive_ptr<T>>` borrows through
`reclaim()` and `release()`.  A `DeviceGuard` calls a `DeviceGuardImplInterface`
it finds in the registry of guard implementations.  `DispatchKeySet` rests on
`BitsUtil.h`.  A failed `TORCH_CHECK` or `TORCH_INTERNAL_ASSERT` throws.

What makes each part correct:

* Reference counting: the counters count the owners exactly; nothing is used
  after `delete` or after `release_resources()`; both happen once, and they do
  happen; `lock()` promotes only beside an owner and fails only without one; no
  check of the header fails however its loads are interleaved.
* Key sets: a loop over a set sees exactly the keys `has()` finds, once, in the
  order of the dispatch table, and ends; every set has an entry of the table.
* `DataPtr`, `Storage`: every allocation is freed once, by the deleter that was
  last given to it; no storage that somebody owns has lost its data unless the
  owner cleared it.
* `MaybeOwned`: a borrow changes no count.
* Device guards: when a guard ends, every device type is at the device it was
  at when the guard began, also if `reset_device` failed half-way.
* Allocators: the last registration of the highest priority wins, in whatever
  order static objects are constructed.
* Devices: a string makes a device exactly if it is one of the grammar, and what
  a device prints is what makes the same device again.
* Dimensions: an object shows what it was given, whatever its array held before,
  and a view that is assigned arrives as it was seen.
* Half precision: a conversion to `float` is exact, a conversion back is to the
  nearest number, and arithmetic rounds as if it rounded once.

## 2. Modules

| Module | Models |
| --- | --- |
| `IntrusivePtr` | `util/IntrusivePtr.h`, every access to a counter a step of its thread |
| `SharedOwnership` | the abstract specification of `IntrusivePtr`: owners and watchers of a target, no counters |
| `IntrusivePtrWeakReset` | `IntrusivePtr` with a client that also calls `weak_intrusive_ptr::reset()` |
| `DispatchKeySet` | the numbering of the keys and the operations on words, as sets of bit positions |
| `DispatchKeySetIterator` | a client that builds sets and runs `for (auto k : ks)` |
| `DataPtr` | `util/UniqueVoidPtr.h`, `DataPtr`, the CPU allocator: who owns which block, and the deleter it is due to |
| `Storage` | `StorageImpl` and `Storage`: extends `DataPtr`, takes from `SharedOwnership` when its objects are given up |
| `MaybeOwned` | `util/MaybeOwned.h` over `intrusive_ptr` |
| `DeviceGuard` | nested device guards over external implementations |
| `DispatchKeySetChanges` | `DispatchKeySetIterator` with a client that changes the set in the body of its loop |
| `Device` | `core/Device.{h,cpp}`: the parser of device strings, `set_index()`, `str()`, the hash |
| `AllocatorRegistry` | `core/Allocator.cpp`: registrations by static objects and by calls; extends `Device` for the types |
| `ArrayRef` | `util/ArrayRef.h`: views, `slice` and its check with a `size_t` that wraps |
| `SizesAndStrides` | `core/SizesAndStrides.h`; extends `ArrayRef`, whose views it assigns |
| `Dimensions` | what every call of `SizesAndStrides` promises: sizes and strides of each dimension, no array |
| `Float32` | external: the IEEE arithmetic of `float` that `Half.h` relies on |
| `Half` | `util/Half.h`: both conversions to `float`, the one back, and the operators |
| `IntrusivePtr_proofs`, `DispatchKeySetIterator_proofs`, `Storage_proofs`, `MaybeOwned_proofs`, `DeviceGuard_proofs`, `SizesAndStrides_proofs`, `Device_proofs`, `Half_proofs` | the theorems of section 5 |
| `MCIntrusivePtr`, `MCWeakReset`, `MCDispatchKeySet`, `MCDispatchKeySetChanges`, `MCStorage`, `MCMaybeOwned`, `MCDeviceGuard`, `MCDevice`, `MCSizesAndStrides`, `MCHalf` | instances for TLC |

Operators whose comment begins with "Faulty" are plausible bugs: the run of a
property is repeated with one of them in place of the definition that follows
it, and has to fail.  `PROJECT.json` lists them under "mutants".

### IntrusivePtr

A pointer value is the contents of a *slot*: a named `intrusive_ptr` (`Ptr`) or
`weak_intrusive_ptr` (`WeakPtr`), a raw `T*` that `release()` made an owner
(`RawPtr`, `RawWeakPtr`), or the temporary of the expression a thread is
evaluating, which is the slot of the thread itself.  `strong` and `weak` give
`target_` of every slot; `refcount`, `weakcount` and `life` are the target's
(`life` is what no counter says: allocated, `release_resources()` done, freed).
`pc`, `obj`, `src` and `expected` are where a thread is in a call, the target it
works on, the pointer it reads from and the local `refcount` of `lock()`.

A C++ call is a sequence of actions, one for each access to a counter:
`p.reset()` is `Reset`, `DecRef`, `LoadWeak`, `ReleaseResources`,
`DecWeakShare`, `Delete`; a copy assignment is `CopyConstruct`, `Assign` and
the same tail for what `p` held before; `lock()` is `LockBegin`, `LockExpire`,
`LockLoad` and the loop of `LockSucceed` and `LockFail`; the `TORCH_CHECK` of
`reclaim()` is one action for each of its loads.  A step that touches no counter
(a swap, a move) is joined to the call's first step.  A failed check leads to
`"thrown"`.

The client obeys C++: it does not modify a pointer object another thread reads
(`Pinned`), does not copy a pointer to nothing, and gives a raw owner back once.
A null pointer is an empty slot; calls on it return at once and change nothing.
The memory orders of the code are not modelled: atomic accesses are sequentially
consistent.  `fetch_add` and `fetch_sub` wrap at `CountMax`.

### DispatchKeySet and DispatchKeySetIterator

A word is the set of the positions of its bits, so `|`, `&`, `~` are set
operations, `maskTrailingZeros(n)` keeps the positions from `n` on, and
`findFirstSet` is the least position.  The enumerations of `DispatchKey.h` are
computed from the numbers of backends and functionalities.  A client assigns to
its set outside of the loop; `Begin` is `begin()`, every call of `operator++` is
one action (`ReachEnd`, `SkipFunctionality` for the recursive call,
`PerBackendKey`, `PlainKey`), and `Deref` is `operator*` with its check.
`yielded` is history: the keys the loop has seen.

`DispatchKeySetChanges` lets the body assign to the set that the iterator reads
through `data_ptr_`.  `stable` is the history of the keys that were there all the
time, `intruded` says that a change was not behind the iterator.

### DataPtr and Storage

`dp` holds the members of every `DataPtr`: those of the client (`Local`) and the
`data_ptr_` of each `StorageImpl` (`Member`).  `heap` says which blocks are
held; a block that is freed twice, or by a deleter that is not the one it was
last given (`due`), becomes `"corrupt"`.  `raw` are the contexts that
`release_context()`, `move_context()` or `raw_allocate()` left to the client.  A
move or a release leaves `data_` in its source, which the client must not read
any more: `stale` is the history of that.  One action is one method, with what
the order of its assignments does to contexts and deleters.

`Storage` adds the objects: `phase` of each `StorageImpl`, the `Storage` and weak
pointers that refer to it, and its flags.  It takes from `SharedOwnership` what
an `intrusive_ptr` promises and not how: the last `Storage` goes, and in later
steps, between which others may act, `release_resources()` and the destructor
run.  Those steps are taken over by hand, so nothing is checked about them in
`Storage`: that the counters and `lock()` keep what they promise is checked and
proved of `IntrusivePtr`.  `raw_deallocate()` calls the deleter of the allocator and
`RawDelete` the one that came with the context; they differ after
`compare_exchange_deleter()`.
The client calls methods of a `StorageImpl` that it owns a `Storage` of.

### MaybeOwned

`maybe` is the union and its flag, `refcount` the count of each object, changed
by `retain` and `reset` as every copy and destructor of the code does, in its
order: `assignBorrow` counts its by-value parameter for a while and releases the
left-hand side, which may be memory that was never constructed or was just
destroyed (`garbage`).  A count that is touched when there is no object becomes
`Corrupt`.  The client's rule is `Lent`: what is borrowed has an owner.

### DeviceGuard

`selected` is the state of the external implementations, one device for each
type; `guards` are the guards of the enclosing blocks.  `Construct`, `Destruct`
and `ResetSameType`/`ResetToOtherType` are the constructor, the destructor and the
two branches of `reset_device()`; `LookupThrows` and `ExchangeThrows` are the
places at which the second branch can end half-way.  `entry`, `spoiled` and
`failed` are history for the properties.

### Device and AllocatorRegistry

`device` is one device and `text` the string that it was made of.  A string is
chosen from all that are not longer than `MaxLength`; a character is a class with
a value, and a run of letters is one character.  `Parsed` is the constructor:
`States`, the loop of `ParseStep` over the characters, then the checks in their
order, the narrowing, and `validate()`.  `set_index()` is the only operation that changes a
device.

`allocator_array` and `allocator_priority` are the tables.  `pending` are the
static objects of `REGISTER_ALLOCATOR` that are not constructed yet, in any
order and between the calls; `calls` is the history of registrations.

### SizesAndStrides and ArrayRef

`size` and `storage` are the members; `storage[o]` has `2 * MAX_SIZE` places, as
in the code sizes first and strides in the second half.  An array that is
assigned is a vector of the client or a view: `View` are the slices of the
sizes and strides of all objects, also of the one that is assigned to.
`set_sizes_view` resizes and clears before it reads the view, as the code does.
The assignments through `size_at()` and the iterators are `Assign`.  The asserts
are guards: they end a debug build.

`Dimensions` has no next-state relation of its own.  One that lets a client set any
array would explain a call that writes the wrong numbers as a call with other
arguments.  `CallsAreKept` therefore compares call by call: `set_sizes(o, n, array)`
has to do what `Dimensions` says of these arguments, and an assignment from a
view what it says of the numbers that the view showed before.

### Half

A behaviour is one conversion, one calculation, or a conversion there and back;
`op`, `args` and `result` are what was called and what it returned.  TLC's
integers have 31 bits and a sign, so the sign bit of a word is a field of its
own, and `two_w` is shifted by one less.  `Float32` gives `+`, `*` and `/` of floats
as round-to-nearest of exact integers, subnormal results included.

## 3. Runs

| Run | Module, cfg | Question and bounds |
| --- | --- | --- |
| `intrusive_ptr_safety` | `MCIntrusivePtr`, `MCIntrusivePtr.cfg` | All safety and action properties of `IntrusivePtr`.  3 threads, 2 targets, 2 named pointers, one raw pointer, one weak and one raw weak pointer; interchangeable values under `SYMMETRY`. |
| `intrusive_ptr_liveness` | `MCIntrusivePtr`, `MCIntrusivePtrLive.cfg` | The liveness properties and the implementation of `SharedOwnership` with its fairness.  2 threads and one target, without symmetry. |
| `weak_reset_twice` | `MCWeakReset`, `MCWeakReset.cfg` | A violation: section 6. |
| `dispatch_keyset` | `MCDispatchKeySet`, `MCDispatchKeySet.cfg` | All properties of the sets and the iterator, for the numbers of the source (3 backends, 7 functionalities): every word that operations can build is iterated over. |
| `dispatch_keyset_changes` | `MCDispatchKeySetChanges`, `MCDispatchKeySetChanges.cfg` | Which changes of the set the loop survives, and that it ends after any.  2 backends and 5 functionalities, every initial set, every change of one key or backend at every key. |
| `storage_memory` | `MCStorage`, `MCStorage.cfg` | All properties of `DataPtr` and `Storage`: a storage with two owners and a weak pointer, a `DataPtr` of the client, two blocks, two deleters; each block is freed once, and the memory comes back. |
| `storage_allocator` | `MCStorage`, `MCStorageAllocator.cfg` | A violation: section 6. |
| `maybe_owned` | `MCMaybeOwned`, `MCMaybeOwned.cfg` | 3 `MaybeOwned`, 3 pointers of the client, 2 objects, in every combination of owned, borrowed and not constructed. |
| `device_guards` | `MCDeviceGuard`, `MCDeviceGuard.cfg` | 3 nested guards, the 2 device types of the source, 2 CUDA devices, and indices up to one too many for both types; no implementation is registered for the CPU, so that the look-up of one fails. |
| `devices` | `MCDevice`, `MCDevice.cfg` | All strings of up to 5 characters to the base 4, with an `int` of 0..31 and an index of -4..3, every device and every `set_index()`; three registrations by static objects and up to three calls, in every order. |
| `sizes_and_strides` | `MCSizesAndStrides`, `MCSizesAndStrides.cfg` | 2 objects of up to 2 dimensions with 2 numbers, every array and every view of either. |
| `half_conversions` | `MCHalf`, `MCHalf.cfg` | All 2^16 halves to `float` and back; floats of each of the 256 exponents with the mantissas around every place at which a half can end; the four operators on 112 halves of both signs, subnormal and greatest ones included. |

Why the bounds are enough.  Three threads are the least for the hardest case of
reference counting: one that closes a target after its last decrement, one that
drops the last weak pointer, and one inside `lock()` or `reclaim()` of that
target.  A second target is needed for assignments that drop one and take the
other, and for memory that is used again.  `CountMax` is 15, far beyond the
number of slots: the assumption `WidthAssumption` is what 2^32 and the size of
memory give in practice.  The dispatch key run has no bound of its own: its
constants are those of the source, and all 2^9 words are reached.  A method of
`DataPtr` or `Storage` has at most two `DataPtr`s as arguments (one may be the
`data_ptr_` of the storage), and a block has interesting encounters with one
other block at most, the one it replaces.  A
`MaybeOwned` assignment relates two of them, and a third one can borrow from
either; two objects are what an assignment gives up and takes.  A guard inside
of a guard inside of a guard is the least in which a guard meets both an outer
guard of its type and an inner one that changes type; of two devices one is the
device to restore and the other is not.  A loop over a changing set needs a
functionality before, at and behind the current one and two backends.  A device
string needs a name, a colon and three digits, with which a number can exceed the
index and the `int`.  Two dimensions are enough to
grow by one and by two, from nothing and from one, and for views that do not
begin at the start (with three, comparing every call at every step takes too
long; the theorems hold for every `MAX_SIZE`); `SizeMax` is one more than
the least that the assumption allows.  All halves are converted; of the floats
the mantissas are the ones next to a power of two and to a multiple of one, at
which ties, carries and the change from subnormal to normal happen.

## 4. Fairness

`IntrusivePtr!FairSpec` has weak fairness of `CallStep(t)` for each thread: a
thread that is inside of a call is scheduled again.  It does not cover the
client's decisions (which call to make, whether to use a result), so a pointer
may be kept for ever.  It does not promise that a `compare_exchange_weak`
succeeds, so `LockReturns` is stated for expired targets only.
`DispatchKeySetIterator!FairSpec` has weak fairness of `LoopStep`: a loop that
was entered is executed, and so has `DispatchKeySetChanges!CSpec` of the steps
of its loop.  `Storage!FairSpec` has weak fairness of `Cleanup(s)`:
it happens inside of the destructor of the last pointer, whose thread goes on.
The client's own steps are never fair.  The other modules have only safety
properties.

## 5. What is proved

For all constants that satisfy the named assumptions of the modules (finite
disjoint sets of slots, `CountMax` larger than their number; at least one
backend, the two functionalities per backend in order; one CPU; digits to a base
of at least 2, an even number of at most 2^16 indices that are all an `int`; the
check of the size of the dispatch table, which no proof needs):

* `IntrusivePtr_proofs`: `TypeCorrect`, `InductiveInvariant`, `CountsAreExact`,
  `MemoryIsSafe`, `DeletersAreAlone`, `AssertsHold`, `ChecksHold`,
  `ResourcesAreKept`, `NothingLeaks`, `NothingIsResurrected`, `LockIsHonest`, and
  `SharedOwnershipIsImplemented`, which is `Spec => Ownership!Spec` under the
  refinement mapping of `IntrusivePtr`.
* `DispatchKeySetIterator_proofs`: `InductiveInvariant`, `IteratorChecksHold`,
  `EveryKeyIsSeen`, `KeysAscend`, `TableIsOrdered`, and `ChangesBehindHold`, for
  the loop of `DispatchKeySetChanges` over a set that changes.
* `Storage_proofs`: `DataInvariant`, for a client of `DataPtr` alone;
  `StorageInvariant`, `TypeCorrect`, `MemoryIsFreedOnce`,
  `MemoryHasOneOwner`, `DataStaysValid`, `MemoryGoesWithOwners`,
  `CheckStaysCurrent`.
* `MaybeOwned_proofs`: `CountsAreOwners`, `TypeCorrect`.
* `DeviceGuard_proofs`: `InductiveInvariant`, `CurrentDeviceIsSelected`,
  `GuardsRestore`.
* `SizesAndStrides_proofs`: `TypeCorrect`, `ViewsArrive`, and
  `DimensionsAreImplemented`: every call does what `Dimensions` says of it.
* `Device_proofs`: `GrammarIsAccepted`, `DevicesAreIdentified`, and
  `HighestIsKept` for the registry of allocators.
* `Half_proofs`: `WideningIsExact`, `NearestIsReached`, and `RoundedAsOnce`, for the
  operators on all finite halves.

The invariant of `IntrusivePtr`.  `CountsExact` alone is not inductive: a thread
between its last decrement and its next access owns the shared weak count
without owning a slot.  `CloserInv` says that there is at most one such thread
for a target and in what state the target is, `SoleDeleter` that a deleting
thread is alone with it.  `PinInv` keeps what a call reads from, `FrameInv` ties
the temporaries to the program counter, and `LoadInv` says which conclusions
from an earlier load still hold: a 0 loaded by `lock()` is still 0, and the
first two loads of the weak `reclaim()` still imply that there is no owner.
The proof abstracts every action to one of five changes of a target's references
(a reference appears, moves, goes, the share of the owners is handed over, the
target is deleted) and shows that each preserves the counts by cardinality.

The invariant of the iterator.  `CursorInv` says that the backend mask is not 0
only while the functionality under the cursor has a backend left; with it the
keys still to come (`Remaining`) are determined by the two masks, `Progress`
says that seen, current and remaining keys partition the set, and `OrderInv`
that what remains follows what was seen.  `AtHand` says the same of the key that
the body of the loop looks at.  All of these but `Progress` (together `LoopInv`)
speak of the masks and the keys seen, and not of how the set came to be what it
is, so `LoopInv` survives any change that is behind the iterator; `CInv` is
`LoopInv` as long as every change was one (`~intruded`), with `StableInv`, that keys
which were always in the set are seen, at hand or still to come.

The dispatch table.  `offsetsAndMasks` is recursive: the offset of a functionality is
that of the one before it plus its entries.  By induction it is the number of
functionalities so far and, for each of them that is per backend, of the other
backends; from that closed form follow the order and the bounds of the indices.
The library's induction theorems cannot be instantiated here, so the
inductions of this project are about sets: the numbers at which a claim fails
have a least one (`LeastBit`, `LeastNat`, from `WFMin` and the well-founded order of
the naturals), and at it the claim follows from the one before.

The argument for `Device`.  A recursive function is what its definition says only
if there is such a function, so `LoopExists` and `DigitsExist` construct the loops of
the parser and of `std::stoi`, and the digits of a number.  `Shape` is the loop
invariant of the parser: its state says which part of the string was a name and
which was the number; at the last character it is the grammar (`ParsedIsMeant`).
That digits say the number they were printed of, and so that different numbers
are printed differently, is an induction over the quotients (`DigitsSay`).

The invariant of the registry.  `HighestWins` speaks of the call that outranks all
others, and the table knows only a priority: `RegistryInv` says that the table
holds what one of the calls registered, with that call's priority, and that this
call outranks the others.

The invariant of `DataPtr`.  That a block is freed once and by the right deleter
is not inductive: the deleter that runs is the one beside the context, which
`DeleterInv` says is the one the block is due to, and that the block is still
held follows from `OneOwner`.  The lemmas are about an action on any `DataPtr`,
so `Storage_proofs` uses them for the `data_ptr_` of a `StorageImpl` as well; it
adds the lemmas of the actions that work on two or three of them (the
constructor that throws, `set_data_ptr` with its swap), and `StorageInv`, which
ties the phase of an object to its pointers, its data and its flags.

The invariant of `MaybeOwned`.  The owners of an object are the places of one
function, `Held`, which is null where something is borrowed.  Every action
leaves it alone, replaces the pointer at one place (`Take`) or moves a pointer
from one place to another (`Move`), and two lemmas on cardinalities say that
`retain` and `reset` then keep the counts right.  That an assignment of a borrow
changes no count needs an owner of what is borrowed, so `Lent` is part of the
induction; where an owner becomes a borrower it is needed after the step.

The invariant of `DeviceGuard`.  `CurrentIsSelected` speaks of the innermost guard,
but when that one ends the next one has to find what it had selected.  So
`Sound` says of every guard what holds *inside* of it: now, for the innermost,
and at the beginning of the next guard for the others.  A call changes the
innermost guard, and spoils at most one type for all of them; a guard that ends
gives the next one back what it began with, apart from spoiled types.

The argument for `SizesAndStrides`.  Every operation but a move gives one object a
new array and a new size, and one lemma says what `Dimensions` sees of that; two
more say what `resize()` clears and what `std::copy()` overwrites.  That a view of
the object that is assigned to survives the resize needs that it lies within the
places that count of one half (`ViewLies`), for which the sum in `slice()` must
not wrap: `MaxSizeAssumption` says that two lengths fit into a `size_t`.

The argument for `Half`.  The solver has no powers of two that vary, so `Two(k)` is
known by its 32 values and lemmas, and the number of bits of a number by the two
powers it is between.  A float is taken apart into exponent and mantissa (`Parts`,
`Normal`).  The two scalings of `base()` multiply by 4 and make infinite what is
too large (`ScaleNormal`, `ScaleSubnormal`); the addition of the power of two shifts
the number to the last bit of the half, with one sticky bit below, and rounds
there (`StickyRounds`, `PowerPlus`).  `Rounds(s, h, n)` says that n is s / 2h to the
nearest, ties to even, and what is left is that the 11 bits of n and the exponent
add up to a half whose middles to its neighbours are those of n, also where n
carries into the exponent (`HalfOfNormal`), from subnormal to normal
(`HalfOfSmall`) and to infinity (`HalfOfInfinite`).  In the other direction both
conversions to `float` have the same closed form, `Widened`, for which the integer
conversion needs the number of bits of a half that is moved up by 16
(`Renormalized`).

That the operators round as if once.  `ToHalf` returns the half nearest to the
float it is given, so what is left is that the float, which is itself rounded,
compares with every middle between two halves as the exact result does (`Agree`,
of two numbers that are each a significand, a unit and a divisor); what agrees
has the same nearest half (`AgreeNearest`).  Rounding to 24 bits keeps the order
with what has 24 bits or fewer, and a middle has at most 12, so the float agrees
unless it was rounded *to* a middle that the exact result is not (`RoundsCompare`,
`AgreeRounded`); `MeetsItself` is that this does not happen.  A product of two
halves has at most 22 bits, and nothing is rounded (`ProductAgrees`).  A quotient
is calculated with one sticky bit for the rest of the division, which does not
change how it compares with a middle (`QuotientCompares`), and one that is rounded
to a middle is it, because the divisor has only 11 bits (`QuotientMeets`).  A sum
of operands close to each other has zeros in what is rounded away
(`NearSumMeets`); of operands far from each other it is too close to a half to be
near a middle (`FarSumMeets`).  The sign of a sum is that of the larger operand
(`SignedAdds`), and a difference is the sum with the opposite (`SubtractIs`).

Only model-checked are the liveness properties `ResourcesReleased`, `Freed`,
`LockReturns`, `LoopEnds`, `LoopStops`, `MemoryReturns` and the fairness part of
`ImplementsOwnership` (liveness and ENABLED are beyond the prover).

## 6. Findings

`weak_intrusive_ptr::reset()` (`util/IntrusivePtr.h:523`) calls `reset_()` and
keeps `target_`, unlike `intrusive_ptr::reset()`.  Its destructor then gives up
a second count.  The run `weak_reset_twice` shows a target deleted while an
`intrusive_ptr` owns it, against the assert of `~intrusive_ptr_target`.  No
code of the repository calls `reset()` of a weak pointer, so `IntrusivePtr`
itself leaves it out.

`StorageImpl::set_allocator()` (`core/StorageImpl.h:139`) accepts `nullptr` for a
storage that is resizable.  The constructor and `set_resizable()` assert "For
resizable storage, allocator must be provided", and the run `storage_allocator`
shows a resizable storage without one.

Three more observations, which contradict nothing the repository says:

* An index in a device string is narrowed to 8 bits before it is validated
  (`core/Device.cpp:95`): `"cuda:256"` makes `cuda:0` and `"cpu:256"` passes the check
  that a CPU has no index above 0.  `AcceptsGrammar` states what is accepted with
  this narrowing.
* `slice(N, M)` compares `N + M`, which can wrap (`util/ArrayRef.h:129`).  The views
  of `SizesAndStrides` have lengths that do not.
* The backend mask of the iterator belongs to the functionality that was next when
  it was computed.  A loop whose body removes the backend that is next, or adds
  a functionality before the current one, can lose keys or fail a `TORCH_CHECK`
  (`core/DispatchKeySet.cpp:73`, `101`).  `ChangesBehindAreSafe` states which changes
  the loop survives.

## 7. Not modelled, and the plan

Not modelled within the modules above: comparison, hashing of pointers, `get()`
and the counts a client can read; keys of the enumeration that are marks
(`StartOf...`), for which the constructor shifts by -1; the destructors of
targets, which are the client's code.

Not modelled at all: `ScalarType.h`, the exceptions and strings, which keep no
state and only format text or look something up; `TensorImpl` and the aten
headers, which are declarations; `GeneratorImpl`, whose `clone()` adopts what a
pure virtual function returns, the `Make` of `IntrusivePtr`.

In `DataPtr` and `Storage`: sizes other than zero or not, devices, the contents
of memory (`clone`, `copy_data`), `cast_context`, `is_alias_of`,
`unsafeReleaseStorageImpl` and the accessors named `_unsafe`; an allocation that
fails throws before anything changed.  In `MaybeOwned`: the traits of
`shared_ptr`, whose borrow is a plain pointer to the lender.  In `DeviceGuard`:
the registry of implementations (a constant), and code that selects a device
without a guard.  In `SizesAndStrides`: a build without asserts, in which more
than 10 dimensions are written behind the array.  In `Half`: infinite and NaN
operands of the operators, `numeric_limits`, the branches for CUDA.

The plan, in order:

1. `MaybeOwned` for `shared_ptr`; liveness of `IntrusivePtr` with a second target.
2. Infinite and NaN operands of the operators of `Half`.
