------------------------------ MODULE DataPtr ------------------------------
(***************************************************************************)
(* c10/util/UniqueVoidPtr.h, DataPtr and Allocator of c10/core/Allocator.h *)
(* and the CPU allocator: a DataPtr has a data pointer, which it does not  *)
(* own, and a context with the deleter that will free it.                  *)
(*                                                                         *)
(* A move takes the context out of its source and leaves the data pointer  *)
(* there, and so do release_context() and move_context().  What such a     *)
(* DataPtr shows may be gone: it is `stale', and the client does not read  *)
(* through it.                                                             *)
(*                                                                         *)
(* An allocation that fails throws and changes nothing.  Sizes matter only *)
(* as zero or not, and devices and contents of the memory are left out.    *)
(***************************************************************************)
EXTENDS Naturals

CONSTANTS
  Block,          \* memory that the allocator can return
  Local,          \* DataPtr objects of the client
  Member,         \* DataPtr objects that are members of other objects
  NULL,           \* nullptr
  cpu_deleter,    \* the deleter of the CPU allocator
  deleteNothing,  \* the deleter of a DataPtr that was given none
  ClientDeleter   \* deleters the client gives to compare_exchange_deleter

Slot == Local \cup Member
Deleter == {cpu_deleter, deleteNothing} \cup ClientDeleter

ASSUME SlotAssumption == Local \cap Member = {}
ASSUME DataNullAssumption == NULL \notin Block \cup Deleter

VARIABLES
  heap,   \* each block: "free", "held", or "corrupt" once it is freed wrongly
  due,    \* history: the deleter that each block was last given
  raw,    \* the deleter of each context the client owns by hand, or NULL
  dp,     \* the value of each DataPtr
  stale   \* history: DataPtrs whose context was taken away or never theirs

dvars == <<heap, due, raw, dp, stale>>

DataPtrValue(data, ctx, deleter) ==
  [data |-> data, ctx |-> ctx, deleter |-> deleter]
Empty == DataPtrValue(NULL, NULL, deleteNothing)

-----------------------------------------------------------------------------
DataInit ==
  /\ heap = [b \in Block |-> "free"]
  /\ due = [b \in Block |-> cpu_deleter]
  /\ raw = [b \in Block |-> NULL]
  /\ dp = [x \in Slot |-> Empty]
  /\ stale = {}

\* The deleter of a value is called with its context, if it has one.
Freed(memory, value) ==
  IF value.ctx = NULL THEN memory
  ELSE [memory EXCEPT ![value.ctx] =
          IF @ = "held" /\ value.deleter = due[value.ctx] THEN "free"
          ELSE "corrupt"]

\* alloc_cpu(): nothing for zero bytes, or a block.
Allocation == {b \in Block : heap[b] = "free" /\ raw[b] = NULL} \cup {NULL}

Held(memory, b) ==
  IF b = NULL THEN memory ELSE [memory EXCEPT ![b] = "held"]
DueTo(deleters, b) ==
  IF b = NULL THEN deleters ELSE [deleters EXCEPT ![b] = cpu_deleter]

\* x takes a value that nothing else holds, and its old context is deleted.
Take(x, value) ==
  /\ heap' = Freed(heap, dp[x])
  /\ dp' = [dp EXCEPT ![x] = value]

\* x = allocator->allocate(nbytes).
Allocate(x) ==
  \E b \in Allocation :
    /\ heap' = Freed(Held(heap, b), dp[x])
    /\ dp' = [dp EXCEPT ![x] = DataPtrValue(b, b, cpu_deleter)]
    /\ due' = DueTo(due, b)
    /\ stale' = stale \ {x}
    /\ UNCHANGED raw

\* x shows what y showed, and y shows what it does not own any more.
StaleAfterMove(x, y) ==
  (IF y \in stale THEN stale \cup {x} ELSE stale \ {x}) \cup ({y} \ {x})

\* Faulty: the deleter is moved before the old context is deleted.
MoveDeleterFirst(x, y) ==
  LET released == [dp EXCEPT ![y].ctx = NULL]
      old == [released[x] EXCEPT !.deleter = dp[y].deleter] IN
  /\ heap' = Freed(heap, old)
  /\ dp' = [released EXCEPT ![x] = dp[y]]
  /\ stale' = StaleAfterMove(x, y)
  /\ UNCHANGED <<due, raw>>

\* x = std::move(y), of the members: data_ is copied, then unique_ptr takes
\* the context of y, deletes the one of x, and takes the deleter.
Move(x, y) ==
  LET released == [dp EXCEPT ![y].ctx = NULL] IN
  /\ heap' = Freed(heap, released[x])
  /\ dp' = [released EXCEPT ![x] = dp[y]]
  /\ stale' = StaleAfterMove(x, y)
  /\ UNCHANGED <<due, raw>>

\* Faulty: the data pointer is forgotten.
ClearContext(x) ==
  /\ Take(x, DataPtrValue(dp[x].data, NULL, dp[x].deleter))
  /\ stale' = stale \ {x}
  /\ UNCHANGED <<due, raw>>

Clear(x) ==
  /\ Take(x, DataPtrValue(NULL, NULL, dp[x].deleter))
  /\ stale' = stale \ {x}
  /\ UNCHANGED <<due, raw>>

\* x ends its life.  Its place is that of a new object from now on.
Destroy(x) ==
  /\ Take(x, Empty)
  /\ stale' = stale \ {x}
  /\ UNCHANGED <<due, raw>>

\* release_context(), or a unique_ptr from move_context(): the client owns
\* the context and knows its deleter.
ReleaseContext(x) ==
  /\ dp[x].ctx # NULL
  /\ raw' = [raw EXCEPT ![dp[x].ctx] = dp[x].deleter]
  /\ dp' = [dp EXCEPT ![x].ctx = NULL]
  /\ stale' = stale \cup {x}
  /\ UNCHANGED <<heap, due>>

\* x = DataPtr(b, b, deleter, device) for a context the client owns.
Adopt(x, b) ==
  /\ raw[b] # NULL
  /\ Take(x, DataPtrValue(b, b, raw[b]))
  /\ raw' = [raw EXCEPT ![b] = NULL]
  /\ stale' = stale \ {x}
  /\ UNCHANGED due

\* x = DataPtr(y.get(), device), which owns nothing.
Alias(x, y) ==
  /\ x # y
  /\ Take(x, DataPtrValue(dp[y].data, NULL, deleteNothing))
  /\ stale' = stale \cup {x}
  /\ UNCHANGED <<due, raw>>

\* compare_exchange_deleter(expected, new).  The context goes through
\* release() and is not deleted on the way.
ExchangeDeleter(x, expected, new) ==
  /\ dp[x].deleter = expected
  /\ dp' = [dp EXCEPT ![x].deleter = new]
  /\ due' = IF dp[x].ctx = NULL THEN due ELSE [due EXCEPT ![dp[x].ctx] = new]
  /\ UNCHANGED <<heap, raw, stale>>

\* Allocator::raw_allocate(): allocate(), and the context is released from
\* the temporary DataPtr.  Its assert holds: data and context are the same.
RawAllocate(b) ==
  /\ b \in Allocation \ {NULL}
  /\ heap' = Held(heap, b)
  /\ due' = DueTo(due, b)
  /\ raw' = [raw EXCEPT ![b] = cpu_deleter]
  /\ UNCHANGED <<dp, stale>>

\* CPUAllocator::raw_deleter(): the check of raw_deallocate() holds.
raw_deleter == cpu_deleter

\* Allocator::raw_deallocate().  The client gives it what raw_allocate()
\* returned, or another context that the deleter of the allocator is for.
raw_deallocate(b) ==
  /\ raw[b] = raw_deleter
  /\ heap' = Freed(heap, DataPtrValue(b, b, raw_deleter))
  /\ raw' = [raw EXCEPT ![b] = NULL]
  /\ UNCHANGED <<due, dp, stale>>

\* The client calls the deleter that a context was released with.
RawDelete(b) ==
  /\ raw[b] # NULL
  /\ heap' = Freed(heap, DataPtrValue(b, b, raw[b]))
  /\ raw' = [raw EXCEPT ![b] = NULL]
  /\ UNCHANGED <<due, dp, stale>>

\* What a client does with its own DataPtrs.
LocalStep ==
  \/ \E x \in Local :
       \/ Allocate(x) \/ Clear(x) \/ Destroy(x) \/ ReleaseContext(x)
       \/ \E y \in Local : Move(x, y) \/ Alias(x, y)
       \/ \E b \in Block : Adopt(x, b)
       \/ \E expected, new \in Deleter \ {deleteNothing} :
            ExchangeDeleter(x, expected, new)
  \/ \E b \in Block : RawAllocate(b) \/ raw_deallocate(b) \/ RawDelete(b)

DataSpec == DataInit /\ [][LocalStep]_dvars

-----------------------------------------------------------------------------
DataTypeOK ==
  /\ heap \in [Block -> {"free", "held", "corrupt"}]
  /\ due \in [Block -> Deleter]
  /\ raw \in [Block -> Deleter \cup {NULL}]
  /\ dp \in [Slot -> [data : Block \cup {NULL}, ctx : Block \cup {NULL},
                      deleter : Deleter]]
  /\ stale \subseteq Slot

\* A block is freed once, while it is held, and by the deleter that it was
\* last given, through every sequence of moves, exchanges and releases
\* (UniqueVoidPtr.h:29, 42, 46, 56).
FreedOnceByItsDeleter == \A b \in Block : heap[b] # "corrupt"

Owns(x, b) == dp[x].ctx = b

\* A block that is held has one owner, a DataPtr or the client, and a free
\* one has none: nothing leaks and nothing is owned twice.
OneOwner ==
  \A b \in Block :
    /\ heap[b] = "held" <=> raw[b] # NULL \/ \E x \in Slot : Owns(x, b)
    /\ \A x \in Slot : Owns(x, b) =>
         raw[b] = NULL /\ \A y \in Slot \ {x} : ~Owns(y, b)

\* A DataPtr whose context was not taken away shows memory that is held.
DataIsValid ==
  \A x \in Slot \ stale : dp[x].data # NULL => heap[dp[x].data] = "held"

\* The inductive invariant: owners know the deleter of what they own, and
\* data and context of a DataPtr of the CPU allocator are the same.
DeleterInv ==
  /\ \A x \in Slot : dp[x].ctx # NULL => dp[x].deleter = due[dp[x].ctx]
  /\ \A b \in Block : raw[b] # NULL => raw[b] = due[b]
DataInv ==
  /\ DataTypeOK /\ FreedOnceByItsDeleter /\ OneOwner /\ DataIsValid
  /\ DeleterInv
  /\ \A x \in Slot \ stale : dp[x].data = dp[x].ctx

=============================================================================
