----------------------- MODULE DispatchKeySetIterator -----------------------
(***************************************************************************)
(* A client builds a DispatchKeySet with the operations of the class and   *)
(* runs `for (auto k : ks)' over it.  Every call of iterator::operator++,  *)
(* also the one it makes to itself, is a step, and so is operator*.        *)
(*                                                                         *)
(* The iterator reads the word through data_ptr_ on every increment.  The  *)
(* client does not assign to the set inside the loop.                      *)
(***************************************************************************)
EXTENDS DispatchKeySet

VARIABLES
  repr,     \* repr_: positions of the bits of the set
  it,       \* the members of the iterator other than data_ptr_
  pc,       \* "idle", "advance", "deref", or "thrown": a TORCH_CHECK failed
  yielded   \* keys the loop has seen, for the properties only

vars == <<repr, it, pc, yielded>>

end_iter_val == num_backends + num_functionality_keys
end_iter_key_val == num_functionality_keys

Iterator(next_functionality, next_backend, dispatchkey, backendcomponent) ==
  [next_functionality |-> next_functionality, next_backend |-> next_backend,
   current_dispatchkey_idx |-> dispatchkey,
   current_backendcomponent_idx |-> backendcomponent]

\* end(): what its constructor makes of (end_iter_val, 0).
End == Iterator(end_iter_val, 0, end_iter_key_val, end_iter_key_val)

-----------------------------------------------------------------------------
Init ==
  /\ \/ repr \in {{}, Full}
     \/ \E k \in DispatchKey : repr \in {FullAfter(k), KeySet(k)}
     \/ \E b \in BackendComponent : repr = BackendSet(b)
  /\ it = End
  /\ pc = "idle"
  /\ yielded = {}

\* The client assigns a new value to its set, outside of the loop.
Modify(word) ==
  /\ pc = "idle"
  /\ repr' = word
  /\ yielded' = {}
  /\ UNCHANGED <<it, pc>>

Add(k) == Modify(repr \cup KeySet(k))
AddBackend(b) == Modify(repr \cup BackendSet(b))
Remove(k) == Modify(remove(repr, k))
RemoveBackend(b) == Modify(remove_backend(repr, b))
Intersect(k) == Modify(repr \cap FullAfter(k))
Subtract(k) == Modify(Minus(repr, FullAfter(k)))
SymmetricDifference(k) ==
  Modify((repr \ KeySet(k)) \cup (KeySet(k) \ repr))

\* begin(): the constructor, up to its ++(*this).
Begin ==
  /\ pc = "idle"
  /\ it' = Iterator(num_backends, 0, end_iter_val, end_iter_key_val)
  /\ yielded' = {}
  /\ pc' = "advance"
  /\ UNCHANGED repr

-----------------------------------------------------------------------------
(* iterator::operator++.                                                    *)

Functionalities == maskTrailingZeros(it.next_functionality, repr)
Backends == maskTrailingZeros(it.next_backend, repr \cap full_backend_mask)

\* The position of the next functionality and the key it stands for.
FirstFunctionality == findFirstSet(Functionalities)
FirstKey == FirstFunctionality + 1 - num_backends

AtAKey ==
  /\ pc = "advance"
  /\ Functionalities # {} /\ it.next_functionality # end_iter_val

\* The two TORCH_CHECKs at the head of every call.
HeadChecks ==
  it.next_functionality <= end_iter_val /\ it.next_backend <= num_backends

\* A call of operator++ leaves the iterator at `next', and the loop compares
\* it with end(), unless a TORCH_CHECK fails: at its head, or the one the
\* caller asks for.
Arrive(check, next) ==
  /\ IF HeadChecks /\ check
     THEN it' = next /\ pc' = IF next = End THEN "idle" ELSE "deref"
     ELSE UNCHANGED it /\ pc' = "thrown"
  /\ UNCHANGED <<repr, yielded>>

\* No functionality is left: the iterator becomes equal to end().
ReachEnd ==
  /\ pc = "advance"
  /\ Functionalities = {} \/ it.next_functionality = end_iter_val
  /\ Arrive(TRUE, End)

\* Faulty: a functionality without a backend ends the loop.
SkipToEnd ==
  /\ AtAKey
  /\ isPerBackendFunctionalityKey(FirstKey)
  /\ Backends = {}
  /\ Arrive(TRUE, End)

\* Case 1: there is no backend to instantiate the functionality for, and the
\* call increments once more.
SkipFunctionality ==
  /\ AtAKey
  /\ isPerBackendFunctionalityKey(FirstKey)
  /\ Backends = {}
  /\ IF HeadChecks
     THEN /\ it' = [it EXCEPT !.next_functionality = FirstFunctionality + 1]
          /\ UNCHANGED pc
     ELSE UNCHANGED it /\ pc' = "thrown"
  /\ UNCHANGED <<repr, yielded>>

\* The iterator at `backend' of the current functionality.
AtBackend(next_functionality, next_backend, backend) ==
  Iterator(next_functionality, next_backend, FirstKey, backend + 1)

\* Faulty: the backend mask is kept for the next functionality.
PerBackendKeyNoReset ==
  LET first == findFirstSet(Backends)
      following == maskTrailingZeros(first + 1, repr \cap full_backend_mask) IN
  /\ AtAKey
  /\ isPerBackendFunctionalityKey(FirstKey)
  /\ Backends # {}
  /\ Arrive(TRUE,
       IF following = {} THEN AtBackend(FirstFunctionality + 1, first + 1, first)
       ELSE AtBackend(it.next_functionality, first + 1, first))

\* Faulty: the functionality is left after its first backend.
PerBackendKeyOnce ==
  LET first == findFirstSet(Backends) IN
  /\ AtAKey
  /\ isPerBackendFunctionalityKey(FirstKey)
  /\ Backends # {}
  /\ Arrive(TRUE, AtBackend(FirstFunctionality + 1, 0, first))

\* Faulty: the backend mask does not move.
PerBackendKeyStuck ==
  LET first == findFirstSet(Backends)
      following == maskTrailingZeros(first + 1, repr \cap full_backend_mask) IN
  /\ AtAKey
  /\ isPerBackendFunctionalityKey(FirstKey)
  /\ Backends # {}
  /\ Arrive(TRUE,
       IF following = {} THEN AtBackend(FirstFunctionality + 1, 0, first)
       ELSE AtBackend(it.next_functionality, it.next_backend, first))

\* Cases 2 and 3: the functionality for its next backend.  The last backend
\* moves the mask to the next functionality.
PerBackendKey ==
  LET first == findFirstSet(Backends)
      following == maskTrailingZeros(first + 1, repr \cap full_backend_mask) IN
  /\ AtAKey
  /\ isPerBackendFunctionalityKey(FirstKey)
  /\ Backends # {}
  /\ Arrive(TRUE,
       IF following = {} THEN AtBackend(FirstFunctionality + 1, 0, first)
       ELSE AtBackend(it.next_functionality, first + 1, first))

\* Faulty: the key is taken for the bit.
PlainKeyRewinds ==
  /\ AtAKey
  /\ ~isPerBackendFunctionalityKey(FirstKey)
  /\ Arrive(it.next_backend = 0,
       [it EXCEPT !.current_dispatchkey_idx = FirstKey,
                  !.next_functionality = FirstKey + 1])

\* A functionality that does not depend on the backend.  The TORCH_CHECK
\* expects that no backend of an earlier functionality is left over.
PlainKey ==
  /\ AtAKey
  /\ ~isPerBackendFunctionalityKey(FirstKey)
  /\ Arrive(it.next_backend = 0,
       [it EXCEPT !.current_dispatchkey_idx = FirstKey,
                  !.next_functionality = FirstFunctionality + 1])

\* The key the iterator stands at.
Current ==
  IF isPerBackendFunctionalityKey(it.current_dispatchkey_idx)
  THEN toRuntimePerBackendFunctionalityKey(it.current_dispatchkey_idx,
                                           it.current_backendcomponent_idx)
  ELSE it.current_dispatchkey_idx

\* operator* with its TORCH_CHECK, the body of the loop, and on to ++.
Deref ==
  /\ pc = "deref"
  /\ IF isPerBackendFunctionalityKey(it.current_dispatchkey_idx) =>
          toBackendComponent(Current) = it.current_backendcomponent_idx
     THEN yielded' = yielded \cup {Current} /\ pc' = "advance"
     ELSE UNCHANGED yielded /\ pc' = "thrown"
  /\ UNCHANGED <<repr, it>>

LoopStep ==
  ReachEnd \/ SkipFunctionality \/ PerBackendKey \/ PlainKey \/ Deref

Next ==
  \/ Begin \/ LoopStep
  \/ \E k \in DispatchKey :
       Add(k) \/ Remove(k) \/ Intersect(k) \/ Subtract(k)
         \/ SymmetricDifference(k)
  \/ \E b \in BackendComponent : AddBackend(b) \/ RemoveBackend(b)

Spec == Init /\ [][Next]_vars

\* A loop that has begun is executed to its end.
FairSpec == Spec /\ WF_vars(LoopStep)

-----------------------------------------------------------------------------
TypeOK ==
  /\ repr \subseteq Full
  /\ it \in [next_functionality : num_backends..end_iter_val,
             next_backend : 0..num_backends,
             current_dispatchkey_idx : 1..end_iter_val,
             current_backendcomponent_idx : 1..end_iter_val]
  /\ pc \in {"idle", "advance", "deref", "thrown"}
  /\ yielded \subseteq RuntimeKey

\* The runtime keys that the set contains: has() of the class is true.
Contained(word) == {k \in RuntimeKey : has(word, k)}

\* The order of priority: by functionality, and by backend within one.
Before(j, k) ==
  \/ toFunctionalityKey(j) < toFunctionalityKey(k)
  \/ /\ toFunctionalityKey(j) = toFunctionalityKey(k)
     /\ toBackendComponent(j) < toBackendComponent(k)

\* The keys a loop has still to reach: the ones behind the two masks, of which
\* the backend mask is for the first functionality only.
RemainingOf(word, next_functionality, next_backend) ==
  {k \in Contained(word) :
     LET bit == FunctionalityBit(toFunctionalityKey(k)) IN
     /\ bit >= next_functionality
     /\ bit = findFirstSet(maskTrailingZeros(next_functionality, word)) =>
          \/ ~isPerBackendFunctionalityKey(toFunctionalityKey(k))
          \/ toBackendComponent(k) > next_backend}
Remaining == RemainingOf(repr, it.next_functionality, it.next_backend)

\* No TORCH_CHECK of the iterator fails (DispatchKeySet.cpp:37, 38, 101 and
\* DispatchKeySet.h:299).
ChecksNeverFail == pc # "thrown"

\* At every point of a loop each key of the set has been seen, is at hand, or
\* is still to come, and each only one of these.
Progress ==
  /\ pc = "advance" =>
       /\ Contained(repr) = yielded \cup Remaining
       /\ yielded \cap Remaining = {}
  /\ pc = "deref" =>
       /\ Contained(repr) = yielded \cup {Current} \cup Remaining
       /\ Current \notin yielded \cup Remaining
       /\ yielded \cap Remaining = {}

\* When the loop is left, what it has seen is what has() says is in the set,
\* also when the set has a functionality without a backend, or backends only.
SeesEveryKey ==
  [][pc = "advance" /\ pc' = "idle" => yielded = Contained(repr)]_vars

\* Keys come in the order of priority, lowest first, and never again.
Ascending == pc = "deref" => \A j \in yielded : Before(j, Current)

\* The inductive invariant: the backend mask is set only for a functionality
\* that has a backend left, and what is still to come follows what was seen.
CursorInv ==
  pc \in {"advance", "deref"} =>
    /\ it.next_functionality < end_iter_val
    /\ it.next_backend # 0 =>
         /\ Functionalities # {} /\ isPerBackendFunctionalityKey(FirstKey)
         /\ Backends # {}
OrderInv ==
  /\ pc \in {"advance", "deref"} =>
       \A j \in yielded, k \in Remaining : Before(j, k)
  /\ pc = "deref" => \A k \in Remaining : Before(Current, k)

\* Behind the key at hand is the next functionality, from its first backend
\* on, or its own one from its next backend on.
AtHand ==
  pc = "deref" =>
    LET f == it.current_dispatchkey_idx
        b == it.current_backendcomponent_idx IN
    /\ f \in FunctionalityKey
    /\ isPerBackendFunctionalityKey(f) => b \in 1..num_backends
    /\ \/ it.next_functionality = FunctionalityBit(f) + 1 /\ it.next_backend = 0
       \/ /\ isPerBackendFunctionalityKey(f) /\ FirstKey = f
          /\ it.next_backend = b

\* The part that does not depend on how the loop came to where it is.
LoopInv ==
  /\ TypeOK /\ ChecksNeverFail
  /\ Ascending /\ CursorInv /\ OrderInv /\ AtHand
IInv == LoopInv /\ Progress

\* The keys have entries of the dispatch table in the order of their priority,
\* and a set is dispatched to the entry of its highest key, the last one that
\* a loop over it sees, if its highest functionality has a backend it needs:
\* this key is the instance of highestFunctionalityKey() for
\* highestBackendKey(), at getBackendIndex() behind the functionality's first
\* entry (DispatchKeySet.h:212).
TableFollowsOrder ==
  LET index == getDispatchTableIndexForDispatchKeySet(repr)
      Index(k) == getDispatchTableIndexForDispatchKeySet(KeySet(k))
      f == highestFunctionalityKey(repr) IN
  /\ index \in 0..(num_runtime_entries - 1)
  /\ \A j, k \in RuntimeKey : Before(j, k) => Index(j) < Index(k)
  /\ \A k \in Contained(repr) :
       /\ toFunctionalityKey(k) = f
       /\ \A j \in Contained(repr) \ {k} : Before(j, k)
       => /\ Index(k) = index
          /\ isPerBackendFunctionalityKey(f) =>
               /\ toRuntimePerBackendFunctionalityKey(f, highestBackendKey(repr)) = k
               /\ offsetsAndMasks[f].offset + getBackendIndex(repr) = index

\* Every loop ends.
LoopEnds == pc = "advance" ~> pc = "idle"

=============================================================================
