--------------------------- MODULE DispatchKeySet ---------------------------
(***************************************************************************)
(* c10/core/DispatchKey.h and c10/core/DispatchKeySet.h: the numbering of  *)
(* the dispatch keys and the operations on sets of them.                   *)
(*                                                                         *)
(* A DispatchKeySet is a word with one bit for each backend and, above     *)
(* them, one for each functionality.  Here it is the set of the positions  *)
(* of its bits, so that |, & and ~ are \cup, \cap and \, the mask          *)
(* maskTrailingZeros(n) keeps the positions >= n, and findFirstSet and     *)
(* countLeadingZeros are the least and the greatest position.              *)
(*                                                                         *)
(* The lists of backends and functionalities are X-macros and enumerators  *)
(* of the source, and parameters of this module.                           *)
(***************************************************************************)
EXTENDS Integers

CONSTANTS
  num_backends,            \* CPU, CUDA, Meta: 3
  num_functionality_keys,  \* Undefined .. AutocastCUDA: 7
  Dense,                   \* the two functionalities that exist once
  AutogradFunctionality    \* for each backend: 1 and 4

ASSUME NumBackendsAssumption == num_backends \in Nat \ {0}
ASSUME FunctionalityAssumption ==
  /\ num_functionality_keys \in Nat
  /\ Dense \in Nat \ {0} /\ AutogradFunctionality \in Nat
  /\ Dense < AutogradFunctionality
  /\ AutogradFunctionality < num_functionality_keys

-----------------------------------------------------------------------------
(* enum class DispatchKey, in the order of the enumerators.                 *)

Undefined == 0
EndOfFunctionlityKeys == num_functionality_keys
StartOfDenseBackends == EndOfFunctionlityKeys + 1
EndOfDenseBackends == StartOfDenseBackends + num_backends
StartOfAutogradFunctionalityBackends == EndOfDenseBackends + 1
EndOfRuntimeBackendKeys == StartOfAutogradFunctionalityBackends + num_backends
EndOfAliasKeys == EndOfRuntimeBackendKeys + 3

\* The enumerators a client uses.  The StartOf* ones are marks in the
\* enumeration: DispatchKeySet(StartOf*) shifts by -1.
DispatchKey ==
  (0..EndOfAliasKeys)
    \ {EndOfFunctionlityKeys, StartOfDenseBackends,
       StartOfAutogradFunctionalityBackends}
FunctionalityKey == 1..(num_functionality_keys - 1)
InvalidBit == 0
BackendComponent == 0..num_backends

isPerBackendFunctionalityKey(k) == k \in {Dense, AutogradFunctionality}

toBackendComponent(k) ==
  IF k \in StartOfDenseBackends..EndOfDenseBackends
  THEN k - StartOfDenseBackends
  ELSE IF k \in StartOfAutogradFunctionalityBackends..EndOfRuntimeBackendKeys
  THEN k - StartOfAutogradFunctionalityBackends
  ELSE InvalidBit

toFunctionalityKey(k) ==
  IF k <= EndOfFunctionlityKeys THEN k
  ELSE IF k <= EndOfDenseBackends THEN Dense
  ELSE IF k <= EndOfRuntimeBackendKeys THEN AutogradFunctionality
  ELSE Undefined

toRuntimePerBackendFunctionalityKey(f, b) ==
  IF f = Dense THEN StartOfDenseBackends + b
  ELSE IF f = AutogradFunctionality
  THEN StartOfAutogradFunctionalityBackends + b
  ELSE Undefined

\* The keys that a kernel can be registered for: a functionality, or its
\* instance for a backend.
RuntimeKey ==
  {f \in FunctionalityKey : ~isPerBackendFunctionalityKey(f)}
    \cup (StartOfDenseBackends + 1)..EndOfDenseBackends
    \cup (StartOfAutogradFunctionalityBackends + 1)..EndOfRuntimeBackendKeys

-----------------------------------------------------------------------------
(* Words of bits.                                                           *)

full_backend_mask == 0..(num_backends - 1)
FunctionalityBit(f) == num_backends + f - 1
maskTrailingZeros(n, word) == {i \in word : i >= n}
ShiftRight(word) == {i - 1 : i \in word \ {0}}

\* findFirstSet() of a word that has a bit.
findFirstSet(word) == CHOOSE i \in word : \A j \in word : i <= j
\* 64 - countLeadingZeros(), which is 0 for the empty word.
indexOfHighestBit(word) ==
  IF word = {} THEN 0 ELSE 1 + CHOOSE i \in word : \A j \in word : j <= i

-----------------------------------------------------------------------------
(* class DispatchKeySet.                                                    *)

Full == 0..(num_backends + num_functionality_keys - 2)
FullAfter(k) == 0..(num_backends + toFunctionalityKey(k) - 2)

BackendSet(b) == IF b = InvalidBit THEN {} ELSE {b - 1}

\* Alias keys have no bit.
KeySet(k) ==
  IF k = Undefined \/ k > EndOfRuntimeBackendKeys THEN {}
  ELSE IF k <= EndOfFunctionlityKeys THEN {FunctionalityBit(k)}
  ELSE {FunctionalityBit(toFunctionalityKey(k)), toBackendComponent(k) - 1}

has_all(word, other) == other \subseteq word
\* Asked of defined keys only: has(Undefined) throws.
has(word, k) == has_all(word, KeySet(k))

\* Only functionalities are taken away, and backends stay.
Minus(word, other) == word \ (other \ full_backend_mask)
remove(word, k) == Minus(word, KeySet(k))
remove_backend(word, b) == word \ BackendSet(b)

highestFunctionalityKey(word) ==
  IF indexOfHighestBit(word) < num_backends THEN Undefined
  ELSE indexOfHighestBit(word) - num_backends

highestBackendKey(word) == indexOfHighestBit(word \cap full_backend_mask)
getBackendIndex(word) ==
  indexOfHighestBit(ShiftRight(word \cap full_backend_mask))

-----------------------------------------------------------------------------
(* The dispatch table: an entry for each functionality, or one for each     *)
(* backend of it.                                                           *)

num_runtime_entries == num_functionality_keys + 2 * (num_backends - 1)

offsetsAndMasks[f \in 0..(num_functionality_keys - 1)] ==
  IF f = 0 THEN [offset |-> 0, mask |-> {}]
  ELSE LET previous == offsetsAndMasks[f - 1] IN
    [offset |-> previous.offset
                  + (IF previous.mask = {} THEN 1 ELSE num_backends),
     mask |-> IF isPerBackendFunctionalityKey(f) THEN full_backend_mask
              ELSE {}]

\* The code refuses enumerations that it has counted wrongly
\* (DispatchKeySet.cpp:26).
ASSUME RuntimeEntriesAssumption ==
  offsetsAndMasks[num_functionality_keys - 1].offset = num_runtime_entries - 1

\* Faulty: the backend bits are not shifted, CPU has the index of CUDA.
TableIndexUnshifted(word) ==
  LET entry == offsetsAndMasks[highestFunctionalityKey(word)] IN
  entry.offset + indexOfHighestBit(word \cap entry.mask)

\* That the functionality is one of the table, which is checked, is a part of
\* TableFollowsOrder.
getDispatchTableIndexForDispatchKeySet(word) ==
  LET entry == offsetsAndMasks[highestFunctionalityKey(word)] IN
  entry.offset + indexOfHighestBit(ShiftRight(word \cap entry.mask))

=============================================================================
