-------------------- MODULE DispatchKeySetIterator_proofs --------------------
(***************************************************************************)
(* For every number of backends and functionalities: a loop over a         *)
(* DispatchKeySet sees exactly the runtime keys of the set, in ascending   *)
(* order, and no TORCH_CHECK of the iterator fails.                        *)
(***************************************************************************)
EXTENDS DispatchKeySetChanges, WellFoundedInduction, TLAPS

-----------------------------------------------------------------------------
(* Keys and bits.                                                           *)

\* findFirstSet of a word that has a bit is the least of its bits.
LEMMA LeastBit ==
  ASSUME NEW word \in SUBSET Nat, word # {}
  PROVE  /\ findFirstSet(word) \in word
         /\ \A j \in word : findFirstSet(word) <= j
<1>1. PICK i \in word : \A j \in word : ~ (<<j, i>> \in OpToRel(<, Nat))
  BY NatLessThanWellFounded, WFMin
<1>2. \A j \in word : i <= j
  <2> SUFFICES ASSUME NEW j \in word PROVE i <= j
    OBVIOUS
  <2>1. i \in Nat /\ j \in Nat /\ <<j, i>> \in Nat \X Nat
    OBVIOUS
  <2>2. ~ (j < i)
    BY <1>1, <2>1 DEF OpToRel
  <2> QED
    BY <2>1, <2>2
<1> QED
  BY <1>2 DEF findFirstSet

\* A runtime key is its functionality and, if that needs one, its backend.
LEMMA KeyFacts ==
  ASSUME NEW k \in RuntimeKey
  PROVE  /\ toFunctionalityKey(k) \in FunctionalityKey
         /\ toBackendComponent(k) \in BackendComponent
         /\ isPerBackendFunctionalityKey(toFunctionalityKey(k)) =>
              /\ toBackendComponent(k) # InvalidBit
              /\ k = toRuntimePerBackendFunctionalityKey(
                       toFunctionalityKey(k), toBackendComponent(k))
              /\ KeySet(k) = {FunctionalityBit(toFunctionalityKey(k)),
                              toBackendComponent(k) - 1}
         /\ ~isPerBackendFunctionalityKey(toFunctionalityKey(k)) =>
              /\ k = toFunctionalityKey(k)
              /\ KeySet(k) = {FunctionalityBit(k)}
BY NumBackendsAssumption, FunctionalityAssumption
DEF RuntimeKey, toFunctionalityKey, toBackendComponent, FunctionalityKey,
    BackendComponent, isPerBackendFunctionalityKey, InvalidBit, KeySet,
    toRuntimePerBackendFunctionalityKey, StartOfDenseBackends,
    EndOfDenseBackends, StartOfAutogradFunctionalityBackends,
    EndOfRuntimeBackendKeys, EndOfFunctionlityKeys, Undefined

\* The instance of a functionality for a backend is a runtime key.
LEMMA BackendKeyFacts ==
  ASSUME NEW f \in FunctionalityKey, isPerBackendFunctionalityKey(f),
         NEW b \in 1..num_backends,
         NEW k, k = toRuntimePerBackendFunctionalityKey(f, b)
  PROVE  k \in RuntimeKey /\ toFunctionalityKey(k) = f
           /\ toBackendComponent(k) = b
BY NumBackendsAssumption, FunctionalityAssumption
DEF RuntimeKey, toFunctionalityKey, toBackendComponent, FunctionalityKey,
    isPerBackendFunctionalityKey,
    toRuntimePerBackendFunctionalityKey, StartOfDenseBackends,
    EndOfDenseBackends, StartOfAutogradFunctionalityBackends,
    EndOfRuntimeBackendKeys, EndOfFunctionlityKeys, Undefined, InvalidBit

\* Any other functionality is a runtime key itself.
LEMMA PlainKeyFacts ==
  ASSUME NEW f \in FunctionalityKey, ~isPerBackendFunctionalityKey(f)
  PROVE  f \in RuntimeKey /\ toFunctionalityKey(f) = f
BY FunctionalityAssumption
DEF RuntimeKey, toFunctionalityKey, FunctionalityKey, EndOfFunctionlityKeys

\* has() of a runtime key, in terms of bits.
LEMMA ContainedFacts ==
  ASSUME NEW word, NEW k \in RuntimeKey
  PROVE  k \in Contained(word) <=>
           /\ FunctionalityBit(toFunctionalityKey(k)) \in word
           /\ isPerBackendFunctionalityKey(toFunctionalityKey(k)) =>
                toBackendComponent(k) - 1 \in word
BY KeyFacts DEF Contained, has, has_all

\* The operations of the class yield words without stray bits.
LEMMA WordFacts ==
  /\ Full \subseteq Nat
  /\ \A k \in DispatchKey : KeySet(k) \subseteq Full /\ FullAfter(k) \subseteq Full
  /\ \A b \in BackendComponent : BackendSet(b) \subseteq Full
<1>1. Full \subseteq Nat
  BY NumBackendsAssumption, FunctionalityAssumption DEF Full
<1>2. ASSUME NEW k \in DispatchKey
      PROVE KeySet(k) \subseteq Full
  BY NumBackendsAssumption, FunctionalityAssumption
  DEF DispatchKey, KeySet, Full, FunctionalityBit, toFunctionalityKey,
      toBackendComponent, InvalidBit, StartOfDenseBackends, EndOfDenseBackends,
      StartOfAutogradFunctionalityBackends, EndOfRuntimeBackendKeys,
      EndOfFunctionlityKeys, Undefined, EndOfAliasKeys
<1>3. ASSUME NEW k \in DispatchKey
      PROVE FullAfter(k) \subseteq Full
  BY NumBackendsAssumption, FunctionalityAssumption
  DEF DispatchKey, FullAfter, Full, toFunctionalityKey,
      StartOfDenseBackends, EndOfDenseBackends,
      StartOfAutogradFunctionalityBackends, EndOfRuntimeBackendKeys,
      EndOfFunctionlityKeys, Undefined, EndOfAliasKeys
<1>4. ASSUME NEW b \in BackendComponent
      PROVE BackendSet(b) \subseteq Full
  BY NumBackendsAssumption, FunctionalityAssumption
  DEF BackendComponent, BackendSet, Full, InvalidBit
<1> QED
  BY <1>1, <1>2, <1>3, <1>4

-----------------------------------------------------------------------------
(* What the four outcomes of operator++ take from the remaining keys.       *)

\* The first functionality at or above a position of the cursor.
Cursor(word, n, first, f) ==
  /\ word \in SUBSET Full
  /\ n \in num_backends..(end_iter_val - 1)
  /\ first = findFirstSet(maskTrailingZeros(n, word))
  /\ maskTrailingZeros(n, word) # {}
  /\ f = first + 1 - num_backends

\* Such a position is the bit of a functionality, and the next one above it.
LEMMA CursorFacts ==
  ASSUME NEW word, NEW n, NEW first, NEW f, Cursor(word, n, first, f)
  PROVE  /\ first \in word /\ first \in Int /\ n <= first
         /\ \A i \in word : n <= i => first <= i
         /\ f \in FunctionalityKey /\ first = FunctionalityBit(f)
         /\ first + 1 \in num_backends..(end_iter_val - 1)
<1>1. maskTrailingZeros(n, word) \in SUBSET Nat
  BY WordFacts DEF Cursor, maskTrailingZeros
<1>2. /\ first \in maskTrailingZeros(n, word)
      /\ \A j \in maskTrailingZeros(n, word) : first <= j
  BY <1>1, LeastBit DEF Cursor
<1>3. first \in word /\ first \in Full /\ n <= first
  BY <1>2 DEF Cursor, maskTrailingZeros
<1> QED
  BY <1>2, <1>3, NumBackendsAssumption, FunctionalityAssumption
  DEF Cursor, maskTrailingZeros, FunctionalityKey, FunctionalityBit, Full,
      end_iter_val

\* Membership of the remaining keys without the CHOOSE.
LEMMA RemainingFacts ==
  ASSUME NEW word, NEW n, NEW first, NEW f, Cursor(word, n, first, f),
         NEW nb, NEW k
  PROVE  k \in RemainingOf(word, n, nb) <=>
           /\ k \in RuntimeKey /\ k \in Contained(word)
           /\ toFunctionalityKey(k) >= f
           /\ toFunctionalityKey(k) = f =>
                ~isPerBackendFunctionalityKey(f) \/ toBackendComponent(k) > nb
<1>1. k \in Contained(word) => k \in RuntimeKey
  BY DEF Contained
<1> SUFFICES ASSUME k \in RuntimeKey, k \in Contained(word)
             PROVE  k \in RemainingOf(word, n, nb) <=>
                      /\ toFunctionalityKey(k) >= f
                      /\ toFunctionalityKey(k) = f =>
                           \/ ~isPerBackendFunctionalityKey(f)
                           \/ toBackendComponent(k) > nb
  BY <1>1 DEF RemainingOf
<1> DEFINE bit == FunctionalityBit(toFunctionalityKey(k))
<1>2. toFunctionalityKey(k) \in FunctionalityKey /\ bit \in word
  BY KeyFacts, ContainedFacts
<1>3. k \in RemainingOf(word, n, nb) <=>
        /\ bit >= n
        /\ bit = first =>
             \/ ~isPerBackendFunctionalityKey(toFunctionalityKey(k))
             \/ toBackendComponent(k) > nb
  BY DEF RemainingOf, Cursor
<1>4. n \in Int /\ bit \in Int
  <2>1. bit \in Full
    BY <1>2 DEF Cursor
  <2>2. n \in num_backends..(end_iter_val - 1)
    BY DEF Cursor
  <2> QED
    <3>1. n \in Int
      BY <2>2, NumBackendsAssumption, FunctionalityAssumption DEF end_iter_val
    <3>2. bit \in Nat
      BY <2>1, WordFacts
    <3> QED
      BY <3>1, <3>2
<1>5. f \in FunctionalityKey /\ first = FunctionalityBit(f) /\ n <= first
        /\ (bit >= n => first <= bit)
  BY <1>2, <1>4, CursorFacts
<1>6. (bit >= n <=> toFunctionalityKey(k) >= f)
        /\ (bit = first <=> toFunctionalityKey(k) = f)
  BY <1>2, <1>4, <1>5, NumBackendsAssumption, FunctionalityAssumption
  DEF FunctionalityBit, FunctionalityKey
<1> QED
  BY <1>3, <1>6

\* Above the first functionality all of its keys are passed.
LEMMA RemainingAbove ==
  ASSUME NEW word, NEW n, NEW first, NEW f, Cursor(word, n, first, f), NEW k
  PROVE  k \in RemainingOf(word, first + 1, 0) <=>
           /\ k \in RuntimeKey /\ k \in Contained(word)
           /\ toFunctionalityKey(k) > f
<1>1. k \in Contained(word) => k \in RuntimeKey
  BY DEF Contained
<1> SUFFICES ASSUME k \in RuntimeKey, k \in Contained(word)
             PROVE  k \in RemainingOf(word, first + 1, 0)
                      <=> toFunctionalityKey(k) > f
  BY <1>1 DEF RemainingOf
<1>2. /\ toFunctionalityKey(k) \in FunctionalityKey
      /\ toBackendComponent(k) \in BackendComponent
      /\ isPerBackendFunctionalityKey(toFunctionalityKey(k)) =>
           toBackendComponent(k) # InvalidBit
  BY KeyFacts
<1>3. isPerBackendFunctionalityKey(toFunctionalityKey(k)) =>
        toBackendComponent(k) > 0
  BY <1>2, NumBackendsAssumption DEF BackendComponent, InvalidBit
<1>4. k \in RemainingOf(word, first + 1, 0)
        <=> FunctionalityBit(toFunctionalityKey(k)) >= first + 1
  BY <1>3 DEF RemainingOf
<1>5. f \in FunctionalityKey /\ first = FunctionalityBit(f)
  BY CursorFacts
<1> QED
  BY <1>2, <1>4, <1>5, NumBackendsAssumption, FunctionalityAssumption
  DEF FunctionalityBit, FunctionalityKey

\* Nothing is left beyond the last functionality.
LEMMA RemainingAtEnd ==
  ASSUME NEW word, NEW n, maskTrailingZeros(n, word) = {}, NEW nb
  PROVE  RemainingOf(word, n, nb) = {}
<1> SUFFICES ASSUME NEW k \in RemainingOf(word, n, nb)
             PROVE  FALSE
  OBVIOUS
<1>1. k \in RuntimeKey /\ k \in Contained(word)
        /\ FunctionalityBit(toFunctionalityKey(k)) >= n
  BY DEF RemainingOf, Contained
<1> QED
  BY <1>1, ContainedFacts DEF maskTrailingZeros

\* A functionality without a backend has no key in the set.
LEMMA RemainingSkip ==
  ASSUME NEW word, NEW n, NEW first, NEW f, Cursor(word, n, first, f),
         isPerBackendFunctionalityKey(f), word \cap full_backend_mask = {}
  PROVE  RemainingOf(word, n, 0) = RemainingOf(word, first + 1, 0)
<1>1. f \in FunctionalityKey
  BY CursorFacts
<1> SUFFICES ASSUME NEW k
             PROVE k \in RemainingOf(word, n, 0)
                     <=> k \in RemainingOf(word, first + 1, 0)
  OBVIOUS
<1>2. ASSUME k \in RuntimeKey, k \in Contained(word) PROVE toFunctionalityKey(k) # f
  <2> SUFFICES ASSUME toFunctionalityKey(k) = f PROVE FALSE
    OBVIOUS
  <2>1. toBackendComponent(k) - 1 \in word
    BY <1>2, ContainedFacts
  <2>2. toBackendComponent(k) \in 1..num_backends
    BY <1>2, KeyFacts, NumBackendsAssumption DEF BackendComponent, InvalidBit
  <2> QED
    BY <2>1, <2>2, NumBackendsAssumption DEF full_backend_mask
<1>3. k \in RuntimeKey => toFunctionalityKey(k) \in Int
  BY KeyFacts, FunctionalityAssumption DEF FunctionalityKey
<1>4. k \in RemainingOf(word, n, 0) <=>
        /\ k \in RuntimeKey /\ k \in Contained(word)
        /\ toFunctionalityKey(k) >= f
        /\ toFunctionalityKey(k) = f =>
             ~isPerBackendFunctionalityKey(f) \/ toBackendComponent(k) > 0
  BY RemainingFacts
<1>5. k \in RemainingOf(word, first + 1, 0) <=>
        /\ k \in RuntimeKey /\ k \in Contained(word)
        /\ toFunctionalityKey(k) > f
  BY RemainingAbove
<1> QED
  BY <1>1, <1>2, <1>3, <1>4, <1>5, FunctionalityAssumption DEF FunctionalityKey

\* What an increment does to the remaining keys: it takes k, the first of them.
Takes(word, k, old, new) ==
  /\ k \in Contained(word)
  /\ old = {k} \cup new
  /\ k \notin new
  /\ \A j \in new : Before(k, j)

\* A functionality that is a key itself.
LEMMA RemainingPlain ==
  ASSUME NEW word, NEW n, NEW first, NEW f, Cursor(word, n, first, f),
         ~isPerBackendFunctionalityKey(f)
  PROVE  Takes(word, f, RemainingOf(word, n, 0), RemainingOf(word, first + 1, 0))
<1>1. /\ f \in FunctionalityKey /\ f \in Int /\ f \in RuntimeKey
      /\ toFunctionalityKey(f) = f /\ f \in Contained(word)
  BY CursorFacts, PlainKeyFacts, ContainedFacts DEF FunctionalityKey
<1>2. ASSUME NEW k
      PROVE  /\ k \in RemainingOf(word, n, 0) <=>
                  k \in RuntimeKey /\ k \in Contained(word)
                    /\ toFunctionalityKey(k) >= f
             /\ k \in RemainingOf(word, first + 1, 0) <=>
                  k \in RuntimeKey /\ k \in Contained(word)
                    /\ toFunctionalityKey(k) > f
             /\ k \in RuntimeKey => toFunctionalityKey(k) \in Int
             /\ k \in RuntimeKey /\ toFunctionalityKey(k) = f => k = f
  BY RemainingFacts, RemainingAbove, KeyFacts DEF FunctionalityKey
<1>3. f \notin RemainingOf(word, first + 1, 0)
        /\ \A j \in RemainingOf(word, first + 1, 0) : Before(f, j)
  BY <1>1, <1>2 DEF Before
<1>4. RemainingOf(word, n, 0) = {f} \cup RemainingOf(word, first + 1, 0)
  BY <1>1, <1>2
<1> QED
  BY <1>1, <1>3, <1>4 DEF Takes

\* `b' is the bit of the first backend of the word at or above position nb.
BackendCursor(word, nb, b) ==
  /\ nb \in 0..num_backends
  /\ b \in word \cap full_backend_mask /\ nb <= b
  /\ \A i \in word \cap full_backend_mask : nb <= i => b <= i

\* The remaining keys, by functionality and backend.
LEMMA RemainingBackends ==
  ASSUME NEW word, NEW n, NEW first, NEW f, Cursor(word, n, first, f),
         isPerBackendFunctionalityKey(f), NEW nb, NEW b, BackendCursor(word, nb, b),
         NEW key, key = toRuntimePerBackendFunctionalityKey(f, b + 1)
  PROVE  /\ f \in Int /\ b \in Int /\ nb \in Int
         /\ b + 1 \in 1..num_backends
         /\ key \in RuntimeKey /\ key \in Contained(word)
         /\ toFunctionalityKey(key) = f /\ toBackendComponent(key) = b + 1
         /\ \A k \in RuntimeKey :
              /\ toFunctionalityKey(k) \in Int /\ toBackendComponent(k) \in Int
              /\ toFunctionalityKey(k) = f /\ toBackendComponent(k) = b + 1
                   => k = key
              /\ k \in Contained(word) /\ toFunctionalityKey(k) = f
                   /\ toBackendComponent(k) > nb => toBackendComponent(k) >= b + 1
<1>1. /\ f \in FunctionalityKey /\ f \in Int /\ first \in word
      /\ first = FunctionalityBit(f)
  BY CursorFacts DEF FunctionalityKey
<1>2. b \in 0..(num_backends - 1) /\ b \in word /\ nb \in Int /\ nb <= b
  BY NumBackendsAssumption DEF BackendCursor, full_backend_mask
<1>3. b + 1 \in 1..num_backends /\ b \in Int
  BY <1>2, NumBackendsAssumption
<1>4. /\ key \in RuntimeKey /\ toFunctionalityKey(key) = f
      /\ toBackendComponent(key) = b + 1
  BY <1>1, <1>3, BackendKeyFacts
<1>5. key \in Contained(word)
  <2>1. toBackendComponent(key) - 1 = b
    BY <1>3, <1>4
  <2> QED
    BY <1>1, <1>2, <1>4, <2>1, ContainedFacts
<1>6. ASSUME NEW k \in RuntimeKey
      PROVE  /\ toFunctionalityKey(k) \in Int /\ toBackendComponent(k) \in Int
             /\ toFunctionalityKey(k) = f /\ toBackendComponent(k) = b + 1
                  => k = key
             /\ k \in Contained(word) /\ toFunctionalityKey(k) = f
                  /\ toBackendComponent(k) > nb => toBackendComponent(k) >= b + 1
  <2>1. /\ toFunctionalityKey(k) \in FunctionalityKey
        /\ toBackendComponent(k) \in BackendComponent
        /\ toFunctionalityKey(k) = f =>
             k = toRuntimePerBackendFunctionalityKey(f, toBackendComponent(k))
    BY KeyFacts
  <2>2. toFunctionalityKey(k) \in Int /\ toBackendComponent(k) \in 0..num_backends
    BY <2>1 DEF FunctionalityKey, BackendComponent
  <2>3. ASSUME k \in Contained(word), toFunctionalityKey(k) = f,
               toBackendComponent(k) > nb
        PROVE  toBackendComponent(k) >= b + 1
    <3> DEFINE i == toBackendComponent(k) - 1
    <3>1. i \in word
      BY <2>3, ContainedFacts
    <3>2. nb <= i /\ i \in full_backend_mask
      BY <2>2, <2>3, NumBackendsAssumption DEF BackendCursor, full_backend_mask
    <3>3. b <= i
      BY <3>1, <3>2 DEF BackendCursor
    <3> QED
      BY <1>3, <2>2, <3>3
  <2> QED
    BY <2>1, <2>2, <2>3
<1> QED
  BY <1>1, <1>2, <1>3, <1>4, <1>5, <1>6

\* The last backend of a functionality.
LEMMA RemainingLast ==
  ASSUME NEW word, NEW n, NEW first, NEW f, Cursor(word, n, first, f),
         isPerBackendFunctionalityKey(f), NEW nb, NEW b, BackendCursor(word, nb, b),
         maskTrailingZeros(b + 1, word \cap full_backend_mask) = {},
         NEW key, key = toRuntimePerBackendFunctionalityKey(f, b + 1)
  PROVE  Takes(word, key,
               RemainingOf(word, n, nb), RemainingOf(word, first + 1, 0))
<1>1. /\ f \in Int /\ b \in Int /\ nb \in Int /\ nb <= b
      /\ key \in RuntimeKey /\ key \in Contained(word)
      /\ toFunctionalityKey(key) = f /\ toBackendComponent(key) = b + 1
  BY RemainingBackends DEF BackendCursor
<1>2. ASSUME NEW k \in RuntimeKey
      PROVE  /\ toFunctionalityKey(k) \in Int /\ toBackendComponent(k) \in Int
             /\ toFunctionalityKey(k) = f /\ toBackendComponent(k) = b + 1
                  => k = key
             /\ k \in Contained(word) /\ toFunctionalityKey(k) = f
                  /\ toBackendComponent(k) > nb => toBackendComponent(k) >= b + 1
  BY RemainingBackends
<1>3. ASSUME NEW k \in RuntimeKey, k \in Contained(word),
             toFunctionalityKey(k) = f
      PROVE  toBackendComponent(k) <= b + 1
  <2> SUFFICES ASSUME toBackendComponent(k) > b + 1 PROVE FALSE
    BY <1>1, <1>2
  <2> DEFINE i == toBackendComponent(k) - 1
  <2>1. i \in word
    BY <1>3, ContainedFacts
  <2>2. toBackendComponent(k) \in BackendComponent
    BY KeyFacts
  <2>3. i \in full_backend_mask /\ i >= b + 1
    <3>1. b \in 0..(num_backends - 1)
      BY DEF BackendCursor, full_backend_mask
    <3> QED
      BY <1>1, <1>2, <2>2, <3>1, NumBackendsAssumption
      DEF BackendComponent, full_backend_mask
  <2> QED
    BY <2>1, <2>3 DEF maskTrailingZeros
<1>4. ASSUME NEW k
      PROVE  /\ k \in RemainingOf(word, n, nb) <=>
                  /\ k \in RuntimeKey /\ k \in Contained(word)
                  /\ toFunctionalityKey(k) >= f
                  /\ toFunctionalityKey(k) = f => toBackendComponent(k) > nb
             /\ k \in RemainingOf(word, first + 1, 0) <=>
                  k \in RuntimeKey /\ k \in Contained(word)
                    /\ toFunctionalityKey(k) > f
  BY RemainingFacts, RemainingAbove
<1>5. key \notin RemainingOf(word, first + 1, 0)
        /\ \A j \in RemainingOf(word, first + 1, 0) : Before(key, j)
  BY <1>1, <1>4 DEF Before
<1>6. ASSUME NEW k
      PROVE  k \in RemainingOf(word, n, nb)
               <=> k = key \/ k \in RemainingOf(word, first + 1, 0)
  <2>1. ASSUME k \in RemainingOf(word, n, nb)
        PROVE  k = key \/ k \in RemainingOf(word, first + 1, 0)
    <3>1. /\ k \in RuntimeKey /\ k \in Contained(word)
          /\ toFunctionalityKey(k) >= f
          /\ toFunctionalityKey(k) = f => toBackendComponent(k) > nb
      BY <2>1, <1>4
    <3>2. toFunctionalityKey(k) = f => toBackendComponent(k) = b + 1
      BY <1>1, <1>2, <1>3, <3>1
    <3> QED
      BY <1>1, <1>2, <1>4, <3>1, <3>2
  <2>2. key \in RemainingOf(word, n, nb)
    BY <1>1, <1>4
  <2>3. k \in RemainingOf(word, first + 1, 0) => k \in RemainingOf(word, n, nb)
    BY <1>1, <1>2, <1>4
  <2> QED
    BY <2>1, <2>2, <2>3
<1> QED
  BY <1>1, <1>5, <1>6 DEF Takes

\* A backend that another one follows.
LEMMA RemainingNext ==
  ASSUME NEW word, NEW n, NEW first, NEW f, Cursor(word, n, first, f),
         isPerBackendFunctionalityKey(f), NEW nb, NEW b, BackendCursor(word, nb, b),
         NEW key, key = toRuntimePerBackendFunctionalityKey(f, b + 1)
  PROVE  Takes(word, key,
               RemainingOf(word, n, nb), RemainingOf(word, n, b + 1))
<1>1. /\ f \in Int /\ b \in Int /\ nb \in Int /\ nb <= b
      /\ key \in RuntimeKey /\ key \in Contained(word)
      /\ toFunctionalityKey(key) = f /\ toBackendComponent(key) = b + 1
  BY RemainingBackends DEF BackendCursor
<1>2. ASSUME NEW k \in RuntimeKey
      PROVE  /\ toFunctionalityKey(k) \in Int /\ toBackendComponent(k) \in Int
             /\ toFunctionalityKey(k) = f /\ toBackendComponent(k) = b + 1
                  => k = key
             /\ k \in Contained(word) /\ toFunctionalityKey(k) = f
                  /\ toBackendComponent(k) > nb => toBackendComponent(k) >= b + 1
  BY RemainingBackends
<1>3. ASSUME NEW k, NEW m \in {nb, b + 1}
      PROVE  k \in RemainingOf(word, n, m) <=>
               /\ k \in RuntimeKey /\ k \in Contained(word)
               /\ toFunctionalityKey(k) >= f
               /\ toFunctionalityKey(k) = f => toBackendComponent(k) > m
  BY RemainingFacts
<1>4. key \notin RemainingOf(word, n, b + 1)
        /\ \A j \in RemainingOf(word, n, b + 1) : Before(key, j)
  <2>1. key \notin RemainingOf(word, n, b + 1)
    BY <1>1, <1>3
  <2>2. ASSUME NEW j \in RemainingOf(word, n, b + 1) PROVE Before(key, j)
    <3>1. /\ j \in RuntimeKey /\ toFunctionalityKey(j) >= f
          /\ toFunctionalityKey(j) = f => toBackendComponent(j) > b + 1
      BY <1>3
    <3> QED
      BY <1>1, <1>2, <3>1 DEF Before
  <2> QED
    BY <2>1, <2>2
<1>5. ASSUME NEW k
      PROVE  k \in RemainingOf(word, n, nb)
               <=> k = key \/ k \in RemainingOf(word, n, b + 1)
  <2>1. ASSUME k \in RemainingOf(word, n, nb)
        PROVE  k = key \/ k \in RemainingOf(word, n, b + 1)
    <3>1. /\ k \in RuntimeKey /\ k \in Contained(word)
          /\ toFunctionalityKey(k) >= f
          /\ toFunctionalityKey(k) = f => toBackendComponent(k) > nb
      BY <2>1, <1>3
    <3>2. toFunctionalityKey(k) = f =>
            toBackendComponent(k) = b + 1 \/ toBackendComponent(k) > b + 1
      BY <1>1, <1>2, <3>1
    <3> QED
      BY <1>1, <1>2, <1>3, <3>1, <3>2
  <2>2. key \in RemainingOf(word, n, nb)
    BY <1>1, <1>3
  <2>3. k \in RemainingOf(word, n, b + 1) => k \in RemainingOf(word, n, nb)
    BY <1>1, <1>2, <1>3
  <2> QED
    BY <2>1, <2>2, <2>3
<1> QED
  BY <1>1, <1>4, <1>5 DEF Takes

-----------------------------------------------------------------------------
(* The invariant of the loop.                                               *)

\* A loop that begins has every key of the set before it.
LEMMA RemainingAll ==
  ASSUME NEW word
  PROVE  RemainingOf(word, num_backends, 0) = Contained(word)
<1> SUFFICES ASSUME NEW k \in Contained(word)
             PROVE  k \in RemainingOf(word, num_backends, 0)
  BY DEF RemainingOf
<1>1. k \in RuntimeKey
  BY DEF Contained
<1>2. /\ toFunctionalityKey(k) \in FunctionalityKey
      /\ isPerBackendFunctionalityKey(toFunctionalityKey(k)) =>
           toBackendComponent(k) \in 1..num_backends
  BY <1>1, KeyFacts, NumBackendsAssumption DEF BackendComponent, InvalidBit
<1>3. FunctionalityBit(toFunctionalityKey(k)) >= num_backends
  BY <1>2, NumBackendsAssumption, FunctionalityAssumption
  DEF FunctionalityBit, FunctionalityKey
<1>4. ASSUME isPerBackendFunctionalityKey(toFunctionalityKey(k))
      PROVE  toBackendComponent(k) > 0
  <2>1. toBackendComponent(k) \in 1..num_backends
    BY <1>2, <1>4
  <2> QED
    BY <2>1, NumBackendsAssumption
<1> QED
  BY <1>3, <1>4 DEF RemainingOf

\* The cursor of an iterator that has not reached the end.
LEMMA AtAKeyFacts ==
  ASSUME LoopInv, AtAKey
  PROVE  /\ Cursor(repr, it.next_functionality, FirstFunctionality, FirstKey)
         /\ FirstFunctionality + 1 \in num_backends..(end_iter_val - 1)
         /\ FirstKey \in FunctionalityKey
<1>1. Cursor(repr, it.next_functionality, FirstFunctionality, FirstKey)
  BY NumBackendsAssumption, FunctionalityAssumption
  DEF LoopInv, TypeOK, CursorInv, AtAKey, Cursor, FirstFunctionality, FirstKey,
      Functionalities, end_iter_val
<1> QED
  BY <1>1, CursorFacts

\* The backend that an increment finds, if there is one.
LEMMA BackendsFacts ==
  ASSUME LoopInv, Backends # {}
  PROVE  /\ BackendCursor(repr, it.next_backend, findFirstSet(Backends))
         /\ findFirstSet(Backends) + 1 \in 1..num_backends
<1>1. Backends \in SUBSET Nat
  BY NumBackendsAssumption DEF Backends, maskTrailingZeros, full_backend_mask
<1>2. /\ findFirstSet(Backends) \in Backends
      /\ \A j \in Backends : findFirstSet(Backends) <= j
  BY <1>1, LeastBit
<1>3. /\ findFirstSet(Backends) \in repr \cap full_backend_mask
      /\ findFirstSet(Backends) >= it.next_backend
      /\ \A j \in repr \cap full_backend_mask :
           j >= it.next_backend => findFirstSet(Backends) <= j
  BY <1>2 DEF Backends, maskTrailingZeros
<1>4. /\ it.next_backend \in 0..num_backends
      /\ full_backend_mask \subseteq Int
      /\ \A j \in full_backend_mask : j + 1 \in 1..num_backends
  BY NumBackendsAssumption DEF LoopInv, TypeOK, full_backend_mask
<1>5. it.next_backend \in Int
  BY <1>4, NumBackendsAssumption
<1> QED
  BY <1>3, <1>4, <1>5 DEF BackendCursor

\* The members of an iterator.
LEMMA IteratorFields ==
  ASSUME NEW a, NEW b, NEW c, NEW d
  PROVE  /\ Iterator(a, b, c, d).next_functionality = a
         /\ Iterator(a, b, c, d).next_backend = b
         /\ Iterator(a, b, c, d).current_dispatchkey_idx = c
         /\ Iterator(a, b, c, d).current_backendcomponent_idx = d
BY DEF Iterator

\* end() stands at end_iter_val.
LEMMA EndFields == End.next_functionality = end_iter_val
BY DEF End, Iterator

\* The checks at the head of operator++ hold.
LEMMA HeadChecksHold == LoopInv => HeadChecks
BY NumBackendsAssumption, FunctionalityAssumption
DEF HeadChecks, LoopInv, TypeOK, end_iter_val

\* So a call that makes no check of its own leaves the iterator at `next'.
LEMMA ArriveFacts ==
  ASSUME LoopInv, NEW next, Arrive(TRUE, next)
  PROVE  /\ it' = next /\ pc' = (IF next = End THEN "idle" ELSE "deref")
         /\ UNCHANGED <<repr, yielded>>
BY HeadChecksHold DEF Arrive

\* Nothing is claimed of a client outside of the loop but the word itself.
LEMMA IdleInv ==
  ASSUME TypeOK', pc' = "idle"
  PROVE  LoopInv' /\ Progress'
BY DEF LoopInv, ChecksNeverFail, Progress, Ascending, CursorInv, OrderInv, AtHand

\* An increment that takes the first of the remaining keys.
LEMMA TakeStep ==
  ASSUME LoopInv, pc = "advance", pc' = "deref", UNCHANGED <<repr, yielded>>,
         Takes(repr, Current', Remaining, Remaining'),
         TypeOK', CursorInv', AtHand'
  PROVE  LoopInv'
<1> DEFINE key == Current'
           old == Remaining
           new == Remaining'
<1>1. \A j \in yielded, k \in old : Before(j, k)
  BY DEF LoopInv, OrderInv
<1>2. key \in old /\ old = {key} \cup new /\ \A k \in new : Before(key, k)
  BY DEF Takes
<1>3. Ascending'
  BY <1>1, <1>2 DEF Ascending
<1>4. OrderInv'
  BY <1>1, <1>2 DEF OrderInv
<1> QED
  BY <1>3, <1>4 DEF LoopInv, ChecksNeverFail

\* One lemma for each step of the loop: begin() has every key before it.
LEMMA BeginStep ==
  ASSUME repr \subseteq Full, Begin
  PROVE  LoopInv' /\ Progress' /\ Remaining' = Contained(repr)
<1>1. /\ repr' = repr /\ yielded' = {} /\ pc' = "advance"
      /\ it'.next_functionality = num_backends /\ it'.next_backend = 0
  BY IteratorFields DEF Begin
<1>2. TypeOK'
  BY NumBackendsAssumption, FunctionalityAssumption
  DEF TypeOK, Begin, Iterator, end_iter_val, end_iter_key_val
<1>3. Remaining' = Contained(repr')
  BY <1>1, RemainingAll DEF Remaining
<1>4. CursorInv'
  BY <1>1, NumBackendsAssumption, FunctionalityAssumption
  DEF CursorInv, end_iter_val
<1> QED
  BY <1>1, <1>2, <1>3, <1>4
  DEF LoopInv, ChecksNeverFail, Progress, Ascending, OrderInv, AtHand

\* The call that finds no functionality leaves nothing behind.
LEMMA ReachEndStep ==
  ASSUME LoopInv, ReachEnd
  PROVE  /\ LoopInv' /\ Remaining = {}
         /\ pc = "advance" /\ pc' = "idle" /\ UNCHANGED <<repr, yielded>>
<1>1. it' = End /\ pc = "advance" /\ pc' = "idle" /\ UNCHANGED <<repr, yielded>>
  BY ArriveFacts DEF ReachEnd
<1>2. TypeOK'
  BY <1>1, NumBackendsAssumption, FunctionalityAssumption
  DEF LoopInv, TypeOK, End, Iterator, end_iter_val, end_iter_key_val
<1>3. Functionalities = {}
  BY NumBackendsAssumption, FunctionalityAssumption
  DEF ReachEnd, LoopInv, TypeOK, CursorInv, end_iter_val
<1>4. Remaining = {}
  BY <1>3, RemainingAtEnd DEF Functionalities, Remaining
<1> QED
  BY <1>1, <1>2, <1>4, IdleInv

\* The skipped functionality has no key in the set.
LEMMA SkipFunctionalityStep ==
  ASSUME LoopInv, SkipFunctionality
  PROVE  /\ LoopInv' /\ Remaining' = Remaining
         /\ pc = "advance" /\ UNCHANGED <<repr, pc, yielded>>
<1>1. /\ Cursor(repr, it.next_functionality, FirstFunctionality, FirstKey)
      /\ FirstFunctionality + 1 \in num_backends..(end_iter_val - 1)
  BY AtAKeyFacts DEF SkipFunctionality
<1>2. /\ pc = "advance" /\ UNCHANGED <<repr, pc, yielded>>
      /\ it'.next_functionality = FirstFunctionality + 1
      /\ it'.next_backend = it.next_backend
      /\ isPerBackendFunctionalityKey(FirstKey) /\ Backends = {}
  BY HeadChecksHold DEF SkipFunctionality, AtAKey, LoopInv, TypeOK
<1>3. it.next_backend = 0
  BY <1>2 DEF LoopInv, CursorInv
<1>4. repr \cap full_backend_mask = {}
  BY <1>2, <1>3, NumBackendsAssumption
  DEF Backends, maskTrailingZeros, full_backend_mask
<1>5. Remaining' = Remaining
  BY <1>1, <1>2, <1>3, <1>4, RemainingSkip DEF Remaining
<1>6. TypeOK'
  BY <1>1, HeadChecksHold, NumBackendsAssumption, FunctionalityAssumption
  DEF LoopInv, TypeOK, SkipFunctionality, end_iter_val
<1>7. CursorInv'
  BY <1>1, <1>2, <1>3, NumBackendsAssumption, FunctionalityAssumption
  DEF CursorInv, end_iter_val
<1> QED
  BY <1>2, <1>5, <1>6, <1>7
  DEF LoopInv, ChecksNeverFail, Ascending, OrderInv, AtHand

\* What an increment that arrives at a key does.
Arrival ==
  /\ LoopInv' /\ Takes(repr, Current', Remaining, Remaining')
  /\ pc = "advance" /\ pc' = "deref" /\ UNCHANGED <<repr, yielded>>

\* The key arrived at was the first of the remaining ones, and no backend is
\* left over.
LEMMA PlainKeyStep ==
  ASSUME LoopInv, PlainKey
  PROVE  Arrival
<1>1. /\ Cursor(repr, it.next_functionality, FirstFunctionality, FirstKey)
      /\ FirstFunctionality + 1 \in num_backends..(end_iter_val - 1)
      /\ FirstKey \in FunctionalityKey
  BY AtAKeyFacts DEF PlainKey
<1> DEFINE next == [it EXCEPT !.current_dispatchkey_idx = FirstKey,
                              !.next_functionality = FirstFunctionality + 1]
<1>2. pc = "advance" /\ ~isPerBackendFunctionalityKey(FirstKey)
  BY DEF PlainKey, AtAKey
<1>3. it.next_backend = 0
  BY <1>2 DEF LoopInv, CursorInv
<1>4. it' = next /\ pc' = (IF next = End THEN "idle" ELSE "deref")
        /\ UNCHANGED <<repr, yielded>>
  BY <1>3, ArriveFacts DEF PlainKey
<1>5. /\ it'.next_functionality = FirstFunctionality + 1
      /\ it'.next_backend = 0 /\ it'.current_dispatchkey_idx = FirstKey
  BY <1>3, <1>4 DEF LoopInv, TypeOK
<1>6. pc' = "deref"
  <2>1. it'.next_functionality # end_iter_val
    BY <1>1, <1>5, NumBackendsAssumption, FunctionalityAssumption
    DEF end_iter_val
  <2>2. it' # End
    BY <2>1, EndFields
  <2> QED
    BY <1>4, <2>2
<1>7. TypeOK'
  <2>1. FirstKey \in 1..end_iter_val
          /\ FirstFunctionality + 1 \in num_backends..end_iter_val
    BY <1>1, NumBackendsAssumption, FunctionalityAssumption
    DEF FunctionalityKey, end_iter_val
  <2>2. it' \in [next_functionality : num_backends..end_iter_val,
                 next_backend : 0..num_backends,
                 current_dispatchkey_idx : 1..end_iter_val,
                 current_backendcomponent_idx : 1..end_iter_val]
    <3> HIDE DEF next
    <3>1. it' = [it EXCEPT !.current_dispatchkey_idx = FirstKey,
                           !.next_functionality = FirstFunctionality + 1]
      BY <1>4 DEF next
    <3> QED
      BY <2>1, <3>1 DEF LoopInv, TypeOK
  <2> QED
    BY <1>4, <1>6, <2>2 DEF LoopInv, TypeOK
<1>8. CursorInv'
  BY <1>1, <1>5, NumBackendsAssumption, FunctionalityAssumption
  DEF CursorInv, end_iter_val
<1>9. Current' = FirstKey
  BY <1>2, <1>5 DEF Current
<1>10. Takes(repr, FirstKey, Remaining, Remaining')
  BY <1>1, <1>2, <1>3, <1>4, <1>5, RemainingPlain DEF Remaining
<1>11. AtHand'
  <2>1. FirstFunctionality = FunctionalityBit(FirstKey)
    BY <1>1, CursorFacts
  <2> QED
    BY <1>1, <1>2, <1>5, <2>1 DEF AtHand
<1>12. LoopInv'
  BY <1>2, <1>4, <1>6, <1>7, <1>8, <1>9, <1>10, <1>11, TakeStep
<1> QED
  BY <1>2, <1>4, <1>6, <1>9, <1>10, <1>12 DEF Arrival

\* Likewise for the instance of a functionality for its next backend, whether
\* it is the last one or not.
LEMMA PerBackendKeyStep ==
  ASSUME LoopInv, PerBackendKey
  PROVE  Arrival
<1> DEFINE first == findFirstSet(Backends)
           key == toRuntimePerBackendFunctionalityKey(FirstKey, first + 1)
           following == maskTrailingZeros(first + 1, repr \cap full_backend_mask)
           next == IF following = {}
                   THEN AtBackend(FirstFunctionality + 1, 0, first)
                   ELSE AtBackend(it.next_functionality, first + 1, first)
<1>1. /\ pc = "advance" /\ isPerBackendFunctionalityKey(FirstKey)
      /\ Backends # {}
  BY DEF PerBackendKey, AtAKey
<1>2. /\ Cursor(repr, it.next_functionality, FirstFunctionality, FirstKey)
      /\ FirstFunctionality + 1 \in num_backends..(end_iter_val - 1)
      /\ FirstKey \in FunctionalityKey
      /\ BackendCursor(repr, it.next_backend, first)
      /\ first + 1 \in 1..num_backends
  BY <1>1, AtAKeyFacts, BackendsFacts DEF PerBackendKey
<1>3. it' = next /\ pc' = (IF next = End THEN "idle" ELSE "deref")
        /\ UNCHANGED <<repr, yielded>>
  <2>1. Arrive(TRUE, next)
    BY DEF PerBackendKey
  <2> HIDE DEF next
  <2> QED
    BY <2>1, ArriveFacts
<1>4. /\ it'.current_dispatchkey_idx = FirstKey
      /\ it'.current_backendcomponent_idx = first + 1
      /\ it'.next_functionality \in
           {FirstFunctionality + 1, it.next_functionality}
  BY <1>3, IteratorFields DEF AtBackend
<1>5. it'.next_functionality \in num_backends..(end_iter_val - 1)
  BY <1>1, <1>2, <1>4, NumBackendsAssumption, FunctionalityAssumption
  DEF LoopInv, TypeOK, CursorInv, end_iter_val
<1>6. pc' = "deref"
  <2>1. it'.next_functionality # end_iter_val
    BY <1>5, NumBackendsAssumption, FunctionalityAssumption DEF end_iter_val
  <2>2. it' # End
    BY <2>1, EndFields
  <2> QED
    BY <1>3, <2>2
<1>7. it'.next_backend \in 0..num_backends
  BY <1>2, <1>3, IteratorFields, NumBackendsAssumption DEF AtBackend
<1>8. TypeOK'
  <2>1. it' = Iterator(it'.next_functionality, it'.next_backend, FirstKey,
                       first + 1)
    <3>1. CASE following = {}
      <4>1. it' = Iterator(FirstFunctionality + 1, 0, FirstKey, first + 1)
        BY <1>3, <3>1 DEF AtBackend
      <4> HIDE DEF first
      <4> QED
        BY <4>1, IteratorFields
    <3>2. CASE following # {}
      <4>1. it' = Iterator(it.next_functionality, first + 1, FirstKey, first + 1)
        BY <1>3, <3>2 DEF AtBackend
      <4> HIDE DEF first
      <4> QED
        BY <4>1, IteratorFields
    <3> QED
      BY <3>1, <3>2
  <2>2. first + 1 \in 1..end_iter_val /\ FirstKey \in 1..end_iter_val
          /\ it'.next_functionality \in num_backends..end_iter_val
    BY <1>2, <1>5, NumBackendsAssumption, FunctionalityAssumption
    DEF FunctionalityKey, end_iter_val
  <2> HIDE DEF first
  <2> QED
    BY <1>3, <1>6, <1>7, <2>1, <2>2 DEF LoopInv, TypeOK, Iterator
<1>9. Current' = key /\ toBackendComponent(key) = first + 1
  BY <1>1, <1>2, <1>4, BackendKeyFacts DEF Current
<1>10. CASE following = {}
  <2>1. it'.next_functionality = FirstFunctionality + 1 /\ it'.next_backend = 0
    BY <1>3, <1>10, IteratorFields DEF AtBackend
  <2>2. Takes(repr, key, Remaining, Remaining')
    BY <1>1, <1>2, <1>3, <1>10, <2>1, RemainingLast DEF Remaining
  <2>3. CursorInv'
    BY <1>5, <2>1, NumBackendsAssumption, FunctionalityAssumption
    DEF CursorInv, end_iter_val
  <2>4. AtHand'
    <3>1. FirstFunctionality = FunctionalityBit(FirstKey)
      BY <1>2, CursorFacts
    <3> QED
      BY <1>2, <1>4, <2>1, <3>1 DEF AtHand
  <2>5. LoopInv'
    BY <1>1, <1>3, <1>6, <1>8, <1>9, <2>2, <2>3, <2>4, TakeStep
  <2> QED
    BY <1>1, <1>3, <1>6, <1>9, <2>2, <2>5 DEF Arrival
<1>11. CASE following # {}
  <2>1. /\ it'.next_functionality = it.next_functionality
        /\ it'.next_backend = first + 1
    <3>1. it' = Iterator(it.next_functionality, first + 1, FirstKey, first + 1)
      BY <1>3, <1>11 DEF AtBackend
    <3> HIDE DEF first
    <3> QED
      BY <3>1, IteratorFields
  <2>2. Takes(repr, key, Remaining, Remaining')
    BY <1>1, <1>2, <1>3, <2>1, RemainingNext DEF Remaining
  <2>3. Functionalities' # {} /\ FirstKey' = FirstKey
    BY <1>3, <2>1
    DEF PerBackendKey, AtAKey, Functionalities, FirstKey, FirstFunctionality
  <2>4. CursorInv'
    <3>1. Backends' # {}
      BY <1>3, <1>11, <2>1 DEF Backends
    <3> QED
      BY <1>1, <1>5, <2>3, <3>1, NumBackendsAssumption, FunctionalityAssumption
      DEF CursorInv, end_iter_val
  <2>5. AtHand'
    BY <1>1, <1>2, <1>4, <2>1, <2>3 DEF AtHand
  <2>6. LoopInv'
    BY <1>1, <1>3, <1>6, <1>8, <1>9, <2>2, <2>4, <2>5, TakeStep
  <2> QED
    BY <1>1, <1>3, <1>6, <1>9, <2>2, <2>6 DEF Arrival
<1> QED
  BY <1>10, <1>11

\* The key at hand is a runtime key, of the functionality and the backend that
\* the iterator has.
LEMMA CurrentFacts ==
  ASSUME LoopInv, pc = "deref"
  PROVE  /\ Current \in RuntimeKey
         /\ it.current_dispatchkey_idx \in FunctionalityKey
         /\ toFunctionalityKey(Current) = it.current_dispatchkey_idx
         /\ isPerBackendFunctionalityKey(it.current_dispatchkey_idx) =>
              /\ it.current_backendcomponent_idx \in 1..num_backends
              /\ toBackendComponent(Current) = it.current_backendcomponent_idx
<1> DEFINE f == it.current_dispatchkey_idx
           b == it.current_backendcomponent_idx
<1>1. /\ f \in FunctionalityKey
      /\ isPerBackendFunctionalityKey(f) => b \in 1..num_backends
  BY DEF LoopInv, AtHand
<1> QED
  BY <1>1, BackendKeyFacts, PlainKeyFacts DEF Current

\* The body of the loop moves the key at hand to the ones it has seen.
LEMMA DerefStep ==
  ASSUME LoopInv, Deref
  PROVE  /\ LoopInv' /\ Remaining' = Remaining
         /\ pc = "deref" /\ pc' = "advance" /\ repr' = repr
         /\ yielded' = yielded \cup {Current}
<1>1. pc = "deref"
  BY DEF Deref
<1>2. /\ Current \in RuntimeKey
      /\ isPerBackendFunctionalityKey(it.current_dispatchkey_idx) =>
           toBackendComponent(Current) = it.current_backendcomponent_idx
  BY <1>1, CurrentFacts
<1>4. /\ yielded' = yielded \cup {Current} /\ pc' = "advance"
      /\ UNCHANGED <<repr, it>>
  BY <1>1, <1>2 DEF Deref
<1>5. TypeOK'
  BY <1>2, <1>4 DEF LoopInv, TypeOK
<1>6. Remaining' = Remaining
  BY <1>4 DEF Remaining
<1>7. CursorInv'
  BY <1>1, <1>4
  DEF LoopInv, CursorInv, Functionalities, Backends, FirstKey, FirstFunctionality
<1> QED
  BY <1>1, <1>4, <1>5, <1>6, <1>7
  DEF LoopInv, ChecksNeverFail, Ascending, OrderInv, AtHand

\* All that a step of the loop can do.
LEMMA LoopSteps ==
  ASSUME LoopInv, LoopStep
  PROVE  /\ LoopInv' /\ repr' = repr
         /\ \/ /\ pc = "advance" /\ pc' = "idle" /\ yielded' = yielded
               /\ Remaining = {}
            \/ /\ pc = "advance" /\ pc' = "advance" /\ yielded' = yielded
               /\ Remaining' = Remaining
            \/ /\ pc = "advance" /\ pc' = "deref" /\ yielded' = yielded
               /\ Takes(repr, Current', Remaining, Remaining')
            \/ /\ pc = "deref" /\ pc' = "advance"
               /\ yielded' = yielded \cup {Current} /\ Remaining' = Remaining
BY ReachEndStep, SkipFunctionalityStep, PerBackendKeyStep, PlainKeyStep,
   DerefStep DEF LoopStep, Arrival

\* Each of them takes one key from one of the three sets to the next.
LEMMA ProgressStep ==
  ASSUME IInv, LoopStep
  PROVE  Progress'
<1>1. Contained(repr)' = Contained(repr)
  BY LoopSteps DEF IInv
<1>2. CASE pc = "advance" /\ pc' = "idle"
  BY <1>2 DEF Progress
<1>3. CASE pc = "advance" /\ pc' = "advance"
  BY <1>1, <1>3, LoopSteps DEF IInv, Progress
<1>4. CASE pc = "advance" /\ pc' = "deref"
  <2>1. Takes(repr, Current', Remaining, Remaining') /\ yielded' = yielded
    BY <1>4, LoopSteps DEF IInv
  <2>2. /\ Contained(repr) = yielded \cup Remaining
        /\ yielded \cap Remaining = {}
    BY <1>4 DEF IInv, Progress
  <2> QED
    BY <1>1, <1>4, <2>1, <2>2 DEF Takes, Progress
<1>5. CASE pc = "deref" /\ pc' = "advance"
  <2>1. yielded' = yielded \cup {Current} /\ Remaining' = Remaining
    BY <1>5, LoopSteps DEF IInv
  <2> QED
    BY <1>1, <1>5, <2>1 DEF IInv, Progress
<1> QED
  BY <1>2, <1>3, <1>4, <1>5, LoopSteps DEF IInv

\* The client changes the set outside of the loop only.
LEMMA ModifyStep ==
  ASSUME IInv, NEW word \in SUBSET Full, Modify(word)
  PROVE  IInv'
<1>1. TypeOK' /\ pc' = "idle"
  BY DEF Modify, IInv, LoopInv, TypeOK
<1> QED
  BY <1>1, IdleInv DEF IInv

\* A client that has built a set and no loop yet.
LEMMA InitIInv == Init => IInv
<1> SUFFICES ASSUME Init PROVE IInv
  OBVIOUS
<1>1. repr \subseteq Full /\ it = End /\ pc = "idle" /\ yielded = {}
  BY WordFacts DEF Init
<1>2. TypeOK
  BY <1>1, NumBackendsAssumption, FunctionalityAssumption
  DEF TypeOK, End, Iterator, end_iter_val, end_iter_key_val
<1> QED
  BY <1>1, <1>2
  DEF IInv, LoopInv, ChecksNeverFail, Progress, Ascending, CursorInv, OrderInv,
      AtHand

\* Every step of the client and of its loops preserves the invariant.
LEMMA NextIInv == IInv /\ [Next]_vars => IInv'
<1> SUFFICES ASSUME IInv, [Next]_vars PROVE IInv'
  OBVIOUS
<1> USE WordFacts
<1>1. repr \subseteq Full
  BY DEF IInv, LoopInv, TypeOK
<1>2. ASSUME NEW k \in DispatchKey, Add(k) PROVE IInv'
  BY <1>1, <1>2, ModifyStep DEF Add
<1>3. ASSUME NEW k \in DispatchKey, Remove(k) PROVE IInv'
  BY <1>1, <1>3, ModifyStep DEF Remove, remove, Minus
<1>4. ASSUME NEW k \in DispatchKey, Intersect(k) PROVE IInv'
  BY <1>1, <1>4, ModifyStep DEF Intersect
<1>5. ASSUME NEW k \in DispatchKey, Subtract(k) PROVE IInv'
  BY <1>1, <1>5, ModifyStep DEF Subtract, Minus
<1>6. ASSUME NEW k \in DispatchKey, SymmetricDifference(k) PROVE IInv'
  BY <1>1, <1>6, ModifyStep DEF SymmetricDifference
<1>7. ASSUME NEW b \in BackendComponent, AddBackend(b) PROVE IInv'
  BY <1>1, <1>7, ModifyStep DEF AddBackend
<1>8. ASSUME NEW b \in BackendComponent, RemoveBackend(b) PROVE IInv'
  BY <1>1, <1>8, ModifyStep DEF RemoveBackend, remove_backend
<1>9. CASE UNCHANGED vars
  BY <1>9
  DEF vars, IInv, LoopInv, TypeOK, ChecksNeverFail, Progress, Ascending,
      CursorInv, OrderInv, AtHand, Remaining, Current, Functionalities, Backends,
      FirstKey, FirstFunctionality
<1>10. CASE LoopStep
  BY <1>10, LoopSteps, ProgressStep DEF IInv
<1>11. CASE Begin
  BY <1>1, <1>11, BeginStep DEF IInv
<1> QED
  BY <1>2, <1>3, <1>4, <1>5, <1>6, <1>7, <1>8, <1>9, <1>10, <1>11 DEF Next

\* The invariant of the loop holds whatever the client did to build the set,
\* for every number of backends and of functionalities.
THEOREM InductiveInvariant == Spec => []IInv
<1> QED
  BY InitIInv, NextIInv, PTL DEF Spec

\* No TORCH_CHECK of the iterator fails: the masks stay within their words, no
\* backend of one functionality is left over for the next, and operator*
\* finds the backend it expects in the key.
THEOREM IteratorChecksHold == Spec => []ChecksNeverFail
<1>1. IInv => ChecksNeverFail
  BY DEF IInv, LoopInv
<1> QED
  BY <1>1, InductiveInvariant, PTL

\* A loop that is left has seen the keys that has() finds in the set.
THEOREM EveryKeyIsSeen == Spec => SeesEveryKey
<1>1. IInv /\ [Next]_vars
        => [pc = "advance" /\ pc' = "idle" => yielded = Contained(repr)]_vars
  <2> SUFFICES ASSUME IInv, Next, pc = "advance", pc' = "idle"
               PROVE  yielded = Contained(repr)
    OBVIOUS
  <2>1. ~Begin /\ \A word : ~Modify(word)
    BY DEF Begin, Modify
  <2>2. LoopStep
    BY <2>1
    DEF Next, Add, Remove, Intersect, Subtract, SymmetricDifference, AddBackend,
        RemoveBackend
  <2>3. Remaining = {}
    BY <2>2, LoopSteps DEF IInv
  <2> QED
    BY <2>3 DEF IInv, Progress
<1> QED
  BY <1>1, InductiveInvariant, PTL DEF Spec, SeesEveryKey

\* Keys come in the order of their priority and none comes twice.
THEOREM KeysAscend == Spec => []Ascending
<1>1. IInv => Ascending
  BY DEF IInv, LoopInv
<1> QED
  BY <1>1, InductiveInvariant, PTL

-----------------------------------------------------------------------------
(* A client that changes the set in the body of its loop.                   *)

\* The order of the keys is transitive.
LEMMA BeforeTransitive ==
  ASSUME NEW i \in RuntimeKey, NEW j \in RuntimeKey, NEW k \in RuntimeKey,
         Before(i, j), Before(j, k)
  PROVE  Before(i, k)
<1>1. \A l \in {i, j, k} :
        toFunctionalityKey(l) \in Int /\ toBackendComponent(l) \in Int
  BY KeyFacts DEF FunctionalityKey, BackendComponent
<1> QED
  BY <1>1 DEF Before

\* A key that is left behind a cursor of backend 0 has its functionality
\* behind it, and the reverse.
LEMMA RemainingFirst ==
  ASSUME NEW word, NEW n, NEW k
  PROVE  k \in RemainingOf(word, n, 0) <=>
           /\ k \in RuntimeKey /\ k \in Contained(word)
           /\ FunctionalityBit(toFunctionalityKey(k)) >= n
<1>1. k \in Contained(word) => k \in RuntimeKey
  BY DEF Contained
<1>2. ASSUME k \in RuntimeKey, isPerBackendFunctionalityKey(toFunctionalityKey(k))
      PROVE  toBackendComponent(k) > 0
  <2>1. toBackendComponent(k) \in 1..num_backends
    BY <1>2, KeyFacts, NumBackendsAssumption DEF BackendComponent, InvalidBit
  <2> QED
    BY <2>1, NumBackendsAssumption
<1> QED
  BY <1>1, <1>2 DEF RemainingOf

\* A change behind the iterator leaves the keys it has still to reach behind
\* it, and adds only keys that come after the one at hand.
LEMMA ChangeBehind ==
  ASSUME LoopInv, pc = "deref", NEW word \in SUBSET Full, Behind(word),
         repr' = word, UNCHANGED <<it, pc, yielded>>
  PROVE  LoopInv' /\ Remaining \subseteq Remaining' /\ Current' = Current
<1> DEFINE f == it.current_dispatchkey_idx
           b == it.current_backendcomponent_idx
           n == it.next_functionality
           nb == it.next_backend
           new == Remaining'
<1>1. /\ Current \in RuntimeKey /\ f \in FunctionalityKey /\ f \in Int
      /\ toFunctionalityKey(Current) = f
      /\ isPerBackendFunctionalityKey(f) =>
           b \in 1..num_backends /\ b \in Int /\ toBackendComponent(Current) = b
  BY CurrentFacts DEF FunctionalityKey
<1>2. /\ repr \subseteq word
      /\ \A i \in word \ (repr \cup full_backend_mask) : i > FunctionalityBit(f)
  BY DEF Behind
<1>3. Contained(repr) \subseteq Contained(word) /\ Current' = Current
  BY <1>2 DEF Contained, has, has_all, Current
<1>4. new = RemainingOf(word, n, nb) /\ Remaining = RemainingOf(repr, n, nb)
  BY DEF Remaining
<1>5. TypeOK'
  BY DEF LoopInv, TypeOK
<1>6. n < end_iter_val
  BY DEF LoopInv, CursorInv
<1>7. ASSUME n = FunctionalityBit(f) + 1, nb = 0
      PROVE  /\ \A k \in new : k \in RuntimeKey /\ Before(Current, k)
             /\ Remaining \subseteq new /\ CursorInv' /\ AtHand'
  <2>1. ASSUME NEW k \in new
        PROVE  k \in RuntimeKey /\ Before(Current, k)
    <3>1. k \in RuntimeKey /\ FunctionalityBit(toFunctionalityKey(k)) >= n
      BY <1>4, <1>7, RemainingFirst
    <3>2. toFunctionalityKey(k) \in Int
      BY <3>1, KeyFacts DEF FunctionalityKey
    <3> QED
      BY <1>1, <1>7, <3>1, <3>2, NumBackendsAssumption DEF FunctionalityBit, Before
  <2>2. Remaining \subseteq new
    BY <1>3, <1>4, <1>7, RemainingFirst
  <2>3. CursorInv' /\ AtHand'
    BY <1>1, <1>6, <1>7 DEF CursorInv, AtHand
  <2> QED
    BY <2>1, <2>2, <2>3
<1>8. ASSUME isPerBackendFunctionalityKey(f), FirstKey = f, nb = b
      PROVE  /\ \A k \in new : k \in RuntimeKey /\ Before(Current, k)
             /\ Remaining \subseteq new /\ CursorInv' /\ AtHand'
  <2>1. Functionalities # {} /\ Backends # {}
    BY <1>1, <1>8, NumBackendsAssumption DEF LoopInv, CursorInv
  <2>2. Cursor(repr, n, FirstFunctionality, f)
    BY <1>6, <1>8, <2>1, NumBackendsAssumption, FunctionalityAssumption
    DEF LoopInv, TypeOK, Cursor, FirstFunctionality, FirstKey, Functionalities,
        end_iter_val
  <2> DEFINE first == FirstFunctionality
             later == maskTrailingZeros(n, word)
  <2>3. /\ first \in repr /\ first \in Int /\ n <= first
        /\ \A i \in repr : n <= i => first <= i
        /\ first = FunctionalityBit(f)
    BY <2>2, CursorFacts
  <2>4. n \in num_backends..(end_iter_val - 1) /\ n >= num_backends
    BY <2>2, NumBackendsAssumption, FunctionalityAssumption
    DEF Cursor, end_iter_val
  <2>5. first \in later /\ \A i \in later : first <= i
    <3>1. first \in later
      BY <1>2, <2>3, <2>4, NumBackendsAssumption, FunctionalityAssumption
      DEF maskTrailingZeros, end_iter_val
    <3>2. ASSUME NEW i \in later
          PROVE  first <= i
      <4>1. i \in word /\ i >= n /\ i \in Int /\ n \in Int
        BY <2>4, NumBackendsAssumption, FunctionalityAssumption
        DEF maskTrailingZeros, Full, end_iter_val
      <4>2. i \notin full_backend_mask
        BY <2>4, <4>1, NumBackendsAssumption DEF full_backend_mask
      <4> QED
        BY <1>2, <2>3, <4>1, <4>2
    <3> QED
      BY <3>1, <3>2
  <2>6. findFirstSet(later) = first
    <3>1. later \in SUBSET Nat
      BY WordFacts DEF maskTrailingZeros
    <3> HIDE DEF first, later
    <3>2. findFirstSet(later) \in later /\ \A i \in later : findFirstSet(later) <= i
      BY <2>5, <3>1, LeastBit
    <3> PICK m \in later : m = findFirstSet(later)
      BY <3>2
    <3>3. m <= first /\ first <= m /\ m \in Int /\ first \in Int
      BY <2>3, <2>5, <3>1, <3>2
    <3> QED
      BY <3>3
  <2>7. Cursor(word, n, first, f)
    BY <2>2, <2>5, <2>6 DEF Cursor
  <2>8. ASSUME NEW k
        PROVE  /\ k \in new <=>
                    /\ k \in RuntimeKey /\ k \in Contained(word)
                    /\ toFunctionalityKey(k) >= f
                    /\ toFunctionalityKey(k) = f =>
                         \/ ~isPerBackendFunctionalityKey(f)
                         \/ toBackendComponent(k) > nb
               /\ k \in Remaining <=>
                    /\ k \in RuntimeKey /\ k \in Contained(repr)
                    /\ toFunctionalityKey(k) >= f
                    /\ toFunctionalityKey(k) = f =>
                         \/ ~isPerBackendFunctionalityKey(f)
                         \/ toBackendComponent(k) > nb
    <3> HIDE DEF f, n, nb, first, new
    <3> QED
      BY <1>4, <2>2, <2>7, RemainingFacts
  <2>9. ASSUME NEW k \in new
        PROVE  k \in RuntimeKey /\ Before(Current, k)
    <3>1. /\ k \in RuntimeKey /\ toFunctionalityKey(k) >= f
          /\ toFunctionalityKey(k) = f => toBackendComponent(k) > b
      BY <1>8, <2>8
    <3>2. toFunctionalityKey(k) \in Int
      BY <3>1, KeyFacts DEF FunctionalityKey
    <3> QED
      BY <1>1, <1>8, <3>1, <3>2 DEF Before
  <2>10. Remaining \subseteq new
    BY <1>3, <2>8
  <2>11. Functionalities' # {} /\ FirstKey' = FirstKey
    BY <2>5, <2>6 DEF Functionalities, FirstKey, FirstFunctionality
  <2>12. Backends' # {}
    BY <1>2, <2>1 DEF Backends, maskTrailingZeros
  <2>13. CursorInv' /\ AtHand'
    BY <1>1, <1>6, <1>8, <2>11, <2>12 DEF CursorInv, AtHand
  <2> QED
    BY <2>9, <2>10, <2>13
<1>9. /\ \A k \in new : k \in RuntimeKey /\ Before(Current, k)
      /\ Remaining \subseteq new /\ CursorInv' /\ AtHand'
  BY <1>7, <1>8 DEF LoopInv, AtHand
<1>10. \A j \in yielded : j \in RuntimeKey /\ Before(j, Current)
  BY DEF LoopInv, TypeOK, Ascending
<1>11. OrderInv'
  BY <1>1, <1>3, <1>9, <1>10, BeforeTransitive DEF OrderInv
<1>12. Ascending' /\ ChecksNeverFail'
  BY <1>3, <1>10 DEF Ascending, ChecksNeverFail
<1> QED
  BY <1>3, <1>5, <1>9, <1>11, <1>12 DEF LoopInv

\* A step of the loop does not lose a key that was always there.
LEMMA StableStep ==
  ASSUME LoopInv, StableInv, LoopStep, UNCHANGED stable
  PROVE  StableInv'
<1>1. CASE pc = "advance" /\ pc' = "idle"
  BY <1>1 DEF StableInv
<1>2. CASE pc = "advance" /\ pc' = "advance"
  BY <1>2, LoopSteps DEF StableInv
<1>3. CASE pc = "advance" /\ pc' = "deref"
  BY <1>3, LoopSteps DEF StableInv, Takes
<1>4. CASE pc = "deref" /\ pc' = "advance"
  BY <1>4, LoopSteps DEF StableInv
<1> QED
  BY <1>1, <1>2, <1>3, <1>4, LoopSteps

\* The body of the loop may do anything with the set: nothing is claimed of a
\* loop that it intrudes upon.
LEMMA InBodyStep ==
  ASSUME CInv, NEW word \in SUBSET Full, InBody(word)
  PROVE  CInv'
<1>1. repr' \subseteq Full
  BY DEF InBody
<1>2. ASSUME ~intruded'
      PROVE  LoopInv' /\ StableInv'
  <2>1. /\ LoopInv /\ StableInv /\ Behind(word) /\ pc = "deref" /\ pc' = "deref"
        /\ repr' = word /\ stable' \subseteq stable /\ UNCHANGED <<it, pc, yielded>>
    BY <1>2 DEF InBody, CInv
  <2>2. LoopInv' /\ Remaining \subseteq Remaining' /\ Current' = Current
    BY <2>1, ChangeBehind
  <2> QED
    BY <2>1, <2>2 DEF StableInv
<1> QED
  BY <1>1, <1>2 DEF CInv

LEMMA InitCInv == CInit => CInv
BY NumBackendsAssumption, FunctionalityAssumption
DEF CInit, CInv, LoopInv, StableInv, TypeOK, ChecksNeverFail, Ascending, CursorInv,
    OrderInv, AtHand, End, Iterator, end_iter_val, end_iter_key_val

LEMMA NextCInv == CInv /\ [CNext]_cvars => CInv'
<1> SUFFICES ASSUME CInv, [CNext]_cvars PROVE CInv'
  OBVIOUS
<1>1. repr \subseteq Full
  BY DEF CInv
<1>2. CASE CBegin
  <2>1. /\ LoopInv' /\ Remaining' = stable' /\ pc' = "advance" /\ repr' = repr
    BY <1>1, <1>2, BeginStep DEF CBegin, Begin
  <2> QED
    BY <1>1, <2>1 DEF CInv, StableInv
<1>3. CASE CStep
  <2>1. repr' = repr /\ UNCHANGED <<stable, intruded>>
    BY <1>3
    DEF CStep, LoopStep, ReachEnd, SkipFunctionality, PerBackendKey, PlainKey,
        Deref, Arrive
  <2> QED
    BY <1>1, <1>3, <2>1, LoopSteps, StableStep DEF CInv, CStep
<1>4. ASSUME NEW k \in DispatchKey,
             InBody(repr \cup KeySet(k)) \/ InBody(remove(repr, k))
      PROVE  CInv'
  BY <1>1, <1>4, WordFacts, InBodyStep DEF remove, Minus
<1>5. ASSUME NEW b \in BackendComponent, InBody(remove_backend(repr, b))
      PROVE  CInv'
  BY <1>1, <1>5, InBodyStep DEF remove_backend
<1>6. CASE UNCHANGED cvars
  BY <1>6
  DEF cvars, CInv, LoopInv, StableInv, TypeOK, ChecksNeverFail, Ascending,
      CursorInv, OrderInv, AtHand, Remaining, Current, Functionalities, Backends,
      FirstKey, FirstFunctionality
<1> QED
  BY <1>2, <1>3, <1>4, <1>5, <1>6 DEF CNext

\* A loop that has changed its set behind the iterator only fails no
\* TORCH_CHECK, has seen every key that was always there when it is left, and
\* sees each key once and in the order of priority.
THEOREM ChangesBehindHold == CSpec => ChangesBehindAreSafe
<1>1. CInv /\ CInv' /\ [CNext]_cvars
        => [~intruded =>
              /\ pc' # "thrown"
              /\ pc = "advance" /\ pc' = "idle" => stable \subseteq yielded
              /\ pc = "deref" /\ pc' = "advance" =>
                   \A j \in yielded : Before(j, Current)]_cvars
  <2> SUFFICES ASSUME CInv, CNext, ~intruded
               PROVE  /\ pc' # "thrown"
                      /\ pc = "advance" /\ pc' = "idle" => stable \subseteq yielded
                      /\ pc = "deref" /\ pc' = "advance" =>
                           \A j \in yielded : Before(j, Current)
    OBVIOUS
  <2>1. LoopInv /\ StableInv
    BY DEF CInv
  <2>2. CASE CStep
    <3>1. LoopInv' /\ (pc = "advance" /\ pc' = "idle" => Remaining = {})
      BY <2>1, <2>2, LoopSteps DEF CStep
    <3> QED
      BY <2>1, <3>1 DEF LoopInv, ChecksNeverFail, Ascending, StableInv
  <2>3. CASE CBegin
    BY <2>3 DEF CBegin, Begin
  <2>4. CASE pc = "deref" /\ pc' = pc
    BY <2>4
  <2> QED
    BY <2>2, <2>3, <2>4 DEF CNext, InBody
<1>2. CSpec => []CInv
  BY InitCInv, NextCInv, PTL DEF CSpec
<1> QED
  BY <1>1, <1>2, PTL DEF CSpec, ChangesBehindAreSafe

-----------------------------------------------------------------------------
(* The dispatch table.                                                      *)

\* Where the entries of a functionality begin: each of the functionalities
\* before it has one entry, or one for each backend.
FirstEntry(f) ==
  f + (IF f > Dense THEN num_backends - 1 ELSE 0)
    + (IF f > AutogradFunctionality THEN num_backends - 1 ELSE 0)
Entry(f) ==
  [offset |-> FirstEntry(f),
   mask |-> IF isPerBackendFunctionalityKey(f) THEN full_backend_mask ELSE {}]

\* What the loop of initializeFunctionalityOffsetsAndMasks() computes, by
\* induction on the functionality.
LEMMA TableEntries ==
  ASSUME NEW f \in 0..(num_functionality_keys - 1)
  PROVE  offsetsAndMasks[f] = Entry(f)
<1> DEFINE Following(table, g) ==
             IF g = 0 THEN [offset |-> 0, mask |-> {}]
             ELSE LET previous == table[g - 1] IN
               [offset |-> previous.offset
                             + (IF previous.mask = {} THEN 1 ELSE num_backends),
                mask |-> IF isPerBackendFunctionalityKey(g) THEN full_backend_mask
                         ELSE {}]
           Domain == 0..(num_functionality_keys - 1)
           table == [g \in Domain |-> Entry(g)]
<1>1. Entry(0) = [offset |-> 0, mask |-> {}]
  BY NumBackendsAssumption, FunctionalityAssumption
  DEF Entry, FirstEntry, isPerBackendFunctionalityKey
<1>2. ASSUME NEW g \in Domain, g # 0
      PROVE  /\ g - 1 \in Domain
             /\ FirstEntry(g) = FirstEntry(g - 1)
                  + (IF Entry(g - 1).mask = {} THEN 1 ELSE num_backends)
  <2>1. full_backend_mask # {}
    BY NumBackendsAssumption DEF full_backend_mask
  <2>2. Entry(g - 1).mask = {} <=> ~isPerBackendFunctionalityKey(g - 1)
    BY <2>1 DEF Entry
  <2> QED
    BY <1>2, <2>2, NumBackendsAssumption, FunctionalityAssumption
    DEF FirstEntry, isPerBackendFunctionalityKey
<1>3. ASSUME NEW g \in Domain
      PROVE  Entry(g) = Following(table, g)
  <2>1. CASE g = 0
    BY <1>1, <2>1
  <2>2. CASE g # 0
    <3>1. table[g - 1] = Entry(g - 1) /\ Entry(g - 1).offset = FirstEntry(g - 1)
      BY <1>2, <2>2 DEF Entry
    <3> QED
      BY <1>2, <2>2, <3>1 DEF Entry
  <2> QED
    BY <2>1, <2>2
<1>4. table = [g \in Domain |-> Following(table, g)]
  BY <1>3
<1>5. offsetsAndMasks = [g \in Domain |-> Following(offsetsAndMasks, g)]
  <2>1. \E t : t = [g \in Domain |-> Following(t, g)]
    <3> HIDE DEF table
    <3> QED BY <1>4
  <2> QED
    BY <2>1, Zenon DEF offsetsAndMasks
<1> DEFINE Wrong == {g \in Domain : offsetsAndMasks[g] # Entry(g)}
<1>6. Wrong = {}
  <2> SUFFICES ASSUME Wrong # {}
               PROVE  FALSE
    OBVIOUS
  <2>1. Wrong \in SUBSET Nat
    OBVIOUS
  <2>2. PICK g \in Wrong : \A h \in Wrong : g <= h
    BY <2>1, LeastBit
  <2>3. g # 0
    BY <1>1, <1>5
  <2>4. g - 1 \in Domain /\ offsetsAndMasks[g - 1] = Entry(g - 1)
    BY <1>2, <2>2, <2>3
  <2>5. Following(offsetsAndMasks, g) = Following(table, g)
    BY <2>4
  <2> QED
    BY <1>3, <1>5, <2>5
<1> QED
  BY <1>6

\* Entries of functionalities come in their order and do not overlap.
LEMMA EntriesAscend ==
  ASSUME NEW f \in 0..(num_functionality_keys - 1),
         NEW g \in 0..(num_functionality_keys - 1), f < g
  PROVE  /\ FirstEntry(f) \in Nat
         /\ FirstEntry(f)
              + (IF isPerBackendFunctionalityKey(f) THEN num_backends ELSE 1)
              <= FirstEntry(g)
BY NumBackendsAssumption, FunctionalityAssumption
DEF FirstEntry, isPerBackendFunctionalityKey

LEMMA EntriesFit ==
  ASSUME NEW f \in 0..(num_functionality_keys - 1)
  PROVE  /\ FirstEntry(f) \in Nat
         /\ FirstEntry(f)
              + (IF isPerBackendFunctionalityKey(f) THEN num_backends ELSE 1)
              <= num_runtime_entries
BY NumBackendsAssumption, FunctionalityAssumption
DEF FirstEntry, isPerBackendFunctionalityKey, num_runtime_entries

\* 64 - countLeadingZeros of a word that has a bit is one more than the
\* greatest of its bits.
LEMMA GreatestBit ==
  ASSUME NEW m \in Nat, NEW word \in SUBSET (0..m), word # {}
  PROVE  /\ indexOfHighestBit(word) - 1 \in word
         /\ indexOfHighestBit(word) \in 1..(m + 1)
         /\ \A j \in word : j <= indexOfHighestBit(word) - 1
<1> DEFINE Bound == {n \in 0..m : \A j \in word : j <= n}
<1>1. Bound \in SUBSET Nat /\ m \in Bound
  OBVIOUS
<1>2. PICK n \in Bound : \A b \in Bound : n <= b
  BY <1>1, LeastBit
<1>3. n \in word
  <2> SUFFICES ASSUME n \notin word
               PROVE  FALSE
    OBVIOUS
  <2>1. PICK j \in word : TRUE
    OBVIOUS
  <2>2. n - 1 \in Bound
    BY <2>1
  <2> QED
    BY <1>2, <2>2
<1>4. \A i \in word : (\A j \in word : j <= i) => i = n
  BY <1>3
<1>5. (CHOOSE i \in word : \A j \in word : j <= i) = n
  BY <1>3, <1>4
<1>6. indexOfHighestBit(word) = 1 + n
  BY <1>5 DEF indexOfHighestBit
<1> QED
  BY <1>3, <1>6

\* The functionality a word is dispatched to, and the backend within it.
LEMMA HighestFunctionality ==
  ASSUME NEW word \in SUBSET Full
  PROVE  /\ highestFunctionalityKey(word) \in 0..(num_functionality_keys - 1)
         /\ \A f \in FunctionalityKey :
              /\ FunctionalityBit(f) \in word
              /\ \A i \in word : i <= FunctionalityBit(f)
              => highestFunctionalityKey(word) = f
         /\ highestFunctionalityKey(word) # 0 =>
              /\ FunctionalityBit(highestFunctionalityKey(word)) \in word
              /\ \A i \in word : i <= FunctionalityBit(highestFunctionalityKey(word))
<1>1. CASE word = {}
  <2>1. highestFunctionalityKey(word) = 0
    BY <1>1, NumBackendsAssumption
    DEF highestFunctionalityKey, indexOfHighestBit, Undefined
  <2> QED
    BY <1>1, <2>1, FunctionalityAssumption
<1>2. CASE word # {}
  <2>1. PICK m \in Nat : m = num_backends + num_functionality_keys - 2
    BY NumBackendsAssumption, FunctionalityAssumption
  <2>2. /\ indexOfHighestBit(word) - 1 \in word
        /\ indexOfHighestBit(word) \in 1..(m + 1)
        /\ \A j \in word : j <= indexOfHighestBit(word) - 1
    BY <1>2, <2>1, GreatestBit DEF Full
  <2> QED
    BY <2>1, <2>2, NumBackendsAssumption, FunctionalityAssumption
    DEF highestFunctionalityKey, Undefined, FunctionalityKey, FunctionalityBit, Full
<1> QED
  BY <1>1, <1>2

LEMMA HighestBackend ==
  ASSUME NEW word
  PROVE  /\ highestBackendKey(word) \in 0..num_backends
         /\ getBackendIndex(word) =
              IF highestBackendKey(word) = 0 THEN 0 ELSE highestBackendKey(word) - 1
         /\ \A i \in word \cap full_backend_mask :
              /\ i <= highestBackendKey(word) - 1
              /\ highestBackendKey(word) - 1 \in word \cap full_backend_mask
         /\ highestBackendKey(word) # 0 =>
              highestBackendKey(word) - 1 \in word \cap full_backend_mask
<1> DEFINE bits == word \cap full_backend_mask
<1>0. num_backends - 1 \in Nat /\ num_backends = (num_backends - 1) + 1
  BY NumBackendsAssumption
<1> PICK m \in Nat : num_backends = m + 1
  BY <1>0
<1>1. bits \in SUBSET (0..m)
  BY DEF full_backend_mask
<1>2. CASE bits = {}
  <2>1. highestBackendKey(word) = 0
    BY <1>2 DEF highestBackendKey, indexOfHighestBit
  <2>2. ShiftRight(bits) = {}
    BY <1>2 DEF ShiftRight
  <2>3. getBackendIndex(word) = 0
    BY <2>2 DEF getBackendIndex, indexOfHighestBit
  <2> QED
    BY <1>2, <2>1, <2>3, NumBackendsAssumption
<1>3. CASE bits # {}
  <2>1. /\ highestBackendKey(word) - 1 \in bits
        /\ highestBackendKey(word) \in 1..(m + 1)
        /\ \A j \in bits : j <= highestBackendKey(word) - 1
    BY <1>1, <1>3, GreatestBit DEF highestBackendKey
  <2>2. CASE bits = {0}
    <3>1. ShiftRight(bits) = {}
      BY <2>2 DEF ShiftRight
    <3>2. getBackendIndex(word) = 0
      BY <3>1 DEF getBackendIndex, indexOfHighestBit
    <3>3. highestBackendKey(word) = 1
      BY <2>1, <2>2
    <3> QED
      BY <2>1, <3>2, <3>3
  <2>3. CASE bits # {0}
    <3> DEFINE shifted == ShiftRight(bits)
    <3>1. shifted \in SUBSET (0..m)
      BY <1>1, NumBackendsAssumption DEF ShiftRight
    <3>2. \A i \in bits : i # 0 => i - 1 \in shifted
      BY DEF ShiftRight
    <3>3. \A i \in shifted : i + 1 \in bits
      BY <1>1 DEF ShiftRight
    <3>4. PICK b \in bits : b # 0
      BY <1>3, <2>3
    <3>5. shifted # {}
      BY <3>2, <3>4
    <3>6. /\ getBackendIndex(word) - 1 \in shifted
          /\ getBackendIndex(word) \in 1..(m + 1)
          /\ \A j \in shifted : j <= getBackendIndex(word) - 1
      <4> HIDE DEF shifted
      <4>1. getBackendIndex(word) = indexOfHighestBit(shifted)
        BY DEF getBackendIndex, shifted
      <4> QED
        BY <1>1, <3>1, <3>5, <4>1, GreatestBit
    <3>7. getBackendIndex(word) \in bits
      BY <3>3, <3>6
    <3>8. highestBackendKey(word) - 1 # 0
      BY <1>1, <2>1, <3>4
    <3>9. highestBackendKey(word) - 2 \in shifted
      <4>1. (highestBackendKey(word) - 1) - 1 \in shifted
        BY <2>1, <3>2, <3>8
      <4> QED
        BY <2>1, <4>1
    <3>10. /\ getBackendIndex(word) <= highestBackendKey(word) - 1
           /\ highestBackendKey(word) - 2 <= getBackendIndex(word) - 1
      BY <2>1, <3>6, <3>7, <3>9
    <3> QED
      BY <2>1, <3>6, <3>10, NumBackendsAssumption
  <2> QED
    BY <2>2, <2>3
<1> QED
  BY <1>2, <1>3

\* The entry of a word: the one of its highest functionality for its highest
\* backend, if that functionality depends on the backend.
LEMMA EntryOfWord ==
  ASSUME NEW word \in SUBSET Full, NEW f, f = highestFunctionalityKey(word)
  PROVE  /\ offsetsAndMasks[f].offset = FirstEntry(f)
         /\ getDispatchTableIndexForDispatchKeySet(word)
              = FirstEntry(f)
                  + (IF isPerBackendFunctionalityKey(f) THEN getBackendIndex(word)
                     ELSE 0)
<1>1. f \in 0..(num_functionality_keys - 1)
  BY HighestFunctionality
<1>2. offsetsAndMasks[f] = Entry(f) /\ FirstEntry(f) \in Nat
  BY <1>1, TableEntries, EntriesFit
<1>3. CASE isPerBackendFunctionalityKey(f)
  BY <1>2, <1>3
  DEF getDispatchTableIndexForDispatchKeySet, getBackendIndex, Entry
<1>4. CASE ~isPerBackendFunctionalityKey(f)
  <2>1. ShiftRight(word \cap {}) = {}
    BY DEF ShiftRight
  <2>2. indexOfHighestBit(ShiftRight(word \cap {})) = 0
    BY <2>1 DEF indexOfHighestBit
  <2> QED
    BY <1>2, <1>4, <2>2 DEF getDispatchTableIndexForDispatchKeySet, Entry
<1> QED
  BY <1>3, <1>4

\* The entry of a runtime key.
LEMMA EntryOfKey ==
  ASSUME NEW k \in RuntimeKey
  PROVE  getDispatchTableIndexForDispatchKeySet(KeySet(k))
           = FirstEntry(toFunctionalityKey(k))
               + (IF isPerBackendFunctionalityKey(toFunctionalityKey(k))
                  THEN toBackendComponent(k) - 1 ELSE 0)
<1> DEFINE f == toFunctionalityKey(k)
           b == toBackendComponent(k)
<1>1. f \in FunctionalityKey /\ b \in BackendComponent
  BY KeyFacts
<1>2. KeySet(k) \in SUBSET Full
  BY <1>1, KeyFacts, NumBackendsAssumption, FunctionalityAssumption
  DEF Full, FunctionalityBit, FunctionalityKey, BackendComponent, InvalidBit
<1>3. \A i \in KeySet(k) : i <= FunctionalityBit(f)
  BY <1>1, KeyFacts, NumBackendsAssumption
  DEF FunctionalityBit, FunctionalityKey, BackendComponent
<1>4. FunctionalityBit(f) \in KeySet(k)
  BY KeyFacts
<1>5. highestFunctionalityKey(KeySet(k)) = f
  BY <1>1, <1>2, <1>3, <1>4, HighestFunctionality
<1>6. ASSUME isPerBackendFunctionalityKey(f)
      PROVE  getBackendIndex(KeySet(k)) = b - 1
  <2>1. KeySet(k) = {FunctionalityBit(f), b - 1} /\ b \in 1..num_backends
    BY <1>1, <1>6, KeyFacts, NumBackendsAssumption DEF BackendComponent, InvalidBit
  <2>2. KeySet(k) \cap full_backend_mask = {b - 1}
    BY <1>1, <2>1, NumBackendsAssumption
    DEF full_backend_mask, FunctionalityBit, FunctionalityKey
  <2>3. highestBackendKey(KeySet(k)) - 1 = b - 1 /\ highestBackendKey(KeySet(k)) \in Int
    BY <2>1, <2>2, HighestBackend
  <2> QED
    BY <2>1, <2>3, HighestBackend
<1> QED
  BY <1>2, <1>5, <1>6, EntryOfWord

LEMMA TableHolds ==
  ASSUME repr \in SUBSET Full
  PROVE  TableFollowsOrder
<1> DEFINE index == getDispatchTableIndexForDispatchKeySet(repr)
           Index(k) == getDispatchTableIndexForDispatchKeySet(KeySet(k))
           f == highestFunctionalityKey(repr)
<1>1. f \in 0..(num_functionality_keys - 1) /\ FirstEntry(f) \in Nat
  BY HighestFunctionality, EntriesFit
<1>2. getBackendIndex(repr) \in 0..(num_backends - 1)
  BY HighestBackend, NumBackendsAssumption
<1>3. index = FirstEntry(f)
        + (IF isPerBackendFunctionalityKey(f) THEN getBackendIndex(repr) ELSE 0)
  BY EntryOfWord
<1>4. index \in 0..(num_runtime_entries - 1)
  <2>1. num_runtime_entries \in Int
    BY NumBackendsAssumption, FunctionalityAssumption DEF num_runtime_entries
  <2>2. FirstEntry(f)
          + (IF isPerBackendFunctionalityKey(f) THEN num_backends ELSE 1)
          <= num_runtime_entries
    BY <1>1, EntriesFit
  <2> QED
    BY <1>1, <1>2, <1>3, <2>1, <2>2, NumBackendsAssumption
<1>5. ASSUME NEW j \in RuntimeKey, NEW k \in RuntimeKey, Before(j, k)
      PROVE  Index(j) < Index(k)
  <2> DEFINE fj == toFunctionalityKey(j)
             fk == toFunctionalityKey(k)
             bj == toBackendComponent(j)
             bk == toBackendComponent(k)
  <2>1. /\ fj \in FunctionalityKey /\ bj \in 0..num_backends
        /\ fk \in FunctionalityKey /\ bk \in 0..num_backends
        /\ isPerBackendFunctionalityKey(fj) => bj # 0
        /\ isPerBackendFunctionalityKey(fk) => bk # 0
    BY KeyFacts DEF BackendComponent, InvalidBit
  <2>2. /\ fj \in 0..(num_functionality_keys - 1)
        /\ fk \in 0..(num_functionality_keys - 1)
    BY <2>1, FunctionalityAssumption DEF FunctionalityKey
  <2>3. /\ Index(j) = FirstEntry(fj)
                        + (IF isPerBackendFunctionalityKey(fj) THEN bj - 1 ELSE 0)
        /\ Index(k) = FirstEntry(fk)
                        + (IF isPerBackendFunctionalityKey(fk) THEN bk - 1 ELSE 0)
    BY EntryOfKey
  <2>4. FirstEntry(fj) \in Nat /\ FirstEntry(fk) \in Nat
    BY <2>2, EntriesFit
  <2>5. CASE fj < fk
    <3>1. FirstEntry(fj)
            + (IF isPerBackendFunctionalityKey(fj) THEN num_backends ELSE 1)
            <= FirstEntry(fk)
      BY <2>2, <2>5, EntriesAscend
    <3> HIDE DEF fj, fk, bj, bk, Index
    <3> QED
      BY <2>1, <2>3, <2>4, <3>1, NumBackendsAssumption
  <2>6. CASE fj = fk /\ bj < bk
    <3>1. isPerBackendFunctionalityKey(fj)
      <4> SUFFICES ASSUME ~isPerBackendFunctionalityKey(fj)
                   PROVE  FALSE
        OBVIOUS
      <4>1. j = fj /\ k = fk
        BY <2>6, KeyFacts
      <4> QED
        BY <2>1, <2>6, <4>1
    <3> HIDE DEF fj, fk, bj, bk, Index
    <3> QED
      BY <2>1, <2>3, <2>4, <2>6, <3>1, NumBackendsAssumption
  <2> QED
    BY <1>5, <2>5, <2>6 DEF Before
<1>6. ASSUME NEW k \in Contained(repr), toFunctionalityKey(k) = f,
             \A j \in Contained(repr) \ {k} : Before(j, k)
      PROVE  /\ Index(k) = index
             /\ isPerBackendFunctionalityKey(f) =>
                  /\ toRuntimePerBackendFunctionalityKey(f, highestBackendKey(repr)) = k
                  /\ offsetsAndMasks[f].offset + getBackendIndex(repr) = index
  <2> DEFINE b == toBackendComponent(k)
  <2>1. k \in RuntimeKey
    BY DEF Contained
  <2>2. Index(k) = FirstEntry(f)
                     + (IF isPerBackendFunctionalityKey(f) THEN b - 1 ELSE 0)
    BY <1>6, <2>1, EntryOfKey
  <2>3. CASE ~isPerBackendFunctionalityKey(f)
    BY <1>3, <2>2, <2>3
  <2>4. CASE isPerBackendFunctionalityKey(f)
    <3>1. f \in FunctionalityKey /\ b \in 1..num_backends
      BY <1>6, <2>1, <2>4, KeyFacts, NumBackendsAssumption
      DEF BackendComponent, InvalidBit
    <3>2. /\ FunctionalityBit(f) \in repr /\ b - 1 \in repr
          /\ k = toRuntimePerBackendFunctionalityKey(f, b)
      BY <1>6, <2>1, <2>4, ContainedFacts, KeyFacts
    <3>3. b - 1 \in repr \cap full_backend_mask
      BY <3>1, <3>2, NumBackendsAssumption DEF full_backend_mask
    <3>4. /\ highestBackendKey(repr) - 1 \in repr \cap full_backend_mask
          /\ b - 1 <= highestBackendKey(repr) - 1
          /\ highestBackendKey(repr) \in 0..num_backends
      BY <3>3, HighestBackend
    <3>5. highestBackendKey(repr) \in 1..num_backends
      BY <3>1, <3>4, NumBackendsAssumption
    <3> DEFINE j == toRuntimePerBackendFunctionalityKey(f, highestBackendKey(repr))
    <3>6. /\ j \in RuntimeKey /\ toFunctionalityKey(j) = f
          /\ toBackendComponent(j) = highestBackendKey(repr)
      BY <2>4, <3>1, <3>5, BackendKeyFacts
    <3>7. j \in Contained(repr)
      BY <2>4, <3>2, <3>4, <3>6, ContainedFacts
    <3>8. highestBackendKey(repr) = b
      <4> SUFFICES ASSUME highestBackendKey(repr) # b
                   PROVE  FALSE
        OBVIOUS
      <4>1. Before(j, k)
        BY <1>6, <3>6, <3>7
      <4> HIDE DEF j
      <4> QED
        BY <1>1, <1>6, <3>1, <3>4, <3>6, <4>1 DEF Before
    <3>9. getBackendIndex(repr) = b - 1
      BY <3>1, <3>8, HighestBackend
    <3> QED
      BY <1>3, <2>2, <2>4, <3>2, <3>8, <3>9, EntryOfWord
  <2> QED
    BY <2>3, <2>4
<1> QED
  BY <1>4, <1>5, <1>6 DEF TableFollowsOrder

\* The entries of the dispatch table follow the order of the keys and do not
\* overlap, and a set is dispatched to the entry of its highest key.
THEOREM TableIsOrdered == Spec => []TableFollowsOrder
<1>1. IInv => TableFollowsOrder
  BY TableHolds DEF IInv, LoopInv, TypeOK
<1> QED
  BY <1>1, InductiveInvariant, PTL

=============================================================================
