----------------------- MODULE DispatchKeySetChanges -----------------------
(***************************************************************************)
(* A client that changes the set of keys in the body of its loop.  The     *)
(* iterator reads the word through data_ptr_ on every increment, and its   *)
(* backend mask is meant for the functionality that was first behind its   *)
(* other mask: a change may put another one there.                         *)
(***************************************************************************)
EXTENDS DispatchKeySetIterator

VARIABLES
  stable,   \* keys that were in the set at begin() and ever since
  intruded  \* the loop has made a change that is not behind the iterator

cvars == <<repr, it, pc, yielded, stable, intruded>>

CInit ==
  /\ repr \in SUBSET Full
  /\ it = End /\ pc = "idle" /\ yielded = {}
  /\ stable = {} /\ intruded = FALSE

CBegin ==
  /\ Begin
  /\ stable' = Contained(repr) /\ intruded' = FALSE

CStep == LoopStep /\ UNCHANGED <<stable, intruded>>

\* A change that keeps all keys, and adds backends to them and functionalities
\* that come after the current one.
Behind(word) ==
  /\ repr \subseteq word
  /\ \A i \in word \ (repr \cup full_backend_mask) :
       i > FunctionalityBit(it.current_dispatchkey_idx)

\* The body of the loop assigns to the set.
InBody(word) ==
  /\ pc = "deref"
  /\ repr' = word
  /\ stable' = stable \cap Contained(word)
  /\ intruded' = (intruded \/ ~Behind(word))
  /\ UNCHANGED <<it, pc, yielded>>

CNext ==
  \/ CBegin \/ CStep
  \/ \E k \in DispatchKey : InBody(repr \cup KeySet(k)) \/ InBody(remove(repr, k))
  \/ \E b \in BackendComponent : InBody(remove_backend(repr, b))

CSpec == CInit /\ [][CNext]_cvars /\ WF_cvars(CStep)

-----------------------------------------------------------------------------
(* Correctness.                                                             *)

\* A loop whose changes are behind the iterator fails no TORCH_CHECK, sees all
\* keys that were there from its beginning, and each key once and in the order
\* of priority.  Another loop may not: without the backend that is next, or
\* with a functionality that comes before the current one, the backend mask is
\* applied to a functionality it is not meant for (DispatchKeySet.cpp:73, 101).
ChangesBehindAreSafe ==
  [][~intruded =>
       /\ pc' # "thrown"
       /\ pc = "advance" /\ pc' = "idle" => stable \subseteq yielded
       /\ pc = "deref" /\ pc' = "advance" =>
            \A j \in yielded : Before(j, Current)]_cvars

\* Keys that were always there are seen, at hand or still to come.
StableInv ==
  /\ pc = "advance" => stable \subseteq yielded \cup Remaining
  /\ pc = "deref" => stable \subseteq yielded \cup {Current} \cup Remaining

\* The inductive invariant: the one of a loop without changes, but for keys
\* that a change adds after they were passed.
CInv ==
  /\ repr \subseteq Full
  /\ ~intruded => LoopInv /\ StableInv

\* However often the set is changed, the loop ends, or its check does it.
LoopStops == pc = "advance" ~> pc \in {"idle", "thrown"}

=============================================================================
