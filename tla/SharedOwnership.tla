-------------------------- MODULE SharedOwnership --------------------------
(***************************************************************************)
(* What intrusive_ptr and weak_intrusive_ptr promise their users, without  *)
(* counters, threads or pointer objects: a target lives as long as it has  *)
(* an owner, its memory stays as long as an owner or a watcher is left,    *)
(* and a watcher becomes an owner only while there is another owner.       *)
(* Module IntrusivePtr is shown to implement this specification.           *)
(***************************************************************************)
EXTENDS Naturals

CONSTANT Object

VARIABLES
  phase,     \* "free", "live", or "released": only the memory is left
  owners,    \* number of strong references
  watchers   \* number of weak references

ovars == <<phase, owners, watchers>>

Init ==
  /\ phase = [o \in Object |-> "free"]
  /\ owners = [o \in Object |-> 0]
  /\ watchers = [o \in Object |-> 0]

\* A new target has one owner.
Create(o) ==
  /\ phase[o] = "free"
  /\ phase' = [phase EXCEPT ![o] = "live"]
  /\ owners' = [owners EXCEPT ![o] = 1]
  /\ UNCHANGED watchers

\* Only what an owner keeps alive gets another owner.
Acquire(o) ==
  /\ phase[o] = "live" /\ owners[o] > 0
  /\ owners' = [owners EXCEPT ![o] = @ + 1]
  /\ UNCHANGED <<phase, watchers>>

Drop(o) ==
  /\ phase[o] = "live" /\ owners[o] > 0
  /\ owners' = [owners EXCEPT ![o] = @ - 1]
  /\ UNCHANGED <<phase, watchers>>

Observe(o) ==
  /\ phase[o] # "free" /\ owners[o] + watchers[o] > 0
  /\ watchers' = [watchers EXCEPT ![o] = @ + 1]
  /\ UNCHANGED <<phase, owners>>

Unobserve(o) ==
  /\ phase[o] # "free" /\ watchers[o] > 0
  /\ watchers' = [watchers EXCEPT ![o] = @ - 1]
  /\ UNCHANGED <<phase, owners>>

\* release_resources(), once, after the last owner is gone.
Release(o) ==
  /\ phase[o] = "live" /\ owners[o] = 0
  /\ phase' = [phase EXCEPT ![o] = "released"]
  /\ UNCHANGED <<owners, watchers>>

\* The destructor, once, after the last reference is gone.
Destroy(o) ==
  /\ phase[o] # "free" /\ owners[o] = 0 /\ watchers[o] = 0
  /\ phase' = [phase EXCEPT ![o] = "free"]
  /\ UNCHANGED <<owners, watchers>>

Next ==
  \E o \in Object :
    \/ Create(o) \/ Acquire(o) \/ Drop(o) \/ Observe(o) \/ Unobserve(o)
    \/ Release(o) \/ Destroy(o)

Spec == Init /\ [][Next]_ovars

\* What has no owner is cleaned up without anybody asking for it.
FairSpec == Spec /\ \A o \in Object : WF_ovars(Release(o) \/ Destroy(o))

=============================================================================
