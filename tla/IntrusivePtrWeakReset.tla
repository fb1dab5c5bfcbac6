----------------------- MODULE IntrusivePtrWeakReset -----------------------
(***************************************************************************)
(* IntrusivePtr with a client that also calls weak_intrusive_ptr::reset(). *)
(* Unlike intrusive_ptr::reset(), it gives the count up and keeps target_, *)
(* so that the pointer will give it up again in its destructor.            *)
(***************************************************************************)
EXTENDS IntrusivePtr

\* w.reset() runs reset_() on target_ and leaves target_ as it is.
WeakReset(t, w) ==
  /\ pc[t] = "idle"
  /\ weak[w] # NULL /\ ~Pinned(w)
  /\ weak' = [weak EXCEPT ![t] = weak[w]]
  /\ Goto(t, "wdec")
  /\ UNCHANGED <<refcount, weakcount, life, strong, frame>>

ResetNext == Next \/ \E t \in Thread, w \in WeakPtr : WeakReset(t, w)

ResetSpec == Init /\ [][ResetNext]_vars

=============================================================================
