------------------------ MODULE MCEventSubscription ------------------------
(* Model checking of EventSubscription. *)
EXTENDS EventSubscription, TLC

Symmetry == Permutations(Subs) \cup Permutations(Listeners)
=============================================================================
