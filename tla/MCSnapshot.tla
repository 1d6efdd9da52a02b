----------------------------- MODULE MCSnapshot -----------------------------
(* Model checking of Snapshot. *)
EXTENDS Snapshot, TLC

Symmetry == Permutations(Incremental) \cup Permutations(Keys)
=============================================================================
