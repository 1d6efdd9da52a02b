----------------------------- MODULE MCDXArray -----------------------------
(* Model checking of DXArray. *)
EXTENDS DXArray
=============================================================================
