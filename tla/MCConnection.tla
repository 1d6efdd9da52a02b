---------------------------- MODULE MCConnection ----------------------------
(* Model checking of Connection. *)
EXTENDS Connection
=============================================================================
