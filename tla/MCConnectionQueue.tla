------------------------- MODULE MCConnectionQueue -------------------------
(* Model checking of ConnectionQueue. *)
EXTENDS ConnectionQueue
=============================================================================
