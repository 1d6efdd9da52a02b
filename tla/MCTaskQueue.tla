---------------------------- MODULE MCTaskQueue ----------------------------
(* Model checking of TaskQueue. *)
EXTENDS TaskQueue
=============================================================================
