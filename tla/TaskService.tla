---------------------------- MODULE TaskService ----------------------------
(***************************************************************************)
(* What the rest of the library relies on from the task queue, without     *)
(* arrays, guards or passes: tasks are submitted in an order, none starts  *)
(* before the waiting tasks submitted earlier have started, and a task     *)
(* that is finished, or has been thrown away, is never touched again.      *)
(***************************************************************************)
EXTENDS Naturals

CONSTANT MaxTasks   \* bound: tasks ever submitted

VARIABLES next, waiting, begun, finished

vars == <<next, waiting, begun, finished>>

Init == next = 1 /\ waiting = {} /\ begun = {} /\ finished = {}

Submit == /\ next <= MaxTasks
          /\ waiting' = waiting \cup {next}
          /\ next' = next + 1
          /\ UNCHANGED <<begun, finished>>

\* A task runs; it stays to run again, or it is finished.
Run(t) == /\ t \in waiting
          /\ \A u \in waiting : u < t => u \in begun
          /\ begun' = begun \cup {t}
          /\ \/ UNCHANGED <<waiting, finished>>
             \/ /\ waiting' = waiting \ {t}
                /\ finished' = finished \cup {t}
          /\ UNCHANGED next

ThrowAway == /\ waiting' = {}
             /\ finished' = finished \cup waiting
             /\ UNCHANGED <<next, begun>>

Next == Submit \/ (\E t \in waiting : Run(t)) \/ ThrowAway

Spec == Init /\ [][Next]_vars
=============================================================================
