----------------------------- MODULE TaskQueue -----------------------------
(***************************************************************************)
(* The worker-thread task queue of a connection (TaskQueue.c): an array of *)
(* tasks guarded by a mutex.  Any thread adds tasks, the queue thread runs *)
(* a pass over them, and the socket reader throws them all away before it  *)
(* reconnects.  A task is identified by the order in which it was added;   *)
(* what its processor answers (success, dont_advance, pop_me) is chosen    *)
(* freely, because the queue must work for every processor.                *)
(***************************************************************************)
EXTENDS Naturals, Sequences, FiniteSets

CONSTANTS Threads,       \* threads that use the queue
          NoThread,      \* the guard when nobody holds it
          MaxTasks,      \* bound: tasks ever submitted
          AllocMayFail   \* whether dx_calloc may return NULL

ASSUME TaskQueueAssumption == /\ NoThread \notin Threads
                              /\ MaxTasks \in Nat
                              /\ AllocMayFail \in BOOLEAN

VARIABLES elements,   \* tqd->elements[0 .. size-1], the identities of the tasks
          guard,      \* owner of tqd->guard
          i,          \* the index local to dx_execute_task_queue
          res,        \* its cumulative result
          inPass,     \* the while loop is still running
          alive,      \* the queue has not been destroyed
          next,       \* identity of the next task
          begun,      \* history: tasks whose processor has been run
          released,   \* history: tasks that ran and asked to be popped
          discarded   \* history: tasks told to free their resources unrun

vars == <<elements, guard, i, res, inPass, alive, next, begun, released, discarded>>

Flags == {"success", "dont_advance", "pop_me"}
Tasks == 1..MaxTasks

Range(s) == {s[k] : k \in DOMAIN s}

\* Mutant of Without: the element after position k goes.
WithoutNext(s, k) == [j \in 1..(Len(s) - 1) |-> IF j <= k THEN s[j] ELSE s[j + 1]]

\* DX_ARRAY_DELETE of position k (counted from 1).
Without(s, k) == [j \in 1..(Len(s) - 1) |-> IF j < k THEN s[j] ELSE s[j + 1]]

TypeOK == /\ elements \in Seq(Tasks)
          /\ guard \in Threads \cup {NoThread}
          /\ i \in Nat
          /\ res \in BOOLEAN
          /\ inPass \in BOOLEAN
          /\ alive \in BOOLEAN
          /\ next \in 1..(MaxTasks + 1)
          /\ begun \subseteq Tasks
          /\ released \subseteq Tasks
          /\ discarded \subseteq Tasks

-----------------------------------------------------------------------------
\* dx_create_task_queue
Init == /\ elements = <<>>
        /\ guard = NoThread
        /\ i = 0
        /\ res = TRUE
        /\ inPass = FALSE
        /\ alive = TRUE
        /\ next = 1
        /\ begun = {}
        /\ released = {}
        /\ discarded = {}

\* Mutant of Add: the task is put in front of the others.
AddFirst == /\ alive
            /\ guard = NoThread
            /\ next <= MaxTasks
            /\ elements' = <<next>> \o elements
            /\ next' = next + 1
            /\ UNCHANGED <<guard, i, res, inPass, alive, begun, released, discarded>>

\* dx_add_task_to_queue: lock, append at the end, unlock.
Add == /\ alive
       /\ guard = NoThread
       /\ next <= MaxTasks
       /\ elements' = Append(elements, next)
       /\ next' = next + 1
       /\ UNCHANGED <<guard, i, res, inPass, alive, begun, released, discarded>>

\* dx_execute_task_queue takes the guard and keeps it for the whole pass.
BeginExecute(t) == /\ alive
                   /\ guard = NoThread
                   /\ guard' = t
                   /\ i' = 0
                   /\ res' = TRUE
                   /\ inPass' = TRUE
                   /\ UNCHANGED <<elements, alive, next, begun, released, discarded>>

\* Mutant of RunTask: the index moves on although the element was deleted.
RunTaskSkips(out, allocFails) ==
  LET task   == elements[i + 1]
      popped == "pop_me" \in out /\ ~allocFails
      ok     == res /\ "success" \in out /\ ~allocFails
      stop   == "dont_advance" \in out \/ ~ok
  IN /\ inPass
     /\ i < Len(elements)
     /\ allocFails => AllocMayFail /\ "pop_me" \in out
     /\ elements' = IF popped THEN Without(elements, i + 1) ELSE elements
     /\ res' = ok
     /\ inPass' = ~stop
     /\ i' = IF stop THEN i ELSE i + 1
     /\ begun' = begun \cup {task}
     /\ released' = IF "pop_me" \in out THEN released \cup {task} ELSE released
     /\ UNCHANGED <<guard, alive, next, discarded>>

\* One iteration of the loop: the processor answers with the flags out; the
\* reallocation inside DX_ARRAY_DELETE may fail, and then the element stays.
RunTask(out, allocFails) ==
  LET task   == elements[i + 1]
      popped == "pop_me" \in out /\ ~allocFails
      ok     == res /\ "success" \in out /\ ~allocFails
      stop   == "dont_advance" \in out \/ ~ok
  IN /\ inPass
     /\ i < Len(elements)
     /\ allocFails => AllocMayFail /\ "pop_me" \in out
     /\ elements' = IF popped THEN Without(elements, i + 1) ELSE elements
     /\ res' = ok
     /\ inPass' = ~stop
     /\ i' = IF stop \/ "pop_me" \in out THEN i ELSE i + 1
     /\ begun' = begun \cup {task}
     /\ released' = IF "pop_me" \in out THEN released \cup {task} ELSE released
     /\ UNCHANGED <<guard, alive, next, discarded>>

\* The pass leaves the loop, by a break or at the end of the array, and unlocks.
EndExecute == /\ guard # NoThread
              /\ inPass => i >= Len(elements)
              /\ guard' = NoThread
              /\ inPass' = FALSE
              /\ UNCHANGED <<elements, i, res, alive, next, begun, released, discarded>>

\* Mutant of DiscardAll: the tasks free their resources and stay queued.
DiscardKeeps == /\ alive
                /\ guard = NoThread
                /\ UNCHANGED elements
                /\ discarded' = discarded \cup Range(elements)

\* The loop of dx_cleanup_task_queue: every task frees its resources.
DiscardAll == /\ alive
              /\ guard = NoThread
              /\ elements' = <<>>
              /\ discarded' = discarded \cup Range(elements)

\* dx_cleanup_task_queue
Cleanup == /\ DiscardAll
           /\ UNCHANGED <<guard, i, res, inPass, alive, next, begun, released>>

\* dx_destroy_task_queue: a cleanup, and the queue itself is freed.
Destroy == /\ DiscardAll
           /\ alive' = FALSE
           /\ UNCHANGED <<guard, i, res, inPass, next, begun, released>>

Next == \/ Add
        \/ \E t \in Threads : BeginExecute(t)
        \/ \E out \in SUBSET Flags, f \in BOOLEAN : RunTask(out, f)
        \/ EndExecute
        \/ Cleanup
        \/ Destroy

Spec == Init /\ [][Next]_vars
-----------------------------------------------------------------------------
\* Every submitted task is in exactly one place: still queued, popped after it
\* ran, or thrown away by a cleanup.  A task in two places would have its data
\* used or freed twice (the processors free their data when they are popped
\* and when they are told to free resources); a task in none would be lost.
TaskAccounting == /\ Range(elements) \cup released \cup discarded = 1..(next - 1)
                  /\ Range(elements) \cap released = {}
                  /\ Range(elements) \cap discarded = {}
                  /\ released \cap discarded = {}

\* No task is run for the first time before every task submitted earlier has
\* been run or thrown away: this is what lets the connection submit "describe
\* protocol", "describe records" and "subscribe" and rely on that order,
\* although a pass may stop anywhere and later passes start over.
FirstRunsInOrder == \A t \in begun : 1..(t - 1) \subseteq begun \cup discarded

\* TaskQueue.h: a task that answers pop_me "must be popped from the queue".
PopMeIsPopped == Range(elements) \cap released = {}

\* The queue implements the order and the at-most-once promise of TaskService.
Service == INSTANCE TaskService WITH waiting <- Range(elements),
                                     finished <- released \cup discarded
ServiceSpec == Service!Spec

-----------------------------------------------------------------------------
\* The inductive invariant behind the properties above: the tasks are queued
\* in the order of submission, the part of the array a pass has gone over has
\* run, and only the thread that holds the guard is in a pass.
Ordered == \A j, k \in 1..Len(elements) : j < k => elements[j] < elements[k]
PassPrefixBegun == inPass => /\ i <= Len(elements)
                             /\ \A j \in 1..i : elements[j] \in begun
GuardHeldInPass == inPass => guard # NoThread /\ alive
ReleasedBegun == released \subseteq begun /\ begun \subseteq 1..(next - 1)
QueueInv == /\ TypeOK
            /\ TaskAccounting
            /\ FirstRunsInOrder
            /\ Ordered
            /\ PassPrefixBegun
            /\ GuardHeldInPass
            /\ ReleasedBegun
=============================================================================
