-------------------------- MODULE ConnectionQueue --------------------------
(***************************************************************************)
(* The deferred closing of connections (DXFeed.c).  A connection cannot be *)
(* closed by one of its own threads, because closing waits for them; a     *)
(* listener that asks for it puts the connection into g_connection_queue,  *)
(* and the next API call of any thread closes what is queued before it     *)
(* does its own work.                                                      *)
(*                                                                         *)
(* One worker thread stands for the threads of a connection and bears its  *)
(* name.  The application closes a connection at most once.                *)
(***************************************************************************)
EXTENDS Naturals, Sequences

CONSTANTS Connections,
          Apps,            \* threads of the application
          Nobody,
          ListenerCalls    \* what listeners do: "closeOwn", "closeOther", "api"

ASSUME ConnectionQueueAssumption == /\ Nobody \notin Connections \cup Apps
                                    /\ Connections \cap Apps = {}
                                    /\ ListenerCalls \subseteq {"closeOwn", "closeOther", "api"}

VARIABLES pc,         \* where each thread is
          queue,      \* g_connection_queue.elements
          queueGuard, \* owner of g_connection_queue.guard
          idx,        \* the index local to dx_close_queued_connections
          target,     \* the connection a thread is closing
          stop,       \* connections whose threads have been told to terminate
          live,       \* connections that have not been freed
          requested   \* history: connections dxf_close_connection was called for

deferralVars == <<pc, queue, queueGuard, idx, target, stop, live, requested>>

ApiThreads == Connections \cup Apps

\* Where a thread is when it may call the API.
Base(t) == IF t \in Apps THEN "out" ELSE "callback"

DeferralTypeOK == /\ pc \in [ApiThreads -> {"out", "callback", "lock", "loop", "join",
                                            "enqueue", "closeJoin", "done"}]
                  /\ queue \in Seq(Connections)
                  /\ queueGuard \in ApiThreads \cup {Nobody}
                  /\ idx \in [ApiThreads -> Nat]
                  /\ target \in [ApiThreads -> Connections \cup {Nobody}]
                  /\ stop \subseteq Connections /\ live \subseteq Connections /\ requested \subseteq Connections

DeferralInit == /\ pc = [t \in ApiThreads |-> "out"]
                /\ queue = <<>> /\ queueGuard = Nobody
                /\ idx = [t \in ApiThreads |-> 0]
                /\ target = [t \in ApiThreads |-> Nobody]
                /\ stop = {} /\ live = Connections /\ requested = {}

Goto(t, from, to) == pc[t] = from /\ pc' = [pc EXCEPT ![t] = to]

\* A turn of a worker's loop: it terminates if it has been told to, and runs
\* the application's listeners otherwise.
WorkerTurn(c) == /\ Goto(c, "out", IF c \in stop THEN "done" ELSE "callback")
                 /\ UNCHANGED <<queue, queueGuard, idx, target, stop, live, requested>>

ListenerReturns(c) == /\ Goto(c, "callback", "out")
                      /\ UNCHANGED <<queue, queueGuard, idx, target, stop, live, requested>>

\* dx_perform_common_actions at the head of an API call: the size is looked at
\* without the guard.
ApiCall(t) == /\ t \in Apps \/ "api" \in ListenerCalls
              /\ queue # <<>>
              /\ Goto(t, Base(t), "lock")
              /\ UNCHANGED <<queue, queueGuard, idx, target, stop, live, requested>>

\* Mutant of Lock: the loop starts without waiting for the guard.
LockNothing(t) == /\ Goto(t, "lock", "loop")
                  /\ queueGuard' = t
                  /\ idx' = [idx EXCEPT ![t] = 1]
                  /\ UNCHANGED <<queue, target, stop, live, requested>>

\* dx_close_queued_connections
Lock(t) == /\ Goto(t, "lock", "loop")
           /\ queueGuard = Nobody /\ queueGuard' = t
           /\ idx' = [idx EXCEPT ![t] = 1]
           /\ UNCHANGED <<queue, target, stop, live, requested>>

\* dx_deinit_connection begins: the threads of connection c are told to stop.
Deinit(t, c, from, to) == /\ Goto(t, from, to)
                          /\ stop' = stop \cup {c}
                          /\ target' = [target EXCEPT ![t] = c]

\* dxf_close_connection of a queued connection.  In a thread of that connection
\* it finds the connection queued already and does nothing.
CloseQueued(t) ==
  /\ pc[t] = "loop" /\ idx[t] <= Len(queue)
  /\ IF queue[idx[t]] = t
     THEN /\ idx' = [idx EXCEPT ![t] = @ + 1]
          /\ UNCHANGED <<pc, stop, target>>
     ELSE /\ Deinit(t, queue[idx[t]], "loop", "join")
          /\ UNCHANGED idx
  /\ UNCHANGED <<queue, queueGuard, live, requested>>

\* The threads have ended and the connection is freed.
Join(t) == /\ pc[t] \in {"join", "closeJoin"} /\ pc[target[t]] = "done"
           /\ live' = live \ {target[t]}
           /\ target' = [target EXCEPT ![t] = Nobody]
           /\ pc' = [pc EXCEPT ![t] = IF pc[t] = "join" THEN "loop" ELSE Base(t)]
           /\ idx' = IF pc[t] = "join" THEN [idx EXCEPT ![t] = @ + 1] ELSE idx
           /\ UNCHANGED <<queue, queueGuard, stop, requested>>

\* Mutant of EndLoop: the queue keeps its size.
EndLoopKeeps(t) == /\ idx[t] > Len(queue)
                   /\ Goto(t, "loop", Base(t))
                   /\ queueGuard' = Nobody
                   /\ UNCHANGED <<queue, idx, target, stop, live, requested>>

EndLoop(t) == /\ idx[t] > Len(queue)
              /\ Goto(t, "loop", Base(t))
              /\ queue' = <<>> /\ queueGuard' = Nobody
              /\ UNCHANGED <<idx, target, stop, live, requested>>

\* dxf_close_connection, called by the application or by a listener.
Close(t, c) == /\ c \in live \ requested
               /\ t \notin Apps => (IF t = c THEN "closeOwn" ELSE "closeOther") \in ListenerCalls
               /\ requested' = requested \cup {c}
               /\ IF t = c
                  THEN Goto(t, Base(t), "enqueue") /\ UNCHANGED <<stop, target>>
                  ELSE Deinit(t, c, Base(t), "closeJoin")
               /\ UNCHANGED <<queue, queueGuard, idx, live>>

\* Mutant of Enqueue: a queue whose guard is taken is left alone.
EnqueueTries(t) == /\ Goto(t, "enqueue", Base(t))
                   /\ queue' = IF queueGuard = Nobody THEN Append(queue, t) ELSE queue
                   /\ UNCHANGED <<queueGuard, idx, target, stop, live, requested>>

\* dx_queue_connection_for_close
Enqueue(t) == /\ Goto(t, "enqueue", Base(t))
              /\ queueGuard = Nobody
              /\ queue' = Append(queue, t)
              /\ UNCHANGED <<queueGuard, idx, target, stop, live, requested>>

InCall(t) == Lock(t) \/ CloseQueued(t) \/ Join(t) \/ EndLoop(t) \/ Enqueue(t)
Worker(c) == WorkerTurn(c) \/ ListenerReturns(c)

DeferralNext == \/ \E t \in ApiThreads : ApiCall(t) \/ InCall(t) \/ \E c \in Connections : Close(t, c)
                \/ \E c \in Connections : Worker(c)

DeferralSpec == DeferralInit /\ [][DeferralNext]_deferralVars
-----------------------------------------------------------------------------
Closing(t) == pc[t] \in {"join", "closeJoin"}

\* No connection is freed twice, although several threads may find the queue
\* non-empty at the same time: what a thread closes still exists, and no other
\* thread is closing it.
NoDoubleClose == \A t \in ApiThreads : Closing(t) =>
                    /\ target[t] \in live
                    /\ \A u \in ApiThreads \ {t} : ~(Closing(u) /\ target[u] = target[t])

\* A connection the application has closed is closed, being closed, or queued:
\* the deferral forgets none.
NoLostClose == \A c \in requested :
                  \/ c \notin live
                  \/ pc[c] = "enqueue"
                  \/ \E t \in ApiThreads : Closing(t) /\ target[t] = c
                  \/ \E k \in DOMAIN queue : queue[k] = c

\* A thread that waits for a connection's worker does not hold the guard that
\* worker waits for.  This is false once listeners call the API: the worker of a
\* queued connection then waits for the thread that waits for it.
NoJoinCycle == \A t \in ApiThreads : Closing(t) /\ queueGuard = t =>
                  pc[target[t]] \notin {"lock", "enqueue"}

\* Every thread goes on where it can, listeners return, and the application
\* goes on calling the API.
LiveSpec == /\ DeferralSpec
            /\ \A t \in ApiThreads : WF_deferralVars(InCall(t))
            /\ \A c \in Connections : WF_deferralVars(Worker(c))
            /\ \A t \in Apps : WF_deferralVars(ApiCall(t))

\* Every connection that was closed, by whatever thread, is freed in the end.
CloseCompletes == \A c \in Connections : c \in requested ~> c \notin live
=============================================================================
