--------------------------- MODULE SnapshotProofs ---------------------------
(***************************************************************************)
(* Proofs about Snapshot: for every set of keys, values and listeners, the *)
(* listeners of a snapshot of orders or of time series hold between        *)
(* transactions exactly what the server has sent (by the inductive         *)
(* invariant ReplicaInv), and no snapshot is freed under the reader.       *)
(***************************************************************************)
EXTENDS Snapshot, TLAPS

\* Every kind but spread orders: dx_is_zero_event and the macros of the
\* public header agree on what a removal is.
LEMMA SameRemovals ==
  ASSUME Kind # "spread_order", NEW ev
  PROVE  Removes(ev) = Removal(ev)
BY SnapshotAssumption DEF Removes, Removal

\* Following an event keeps a table a table.
LEMMA FollowType ==
  ASSUME NEW table \in Tables, NEW ev \in Events
  PROVE  Follow(table, ev) \in Tables
BY SnapshotAssumption DEF Follow, Tables, Events

LEMMA NoTableType == NoTable \in Tables /\ NoTable \in [Keys -> Touched \cup {None}]
BY DEF NoTable, Tables

\* An event that joins the transaction of a listener leads it to the table
\* that follows the event.
LEMMA PatchFollows ==
  ASSUME NEW table \in Tables, NEW tx \in [Keys -> Touched \cup {None}], NEW ev \in Events
  PROVE  Patched(table, [tx EXCEPT ![ev.key] = [val |-> ev.val, rm |-> ev.rm]])
           = Follow(Patched(table, tx), ev)
<1> DEFINE tx2 == [tx EXCEPT ![ev.key] = [val |-> ev.val, rm |-> ev.rm]]
<1>1. [val |-> ev.val, rm |-> ev.rm] # None
  BY SnapshotAssumption DEF Events, Contents
<1> QED
  BY <1>1 DEF Patched, Follow, Removal, Events, Tables

\* A transaction without records changes nothing.
LEMMA PatchNothing ==
  ASSUME NEW table \in Tables PROVE Patched(table, NoTable) = table
BY DEF Patched, NoTable, Tables

\* Every step keeps ReplicaInv.
LEMMA ReplicaStep ==
  ASSUME Kind # "spread_order", ReplicaInv, [Next]_vars
  PROVE  ReplicaInv'
<1> USE SnapshotAssumption
<1>1. ASSUME NEW ev \in Events, Event(ev) PROVE ReplicaInv'
  <2> USE <1>1 DEF Event, listVars
  <2>1. TypeOK'
    <3>1. records' \in Tables /\ truth' \in Tables
      BY FollowType, NoTableType, SameRemovals
      DEF ReplicaInv, TypeOK, Cleared, Follow, RemoveRecord, UpdateRecord
    <3>2. lastTx' \in [Keys -> Touched \cup {None}]
      BY NoTableType DEF ReplicaInv, TypeOK, Cleared, Collect, Touched, Events
    <3> QED
      BY <3>1, <3>2 DEF ReplicaInv, TypeOK, StatusAfter, Events
  <2>2. status' = IF snapOpen' THEN "begin" ELSE IF txOpen' THEN "pending" ELSE "full"
    BY DEF ReplicaInv, StatusAfter, Events, TypeOK
  <2>3. records' = truth'
    BY SameRemovals DEF ReplicaInv, Cleared, Follow, RemoveRecord, UpdateRecord
  <2>4. ASSUME NEW l \in seen PROVE Behind(l)'
    <3>1. view[l] \in Tables /\ (published => Patched(view[l], lastTx) = truth)
      BY <2>4 DEF ReplicaInv, Behind
    <3>2. hasInc
      BY <2>4 DEF ReplicaInv, TypeOK
    <3>3. CASE published' 
      <4>1. lastTx' = [lastTx EXCEPT ![ev.key] = [val |-> ev.val, rm |-> ev.rm]]
        BY <3>2, <3>3 DEF Collect, Cleared, ReplicaInv, TypeOK, Events
      <4>2. truth' = Follow(truth, ev)
        BY <3>3 DEF Cleared, ReplicaInv, TypeOK, Events
      <4>3. Patched(view[l], lastTx') = truth'
        <5>1. lastTx \in [Keys -> Touched \cup {None}]
          BY DEF ReplicaInv, TypeOK
        <5>2. Patched(view[l], lastTx') = Follow(Patched(view[l], lastTx), ev)
          <6>1. Patched(view[l], [lastTx EXCEPT ![ev.key] = [val |-> ev.val, rm |-> ev.rm]])
                  = Follow(Patched(view[l], lastTx), ev)
            BY ONLY <3>1, <5>1, ev \in Events, PatchFollows
          <6> QED
            BY ONLY <4>1, <6>1
        <5>3. published
          BY <3>3 DEF ReplicaInv, TypeOK, Events
        <5> QED
          BY <3>1, <4>2, <5>2, <5>3
      <4> QED
        BY <3>1, <4>3 DEF Behind, Patched, Removal
    <3> QED
      BY <3>1, <3>3 DEF Behind
  <2> QED
    BY <2>1, <2>2, <2>3, <2>4 DEF ReplicaInv, TypeOK
<1>2. ASSUME LockGuard PROVE ReplicaInv'
  BY <1>2 DEF LockGuard, ReplicaInv, TypeOK, Behind, Patched, Removal,
              dataVars, listVars, serverVars
<1>3. ASSUME NEW l \in Listeners, CallListener(l) PROVE ReplicaInv'
  <2> USE <1>3 DEF CallListener, dataVars, serverVars
  <2>1. view'[l] = truth
    BY DEF ReplicaInv, TypeOK, GetsAll, Behind
  <2>2. \A m \in Listeners : m # l => view'[m] = view[m] /\ Behind(m)' = Behind(m)
    BY DEF ReplicaInv, TypeOK, Behind, Patched, Removal
  <2>3. TypeOK'
    BY <2>1 DEF ReplicaInv, TypeOK
  <2>4. \A m \in attached' \cap Incremental : m \notin seen' => view'[m] = None
    BY <2>2 DEF ReplicaInv, TypeOK, GetsAll
  <2>5. todo' \subseteq attached' /\ \A m \in attached' : IF m \in todo' THEN m \in seen' => Behind(m)'
                                                   ELSE view'[m] = truth'
    BY <2>1, <2>2 DEF ReplicaInv, TypeOK, GetsAll
  <2> QED
    BY <2>1, <2>2, <2>3, <2>4, <2>5 DEF ReplicaInv, TypeOK
<1>4. ASSUME UnlockGuard PROVE ReplicaInv'
  BY <1>4 DEF UnlockGuard, ReplicaInv, TypeOK, dataVars, listVars, serverVars
<1>5. ASSUME EndTransaction PROVE ReplicaInv'
  <2> USE <1>5 DEF EndTransaction, listVars, serverVars
  <2>1. ASSUME NEW l \in seen PROVE Behind(l)'
    BY <2>1, PatchNothing, NoTableType DEF ReplicaInv, TypeOK, Behind, Patched, Removal
  <2>2. TypeOK'
    BY NoTableType DEF ReplicaInv, TypeOK
  <2> QED
    BY <2>1, <2>2 DEF ReplicaInv, TypeOK
<1>6. ASSUME NEW l \in Listeners, AddListener(l) \/ AddIncListener(l) PROVE ReplicaInv'
  <2> USE <1>6 DEF AddListener, AddIncListener, Attach, dataVars, serverVars
  <2>1. \A m \in Listeners : Behind(m)' = Behind(m)
    BY DEF Behind, Patched, Removal
  <2>2. TypeOK' /\ view[l] = None /\ l \notin seen
    BY DEF ReplicaInv, TypeOK
  <2>3. attached' \cap Incremental # {} => hasInc'
    BY DEF ReplicaInv, TypeOK
  <2> QED
    BY <2>1, <2>2, <2>3 DEF ReplicaInv, TypeOK
<1>7. ASSUME NEW l \in Listeners, RemoveListener(l) \/ RemoveIncListener(l) PROVE ReplicaInv'
  <2> USE <1>7 DEF RemoveListener, RemoveIncListener, Detach, dataVars, serverVars
  <2>1. \A m \in Listeners : m # l => view'[m] = view[m] /\ Behind(m)' = Behind(m)
    BY DEF ReplicaInv, TypeOK, Behind, Patched, Removal
  <2>2. TypeOK'
    BY DEF ReplicaInv, TypeOK
  <2> QED
    BY <2>1, <2>2 DEF ReplicaInv, TypeOK
<1>8. ASSUME CloseSubscription PROVE ReplicaInv'
  BY <1>8 DEF CloseSubscription, ReplicaInv, TypeOK, dataVars, listVars, serverVars
<1>9. ASSUME CloseSnapshot PROVE ReplicaInv'
  BY <1>9, NoTableType DEF CloseSnapshot, ReplicaInv, TypeOK, serverVars
<1>10. ASSUME UNCHANGED vars PROVE ReplicaInv'
  BY <1>10 DEF vars, dataVars, listVars, serverVars, ReplicaInv, TypeOK, Behind, Patched, Removal
<1> QED
  BY <1>1, <1>2, <1>3, <1>4, <1>5, <1>6, <1>7, <1>8, <1>9, <1>10 DEF Next, Reader, Application

\* The invariant holds from the start.
LEMMA ReplicaInit == Init => ReplicaInv
BY NoTableType, SnapshotAssumption DEF Init, ReplicaInv, TypeOK, Behind

\* The inductive invariant is an invariant of every snapshot that is not one
\* of spread orders.
THEOREM ReplicaInvariant ==
  ASSUME Kind # "spread_order" PROVE Spec => []ReplicaInv
<1>1. ReplicaInv /\ [Next]_vars => ReplicaInv'
  BY ReplicaStep
<1> QED
  BY <1>1, ReplicaInit, PTL DEF Spec

\* Listeners of a snapshot hold between transactions exactly what the server
\* has sent: event_listener and dx_snapshot_call_listeners lose, invent and
\* reorder nothing, for any number of listeners that come and go.
THEOREM ReplicaTheorem ==
  ASSUME Kind # "spread_order" PROVE Spec => []ReplicaExact
<1>1. ReplicaInv => ReplicaExact
  BY DEF ReplicaInv, ReplicaExact
<1> QED
  BY <1>1, ReplicaInvariant, PTL

\* Listeners are never called inside a snapshot or a transaction.
THEOREM WholeTransactionsTheorem ==
  ASSUME Kind # "spread_order" PROVE Spec => []WholeTransactions
<1>1. ReplicaInv => WholeTransactions
  BY DEF ReplicaInv, WholeTransactions
<1> QED
  BY <1>1, ReplicaInvariant, PTL

\* The reader is inside event_listener only while the snapshot is open: closing
\* takes the mutex of the subscription, which the reader holds.  This needs
\* nothing of the records, so it holds for spread orders too.
InsideOpen == /\ pc \in {"idle", "lock", "calling", "after"}
              /\ life \in {"open", "unsubscribed", "freed"}
              /\ pc # "idle" => life = "open"

\* Every step keeps InsideOpen, for every kind of snapshot.
LEMMA InsideOpenStep ==
  ASSUME InsideOpen, [Next]_vars PROVE InsideOpen'
<1> USE DEF InsideOpen
<1>1. ASSUME Reader PROVE InsideOpen'
  BY <1>1 DEF Reader, Event, LockGuard, CallListener, UnlockGuard, EndTransaction
<1>2. ASSUME NEW l \in Listeners,
             AddListener(l) \/ AddIncListener(l) \/ RemoveListener(l) \/ RemoveIncListener(l)
      PROVE  InsideOpen'
  BY <1>2 DEF AddListener, AddIncListener, Attach, RemoveListener, RemoveIncListener, Detach
<1>3. ASSUME CloseSubscription \/ CloseSnapshot PROVE InsideOpen'
  BY <1>3 DEF CloseSubscription, CloseSnapshot
<1>4. ASSUME UNCHANGED vars PROVE InsideOpen'
  BY <1>4 DEF vars
<1> QED
  BY <1>1, <1>2, <1>3, <1>4 DEF Next, Application

\* dxf_close_snapshot never frees the snapshot under a running event_listener,
\* for every kind of event, spread orders included.
THEOREM NoUseAfterFreeTheorem == Spec => []NoUseAfterFree
<1>1. Init => InsideOpen
  BY DEF Init, InsideOpen
<1>2. InsideOpen /\ [Next]_vars => InsideOpen'
  BY InsideOpenStep
<1>3. InsideOpen => NoUseAfterFree
  BY DEF InsideOpen, NoUseAfterFree
<1> QED
  BY <1>1, <1>2, <1>3, PTL DEF Spec
=============================================================================
