------------------------------ MODULE Snapshot ------------------------------
(***************************************************************************)
(* A snapshot object (Snapshot.c): records kept up to date from flagged    *)
(* events, and two kinds of listeners, called at the end of a transaction. *)
(* A full listener is given all records, an incremental one all records    *)
(* once and then only what the last transaction touched.                   *)
(*                                                                         *)
(* The reader thread runs event_listener, the application attaches,        *)
(* detaches and closes.  snapshot_data->guard is held exactly while pc is  *)
(* "calling"; the mutex of the subscription, which closing waits for, is   *)
(* held by the reader whenever pc is not "idle".  A record is its value or *)
(* None; the sorted arrays of records, keys and strings are functions of   *)
(* the key.                                                                *)
(***************************************************************************)
EXTENDS Integers

CONSTANTS Keys,          \* time_int_field and index of a record
          Values,        \* contents of a record other than size 0
          Zero, None,    \* contents with size 0; no record
          Kind,          \* event_id: "order", "spread_order" or "other"
          Listeners,
          Incremental    \* the listeners attached as incremental ones

ASSUME SnapshotAssumption ==
  /\ Zero \notin Values /\ None \notin Values \cup {Zero}
  /\ None \notin [val : Values \cup {Zero}, rm : BOOLEAN]
  /\ Kind \in {"order", "spread_order", "other"}
  /\ Incremental \subseteq Listeners

VARIABLES records, lastTx,     \* snapshot_records, last_tx_records
          status, published,   \* status, full_snapshot_published
          attached, seen,      \* listeners, and those with full_snapshot_seen
          hasInc,              \* has_inc_listeners
          pc, todo,            \* the reader and the listeners it has still to call
          life,                \* of the snapshot object
          truth, snapOpen, txOpen,   \* what the server has sent
          view                 \* what each listener has put together

dataVars   == <<records, lastTx, status, published>>
listVars   == <<attached, seen, hasInc>>
serverVars == <<truth, snapOpen, txOpen>>
vars == <<dataVars, listVars, pc, todo, life, serverVars, view>>

Contents == Values \cup (IF Kind = "other" THEN {} ELSE {Zero})
Events   == [key : Keys, val : Contents, rm : BOOLEAN,
             sb : BOOLEAN, se : BOOLEAN, tx : BOOLEAN]
Tables   == [Keys -> Contents \cup {None}]
Touched  == [val : Contents, rm : BOOLEAN]
NoTable  == [k \in Keys |-> None]

TypeOK ==
  /\ records \in Tables /\ lastTx \in [Keys -> Touched \cup {None}]
  /\ status \in {"begin", "full", "pending"} /\ published \in BOOLEAN
  /\ seen \subseteq attached /\ attached \subseteq Listeners /\ hasInc \in BOOLEAN
  /\ pc \in {"idle", "lock", "calling", "after"} /\ todo \subseteq Listeners
  /\ life \in {"open", "unsubscribed", "freed"}
  /\ truth \in Tables /\ snapOpen \in BOOLEAN /\ txOpen \in BOOLEAN
  /\ view \in [Listeners -> Tables \cup {None}]

-----------------------------------------------------------------------------
\* Whether an event removes its record for a reader of the public header:
\* DXF_IS_ORDER_REMOVAL and its siblings.
Removal(ev) == ev.rm \/ (Kind # "other" /\ ev.val = Zero)

\* ... and for event_listener: dx_is_zero_event looks at orders only.
Removes(ev) == ev.rm \/ (Kind = "order" /\ ev.val = Zero)

\* The snapshot object of dx_create_snapshot, with its symbol subscribed.
Init ==
  /\ records = NoTable /\ lastTx = NoTable
  /\ status = "full" /\ published = TRUE
  /\ attached = {} /\ seen = {} /\ hasInc = FALSE
  /\ pc = "idle" /\ todo = {} /\ life = "open"
  /\ truth = NoTable /\ snapOpen = FALSE /\ txOpen = FALSE
  /\ view = [l \in Listeners |-> None]

\* The table a reader of the header keeps after an event.
Follow(table, ev) == [table EXCEPT ![ev.key] = IF Removal(ev) THEN None ELSE ev.val]

\* A snapshot that begins clears both arrays.
Cleared(table, ev) == IF ev.sb THEN NoTable ELSE table

\* Mutant of StatusAfter: the end of a snapshot hides a pending transaction.
StatusAfterEnd(ev) ==
  LET began == IF ev.sb THEN "begin" ELSE status
  IN IF ev.se THEN "full"
     ELSE IF ev.tx /\ began = "full" THEN "pending"
     ELSE IF ~ev.tx /\ began = "pending" THEN "full" ELSE began

\* The transaction state after an event: begin and end of a snapshot first,
\* then the end of a transaction.
StatusAfter(ev) ==
  LET began == IF ev.sb THEN "begin" ELSE status
      ended == IF ev.se THEN "full" ELSE began
  IN IF ev.tx /\ ended = "full" THEN "pending"
     ELSE IF ~ev.tx /\ ended = "pending" THEN "full" ELSE ended

\* The event joins the transaction, removal or not, if an incremental listener
\* may want it.
Collect(tx, ev) ==
  IF hasInc /\ ~ev.sb /\ published
  THEN [tx EXCEPT ![ev.key] = [val |-> ev.val, rm |-> ev.rm]] ELSE tx

\* dx_snapshot_remove_event_records, dx_snapshot_update_event_records
RemoveRecord(table, ev) == [table EXCEPT ![ev.key] = None]
UpdateRecord(table, ev) == [table EXCEPT ![ev.key] = ev.val]

\* event_listener up to the guard.  has_inc_listeners is read without it.
Event(ev) ==
  /\ pc = "idle" /\ life = "open"
  /\ records' = IF Removes(ev) THEN RemoveRecord(Cleared(records, ev), ev)
                ELSE UpdateRecord(Cleared(records, ev), ev)
  /\ lastTx' = Collect(Cleared(lastTx, ev), ev)
  /\ status' = StatusAfter(ev)
  /\ published' = (published /\ ~ev.sb)
  /\ pc' = IF status' = "full" THEN "lock" ELSE "idle"
  /\ truth' = Follow(Cleared(truth, ev), ev)
  /\ snapOpen' = ((snapOpen \/ ev.sb) /\ ~ev.se)
  /\ txOpen' = ev.tx
  /\ UNCHANGED <<listVars, todo, life, view>>

\* dx_mutex_lock; the loop of dx_snapshot_call_listeners begins.
LockGuard == /\ pc = "lock"
             /\ pc' = "calling" /\ todo' = attached
             /\ UNCHANGED <<dataVars, listVars, life, serverVars, view>>

\* Mutant of GetsAll: a listener that has seen one snapshot only gets increments.
GetsAllOnce(l) == l \notin Incremental \/ l \notin seen

\* Whether a listener is given all records.
GetsAll(l) == l \notin Incremental \/ ~published \/ l \notin seen

\* What an incremental listener makes of the records of a transaction.
Patched(table, tx) ==
  [k \in Keys |-> IF tx[k] = None THEN table[k]
                  ELSE IF Removal(tx[k]) THEN None ELSE tx[k].val]

\* One iteration of dx_snapshot_call_listeners.
CallListener(l) ==
  /\ pc = "calling" /\ l \in todo
  /\ view' = [view EXCEPT ![l] = IF GetsAll(l) THEN records ELSE Patched(view[l], lastTx)]
  /\ seen' = IF l \in Incremental /\ GetsAll(l) THEN seen \cup {l} ELSE seen
  /\ todo' = todo \ {l}
  /\ UNCHANGED <<dataVars, attached, hasInc, pc, life, serverVars>>

UnlockGuard == /\ pc = "calling" /\ todo = {}
               /\ pc' = "after"
               /\ UNCHANGED <<dataVars, listVars, todo, life, serverVars, view>>

\* The guard is free again when the next transaction starts.
EndTransaction == /\ pc = "after"
                  /\ pc' = "idle"
                  /\ published' = TRUE /\ lastTx' = NoTable
                  /\ UNCHANGED <<records, status, listVars, todo, life, serverVars, view>>

Reader == \/ \E ev \in Events : Event(ev)
          \/ LockGuard
          \/ \E l \in Listeners : CallListener(l)
          \/ UnlockGuard
          \/ EndTransaction

-----------------------------------------------------------------------------
\* dx_add_snapshot_listener and dx_add_snapshot_inc_listener, which marks that
\* transactions are to be collected.
Attach(l) == /\ life = "open" /\ pc # "calling"
             /\ l \notin attached
             /\ attached' = attached \cup {l}
             /\ UNCHANGED <<dataVars, seen, pc, todo, life, serverVars, view>>
AddListener(l) == l \notin Incremental /\ Attach(l) /\ UNCHANGED hasInc
AddIncListener(l) == l \in Incremental /\ Attach(l) /\ hasInc' = TRUE

\* dx_remove_snapshot_listener
Detach(l) == /\ life = "open" /\ pc # "calling"
             /\ l \in attached
             /\ attached' = attached \ {l} /\ seen' = seen \ {l}
             /\ view' = [view EXCEPT ![l] = None]
             /\ UNCHANGED <<dataVars, pc, todo, life, serverVars>>
RemoveListener(l) == l \notin Incremental /\ Detach(l) /\ UNCHANGED hasInc

\* Mutant of RemoveIncListener: the flag follows the listener that leaves.
RemoveIncListenerFlag(l) == l \in Incremental /\ Detach(l) /\ hasInc' = FALSE

\* dx_remove_snapshot_inc_listener: the loop that looks for remaining
\* incremental listeners runs only while the flag is unset, and can only set it.
RemoveIncListener(l) ==
  /\ l \in Incremental /\ Detach(l)
  /\ hasInc' = (hasInc \/ attached' \cap Incremental # {})

\* Mutant of CloseSubscription: closing does not wait for the delivery.
CloseAtOnce == /\ life = "open"
               /\ life' = "unsubscribed"
               /\ UNCHANGED <<dataVars, listVars, pc, todo, serverVars, view>>

\* dxf_close_snapshot closes the subscription, under its mutex ...
CloseSubscription == /\ life = "open" /\ pc = "idle"
                     /\ life' = "unsubscribed"
                     /\ UNCHANGED <<dataVars, listVars, pc, todo, serverVars, view>>

\* ... and frees the snapshot.
CloseSnapshot == /\ life = "unsubscribed"
                 /\ life' = "freed"
                 /\ attached' = {} /\ seen' = {}
                 /\ records' = NoTable /\ lastTx' = NoTable
                 /\ UNCHANGED <<status, published, hasInc, pc, todo, serverVars, view>>

Application == \/ \E l \in Listeners : \/ AddListener(l) \/ AddIncListener(l)
                                   \/ RemoveListener(l) \/ RemoveIncListener(l)
               \/ CloseSubscription
               \/ CloseSnapshot

Next == Reader \/ Application

Spec == Init /\ [][Next]_vars

-----------------------------------------------------------------------------
\* Listeners are called between transactions only: never inside a snapshot
\* that has begun and not ended, never while the server has a transaction
\* pending, whatever flags arrive together.
WholeTransactions == pc = "calling" => ~snapOpen /\ ~txOpen

\* Between transactions a listener that has been called since it was attached
\* holds exactly what the server has sent, whether it was given all records
\* or put them together from increments, and whoever else came and went.
ReplicaExact ==
  pc = "idle" /\ life = "open" /\ ~snapOpen /\ ~txOpen =>
    \A l \in attached : view[l] \in {None, truth}

\* The reader is never inside event_listener, which uses the snapshot object,
\* when dxf_close_snapshot has freed it.
NoUseAfterFree == life = "freed" => pc = "idle"
\* The inductive invariant behind WholeTransactions and ReplicaExact.  The
\* status is a function of the flags received; the records are the server's;
\* an incremental listener that has seen a snapshot is one transaction behind
\* (last_tx_records leads it to the current records) until it is called; and
\* nothing is collected between transactions.
Behind(l) == view[l] \in Tables /\ (published => Patched(view[l], lastTx) = truth)
ReplicaInv ==
  /\ TypeOK
  /\ status = IF snapOpen THEN "begin" ELSE IF txOpen THEN "pending" ELSE "full"
  /\ pc # "idle" => status = "full" /\ life = "open"
  /\ status = "begin" => ~published
  /\ pc = "idle" /\ status = "full" /\ life = "open" => published /\ lastTx = NoTable
  /\ attached \cap Incremental # {} => hasInc
  /\ seen \subseteq Incremental
  /\ \A l \in Listeners : l \notin attached /\ life # "freed" => view[l] = None
  /\ \A l \in attached \cap Incremental : l \notin seen => view[l] = None
  /\ life = "open" =>
       /\ records = truth
       /\ pc \in {"idle", "lock"} => \A l \in seen : Behind(l)
       /\ pc = "calling" => /\ todo \subseteq attached
                           /\ \A l \in attached : IF l \in todo THEN l \in seen => Behind(l)
                                                 ELSE view[l] = truth
       /\ pc = "after" => \A l \in attached : view[l] \in {None, truth}
       /\ pc = "after" => \A l \in seen : view[l] = truth
       /\ pc = "idle" /\ status = "full" => \A l \in attached : view[l] \in {None, truth}
=============================================================================
