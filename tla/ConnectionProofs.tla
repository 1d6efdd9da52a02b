-------------------------- MODULE ConnectionProofs --------------------------
(***************************************************************************)
(* Proofs about Connection, for any set of symbols and any number of API   *)
(* calls and faults.                                                       *)
(***************************************************************************)
EXTENDS Connection, SequenceTheorems, TLAPS

\* The flags are Boolean: those of the threads, those of the network.
ThreadFlags == /\ expired \in BOOLEAN /\ stale \in BOOLEAN /\ rts \in BOOLEAN /\ qts \in BOOLEAN
               /\ idle \in BOOLEAN /\ qTrig \in BOOLEAN /\ rTrig \in BOOLEAN
NetFlags == /\ sock \in BOOLEAN /\ stray \in BOOLEAN /\ link \in BOOLEAN /\ replied \in BOOLEAN
            /\ described \in BOOLEAN /\ hbDue \in BOOLEAN /\ up \in BOOLEAN
Flags == ThreadFlags /\ NetFlags

\* The rest of the type invariant.
Types == /\ pc \in [app : AppLabel, queue : QueueLabel, reader : ReaderLabel]
         /\ tq \in Seq([kind : TaskKind, syms : SUBSET Symbols])
         /\ tqGuard \in {None, "queue"}
         /\ dps \in {"not_sent", "pending", "received", "not_received"}
         /\ dGuard \in {None, "app", "reader"}
         /\ ctxGuard \in {None, "reader"}
         /\ open \in Nat
         /\ status \in {"not_connected", "connected", "login_required", "authorized"}
         /\ inbox \in Message \cup {None} /\ readBuf \in Message \cup {None}
         /\ srvSubs \subseteq Symbols /\ symbols \subseteq Symbols
         /\ arg \in Symbols \cup {None}
         /\ ops \in 0..MaxOps /\ faults \in 0..MaxFaults

InCall == {"addList", "addRecords", "addCheck", "addTask",
           "removeCheck", "removeTask", "removeList"}

\* The guard of the task queue is held during a pass, which runs a task that
\* is there; an API call has its symbol; a descriptor is open while the flag
\* says so.
ConnInv == /\ Types
           /\ tqGuard = "queue" <=> pc.queue \in {"run", "send"}
           /\ pc.queue = "send" => tq # <<>> /\ Head(tq).kind \in {"subscribe", "unsubscribe"}
           /\ pc.app \in InCall => arg \in Symbols
           /\ sock => open >= 1

\* After the creation only the reader describes the protocol, and it holds the
\* describe guard while it adds the countdown task.
ReaderDescribes ==
  /\ pc.app \notin {"describe", "sentLock", "sentAdd", "records"} /\ pc.reader # "start"
  /\ dGuard = IF pc.reader = "sentAdd" THEN "reader" ELSE None

\* The reader opens a new socket only after the old one has been closed; until
\* it has a new connection, idle tells it to go on with that.
SocketGivenUp ==
  /\ pc.reader \in {"cleanup", "clear", "connect"} \/ (pc.reader = "top" /\ idle) =>
       ~sock /\ status = "not_connected"
  /\ pc.reader \in {"recv", "process", "notify"} => ~idle
  /\ link => sock

\* A new connection starts with a fresh handshake.
FreshHandshake ==
  /\ pc.reader \in {"connect", "describe", "sentLock"} => dps = "not_sent"
  /\ pc.reader = "sentAdd" => dps = "pending"

IsCountdown(k) == k \in DOMAIN tq /\ tq[k].kind = "countdown"

\* The countdown task belongs to the handshake under way.
CountdownSound ==
  /\ pc.reader \in {"clear", "connect", "describe", "sentLock", "sentAdd"} =>
       \A k \in DOMAIN tq : ~IsCountdown(k)
  /\ \A j, k \in DOMAIN tq : IsCountdown(j) /\ IsCountdown(k) => j = k
  /\ \A k \in DOMAIN tq : IsCountdown(k) => dps \in {"pending", "received"}

\* The flag of the socket agrees with what has not been given to dx_close.
SocketCounted == open = IF sock THEN 1 ELSE 0

\* The peer leaves, the server cannot be reached and dx_close fails only after a
\* fault.
FaultsSeen == /\ stray => faults > 0
              /\ ~up => faults > 0
              /\ sock /\ ~link => faults > 0

\* The inductive invariant of an established connection.
EstInv == ConnInv /\ ReaderDescribes /\ SocketGivenUp /\ FreshHandshake /\ CountdownSound
          /\ SocketCounted /\ FaultsSeen

IsDescribe(k) == k \in DOMAIN tq /\ tq[k].kind = "describe"

\* The server has been sent the client's description, or will be before the
\* task at k runs, or has gone.
DescribedBefore(k) == described \/ ~link \/ \E j \in DOMAIN tq : j < k /\ IsDescribe(j)

IsRequest(k) == k \in DOMAIN tq /\ tq[k].kind \in {"subscribe", "unsubscribe"}

\* If no API call was half way across the loss of the connection: until the new
\* handshake is under way no request is queued and none is going to be, and from
\* then on every request has the description before it.
QueueInOrder ==
  /\ pc.reader \in {"connect", "describe", "sentLock", "sentAdd"} =>
       /\ pc.app \notin {"addTask", "removeTask"}
       /\ \A k \in DOMAIN tq : ~IsRequest(k)
  /\ pc.reader # "describe" => DescribedBefore(Len(tq) + 1)
  /\ \A k \in DOMAIN tq : IsRequest(k) => DescribedBefore(k)

\* The inductive invariant behind DescribedFirst and NoGuardCycle.
OrderInv == EstInv /\ Flags /\ (stale \/ QueueInOrder) /\ DescribedFirst

Subscribes(k, x)   == k \in DOMAIN tq /\ tq[k].kind = "subscribe" /\ x \in tq[k].syms
Unsubscribes(k, x) == k \in DOMAIN tq /\ tq[k].kind = "unsubscribe" /\ x \in tq[k].syms

\* The server has been asked for x or will be, and no unsubscription has the
\* last word.
Asked(x) == /\ x \in srvSubs \/ \E k \in DOMAIN tq : Subscribes(k, x)
            /\ \A k \in DOMAIN tq : Unsubscribes(k, x) =>
                 \E j \in DOMAIN tq : j > k /\ Subscribes(j, x)

\* The API call under way is going to ask for x, or to take x off the list.
InHand(x) == arg = x /\ pc.app \in {"addRecords", "addCheck", "addTask", "removeList"}

\* The connection is on its way to being re-established, or to its end.
GivenUp == \/ ~rts /\ pc.reader # "start"
           \/ ~qts \/ pc.queue = "fail" \/ ~link \/ idle \/ Closing

\* A reader that goes on receiving has seen no failure; one that re-establishes
\* the connection says so until it has subscribed again.
ReaderKnows ==
  /\ pc.reader \in {"recv", "process"} => rts
  /\ pc.reader = "notify" => ~rts
  /\ pc.reader \in {"start", "recv", "process", "notify"} => ~idle
  /\ pc.reader \in {"cleanup", "clear", "connect", "describe", "sentLock", "sentAdd", "records",
                    "resub", "resubTask"} => idle
  /\ pc.reader \in {"sentAdd", "records", "resub", "resubTask"} => dps # "not_sent"
  /\ dps = "not_sent" => idle \/ pc.app \in {"describe", "sentLock"}
  /\ pc.app \in {"describe", "sentLock", "sentAdd", "records"} => symbols = {}

\* The inductive invariant behind NoLostSubscription.
SubInv == /\ ConnInv /\ ReaderKnows
          /\ GivenUp \/ \A x \in symbols : Asked(x) \/ InHand(x)
-----------------------------------------------------------------------------
\* What a step of one thread does to the program counters.
LEMMA AppGoto ==
  ASSUME Types, NEW from, NEW to \in AppLabel, Goto("app", from, to)
  PROVE  /\ pc' \in [app : AppLabel, queue : QueueLabel, reader : ReaderLabel]
         /\ pc.app = from /\ pc'.app = to /\ pc'.queue = pc.queue /\ pc'.reader = pc.reader
BY DEF Goto, Types
LEMMA QueueGoto ==
  ASSUME Types, NEW from, NEW to \in QueueLabel, Goto("queue", from, to)
  PROVE  /\ pc' \in [app : AppLabel, queue : QueueLabel, reader : ReaderLabel]
         /\ pc.queue = from /\ pc'.queue = to /\ pc'.app = pc.app /\ pc'.reader = pc.reader
BY DEF Goto, Types
LEMMA ReaderGoto ==
  ASSUME Types, NEW from, NEW to \in ReaderLabel, Goto("reader", from, to)
  PROVE  /\ pc' \in [app : AppLabel, queue : QueueLabel, reader : ReaderLabel]
         /\ pc.reader = from /\ pc'.reader = to /\ pc'.queue = pc.queue /\ pc'.app = pc.app
BY DEF Goto, Types

LEMMA TypeParts == TypeOK <=> Types /\ Flags
BY DEF TypeOK, Types, Flags, ThreadFlags, NetFlags

\* Every step keeps the flags Boolean.
LEMMA ThreadFlagsStep ==
  ASSUME ThreadFlags, [Next]_vars PROVE ThreadFlags'
<1> DEFINE Same == UNCHANGED <<expired, stale, rts, qts, idle, qTrig, rTrig>>
<1> USE DEF tqVars, hsVars, flagVars, netVars, subVars, envVars
<1>1. ASSUME Same PROVE ThreadFlags'
  BY <1>1, Zenon DEF ThreadFlags
<1>2. ASSUME \/ \E t, to : QueueDescribe(t) \/ QueueCountdown(t) \/ QueueRecords(t, to)
             \/ QueueSeesSilence \/ QueueDisconnects \/ QueueNoHeartbeat \/ QueueCheck \/ QueueIsEmpty
             \/ BeginPass \/ EndPass \/ RunCountdown \/ RunSubscribe
             \/ \E ok \in BOOLEAN : SendSubscription(ok) \/ QueueHeartbeat(ok) \/ RunDescribe(ok)
      PROVE  Same
  BY <1>2 DEF QueueDescribe, QueueCountdown, QueueRecords, QueueSeesSilence, QueueDisconnects,
              QueueNoHeartbeat, QueueCheck, QueueIsEmpty, BeginPass, EndPass, RunCountdown,
              RunSubscribe, SendSubscription, QueueHeartbeat, RunDescribe
<1>3. ASSUME \/ ReaderCleanup \/ ReaderConnect \/ AppCalls \/ AddList \/ AddRecords \/ AddCheck
             \/ AddSubscribeTask \/ RemoveCheck \/ RemoveTask \/ RemoveList \/ JoinQueue
             \/ CloseTheSocket \/ JoinReader \/ HeartbeatDue \/ ServerDescribes \/ ServerSends
             \/ ServerBack \/ (\E m \in Message : ServerTroubles(m)) \/ \E r \in BOOLEAN : Drop(r)
      PROVE  Same
  BY <1>3 DEF ReaderCleanup, ReaderConnect, AppCalls, StartAdd, StartRemove, StartClose, AddList,
              AddRecords, AddCheck, AddSubscribeTask, RemoveCheck, CheckSupport, RemoveTask,
              RemoveList, JoinQueue, CloseTheSocket, JoinReader, HeartbeatDue, ServerDescribes,
              ServerSends, ServerBack, ServerTroubles, Drop
<1>4. ASSUME UNCHANGED vars PROVE Same
  BY <1>4 DEF vars
<1>5. ASSUME NEW t, NEW f, DescribeSent(t, f) PROVE ThreadFlags'
  BY <1>5, Zenon DEF DescribeSent, ThreadFlags
<1>6. ASSUME ReaderProcess PROVE ThreadFlags'
  <2>1. rts' = (readBuf \in {"ok", "data"})
    BY <1>6, Zenon DEF ReaderProcess
  <2>2. rts' \in BOOLEAN
    BY ONLY <2>1
  <2> QED
    BY <1>6, <2>2, Zenon DEF ReaderProcess, ThreadFlags
<1>7. ASSUME ReaderClear PROVE ThreadFlags'
  <2>1. stale' \in BOOLEAN
    BY <1>7 DEF ReaderClear
  <2>2. UNCHANGED <<expired, rts, qts, idle, qTrig, rTrig>>
    BY <1>7 DEF ReaderClear
  <2> QED
    BY <2>1, <2>2, Zenon DEF ThreadFlags
<1>8. ASSUME QueueFailed PROVE ThreadFlags'
  BY <1>8, Zenon DEF QueueFailed, ThreadFlags
<1>9. ASSUME ReaderStart PROVE ThreadFlags'
  BY <1>9, Zenon DEF ReaderStart, ThreadFlags
<1>10. ASSUME ReaderTop PROVE ThreadFlags'
  BY <1>10, Zenon DEF ReaderTop, ThreadFlags
<1>11. ASSUME ReaderNotify PROVE ThreadFlags'
  BY <1>11, Zenon DEF ReaderNotify, ThreadFlags
<1>12. ASSUME ReaderResub PROVE ThreadFlags'
  BY <1>12, Zenon DEF ReaderResub, ThreadFlags
<1>13. ASSUME ReaderResubTask PROVE ThreadFlags'
  BY <1>13, Zenon DEF ReaderResubTask, ThreadFlags
<1>14. ASSUME ReaderRecv PROVE ThreadFlags'
  BY <1>14, Zenon DEF ReaderRecv, ThreadFlags
<1>15. ASSUME CloseTrigger PROVE ThreadFlags'
  BY <1>15, Zenon DEF CloseTrigger, ThreadFlags
<1>16. ASSUME CloseReader PROVE ThreadFlags'
  BY <1>16, Zenon DEF CloseReader, ThreadFlags
<1>17. ASSUME Expire PROVE ThreadFlags'
  BY <1>17, Zenon DEF Expire, ThreadFlags
<1> HIDE DEF Same
<1> QED
  BY <1>1, <1>2, <1>3, <1>4, <1>5, <1>6, <1>7, <1>8, <1>9, <1>10, <1>11, <1>12, <1>13, <1>14, <1>15, <1>16, <1>17
  DEF Next, AppThread, QueueThread, ReaderThread, Describe, Environment, Message
LEMMA NetFlagsStep ==
  ASSUME NetFlags, [Next]_vars PROVE NetFlags'
<1> DEFINE Same == UNCHANGED <<sock, stray, link, replied, described, hbDue, up>>
<1> USE DEF tqVars, hsVars, flagVars, netVars, subVars, envVars
<1>1. ASSUME Same PROVE NetFlags'
  BY <1>1, Zenon DEF NetFlags
<1>2. ASSUME \/ \E t, to : QueueDescribe(t) \/ QueueCountdown(t) \/ QueueRecords(t, to) \/ DescribeSent(t, to)
             \/ QueueSeesSilence \/ QueueNoHeartbeat \/ QueueCheck \/ QueueIsEmpty
             \/ BeginPass \/ EndPass \/ RunCountdown \/ RunSubscribe \/ QueueFailed
             \/ \E ok \in BOOLEAN : SendSubscription(ok)
      PROVE  Same
  BY <1>2 DEF QueueDescribe, QueueCountdown, QueueRecords, DescribeSent, QueueSeesSilence,
              QueueNoHeartbeat, QueueCheck, QueueIsEmpty, BeginPass, EndPass, RunCountdown,
              RunSubscribe, QueueFailed, SendSubscription
<1>3. ASSUME \/ ReaderStart \/ ReaderTop \/ ReaderCleanup \/ ReaderClear \/ ReaderResub
             \/ ReaderResubTask \/ ReaderRecv \/ ReaderProcess \/ AppCalls \/ AddList \/ AddRecords
             \/ AddCheck \/ AddSubscribeTask \/ RemoveCheck \/ RemoveTask \/ RemoveList \/ JoinQueue
             \/ CloseTrigger \/ CloseReader \/ Expire \/ ServerSends
             \/ (\E m \in Message : ServerTroubles(m))
      PROVE  Same
  BY <1>3 DEF ReaderStart, ReaderTop, ReaderCleanup, ReaderClear, ReaderResub, ReaderResubTask,
              ReaderRecv, ReaderProcess, AppCalls, StartAdd, StartRemove, StartClose, AddList,
              AddRecords, AddCheck, AddSubscribeTask, RemoveCheck, CheckSupport, RemoveTask,
              RemoveList, JoinQueue, CloseTrigger, CloseReader, Expire, ServerSends, ServerTroubles,
              Arrives
<1>4. ASSUME UNCHANGED vars PROVE Same
  BY <1>4 DEF vars
<1>5. ASSUME CloseSocket, UNCHANGED <<hbDue, up>> PROVE NetFlags'
  BY <1>5, Zenon DEF CloseSocket, NetFlags
<1>6. ASSUME QueueDisconnects \/ CloseTheSocket \/ JoinReader \/ ReaderNotify PROVE NetFlags'
  <2>1. (CloseSocket /\ UNCHANGED <<hbDue, up>>) \/ Same
    BY <1>6 DEF QueueDisconnects, CloseTheSocket, JoinReader, ReaderNotify
  <2> QED
    BY <1>1, <1>5, <2>1
<1>7. ASSUME NEW ok \in BOOLEAN, QueueHeartbeat(ok) PROVE NetFlags'
  BY <1>7, Zenon DEF QueueHeartbeat, NetFlags
<1>8. ASSUME NEW ok \in BOOLEAN, RunDescribe(ok) PROVE NetFlags'
  BY <1>8, Zenon DEF RunDescribe, NetFlags
<1>9. ASSUME ReaderConnect PROVE NetFlags'
  <2>1. UNCHANGED <<hbDue, up>>
    BY <1>9, Zenon DEF ReaderConnect
  <2>2. /\ sock' = sock \/ sock' = TRUE
        /\ stray' = stray \/ stray' = TRUE
        /\ link' = link \/ link' = TRUE
        /\ replied' = replied \/ replied' = FALSE
        /\ described' = described \/ described' = FALSE
    BY <1>9, Zenon DEF ReaderConnect
  <2> QED
    BY <2>1, <2>2, Zenon DEF NetFlags
<1>10. ASSUME HeartbeatDue PROVE NetFlags'
  BY <1>10, Zenon DEF HeartbeatDue, NetFlags
<1>11. ASSUME ServerDescribes PROVE NetFlags'
  BY <1>11, Zenon DEF ServerDescribes, Arrives, NetFlags
<1>12. ASSUME NEW r \in BOOLEAN, Drop(r) PROVE NetFlags'
  BY <1>12, Zenon DEF Drop, NetFlags
<1>13. ASSUME ServerBack PROVE NetFlags'
  BY <1>13, Zenon DEF ServerBack, NetFlags
<1> HIDE DEF Same
<1> QED
  BY <1>1, <1>2, <1>3, <1>4, <1>6, <1>7, <1>8, <1>9, <1>10, <1>11, <1>12, <1>13
  DEF Next, AppThread, QueueThread, ReaderThread, Describe, Environment, Message
LEMMA FlagsStep ==
  ASSUME Flags, [Next]_vars PROVE Flags'
BY ThreadFlagsStep, NetFlagsStep DEF Flags

LEMMA ConnStep ==
  ASSUME ConnInv, [Next]_vars PROVE ConnInv'
<1> USE ConnectionAssumption
    DEF ConnInv, Types, InCall, AppLabel, QueueLabel, ReaderLabel, TaskKind, None, Message,
        tqVars, hsVars, flagVars, netVars, subVars, envVars
<1>1. ASSUME QueueDescribe("app") PROVE ConnInv'
  BY <1>1, AppGoto DEF QueueDescribe, AddTask, Task
<1>2. ASSUME DescribeSent("app", "closeTrigger") PROVE ConnInv'
  BY <1>2, AppGoto DEF DescribeSent
<1>3. ASSUME QueueCountdown("app") PROVE ConnInv'
  BY <1>3, AppGoto DEF QueueCountdown, AddTask, Task
<1>4. ASSUME QueueRecords("app", "idle") PROVE ConnInv'
  BY <1>4, AppGoto DEF QueueRecords, AddTask, Task
<1>5. ASSUME QueueDescribe("reader") PROVE ConnInv'
  BY <1>5, ReaderGoto DEF QueueDescribe, AddTask, Task
<1>6. ASSUME DescribeSent("reader", "top") PROVE ConnInv'
  BY <1>6, ReaderGoto DEF DescribeSent
<1>7. ASSUME QueueCountdown("reader") PROVE ConnInv'
  BY <1>7, ReaderGoto DEF QueueCountdown, AddTask, Task
<1>8. ASSUME QueueRecords("reader", "resub") PROVE ConnInv'
  BY <1>8, ReaderGoto DEF QueueRecords, AddTask, Task
<1>9. ASSUME QueueSeesSilence PROVE ConnInv'
  BY <1>9, QueueGoto DEF QueueSeesSilence
<1>10. ASSUME QueueDisconnects PROVE ConnInv'
  BY <1>10, QueueGoto DEF QueueDisconnects, CloseSocket
<1>11. ASSUME NEW ok \in BOOLEAN, QueueHeartbeat(ok) PROVE ConnInv'
  BY <1>11, QueueGoto DEF QueueHeartbeat
<1>12. ASSUME QueueNoHeartbeat PROVE ConnInv'
  BY <1>12, QueueGoto DEF QueueNoHeartbeat
<1>13. ASSUME QueueCheck PROVE ConnInv'
  BY <1>13, QueueGoto DEF QueueCheck
<1>14. ASSUME QueueIsEmpty PROVE ConnInv'
  BY <1>14, QueueGoto DEF QueueIsEmpty
<1>15. ASSUME BeginPass PROVE ConnInv'
  BY <1>15, QueueGoto DEF BeginPass
<1>16. ASSUME EndPass PROVE ConnInv'
  BY <1>16, QueueGoto DEF EndPass
<1>17. ASSUME NEW ok \in BOOLEAN, RunDescribe(ok) PROVE ConnInv'
  BY <1>17, QueueGoto DEF RunDescribe, Runs, Popped
<1>18. ASSUME RunCountdown PROVE ConnInv'
  <2>1. /\ tq # <<>> /\ pc.queue = "run" /\ dps' \in {"not_sent", "pending", "received", "not_received"}
        /\ Popped("run", TRUE) \/ Stopped(TRUE) \/ Stopped(FALSE)
        /\ UNCHANGED <<dGuard, netVars, subVars, envVars>>
    BY <1>18 DEF RunCountdown, Runs
  <2>2. CASE Popped("run", TRUE)
    BY <2>1, <2>2, QueueGoto DEF Popped
  <2>3. CASE Stopped(TRUE) \/ Stopped(FALSE)
    BY <2>1, <2>3, QueueGoto DEF Stopped
  <2> QED
    BY <2>1, <2>2, <2>3
<1>19. ASSUME RunSubscribe PROVE ConnInv'
  BY <1>19, QueueGoto DEF RunSubscribe, Runs, Popped
<1>20. ASSUME NEW ok \in BOOLEAN, SendSubscription(ok) PROVE ConnInv'
  <2>1. /\ tq # <<>> /\ Head(tq) \in [kind : TaskKind, syms : SUBSET Symbols]
        /\ Tail(tq) \in Seq([kind : TaskKind, syms : SUBSET Symbols])
    <3>1. pc.queue = "send"
      BY <1>20 DEF SendSubscription, Popped, Goto
    <3>2. tq # <<>> /\ tq \in Seq([kind : TaskKind, syms : SUBSET Symbols])
      BY <3>1
    <3> QED
      BY ONLY <3>2, HeadTailProperties
  <2>2. srvSubs' \subseteq Symbols
    BY <1>20, <2>1 DEF SendSubscription
  <2> QED
    BY <1>20, <2>1, <2>2, QueueGoto DEF SendSubscription, Popped
<1>21. ASSUME QueueFailed PROVE ConnInv'
  BY <1>21, QueueGoto DEF QueueFailed
<1>22. ASSUME ReaderStart PROVE ConnInv'
  BY <1>22, ReaderGoto DEF ReaderStart
<1>23. ASSUME ReaderTop PROVE ConnInv'
  BY <1>23, ReaderGoto DEF ReaderTop
<1>24. ASSUME ReaderNotify PROVE ConnInv'
  BY <1>24, ReaderGoto DEF ReaderNotify, CloseSocket
<1>25. ASSUME ReaderCleanup PROVE ConnInv'
  BY <1>25, ReaderGoto DEF ReaderCleanup
<1>26. ASSUME ReaderClear PROVE ConnInv'
  BY <1>26, ReaderGoto DEF ReaderClear
<1>27. ASSUME ReaderConnect PROVE ConnInv'
  BY <1>27, ReaderGoto DEF ReaderConnect
<1>28. ASSUME ReaderResub PROVE ConnInv'
  BY <1>28, ReaderGoto DEF ReaderResub
<1>29. ASSUME ReaderResubTask PROVE ConnInv'
  BY <1>29, ReaderGoto DEF ReaderResubTask, AddTask, Task
<1>30. ASSUME ReaderRecv PROVE ConnInv'
  BY <1>30, ReaderGoto DEF ReaderRecv
<1>31. ASSUME ReaderProcess PROVE ConnInv'
  BY <1>31, ReaderGoto DEF ReaderProcess
<1>32. ASSUME NEW x \in Symbols, StartAdd(x) PROVE ConnInv'
  BY <1>32, AppGoto DEF StartAdd
<1>33. ASSUME NEW x \in Symbols, StartRemove(x) PROVE ConnInv'
  BY <1>33, AppGoto DEF StartRemove
<1>34. ASSUME StartClose PROVE ConnInv'
  BY <1>34, AppGoto DEF StartClose
<1>35. ASSUME AddList PROVE ConnInv'
  BY <1>35, AppGoto DEF AddList
<1>36. ASSUME AddRecords PROVE ConnInv'
  BY <1>36, AppGoto DEF AddRecords, AddTask, Task
<1>37. ASSUME AddCheck PROVE ConnInv'
  BY <1>37, AppGoto DEF AddCheck, CheckSupport
<1>38. ASSUME AddSubscribeTask PROVE ConnInv'
  BY <1>38, AppGoto DEF AddSubscribeTask, AddTask, Task
<1>39. ASSUME RemoveCheck PROVE ConnInv'
  BY <1>39, AppGoto DEF RemoveCheck, CheckSupport
<1>40. ASSUME RemoveTask PROVE ConnInv'
  BY <1>40, AppGoto DEF RemoveTask, AddTask, Task
<1>41. ASSUME RemoveList PROVE ConnInv'
  BY <1>41, AppGoto DEF RemoveList
<1>42. ASSUME CloseTrigger PROVE ConnInv'
  BY <1>42, AppGoto DEF CloseTrigger
<1>43. ASSUME JoinQueue PROVE ConnInv'
  BY <1>43, AppGoto DEF JoinQueue
<1>44. ASSUME CloseReader PROVE ConnInv'
  BY <1>44, AppGoto DEF CloseReader
<1>45. ASSUME CloseTheSocket PROVE ConnInv'
  BY <1>45, AppGoto DEF CloseTheSocket, CloseSocket
<1>46. ASSUME JoinReader PROVE ConnInv'
  BY <1>46, AppGoto DEF JoinReader, CloseSocket
<1>47. ASSUME Expire PROVE ConnInv'
  BY <1>47 DEF Expire
<1>48. ASSUME HeartbeatDue PROVE ConnInv'
  BY <1>48 DEF HeartbeatDue
<1>49. ASSUME ServerDescribes PROVE ConnInv'
  BY <1>49 DEF ServerDescribes, Arrives
<1>50. ASSUME ServerSends PROVE ConnInv'
  BY <1>50 DEF ServerSends, Arrives
<1>51. ASSUME NEW m \in Message, ServerTroubles(m) PROVE ConnInv'
  BY <1>51 DEF ServerTroubles, Arrives
<1>52. ASSUME NEW reachable \in BOOLEAN, Drop(reachable) PROVE ConnInv'
  BY <1>52 DEF Drop
<1>53. ASSUME ServerBack PROVE ConnInv'
  BY <1>53 DEF ServerBack
<1>54. ASSUME UNCHANGED vars PROVE ConnInv'
  BY <1>54 DEF vars
<1> QED
  BY <1>1, <1>2, <1>3, <1>4, <1>5, <1>6, <1>7, <1>8, <1>9, <1>10, <1>11, <1>12, <1>13, <1>14, <1>15, <1>16, <1>17, <1>18, <1>19, <1>20, <1>21, <1>22, <1>23, <1>24, <1>25, <1>26, <1>27, <1>28, <1>29, <1>30, <1>31, <1>32, <1>33, <1>34, <1>35, <1>36, <1>37, <1>38, <1>39, <1>40, <1>41, <1>42, <1>43, <1>44, <1>45, <1>46, <1>47, <1>48, <1>49, <1>50, <1>51, <1>52, <1>53, <1>54
  DEF Next, AppThread, AppCalls, QueueThread, ReaderThread, Describe, Environment, Message

LEMMA ConnInit ==
  ASSUME Init PROVE ConnInv /\ Flags
<1>1. Flags
  <2>1. ThreadFlags
    BY Zenon DEF Init, ThreadFlags
  <2>2. NetFlags
    BY ConnectionAssumption, Zenon DEF Init, NetFlags
  <2> QED
    BY <2>1, <2>2 DEF Flags
<1>2. pc \in [app : AppLabel, queue : QueueLabel, reader : ReaderLabel]
  BY DEF Init, AppLabel, QueueLabel, ReaderLabel
<1>3. tq \in Seq([kind : TaskKind, syms : SUBSET Symbols])
  BY EmptySeq DEF Init
<1>4. ops \in 0..MaxOps /\ faults \in 0..MaxFaults
  BY ConnectionAssumption DEF Init
<1>5. Types
  BY <1>2, <1>3, <1>4 DEF Init, Types, None, Message
<1> QED
  BY <1>1, <1>5 DEF Init, ConnInv, InCall, None

\* The program counters, guards, flags, queue and counters keep their types from the
\* creation on: no descriptor is closed that is not open, no task is run that is not there.
THEOREM TypeTheorem == Spec => []TypeOK
<1>1. Init => ConnInv /\ Flags
  BY ConnInit
<1>2. ConnInv /\ Flags /\ [Next]_vars => (ConnInv /\ Flags)'
  BY ConnStep, FlagsStep
<1>3. ConnInv /\ Flags => TypeOK
  BY TypeParts DEF ConnInv
<1> QED
  BY <1>1, <1>2, <1>3, PTL DEF Spec
-----------------------------------------------------------------------------
\* Adding a task and popping the oldest one.
LEMMA TaskAdded ==
  ASSUME Types, NEW task \in [kind : TaskKind, syms : SUBSET Symbols], tq' = Append(tq, task)
  PROVE  /\ Len(tq) \in Nat /\ Len(tq') = Len(tq) + 1
         /\ DOMAIN tq = 1..Len(tq) /\ DOMAIN tq' = 1..(Len(tq) + 1)
         /\ \A k \in DOMAIN tq : tq'[k] = tq[k]
         /\ tq'[Len(tq) + 1] = task
BY AppendProperties DEF Types
LEMMA TaskPopped ==
  ASSUME Types, tq # <<>>, tq' = Tail(tq)
  PROVE  /\ Len(tq) \in Nat /\ Len(tq) >= 1 /\ Len(tq') = Len(tq) - 1
         /\ DOMAIN tq = 1..Len(tq) /\ DOMAIN tq' = 1..(Len(tq) - 1)
         /\ \A k \in DOMAIN tq' : tq'[k] = tq[k + 1] /\ k + 1 \in DOMAIN tq
         /\ Head(tq) = tq[1]
BY HeadTailProperties, EmptySeq DEF Types

\* The reader's steps keep the socket accounting and the handshake in order;
\* the other threads can only close the socket.
LEMMA ReaderStep ==
  ASSUME EstInv, [Next]_vars
  PROVE  ReaderDescribes' /\ SocketGivenUp' /\ FreshHandshake' /\ SocketCounted'
<1>0. ConnInv /\ ConnInv' /\ Types
  BY ConnStep DEF EstInv, ConnInv
<1> DEFINE Good == ReaderDescribes /\ SocketGivenUp /\ FreshHandshake /\ SocketCounted
<1> USE <1>0
    DEF EstInv, ReaderDescribes, SocketGivenUp, FreshHandshake, SocketCounted,
        AppLabel, QueueLabel, ReaderLabel, None,
        tqVars, hsVars, flagVars, netVars, subVars, envVars
<1>1. ASSUME Describe("app", "closeTrigger", "idle") PROVE Good'
  BY <1>1 DEF Describe, QueueDescribe, DescribeSent, QueueCountdown, QueueRecords, Goto
<1>2. ASSUME Describe("reader", "top", "resub") PROVE Good'
  BY <1>2, ReaderGoto DEF Describe, QueueDescribe, DescribeSent, QueueCountdown, QueueRecords
<1>3. ASSUME \/ QueueSeesSilence \/ QueueNoHeartbeat \/ QueueCheck \/ QueueIsEmpty
             \/ BeginPass \/ EndPass \/ RunSubscribe \/ QueueFailed
             \/ \E ok \in BOOLEAN : QueueHeartbeat(ok) \/ RunDescribe(ok) \/ SendSubscription(ok)
      PROVE  Good'
  <2>1. UNCHANGED <<dps, dGuard, idle, sock, open, status, link>> /\ pc'.app = pc.app /\ pc'.reader = pc.reader
    BY <1>3, QueueGoto DEF QueueSeesSilence, QueueNoHeartbeat, QueueCheck, QueueIsEmpty, BeginPass,
       EndPass, RunSubscribe, QueueFailed, QueueHeartbeat, RunDescribe, SendSubscription, Popped
  <2> QED
    BY <2>1
<1>4. ASSUME QueueDisconnects PROVE Good'
  BY <1>4, QueueGoto DEF QueueDisconnects, CloseSocket
<1>5. ASSUME RunCountdown PROVE Good'
  BY <1>5, QueueGoto DEF RunCountdown, Popped, Stopped
<1>6. ASSUME ReaderStart \/ ReaderTop PROVE Good'
  BY <1>6, ReaderGoto DEF ReaderStart, ReaderTop
<1>7. ASSUME ReaderNotify PROVE Good'
  BY <1>7, ReaderGoto DEF ReaderNotify, CloseSocket
<1>8. ASSUME ReaderCleanup \/ ReaderClear PROVE Good'
  BY <1>8, ReaderGoto DEF ReaderCleanup, ReaderClear
<1>9. ASSUME ReaderConnect PROVE Good'
  BY <1>9, ReaderGoto DEF ReaderConnect
<1>10. ASSUME ReaderResub \/ ReaderResubTask PROVE Good'
  BY <1>10, ReaderGoto DEF ReaderResub, ReaderResubTask
<1>11. ASSUME ReaderRecv PROVE Good'
  BY <1>11, ReaderGoto DEF ReaderRecv
<1>12. ASSUME ReaderProcess PROVE Good'
  BY <1>12, ReaderGoto DEF ReaderProcess
<1>13. ASSUME \/ AppCalls \/ AddList \/ AddRecords \/ AddCheck \/ AddSubscribeTask \/ RemoveCheck
              \/ RemoveTask \/ RemoveList \/ CloseTrigger \/ JoinQueue \/ CloseReader
       PROVE  Good'
  BY <1>13, AppGoto DEF AppCalls, StartAdd, StartRemove, StartClose, AddList, AddRecords, AddCheck,
     AddSubscribeTask, RemoveCheck, CheckSupport, RemoveTask, RemoveList, CloseTrigger, JoinQueue,
     CloseReader
<1>14. ASSUME CloseTheSocket \/ JoinReader PROVE Good'
  BY <1>14, AppGoto DEF CloseTheSocket, JoinReader, CloseSocket
<1>15. ASSUME Environment PROVE Good'
  BY <1>15 DEF Environment, Expire, HeartbeatDue, ServerDescribes, ServerSends, ServerTroubles,
     Arrives, Drop, ServerBack
<1>16. ASSUME UNCHANGED vars PROVE Good'
  BY <1>16 DEF vars
<1> HIDE DEF Good
<1>17. Good'
  BY <1>1, <1>2, <1>3, <1>4, <1>5, <1>6, <1>7, <1>8, <1>9, <1>10, <1>11, <1>12, <1>13, <1>14, <1>15, <1>16
  DEF Next, AppThread, QueueThread, ReaderThread
<1> QED
  BY <1>17 DEF Good

\* What faults can have done before the first one: nothing.
LEMMA FaultsStep ==
  ASSUME FaultsSeen, Types, [Next]_vars PROVE FaultsSeen'
<1> DEFINE Same == UNCHANGED <<stray, up, sock, link, faults>>
           Closes == /\ stray' => stray \/ (sock /\ ~link)
                     /\ ~sock' /\ UNCHANGED <<up, faults>>
<1> USE DEF tqVars, hsVars, flagVars, netVars, subVars, envVars
<1>1. ASSUME Same PROVE FaultsSeen'
  BY <1>1, Zenon DEF FaultsSeen
<1>2. ASSUME Closes PROVE FaultsSeen'
  BY <1>2, Zenon DEF FaultsSeen
<1>3. ASSUME CloseSocket, UNCHANGED <<up, faults>> PROVE Closes
  BY <1>3, Zenon DEF CloseSocket
<1>4. ASSUME \/ \E t, to : QueueDescribe(t) \/ QueueCountdown(t) \/ QueueRecords(t, to) \/ DescribeSent(t, to)
             \/ QueueNoHeartbeat \/ QueueCheck \/ QueueIsEmpty \/ BeginPass
             \/ EndPass \/ RunCountdown \/ RunSubscribe \/ QueueFailed
             \/ \E ok \in BOOLEAN : SendSubscription(ok) \/ QueueHeartbeat(ok) \/ RunDescribe(ok)
      PROVE  Same
  BY <1>4 DEF QueueDescribe, QueueCountdown, QueueRecords, DescribeSent, QueueNoHeartbeat, QueueFailed,
              QueueCheck, QueueIsEmpty, BeginPass, EndPass, RunCountdown, RunSubscribe, SendSubscription,
              QueueHeartbeat, RunDescribe
<1>5. ASSUME \/ ReaderStart \/ ReaderTop \/ ReaderCleanup \/ ReaderClear \/ ReaderResub \/ ReaderResubTask
             \/ ReaderRecv \/ ReaderProcess \/ AppCalls \/ AddList \/ AddRecords \/ AddCheck
             \/ AddSubscribeTask \/ RemoveCheck \/ RemoveTask \/ RemoveList \/ JoinQueue
             \/ CloseTrigger \/ CloseReader \/ Expire \/ HeartbeatDue \/ ServerDescribes \/ ServerSends
      PROVE  Same
  BY <1>5 DEF ReaderStart, ReaderTop, ReaderCleanup, ReaderClear, ReaderResub, ReaderResubTask, ReaderRecv,
              ReaderProcess, AppCalls, StartAdd, StartRemove, StartClose, AddList,
              AddRecords, AddCheck, AddSubscribeTask, RemoveCheck, CheckSupport, RemoveTask,
              RemoveList, JoinQueue, CloseTrigger, CloseReader, Expire, HeartbeatDue, ServerDescribes,
              ServerSends, Arrives
<1>6. ASSUME UNCHANGED vars PROVE Same
  BY <1>6 DEF vars
<1>7. ASSUME QueueDisconnects \/ CloseTheSocket \/ JoinReader PROVE Closes
  BY <1>3, <1>7, Zenon DEF QueueDisconnects, CloseTheSocket, JoinReader
<1>8. ASSUME ReaderNotify PROVE Same \/ Closes
  BY <1>3, <1>8, Zenon DEF ReaderNotify
<1>9. ASSUME ReaderConnect PROVE FaultsSeen'
  <2>1. UNCHANGED <<up, faults>>
    BY <1>9, Zenon DEF ReaderConnect
  <2>2. CASE up
    <3>1. (link' /\ (stray' => stray)) \/ ~up
      BY <1>9, Zenon DEF ReaderConnect
    <3> QED
      BY <2>1, <2>2, <3>1, Zenon DEF FaultsSeen
  <2>3. CASE ~up
    BY <1>9, <2>1, <2>3, Zenon DEF ReaderConnect, FaultsSeen
  <2> QED
    BY <2>2, <2>3
<1>10. ASSUME QueueSeesSilence \/ (\E m \in Message : ServerTroubles(m)) \/ (\E r \in BOOLEAN : Drop(r))
       PROVE  FaultsSeen'
  <2>1. faults' = faults + 1
    BY <1>10 DEF QueueSeesSilence, ServerTroubles, Drop
  <2>2. faults' > 0
    BY <2>1, ConnectionAssumption DEF Types
  <2> QED
    BY <2>2, Zenon DEF FaultsSeen
<1>11. ASSUME ServerBack PROVE FaultsSeen'
  BY <1>11, Zenon DEF ServerBack, FaultsSeen
<1> HIDE DEF Same, Closes
<1> QED
  BY <1>1, <1>2, <1>4, <1>5, <1>6, <1>7, <1>8, <1>9, <1>10, <1>11
  DEF Next, AppThread, QueueThread, ReaderThread, Describe, Environment, Message

\* Until the reader has a new connection described no countdown task is queued;
\* the one it adds is the only one, and only the task itself gives up waiting.
LEMMA CountdownStep ==
  ASSUME EstInv, [Next]_vars PROVE CountdownSound'
<1>0. ConnInv /\ ConnInv' /\ Types /\ Types'
  BY ConnStep DEF EstInv, ConnInv
<1> DEFINE Before == {"clear", "connect", "describe", "sentLock", "sentAdd"}
           Legal == pc'.reader \in Before => pc.reader \in Before
           Waits == dps \in {"pending", "received"} => dps' \in {"pending", "received"}
<1> USE DEF EstInv, AppLabel, QueueLabel, ReaderLabel, None,
            tqVars, hsVars, flagVars, netVars, subVars, envVars
<1>1. ASSUME tq' = tq, Legal, Waits PROVE CountdownSound'
  BY <1>1 DEF CountdownSound, IsCountdown
<1>2. ASSUME NEW task \in [kind : TaskKind, syms : SUBSET Symbols], task.kind # "countdown",
             tq' = Append(tq, task), Legal, Waits
      PROVE  CountdownSound'
  <2>1. \A k \in DOMAIN tq' : IsCountdown(k)' => k \in DOMAIN tq /\ IsCountdown(k)
    BY <1>0, <1>2, TaskAdded DEF IsCountdown
  <2> QED
    BY <1>2, <2>1 DEF CountdownSound, IsCountdown
<1>3. ASSUME tq # <<>>, tq' = Tail(tq), Legal, Waits PROVE CountdownSound'
  <2>1. \A k \in DOMAIN tq' : IsCountdown(k)' => k + 1 \in DOMAIN tq /\ IsCountdown(k + 1) /\ k \in Nat
    BY <1>0, <1>3, TaskPopped DEF IsCountdown
  <2>2. \A j, k \in DOMAIN tq' : IsCountdown(j)' /\ IsCountdown(k)' => j = k
    <3> SUFFICES ASSUME NEW j \in DOMAIN tq', NEW k \in DOMAIN tq', IsCountdown(j)', IsCountdown(k)'
                 PROVE  j = k
      OBVIOUS
    <3>1. j + 1 = k + 1 /\ j \in Nat /\ k \in Nat
      BY <2>1 DEF CountdownSound
    <3> QED
      BY <3>1
  <2> QED
    BY <1>3, <2>1, <2>2 DEF CountdownSound, IsCountdown
<1>4. ASSUME tq' = <<>> PROVE CountdownSound'
  BY <1>4 DEF CountdownSound, IsCountdown
<1> HIDE DEF EstInv
<1>5. EstInv
  OBVIOUS
<1>6. ASSUME Describe("app", "closeTrigger", "idle") PROVE CountdownSound'
  BY <1>6, <1>5 DEF EstInv, ReaderDescribes, Describe, QueueDescribe, DescribeSent, QueueCountdown,
     QueueRecords, Goto
<1>7. ASSUME QueueDescribe("reader") PROVE CountdownSound'
  BY <1>7, <1>0, <1>2, ReaderGoto DEF QueueDescribe, AddTask, Task, TaskKind
<1>8. ASSUME DescribeSent("reader", "top") PROVE CountdownSound'
  BY <1>8, <1>0, <1>1, ReaderGoto DEF DescribeSent
<1>9. ASSUME QueueCountdown("reader") PROVE CountdownSound'
  <2>1. /\ pc.reader = "sentAdd" /\ pc'.reader = "records" /\ dps' = dps
        /\ tq' = Append(tq, Task("countdown", {}))
    BY <1>9, <1>0, ReaderGoto DEF QueueCountdown, AddTask
  <2>2. dps' = "pending" /\ \A k \in DOMAIN tq : ~IsCountdown(k)
    BY <2>1, <1>5 DEF EstInv, FreshHandshake, CountdownSound
  <2>3. Task("countdown", {}) \in [kind : TaskKind, syms : SUBSET Symbols]
    BY DEF Task, TaskKind
  <2>4. \A k \in DOMAIN tq' : IsCountdown(k)' => k = Len(tq) + 1
    BY <1>0, <2>1, <2>2, <2>3, TaskAdded DEF IsCountdown
  <2> QED
    BY <2>1, <2>2, <2>4 DEF CountdownSound, IsCountdown
<1>10. ASSUME QueueRecords("reader", "resub") PROVE CountdownSound'
  BY <1>10, <1>0, <1>2, ReaderGoto DEF QueueRecords, AddTask, Task, TaskKind
<1>11. ASSUME \/ QueueSeesSilence \/ QueueNoHeartbeat \/ QueueCheck \/ QueueIsEmpty
              \/ BeginPass \/ EndPass \/ QueueFailed \/ QueueDisconnects
              \/ \E ok \in BOOLEAN : QueueHeartbeat(ok)
       PROVE  CountdownSound'
  <2>1. UNCHANGED <<tq, dps>> /\ pc'.reader = pc.reader
    BY <1>11, <1>0, QueueGoto DEF QueueSeesSilence, QueueNoHeartbeat, QueueCheck, QueueIsEmpty,
       BeginPass, EndPass, QueueFailed, QueueHeartbeat, QueueDisconnects
  <2> QED
    BY <2>1, <1>1
<1>12. ASSUME NEW ok \in BOOLEAN, RunDescribe(ok) PROVE CountdownSound'
  BY <1>12, <1>0, <1>3, QueueGoto DEF RunDescribe, Runs, Popped
<1>13. ASSUME RunCountdown PROVE CountdownSound'
  <2>1. /\ tq # <<>> /\ Head(tq).kind = "countdown" /\ pc'.reader = pc.reader
        /\ tq' = tq \/ tq' = Tail(tq)
        /\ dps' = dps \/ (dps = "pending" /\ tq' = Tail(tq))
    BY <1>13, <1>0, QueueGoto DEF RunCountdown, Runs, Popped, Stopped
  <2>2. CASE dps' = dps
    BY <2>1, <2>2, <1>1, <1>3
  <2>3. CASE tq' = Tail(tq)
    <3>1. 1 \in DOMAIN tq /\ IsCountdown(1)
      BY <2>1, <2>3, <1>0, TaskPopped DEF IsCountdown
    <3>2. \A k \in DOMAIN tq' : k # 0 /\ (IsCountdown(k)' => k + 1 \in DOMAIN tq /\ IsCountdown(k + 1) /\ k \in Nat)
      BY <2>1, <2>3, <1>0, TaskPopped DEF IsCountdown
    <3>3. \A k \in DOMAIN tq' : ~IsCountdown(k)'
      BY <3>1, <3>2, <1>5 DEF EstInv, CountdownSound
    <3> QED
      BY <3>3 DEF CountdownSound
  <2> QED
    BY <2>1, <2>2, <2>3
<1>14. ASSUME RunSubscribe PROVE CountdownSound'
  BY <1>14, <1>0, <1>1, <1>3, QueueGoto DEF RunSubscribe, Runs, Popped
<1>15. ASSUME NEW ok \in BOOLEAN, SendSubscription(ok) PROVE CountdownSound'
  BY <1>15, <1>0, <1>3, QueueGoto DEF SendSubscription, Popped, ConnInv
<1>16. ASSUME \/ ReaderStart \/ ReaderTop \/ ReaderNotify \/ ReaderResub \/ ReaderRecv
       PROVE  CountdownSound'
  BY <1>16, <1>0, <1>1, ReaderGoto DEF ReaderStart, ReaderTop, ReaderNotify, ReaderResub, ReaderRecv
<1>17. ASSUME ReaderCleanup PROVE CountdownSound'
  BY <1>17, <1>4 DEF ReaderCleanup
<1>18. ASSUME ReaderClear PROVE CountdownSound'
  BY <1>18, <1>0, <1>5, ReaderGoto DEF ReaderClear, EstInv, CountdownSound, IsCountdown
<1>19. ASSUME ReaderConnect PROVE CountdownSound'
  BY <1>19, <1>0, <1>1, ReaderGoto DEF ReaderConnect
<1>20. ASSUME ReaderResubTask PROVE CountdownSound'
  BY <1>20, <1>0, <1>2, ReaderGoto DEF ReaderResubTask, AddTask, Task, TaskKind, Types
<1>21. ASSUME ReaderProcess PROVE CountdownSound'
  BY <1>21, <1>0, <1>1, ReaderGoto DEF ReaderProcess
<1>22. ASSUME \/ AppCalls \/ AddList \/ AddCheck \/ RemoveCheck
              \/ RemoveList \/ CloseTrigger \/ JoinQueue \/ CloseReader \/ CloseTheSocket
       PROVE  CountdownSound'
  <2>1. UNCHANGED <<tq, dps>> /\ pc'.reader = pc.reader
    BY <1>22, <1>0, AppGoto DEF AppCalls, StartAdd, StartRemove, StartClose, AddList, AddCheck,
       RemoveCheck, CheckSupport, RemoveList, CloseTrigger, JoinQueue, CloseReader, CloseTheSocket
  <2> QED
    BY <2>1, <1>1
<1>23. ASSUME AddRecords PROVE CountdownSound'
  BY <1>23, <1>0, <1>2, AppGoto DEF AddRecords, AddTask, Task, TaskKind
<1>24. ASSUME AddSubscribeTask PROVE CountdownSound'
  BY <1>24, <1>0, <1>2, AppGoto DEF AddSubscribeTask, AddTask, Task, TaskKind, ConnInv, InCall
<1>25. ASSUME RemoveTask PROVE CountdownSound'
  BY <1>25, <1>0, <1>2, AppGoto DEF RemoveTask, AddTask, Task, TaskKind, ConnInv, InCall
<1>26. ASSUME JoinReader PROVE CountdownSound'
  BY <1>26, <1>4 DEF JoinReader
<1>27. ASSUME Environment PROVE CountdownSound'
  BY <1>27, <1>1 DEF Environment, Expire, HeartbeatDue, ServerDescribes, ServerSends, ServerTroubles,
     Arrives, Drop, ServerBack
<1>28. ASSUME UNCHANGED vars PROVE CountdownSound'
  BY <1>28, <1>1 DEF vars
<1> QED
  BY <1>6, <1>7, <1>8, <1>9, <1>10, <1>11, <1>12, <1>13, <1>14, <1>15, <1>16, <1>17, <1>18, <1>19,
     <1>20, <1>21, <1>22, <1>23, <1>24, <1>25, <1>26, <1>27, <1>28
  DEF Next, AppThread, QueueThread, ReaderThread, Describe

\* The state after a creation that went well satisfies the invariant.
LEMMA EstInit ==
  ASSUME InitEstablished PROVE EstInv
<1>1. pc \in [app : AppLabel, queue : QueueLabel, reader : ReaderLabel]
  BY DEF InitEstablished, AppLabel, QueueLabel, ReaderLabel
<1>2. tq \in Seq([kind : TaskKind, syms : SUBSET Symbols])
  BY EmptySeq DEF InitEstablished
<1>3. ops \in 0..MaxOps /\ faults \in 0..MaxFaults
  BY ConnectionAssumption DEF InitEstablished
<1>4. Types
  BY <1>1, <1>2, <1>3 DEF InitEstablished, Types, None, Message
<1>5. CountdownSound
  BY EmptySeq DEF InitEstablished, CountdownSound, IsCountdown
<1>6. ConnInv /\ ReaderDescribes /\ SocketGivenUp /\ FreshHandshake /\ SocketCounted
  BY <1>4 DEF InitEstablished, ConnInv, InCall, ReaderDescribes, SocketGivenUp,
     FreshHandshake, SocketCounted, None
<1>7. FaultsSeen
  BY Zenon DEF InitEstablished, FaultsSeen
<1> QED
  BY <1>5, <1>6, <1>7 DEF EstInv

\* EstInv is inductive.
LEMMA EstStep ==
  ASSUME EstInv, [Next]_vars PROVE EstInv'
<1>1. ConnInv /\ FaultsSeen /\ Types
  BY DEF EstInv, ConnInv
<1> QED
  BY <1>1, ConnStep, ReaderStep, CountdownStep, FaultsStep DEF EstInv

\* The inductive invariant of an established connection: what the reader, the
\* socket and the handshake are like at each point of dx_socket_reader.
THEOREM EstInvariant == SpecEstablished => []EstInv
BY EstInit, EstStep, PTL DEF SpecEstablished

\* However the faults, the timeouts and the API calls fall, the threads of an
\* established connection give every socket descriptor to dx_close once: the flag
\* dx_close_socket tests agrees with what is not closed yet.  A descriptor that
\* dx_close leaves open (its shutdown fails) is always one the network has failed.
THEOREM NoDescriptorLeakTheorem == SpecEstablished => []NoDescriptorLeak
<1>1. EstInv => NoDescriptorLeak
  BY Zenon DEF EstInv, SocketCounted, FaultsSeen, NoDescriptorLeak
<1> QED
  BY <1>1, EstInvariant, PTL

\* The statuses dx_describe_protocol_timeout_countdown_task says "must never
\* happen" do not: a countdown task never outlives its handshake.
THEOREM CountdownNeverSurprisedTheorem == SpecEstablished => []CountdownNeverSurprised
<1>1. EstInv => CountdownNeverSurprised
  <2> SUFFICES ASSUME EstInv, Runs({"countdown"}) PROVE dps \in {"pending", "received"}
    BY DEF CountdownNeverSurprised
  <2>1. tq # <<>> /\ Head(tq).kind = "countdown" /\ tq \in Seq([kind : TaskKind, syms : SUBSET Symbols])
    BY DEF Runs, EstInv, ConnInv, Types
  <2>2. 1 \in DOMAIN tq /\ Head(tq) = tq[1]
    BY ONLY <2>1, HeadTailProperties, EmptySeq
  <2> QED
    BY <2>1, <2>2 DEF EstInv, CountdownSound, IsCountdown
<1> QED
  BY <1>1, EstInvariant, PTL
-----------------------------------------------------------------------------
\* Unless an API call was half way across the loss of the connection, the order
\* in which the reader and the calls fill the queue is the order in which the
\* server is spoken to.
LEMMA OrderStep ==
  ASSUME OrderInv, [Next]_vars PROVE (~stale' => QueueInOrder') /\ DescribedFirst'
<1>0. /\ EstInv /\ EstInv' /\ ConnInv /\ ConnInv' /\ Types /\ Types'
      /\ (~stale => QueueInOrder) /\ DescribedFirst
      /\ ReaderDescribes /\ SocketGivenUp /\ SocketGivenUp' /\ FreshHandshake
  BY EstStep DEF OrderInv, EstInv, ConnInv
<1> USE DEF AppLabel, QueueLabel, ReaderLabel, None,
            tqVars, hsVars, flagVars, netVars, subVars, envVars
<1> DEFINE Good == (~stale => QueueInOrder) /\ DescribedFirst
           Told == described \/ ~link
           Early == {"connect", "describe", "sentLock", "sentAdd"}
           Asking == {"addTask", "removeTask"}
           Keeps == /\ stale' = stale
                    /\ Told => Told'
                    /\ pc'.reader \in Early => pc.reader \in Early
                    /\ pc'.reader \in Early /\ pc'.app \in Asking => pc.app \in Asking
\* the queue is left alone
<1>1. ASSUME tq' = tq, Keeps, pc.reader = "describe" => pc'.reader = "describe" PROVE ~stale' => QueueInOrder'
  <2> SUFFICES ASSUME QueueInOrder PROVE QueueInOrder'
    BY <1>0, <1>1
  <2>1. DescribedBefore(Len(tq) + 1) => DescribedBefore(Len(tq) + 1)'
    BY <1>1 DEF DescribedBefore, IsDescribe
  <2>2. \A k \in DOMAIN tq : DescribedBefore(k) => DescribedBefore(k)'
    BY <1>1 DEF DescribedBefore, IsDescribe
  <2> QED
    BY <1>0, <1>1, <2>1, <2>2 DEF QueueInOrder, IsRequest
\* the oldest task is popped
<1>2. ASSUME tq # <<>>, tq' = Tail(tq), pc'.reader = pc.reader, Keeps,
             Head(tq).kind = "describe" => Told'
      PROVE  ~stale' => QueueInOrder'
  <2> SUFFICES ASSUME QueueInOrder PROVE QueueInOrder'
    BY <1>0, <1>2
  <2>1. /\ Len(tq) \in Nat /\ Len(tq) >= 1 /\ Len(tq') = Len(tq) - 1
        /\ DOMAIN tq = 1..Len(tq) /\ DOMAIN tq' = 1..(Len(tq) - 1)
        /\ \A k \in DOMAIN tq' : tq'[k] = tq[k + 1] /\ k + 1 \in DOMAIN tq
        /\ Head(tq) = tq[1]
    BY <1>0, <1>2, TaskPopped
  <2>2. ASSUME NEW k \in 1..Len(tq), DescribedBefore(k + 1) PROVE DescribedBefore(k)'
    <3>1. CASE Told
      BY <3>1, <1>2 DEF DescribedBefore
    <3>2. CASE \E j \in DOMAIN tq : j < k + 1 /\ IsDescribe(j)
      <4>1. PICK j \in DOMAIN tq : j < k + 1 /\ IsDescribe(j)
        BY <3>2
      <4>2. CASE j = 1
        BY <4>1, <4>2, <2>1, <1>2 DEF DescribedBefore, IsDescribe
      <4>3. CASE j # 1
        <5>1. j - 1 \in DOMAIN tq' /\ j - 1 < k /\ tq'[j - 1] = tq[j]
          BY <4>1, <4>3, <2>1
        <5> QED
          BY <5>1, <4>1 DEF DescribedBefore, IsDescribe
      <4> QED
        BY <4>2, <4>3
    <3> QED
      BY <2>2, <3>1, <3>2 DEF DescribedBefore
  <2>3. \A k \in DOMAIN tq' : IsRequest(k)' => IsRequest(k + 1)
    BY <2>1 DEF IsRequest
  <2>4. pc.reader \in Early => \A k \in DOMAIN tq' : ~IsRequest(k)'
    BY <2>1, <2>3 DEF QueueInOrder
  <2>5. pc.reader # "describe" => DescribedBefore(Len(tq) + 1)'
    <3> SUFFICES ASSUME pc.reader # "describe" PROVE DescribedBefore(Len(tq) + 1)'
      OBVIOUS
    <3>1. PICK n \in Nat : n = Len(tq)
      BY <2>1
    <3>2. DescribedBefore(n + 1) /\ n \in 1..Len(tq)
      BY <2>1, <3>1 DEF QueueInOrder
    <3>3. DescribedBefore(n)'
      BY <3>2, <2>2
    <3>4. Len(tq)' + 1 = n
      BY <2>1, <3>1
    <3> QED
      BY <3>3, <3>4 DEF DescribedBefore
  <2>6. \A k \in DOMAIN tq' : IsRequest(k)' => DescribedBefore(k)'
    <3> SUFFICES ASSUME NEW k \in DOMAIN tq', IsRequest(k)' PROVE DescribedBefore(k)'
      OBVIOUS
    <3>1. DescribedBefore(k + 1) /\ k \in 1..Len(tq)
      BY <2>1, <2>3 DEF QueueInOrder
    <3> QED
      BY <3>1, <2>2
  <2>7. pc.reader \in Early => pc'.app \notin Asking
    BY <1>2 DEF QueueInOrder
  <2> QED
    BY <1>2, <2>4, <2>5, <2>6, <2>7 DEF QueueInOrder
\* a task is added
<1>3. ASSUME NEW task \in [kind : TaskKind, syms : SUBSET Symbols], tq' = Append(tq, task), Keeps,
             task.kind = "describe" \/ pc.reader # "describe" \/ pc'.reader = "describe",
             task.kind \in {"subscribe", "unsubscribe"} /\ ~stale => pc.reader \notin Early
      PROVE  ~stale' => QueueInOrder'
  <2> SUFFICES ASSUME QueueInOrder, ~stale PROVE QueueInOrder'
    BY <1>0, <1>3
  <2>1. /\ Len(tq) \in Nat /\ Len(tq') = Len(tq) + 1
        /\ DOMAIN tq = 1..Len(tq) /\ DOMAIN tq' = 1..(Len(tq) + 1)
        /\ \A k \in DOMAIN tq : tq'[k] = tq[k]
        /\ tq'[Len(tq) + 1] = task
    BY <1>0, <1>3, TaskAdded
  <2>2. ASSUME NEW k \in 1..(Len(tq) + 2), DescribedBefore(k) PROVE DescribedBefore(k)'
    BY <2>1, <2>2, <1>3 DEF DescribedBefore, IsDescribe
  <2>3. pc'.reader # "describe" => DescribedBefore(Len(tq) + 1)'
    <3> SUFFICES ASSUME pc'.reader # "describe" PROVE DescribedBefore(Len(tq) + 1)'
      OBVIOUS
    <3>0. PICK n \in Nat : n = Len(tq)
      BY <2>1
    <3>1. CASE task.kind = "describe"
      <4>1. n + 1 \in DOMAIN tq' /\ n + 1 < Len(tq)' + 1 /\ IsDescribe(n + 1)'
        BY <2>1, <3>0, <3>1 DEF IsDescribe
      <4> QED
        BY <4>1 DEF DescribedBefore
    <3>2. CASE pc.reader # "describe"
      <4>1. DescribedBefore(n + 1)
        BY <3>0, <3>2 DEF QueueInOrder
      <4>2. DescribedBefore(n + 1)'
        BY <4>1, <2>1, <2>2, <3>0
      <4>3. n + 1 < Len(tq)' + 1 /\ DOMAIN tq' \subseteq Nat /\ Len(tq)' \in Nat
        BY <2>1, <3>0
      <4> QED
        BY <4>2, <4>3 DEF DescribedBefore
    <3> QED
      BY <1>3, <3>1, <3>2
  <2>4. pc'.reader \in Early => \A k \in DOMAIN tq' : ~IsRequest(k)'
    BY <1>3, <2>1 DEF QueueInOrder, IsRequest
  <2>5. \A k \in DOMAIN tq' : IsRequest(k)' => DescribedBefore(k)'
    <3> SUFFICES ASSUME NEW k \in DOMAIN tq', IsRequest(k)' PROVE DescribedBefore(k)'
      OBVIOUS
    <3>1. DescribedBefore(k)
      <4>1. CASE k \in DOMAIN tq
        BY <4>1, <2>1 DEF QueueInOrder, IsRequest
      <4>2. CASE k \notin DOMAIN tq
        <5>1. k = Len(tq) + 1 /\ pc.reader \notin Early
          BY <4>2, <1>3, <2>1 DEF IsRequest
        <5> QED
          BY <5>1 DEF QueueInOrder
      <4> QED
        BY <4>1, <4>2
    <3> QED
      BY <3>1, <2>1, <2>2
  <2>6. pc'.reader \in Early => pc'.app \notin Asking
    BY <1>3 DEF QueueInOrder
  <2> QED
    BY <2>3, <2>4, <2>5, <2>6 DEF QueueInOrder
\* the queue is emptied
<1>4. ASSUME tq' = <<>>, ~link', pc'.reader \notin Early PROVE QueueInOrder'
  BY <1>4 DEF QueueInOrder, DescribedBefore
\* the server is told nothing new
<1>5. ASSUME srvSubs' = srvSubs, described => described', stale' = stale, sock' => sock PROVE DescribedFirst'
  BY <1>0, <1>5, Zenon DEF DescribedFirst
\* the application only asks for something once the handshake is under way
<1>6. ~stale /\ pc.app \in Asking => pc.reader \notin Early
  BY <1>0 DEF QueueInOrder
<1>7. pc.app \notin {"describe", "sentLock", "sentAdd", "records"} /\ pc.reader # "start"
  BY <1>0 DEF ReaderDescribes
<1> HIDE DEF Good
<1>8. ASSUME QueueDescribe("reader") PROVE Good'
  <2>1. /\ pc.reader = "describe" /\ pc'.reader = "sentLock" /\ pc'.app = pc.app
        /\ tq' = Append(tq, Task("describe", {})) /\ UNCHANGED <<described, link, srvSubs, stale, sock>>
    BY <1>8, <1>0, ReaderGoto DEF QueueDescribe, AddTask
  <2> QED
    BY <2>1, <1>3, <1>5 DEF Good, Task, TaskKind
<1>9. ASSUME DescribeSent("reader", "top") PROVE Good'
  <2>1. /\ pc.reader = "sentLock" /\ pc'.reader \in {"top", "records", "sentAdd"} /\ pc'.app = pc.app
        /\ UNCHANGED <<tq, described, link, srvSubs, stale, sock>>
    BY <1>9, <1>0, ReaderGoto DEF DescribeSent
  <2> QED
    BY <2>1, <1>1, <1>5 DEF Good
<1>10. ASSUME QueueCountdown("reader") \/ QueueRecords("reader", "resub") PROVE Good'
  <2>1. /\ pc.reader \in {"sentAdd", "records"} /\ pc'.reader \in {"records", "resub"} /\ pc'.app = pc.app
        /\ tq' = Append(tq, Task("countdown", {})) \/ tq' = Append(tq, Task("records", {}))
        /\ UNCHANGED <<described, link, srvSubs, stale, sock>>
    BY <1>10, <1>0, ReaderGoto DEF QueueCountdown, QueueRecords, AddTask
  <2> QED
    BY <2>1, <1>3, <1>5 DEF Good, Task, TaskKind
<1>12. ASSUME \/ QueueSeesSilence \/ QueueNoHeartbeat \/ QueueCheck \/ QueueIsEmpty
              \/ BeginPass \/ EndPass \/ QueueFailed
              \/ \E ok \in BOOLEAN : QueueHeartbeat(ok)
       PROVE  Good'
  <2>1. UNCHANGED <<tq, described, link, srvSubs, stale, sock>> /\ pc'.reader = pc.reader /\ pc'.app = pc.app
    BY <1>12, <1>0, QueueGoto DEF QueueSeesSilence, QueueNoHeartbeat, QueueCheck, QueueIsEmpty,
       BeginPass, EndPass, QueueFailed, QueueHeartbeat
  <2> QED
    BY <2>1, <1>1, <1>5 DEF Good
<1>13. ASSUME QueueDisconnects PROVE Good'
  <2>1. /\ UNCHANGED <<tq, described, srvSubs, stale>> /\ pc'.reader = pc.reader /\ pc'.app = pc.app
        /\ ~sock' /\ (link' => link)
    BY <1>13, <1>0, QueueGoto DEF QueueDisconnects, CloseSocket
  <2> QED
    BY <2>1, <1>1, <1>5 DEF Good
<1>14. ASSUME NEW ok \in BOOLEAN, RunDescribe(ok) PROVE Good'
  <2>1. /\ tq # <<>> /\ tq' = Tail(tq) /\ UNCHANGED <<link, srvSubs, stale, sock>>
        /\ pc'.reader = pc.reader /\ pc'.app = pc.app
    BY <1>14, <1>0, QueueGoto DEF RunDescribe, Runs, Popped
  <2>2. described' <=> (described \/ (link /\ Head(tq).kind = "describe"))
    BY <1>14 DEF RunDescribe
  <2> QED
    BY <2>1, <2>2, <1>2, <1>5 DEF Good
<1>15. ASSUME RunCountdown \/ RunSubscribe PROVE Good'
  <2>1. /\ UNCHANGED <<described, link, srvSubs, stale, sock>> /\ pc'.reader = pc.reader /\ pc'.app = pc.app
        /\ Head(tq).kind # "describe" /\ tq # <<>> /\ (tq' = tq \/ tq' = Tail(tq))
    BY <1>15, <1>0, QueueGoto DEF RunCountdown, RunSubscribe, Runs, Popped, Stopped
  <2> QED
    BY <2>1, <1>1, <1>2, <1>5 DEF Good
<1>17. ASSUME NEW ok \in BOOLEAN, SendSubscription(ok) PROVE Good'
  <2>1. /\ UNCHANGED <<described, link, stale, sock>> /\ pc'.reader = pc.reader /\ pc'.app = pc.app
        /\ pc.queue = "send" /\ tq' = Tail(tq) /\ (~link => srvSubs' = srvSubs)
    BY <1>17, <1>0, QueueGoto DEF SendSubscription, Popped
  <2>2. tq # <<>> /\ Head(tq).kind \in {"subscribe", "unsubscribe"}
    BY <2>1, <1>0 DEF ConnInv
  <2>3. ~stale => described \/ ~link
    <3>1. Head(tq) = tq[1] /\ DOMAIN tq = 1..Len(tq) /\ Len(tq) \in Nat /\ Len(tq) >= 1
      BY <2>1, <2>2, <1>0, TaskPopped
    <3>2. IsRequest(1)
      BY <2>2, <3>1 DEF IsRequest
    <3>3. ~stale => DescribedBefore(1)
      BY <1>0, <3>1, <3>2 DEF QueueInOrder
    <3>4. \A j \in DOMAIN tq : ~(j < 1)
      BY <3>1
    <3> QED
      BY <3>3, <3>4 DEF DescribedBefore
  <2>4. DescribedFirst'
    BY <2>1, <2>3, <1>0, Zenon DEF DescribedFirst
  <2>5. ~stale' => QueueInOrder'
    BY <2>1, <2>2, <1>2
  <2> QED
    BY <2>4, <2>5 DEF Good
<1>18. ASSUME ReaderStart \/ ReaderTop \/ ReaderResub \/ ReaderRecv \/ ReaderProcess PROVE Good'
  <2>1. /\ UNCHANGED <<tq, described, link, srvSubs, stale, sock>> /\ pc'.app = pc.app
        /\ pc.reader # "describe" /\ pc'.reader \notin Early
    BY <1>18, <1>0, ReaderGoto DEF ReaderStart, ReaderTop, ReaderResub, ReaderRecv, ReaderProcess
  <2> QED
    BY <2>1, <1>1, <1>5 DEF Good
<1>19. ASSUME ReaderNotify PROVE Good'
  <2>1. /\ UNCHANGED <<tq, described, srvSubs, stale>> /\ pc'.app = pc.app
        /\ pc.reader # "describe" /\ pc'.reader \notin Early /\ (sock' => sock) /\ (link' => link)
    BY <1>19, <1>0, ReaderGoto DEF ReaderNotify, CloseSocket
  <2> QED
    BY <2>1, <1>1, <1>5 DEF Good
<1>20. ASSUME ReaderCleanup PROVE Good'
  <2>1. /\ tq' = <<>> /\ pc.reader = "cleanup" /\ status # "login_required" /\ ~link
        /\ UNCHANGED <<link, described, srvSubs, stale, sock>>
    BY <1>20, <1>0, ReaderGoto DEF ReaderCleanup, SocketGivenUp
  <2>2. pc'.reader = "clear"
    BY <1>20, <2>1, <1>0, ReaderGoto DEF ReaderCleanup
  <2> QED
    BY <2>1, <2>2, <1>4, <1>5 DEF Good
<1>21. ASSUME ReaderClear PROVE Good'
  <2>1. /\ UNCHANGED <<tq, link, sock>> /\ ~sock /\ ~link /\ pc'.app = pc.app
        /\ stale' <=> (\/ pc.app \in Asking
                       \/ \E i \in 1..Len(tq) : tq[i].kind \in {"subscribe", "unsubscribe"})
    BY <1>21, <1>0, ReaderGoto DEF ReaderClear, SocketGivenUp
  <2>2. DOMAIN tq = 1..Len(tq)
    BY <1>0 DEF Types
  <2>3. ~stale' => QueueInOrder'
    BY <2>1, <2>2 DEF QueueInOrder, DescribedBefore, IsRequest
  <2> QED
    BY <2>1, <2>3, Zenon DEF Good, DescribedFirst
<1>22. ASSUME ReaderConnect PROVE Good'
  <2>1. /\ pc.reader = "connect" /\ pc'.app = pc.app /\ UNCHANGED <<tq, stale>>
        /\ \/ pc'.reader = "describe" /\ srvSubs' = {}
           \/ pc'.reader = "top" /\ UNCHANGED <<srvSubs, described, link, sock>>
    BY <1>22, <1>0, ReaderGoto DEF ReaderConnect
  <2>2. CASE pc'.reader = "describe" /\ srvSubs' = {}
    <3>1. ~stale' => QueueInOrder'
      BY <2>1, <2>2, <1>0 DEF QueueInOrder, IsRequest
    <3> QED
      BY <2>2, <3>1, Zenon DEF Good, DescribedFirst
  <2>3. CASE pc'.reader = "top" /\ UNCHANGED <<srvSubs, described, link, sock>>
    BY <2>1, <2>3, <1>1, <1>5 DEF Good
  <2> QED
    BY <2>1, <2>2, <2>3
<1>23. ASSUME ReaderResubTask PROVE Good'
  <2>1. /\ pc.reader = "resubTask" /\ pc'.reader = "recv" /\ pc'.app = pc.app
        /\ tq' = Append(tq, Task("subscribe", symbols))
        /\ UNCHANGED <<described, link, srvSubs, stale, sock>>
    BY <1>23, <1>0, ReaderGoto DEF ReaderResubTask, AddTask
  <2>2. Task("subscribe", symbols) \in [kind : TaskKind, syms : SUBSET Symbols]
    BY <1>0 DEF Types, Task, TaskKind
  <2> QED
    BY <2>1, <2>2, <1>3, <1>5 DEF Good
<1>24. ASSUME AddRecords PROVE Good'
  <2>1. /\ pc'.reader = pc.reader /\ pc'.app = "addCheck"
        /\ tq' = Append(tq, Task("records", {}))
        /\ UNCHANGED <<described, link, srvSubs, stale, sock>>
    BY <1>24, <1>0, AppGoto DEF AddRecords, AddTask
  <2> QED
    BY <2>1, <1>3, <1>5 DEF Good, Task, TaskKind
<1>25. ASSUME AddSubscribeTask \/ RemoveTask PROVE Good'
  <2>1. /\ pc'.reader = pc.reader /\ pc.app \in Asking
        /\ \/ tq' = Append(tq, Task("subscribe", {arg}))
           \/ tq' = Append(tq, Task("unsubscribe", {arg}))
        /\ UNCHANGED <<described, link, srvSubs, stale, sock>>
    BY <1>25, <1>0, AppGoto DEF AddSubscribeTask, RemoveTask, AddTask
  <2>2. arg \in Symbols
    BY <2>1, <1>0 DEF ConnInv, InCall
  <2>3. \A kind \in {"subscribe", "unsubscribe"} :
          Task(kind, {arg}) \in [kind : TaskKind, syms : SUBSET Symbols]
    BY <2>2 DEF Task, TaskKind
  <2> QED
    BY <2>1, <2>3, <1>3, <1>5, <1>6 DEF Good
<1>26. ASSUME AddCheck \/ RemoveCheck PROVE Good'
  <2>1. /\ UNCHANGED <<tq, described, link, srvSubs, stale, sock>> /\ pc'.reader = pc.reader
        /\ pc'.app \in Asking => dps # "not_sent" /\ dGuard = None
    BY <1>26, <1>0, AppGoto DEF AddCheck, RemoveCheck, CheckSupport
  <2>2. pc.reader \in Early => dps = "not_sent" \/ dGuard = "reader"
    BY <1>0 DEF FreshHandshake, ReaderDescribes
  <2> QED
    BY <2>1, <2>2, <1>1, <1>5 DEF Good
<1>27. ASSUME \/ \E x \in Symbols : StartAdd(x) \/ StartRemove(x)
              \/ StartClose \/ AddList \/ RemoveList \/ CloseTrigger \/ JoinQueue \/ CloseReader
       PROVE  Good'
  <2>1. UNCHANGED <<tq, described, link, srvSubs, stale, sock>> /\ pc'.reader = pc.reader /\ pc'.app \notin Asking
    BY <1>27, <1>0, AppGoto DEF StartAdd, StartRemove, StartClose, AddList, RemoveList, CloseTrigger,
       JoinQueue, CloseReader
  <2> QED
    BY <2>1, <1>1, <1>5 DEF Good
<1>28. ASSUME CloseTheSocket PROVE Good'
  <2>1. /\ UNCHANGED <<tq, described, srvSubs, stale>> /\ pc'.reader = pc.reader /\ pc'.app \notin Asking
        /\ ~sock' /\ (link' => link)
    BY <1>28, <1>0, AppGoto DEF CloseTheSocket, CloseSocket
  <2> QED
    BY <2>1, <1>1, <1>5 DEF Good
<1>29. ASSUME JoinReader PROVE Good'
  <2>1. /\ tq' = <<>> /\ pc'.reader = "done" /\ ~sock' /\ UNCHANGED <<described, srvSubs, stale>>
    BY <1>29, <1>0, AppGoto DEF JoinReader, CloseSocket
  <2>2. ~link'
    BY <2>1, <1>0 DEF SocketGivenUp
  <2> QED
    BY <2>1, <2>2, <1>4, <1>5 DEF Good
<1>30. ASSUME Environment PROVE Good'
  <2>1. UNCHANGED <<pc, tq, described, srvSubs, stale, sock>> /\ (link' => link)
    BY <1>30 DEF Environment, Expire, HeartbeatDue, ServerDescribes, ServerSends,
       ServerTroubles, Arrives, Drop, ServerBack
  <2> QED
    BY <2>1, <1>1, <1>5 DEF Good
<1>31. ASSUME UNCHANGED vars PROVE Good'
  BY <1>31, <1>1, <1>5 DEF Good, vars
<1>32. ASSUME Describe("app", "closeTrigger", "idle") PROVE Good'
  BY <1>32, <1>7 DEF Describe, QueueDescribe, DescribeSent, QueueCountdown, QueueRecords, Goto
<1>33. Good'
  BY <1>8, <1>9, <1>10, <1>12, <1>13, <1>14, <1>15, <1>17, <1>18, <1>19,
     <1>20, <1>21, <1>22, <1>23, <1>24, <1>25, <1>26, <1>27, <1>28, <1>29, <1>30, <1>31, <1>32
  DEF Next, AppThread, AppCalls, QueueThread, ReaderThread, Describe
<1> QED
  BY <1>33 DEF Good

LEMMA OrderInvariant == SpecEstablished => []OrderInv
<1>1. ASSUME InitEstablished PROVE OrderInv
  <2>1. pc.app = "idle" /\ pc.reader = "recv" /\ tq = <<>> /\ DOMAIN tq = {}
    BY <1>1 DEF InitEstablished
  <2>2. described /\ Flags
    <3>1. ThreadFlags
      BY <1>1, Zenon DEF InitEstablished, ThreadFlags
    <3>2. NetFlags
      BY <1>1, ConnectionAssumption, Zenon DEF InitEstablished, NetFlags
    <3>3. described
      BY <1>1, Zenon DEF InitEstablished
    <3> QED
      BY <3>1, <3>2, <3>3 DEF Flags
  <2>3. QueueInOrder
    BY <2>1, <2>2 DEF QueueInOrder, DescribedBefore
  <2>4. DescribedFirst
    BY <2>2, Zenon DEF DescribedFirst
  <2> QED
    BY <1>1, <2>2, <2>3, <2>4, EstInit DEF OrderInv
<1>2. ASSUME OrderInv, [Next]_vars PROVE OrderInv'
  <2>1. EstInv' /\ Flags'
    BY <1>2, EstStep, FlagsStep DEF OrderInv
  <2>2. (~stale' => QueueInOrder') /\ DescribedFirst'
    BY <1>2, OrderStep
  <2> QED
    BY <2>1, <2>2 DEF OrderInv
<1> QED
  BY <1>1, <1>2, PTL DEF SpecEstablished

\* However often the connection is lost and re-established and whatever API calls
\* this meets, the server learns the client's protocol before it is asked for
\* symbols, although the queue is thrown away and filled again by another thread:
\* the only request that can slip before the description is one whose call or task
\* had looked at the old handshake when dx_clear_server_info threw it away.
THEOREM DescribedFirstTheorem == SpecEstablished => []DescribedFirst
<1>1. OrderInv => DescribedFirst
  BY DEF OrderInv
<1> QED
  BY <1>1, OrderInvariant, PTL

\* The queue thread never waits for the describe guard while the reader, which
\* holds it, waits for the guard of the queue, whatever API calls are under way:
\* a request that makes it wait there is one that had looked at the old handshake.
THEOREM NoGuardCycleTheorem == SpecEstablished => []NoGuardCycle
<1>1. OrderInv => NoGuardCycle
  <2> SUFFICES ASSUME OrderInv, ~stale, dGuard # None, tq # <<>>
               PROVE  Head(tq).kind \notin {"countdown", "subscribe", "unsubscribe"}
    BY DEF NoGuardCycle
  <2>1. pc.reader = "sentAdd" /\ QueueInOrder /\ CountdownSound
    BY DEF OrderInv, EstInv, ReaderDescribes
  <2>2. tq \in Seq([kind : TaskKind, syms : SUBSET Symbols])
    BY DEF OrderInv, EstInv, ConnInv, Types
  <2>3. 1 \in DOMAIN tq /\ Head(tq) = tq[1]
    BY ONLY <2>2, tq # <<>>, HeadTailProperties, EmptySeq
  <2> QED
    BY <2>1, <2>3 DEF QueueInOrder, CountdownSound, IsCountdown, IsRequest
<1> QED
  BY <1>1, OrderInvariant, PTL
-----------------------------------------------------------------------------
\* An unsubscription of other symbols leaves a request for x alone ...
LEMMA AskedAdded ==
  ASSUME Types, NEW x, NEW task \in [kind : TaskKind, syms : SUBSET Symbols],
         tq' = Append(tq, task), srvSubs' = srvSubs, Asked(x),
         task.kind = "unsubscribe" => x \notin task.syms
  PROVE  Asked(x)'
<1>1. /\ Len(tq) \in Nat /\ DOMAIN tq = 1..Len(tq) /\ DOMAIN tq' = 1..(Len(tq) + 1)
      /\ \A k \in DOMAIN tq : tq'[k] = tq[k]
      /\ tq'[Len(tq) + 1] = task
  BY TaskAdded
<1>2. \A k : Subscribes(k, x) => Subscribes(k, x)'
  BY <1>1 DEF Subscribes
<1>3. \A k : Unsubscribes(k, x)' => Unsubscribes(k, x)
  BY <1>1 DEF Unsubscribes
<1>4. DOMAIN tq \subseteq DOMAIN tq'
  BY <1>1
<1>5. \A k \in DOMAIN tq' : Unsubscribes(k, x)' => \E j \in DOMAIN tq' : j > k /\ Subscribes(j, x)'
  BY <1>2, <1>3, <1>4 DEF Asked, Unsubscribes
<1> QED
  BY <1>2, <1>4, <1>5 DEF Asked

\* ... and a subscription to x has the last word.
LEMMA AskedAtLast ==
  ASSUME Types, NEW x, NEW task \in [kind : TaskKind, syms : SUBSET Symbols],
         tq' = Append(tq, task), task.kind = "subscribe", x \in task.syms
  PROVE  Asked(x)'
<1>1. /\ Len(tq) \in Nat /\ DOMAIN tq = 1..Len(tq) /\ DOMAIN tq' = 1..(Len(tq) + 1)
      /\ tq'[Len(tq) + 1] = task
  BY TaskAdded
<1>2. PICK n \in Nat : n = Len(tq) + 1
  BY <1>1
<1>3. n \in DOMAIN tq' /\ Subscribes(n, x)'
  BY <1>1, <1>2 DEF Subscribes
<1>4. \A k \in DOMAIN tq' : Unsubscribes(k, x)' => n > k
  BY <1>1, <1>2 DEF Unsubscribes
<1> QED
  BY <1>3, <1>4 DEF Asked

\* Running the oldest task keeps a request for x: if it was this task, the
\* server has been asked.
LEMMA AskedPopped ==
  ASSUME Types, NEW x, tq # <<>>, tq' = Tail(tq), Asked(x),
         Subscribes(1, x) => x \in srvSubs',
         x \in srvSubs /\ ~Unsubscribes(1, x) => x \in srvSubs'
  PROVE  Asked(x)'
<1>1. /\ Len(tq) \in Nat /\ Len(tq) >= 1
      /\ DOMAIN tq = 1..Len(tq) /\ DOMAIN tq' = 1..(Len(tq) - 1)
      /\ \A k \in DOMAIN tq' : tq'[k] = tq[k + 1] /\ k + 1 \in DOMAIN tq
  BY TaskPopped
<1>2. ASSUME NEW k \in DOMAIN tq, k > 1, Subscribes(k, x)
      PROVE  k - 1 \in DOMAIN tq' /\ Subscribes(k - 1, x)'
  <2>1. k - 1 \in DOMAIN tq' /\ (k - 1) + 1 = k
    BY <1>1, <1>2
  <2>2. tq'[k - 1] = tq[k]
    BY <1>1, <2>1
  <2> QED
    BY <1>2, <2>1, <2>2 DEF Subscribes
<1>3. ASSUME NEW k \in DOMAIN tq', Unsubscribes(k, x)'
      PROVE  \E j \in DOMAIN tq' : j > k /\ Subscribes(j, x)'
  <2>1. k + 1 \in DOMAIN tq /\ Unsubscribes(k + 1, x) /\ k \in Nat
    BY <1>1, <1>3 DEF Unsubscribes
  <2>2. PICK j \in DOMAIN tq : j > k + 1 /\ Subscribes(j, x)
    BY <2>1 DEF Asked
  <2>3. j > 1 /\ j - 1 > k /\ j \in Nat
    BY <1>1, <1>3, <2>1, <2>2
  <2> QED
    BY <2>2, <2>3, <1>2
<1>4. x \in srvSubs' \/ \E k \in DOMAIN tq' : Subscribes(k, x)'
  <2>1. CASE \E k \in DOMAIN tq : Subscribes(k, x) /\ k > 1
    BY <2>1, <1>2
  <2>2. CASE Unsubscribes(1, x)
    BY <2>2, <2>1, <1>1 DEF Asked
  <2>3. CASE ~Unsubscribes(1, x) /\ ~\E k \in DOMAIN tq : Subscribes(k, x) /\ k > 1
    BY <2>3, <1>1 DEF Asked
  <2> QED
    BY <2>1, <2>2, <2>3
<1> QED
  BY <1>3, <1>4 DEF Asked

\* What the reader knows about failures and about the handshake.
LEMMA KnowsStep ==
  ASSUME SubInv, [Next]_vars, ~HaveCredentials PROVE ReaderKnows'
<1>0. ConnInv /\ ConnInv' /\ Types /\ ReaderKnows
  BY ConnStep DEF SubInv, ConnInv
<1> HIDE DEF SubInv
<1> USE <1>0
    DEF ReaderKnows, AppLabel, QueueLabel, ReaderLabel, None,
        tqVars, hsVars, flagVars, netVars, subVars, envVars
<1>1. ASSUME Describe("app", "closeTrigger", "idle") PROVE ReaderKnows'
  BY <1>1, AppGoto DEF Describe, QueueDescribe, DescribeSent, QueueCountdown, QueueRecords
<1>2. ASSUME Describe("reader", "top", "resub") PROVE ReaderKnows'
  BY <1>2, ReaderGoto DEF Describe, QueueDescribe, DescribeSent, QueueCountdown, QueueRecords
<1>3. ASSUME \/ QueueSeesSilence \/ QueueNoHeartbeat \/ QueueCheck \/ QueueIsEmpty \/ QueueDisconnects
             \/ BeginPass \/ EndPass \/ RunSubscribe \/ QueueFailed
             \/ \E ok \in BOOLEAN : QueueHeartbeat(ok) \/ RunDescribe(ok) \/ SendSubscription(ok)
      PROVE  ReaderKnows'
  <2>1. UNCHANGED <<dps, rts, idle, symbols>> /\ pc'.app = pc.app /\ pc'.reader = pc.reader
    BY <1>3, QueueGoto DEF QueueSeesSilence, QueueNoHeartbeat, QueueCheck, QueueIsEmpty, BeginPass,
       EndPass, RunSubscribe, QueueFailed, QueueHeartbeat, QueueDisconnects, RunDescribe,
       SendSubscription, Popped
  <2> QED
    BY <2>1
<1>4. ASSUME RunCountdown PROVE ReaderKnows'
  BY <1>4, QueueGoto DEF RunCountdown, Popped, Stopped
<1>5. ASSUME ReaderStart \/ ReaderTop PROVE ReaderKnows'
  BY <1>5, ReaderGoto DEF ReaderStart, ReaderTop
<1>6. ASSUME ReaderNotify PROVE ReaderKnows'
  BY <1>6, ReaderGoto DEF ReaderNotify
<1>7. ASSUME ReaderCleanup \/ ReaderClear \/ ReaderConnect PROVE ReaderKnows'
  BY <1>7, ReaderGoto DEF ReaderCleanup, ReaderClear, ReaderConnect
<1>8. ASSUME ReaderResub \/ ReaderResubTask PROVE ReaderKnows'
  BY <1>8, ReaderGoto DEF ReaderResub, ReaderResubTask
<1>9. ASSUME ReaderRecv \/ ReaderProcess PROVE ReaderKnows'
  BY <1>9, ReaderGoto DEF ReaderRecv, ReaderProcess
<1>10. ASSUME \/ AppCalls \/ AddList \/ AddRecords \/ AddCheck \/ AddSubscribeTask \/ RemoveCheck
              \/ RemoveTask \/ RemoveList \/ CloseTrigger \/ JoinQueue \/ CloseReader
              \/ CloseTheSocket \/ JoinReader
       PROVE  ReaderKnows'
  BY <1>10, AppGoto DEF AppCalls, StartAdd, StartRemove, StartClose, AddList, AddRecords, AddCheck,
     AddSubscribeTask, RemoveCheck, CheckSupport, RemoveTask, RemoveList, CloseTrigger, JoinQueue,
     CloseReader, CloseTheSocket, JoinReader
<1>11. ASSUME Environment PROVE ReaderKnows'
  BY <1>11 DEF Environment, Expire, HeartbeatDue, ServerDescribes, ServerSends, ServerTroubles,
     Arrives, Drop, ServerBack
<1>12. ASSUME UNCHANGED vars PROVE ReaderKnows'
  BY <1>12 DEF vars
<1> HIDE DEF ReaderKnows
<1> QED
  BY <1>1, <1>2, <1>3, <1>4, <1>5, <1>6, <1>7, <1>8, <1>9, <1>10, <1>11, <1>12
  DEF Next, AppThread, QueueThread, ReaderThread

\* A symbol of the subscription stays asked for, unless the connection is
\* given up, and then the reader asks for all of them again.
LEMMA SubStep ==
  ASSUME SubInv, [Next]_vars, ~HaveCredentials PROVE SubInv'
<1>0. ConnInv /\ ConnInv' /\ Types /\ Types' /\ ReaderKnows /\ ReaderKnows'
  BY ConnStep, KnowsStep DEF SubInv, ConnInv
<1> DEFINE Held(x) == Asked(x) \/ InHand(x)
           Good == GivenUp \/ \A x \in symbols : Held(x)
<1>a. Good
  BY DEF SubInv
<1> HIDE DEF SubInv
<1> USE DEF AppLabel, QueueLabel, ReaderLabel, None,
            tqVars, hsVars, flagVars, netVars, subVars, envVars
\* nothing that matters changes
<1>1. ASSUME GivenUp => GivenUp', UNCHANGED <<tq, srvSubs, symbols, arg>>, pc'.app = pc.app PROVE Good'
  <2>1. \A x : Asked(x) => Asked(x)'
    BY <1>1 DEF Asked, Subscribes, Unsubscribes
  <2>2. \A x : InHand(x) => InHand(x)'
    BY <1>1 DEF InHand
  <2> QED
    BY <1>1, <1>a, <2>1, <2>2
<1>2. ASSUME GivenUp' PROVE Good'
  BY <1>2
\* a task is added that unsubscribes from nothing
<1>3. ASSUME NEW task \in [kind : TaskKind, syms : SUBSET Symbols], tq' = Append(tq, task),
             task.kind # "unsubscribe", GivenUp => GivenUp', srvSubs' = srvSubs,
             \A x \in symbols' : x \in symbols /\ (InHand(x) => InHand(x)' \/ (task.kind = "subscribe" /\ x \in task.syms))
      PROVE  Good'
  <2>1. \A x : Asked(x) => Asked(x)'
    BY <1>0, <1>3, AskedAdded
  <2>2. \A x : task.kind = "subscribe" /\ x \in task.syms => Asked(x)'
    BY <1>0, <1>3, AskedAtLast
  <2> QED
    BY <1>a, <1>3, <2>1, <2>2
\* the oldest task is popped and has had its effect
<1>4. ASSUME tq # <<>>, tq' = Tail(tq), GivenUp => GivenUp', UNCHANGED <<symbols, arg>>, pc'.app = pc.app,
             \A x : Subscribes(1, x) => x \in srvSubs',
             \A x : x \in srvSubs /\ ~Unsubscribes(1, x) => x \in srvSubs'
      PROVE  Good'
  <2>1. \A x : Asked(x) => Asked(x)'
    BY <1>0, <1>4, AskedPopped
  <2>2. \A x : InHand(x) => InHand(x)'
    BY <1>4 DEF InHand
  <2> QED
    BY <1>4, <1>a, <2>1, <2>2
<1> HIDE DEF Good, Held
<1>5. ASSUME QueueDescribe("app") PROVE Good'
  BY <1>5, <1>0, AppGoto, <1>3 DEF QueueDescribe, AddTask, Task, TaskKind, GivenUp, Closing, InHand
<1>6. ASSUME DescribeSent("app", "closeTrigger") PROVE Good'
  <2>1. UNCHANGED <<tq, srvSubs, symbols, arg>> /\ (GivenUp => GivenUp')
    BY <1>6, <1>0, AppGoto DEF DescribeSent, GivenUp, Closing
  <2>2. symbols = {}
    BY <1>6, <1>0, AppGoto DEF DescribeSent, ReaderKnows
  <2> QED
    BY <2>1, <2>2 DEF Good
<1>7. ASSUME QueueCountdown("app") PROVE Good'
  BY <1>7, <1>0, AppGoto, <1>3 DEF QueueCountdown, AddTask, Task, TaskKind, GivenUp, Closing, InHand
<1>8. ASSUME QueueRecords("app", "idle") PROVE Good'
  BY <1>8, <1>0, AppGoto, <1>3 DEF QueueRecords, AddTask, Task, TaskKind, GivenUp, Closing, InHand
<1>9. ASSUME Describe("reader", "top", "resub") PROVE Good'
  <2>1. GivenUp'
    BY <1>9, <1>0, ReaderGoto DEF Describe, QueueDescribe, DescribeSent, QueueCountdown, QueueRecords,
       ReaderKnows, GivenUp
  <2> QED
    BY <2>1, <1>2
<1>10. ASSUME \/ QueueSeesSilence \/ QueueNoHeartbeat \/ QueueCheck \/ QueueIsEmpty \/ QueueDisconnects
              \/ BeginPass \/ EndPass
              \/ \E ok \in BOOLEAN : QueueHeartbeat(ok)
       PROVE  Good'
  <2>1. UNCHANGED <<rts, qts, idle, tq, srvSubs, symbols, arg>> /\ pc'.app = pc.app /\ pc'.reader = pc.reader
    BY <1>10, <1>0, QueueGoto DEF QueueSeesSilence, QueueNoHeartbeat, QueueCheck, QueueIsEmpty,
       QueueDisconnects, BeginPass, EndPass, QueueHeartbeat, CloseSocket
  <2>2. pc.queue # "fail" /\ (~link => ~link')
    BY <1>10, <1>0, QueueGoto DEF QueueSeesSilence, QueueNoHeartbeat, QueueCheck, QueueIsEmpty,
       QueueDisconnects, BeginPass, EndPass, QueueHeartbeat, CloseSocket
  <2> QED
    BY <2>1, <2>2, <1>1 DEF GivenUp, Closing
<1>11. ASSUME QueueFailed PROVE Good'
  BY <1>11, <1>2 DEF QueueFailed, GivenUp
<1>12. ASSUME NEW ok \in BOOLEAN, RunDescribe(ok) PROVE Good'
  <2>1. /\ tq # <<>> /\ tq' = Tail(tq) /\ Head(tq).kind \in {"describe", "records"}
        /\ UNCHANGED <<srvSubs, symbols, arg, rts, qts, idle, link>>
        /\ pc'.app = pc.app /\ pc'.reader = pc.reader /\ pc.queue = "run"
    BY <1>12, <1>0, QueueGoto DEF RunDescribe, Runs, Popped
  <2>2. \A x : ~Subscribes(1, x) /\ ~Unsubscribes(1, x)
    BY <2>1, <1>0, TaskPopped DEF Subscribes, Unsubscribes
  <2> QED
    BY <2>1, <2>2, <1>4 DEF GivenUp, Closing
<1>13. ASSUME RunCountdown PROVE Good'
  <2>1. /\ tq # <<>> /\ (tq' = tq \/ tq' = Tail(tq)) /\ Head(tq).kind = "countdown"
        /\ UNCHANGED <<srvSubs, symbols, arg, rts, qts, idle, link>>
        /\ pc'.app = pc.app /\ pc'.reader = pc.reader /\ pc.queue = "run"
    BY <1>13, <1>0, QueueGoto DEF RunCountdown, Runs, Popped, Stopped
  <2>2. GivenUp => GivenUp'
    BY <2>1 DEF GivenUp, Closing
  <2>3. CASE tq' = tq
    BY <2>1, <2>2, <2>3, <1>1
  <2>4. CASE tq' = Tail(tq)
    <3>1. \A x : ~Subscribes(1, x) /\ ~Unsubscribes(1, x)
      BY <2>1, <2>4, <1>0, TaskPopped DEF Subscribes, Unsubscribes
    <3> QED
      BY <2>1, <2>2, <2>4, <3>1, <1>4
  <2> QED
    BY <2>1, <2>3, <2>4
<1>14. ASSUME RunSubscribe PROVE Good'
  <2>1. CASE dps = "not_sent"
    <3>1. CASE idle
      BY <1>14, <3>1, <1>2 DEF RunSubscribe, GivenUp
    <3>2. CASE symbols = {}
      BY <1>14, <3>2 DEF RunSubscribe, Good
    <3> QED
      BY <2>1, <3>1, <3>2, <1>0 DEF ReaderKnows
  <2>2. CASE dps = "pending"
    BY <1>14, <2>2, <1>0, <1>2, QueueGoto DEF RunSubscribe, Popped, GivenUp
  <2>3. CASE dps \in {"received", "not_received"}
    <3>1. /\ UNCHANGED <<tq, srvSubs, symbols, arg, rts, qts, idle, link>>
          /\ pc'.app = pc.app /\ pc'.reader = pc.reader /\ pc.queue = "run"
      BY <1>14, <2>3, <1>0, QueueGoto DEF RunSubscribe
    <3> QED
      BY <3>1, <1>1 DEF GivenUp, Closing
  <2> QED
    BY <1>14, <2>1, <2>2, <2>3 DEF RunSubscribe
<1>15. ASSUME NEW ok \in BOOLEAN, SendSubscription(ok) PROVE Good'
  <2>1. /\ tq' = Tail(tq) /\ UNCHANGED <<symbols, arg, rts, qts, idle, link>>
        /\ pc'.app = pc.app /\ pc'.reader = pc.reader /\ pc.queue = "send"
    BY <1>15, <1>0, QueueGoto DEF SendSubscription, Popped
  <2>2. tq # <<>> /\ Head(tq).kind \in {"subscribe", "unsubscribe"}
    BY <2>1, <1>0 DEF ConnInv
  <2>3. CASE ~link
    BY <2>1, <2>3, <1>2 DEF GivenUp
  <2>4. CASE link
    <3>1. srvSubs' = IF Head(tq).kind = "subscribe" THEN srvSubs \cup Head(tq).syms
                     ELSE srvSubs \ Head(tq).syms
      BY <1>15, <2>4 DEF SendSubscription
    <3>2. Head(tq) = tq[1] /\ 1 \in DOMAIN tq
      BY <2>1, <2>2, <1>0, TaskPopped
    <3>3. \A x : Subscribes(1, x) => x \in srvSubs'
      BY <3>1, <3>2 DEF Subscribes
    <3>4. \A x : x \in srvSubs /\ ~Unsubscribes(1, x) => x \in srvSubs'
      BY <3>1, <3>2, <2>2 DEF Unsubscribes
    <3>5. GivenUp => GivenUp'
      BY <2>1 DEF GivenUp, Closing
    <3> QED
      BY <2>1, <2>2, <3>3, <3>4, <3>5, <1>4
  <2> QED
    BY <2>3, <2>4
<1>16. ASSUME ReaderStart \/ ReaderRecv PROVE Good'
  <2>1. UNCHANGED <<tq, srvSubs, symbols, arg, qts, idle, link>> /\ pc'.app = pc.app /\ pc'.queue = pc.queue
    BY <1>16, <1>0, ReaderGoto DEF ReaderStart, ReaderRecv
  <2>2. ~rts /\ pc.reader # "start" => ~rts' /\ pc'.reader # "start"
    BY <1>16, <1>0, ReaderGoto DEF ReaderStart, ReaderRecv
  <2> QED
    BY <2>1, <2>2, <1>1 DEF GivenUp, Closing
<1>17. ASSUME ReaderTop PROVE Good'
  <2>1. UNCHANGED <<tq, srvSubs, symbols, arg, idle, link>> /\ pc'.app = pc.app /\ pc'.queue = pc.queue
    BY <1>17, <1>0, ReaderGoto DEF ReaderTop
  <2>2. /\ pc.reader = "top" /\ pc'.reader # "start"
        /\ UNCHANGED <<rts, qts>> \/ ~rts'
    BY <1>17, <1>0, ReaderGoto DEF ReaderTop
  <2> QED
    BY <2>1, <2>2, <1>1 DEF GivenUp, Closing
<1>18. ASSUME ReaderNotify PROVE Good'
  BY <1>18, <1>0, <1>2, ReaderGoto DEF ReaderNotify, GivenUp
<1>19. ASSUME ReaderCleanup \/ ReaderClear \/ ReaderConnect PROVE Good'
  BY <1>19, <1>0, <1>2, ReaderGoto DEF ReaderCleanup, ReaderClear, ReaderConnect, ReaderKnows, GivenUp
<1>20. ASSUME ReaderResub PROVE Good'
  BY <1>20, <1>0, <1>2, ReaderGoto DEF ReaderResub, ReaderKnows, GivenUp
<1>21. ASSUME ReaderResubTask PROVE Good'
  <2>1. tq' = Append(tq, Task("subscribe", symbols)) /\ symbols' = symbols
    BY <1>21 DEF ReaderResubTask, AddTask
  <2>2. Task("subscribe", symbols) \in [kind : TaskKind, syms : SUBSET Symbols]
    BY <1>0 DEF Task, TaskKind, Types
  <2>3. \A x \in symbols : Asked(x)'
    BY <1>0, <2>1, <2>2, AskedAtLast DEF Task
  <2> QED
    BY <2>1, <2>3 DEF Good, Held
<1>22. ASSUME ReaderProcess PROVE Good'
  <2>1. UNCHANGED <<tq, srvSubs, symbols, arg, qts, idle, link>> /\ pc'.app = pc.app /\ pc'.queue = pc.queue
    BY <1>22, <1>0, ReaderGoto DEF ReaderProcess
  <2>2. rts /\ pc.reader = "process"
    BY <1>22, <1>0, ReaderGoto DEF ReaderProcess, ReaderKnows
  <2> QED
    BY <2>1, <2>2, <1>1 DEF GivenUp, Closing
<1>23. ASSUME NEW x \in Symbols, StartAdd(x) \/ StartRemove(x) PROVE Good'
  <2>1. /\ UNCHANGED <<tq, srvSubs, symbols, rts, qts, idle, link>> /\ pc.app = "idle"
        /\ pc'.reader = pc.reader /\ pc'.queue = pc.queue
    BY <1>23, <1>0, AppGoto DEF StartAdd, StartRemove
  <2>2. \A y : Asked(y) => Asked(y)'
    BY <2>1 DEF Asked, Subscribes, Unsubscribes
  <2> QED
    BY <2>1, <2>2, <1>a DEF Good, Held, InHand, GivenUp, Closing
<1>24. ASSUME AddList PROVE Good'
  <2>1. /\ UNCHANGED <<tq, srvSubs, arg, rts, qts, idle, link>> /\ symbols' = symbols \cup {arg}
        /\ pc.app = "addList" /\ pc'.app = "addRecords" /\ pc'.reader = pc.reader /\ pc'.queue = pc.queue
    BY <1>24, <1>0, AppGoto DEF AddList
  <2>2. \A y : Asked(y) => Asked(y)'
    BY <2>1 DEF Asked, Subscribes, Unsubscribes
  <2> QED
    BY <2>1, <2>2, <1>a DEF Good, Held, InHand, GivenUp, Closing
<1>25. ASSUME AddRecords PROVE Good'
  BY <1>25, <1>0, <1>3, AppGoto DEF AddRecords, AddTask, Task, TaskKind, GivenUp, Closing, InHand
<1>26. ASSUME AddCheck PROVE Good'
  <2>1. /\ UNCHANGED <<tq, srvSubs, symbols, rts, qts, idle, link>> /\ pc.app = "addCheck"
        /\ pc'.app = (IF dps = "not_sent" THEN "idle" ELSE "addTask")
        /\ pc'.app # "idle" => arg' = arg
        /\ pc'.reader = pc.reader /\ pc'.queue = pc.queue
    BY <1>26, <1>0, AppGoto DEF AddCheck, CheckSupport
  <2>2. CASE dps = "not_sent"
    BY <2>1, <2>2, <1>0, <1>2 DEF ReaderKnows, GivenUp
  <2>3. CASE dps # "not_sent"
    <3>1. \A y : Asked(y) => Asked(y)'
      BY <2>1 DEF Asked, Subscribes, Unsubscribes
    <3> QED
      BY <2>1, <2>3, <3>1, <1>a DEF Good, Held, InHand, GivenUp, Closing
  <2> QED
    BY <2>2, <2>3
<1>27. ASSUME AddSubscribeTask PROVE Good'
  <2>1. /\ tq' = Append(tq, Task("subscribe", {arg})) /\ UNCHANGED <<srvSubs, symbols, rts, qts, idle, link>>
        /\ pc.app = "addTask" /\ pc'.app = "idle" /\ pc'.reader = pc.reader /\ pc'.queue = pc.queue
    BY <1>27, <1>0, AppGoto DEF AddSubscribeTask, AddTask
  <2>2. Task("subscribe", {arg}) \in [kind : TaskKind, syms : SUBSET Symbols]
    BY <2>1, <1>0 DEF ConnInv, InCall, Task, TaskKind
  <2> QED
    BY <2>1, <2>2, <1>3 DEF Task, InHand, GivenUp, Closing
<1>28. ASSUME RemoveCheck PROVE Good'
  <2>1. /\ UNCHANGED <<tq, srvSubs, symbols, arg, rts, qts, idle, link>> /\ pc.app = "removeCheck"
        /\ pc'.app \in {"removeTask", "removeList"}
        /\ pc'.reader = pc.reader /\ pc'.queue = pc.queue
    BY <1>28, <1>0, AppGoto DEF RemoveCheck, CheckSupport
  <2>2. \A y : Asked(y) => Asked(y)'
    BY <2>1 DEF Asked, Subscribes, Unsubscribes
  <2> QED
    BY <2>1, <2>2, <1>a DEF Good, Held, InHand, GivenUp, Closing
<1>29. ASSUME RemoveTask PROVE Good'
  <2>1. /\ tq' = Append(tq, Task("unsubscribe", {arg}))
        /\ UNCHANGED <<srvSubs, symbols, arg, rts, qts, idle, link>>
        /\ pc.app = "removeTask" /\ pc'.app = "removeList" /\ pc'.reader = pc.reader /\ pc'.queue = pc.queue
    BY <1>29, <1>0, AppGoto DEF RemoveTask, AddTask
  <2>2. Task("unsubscribe", {arg}) \in [kind : TaskKind, syms : SUBSET Symbols]
    BY <2>1, <1>0 DEF ConnInv, InCall, Task, TaskKind
  <2>3. \A y : y # arg /\ Asked(y) => Asked(y)'
    BY <2>1, <2>2, <1>0, AskedAdded DEF Task
  <2> QED
    BY <2>1, <2>3, <1>a DEF Good, Held, InHand, GivenUp, Closing
<1>30. ASSUME RemoveList PROVE Good'
  <2>1. /\ UNCHANGED <<tq, srvSubs, rts, qts, idle, link>> /\ symbols' = symbols \ {arg}
        /\ pc.app = "removeList" /\ pc'.app = "idle" /\ pc'.reader = pc.reader /\ pc'.queue = pc.queue
    BY <1>30, <1>0, AppGoto DEF RemoveList
  <2>2. \A y : Asked(y) => Asked(y)'
    BY <2>1 DEF Asked, Subscribes, Unsubscribes
  <2> QED
    BY <2>1, <2>2, <1>a DEF Good, Held, InHand, GivenUp, Closing
<1>31. ASSUME StartClose \/ CloseTrigger \/ JoinQueue \/ CloseReader \/ CloseTheSocket \/ JoinReader
       PROVE  Good'
  BY <1>31, <1>0, <1>2, AppGoto
  DEF StartClose, CloseTrigger, JoinQueue, CloseReader, CloseTheSocket, JoinReader, GivenUp, Closing
<1>32. ASSUME Environment PROVE Good'
  <2>1. /\ UNCHANGED <<pc, tq, srvSubs, symbols, arg, rts, qts, idle>> /\ (~link => ~link')
    BY <1>32 DEF Environment, Expire, HeartbeatDue, ServerDescribes, ServerSends, ServerTroubles,
       Arrives, Drop, ServerBack
  <2> QED
    BY <2>1, <1>1 DEF GivenUp, Closing
<1>33. ASSUME UNCHANGED vars PROVE Good'
  BY <1>33, <1>1 DEF vars, GivenUp, Closing
<1>34. Good'
  BY <1>5, <1>6, <1>7, <1>8, <1>9, <1>10, <1>11, <1>12, <1>13, <1>14, <1>15, <1>16, <1>17, <1>18,
     <1>19, <1>20, <1>21, <1>22, <1>23, <1>24, <1>25, <1>26, <1>27, <1>28, <1>29, <1>30, <1>31,
     <1>32, <1>33
  DEF Next, AppThread, AppCalls, QueueThread, ReaderThread, Describe
<1> QED
  BY <1>0, <1>34 DEF Good, Held, SubInv

\* dxf_add_symbols, dxf_remove_symbols, drops, outages, silences, failed sends,
\* timeouts and reconnections in any number and any order, from the creation on
\* as well as on an established connection: once things have settled the server
\* has been asked for every symbol of the subscription.  No credentials are
\* configured: a login on the same connection hides a failure of the queue.
THEOREM NoLostSubscriptionTheorem ==
  ASSUME ~HaveCredentials
  PROVE  (Spec => []NoLostSubscription) /\ (SpecEstablished => []NoLostSubscription)
<1>1. Init => SubInv
  <2> SUFFICES ASSUME Init PROVE SubInv
    OBVIOUS
  <2>1. ConnInv
    BY ConnInit
  <2>2. /\ pc.app = "describe" /\ pc.reader = "start" /\ dps = "not_sent" /\ symbols = {}
    BY DEF Init
  <2>3. ~idle
    BY Zenon DEF Init
  <2> QED
    BY <2>1, <2>2, <2>3 DEF SubInv, ReaderKnows
<1>2. InitEstablished => SubInv
  <2> SUFFICES ASSUME InitEstablished PROVE SubInv
    OBVIOUS
  <2>1. ConnInv
    BY EstInit DEF EstInv
  <2>2. /\ pc.app = "idle" /\ pc.reader = "recv" /\ dps = "received" /\ symbols = srvSubs
        /\ DOMAIN tq = {}
    BY DEF InitEstablished
  <2>3. rts /\ ~idle
    BY Zenon DEF InitEstablished
  <2> QED
    BY <2>1, <2>2, <2>3 DEF SubInv, ReaderKnows, Asked
<1>3. SubInv /\ [Next]_vars => SubInv'
  BY SubStep
<1>4. SubInv => NoLostSubscription
  <2> SUFFICES ASSUME SubInv, Settled, NEW x \in symbols PROVE x \in srvSubs
    BY DEF NoLostSubscription
  <2>1. DOMAIN tq = {} /\ pc.app = "idle" /\ pc.reader = "recv" /\ pc.queue # "fail" /\ rts /\ qts /\ link
    BY DEF Settled
  <2>2. Asked(x)
    BY <2>1 DEF SubInv, GivenUp, InHand, Closing, ReaderKnows
  <2> QED
    BY <2>1, <2>2 DEF Asked
<1> QED
  BY <1>1, <1>2, <1>3, <1>4, PTL DEF Spec, SpecEstablished
=============================================================================
