---------------------------- MODULE Connection ----------------------------
(***************************************************************************)
(* The life of one connection: the application thread that creates it,     *)
(* changes the subscription and closes it (DXFeed.c), the queue thread     *)
(* (dx_queue_executor) and the socket reader (dx_socket_reader) of         *)
(* DXNetwork.c, the "describe protocol" handshake with its timeout         *)
(* (ServerMessageProcessor.c) and the tasks that talk to the server        *)
(* (ClientMessageProcessor.c).  The server and the network are the         *)
(* environment: it may drop the connection, be unreachable for a while,    *)
(* stay silent, answer late, ask for a login or send rubbish.              *)
(*                                                                         *)
(* A step is the code between two points at which another thread can see   *)
(* or change what it uses: taking a guard, reading or writing a shared     *)
(* flag, a system call.  A guard that is taken and released inside one     *)
(* step only has to be free; the three guards that are held across steps   *)
(* are variables.  One subscription object with one event type is          *)
(* modelled, so a symbol stands for one record the server may be asked for.*)
(***************************************************************************)
EXTENDS Naturals, Sequences, FiniteSets

CONSTANTS Symbols,          \* symbols the application may subscribe to
          MaxOps,           \* bound: API calls that change the subscription
          MaxFaults,        \* bound: drops, outages, silences, bad answers
          HaveCredentials,  \* whether the auth property is configured
          Heartbeats        \* bound: whether heartbeats fall into the behaviour

ASSUME ConnectionAssumption == /\ IsFiniteSet(Symbols)
                               /\ MaxOps \in Nat
                               /\ MaxFaults \in Nat
                               /\ HaveCredentials \in BOOLEAN
                               /\ Heartbeats \in BOOLEAN

VARIABLES pc,           \* where each thread is
          \* the task queue
          tq,           \* tasks waiting, oldest first
          tqGuard,      \* owner of tqd->guard while a pass runs
          \* the handshake
          dps,          \* describe_protocol_status
          expired,      \* DESCRIBE_PROTOCOL_TIMEOUT has run out
          dGuard,       \* owner of describe_protocol_guard across steps
          stale,        \* history: when the handshake was last cleared, an API call
                        \* or a task was under way that had looked at the old one
          \* flags shared by the threads
          rts, qts,     \* reader_thread_state, queue_thread_state
          idle,         \* is_thread_idle of the reader
          qTrig, rTrig, \* the two termination triggers
          \* the socket and the peer
          sock,         \* SOCKET_FIELD_FLAG
          open,         \* descriptors not yet given to dx_close; context->s is the last
          stray,        \* history: dx_close has left a descriptor open
          status,       \* connection status, as far as login is concerned
          link,         \* the peer still holds its end of context->s
          inbox,        \* message that has arrived there and is not read yet
          readBuf,      \* message the reader has taken from it
          replied,      \* the server has described its protocol there
          described,    \* the server has been sent the client's description
          srvSubs,      \* symbols the server has been asked for there
          hbDue,        \* next_heartbeat is in the past
          \* the application
          symbols,      \* symbols of the subscription (EventSubscription)
          ctxGuard,     \* owner of the subscription mutex across steps
          arg,          \* the symbol the current API call is about
          \* the environment
          up,           \* the server accepts connections
          ops, faults   \* counters for the bounds

tqVars   == <<tq, tqGuard>>
hsVars   == <<dps, expired, dGuard, stale>>
flagVars == <<rts, qts, idle, qTrig, rTrig>>
netVars  == <<sock, open, stray, status, link, inbox, readBuf, replied, described, srvSubs>>
subVars  == <<symbols, ctxGuard, arg>>
envVars  == <<up, ops, faults>>
vars     == <<pc, tqVars, hsVars, flagVars, netVars, hbDue, subVars, envVars>>

Thread == {"app", "queue", "reader"}
None   == "none"

AppLabel    == {"describe", "sentLock", "sentAdd", "records", "idle",
                "addList", "addRecords", "addCheck", "addTask",
                "removeCheck", "removeTask", "removeList",
                "closeTrigger", "closeJoinQueue", "closeReader", "closeSocket",
                "closeJoinReader", "closed"}
QueueLabel  == {"top", "silent", "term", "empty", "exec", "run", "send", "fail", "done"}
ReaderLabel == {"start", "top", "notify", "cleanup", "clear", "connect", "describe",
                "sentLock", "sentAdd", "records", "resub", "resubTask", "recv",
                "process", "done"}

\* The tasks: processor and, for dx_subscribe_symbols_to_events_task, its data.
Task(kind, syms) == [kind |-> kind, syms |-> syms]
TaskKind == {"describe", "countdown", "records", "subscribe", "unsubscribe"}

\* What the server may send: its protocol description (accepting the client,
\* asking for a login, or refusing the credentials), other messages, and
\* messages that cannot be parsed.
Message == {"ok", "login", "denied", "data", "bad"}

TypeOK == /\ pc \in [app : AppLabel, queue : QueueLabel, reader : ReaderLabel]
          /\ tq \in Seq([kind : TaskKind, syms : SUBSET Symbols])
          /\ tqGuard \in {None, "queue"}
          /\ dps \in {"not_sent", "pending", "received", "not_received"}
          /\ dGuard \in {None, "app", "reader"}
          /\ ctxGuard \in {None, "reader"}
          /\ \A b \in {expired, stale, rts, qts, idle, qTrig, rTrig, sock, stray, link, replied,
                      described, hbDue, up} : b \in BOOLEAN
          /\ open \in Nat
          /\ status \in {"not_connected", "connected", "login_required", "authorized"}
          /\ inbox \in Message \cup {None} /\ readBuf \in Message \cup {None}
          /\ srvSubs \subseteq Symbols /\ symbols \subseteq Symbols
          /\ arg \in Symbols \cup {None}
          /\ ops \in 0..MaxOps /\ faults \in 0..MaxFaults

-----------------------------------------------------------------------------
\* dx_bind_to_address has connected and started both threads; the application
\* thread is about to describe the protocol (dxf_create_connection_impl).
Init == /\ pc = [app |-> "describe", queue |-> "top", reader |-> "start"]
        /\ tq = <<>> /\ tqGuard = None
        /\ dps = "not_sent" /\ expired = FALSE /\ dGuard = None /\ stale = FALSE
        /\ rts = FALSE /\ qts = TRUE /\ idle = FALSE
        /\ qTrig = FALSE /\ rTrig = FALSE
        /\ sock = TRUE /\ open = 1 /\ stray = FALSE /\ status = "connected"
        /\ link = TRUE /\ inbox = None /\ readBuf = None /\ replied = FALSE
        /\ described = FALSE /\ srvSubs = {}
        /\ hbDue = Heartbeats
        /\ symbols = {} /\ ctxGuard = None /\ arg = None
        /\ up = TRUE /\ ops = 0 /\ faults = 0

Goto(t, from, to) == pc[t] = from /\ pc' = [pc EXCEPT ![t] = to]

\* Mutant of AddTask: the task is put in front of the others.
AddTaskFirst(task) == /\ tqGuard = None
                      /\ tq' = <<task>> \o tq
                      /\ UNCHANGED tqGuard

\* dx_add_worker_thread_task: the queue's guard must be free.
AddTask(task) == /\ tqGuard = None
                 /\ tq' = Append(tq, task)
                 /\ UNCHANGED tqGuard

\* Mutants of CloseSocket: the flag is not tested, or not reset.
CloseSocketAlways == /\ status' = "not_connected"
                     /\ sock' = FALSE
                     /\ open' = open - 1
                     /\ link' = FALSE /\ inbox' = None
                     /\ UNCHANGED <<stray, readBuf, replied, described, srvSubs>>
CloseSocketKeepsFlag == /\ status' = "not_connected"
                        /\ IF sock
                           THEN /\ open' = open - 1
                                /\ link' = FALSE
                                /\ inbox' = None
                           ELSE UNCHANGED <<open, link, inbox>>
                        /\ UNCHANGED <<sock, stray, readBuf, replied, described, srvSubs>>

\* dx_close_socket: the flag tells whether there is a descriptor to close, and is
\* reset.  dx_close shuts the connection down first, and returns without closing
\* the descriptor when that fails, as it may once the peer has left.
CloseSocket == /\ status' = "not_connected"
               /\ sock' = FALSE
               /\ IF sock
                  THEN /\ open' = open - 1
                       /\ stray' \in {stray, stray \/ ~link}
                       /\ link' = FALSE
                       /\ inbox' = None
                  ELSE UNCHANGED <<open, stray, link, inbox>>
               /\ UNCHANGED <<readBuf, replied, described, srvSubs>>

\* dx_send_data: refused without a socket; on a connection the peer has left,
\* the system may still accept the bytes, and they are lost.
CanSend(ok) == IF sock THEN link => ok ELSE ~ok
-----------------------------------------------------------------------------
(* Both the application (dxf_create_connection_impl) and the reader          *)
(* (dx_reestablish_connection) call dx_send_protocol_description and         *)
(* dx_send_record_description with task_mode = false.                        *)

\* dx_add_worker_thread_task of dx_describe_protocol_sender_task
QueueDescribe(t) == /\ Goto(t, "describe", "sentLock")
                    /\ AddTask(Task("describe", {}))
                    /\ UNCHANGED <<hsVars, flagVars, netVars, hbDue, subVars, envVars>>

\* dx_describe_protocol_sent up to the countdown task: the guard stays taken
\* while the task is added.  A status that "must never happen" is an error,
\* and the caller gives up (failed).
DescribeSent(t, failed) ==
  /\ dGuard = None
  /\ \/ /\ dps \in {"pending", "not_received"}
        /\ Goto(t, "sentLock", failed)
        /\ UNCHANGED <<dps, expired, dGuard>>
     \/ /\ dps = "received"
        /\ Goto(t, "sentLock", "records")
        /\ UNCHANGED <<dps, expired, dGuard>>
     \/ /\ dps = "not_sent"
        /\ dps' = "pending"
        /\ expired' = FALSE
        /\ dGuard' = t
        /\ Goto(t, "sentLock", "sentAdd")
  /\ UNCHANGED <<stale, tqVars, flagVars, netVars, hbDue, subVars, envVars>>

\* Mutant of QueueCountdown: the guard is not released.
QueueCountdownLocked(t) == /\ Goto(t, "sentAdd", "records")
                           /\ AddTask(Task("countdown", {}))
                           /\ UNCHANGED <<hsVars, flagVars, netVars, hbDue, subVars, envVars>>

\* The rest of dx_describe_protocol_sent.
QueueCountdown(t) == /\ Goto(t, "sentAdd", "records")
                     /\ AddTask(Task("countdown", {}))
                     /\ dGuard' = None
                     /\ UNCHANGED <<dps, expired, stale, flagVars, netVars, hbDue, subVars, envVars>>

\* dx_send_record_description
QueueRecords(t, to) == /\ Goto(t, "records", to)
                       /\ AddTask(Task("records", {}))
                       /\ UNCHANGED <<hsVars, flagVars, netVars, hbDue, subVars, envVars>>

Describe(t, failed, to) == \/ QueueDescribe(t)
                           \/ DescribeSent(t, failed)
                           \/ QueueCountdown(t)
                           \/ QueueRecords(t, to)
-----------------------------------------------------------------------------
(* dx_queue_executor                                                         *)

\* "No messages from server for at least %d seconds": last_server_heartbeat says
\* that the reader has been waiting in recv for heartbeat_timeout ...
QueueSeesSilence == /\ Goto("queue", "top", "silent")
                    /\ pc.reader = "recv" /\ inbox = None
                    /\ faults < MaxFaults
                    /\ faults' = faults + 1
                    /\ UNCHANGED <<tqVars, hsVars, flagVars, netVars, hbDue, subVars, up, ops>>

\* ... and the socket is closed, whatever the reader has done since then.  The
\* loop starts over.
QueueDisconnects == /\ Goto("queue", "silent", "top")
                    /\ CloseSocket
                    /\ UNCHANGED <<tqVars, hsVars, flagVars, hbDue, subVars, envVars>>

\* A heartbeat that is due is sent before anything else; if that fails the
\* loop starts over at once.
QueueHeartbeat(ok) == /\ hbDue /\ CanSend(ok)
                      /\ hbDue' = ~ok
                      /\ Goto("queue", "top", IF ok THEN "term" ELSE "top")
                      /\ UNCHANGED <<tqVars, hsVars, flagVars, netVars, subVars, envVars>>

QueueNoHeartbeat == /\ ~hbDue
                    /\ Goto("queue", "top", "term")
                    /\ UNCHANGED <<tqVars, hsVars, flagVars, netVars, hbDue, subVars, envVars>>

\* The termination trigger, then the two thread states.
QueueCheck == /\ Goto("queue", "term",
                      IF qTrig THEN "done" ELSE IF rts /\ qts THEN "empty" ELSE "top")
              /\ UNCHANGED <<tqVars, hsVars, flagVars, netVars, hbDue, subVars, envVars>>

\* dx_is_queue_empty, which takes no guard.
QueueIsEmpty == /\ Goto("queue", "empty", IF tq = <<>> THEN "top" ELSE "exec")
                /\ UNCHANGED <<tqVars, hsVars, flagVars, netVars, hbDue, subVars, envVars>>

\* dx_execute_task_queue.  A task of this queue either pops itself or asks not
\* to advance, so the index of the pass stays at the oldest task.
BeginPass == /\ Goto("queue", "exec", "run")
             /\ tqGuard = None /\ tqGuard' = "queue"
             /\ UNCHANGED <<tq, hsVars, flagVars, netVars, hbDue, subVars, envVars>>

EndPass == /\ tq = <<>>
           /\ Goto("queue", "run", "top")
           /\ tqGuard' = None
           /\ UNCHANGED <<tq, hsVars, flagVars, netVars, hbDue, subVars, envVars>>

\* The oldest task is popped; the pass goes on if it succeeded.
Popped(from, ok) == /\ Goto("queue", from, IF ok THEN "run" ELSE "fail")
                    /\ tq' = Tail(tq)
                    /\ tqGuard' = IF ok THEN "queue" ELSE None

\* The pass stops at a task that stays in the queue.
Stopped(ok) == /\ Goto("queue", "run", IF ok THEN "top" ELSE "fail")
               /\ tqGuard' = None
               /\ UNCHANGED tq

Runs(kinds) == pc.queue = "run" /\ tq # <<>> /\ Head(tq).kind \in kinds

\* dx_describe_protocol_sender_task and dx_describe_records_sender_task
RunDescribe(ok) == /\ Runs({"describe", "records"})
                   /\ CanSend(ok)
                   /\ Popped("run", ok)
                   /\ described' = (described \/ (link /\ Head(tq).kind = "describe"))
                   /\ UNCHANGED <<hsVars, flagVars, sock, open, stray, status, link, inbox, readBuf,
                                  replied, srvSubs, hbDue, subVars, envVars>>

\* dx_describe_protocol_timeout_countdown_task
RunCountdown ==
  /\ Runs({"countdown"})
  /\ dGuard = None
  /\ \/ /\ dps \in {"not_sent", "not_received"}
        /\ Stopped(FALSE)
        /\ UNCHANGED dps
     \/ /\ dps = "received"
        /\ Popped("run", TRUE)
        /\ UNCHANGED dps
     \/ /\ dps = "pending" /\ ~expired
        /\ Stopped(TRUE)
        /\ UNCHANGED dps
     \/ /\ dps = "pending" /\ expired
        /\ dps' = "not_received"
        /\ Popped("run", TRUE)
  /\ UNCHANGED <<expired, dGuard, stale, flagVars, netVars, hbDue, subVars, envVars>>

\* dx_subscribe_symbols_to_events in task mode: what the server supports is
\* looked up under the describe guard, which is released before sending.
RunSubscribe ==
  /\ Runs({"subscribe", "unsubscribe"})
  /\ dGuard = None
  /\ \/ /\ dps = "not_sent"
        /\ Popped("run", TRUE)
     \/ /\ dps = "pending"
        /\ Popped("run", FALSE)
     \/ /\ dps \in {"received", "not_received"}
        /\ Goto("queue", "run", "send")
        /\ UNCHANGED tqVars
  /\ UNCHANGED <<hsVars, flagVars, netVars, hbDue, subVars, envVars>>

SendSubscription(ok) ==
  LET task == Head(tq)
  IN /\ CanSend(ok)
     /\ Popped("send", ok)
     /\ srvSubs' = IF ~link THEN srvSubs
                   ELSE IF task.kind = "subscribe" THEN srvSubs \cup task.syms
                   ELSE srvSubs \ task.syms
     /\ UNCHANGED <<hsVars, flagVars, sock, open, stray, status, link, inbox, readBuf, replied, described,
                    hbDue, subVars, envVars>>

\* A failed pass is reported to the reader after the guard is released.
QueueFailed == /\ Goto("queue", "fail", "top")
               /\ qts' = FALSE
               /\ UNCHANGED <<tqVars, hsVars, rts, idle, qTrig, rTrig, netVars, hbDue,
                              subVars, envVars>>

QueueThread == \/ QueueDisconnects
               \/ \E ok \in BOOLEAN : QueueHeartbeat(ok)
               \/ QueueNoHeartbeat
               \/ QueueCheck
               \/ QueueIsEmpty
               \/ BeginPass
               \/ EndPass
               \/ \E ok \in BOOLEAN : RunDescribe(ok)
               \/ RunCountdown
               \/ RunSubscribe
               \/ \E ok \in BOOLEAN : SendSubscription(ok)
               \/ QueueFailed
-----------------------------------------------------------------------------
(* dx_socket_reader                                                          *)

ReaderStart == /\ Goto("reader", "start", "top")
               /\ rts' = TRUE
               /\ UNCHANGED <<tqVars, hsVars, qts, idle, qTrig, rTrig, netVars, hbDue,
                              subVars, envVars>>

\* The head of the loop: terminate, take over a failure of the queue thread,
\* and decide between giving up the connection, reconnecting and receiving.
ReaderTop ==
  LET takeOver == rts /\ ~qts
      failed   == ~rts \/ takeOver
  IN /\ Goto("reader", "top",
             IF rTrig THEN "done" ELSE IF idle THEN "cleanup"
             ELSE IF failed THEN "notify" ELSE "recv")
     /\ IF takeOver /\ ~rTrig
        THEN rts' = FALSE /\ qts' = TRUE
        ELSE UNCHANGED <<rts, qts>>
     /\ UNCHANGED <<tqVars, hsVars, idle, qTrig, rTrig, netVars, hbDue, subVars, envVars>>

\* dx_notify_conn_termination: a server that asks for a login is given the
\* credentials on the same connection; otherwise the connection is given up.
ReaderNotify ==
  /\ IF status = "login_required" /\ HaveCredentials
     THEN /\ Goto("reader", "notify", "recv")
          /\ UNCHANGED <<idle, netVars>>
     ELSE /\ Goto("reader", "notify", "cleanup")
          /\ idle' = TRUE
          /\ CloseSocket
  /\ UNCHANGED <<tqVars, hsVars, rts, qts, qTrig, rTrig, hbDue, subVars, envVars>>

\* Mutant of ReaderCleanup: the tasks of the old connection stay.
ReaderKeepsTasks == /\ Goto("reader", "cleanup",
                            IF status = "login_required" THEN "describe" ELSE "clear")
                    /\ UNCHANGED <<tqVars, hsVars, flagVars, netVars, hbDue, subVars, envVars>>

\* dx_reestablish_connection: dx_cleanup_task_queue
ReaderCleanup == /\ Goto("reader", "cleanup",
                         IF status = "login_required" THEN "describe" ELSE "clear")
                 /\ tqGuard = None
                 /\ tq' = <<>>
                 /\ UNCHANGED <<tqGuard, hsVars, flagVars, netVars, hbDue, subVars, envVars>>

\* dx_clear_server_info
ReaderClear == /\ Goto("reader", "clear", "connect")
               /\ dGuard = None
               /\ dps' = "not_sent"
               /\ stale' = (\/ pc.app \in {"addTask", "removeTask"}
                           \/ \E i \in 1..Len(tq) : tq[i].kind \in {"subscribe", "unsubscribe"})
               /\ UNCHANGED <<expired, dGuard, tqVars, flagVars, netVars, hbDue, subVars, envVars>>

\* dx_connect_to_resolved_addresses, tried before and after dx_resolve_address.  A
\* socket that cannot connect is given to dx_close, where the shutdown of what was
\* never connected fails: its descriptor stays open.
ReaderConnect ==
  /\ \/ /\ up
        /\ Goto("reader", "connect", "describe")
        /\ open' = open + 1
        /\ sock' = TRUE
        /\ status' = "connected"
        /\ link' = TRUE /\ inbox' = None /\ replied' = FALSE
        /\ described' = FALSE /\ srvSubs' = {}
        /\ UNCHANGED <<stray, readBuf>>
     \/ /\ ~up
        /\ Goto("reader", "connect", "top")
        /\ stray' = TRUE
        /\ UNCHANGED <<sock, open, status, link, inbox, readBuf, replied, described, srvSubs>>
  /\ UNCHANGED <<tqVars, hsVars, flagVars, hbDue, subVars, envVars>>

\* Mutant of ReaderResub: an open handshake is taken for a reconnection.
ReaderResubWaits ==
  /\ ctxGuard = None /\ dGuard = None
  /\ IF dps \in {"not_sent", "pending"}
     THEN /\ Goto("reader", "resub", "recv")
          /\ rts' = TRUE /\ idle' = FALSE
          /\ UNCHANGED ctxGuard
     ELSE /\ Goto("reader", "resub", "resubTask")
          /\ ctxGuard' = "reader"
          /\ UNCHANGED <<rts, idle>>
  /\ UNCHANGED <<tqVars, hsVars, qts, qTrig, rTrig, netVars, hbDue, symbols, arg, envVars>>

\* dx_process_connection_subscriptions holds the subscription mutex while
\* dx_subscribe_symbols_to_events looks at the handshake ...
ReaderResub ==
  /\ ctxGuard = None /\ dGuard = None
  /\ IF dps = "not_sent"
     THEN /\ Goto("reader", "resub", "recv")
          /\ rts' = TRUE /\ idle' = FALSE
          /\ UNCHANGED ctxGuard
     ELSE /\ Goto("reader", "resub", "resubTask")
          /\ ctxGuard' = "reader"
          /\ UNCHANGED <<rts, idle>>
  /\ UNCHANGED <<tqVars, hsVars, qts, qTrig, rTrig, netVars, hbDue, symbols, arg, envVars>>

\* Mutant of ReaderResubTask: the new connection gets no subscriptions.
ReaderForgetsResub == /\ Goto("reader", "resubTask", "recv")
                      /\ ctxGuard' = None
                      /\ rts' = TRUE /\ idle' = FALSE
                      /\ UNCHANGED <<tqVars, hsVars, qts, qTrig, rTrig, netVars, hbDue, symbols,
                                     arg, envVars>>

\* ... and adds the task; dx_reestablish_connection has succeeded.
ReaderResubTask == /\ Goto("reader", "resubTask", "recv")
                   /\ AddTask(Task("subscribe", symbols))
                   /\ ctxGuard' = None
                   /\ rts' = TRUE /\ idle' = FALSE
                   /\ UNCHANGED <<hsVars, qts, qTrig, rTrig, netVars, hbDue, symbols, arg, envVars>>

\* dx_recv returns data, or fails because either side has closed.
ReaderRecv ==
  /\ \/ /\ sock /\ inbox # None
        /\ Goto("reader", "recv", "process")
        /\ readBuf' = inbox /\ inbox' = None
        /\ UNCHANGED rts
     \/ /\ ~sock \/ (~link /\ inbox = None)
        /\ Goto("reader", "recv", "top")
        /\ rts' = FALSE
        /\ UNCHANGED <<inbox, readBuf>>
  /\ UNCHANGED <<tqVars, hsVars, qts, idle, qTrig, rTrig, sock, open, stray, status, link,
                 replied, described, srvSubs, hbDue, subVars, envVars>>

\* dx_socket_data_receiver: dx_process_describe_protocol for a description of
\* the server's protocol, success for other messages, failure for rubbish.
ReaderProcess ==
  /\ Goto("reader", "process", "top")
  /\ readBuf \in {"ok", "login", "denied"} => dGuard = None
  /\ rts' = (readBuf \in {"ok", "data"})
  /\ dps' = CASE readBuf = "ok" -> "received" [] readBuf = "login" -> "pending" [] OTHER -> dps
  /\ status' = CASE readBuf = "ok" -> "authorized"
                 [] readBuf = "login" -> "login_required"
                 [] readBuf = "denied" -> "not_connected"
                 [] OTHER -> status
  /\ readBuf' = None
  /\ UNCHANGED <<expired, dGuard, stale, tqVars, qts, idle, qTrig, rTrig, sock, open, stray, link,
                 inbox, replied, described, srvSubs, hbDue, subVars, envVars>>

ReaderThread == \/ ReaderStart
                \/ ReaderTop
                \/ ReaderNotify
                \/ ReaderCleanup
                \/ ReaderClear
                \/ ReaderConnect
                \/ Describe("reader", "top", "resub")
                \/ ReaderResub
                \/ ReaderResubTask
                \/ ReaderRecv
                \/ ReaderProcess
-----------------------------------------------------------------------------
(* The application: dxf_create_connection_impl, dxf_add_symbols,             *)
(* dxf_remove_symbols and dxf_close_connection.                              *)

StartAdd(x) == /\ ops < MaxOps /\ x \notin symbols
               /\ Goto("app", "idle", "addList")
               /\ arg' = x /\ ops' = ops + 1
               /\ UNCHANGED <<tqVars, hsVars, flagVars, netVars, hbDue, symbols, ctxGuard, up, faults>>

\* dx_add_symbols
AddList == /\ Goto("app", "addList", "addRecords")
           /\ ctxGuard = None
           /\ symbols' = symbols \cup {arg}
           /\ UNCHANGED <<ctxGuard, arg, tqVars, hsVars, flagVars, netVars, hbDue, envVars>>

\* dx_send_record_description
AddRecords == /\ Goto("app", "addRecords", "addCheck")
              /\ AddTask(Task("records", {}))
              /\ UNCHANGED <<hsVars, flagVars, netVars, hbDue, subVars, envVars>>

\* Mutant of CheckSupport: an open handshake is taken for a reconnection.
CheckSupportWaits(from, task, done) ==
  /\ Goto("app", from, IF dps \in {"not_sent", "pending"} THEN done ELSE task)
  /\ dGuard = None
  /\ arg' = IF pc'.app = "idle" THEN None ELSE arg
  /\ UNCHANGED <<tqVars, hsVars, flagVars, netVars, hbDue, symbols, ctxGuard, envVars>>

\* dx_subscribe_symbols_to_events outside a task: while the connection is being
\* re-established nothing is queued; otherwise, after the describe guard has
\* been released, the task is.
CheckSupport(from, task, done) ==
  /\ Goto("app", from, IF dps = "not_sent" THEN done ELSE task)
  /\ dGuard = None
  /\ arg' = IF pc'.app = "idle" THEN None ELSE arg
  /\ UNCHANGED <<tqVars, hsVars, flagVars, netVars, hbDue, symbols, ctxGuard, envVars>>

AddCheck == CheckSupport("addCheck", "addTask", "idle")

AddSubscribeTask == /\ Goto("app", "addTask", "idle")
                    /\ AddTask(Task("subscribe", {arg}))
                    /\ arg' = None
                    /\ UNCHANGED <<hsVars, flagVars, netVars, hbDue, symbols, ctxGuard, envVars>>

\* dxf_remove_symbols: the server is told first, then the list is changed.
StartRemove(x) == /\ ops < MaxOps /\ x \in symbols
                  /\ Goto("app", "idle", "removeCheck")
                  /\ arg' = x /\ ops' = ops + 1
                  /\ UNCHANGED <<tqVars, hsVars, flagVars, netVars, hbDue, symbols, ctxGuard, up, faults>>

RemoveCheck == CheckSupport("removeCheck", "removeTask", "removeList")

RemoveTask == /\ Goto("app", "removeTask", "removeList")
              /\ AddTask(Task("unsubscribe", {arg}))
              /\ UNCHANGED <<hsVars, flagVars, netVars, hbDue, subVars, envVars>>

RemoveList == /\ Goto("app", "removeList", "idle")
              /\ ctxGuard = None
              /\ symbols' = symbols \ {arg}
              /\ arg' = None
              /\ UNCHANGED <<ctxGuard, tqVars, hsVars, flagVars, netVars, hbDue, envVars>>

\* dxf_close_connection, or the end of a creation that failed: the deinit of
\* the network subsystem stops the queue thread, then the reader.
StartClose == /\ Goto("app", "idle", "closeTrigger")
              /\ UNCHANGED <<tqVars, hsVars, flagVars, netVars, hbDue, subVars, envVars>>

CloseTrigger == /\ Goto("app", "closeTrigger", "closeJoinQueue")
                /\ qTrig' = TRUE
                /\ UNCHANGED <<tqVars, hsVars, rts, qts, idle, rTrig, netVars, hbDue, subVars, envVars>>

JoinQueue == /\ Goto("app", "closeJoinQueue", "closeReader")
             /\ pc.queue = "done"
             /\ UNCHANGED <<tqVars, hsVars, flagVars, netVars, hbDue, subVars, envVars>>


CloseReader == /\ Goto("app", "closeReader", "closeSocket")
               /\ rTrig' = TRUE
               /\ UNCHANGED <<tqVars, hsVars, rts, qts, idle, qTrig, netVars, hbDue, subVars, envVars>>

CloseTheSocket == /\ Goto("app", "closeSocket", "closeJoinReader")
                  /\ CloseSocket
                  /\ UNCHANGED <<tqVars, hsVars, flagVars, hbDue, subVars, envVars>>

\* ... and dx_clear_connection_data closes what is still open and destroys the
\* task queue.
JoinReader == /\ Goto("app", "closeJoinReader", "closed")
              /\ pc.reader = "done"
              /\ CloseSocket
              /\ tqGuard = None /\ tq' = <<>>
              /\ UNCHANGED <<tqGuard, hsVars, flagVars, hbDue, subVars, envVars>>

AppThread == \/ Describe("app", "closeTrigger", "idle")
             \/ AddList \/ AddRecords \/ AddCheck \/ AddSubscribeTask
             \/ RemoveCheck \/ RemoveTask \/ RemoveList
             \/ CloseTrigger \/ JoinQueue \/ CloseReader \/ CloseTheSocket \/ JoinReader

AppCalls == (\E x \in Symbols : StartAdd(x) \/ StartRemove(x)) \/ StartClose
-----------------------------------------------------------------------------
(* Time, the network and the server.                                         *)

\* DESCRIBE_PROTOCOL_TIMEOUT runs out; a heartbeat becomes due.
Expire == /\ dps = "pending" /\ ~expired
          /\ expired' = TRUE
          /\ UNCHANGED <<pc, dps, dGuard, stale, tqVars, flagVars, netVars, hbDue, subVars, envVars>>

HeartbeatDue == /\ Heartbeats /\ ~hbDue /\ pc.queue # "done"
                /\ hbDue' = TRUE
                /\ UNCHANGED <<pc, tqVars, hsVars, flagVars, netVars, subVars, envVars>>

Arrives(m) == /\ link /\ inbox = None
              /\ inbox' = m
              /\ UNCHANGED <<sock, open, stray, status, link, readBuf, described, srvSubs>>

\* The server describes its protocol at most once and accepts the client.
ServerDescribes == /\ ~replied /\ replied' = TRUE
                   /\ Arrives("ok")
                   /\ UNCHANGED <<pc, tqVars, hsVars, flagVars, hbDue, subVars, envVars>>

\* Heartbeats and data.
ServerSends == /\ Heartbeats
               /\ Arrives("data")
               /\ UNCHANGED <<pc, replied, tqVars, hsVars, flagVars, hbDue, subVars, envVars>>

\* A login request, refused credentials, or a message that cannot be parsed.
ServerTroubles(m) == /\ faults < MaxFaults /\ faults' = faults + 1
                     /\ Arrives(m)
                     /\ UNCHANGED <<pc, replied, tqVars, hsVars, flagVars, hbDue, subVars, up, ops>>

\* The connection breaks, and the server may be unreachable for a while.
Drop(reachable) == /\ faults < MaxFaults /\ faults' = faults + 1
                   /\ link
                   /\ link' = FALSE
                   /\ up' = reachable
                   /\ UNCHANGED <<pc, sock, open, stray, status, inbox, readBuf, replied, described,
                                  srvSubs, tqVars, hsVars, flagVars, hbDue, subVars, ops>>

ServerBack == /\ ~up /\ up' = TRUE
              /\ UNCHANGED <<pc, tqVars, hsVars, flagVars, netVars, hbDue, subVars, ops, faults>>

Environment == \/ Expire \/ HeartbeatDue
               \/ ServerDescribes \/ ServerSends
               \/ \E m \in {"login", "denied", "bad"} : ServerTroubles(m)
               \/ \E reachable \in BOOLEAN : Drop(reachable)
               \/ ServerBack

Next == AppThread \/ AppCalls \/ QueueThread \/ QueueSeesSilence \/ ReaderThread \/ Environment

Spec == Init /\ [][Next]_vars

\* The state some time after dxf_create_connection has returned: the handshake
\* is over, all symbols are subscribed to and both threads wait.
InitEstablished ==
  /\ pc = [app |-> "idle", queue |-> "top", reader |-> "recv"]
  /\ tq = <<>> /\ tqGuard = None
  /\ dps = "received" /\ expired = FALSE /\ dGuard = None /\ stale = FALSE
  /\ rts = TRUE /\ qts = TRUE /\ idle = FALSE
  /\ qTrig = FALSE /\ rTrig = FALSE
  /\ sock = TRUE /\ open = 1 /\ stray = FALSE /\ status = "authorized"
  /\ link = TRUE /\ inbox = None /\ readBuf = None /\ replied = TRUE
  /\ described = TRUE /\ srvSubs = Symbols
  /\ hbDue = Heartbeats
  /\ symbols = Symbols /\ ctxGuard = None /\ arg = None
  /\ up = TRUE /\ ops = 0 /\ faults = 0

SpecEstablished == InitEstablished /\ [][Next]_vars
-----------------------------------------------------------------------------
\* Nothing is under way: no API call, no task, no failure to handle, and the
\* reader waits on a connection the server still holds.
Settled == /\ pc.app = "idle" /\ pc.reader = "recv"
           /\ pc.queue \in {"top", "silent", "term", "empty"}
           /\ tq = <<>> /\ rts /\ qts /\ sock /\ link

\* Whatever drops, timeouts, failed sends and reconnections an API call races
\* with, once things have settled the server has been asked for every symbol
\* of the subscription.
NoLostSubscription == Settled => symbols \subseteq srvSubs

\* On every connection the server learns the client's protocol before it is
\* asked for symbols, although both travel through a queue that is thrown away
\* and filled again by one thread while another one adds to it.  Only one race
\* breaks this: an API call looks at the handshake (dx_subscribe_symbols_to_events)
\* before dx_clear_server_info, and its task comes after dx_cleanup_task_queue.
DescribedFirst == sock /\ srvSubs # {} /\ ~stale => described

\* Every descriptor is given to dx_close once, however the three threads that
\* close the socket meet, and none of a connection that is not open is kept.
\* What dx_close itself leaves open, it leaves after a fault of the network.
NoDescriptorLeak == open = (IF sock THEN 1 ELSE 0) /\ (stray => faults > 0)

\* ClientMessageProcessor.c: a subscription task that finds the handshake still
\* open "shouldn't be here", because the countdown task stands before it.
NoSubscriptionBeforeHandshake ==
  Runs({"subscribe", "unsubscribe"}) /\ dGuard = None => dps # "pending"

\* ServerMessageProcessor.c: for the countdown task, not_sent and not_received
\* "must never happen".
CountdownNeverSurprised == Runs({"countdown"}) /\ dGuard = None => dps \notin {"not_sent", "not_received"}

\* The reader waits for the queue's guard with describe_protocol_guard held, and
\* tasks take the two the other way round: no two threads wait for each other's
\* guard, unless a task that looked at the old handshake came through.
NoGuardCycle == ~stale => ~(/\ pc.queue = "run" /\ dGuard # None
                            /\ tq # <<>> /\ Head(tq).kind \in {"countdown", "subscribe", "unsubscribe"})
-----------------------------------------------------------------------------
\* The operating system runs every thread, time passes, and a server that holds
\* the connection sends heartbeats.  Nothing makes a server come back.
Fairness == /\ WF_vars(AppThread)
            /\ WF_vars(QueueThread)
            /\ WF_vars(ReaderThread)
            /\ WF_vars(Expire)
            /\ WF_vars(HeartbeatDue)
            /\ WF_vars(ServerSends)

LiveSpec == SpecEstablished /\ Fairness

Closing == pc.app \in {"closeTrigger", "closeJoinQueue", "closeReader", "closeSocket",
                       "closeJoinReader", "closed"}

\* Faults come to an end; then, if the server can be reached again and unless the
\* application closes the connection, the connection is re-established and every
\* symbol is subscribed to again.
Recovers == <>[]up => ([]<>(link /\ sock /\ symbols \subseteq srvSubs)) \/ <>Closing

=============================================================================
