------------------------- MODULE EventSubscription -------------------------
(***************************************************************************)
(* The subscriptions of one connection (EventSubscription.cpp) and the API *)
(* calls that change them (DXFeed.c): which subscription holds which       *)
(* symbols, the counted data kept for every symbol, and the delivery of an *)
(* event to the listeners, which may call the API again while the delivery *)
(* is under way.                                                           *)
(*                                                                         *)
(* The mutex of the connection's context is recursive.  The reader holds   *)
(* it for a whole delivery; a call holds it only while it changes the      *)
(* registry, and not while it asks the server.  So a call is a sequence of *)
(* steps, and deliveries, reconnections and the steps of other calls fall  *)
(* between them.  A listener's call is made by the reader inside a         *)
(* delivery.  What a request asks of the server takes effect at once: the  *)
(* order in which requests travel is the subject of Connection and         *)
(* TaskQueue.                                                              *)
(***************************************************************************)
EXTENDS Naturals, FiniteSets

CONSTANTS Threads,      \* threads of the application
          Reader,       \* the reader, in which listeners run
          Subs,         \* handles of subscriptions
          NoSub,        \* no subscription
          Names,        \* symbols the application uses
          Wildcard,     \* the symbol "*", which need not be one of them
          Listeners,
          EventTypes,
          CallbackOps,  \* the API calls that listeners make
          MaxOps,       \* bound: API calls
          MaxEvents     \* bound: events received

ASSUME EventSubscriptionAssumption == /\ NoSub \notin Subs
                                      /\ Reader \notin Threads
                                      /\ IsFiniteSet(Subs)
                                      /\ MaxOps \in Nat
                                      /\ MaxEvents \in Nat

VARIABLES created,     \* handles that have been given out
          live,        \* context->subscriptions: those not closed yet
          types,       \* SubscriptionData::event_types
          wild,        \* dx_esf_wildcard in SubscriptionData::subscriptionFlags
          subSymbols,  \* SubscriptionData::symbols
          listeners,   \* SubscriptionData::listeners
          symSubs,     \* SymbolData::subscriptions
          refCount,    \* SymbolData::refCount; SymbolData exists while it is positive
          server,      \* what the server has been asked for
          doing,       \* the call each thread is in the middle of
          \* dx_process_event_data
          stage,       \* which symbol's subscriptions are being visited
          evName, evType,
          todo,        \* the rest of the copied set of subscriptions
          cur,         \* the subscription whose listeners are being called
          ltodo,       \* its listeners still to be called
          calling,     \* a listener is running
          \* history
          calls,       \* how often each listener was called for the last event
          entitled,    \* whose interest lasted from its arrival on
          crossed,     \* subscriptions a call was changing when another call, or a
                       \* new connection's requests, came across it
          doomed,      \* subscriptions closed by a listener of the last event
          ops, events  \* counters for the bounds

subVars   == <<created, live, types, wild, listeners>>
regVars   == <<subSymbols, symSubs, refCount>>
loopVars  == <<stage, evName, evType, todo, cur, ltodo, calling>>
histVars  == <<calls, entitled, crossed, doomed, ops, events>>
vars      == <<subVars, regVars, server, doing, loopVars, histVars>>

Kinds == {"ticker", "stream"}
Pairs == Subs \X Listeners
Callers == Threads \cup {Reader}

\* A call under way: its next step, the function, its subscription, and the
\* symbols and the wildcard flag of its request.
Call(at, op, s, names, flag) == [at |-> at, op |-> op, sub |-> s, names |-> names, flag |-> flag]
NoCall == Call("none", "none", NoSub, {}, FALSE)
CallType == [at : {"none", "unsubscribe", "drop", "unflag", "add", "subscribe"},
             op : {"none", "add", "star", "remove", "clear", "close"},
             sub : Subs \cup {NoSub}, names : SUBSET Names, flag : BOOLEAN]

TypeOK == /\ live \subseteq created /\ created \subseteq Subs
          /\ types \in [Subs -> SUBSET EventTypes]
          /\ wild \in [Subs -> BOOLEAN]
          /\ subSymbols \in [Subs -> SUBSET Names]
          /\ listeners \in [Subs -> SUBSET Listeners]
          /\ symSubs \in [Names -> SUBSET Subs]
          /\ refCount \in [Names -> Nat]
          /\ server \subseteq Kinds \X EventTypes \X Names
          /\ doing \in [Callers -> CallType]
          /\ stage \in {"idle", "symbol", "wildcard"}
          /\ evName \in Names \cup {Wildcard} /\ evType \in EventTypes
          /\ todo \subseteq Subs /\ cur \in Subs \cup {NoSub}
          /\ ltodo \subseteq Listeners
          /\ calling \in BOOLEAN
          /\ calls \in [Pairs -> Nat]
          /\ entitled \subseteq Pairs /\ crossed \subseteq Subs /\ doomed \subseteq Subs
          /\ ops \in 0..MaxOps /\ events \in 0..MaxEvents

Init == /\ created = {} /\ live = {}
        /\ types = [s \in Subs |-> {}]
        /\ wild = [s \in Subs |-> FALSE]
        /\ subSymbols = [s \in Subs |-> {}]
        /\ listeners = [s \in Subs |-> {}]
        /\ symSubs = [n \in Names |-> {}]
        /\ refCount = [n \in Names |-> 0]
        /\ server = {} /\ doing = [c \in Callers |-> NoCall]
        /\ stage = "idle" /\ evName = Wildcard /\ evType \in EventTypes
        /\ todo = {} /\ cur = NoSub /\ ltodo = {} /\ calling = FALSE
        /\ calls = [p \in Pairs |-> 0] /\ entitled = {} /\ crossed = {} /\ doomed = {}
        /\ ops = 0 /\ events = 0
-----------------------------------------------------------------------------
(* Calls of the API                                                          *)

\* The mutex lets a thread in between deliveries, and the reader at any time.
Locked(c) == IF c = Reader THEN calling ELSE stage = "idle"

\* Nobody uses a handle that is being closed.
Usable(s) == s \in live /\ \A c \in Callers : doing[c].sub = s => doing[c].op # "close"

\* Thread c makes a call; in the reader, a listener makes it.
Calls(c, op) == /\ c = Reader => calling /\ op \in CallbackOps
                /\ doing[c] = NoCall
                /\ ops < MaxOps
                /\ ops' = ops + 1
                /\ UNCHANGED <<loopVars, calls, doomed, events>>

\* The call that has several steps begins with reading flags and symbols, which
\* takes no mutex.
Begins(c, op, s, call) ==
  /\ Calls(c, op)
  /\ Usable(s)
  /\ doing' = [doing EXCEPT ![c] = call]
  /\ crossed' = IF \E d \in Callers : doing[d].sub = s THEN crossed \cup {s} ELSE crossed
  /\ UNCHANGED <<subVars, regVars, server, entitled>>

\* The next step of the call of c, after which it is at then.
Steps(c, at, then) == /\ doing[c].at = at
                      /\ doing' = [doing EXCEPT ![c] = then]
                      /\ UNCHANGED <<loopVars, calls, crossed, ops, events>>

\* An interest in the last event that ends does not come back, nor does the
\* interest in everything.
Interested(p) == /\ p[1] \in live' /\ p[2] \in listeners'[p[1]]
                 /\ {evName, Wildcard} \cap subSymbols'[p[1]] # {}
                 /\ Wildcard \in subSymbols[p[1]] => Wildcard \in subSymbols'[p[1]]
Interests == entitled' = {p \in entitled : Interested(p)}

\* dx_infer_subscription_type, as far as the wildcard flag decides it, and the
\* records a request names.
Kind(flag) == IF flag THEN "stream" ELSE "ticker"
Request(s, flag, names) == {Kind(flag)} \X types[s] \X names

\* subscribeSymbol and unsubscribeSymbol for the symbols by which the new set
\* of subscription s differs from the old one.
SetSymbols(s, names) ==
  LET gained == {n \in names \ subSymbols[s] : s \notin symSubs[n]}
      lost   == subSymbols[s] \ names
  IN /\ subSymbols' = [subSymbols EXCEPT ![s] = names]
     /\ refCount' = [n \in Names |-> IF n \in gained THEN refCount[n] + 1
                                     ELSE IF n \in lost THEN refCount[n] - 1
                                     ELSE refCount[n]]
     /\ symSubs' = [n \in Names |-> IF n \in gained THEN symSubs[n] \cup {s}
                                    ELSE IF n \in lost THEN symSubs[n] \ {s}
                                    ELSE symSubs[n]]

\* dx_create_event_subscription
Create(c, s, ts, flag) == /\ Calls(c, "create") /\ Locked(c)
                          /\ s \notin created
                          /\ created' = created \cup {s} /\ live' = live \cup {s}
                          /\ types' = [types EXCEPT ![s] = ts]
                          /\ wild' = [wild EXCEPT ![s] = flag]
                          /\ UNCHANGED <<listeners, regVars, server, doing, crossed, entitled>>

\* dxf_add_symbols does nothing to a subscription with the flag.  A wildcard
\* among the names makes it call dxf_clear_symbols first.
StartAdd(c, s, names) ==
  /\ ~wild[s]
  /\ Begins(c, "add", s, IF Wildcard \in names THEN Call("unsubscribe", "star", s, subSymbols[s], FALSE)
                                                ELSE Call("add", "add", s, names, FALSE))

\* dxf_remove_symbols; with a wildcard among the names it is dxf_clear_symbols.
StartRemove(c, s, names) ==
  /\ subSymbols[s] # {} /\ ~wild[s] /\ Wildcard \notin names
  /\ Begins(c, "remove", s, Call("unsubscribe", "remove", s, names, FALSE))

\* dxf_clear_symbols
StartClear(c, s) == Begins(c, "clear", s, Call("unsubscribe", "clear", s, subSymbols[s], wild[s]))

\* Mutant of StartClose: the server is not told.
CloseSilently(c, s) == /\ \A d \in Callers : doing[d].sub # s
                       /\ Begins(c, "close", s, Call("drop", "close", s, subSymbols[s], wild[s]))

\* dx_close_subscription, which nobody calls while the handle is in use
StartClose(c, s) == /\ \A d \in Callers : doing[d].sub # s
                    /\ Begins(c, "close", s, Call("unsubscribe", "close", s, subSymbols[s], wild[s]))

\* dx_unsubscribe, before the registry is changed and without its mutex
Unsubscribe(c) ==
  LET call == doing[c]
  IN /\ Steps(c, "unsubscribe", [call EXCEPT !.at = "drop"])
     /\ server' = server \ Request(call.sub, call.flag, call.names)
     /\ UNCHANGED <<subVars, regVars, entitled, doomed>>

\* dx_remove_symbols, after which dxf_clear_symbols may have a flag to reset and
\* dxf_add_symbols goes on with the wildcard, its own copy of the flag flipped.
DropSymbols(c) ==
  LET call == doing[c]
  IN /\ Steps(c, "drop", CASE call.op = "star" -> Call("add", "star", call.sub, {Wildcard}, TRUE)
                           [] call.op = "clear" /\ call.flag -> [call EXCEPT !.at = "unflag"]
                           [] OTHER -> NoCall)
     /\ call.op # "close" /\ Locked(c)
     /\ SetSymbols(call.sub, subSymbols[call.sub] \ call.names)
     /\ UNCHANGED <<subVars, server, doomed>>
     /\ Interests

\* dx_set_event_subscription_flags at the end of dxf_clear_symbols
ResetFlag(c) == /\ Steps(c, "unflag", NoCall) /\ Locked(c)
                /\ wild' = [wild EXCEPT ![doing[c].sub] = FALSE]
                /\ UNCHANGED <<created, live, types, listeners, regVars, server, entitled, doomed>>

\* dx_add_symbols
AddToList(c) == LET call == doing[c]
                IN /\ Steps(c, "add", [call EXCEPT !.at = "subscribe"]) /\ Locked(c)
                   /\ SetSymbols(call.sub, subSymbols[call.sub] \cup call.names)
                   /\ UNCHANGED <<subVars, server, doomed>>
                   /\ Interests

\* dx_subscribe, after the registry has been changed and without its mutex
Subscribe(c) == LET call == doing[c]
                IN /\ Steps(c, "subscribe", NoCall)
                   /\ server' = server \cup Request(call.sub, call.flag, call.names)
                   /\ UNCHANGED <<subVars, regVars, entitled, doomed>>

\* Mutant of Free: the mutex is not taken.
FreeUnlocked(c) == LET s == doing[c].sub
                   IN /\ Steps(c, "drop", NoCall) /\ doing[c].op = "close"
                      /\ SetSymbols(s, {})
                      /\ listeners' = [listeners EXCEPT ![s] = {}]
                      /\ live' = live \ {s}
                      /\ doomed' = IF c = Reader THEN doomed \cup {s} ELSE doomed
                      /\ UNCHANGED <<created, types, wild, server>>
                      /\ Interests

\* closeEventSubscription takes all symbols from the registry and frees the
\* subscription.
Free(c) == LET s == doing[c].sub
           IN /\ Steps(c, "drop", NoCall) /\ Locked(c) /\ doing[c].op = "close"
              /\ SetSymbols(s, {})
              /\ listeners' = [listeners EXCEPT ![s] = {}]
              /\ live' = live \ {s}
              /\ doomed' = IF c = Reader THEN doomed \cup {s} ELSE doomed
              /\ UNCHANGED <<created, types, wild, server>>
              /\ Interests

\* dx_add_listener_impl and dx_remove_listener_impl
Attach(c, s, l) == /\ Calls(c, "attach") /\ Locked(c)
                   /\ Usable(s) /\ l \notin listeners[s]
                   /\ listeners' = [listeners EXCEPT ![s] = @ \cup {l}]
                   /\ UNCHANGED <<created, live, types, wild, regVars, server, doing, crossed, entitled>>

Detach(c, s, l) == /\ Calls(c, "detach") /\ Locked(c)
                   /\ Usable(s) /\ l \in listeners[s]
                   /\ listeners' = [listeners EXCEPT ![s] = @ \ {l}]
                   /\ UNCHANGED <<created, live, types, wild, regVars, server, doing, crossed>>
                   /\ Interests
-----------------------------------------------------------------------------
(* dx_process_event_data                                                     *)

Known(n) == n \in Names /\ refCount[n] > 0
Node == IF stage = "wildcard" THEN Wildcard ELSE evName

\* pass_event_data_to_listeners up to its loop: the data of symbol n is kept
\* alive and its set of subscriptions copied.
BeginPass(n, st) == /\ stage' = st
                    /\ todo' = symSubs[n]

\* Mutant of Hold: the data is not kept alive.
HoldNothing(f, n) == f

Hold(f, n) == [f EXCEPT ![n] = @ + 1]
Release(f, n) == [f EXCEPT ![n] = @ - 1]

\* An event arrives.  If nobody knows its symbol, it is dropped; data may still
\* come in after the interest has ended.
BeginEvent(n, e) ==
  /\ stage = "idle" /\ events < MaxEvents /\ events' = events + 1
  /\ evName' = n /\ evType' = e
  /\ calls' = [p \in Pairs |-> 0] /\ doomed' = {}
  /\ entitled' = {p \in Pairs : /\ p[1] \in live /\ p[2] \in listeners[p[1]] /\ e \in types[p[1]]
                                /\ {n, Wildcard} \cap subSymbols[p[1]] # {}}
  /\ \/ /\ Known(n)
        /\ BeginPass(n, "symbol")
        /\ refCount' = Hold(refCount, n)
     \/ /\ ~Known(n) /\ Known(Wildcard)
        /\ BeginPass(Wildcard, "wildcard")
        /\ refCount' = Hold(refCount, Wildcard)
     \/ /\ ~Known(n) /\ ~Known(Wildcard)
        /\ UNCHANGED <<stage, todo, refCount>>
  /\ UNCHANGED <<subVars, subSymbols, symSubs, server, doing, cur, ltodo, calling, crossed, ops>>

\* Mutant of VisitSubscription: the loop ends at a subscription that does not
\* want the type.
VisitBreaks(s) ==
  /\ stage # "idle" /\ cur = NoSub /\ s \in todo \cap live
  /\ todo' = IF evType \in types[s] THEN todo \ {s} ELSE {}
  /\ cur' = s
  /\ ltodo' = IF evType \in types[s] /\ evName \in subSymbols[s] THEN listeners[s] ELSE {}
  /\ UNCHANGED <<subVars, regVars, server, doing, stage, evName, evType, calling, histVars>>

\* The loop over the copied subscriptions, and the head of
\* dx_call_subscr_listeners.  What the loop does with a subscription that has
\* been freed is undefined, so nothing follows here.
VisitSubscription(s) ==
  /\ stage # "idle" /\ cur = NoSub /\ s \in todo \cap live
  /\ todo' = todo \ {s}
  /\ cur' = s
  /\ ltodo' = IF evType \in types[s] /\ evName \in subSymbols[s] THEN listeners[s] ELSE {}
  /\ UNCHANGED <<subVars, regVars, server, doing, stage, evName, evType, calling, histVars>>

CallListener(l) == /\ cur \in live /\ ~calling /\ l \in ltodo
                   /\ ltodo' = ltodo \ {l}
                   /\ calling' = TRUE
                   /\ calls' = [calls EXCEPT ![<<cur, l>>] = @ + 1]
                   /\ UNCHANGED <<subVars, regVars, server, doing, stage, evName, evType, todo, cur,
                                  entitled, crossed, doomed, ops, events>>

ListenerReturns == /\ calling /\ doing[Reader] = NoCall
                   /\ calling' = FALSE
                   /\ UNCHANGED <<subVars, regVars, server, doing, stage, evName, evType, todo, cur,
                                  ltodo, histVars>>

LeaveSubscription == /\ cur \in live /\ ~calling /\ ltodo = {}
                     /\ cur' = NoSub
                     /\ UNCHANGED <<subVars, regVars, server, doing, stage, evName, evType, todo,
                                    ltodo, calling, histVars>>

\* The end of pass_event_data_to_listeners; after the symbol itself comes the
\* wildcard.
EndPass ==
  /\ stage # "idle" /\ cur = NoSub /\ todo = {}
  /\ IF stage = "symbol" /\ Known(Wildcard)
     THEN /\ BeginPass(Wildcard, "wildcard")
          /\ refCount' = Hold(Release(refCount, Node), Wildcard)
     ELSE /\ stage' = "idle"
          /\ refCount' = Release(refCount, Node)
          /\ UNCHANGED todo
  /\ UNCHANGED <<subVars, subSymbols, symSubs, server, doing, evName, evType, cur, ltodo, calling,
                 histVars>>

\* dx_process_connection_subscriptions on a new connection: everything is asked
\* for again, with the stored flags.
Reconnect ==
  /\ stage = "idle"
  /\ server' = UNION {Request(s, wild[s], subSymbols[s]) : s \in live}
  /\ crossed' = {s \in Subs : \E c \in Callers :
                    doing[c].sub = s /\ (s \in crossed \/ doing[c].at = "drop")}
  /\ UNCHANGED <<subVars, regVars, doing, loopVars, calls, entitled, doomed, ops, events>>

CallStarts(c, s) == \/ \E ts \in SUBSET EventTypes \ {{}}, flag \in BOOLEAN : Create(c, s, ts, flag)
                    \/ \E names \in SUBSET Names \ {{}} : StartAdd(c, s, names) \/ StartRemove(c, s, names)
                    \/ StartClear(c, s)
                    \/ StartClose(c, s)
                    \/ \E l \in Listeners : Attach(c, s, l) \/ Detach(c, s, l)

CallGoesOn(c) == \/ Unsubscribe(c) \/ DropSymbols(c) \/ ResetFlag(c) \/ Free(c)
                 \/ AddToList(c) \/ Subscribe(c)

Next == \/ \E c \in Callers : CallGoesOn(c) \/ \E s \in Subs : CallStarts(c, s)
        \/ \E s \in Subs : VisitSubscription(s)
        \/ \E n \in Names \ {Wildcard}, e \in EventTypes : BeginEvent(n, e)
        \/ \E l \in Listeners : CallListener(l)
        \/ ListenerReturns
        \/ LeaveSubscription
        \/ EndPass
        \/ Reconnect

Spec == Init /\ [][Next]_vars
-----------------------------------------------------------------------------
\* The two directions of the registry agree, whatever API calls listeners make
\* in the middle of a delivery: a subscription lists a symbol exactly if the
\* symbol's data lists the subscription.
RegistryAgrees == \A s \in Subs, n \in Names : n \in subSymbols[s] <=> s \in symSubs[n]

\* The data of a symbol is counted once for each subscription and once for a
\* delivery that uses it, so it is neither freed while it is used nor kept
\* when nobody needs it.
Held(n) == IF stage # "idle" /\ n = Node THEN 1 ELSE 0
RefCountExact == \A n \in Names : refCount[n] = Cardinality(symSubs[n]) + Held(n)

\* A closed subscription is in no symbol's data.
ClosedForgotten == \A n \in Names : symSubs[n] \subseteq live

\* Every subscription the loop is at or will come to still exists, unless a
\* listener of the event itself has closed it: the set was copied because "number
\* of subscriptions may be changed in the listeners", but the copy keeps nothing
\* alive.  A thread of the application cannot free one under the loop.
NoUseAfterFree == \A s \in todo \cup {cur} : s # NoSub => s \in live \cup doomed

\* Every listener is called exactly once for an event, if its subscription
\* holds the symbol of the event from its arrival to the end of the delivery,
\* whatever other listeners do to the subscriptions meanwhile.
DeliveredOnce == \A p \in entitled : Wildcard \notin subSymbols[p[1]] =>
                    calls[p] <= 1 /\ (stage = "idle" => calls[p] = 1)

\* DXFeed.h: adding "*" makes "a subscription to "*"", so a subscription that
\* holds the wildcard receives every event, and receives it once.
WildcardDelivered == stage = "idle" => \A p \in entitled : Wildcard \in subSymbols[p[1]] => calls[p] = 1

\* What the server has been asked for, other than as a stream for a wildcard,
\* some subscription wants: closing, removing, clearing and reconnecting leave
\* nothing behind, although a call asks the server and changes the registry in
\* two steps.  Only where another call or a new connection came between the two
\* steps of a call, something may be left, until the next connection.
ServerOnlyWanted == \A r \in server : r[1] = "ticker" =>
                       \E s \in Subs : /\ r[2] \in types[s]
                                       /\ (s \in live /\ r[3] \in subSymbols[s]) \/ s \in crossed

\* The promises of DXFeed.h about "*" below hold, if at all, between calls.
Between == \A c \in Callers : doing[c] = NoCall

\* DXFeed.h: with "*" removed, "there will be an unsubscription from messages on
\* all current symbols".
StreamOnlyWanted == Between => \A r \in server : r[1] = "stream" =>
                                   \E s \in live : r[2] \in types[s] /\ r[3] \in subSymbols[s]

\* What a subscription wants, the server has been asked for.
ServerHasAll == Between => \A s \in live : \A e \in types[s], n \in subSymbols[s] :
                              \E k \in Kinds : <<k, e, n>> \in server

\* DXFeed.h: "If there is already a subscription to "*", then nothing will
\* happen".
WildcardAlone == \A s \in live : Wildcard \in subSymbols[s] => subSymbols[s] = {Wildcard}

\* DXFeed.h: with "*", "The subscription type will be changed to dx_st_stream".
WildcardStreamed == Between => \A s \in live : Wildcard \in subSymbols[s] =>
                                  {"stream"} \X types[s] \X {Wildcard} \subseteq server

RegistryInv == TypeOK /\ RegistryAgrees /\ RefCountExact /\ ClosedForgotten
=============================================================================
