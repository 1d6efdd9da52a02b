---------------------- MODULE EventSubscriptionProofs ----------------------
(***************************************************************************)
(* Proofs about EventSubscription, for any number of threads,              *)
(* subscriptions, symbols, listeners and calls, and for every interleaving *)
(* of the steps of calls with deliveries and reconnections: the registry   *)
(* of symbols stays exact, the server keeps no request nobody wants unless *)
(* something came between the two steps of a call, every listener is       *)
(* called exactly once, and a delivery only meets closed subscriptions     *)
(* that a listener of its own event has closed.                            *)
(***************************************************************************)
EXTENDS EventSubscription, FiniteSetTheorems, TLAPS

\* Where the delivery stands.  Only a symbol with data is being delivered, and
\* between deliveries the loops are over.
LoopSound ==
  /\ stage # "idle" => Node \in Names
  /\ stage = "symbol" => evName # Wildcard
  /\ stage = "idle" => todo = {} /\ cur = NoSub
  /\ cur = NoSub => ~calling
  /\ cur \notin todo

\* A call works on a subscription that lives until it ends, and a subscription
\* that is being closed is used by no other call.
CallSound == \A c \in Callers :
  /\ doing[c].at = "none" => doing[c] = NoCall
  /\ doing[c].at # "none" => doing[c].sub \in live
  /\ doing[c].op = "close" => \A d \in Callers \ {c} : doing[d].sub # doing[c].sub
  /\ doing[c].op = "star" => Wildcard \in Names

\* The inductive invariant behind RegistryInv.
DeliveryInv == RegistryInv /\ LoopSound /\ CallSound

\* The flag is stored before the first symbol and locks the subscription.
WildEmpty == \A s \in Subs : wild[s] => subSymbols[s] = {}

\* How far a call is on its way from the server to the registry or back.
CallWanted(c) ==
  /\ doing[c].op \in {"add", "star"} => ~wild[doing[c].sub]
  /\ doing[c].at = "add" => doing[c].op \in {"add", "star"}
  /\ doing[c].at = "subscribe" => \/ doing[c].sub \in crossed
                                  \/ doing[c].names \subseteq subSymbols[doing[c].sub]
  /\ doing[c].at \in {"unsubscribe", "drop"} /\ doing[c].flag => doing[c].names = {}
  /\ doing[c].op = "close" => subSymbols[doing[c].sub] \subseteq doing[c].names

\* Calls that overlap on a subscription have crossed there.
Overlap(c, d) == doing[d].sub = doing[c].sub /\ doing[c].sub \in Subs => doing[c].sub \in crossed

WantedCalls == \A c \in Callers : CallWanted(c) /\ \A d \in Callers \ {c} : Overlap(c, d)

\* Subscription t is about to lose symbol n, which call c has given back to the
\* server.
Dropping(c, t, n) == doing[c].at = "drop" /\ doing[c].sub = t /\ n \in doing[c].names

\* Subscription t wants what r asks for, and goes on wanting it.
Firm(t, r) == /\ r[2] \in types[t]
              /\ \/ t \in crossed
                 \/ /\ t \in live /\ r[3] \in subSymbols[t]
                    /\ \A c \in Callers : ~Dropping(c, t, r[3])

FirmlyWanted == \A r \in server : r[1] = "ticker" => \E t \in Subs : Firm(t, r)

\* The inductive invariant behind ServerOnlyWanted.
WantedInv == DeliveryInv /\ WildEmpty /\ crossed \subseteq created /\ WantedCalls /\ FirmlyWanted

\* An entitled listener is attached to a live subscription that still has an
\* interest in the event.
StillInterested(p) ==
  /\ p[1] \in live /\ p[2] \in listeners[p[1]] /\ evType \in types[p[1]]
  /\ {evName, Wildcard} \cap subSymbols[p[1]] # {}

\* Before, at and after its subscription's turn in the loop over the symbol's
\* subscriptions, a listener has been called as often as it should have been.
CallsSoFar(p) ==
  \/ stage = "symbol" /\ p[1] \in todo /\ calls[p] = 0
  \/ stage = "symbol" /\ p[1] = cur /\ calls[p] = IF p[2] \in ltodo THEN 0 ELSE 1
  \/ p[1] \notin todo /\ p[1] # cur /\ calls[p] = 1

\* The inductive invariant behind DeliveredOnce.
Once(p) == StillInterested(p) /\ (Wildcard \notin subSymbols[p[1]] => CallsSoFar(p))
OnceInv == DeliveryInv /\ \A p \in entitled : Once(p)

\* The inductive invariant behind NoUseAfterFree.
LiveInv == DeliveryInv /\ NoUseAfterFree
-----------------------------------------------------------------------------
\* Counting subscriptions.
LEMMA CountFacts ==
  ASSUME NEW S \in SUBSET Subs
  PROVE  /\ Cardinality(S) \in Nat /\ (Cardinality(S) = 0 <=> S = {})
         /\ \A s \in Subs : s \notin S => Cardinality(S \cup {s}) = Cardinality(S) + 1
         /\ \A s \in S : Cardinality(S \ {s}) = Cardinality(S) - 1
<1>1. IsFiniteSet(S)
  BY FS_Subset, EventSubscriptionAssumption
<1>2. Cardinality(S) \in Nat /\ (Cardinality(S) = 0 <=> S = {})
  BY <1>1, FS_CardinalityType, FS_EmptySet
<1>3. \A s \in Subs : s \notin S => Cardinality(S \cup {s}) = Cardinality(S) + 1
  BY <1>1, FS_AddElement
<1>4. \A s \in S : Cardinality(S \ {s}) = Cardinality(S) - 1
  BY <1>1, FS_RemoveElement
<1> QED
  BY <1>2, <1>3, <1>4

\* subscribeSymbol and unsubscribeSymbol keep the two directions of the
\* registry and the reference counts in step.
LEMMA SetSymbolsKeeps ==
  ASSUME RegistryInv, NEW s \in Subs, NEW names \in SUBSET Names,
         SetSymbols(s, names), UNCHANGED <<stage, evName>>
  PROVE  /\ subSymbols' \in [Subs -> SUBSET Names]
         /\ symSubs' \in [Names -> SUBSET Subs] /\ refCount' \in [Names -> Nat]
         /\ RegistryAgrees' /\ RefCountExact'
         /\ \A n \in Names : symSubs'[n] \subseteq symSubs[n] \cup {s}
         /\ \A t \in Subs \ {s} : subSymbols'[t] = subSymbols[t]
         /\ subSymbols'[s] = names
<1> USE DEF RegistryInv
<1>1. subSymbols' = [subSymbols EXCEPT ![s] = names]
  BY DEF SetSymbols
<1>2. \A n \in Names : n \in names /\ n \notin subSymbols[s] =>
        /\ s \notin symSubs[n]
        /\ symSubs'[n] = symSubs[n] \cup {s} /\ refCount'[n] = refCount[n] + 1
  BY DEF SetSymbols, TypeOK, RegistryAgrees
<1>3. \A n \in Names : n \notin names /\ n \in subSymbols[s] =>
        /\ s \in symSubs[n]
        /\ symSubs'[n] = symSubs[n] \ {s} /\ refCount'[n] = refCount[n] - 1
  BY DEF SetSymbols, TypeOK, RegistryAgrees
<1>4. \A n \in Names : (n \in names <=> n \in subSymbols[s]) =>
        symSubs'[n] = symSubs[n] /\ refCount'[n] = refCount[n]
  BY DEF SetSymbols, TypeOK, RegistryAgrees
<1>5. /\ DOMAIN symSubs' = Names /\ DOMAIN refCount' = Names
      /\ symSubs' = [n \in Names |-> symSubs'[n]] /\ refCount' = [n \in Names |-> refCount'[n]]
  BY DEF SetSymbols
<1>6. /\ subSymbols' \in [Subs -> SUBSET Names] /\ subSymbols'[s] = names
      /\ \A t \in Subs \ {s} : subSymbols'[t] = subSymbols[t]
  BY <1>1 DEF TypeOK
<1>7. ASSUME NEW n \in Names
      PROVE  /\ symSubs'[n] \in SUBSET Subs /\ symSubs'[n] \subseteq symSubs[n] \cup {s}
             /\ refCount'[n] \in Nat
             /\ \A t \in Subs : n \in subSymbols'[t] <=> t \in symSubs'[n]
             /\ refCount'[n] = Cardinality(symSubs'[n]) + Held(n)
  <2>1. /\ symSubs[n] \in SUBSET Subs /\ refCount[n] = Cardinality(symSubs[n]) + Held(n)
        /\ \A t \in Subs : n \in subSymbols[t] <=> t \in symSubs[n]
    BY DEF TypeOK, RefCountExact, RegistryAgrees
  <2>2. Cardinality(symSubs[n]) \in Nat /\ Held(n) \in {0, 1}
    BY <2>1, CountFacts DEF Held
  <2>3. /\ symSubs'[n] \subseteq symSubs[n] \cup {s}
        /\ \A t \in Subs : n \in subSymbols'[t] <=> t \in symSubs'[n]
    <3>1. s \in symSubs'[n] <=> n \in names
      BY <1>2, <1>3, <1>4, <2>1
    <3>2. \A t \in Subs \ {s} : t \in symSubs'[n] <=> t \in symSubs[n]
      BY <1>2, <1>3, <1>4
    <3>3. symSubs'[n] \subseteq symSubs[n] \cup {s}
      BY <1>2, <1>3, <1>4
    <3>4. \A t \in Subs : n \in subSymbols'[t] <=> t \in symSubs'[n]
      BY <1>6, <2>1, <3>1, <3>2
    <3> QED
      BY <3>3, <3>4
  <2>4. refCount'[n] = Cardinality(symSubs'[n]) + Held(n) /\ Cardinality(symSubs'[n]) \in Nat
    <3>1. CASE n \in names /\ n \notin subSymbols[s]
      <4>1. Cardinality(symSubs[n] \cup {s}) = Cardinality(symSubs[n]) + 1
        BY <1>2, <2>1, <3>1, CountFacts
      <4>2. Cardinality(symSubs'[n]) = Cardinality(symSubs[n] \cup {s})
        BY <1>2, <3>1, Zenon
      <4>3. refCount'[n] = refCount[n] + 1
        BY <1>2, <3>1
      <4> QED
        BY <2>1, <2>2, <4>1, <4>2, <4>3
    <3>2. CASE n \notin names /\ n \in subSymbols[s]
      <4>1. /\ Cardinality(symSubs[n] \ {s}) = Cardinality(symSubs[n]) - 1
            /\ Cardinality(symSubs[n] \ {s}) \in Nat
        <5>1. s \in symSubs[n] /\ symSubs[n] \ {s} \in SUBSET Subs
          BY <1>3, <2>1, <3>2
        <5> QED
          BY <2>1, <5>1, CountFacts
      <4>2. Cardinality(symSubs'[n]) = Cardinality(symSubs[n] \ {s})
        BY <1>3, <3>2, Zenon
      <4>3. refCount'[n] = refCount[n] - 1
        BY <1>3, <3>2
      <4> QED
        BY <2>1, <2>2, <4>1, <4>2, <4>3
    <3>3. CASE n \in names <=> n \in subSymbols[s]
      BY <1>4, <2>1, <2>2, <3>3
    <3> QED
      BY <3>1, <3>2, <3>3
  <2>5. symSubs'[n] \in SUBSET Subs /\ refCount'[n] \in Nat
    BY <2>1, <2>2, <2>3, <2>4
  <2> QED
    BY <2>3, <2>4, <2>5
<1>8. symSubs' \in [Names -> SUBSET Subs] /\ refCount' \in [Names -> Nat]
  BY <1>5, <1>7
<1>9. RegistryAgrees'
  BY <1>7 DEF RegistryAgrees
<1>10. RefCountExact'
  BY <1>7 DEF RefCountExact, Held, Node
<1> QED
  BY ONLY <1>6, <1>7, <1>8, <1>9, <1>10

\* What a request names is well-formed.
LEMMA RequestType ==
  ASSUME TypeOK, NEW s \in Subs, NEW flag \in BOOLEAN, NEW names \in SUBSET Names
  PROVE  Request(s, flag, names) \subseteq Kinds \X EventTypes \X Names
BY DEF Request, Kind, Kinds, TypeOK
\* A step of call c goes on with the same subscription or ends the call; only
\* the last step of a closing call frees the subscription.
LEMMA StepKeepsCalls ==
  ASSUME TypeOK, CallSound, NEW c \in Callers, NEW at, NEW then \in CallType, Steps(c, at, then),
         at # "none",
         \/ then = NoCall
         \/ then.at # "none" /\ then.sub = doing[c].sub /\ then.op = doing[c].op,
         live' = live \/ (live' = live \ {doing[c].sub} /\ doing[c].op = "close" /\ then = NoCall)
  PROVE  doing' \in [Callers -> CallType] /\ CallSound'
<1> USE EventSubscriptionAssumption
<1>1. /\ doing' \in [Callers -> CallType] /\ doing'[c] = then /\ doing[c].at # "none"
      /\ \A d \in Callers \ {c} : doing'[d] = doing[d]
  BY DEF Steps, TypeOK
<1>2. NoCall.at = "none" /\ NoCall.op = "none" /\ NoCall.sub = NoSub
  BY DEF NoCall, Call
<1>3. doing[c].sub \in live /\ doing[c].sub \in Subs /\ live \subseteq Subs
  BY <1>1 DEF CallSound, TypeOK
<1>4. ASSUME NEW d \in Callers, doing'[d].at = "none" PROVE doing'[d] = NoCall
  BY <1>1, <1>4 DEF CallSound
<1>5. ASSUME NEW d \in Callers, doing'[d].at # "none" PROVE doing'[d].sub \in live'
  <2>1. CASE live' = live
    BY <1>1, <1>2, <1>3, <1>5, <2>1 DEF CallSound
  <2>2. CASE live' = live \ {doing[c].sub} /\ doing[c].op = "close" /\ then = NoCall
    <3>1. d # c /\ doing'[d] = doing[d]
      BY <1>1, <1>2, <1>5, <2>2
    <3>2. doing[d].sub # doing[c].sub /\ doing[d].sub \in live
      BY <1>5, <2>2, <3>1 DEF CallSound
    <3> QED
      BY <2>2, <3>1, <3>2
  <2> QED
    BY <2>1, <2>2
<1>6. ASSUME NEW d \in Callers, doing'[d].op = "close", NEW e \in Callers \ {d}
      PROVE  doing'[e].sub # doing'[d].sub
  <2>1. doing[d].op = "close" /\ doing'[d].sub = doing[d].sub
    BY <1>1, <1>2, <1>6
  <2>2. doing[e].sub # doing[d].sub /\ doing[d].at # "none"
    BY <1>2, <1>6, <2>1 DEF CallSound
  <2>3. doing'[e].sub = doing[e].sub \/ doing'[e].sub = NoSub
    BY <1>1, <1>2
  <2>4. doing[d].sub \in Subs
    BY <2>2, <1>3 DEF CallSound
  <2> QED
    BY <2>1, <2>2, <2>3, <2>4
<1>7. ASSUME NEW d \in Callers, doing'[d].op = "star" PROVE Wildcard \in Names
  BY <1>1, <1>2, <1>7 DEF CallSound
<1> QED
  BY <1>1, <1>4, <1>5, <1>6, <1>7 DEF CallSound

\* The first half of a call changes no registry.
LEMMA BeginKeeps ==
  ASSUME DeliveryInv, NEW c \in Callers, NEW op, NEW s \in Subs, NEW call \in CallType,
         Begins(c, op, s, call), call.at # "none", call.sub = s,
         call.op = "close" => \A d \in Callers : doing[d].sub # s,
         call.op = "star" => Wildcard \in Names
  PROVE  DeliveryInv'
<1>1. RegistryInv /\ LoopSound /\ CallSound /\ TypeOK
  BY DEF DeliveryInv, RegistryInv
<1> USE <1>1, EventSubscriptionAssumption
<1>2. /\ s \in live /\ \A d \in Callers : doing[d].sub = s => doing[d].op # "close"
      /\ doing[c] = NoCall /\ ops' = ops + 1 /\ ops < MaxOps
      /\ UNCHANGED <<subVars, regVars, server, entitled, loopVars, calls, doomed, events>>
      /\ crossed' = crossed \/ crossed' = crossed \cup {s}
  BY DEF Begins, Usable, Calls
<1>3. /\ doing' \in [Callers -> CallType] /\ doing'[c] = call
      /\ \A d \in Callers \ {c} : doing'[d] = doing[d]
  BY DEF Begins, TypeOK
<1>4. TypeOK'
  BY <1>2, <1>3 DEF TypeOK, subVars, regVars, loopVars
<1>5. RegistryAgrees' /\ RefCountExact' /\ ClosedForgotten' /\ LoopSound'
  BY <1>2 DEF RegistryInv, RegistryAgrees, RefCountExact, ClosedForgotten, Held, Node, LoopSound,
              subVars, regVars, loopVars
<1>6. CallSound'
  <2>1. live' = live
    BY <1>2 DEF subVars
  <2>2. ASSUME NEW d \in Callers
        PROVE  /\ doing'[d].at = "none" => doing'[d] = NoCall
               /\ doing'[d].at # "none" => doing'[d].sub \in live
               /\ doing'[d].op = "star" => Wildcard \in Names
    BY <1>2, <1>3 DEF CallSound
  <2>3. ASSUME NEW d \in Callers, doing'[d].op = "close", NEW e \in Callers \ {d}
        PROVE  doing'[e].sub # doing'[d].sub
    BY <1>2, <1>3, <2>3 DEF CallSound
  <2> QED
    BY <2>1, <2>2, <2>3 DEF CallSound
<1> QED
  BY <1>4, <1>5, <1>6 DEF DeliveryInv, RegistryInv

\* A step that changes the symbols of one subscription keeps the registry
\* exact, in the middle of a delivery too.
LEMMA ChangeKeeps ==
  ASSUME DeliveryInv, NEW s \in live, NEW names \in SUBSET Names, SetSymbols(s, names),
         live' = live \/ (live' = live \ {s} /\ names = {}),
         UNCHANGED <<loopVars, calls, ops, events, created, types>>,
         wild' \in [Subs -> BOOLEAN], listeners' \in [Subs -> SUBSET Listeners],
         server' \subseteq Kinds \X EventTypes \X Names,
         entitled' \subseteq Pairs, crossed' \subseteq Subs, doomed' \subseteq Subs,
         doing' \in [Callers -> CallType], CallSound'
  PROVE  DeliveryInv'
<1>1. RegistryInv /\ LoopSound /\ TypeOK /\ s \in Subs
  BY DEF DeliveryInv, RegistryInv, TypeOK
<1>2. UNCHANGED <<stage, evName, evType, todo, cur, ltodo, calling>>
  BY DEF loopVars
<1>3. /\ subSymbols' \in [Subs -> SUBSET Names]
      /\ symSubs' \in [Names -> SUBSET Subs] /\ refCount' \in [Names -> Nat]
      /\ RegistryAgrees' /\ RefCountExact'
      /\ \A n \in Names : symSubs'[n] \subseteq symSubs[n] \cup {s}
      /\ \A t \in Subs \ {s} : subSymbols'[t] = subSymbols[t]
      /\ subSymbols'[s] = names
  BY <1>1, <1>2, SetSymbolsKeeps
<1>4. LoopSound'
  BY <1>1, <1>2 DEF LoopSound, Node
<1>5. ClosedForgotten'
  <2>1. CASE live' = live
    BY <1>1, <1>3, <2>1 DEF RegistryInv, ClosedForgotten
  <2>2. CASE live' = live \ {s} /\ names = {}
    <3>1. \A n \in Names : s \notin symSubs'[n]
      BY <1>1, <1>3, <2>2 DEF RegistryAgrees
    <3> QED
      BY <1>1, <1>3, <2>2, <3>1 DEF RegistryInv, ClosedForgotten
  <2> QED
    BY <2>1, <2>2
<1>6. TypeOK'
  <2>1. live' \subseteq created
    BY <1>1 DEF TypeOK
  <2> QED
    BY <1>1, <1>2, <1>3, <2>1 DEF TypeOK
<1> QED
  BY <1>3, <1>4, <1>5, <1>6 DEF DeliveryInv, RegistryInv

\* What a call names is well-formed.
LEMMA CallTypeFacts ==
  ASSUME TypeOK, CallSound, NEW c \in Callers
  PROVE  /\ doing[c].sub \in Subs \cup {NoSub} /\ doing[c].names \in SUBSET Names
         /\ doing[c].flag \in BOOLEAN /\ doing[c] \in CallType /\ NoCall \in CallType
         /\ NoCall.at = "none" /\ NoCall.op = "none" /\ NoCall.sub = NoSub
         /\ doing[c].at # "none" => doing[c].sub \in live /\ doing[c].sub \in Subs
<1>1. doing[c] \in CallType
  BY DEF TypeOK
<1>2. doing[c].at # "none" => doing[c].sub \in live /\ doing[c].sub \in Subs
  BY DEF CallSound, TypeOK
<1> QED
  BY <1>1, <1>2 DEF CallType, NoCall, Call


\* Only a symbol that some subscription holds has data between deliveries.
LEMMA KnownIffHeld ==
  ASSUME RegistryInv, stage = "idle", NEW n \in Names
  PROVE  Known(n) <=> symSubs[n] # {}
<1>1. symSubs[n] \in SUBSET Subs /\ refCount[n] = Cardinality(symSubs[n]) + 0
  BY DEF RegistryInv, TypeOK, RefCountExact, Held
<1> QED
  BY <1>1, CountFacts DEF Known
\* Every step keeps DeliveryInv, whatever listeners call.
LEMMA DeliveryStep ==
  ASSUME DeliveryInv, [Next]_vars PROVE DeliveryInv'
<1>0. /\ RegistryInv /\ LoopSound /\ CallSound /\ TypeOK /\ RegistryAgrees /\ RefCountExact
      /\ ClosedForgotten
  BY DEF DeliveryInv, RegistryInv
<1> USE <1>0, EventSubscriptionAssumption
<1>c. UNCHANGED <<live, doing>> => CallSound'
  BY DEF CallSound
<1>1. ASSUME NEW c \in Callers, NEW s \in Subs, NEW ts \in SUBSET EventTypes, NEW flag \in BOOLEAN,
             Create(c, s, ts, flag)
      PROVE  DeliveryInv'
  <2> USE <1>1 DEF Create, Calls, regVars, loopVars
  <2>1. TypeOK'
    BY DEF TypeOK
  <2>2. RegistryAgrees' /\ RefCountExact' /\ ClosedForgotten'
    BY DEF RegistryAgrees, RefCountExact, ClosedForgotten, Held, Node
  <2>3. LoopSound'
    BY DEF LoopSound, Node
  <2>4. CallSound'
    <3>1. live' = live \cup {s} /\ doing' = doing
      OBVIOUS
    <3> QED
      BY <3>1 DEF CallSound
  <2> QED
    BY <2>1, <2>2, <2>3, <2>4 DEF DeliveryInv, RegistryInv
<1>2. ASSUME NEW c \in Callers, NEW s \in Subs, NEW names \in SUBSET Names,
             StartAdd(c, s, names) \/ StartRemove(c, s, names) \/ StartClear(c, s) \/ StartClose(c, s)
      PROVE  DeliveryInv'
  <2>1. subSymbols[s] \in SUBSET Names /\ wild[s] \in BOOLEAN
    BY DEF TypeOK
  <2>2. CASE StartAdd(c, s, names)
    <3>1. CASE Wildcard \in names
      <4> DEFINE call == Call("unsubscribe", "star", s, subSymbols[s], FALSE)
      <4>1. Begins(c, "add", s, call) /\ Wildcard \in Names
        BY <2>2, <3>1 DEF StartAdd
      <4>2. call \in CallType /\ call.at # "none" /\ call.sub = s /\ call.op = "star"
        BY <2>1 DEF Call, CallType
      <4> QED
        BY <4>1, <4>2, BeginKeeps
    <3>2. CASE Wildcard \notin names
      <4> DEFINE call == Call("add", "add", s, names, FALSE)
      <4>1. Begins(c, "add", s, call)
        BY <2>2, <3>2 DEF StartAdd
      <4>2. call \in CallType /\ call.at # "none" /\ call.sub = s /\ call.op = "add"
        BY DEF Call, CallType
      <4> QED
        BY <4>1, <4>2, BeginKeeps
    <3> QED
      BY <3>1, <3>2
  <2>3. CASE StartRemove(c, s, names)
    <3> DEFINE call == Call("unsubscribe", "remove", s, names, FALSE)
    <3>1. Begins(c, "remove", s, call)
      BY <2>3 DEF StartRemove
    <3>2. call \in CallType /\ call.at # "none" /\ call.sub = s /\ call.op = "remove"
      BY DEF Call, CallType
    <3> QED
      BY <3>1, <3>2, BeginKeeps
  <2>4. CASE StartClear(c, s)
    <3> DEFINE call == Call("unsubscribe", "clear", s, subSymbols[s], wild[s])
    <3>1. Begins(c, "clear", s, call)
      BY <2>4 DEF StartClear
    <3>2. call \in CallType /\ call.at # "none" /\ call.sub = s /\ call.op = "clear"
      BY <2>1 DEF Call, CallType
    <3> QED
      BY <3>1, <3>2, BeginKeeps
  <2>5. CASE StartClose(c, s)
    <3> DEFINE call == Call("unsubscribe", "close", s, subSymbols[s], wild[s])
    <3>1. Begins(c, "close", s, call) /\ \A d \in Callers : doing[d].sub # s
      BY <2>5 DEF StartClose
    <3>2. call \in CallType /\ call.at # "none" /\ call.sub = s /\ call.op = "close"
      BY <2>1 DEF Call, CallType
    <3> QED
      BY <3>1, <3>2, BeginKeeps
  <2> QED
    BY <1>2, <2>2, <2>3, <2>4, <2>5
<1>3. ASSUME NEW c \in Callers, NEW at, NEW then \in CallType, Steps(c, at, then), at # "none",
             \/ then = NoCall
             \/ then.at # "none" /\ then.sub = doing[c].sub /\ then.op = doing[c].op,
             UNCHANGED <<created, live, types, listeners, regVars, entitled, doomed>>,
             wild' \in [Subs -> BOOLEAN], server' \subseteq Kinds \X EventTypes \X Names
      PROVE  DeliveryInv'
  <2>1. doing' \in [Callers -> CallType] /\ CallSound'
    BY <1>3, StepKeepsCalls
  <2>2. UNCHANGED <<loopVars, calls, crossed, ops, events>>
    BY <1>3 DEF Steps
  <2>3. TypeOK'
    BY <1>3, <2>1, <2>2 DEF TypeOK, regVars, loopVars
  <2>4. RegistryAgrees' /\ RefCountExact' /\ ClosedForgotten' /\ LoopSound'
    BY <1>3, <2>2 DEF RegistryAgrees, RefCountExact, ClosedForgotten, Held, Node, LoopSound,
                      regVars, loopVars
  <2> QED
    BY <2>1, <2>3, <2>4 DEF DeliveryInv, RegistryInv
<1>4. ASSUME NEW c \in Callers, Unsubscribe(c) PROVE DeliveryInv'
  <2> DEFINE then == [doing[c] EXCEPT !.at = "drop"]
  <2>1. Steps(c, "unsubscribe", then) /\ UNCHANGED <<subVars, regVars, entitled, doomed>>
    BY <1>4 DEF Unsubscribe
  <2>2. server' \subseteq server
    BY <1>4 DEF Unsubscribe
  <2>3. then \in CallType /\ then.at # "none" /\ then.sub = doing[c].sub /\ then.op = doing[c].op
    BY CallTypeFacts DEF CallType
  <2> HIDE DEF then
  <2> QED
    BY <1>3, <2>1, <2>2, <2>3 DEF subVars, TypeOK
<1>5. ASSUME NEW c \in Callers, Subscribe(c) PROVE DeliveryInv'
  <2>1. /\ Steps(c, "subscribe", NoCall) /\ UNCHANGED <<subVars, regVars, entitled, doomed>>
        /\ server' = server \cup Request(doing[c].sub, doing[c].flag, doing[c].names)
    BY <1>5 DEF Subscribe
  <2>2. Request(doing[c].sub, doing[c].flag, doing[c].names) \subseteq Kinds \X EventTypes \X Names
    BY <2>1, CallTypeFacts, RequestType DEF Steps
  <2>3. server' \subseteq Kinds \X EventTypes \X Names /\ NoCall \in CallType
    BY <2>1, <2>2, CallTypeFacts DEF TypeOK
  <2> QED
    BY <1>3, <2>1, <2>3 DEF subVars, TypeOK
<1>6. ASSUME NEW c \in Callers, ResetFlag(c) PROVE DeliveryInv'
  <2>1. /\ Steps(c, "unflag", NoCall)
        /\ UNCHANGED <<created, live, types, listeners, regVars, server, entitled, doomed>>
        /\ wild' \in [Subs -> BOOLEAN] /\ NoCall \in CallType
    BY <1>6, CallTypeFacts DEF ResetFlag, TypeOK
  <2> QED
    BY <1>3, <2>1 DEF TypeOK
<1>14. ASSUME NEW c \in Callers, NEW at, NEW then \in CallType, NEW names \in SUBSET Names,
              Steps(c, at, then), at # "none",
              \/ then = NoCall
              \/ then.at # "none" /\ then.sub = doing[c].sub /\ then.op = doing[c].op,
              SetSymbols(doing[c].sub, names), Interests, UNCHANGED <<created, types, wild, server>>,
              \/ live' = live
              \/ live' = live \ {doing[c].sub} /\ doing[c].op = "close" /\ then = NoCall /\ names = {},
              listeners' \in [Subs -> SUBSET Listeners], doomed' \subseteq Subs
       PROVE  DeliveryInv'
  <2>1. doing' \in [Callers -> CallType] /\ CallSound'
    BY <1>14, StepKeepsCalls
  <2>2. UNCHANGED <<loopVars, calls, crossed, ops, events>> /\ doing[c].sub \in live
    BY <1>14, CallTypeFacts DEF Steps
  <2>3. entitled' \subseteq Pairs /\ crossed' \subseteq Subs /\ wild' \in [Subs -> BOOLEAN]
    BY <1>14, <2>2 DEF Interests, TypeOK
  <2>4. server' \subseteq Kinds \X EventTypes \X Names
    BY <1>14 DEF TypeOK
  <2> QED
    BY ONLY DeliveryInv, <1>14, <2>1, <2>2, <2>3, <2>4, ChangeKeeps
<1>15. ASSUME NEW c \in Callers, DropSymbols(c) PROVE DeliveryInv'
  <2> DEFINE then == CASE doing[c].op = "star" -> Call("add", "star", doing[c].sub, {Wildcard}, TRUE)
                       [] doing[c].op = "clear" /\ doing[c].flag -> [doing[c] EXCEPT !.at = "unflag"]
                       [] OTHER -> NoCall
             names == subSymbols[doing[c].sub] \ doing[c].names
  <2>1. /\ Steps(c, "drop", then) /\ SetSymbols(doing[c].sub, names) /\ Interests
        /\ UNCHANGED <<subVars, server, doomed>>
    BY <1>15 DEF DropSymbols
  <2>2. doing[c].sub \in Subs /\ names \in SUBSET Names
    BY <2>1, CallTypeFacts DEF Steps, TypeOK
  <2>3. /\ then \in CallType
        /\ then = NoCall \/ (then.at # "none" /\ then.sub = doing[c].sub /\ then.op = doing[c].op)
    <3>1. CASE doing[c].op = "star"
      BY <3>1, <2>2 DEF CallSound, Call, CallType
    <3>2. CASE doing[c].op = "clear" /\ doing[c].flag
      BY <3>2, CallTypeFacts DEF CallType
    <3>3. CASE doing[c].op # "star" /\ ~(doing[c].op = "clear" /\ doing[c].flag)
      BY <3>3, CallTypeFacts
    <3> QED
      BY <3>1, <3>2, <3>3
  <2> HIDE DEF then, names
  <2>4. listeners' \in [Subs -> SUBSET Listeners] /\ doomed' \subseteq Subs
    BY <2>1 DEF subVars, TypeOK
  <2> QED
    BY <1>14, <2>1, <2>2, <2>3, <2>4 DEF subVars
<1>16. ASSUME NEW c \in Callers, AddToList(c) PROVE DeliveryInv'
  <2> DEFINE then == [doing[c] EXCEPT !.at = "subscribe"]
             names == subSymbols[doing[c].sub] \cup doing[c].names
  <2>1. /\ Steps(c, "add", then) /\ SetSymbols(doing[c].sub, names) /\ Interests
        /\ UNCHANGED <<subVars, server, doomed>>
    BY <1>16 DEF AddToList
  <2>2. doing[c].sub \in Subs /\ names \in SUBSET Names
    BY <2>1, CallTypeFacts DEF Steps, TypeOK
  <2>3. then \in CallType /\ then.at # "none" /\ then.sub = doing[c].sub /\ then.op = doing[c].op
    BY CallTypeFacts DEF CallType
  <2> HIDE DEF then, names
  <2>4. listeners' \in [Subs -> SUBSET Listeners] /\ doomed' \subseteq Subs
    BY <2>1 DEF subVars, TypeOK
  <2> QED
    BY <1>14, <2>1, <2>2, <2>3, <2>4 DEF subVars
<1>17. ASSUME NEW c \in Callers, Free(c) PROVE DeliveryInv'
  <2>1. /\ Steps(c, "drop", NoCall) /\ SetSymbols(doing[c].sub, {}) /\ Interests
        /\ doing[c].op = "close" /\ live' = live \ {doing[c].sub}
        /\ listeners' = [listeners EXCEPT ![doing[c].sub] = {}]
        /\ doomed' = doomed \/ doomed' = doomed \cup {doing[c].sub}
        /\ UNCHANGED <<created, types, wild, server>>
    BY <1>17 DEF Free
  <2>2. doing[c].sub \in Subs /\ NoCall \in CallType
    BY <2>1, CallTypeFacts DEF Steps
  <2>3. listeners' \in [Subs -> SUBSET Listeners] /\ doomed' \subseteq Subs
    BY <2>1, <2>2 DEF TypeOK
  <2> QED
    BY <1>14, <2>1, <2>2, <2>3
<1>18. ASSUME NEW c \in Callers, NEW s \in Subs, NEW l \in Listeners, Attach(c, s, l) \/ Detach(c, s, l)
       PROVE  DeliveryInv'
  <2> USE <1>18 DEF Attach, Detach, Calls, regVars, loopVars
  <2>1. TypeOK'
    BY DEF TypeOK, Interests
  <2>2. RegistryAgrees' /\ RefCountExact' /\ ClosedForgotten'
    BY DEF RegistryAgrees, RefCountExact, ClosedForgotten, Held, Node
  <2>3. LoopSound'
    BY DEF LoopSound, Node
  <2>4. CallSound'
    BY <1>c
  <2> QED
    BY <2>1, <2>2, <2>3, <2>4 DEF DeliveryInv, RegistryInv
<1>7. ASSUME NEW s \in Subs, VisitSubscription(s) PROVE DeliveryInv'
  <2> USE <1>7 DEF VisitSubscription, subVars, regVars, histVars
  <2>c. CallSound'
    BY <1>c
  <2>1. TypeOK'
    BY DEF TypeOK
  <2>2. RegistryAgrees' /\ RefCountExact' /\ ClosedForgotten'
    BY DEF RegistryAgrees, RefCountExact, ClosedForgotten, Held, Node
  <2>3. LoopSound'
    BY DEF LoopSound, Node
  <2> QED
    BY <2>1, <2>2, <2>3, <2>c DEF DeliveryInv, RegistryInv
<1>8. ASSUME NEW n \in Names \ {Wildcard}, NEW e \in EventTypes, BeginEvent(n, e)
      PROVE  DeliveryInv'
  <2>c. CallSound'
    BY <1>c, <1>8 DEF BeginEvent, subVars
  <2>1. /\ stage = "idle" /\ evName' = n /\ evType' = e
        /\ UNCHANGED <<subVars, subSymbols, symSubs, server, cur, ltodo, calling, crossed, doing, ops>>
    BY <1>8 DEF BeginEvent
  <2>2. /\ events' \in 0..MaxEvents /\ calls' \in [Pairs -> Nat] /\ entitled' \subseteq Pairs
        /\ doomed' \subseteq Subs
    BY <1>8 DEF BeginEvent, TypeOK
  <2>3. RegistryAgrees' /\ ClosedForgotten'
    BY <2>1 DEF RegistryAgrees, ClosedForgotten, subVars
  <2>4. \A m \in Names : refCount[m] = Cardinality(symSubs[m]) + 0 /\ Cardinality(symSubs[m]) \in Nat
    BY <2>1, CountFacts DEF RefCountExact, Held, TypeOK
  <2>5. ASSUME NEW m \in Names, stage' \in {"symbol", "wildcard"}, BeginPass(m, stage'),
               refCount' = Hold(refCount, m), m = Node', stage' = "symbol" => m # Wildcard
        PROVE  DeliveryInv'
    <3>1. RefCountExact' /\ refCount' \in [Names -> Nat]
      <4>1. /\ refCount' \in [Names -> Nat] /\ refCount'[m] = refCount[m] + 1
            /\ \A k \in Names : k # m => refCount'[k] = refCount[k]
        BY <2>5 DEF Hold, TypeOK
      <4>2. Held(m)' = 1 /\ \A k \in Names : k # m => Held(k)' = 0
        BY <2>5 DEF Held
      <4> QED
        BY <2>1, <2>4, <4>1, <4>2 DEF RefCountExact
    <3>2. TypeOK'
      BY <2>1, <2>2, <2>5, <3>1 DEF TypeOK, BeginPass, subVars
    <3>3. LoopSound'
      <4>1. todo' \subseteq Subs
        BY <3>2 DEF TypeOK
      <4> QED
        BY <2>1, <2>5, <4>1 DEF LoopSound, BeginPass, Node
    <3> QED
      BY <2>3, <3>1, <3>2, <3>3, <2>c DEF DeliveryInv, RegistryInv
  <2>6. CASE UNCHANGED <<stage, todo, refCount>>
    <3>1. RefCountExact'
      BY <2>1, <2>4, <2>6 DEF RefCountExact, Held
    <3>2. TypeOK'
      BY <2>1, <2>2, <2>6 DEF TypeOK, subVars, histVars
    <3>3. LoopSound'
      BY <2>1, <2>6 DEF LoopSound
    <3> QED
      BY <2>3, <3>1, <3>2, <3>3, <2>c DEF DeliveryInv, RegistryInv
  <2>7. CASE BeginPass(n, "symbol") /\ refCount' = Hold(refCount, n)
    <3>1. stage' = "symbol" /\ Node' = n
      BY <2>1, <2>7 DEF BeginPass, Node
    <3> QED
      BY <2>5, <2>7, <3>1
  <2>8. CASE Known(Wildcard) /\ BeginPass(Wildcard, "wildcard") /\ refCount' = Hold(refCount, Wildcard)
    <3>1. stage' = "wildcard" /\ Node' = Wildcard /\ Wildcard \in Names
      BY <2>8 DEF BeginPass, Node, Known
    <3> QED
      BY <2>5, <2>8, <3>1
  <2> QED
    BY <1>8, <2>6, <2>7, <2>8 DEF BeginEvent
<1>9. ASSUME NEW l \in Listeners, CallListener(l) PROVE DeliveryInv'
  <2> USE <1>9 DEF CallListener, subVars, regVars
  <2>c. CallSound'
    BY <1>c
  <2>1. TypeOK'
    BY DEF TypeOK, Pairs
  <2>2. RegistryAgrees' /\ RefCountExact' /\ ClosedForgotten'
    BY DEF RegistryAgrees, RefCountExact, ClosedForgotten, Held, Node
  <2>3. LoopSound'
    BY DEF LoopSound, Node, TypeOK
  <2> QED
    BY <2>1, <2>2, <2>3, <2>c DEF DeliveryInv, RegistryInv
<1>10. ASSUME ListenerReturns \/ LeaveSubscription PROVE DeliveryInv'
  <2> USE <1>10 DEF ListenerReturns, LeaveSubscription, subVars, regVars, histVars
  <2>c. CallSound'
    BY <1>c
  <2>1. TypeOK'
    BY DEF TypeOK
  <2>2. RegistryAgrees' /\ RefCountExact' /\ ClosedForgotten'
    BY DEF RegistryAgrees, RefCountExact, ClosedForgotten, Held, Node
  <2>3. LoopSound'
    BY DEF LoopSound, Node, TypeOK
  <2> QED
    BY <2>1, <2>2, <2>3, <2>c DEF DeliveryInv, RegistryInv
<1>11. ASSUME EndPass PROVE DeliveryInv'
  <2>c. CallSound'
    BY <1>c, <1>11 DEF EndPass, subVars
  <2>1. /\ stage # "idle" /\ cur = NoSub /\ todo = {} /\ Node \in Names
        /\ UNCHANGED <<subVars, subSymbols, symSubs, server, evName, evType, cur, ltodo, calling,
                       doing, histVars>>
    BY <1>11 DEF EndPass, LoopSound
  <2>2. RegistryAgrees' /\ ClosedForgotten'
    BY <2>1 DEF RegistryAgrees, ClosedForgotten, subVars
  <2>3. \A m \in Names : /\ Cardinality(symSubs[m]) \in Nat /\ refCount[m] \in Nat
                         /\ refCount[m] = Cardinality(symSubs[m]) + Held(m)
    BY CountFacts DEF RefCountExact, TypeOK
  <2>4. /\ Release(refCount, Node) \in [Names -> Nat]
        /\ \A m \in Names : Release(refCount, Node)[m] = Cardinality(symSubs[m])
    BY <2>1, <2>3 DEF Release, Held, TypeOK
  <2>5. CASE stage = "symbol" /\ Known(Wildcard)
    <3>1. /\ stage' = "wildcard" /\ todo' = symSubs[Wildcard] /\ Wildcard \in Names
          /\ refCount' = Hold(Release(refCount, Node), Wildcard) /\ Node' = Wildcard
      BY <1>11, <2>5 DEF EndPass, BeginPass, Known, Node
    <3>2. refCount' \in [Names -> Nat]
      BY <2>4, <3>1 DEF Hold
    <3>3. RefCountExact'
      BY <2>1, <2>3, <2>4, <3>1 DEF RefCountExact, Held, Hold
    <3>4. todo' \subseteq Subs
      BY <3>1 DEF TypeOK
    <3>5. TypeOK'
      BY <2>1, <3>1, <3>2, <3>4 DEF TypeOK, subVars, histVars
    <3>6. LoopSound'
      BY <2>1, <3>1, <3>4 DEF LoopSound
    <3> QED
      BY <2>2, <3>3, <3>5, <3>6, <2>c DEF DeliveryInv, RegistryInv
  <2>6. CASE ~(stage = "symbol" /\ Known(Wildcard))
    <3>1. stage' = "idle" /\ refCount' = Release(refCount, Node) /\ UNCHANGED todo
      BY <1>11, <2>6 DEF EndPass
    <3>2. RefCountExact'
      BY <2>1, <2>3, <2>4, <3>1 DEF RefCountExact, Held
    <3>3. TypeOK'
      BY <2>1, <2>4, <3>1 DEF TypeOK, subVars, histVars
    <3>4. LoopSound'
      BY <2>1, <3>1 DEF LoopSound
    <3> QED
      BY <2>2, <3>2, <3>3, <3>4, <2>c DEF DeliveryInv, RegistryInv
  <2> QED
    BY <2>5, <2>6
<1>12. ASSUME Reconnect PROVE DeliveryInv'
  <2> USE <1>12 DEF Reconnect, subVars, regVars, loopVars
  <2>1. server' \subseteq Kinds \X EventTypes \X Names
    <3>1. \A s \in live : Request(s, wild[s], subSymbols[s]) \subseteq Kinds \X EventTypes \X Names
      BY RequestType DEF TypeOK
    <3> QED
      BY <3>1
  <2>2. TypeOK'
    <3>1. crossed' \subseteq Subs
      OBVIOUS
    <3> QED
      BY <2>1, <3>1 DEF TypeOK
  <2>3. RegistryAgrees' /\ RefCountExact' /\ ClosedForgotten'
    BY DEF RegistryAgrees, RefCountExact, ClosedForgotten, Held, Node
  <2>4. LoopSound' /\ CallSound'
    BY <1>c DEF LoopSound, Node
  <2> QED
    BY <2>2, <2>3, <2>4 DEF DeliveryInv, RegistryInv
<1>13. ASSUME UNCHANGED vars PROVE DeliveryInv'
  <2>1. TypeOK' /\ CallSound'
    BY <1>13, <1>c DEF vars, subVars, regVars, loopVars, histVars, TypeOK
  <2>2. RegistryAgrees' /\ RefCountExact' /\ ClosedForgotten' /\ LoopSound'
    BY <1>13 DEF vars, subVars, regVars, loopVars, RegistryAgrees, RefCountExact, ClosedForgotten,
                 Held, Node, LoopSound
  <2> QED
    BY <2>1, <2>2 DEF DeliveryInv, RegistryInv
<1>19. ASSUME NEW c \in Callers, CallGoesOn(c) PROVE DeliveryInv'
  BY <1>4, <1>5, <1>6, <1>15, <1>16, <1>17, <1>19 DEF CallGoesOn
<1>20. ASSUME NEW c \in Callers, NEW s \in Subs, CallStarts(c, s) PROVE DeliveryInv'
  BY <1>1, <1>2, <1>18, <1>20 DEF CallStarts
<1> QED
  BY <1>7, <1>8, <1>9, <1>10, <1>11, <1>12, <1>13, <1>19, <1>20 DEF Next

\* The invariant holds of a new connection.
LEMMA DeliveryInit == Init => DeliveryInv
<1> SUFFICES ASSUME Init PROVE DeliveryInv
  OBVIOUS
<1> USE EventSubscriptionAssumption DEF Init
<1>1. TypeOK
  <2>1. /\ types \in [Subs -> SUBSET EventTypes] /\ subSymbols \in [Subs -> SUBSET Names]
        /\ listeners \in [Subs -> SUBSET Listeners] /\ symSubs \in [Names -> SUBSET Subs]
    OBVIOUS
  <2>2. wild \in [Subs -> BOOLEAN] /\ refCount \in [Names -> Nat] /\ calls \in [Pairs -> Nat]
    OBVIOUS
  <2>3. ops \in 0..MaxOps /\ events \in 0..MaxEvents
    OBVIOUS
  <2>4. calling \in BOOLEAN /\ server \subseteq Kinds \X EventTypes \X Names /\ entitled \subseteq Pairs
    OBVIOUS
  <2>6. doing \in [Callers -> CallType] /\ crossed \subseteq Subs /\ doomed \subseteq Subs
    BY DEF NoCall, Call, CallType
  <2>5. /\ stage \in {"idle", "symbol", "wildcard"} /\ evName \in Names \cup {Wildcard}
        /\ evType \in EventTypes /\ todo \subseteq Subs /\ cur \in Subs \cup {NoSub}
        /\ ltodo \subseteq Listeners /\ live \subseteq created /\ created \subseteq Subs
    OBVIOUS
  <2> QED
    BY ONLY <2>1, <2>2, <2>3, <2>4, <2>5, <2>6 DEF TypeOK
<1>2. RegistryAgrees /\ ClosedForgotten /\ LoopSound
  BY DEF RegistryAgrees, ClosedForgotten, LoopSound
<1>4. CallSound
  BY DEF CallSound, NoCall, Call
<1>3. RefCountExact
  BY FS_EmptySet DEF RefCountExact, Held
<1> QED
  BY <1>1, <1>2, <1>3, <1>4 DEF DeliveryInv, RegistryInv

\* The registry stays exact, and a delivery (dx_process_event_data) goes over
\* subscriptions and listeners that its copies of the sets have named.
THEOREM DeliveryInvariant == Spec => []DeliveryInv
<1>1. DeliveryInv /\ [Next]_vars => DeliveryInv'
  BY DeliveryStep
<1> QED
  BY <1>1, DeliveryInit, PTL DEF Spec

\* Subscriptions and symbol data refer to each other consistently, every
\* SymbolData is counted exactly and no closed subscription is left behind,
\* for every interleaving of API calls, those of listeners included, with
\* deliveries.
THEOREM RegistryTheorem == Spec => []RegistryInv
<1>1. DeliveryInv => RegistryInv
  BY DEF DeliveryInv
<1> QED
  BY <1>1, DeliveryInvariant, PTL
-----------------------------------------------------------------------------\* The mutex keeps the threads from freeing a subscription during a delivery,
\* and the copied set only names subscriptions that existed when it was copied.
LEMMA LiveStep ==
  ASSUME LiveInv, [Next]_vars PROVE LiveInv'
<1>0. DeliveryInv /\ DeliveryInv' /\ NoUseAfterFree /\ TypeOK /\ LoopSound /\ ClosedForgotten
  BY DeliveryStep DEF LiveInv, DeliveryInv, RegistryInv
<1> SUFFICES NoUseAfterFree'
  BY <1>0 DEF LiveInv
<1> USE <1>0 DEF NoUseAfterFree
<1>1. ASSUME NEW c \in Callers, Free(c) PROVE NoUseAfterFree'
  <2>1. /\ live' = live \ {doing[c].sub} /\ UNCHANGED <<todo, cur>>
        /\ doomed' = IF c = Reader THEN doomed \cup {doing[c].sub} ELSE doomed
        /\ IF c = Reader THEN calling ELSE stage = "idle"
    BY <1>1 DEF Free, Steps, loopVars, Locked
  <2>2. CASE c = Reader
    BY <2>1, <2>2
  <2>3. CASE c # Reader
    BY <2>1, <2>3 DEF LoopSound
  <2> QED
    BY <2>2, <2>3
<1>2. ASSUME live \subseteq live', UNCHANGED <<todo, cur, doomed>> PROVE NoUseAfterFree'
  BY <1>2
<1>3. ASSUME NEW c \in Callers, CallGoesOn(c), ~Free(c)
      PROVE  live \subseteq live' /\ UNCHANGED <<todo, cur, doomed>>
  BY <1>3 DEF CallGoesOn, Unsubscribe, DropSymbols, ResetFlag, AddToList, Subscribe, Steps, loopVars,
              subVars
<1>4. ASSUME NEW c \in Callers, NEW s \in Subs, CallStarts(c, s)
      PROVE  live \subseteq live' /\ UNCHANGED <<todo, cur, doomed>>
  BY <1>4 DEF CallStarts, Create, StartAdd, StartRemove, StartClear, StartClose, Attach, Detach, Begins,
              Calls, loopVars, subVars
<1>5. ASSUME NEW s \in Subs, VisitSubscription(s) PROVE NoUseAfterFree'
  BY <1>5 DEF VisitSubscription, subVars, histVars
<1>6. ASSUME NEW n \in Names, NEW e \in EventTypes, BeginEvent(n, e) PROVE NoUseAfterFree'
  BY <1>6 DEF BeginEvent, BeginPass, Known, ClosedForgotten, LoopSound, subVars
<1>7. ASSUME EndPass PROVE NoUseAfterFree'
  BY <1>7 DEF EndPass, BeginPass, Known, ClosedForgotten, subVars, histVars
<1>8. ASSUME \/ \E l \in Listeners : CallListener(l)
             \/ ListenerReturns \/ LeaveSubscription \/ Reconnect
      PROVE  NoUseAfterFree'
  BY <1>8 DEF CallListener, ListenerReturns, LeaveSubscription, Reconnect, subVars, loopVars, histVars
<1>9. ASSUME UNCHANGED vars PROVE NoUseAfterFree'
  BY <1>9 DEF vars, subVars, loopVars, histVars
<1> QED
  BY <1>1, <1>2, <1>3, <1>4, <1>5, <1>6, <1>7, <1>8, <1>9 DEF Next

\* Whatever threads and listeners call, a delivery (dx_process_event_data) only
\* comes to a closed subscription that a listener of the same event has closed.
THEOREM NoUseAfterFreeTheorem == Spec => []NoUseAfterFree
<1>1. Init => LiveInv
  BY DeliveryInit DEF LiveInv, NoUseAfterFree, Init
<1>2. LiveInv /\ [Next]_vars => LiveInv'
  BY LiveStep
<1>3. LiveInv => NoUseAfterFree
  BY DEF LiveInv
<1> QED
  BY <1>1, <1>2, <1>3, PTL DEF Spec
-----------------------------------------------------------------------------
LEMMA InRequest ==
  ASSUME NEW r \in Kinds \X EventTypes \X Names, NEW s, NEW flag, NEW names
  PROVE  r \in Request(s, flag, names) <=>
            r[1] = Kind(flag) /\ r[2] \in types[s] /\ r[3] \in names
BY DEF Request

\* A step of call c keeps the other calls as they are.
LEMMA StepFrame ==
  ASSUME TypeOK, CallSound, NEW c \in Callers, NEW at, NEW then, Steps(c, at, then), at # "none"
  PROVE  /\ doing'[c] = then /\ \A d \in Callers \ {c} : doing'[d] = doing[d]
         /\ doing[c].at = at /\ doing[c].sub \in live /\ doing[c].sub \in Subs
         /\ crossed' = crossed
BY CallTypeFacts DEF Steps, TypeOK

\* A step of call c keeps what is known of the calls if it keeps what is known
\* of c.
LEMMA OthersWanted ==
  ASSUME TypeOK, CallSound, WantedCalls, NEW c \in Callers, NEW at, NEW then, Steps(c, at, then),
         at # "none", then.sub \in {doing[c].sub, NoSub}, CallWanted(c)',
         \A t \in Subs : wild'[t] => wild[t],
         \A t \in Subs \ {doing[c].sub} : subSymbols'[t] = subSymbols[t]
  PROVE  WantedCalls'
<1> USE EventSubscriptionAssumption
<1>1. /\ doing'[c] = then /\ \A d \in Callers \ {c} : doing'[d] = doing[d]
      /\ doing[c].sub \in Subs /\ crossed' = crossed
  BY StepFrame
<1>2. ASSUME NEW d \in Callers \ {c} PROVE CallWanted(d)'
  <2>1. doing'[d] = doing[d] /\ CallWanted(d) /\ Overlap(d, c)
    BY <1>1 DEF WantedCalls
  <2>2. /\ doing[d].op # "none" => doing[d].sub \in Subs
        /\ doing[d].at # "none" => doing[d].sub \in Subs
    BY CallTypeFacts DEF CallSound
  <2>3. doing[d].op \in {"add", "star"} => ~wild'[doing[d].sub]
    BY <2>1, <2>2 DEF CallWanted
  <2>4. doing[d].at = "subscribe" => \/ doing[d].sub \in crossed
                                     \/ doing[d].names \subseteq subSymbols'[doing[d].sub]
    BY <2>1, <2>2 DEF CallWanted, Overlap
  <2>5. doing[d].op = "close" => subSymbols'[doing[d].sub] \subseteq doing[d].names
    <3>1. doing[d].op = "close" => doing[c].sub # doing[d].sub
      BY DEF CallSound
    <3> QED
      BY <2>1, <2>2, <3>1 DEF CallWanted
  <2> QED
    BY <1>1, <2>1, <2>3, <2>4, <2>5 DEF CallWanted
<1>3. ASSUME NEW d \in Callers, NEW e \in Callers \ {d} PROVE Overlap(d, e)'
  <2>1. Overlap(d, e)
    BY DEF WantedCalls
  <2> QED
    BY <1>1, <2>1 DEF Overlap
<1> QED
  BY <1>2, <1>3 DEF WantedCalls

\* A step of call c keeps a want if it does not take the symbol away.
LEMMA FirmStays ==
  ASSUME TypeOK, CallSound, NEW c \in Callers, NEW at, NEW then, Steps(c, at, then), at # "none",
         then.sub \in {doing[c].sub, NoSub}, UNCHANGED types,
         NEW t \in Subs, NEW r, Firm(t, r),
         t # doing[c].sub => (t \in live => t \in live') /\ subSymbols'[t] = subSymbols[t],
         t = doing[c].sub /\ t \notin crossed =>
            t \in live' /\ r[3] \in subSymbols'[t] /\ ~(then.at = "drop" /\ r[3] \in then.names)
  PROVE  Firm(t, r)'
<1>1. /\ doing'[c] = then /\ \A d \in Callers \ {c} : doing'[d] = doing[d]
      /\ doing[c].sub \in Subs /\ crossed' = crossed
  BY StepFrame
<1>2. CASE t \in crossed
  BY <1>1, <1>2 DEF Firm
<1>3. CASE t \notin crossed
  <2>1. t \in live' /\ r[3] \in subSymbols'[t]
    BY <1>3 DEF Firm
  <2>2. \A d \in Callers \ {c} : ~Dropping(d, t, r[3])'
    BY <1>1, <1>3 DEF Firm, Dropping
  <2>3. ~Dropping(c, t, r[3])'
    BY <1>1, <1>3, EventSubscriptionAssumption DEF Dropping
  <2> QED
    BY <2>1, <2>2, <2>3 DEF Firm
<1> QED
  BY <1>2, <1>3

LEMMA WantedStep ==
  ASSUME WantedInv, [Next]_vars PROVE WantedInv'
<1>0. /\ DeliveryInv /\ DeliveryInv' /\ TypeOK /\ TypeOK' /\ RegistryAgrees /\ ClosedForgotten
      /\ CallSound /\ CallSound' /\ WildEmpty /\ WantedCalls /\ FirmlyWanted /\ crossed \subseteq created
  BY DeliveryStep DEF WantedInv, DeliveryInv, RegistryInv
<1> USE <1>0, EventSubscriptionAssumption
<1> DEFINE Goal == WildEmpty' /\ crossed' \subseteq created' /\ WantedCalls' /\ FirmlyWanted'
<1> SUFFICES Goal
  BY DEF WantedInv
<1>n. NoCall.at = "none" /\ NoCall.op = "none" /\ NoCall.sub = NoSub /\ ~NoCall.flag
  BY DEF NoCall, Call
<1>1. ASSUME NEW c \in Callers, NEW s \in Subs, NEW ts \in SUBSET EventTypes, NEW flag \in BOOLEAN,
             Create(c, s, ts, flag)
      PROVE  Goal
  <2>1. /\ s \notin live /\ s \notin crossed /\ s \notin created
        /\ wild' = [wild EXCEPT ![s] = flag] /\ types' = [types EXCEPT ![s] = ts]
        /\ live' = live \cup {s} /\ created' = created \cup {s}
        /\ UNCHANGED <<subSymbols, server, doing, crossed>>
    BY <1>1 DEF Create, TypeOK, regVars
  <2>2. subSymbols[s] = {}
    BY <2>1 DEF TypeOK, RegistryAgrees, ClosedForgotten
  <2>3. WildEmpty' /\ crossed' \subseteq created'
    BY <2>1, <2>2 DEF WildEmpty, TypeOK
  <2>4. WantedCalls'
    <3>1. \A d \in Callers : doing[d].op \in {"add", "star"} => doing[d].sub # s /\ doing[d].sub \in Subs
      BY <1>n, <2>1 DEF CallSound, TypeOK
    <3>2. \A d \in Callers : CallWanted(d)'
      BY <2>1, <3>1 DEF WantedCalls, CallWanted, TypeOK
    <3>3. \A d \in Callers : \A e \in Callers \ {d} : Overlap(d, e)'
      BY <2>1 DEF WantedCalls, Overlap
    <3> QED
      BY <3>2, <3>3 DEF WantedCalls
  <2>5. ASSUME NEW t \in Subs, NEW r, Firm(t, r) PROVE Firm(t, r)'
    <3>1. t # s
      BY <2>1, <2>5 DEF Firm
    <3> QED
      BY <2>1, <2>5, <3>1 DEF Firm, Dropping, TypeOK
  <2>6. FirmlyWanted'
    BY <2>1, <2>5 DEF FirmlyWanted
  <2> QED
    BY <2>3, <2>4, <2>6
<1>2. ASSUME NEW c \in Callers, NEW op, NEW s \in Subs, NEW call, Begins(c, op, s, call),
             call.sub = s, call.at # "drop", call.at # "subscribe",
             call.op \in {"add", "star"} => ~wild[s], call.at = "add" => call.op \in {"add", "star"},
             call.flag /\ call.at = "unsubscribe" => call.names = {},
             call.op = "close" => subSymbols[s] \subseteq call.names
      PROVE  Goal
  <2>1. /\ s \in live /\ doing[c] = NoCall /\ \A d \in Callers : doing[d].sub = s => doing[d].op # "close"
        /\ crossed' = IF \E d \in Callers : doing[d].sub = s THEN crossed \cup {s} ELSE crossed
        /\ UNCHANGED <<created, live, types, wild, subSymbols, server>>
    BY <1>2 DEF Begins, Calls, Usable, subVars, regVars
  <2>2. doing'[c] = call /\ \A d \in Callers \ {c} : doing'[d] = doing[d]
    BY <1>2 DEF Begins, TypeOK
  <2>3. WildEmpty' /\ crossed' \subseteq created' /\ crossed \subseteq crossed'
    BY <2>1 DEF WildEmpty, TypeOK
  <2>4. CallWanted(c)'
    BY <1>2, <2>1, <2>2 DEF CallWanted
  <2>5. \A d \in Callers \ {c} : CallWanted(d)'
    BY <2>1, <2>2, <2>3 DEF WantedCalls, CallWanted
  <2>6. ASSUME NEW d \in Callers, NEW e \in Callers \ {d} PROVE Overlap(d, e)'
    <3>1. CASE d # c /\ e # c
      BY <2>2, <2>3, <3>1 DEF WantedCalls, Overlap
    <3>2. CASE d = c
      BY <1>2, <2>1, <2>2, <3>2 DEF Overlap
    <3>3. CASE e = c
      BY <1>2, <2>1, <2>2, <3>3 DEF Overlap
    <3> QED
      BY <3>1, <3>2, <3>3
  <2>7. WantedCalls'
    BY <2>4, <2>5, <2>6 DEF WantedCalls
  <2>8. ASSUME NEW t \in Subs, NEW r, Firm(t, r) PROVE Firm(t, r)'
    BY <1>2, <2>1, <2>2, <2>3, <2>8 DEF Firm, Dropping
  <2>9. FirmlyWanted'
    BY <2>1, <2>8 DEF FirmlyWanted
  <2> QED
    BY <2>3, <2>7, <2>9
<1>3. ASSUME NEW c \in Callers, NEW s \in Subs, NEW names \in SUBSET Names,
             StartAdd(c, s, names) \/ StartRemove(c, s, names) \/ StartClear(c, s) \/ StartClose(c, s)
      PROVE  Goal
  <2>1. wild[s] => subSymbols[s] = {}
    BY DEF WildEmpty
  <2>2. CASE StartAdd(c, s, names)
    <3>1. CASE Wildcard \in names
      <4> DEFINE call == Call("unsubscribe", "star", s, subSymbols[s], FALSE)
      <4>1. Begins(c, "add", s, call) /\ ~wild[s]
        BY <2>2, <3>1 DEF StartAdd
      <4>2. call.sub = s /\ call.at = "unsubscribe" /\ call.op = "star" /\ call.flag = FALSE
        BY DEF Call
      <4> HIDE DEF call
      <4> QED
        BY <1>2, <4>1, <4>2
    <3>2. CASE Wildcard \notin names
      <4> DEFINE call == Call("add", "add", s, names, FALSE)
      <4>1. Begins(c, "add", s, call) /\ ~wild[s]
        BY <2>2, <3>2 DEF StartAdd
      <4>2. call.sub = s /\ call.at = "add" /\ call.op = "add" /\ call.flag = FALSE
        BY DEF Call
      <4> HIDE DEF call
      <4> QED
        BY <1>2, <4>1, <4>2
    <3> QED
      BY <3>1, <3>2
  <2>3. CASE StartRemove(c, s, names)
    <3> DEFINE call == Call("unsubscribe", "remove", s, names, FALSE)
    <3>1. Begins(c, "remove", s, call)
      BY <2>3 DEF StartRemove
    <3>2. call.sub = s /\ call.at = "unsubscribe" /\ call.op = "remove" /\ call.flag = FALSE
      BY DEF Call
    <3> HIDE DEF call
    <3> QED
      BY <1>2, <3>1, <3>2
  <2>4. CASE StartClear(c, s)
    <3> DEFINE call == Call("unsubscribe", "clear", s, subSymbols[s], wild[s])
    <3>1. Begins(c, "clear", s, call)
      BY <2>4 DEF StartClear
    <3>2. /\ call.sub = s /\ call.at = "unsubscribe" /\ call.op = "clear"
          /\ call.names = subSymbols[s] /\ call.flag = wild[s]
      BY DEF Call
    <3> HIDE DEF call
    <3> QED
      BY <1>2, <2>1, <3>1, <3>2
  <2>5. CASE StartClose(c, s)
    <3> DEFINE call == Call("unsubscribe", "close", s, subSymbols[s], wild[s])
    <3>1. Begins(c, "close", s, call)
      BY <2>5 DEF StartClose
    <3>2. /\ call.sub = s /\ call.at = "unsubscribe" /\ call.op = "close"
          /\ call.names = subSymbols[s] /\ call.flag = wild[s]
      BY DEF Call
    <3> HIDE DEF call
    <3> QED
      BY <1>2, <2>1, <3>1, <3>2
  <2> QED
    BY <1>3, <2>2, <2>3, <2>4, <2>5
<1>4. ASSUME NEW c \in Callers, Unsubscribe(c) PROVE Goal
  <2> DEFINE s == doing[c].sub
             names == doing[c].names
             then == [doing[c] EXCEPT !.at = "drop"]
  <2>1. /\ Steps(c, "unsubscribe", then) /\ server' = server \ Request(s, doing[c].flag, names)
        /\ UNCHANGED <<created, live, types, wild, subSymbols>>
    BY <1>4 DEF Unsubscribe, subVars, regVars
  <2>2. /\ then.at = "drop" /\ then.op = doing[c].op /\ then.sub = s /\ then.names = names
        /\ then.flag = doing[c].flag
    BY CallTypeFacts DEF CallType
  <2> HIDE DEF then
  <2>3. /\ doing'[c] = then /\ doing[c].at = "unsubscribe" /\ s \in Subs /\ crossed' = crossed
        /\ CallWanted(c) /\ doing[c].flag \in BOOLEAN
    BY <2>1, StepFrame, CallTypeFacts DEF WantedCalls
  <2>4. CallWanted(c)'
    BY <2>1, <2>2, <2>3 DEF CallWanted
  <2>5. WantedCalls'
    BY <2>1, <2>2, <2>4, OthersWanted
  <2>6. ASSUME NEW r \in server', r[1] = "ticker", NEW t \in Subs, Firm(t, r) PROVE Firm(t, r)'
    <3>1. r \in server /\ r \notin Request(s, doing[c].flag, names) /\ r \in Kinds \X EventTypes \X Names
      BY <2>1, <2>6 DEF TypeOK
    <3>2. r[2] \in types[s] => r[3] \notin names
      <4>1. CASE doing[c].flag
        BY <2>3, <4>1 DEF CallWanted
      <4>2. CASE ~doing[c].flag
        BY <2>6, <3>1, <4>2, InRequest DEF Kind
      <4> QED
        BY <4>1, <4>2
    <3>3. t = s /\ t \notin crossed => t \in live' /\ r[3] \in subSymbols'[t] /\ r[3] \notin then.names
      BY <2>1, <2>2, <2>6, <3>2 DEF Firm
    <3> QED
      BY <2>1, <2>2, <2>6, <3>3, FirmStays
  <2>7. FirmlyWanted'
    BY <2>1, <2>6 DEF FirmlyWanted
  <2> QED
    BY <2>1, <2>3, <2>5, <2>7 DEF WildEmpty
<1>5. ASSUME NEW c \in Callers, DropSymbols(c) PROVE Goal
  <2> DEFINE s == doing[c].sub
             then == CASE doing[c].op = "star" -> Call("add", "star", doing[c].sub, {Wildcard}, TRUE)
                       [] doing[c].op = "clear" /\ doing[c].flag -> [doing[c] EXCEPT !.at = "unflag"]
                       [] OTHER -> NoCall
  <2>1. /\ Steps(c, "drop", then) /\ doing[c].op # "close"
        /\ subSymbols' = [subSymbols EXCEPT ![s] = subSymbols[s] \ doing[c].names]
        /\ UNCHANGED <<created, live, types, wild, server>>
    BY <1>5 DEF DropSymbols, subVars, SetSymbols
  <2>2. /\ then.at \in {"add", "unflag", "none"} /\ then.sub \in {s, NoSub}
        /\ then.op = "star" => doing[c].op = "star"
        /\ then.at = "add" => then.op = "star"
        /\ then.op \in {"star", "clear", "none"} /\ (then.op = "star" => then.sub = s)
    <3>1. CASE doing[c].op = "star"
      BY <3>1 DEF Call
    <3>2. CASE doing[c].op = "clear" /\ doing[c].flag
      BY <3>2, CallTypeFacts DEF CallType
    <3>3. CASE doing[c].op # "star" /\ ~(doing[c].op = "clear" /\ doing[c].flag)
      BY <1>n, <3>3
    <3> QED
      BY <3>1, <3>2, <3>3
  <2> HIDE DEF then
  <2>3. /\ doing'[c] = then /\ doing[c].at = "drop" /\ s \in Subs /\ s \in live /\ crossed' = crossed
        /\ CallWanted(c)
    BY <2>1, StepFrame DEF WantedCalls
  <2>4. CallWanted(c)'
    BY <2>1, <2>2, <2>3 DEF CallWanted
  <2>5. /\ \A t \in Subs \ {s} : subSymbols'[t] = subSymbols[t]
        /\ subSymbols'[s] = subSymbols[s] \ doing[c].names
    BY <2>1, <2>3 DEF TypeOK
  <2>6. WantedCalls'
    BY <2>1, <2>2, <2>4, <2>5, OthersWanted
  <2>7. ASSUME NEW r, NEW t \in Subs, Firm(t, r) PROVE Firm(t, r)'
    <3>1. t = s /\ t \notin crossed => t \in live' /\ r[3] \in subSymbols'[t]
      BY <2>1, <2>3, <2>5, <2>7 DEF Firm, Dropping
    <3> QED
      BY <2>1, <2>2, <2>5, <2>7, <3>1, FirmStays
  <2>8. FirmlyWanted'
    BY <2>1, <2>7 DEF FirmlyWanted
  <2>9. WildEmpty'
    BY <2>1, <2>3, <2>5 DEF WildEmpty
  <2> QED
    BY <2>1, <2>3, <2>6, <2>8, <2>9
<1>6. ASSUME NEW c \in Callers, ResetFlag(c) PROVE Goal
  <2>1. /\ Steps(c, "unflag", NoCall) /\ wild' = [wild EXCEPT ![doing[c].sub] = FALSE]
        /\ UNCHANGED <<created, live, types, subSymbols, server>>
    BY <1>6 DEF ResetFlag, regVars
  <2>2. doing'[c] = NoCall /\ crossed' = crossed /\ doing[c].sub \in Subs /\ doing[c].sub \in live
    BY <2>1, StepFrame
  <2>3. \A t \in Subs : wild'[t] => wild[t]
    BY <2>1 DEF TypeOK
  <2>4. CallWanted(c)'
    BY <1>n, <2>2 DEF CallWanted
  <2>5. WantedCalls'
    BY <1>n, <2>1, <2>3, <2>4, OthersWanted
  <2>6. ASSUME NEW r, NEW t \in Subs, Firm(t, r) PROVE Firm(t, r)'
    <3>1. t = doing[c].sub /\ t \notin crossed => t \in live' /\ r[3] \in subSymbols'[t]
      BY <2>1, <2>2, <2>6 DEF Firm
    <3> QED
      BY <1>n, <2>1, <2>6, <3>1, FirmStays
  <2> QED
    BY <2>1, <2>2, <2>3, <2>5, <2>6 DEF FirmlyWanted, WildEmpty
<1>7. ASSUME NEW c \in Callers, AddToList(c) PROVE Goal
  <2> DEFINE s == doing[c].sub
             then == [doing[c] EXCEPT !.at = "subscribe"]
  <2>1. /\ Steps(c, "add", then) /\ UNCHANGED <<created, live, types, wild, server>>
        /\ subSymbols' = [subSymbols EXCEPT ![s] = subSymbols[s] \cup doing[c].names]
    BY <1>7 DEF AddToList, subVars, SetSymbols
  <2>2. /\ then.at = "subscribe" /\ then.op = doing[c].op /\ then.sub = s /\ then.names = doing[c].names
    BY CallTypeFacts DEF CallType
  <2> HIDE DEF then
  <2>3. /\ doing'[c] = then /\ doing[c].at = "add" /\ s \in Subs /\ s \in live /\ crossed' = crossed
        /\ CallWanted(c)
    BY <2>1, StepFrame DEF WantedCalls
  <2>4. /\ \A t \in Subs \ {s} : subSymbols'[t] = subSymbols[t]
        /\ subSymbols'[s] = subSymbols[s] \cup doing[c].names /\ ~wild[s]
        /\ doing[c].op \in {"add", "star"}
    BY <2>1, <2>3 DEF TypeOK, CallWanted
  <2>5. CallWanted(c)'
    BY <2>1, <2>2, <2>3, <2>4 DEF CallWanted
  <2>6. WantedCalls'
    BY <2>1, <2>2, <2>4, <2>5, OthersWanted
  <2>7. ASSUME NEW r, NEW t \in Subs, Firm(t, r) PROVE Firm(t, r)'
    <3>1. t = s /\ t \notin crossed => t \in live' /\ r[3] \in subSymbols'[t]
      BY <2>1, <2>3, <2>4, <2>7 DEF Firm
    <3> QED
      BY <2>1, <2>2, <2>4, <2>7, <3>1, FirmStays
  <2>8. WildEmpty'
    BY <2>1, <2>3, <2>4 DEF WildEmpty
  <2> QED
    BY <2>1, <2>3, <2>6, <2>7, <2>8 DEF FirmlyWanted
<1>8. ASSUME NEW c \in Callers, Subscribe(c) PROVE Goal
  <2> DEFINE s == doing[c].sub
             names == doing[c].names
  <2>1. /\ Steps(c, "subscribe", NoCall) /\ server' = server \cup Request(s, doing[c].flag, names)
        /\ UNCHANGED <<created, live, types, wild, subSymbols>>
    BY <1>8 DEF Subscribe, subVars, regVars
  <2>2. /\ doing'[c] = NoCall /\ doing[c].at = "subscribe" /\ s \in Subs /\ s \in live
        /\ crossed' = crossed /\ \A d \in Callers \ {c} : doing'[d] = doing[d]
        /\ CallWanted(c) /\ \A d \in Callers \ {c} : Overlap(c, d)
    BY <2>1, StepFrame DEF WantedCalls
  <2>3. CallWanted(c)'
    BY <1>n, <2>2 DEF CallWanted
  <2>4. WantedCalls'
    BY <1>n, <2>1, <2>3, OthersWanted
  <2>5. ASSUME NEW r, NEW t \in Subs, Firm(t, r) PROVE Firm(t, r)'
    <3>1. t = s /\ t \notin crossed => t \in live' /\ r[3] \in subSymbols'[t]
      BY <2>1, <2>2, <2>5 DEF Firm
    <3> QED
      BY <1>n, <2>1, <2>5, <3>1, FirmStays
  <2>6. ASSUME NEW r \in Request(s, doing[c].flag, names), NEW t \in Subs, t = s PROVE Firm(t, r)'
    <3>1. r[2] \in types[t] /\ r[3] \in names
      BY <2>6 DEF Request
    <3>2. t \in crossed \/ r[3] \in subSymbols[t]
      BY <2>2, <2>6, <3>1 DEF CallWanted
    <3>3. t \notin crossed => \A d \in Callers : doing'[d].sub # t
      BY <1>n, <2>2, <2>6 DEF Overlap
    <3> QED
      BY <2>1, <2>2, <2>6, <3>1, <3>2, <3>3 DEF Firm, Dropping
  <2>7. FirmlyWanted'
    <3> SUFFICES ASSUME NEW r \in server', r[1] = "ticker" PROVE \E t \in Subs : Firm(t, r)'
      BY DEF FirmlyWanted
    <3>1. CASE r \in server
      BY <2>5, <3>1 DEF FirmlyWanted
    <3>2. CASE r \notin server
      <4>1. PICK t \in Subs : t = s
        BY <2>2
      <4>2. Firm(t, r)'
        BY <2>1, <2>6, <3>2, <4>1
      <4> QED
        BY <4>2
    <3> QED
      BY <3>1, <3>2
  <2> QED
    BY <2>1, <2>2, <2>4, <2>7 DEF WildEmpty
<1>9. ASSUME NEW c \in Callers, Free(c) PROVE Goal
  <2> DEFINE s == doing[c].sub
  <2>1. /\ Steps(c, "drop", NoCall) /\ doing[c].op = "close" /\ live' = live \ {s}
        /\ subSymbols' = [subSymbols EXCEPT ![s] = {}]
        /\ UNCHANGED <<created, types, wild, server>>
    BY <1>9 DEF Free, SetSymbols
  <2>2. /\ doing'[c] = NoCall /\ doing[c].at = "drop" /\ s \in Subs /\ crossed' = crossed
        /\ CallWanted(c)
    BY <2>1, StepFrame DEF WantedCalls
  <2>3. CallWanted(c)'
    BY <1>n, <2>2 DEF CallWanted
  <2>4. \A t \in Subs \ {s} : subSymbols'[t] = subSymbols[t]
    BY <2>1 DEF TypeOK
  <2>5. WantedCalls'
    BY <1>n, <2>1, <2>3, <2>4, OthersWanted
  <2>6. ASSUME NEW r, NEW t \in Subs, Firm(t, r) PROVE Firm(t, r)'
    <3>1. t = s => t \in crossed
      BY <2>1, <2>2, <2>6 DEF Firm, Dropping, CallWanted
    <3>2. t # s => (t \in live => t \in live') /\ subSymbols'[t] = subSymbols[t]
      BY <2>1, <2>4
    <3> QED
      BY <1>n, <2>1, <2>6, <3>1, <3>2, FirmStays
  <2>7. WildEmpty'
    BY <2>1, <2>2 DEF WildEmpty, TypeOK
  <2> QED
    BY <2>1, <2>2, <2>5, <2>6, <2>7 DEF FirmlyWanted
<1>10. ASSUME Reconnect PROVE Goal
  <2>1. /\ server' = UNION {Request(s, wild[s], subSymbols[s]) : s \in live}
        /\ crossed' = {s \in Subs : \E c \in Callers :
                          doing[c].sub = s /\ (s \in crossed \/ doing[c].at = "drop")}
        /\ UNCHANGED <<created, live, types, subSymbols, wild, doing>>
    BY <1>10 DEF Reconnect, subVars, regVars
  <2>2. crossed' \subseteq created
    <3>1. \A c \in Callers : doing[c].sub \in Subs => doing[c].sub \in created
      BY <1>n DEF CallSound, TypeOK
    <3> QED
      BY <2>1, <3>1
  <2>3. \A c \in Callers : doing[c].sub \in Subs /\ doing[c].sub \in crossed => doing[c].sub \in crossed'
    BY <2>1
  <2>4. ASSUME NEW c \in Callers PROVE CallWanted(c)'
    <3>1. doing[c].at = "subscribe" => doing[c].sub \in Subs
      BY CallTypeFacts
    <3>2. CallWanted(c)
      BY DEF WantedCalls
    <3> QED
      BY <2>1, <2>3, <3>1, <3>2 DEF CallWanted
  <2>5. ASSUME NEW c \in Callers, NEW d \in Callers \ {c} PROVE Overlap(c, d)'
    <3>1. Overlap(c, d)
      BY DEF WantedCalls
    <3> QED
      BY <2>1, <2>3, <3>1 DEF Overlap
  <2>6. WantedCalls'
    BY <2>4, <2>5 DEF WantedCalls
  <2>7. ASSUME NEW r \in server' PROVE \E t \in Subs : Firm(t, r)'
    <3>1. PICK s \in live : r \in Request(s, wild[s], subSymbols[s])
      BY <2>1
    <3>2. r[2] \in types[s] /\ r[3] \in subSymbols[s] /\ s \in Subs
      BY <3>1 DEF Request, TypeOK
    <3>3. s \notin crossed' => \A c \in Callers : ~Dropping(c, s, r[3])
      BY <2>1, <3>2 DEF Dropping
    <3>4. Firm(s, r)'
      BY <2>1, <3>1, <3>2, <3>3 DEF Firm, Dropping
    <3> QED
      BY <3>2, <3>4
  <2> QED
    BY <2>1, <2>2, <2>6, <2>7 DEF FirmlyWanted, WildEmpty
<1>11. ASSUME UNCHANGED <<created, live, types, wild, subSymbols, server, doing, crossed>> PROVE Goal
  <2>1. WantedCalls'
    BY <1>11 DEF WantedCalls, CallWanted, Overlap
  <2>2. FirmlyWanted'
    BY <1>11 DEF FirmlyWanted, Firm, Dropping
  <2> QED
    BY <1>11, <2>1, <2>2 DEF WildEmpty
<1>12. ASSUME NEW c \in Callers, NEW s \in Subs, NEW l \in Listeners, Attach(c, s, l) \/ Detach(c, s, l)
       PROVE  Goal
  BY <1>11, <1>12 DEF Attach, Detach, regVars
<1>13. ASSUME \/ \E s \in Subs : VisitSubscription(s)
              \/ \E n \in Names \ {Wildcard}, e \in EventTypes : BeginEvent(n, e)
              \/ \E l \in Listeners : CallListener(l)
              \/ ListenerReturns \/ LeaveSubscription \/ EndPass \/ UNCHANGED vars
       PROVE  Goal
  BY <1>11, <1>13 DEF VisitSubscription, BeginEvent, CallListener, ListenerReturns, LeaveSubscription,
                      EndPass, vars, subVars, regVars, histVars
<1>14. ASSUME NEW c \in Callers, CallGoesOn(c) PROVE Goal
  BY <1>4, <1>5, <1>6, <1>7, <1>8, <1>9, <1>14 DEF CallGoesOn
<1>15. ASSUME NEW c \in Callers, NEW s \in Subs, CallStarts(c, s) PROVE Goal
  BY <1>1, <1>3, <1>12, <1>15 DEF CallStarts
<1> HIDE DEF Goal
<1> QED
  BY <1>10, <1>13, <1>14, <1>15 DEF Next

\* What calls and a new connection leave at the server as a ticker request,
\* some subscription wants, unless another call or a new connection came
\* between the two steps of a call.
THEOREM ServerOnlyWantedTheorem == Spec => []ServerOnlyWanted
<1>1. Init => WantedInv
  <2>1. Init => WantedCalls
    BY EventSubscriptionAssumption DEF Init, WantedCalls, CallWanted, Overlap, NoCall, Call
  <2> QED
    BY <2>1, DeliveryInit DEF Init, WantedInv, WildEmpty, FirmlyWanted
<1>2. WantedInv /\ [Next]_vars => WantedInv'
  BY WantedStep
<1>3. WantedInv => ServerOnlyWanted
  BY DEF WantedInv, FirmlyWanted, Firm, ServerOnlyWanted
<1> QED
  BY <1>1, <1>2, <1>3, PTL DEF Spec
-----------------------------------------------------------------------------
\* A call's step ends interests or leaves them as they are; a wildcard, once
\* held by a subscription with an interest, stays until the interest ends.
LEMMA OnceCall ==
  ASSUME OnceInv, UNCHANGED <<loopVars, calls>>, NEW p \in entitled, StillInterested(p)',
         Wildcard \in subSymbols[p[1]] => Wildcard \in subSymbols'[p[1]]
  PROVE  Once(p)'
BY DEF OnceInv, Once, CallsSoFar, loopVars

\* Who is still entitled after a step that ends interests still has the
\* interest.
LEMMA InterestsKept ==
  ASSUME OnceInv, UNCHANGED <<loopVars, calls, types>>, Interests, NEW p \in entitled'
  PROVE  Once(p)'
<1>1. p \in entitled /\ Interested(p)
  BY DEF Interests
<1>2. StillInterested(p) /\ UNCHANGED <<evName, evType>>
  BY <1>1 DEF OnceInv, Once, loopVars
<1>3. StillInterested(p)'
  BY <1>1, <1>2 DEF Interested, StillInterested
<1>4. Wildcard \in subSymbols[p[1]] => Wildcard \in subSymbols'[p[1]]
  BY <1>1 DEF Interested
<1> QED
  BY <1>1, <1>3, <1>4, OnceCall

\* Every step keeps OnceInv, whatever listeners call.
LEMMA OnceStep ==
  ASSUME OnceInv, [Next]_vars PROVE OnceInv'
<1>0. DeliveryInv /\ DeliveryInv' /\ TypeOK /\ TypeOK' /\ RegistryAgrees /\ RegistryInv /\ LoopSound
  BY DeliveryStep DEF OnceInv, DeliveryInv, RegistryInv
<1>p. \A p \in Pairs : p = <<p[1], p[2]>> /\ p[1] \in Subs /\ p[2] \in Listeners
  BY DEF Pairs
<1>e. \A p \in entitled : p \in Pairs /\ Once(p) /\ StillInterested(p) /\ p[1] \in live
  BY <1>0 DEF OnceInv, Once, TypeOK, StillInterested
<1> SUFFICES ASSUME NEW p \in entitled' PROVE Once(p)'
  BY <1>0 DEF OnceInv
<1>1. ASSUME NEW c \in Callers, NEW s \in Subs, NEW ts \in SUBSET EventTypes, NEW flag \in BOOLEAN,
             Create(c, s, ts, flag)
      PROVE  Once(p)'
  <2>1. p \in entitled /\ UNCHANGED <<subSymbols, listeners, loopVars, calls>>
    BY <1>1 DEF Create, Calls, regVars
  <2>2. p[1] # s /\ types'[p[1]] = types[p[1]] /\ p[1] \in live'
    BY <1>0, <1>1, <1>e, <2>1 DEF Create, TypeOK
  <2>3. StillInterested(p)'
    BY <1>e, <2>1, <2>2 DEF StillInterested, loopVars
  <2> QED
    BY <2>1, <2>3, OnceCall
<1>2. ASSUME UNCHANGED <<live, types, listeners, subSymbols, entitled, loopVars, calls>> PROVE Once(p)'
  BY <1>2, <1>e DEF Once, StillInterested, CallsSoFar, loopVars
<1>3. ASSUME NEW c \in Callers, NEW s \in Subs, NEW names \in SUBSET Names,
             StartAdd(c, s, names) \/ StartRemove(c, s, names) \/ StartClear(c, s) \/ StartClose(c, s)
      PROVE  Once(p)'
  BY <1>2, <1>3 DEF StartAdd, StartRemove, StartClear, StartClose, Begins, Calls, subVars, regVars
<1>4. ASSUME NEW c \in Callers, Unsubscribe(c) \/ Subscribe(c) \/ ResetFlag(c) PROVE Once(p)'
  BY <1>2, <1>4 DEF Unsubscribe, Subscribe, ResetFlag, Steps, subVars, regVars
<1>5. ASSUME NEW c \in Callers, DropSymbols(c) \/ AddToList(c) \/ Free(c) PROVE Once(p)'
  <2>1. Interests /\ UNCHANGED <<loopVars, calls, types>>
    BY <1>5 DEF DropSymbols, AddToList, Free, Steps, subVars
  <2> QED
    BY <2>1, InterestsKept
<1>7. ASSUME NEW c \in Callers, NEW s \in Subs, NEW l \in Listeners, Attach(c, s, l) PROVE Once(p)'
  <2>1. p \in entitled /\ UNCHANGED <<live, types, subSymbols, loopVars, calls>>
    BY <1>7 DEF Attach, Calls, regVars
  <2>2. listeners[p[1]] \subseteq listeners'[p[1]]
    BY <1>0, <1>7, <1>e, <1>p, <2>1 DEF Attach, TypeOK
  <2>3. StillInterested(p)'
    BY <1>e, <2>1, <2>2 DEF StillInterested, loopVars
  <2> QED
    BY <2>1, <2>3, OnceCall
<1>8. ASSUME NEW c \in Callers, NEW s \in Subs, NEW l \in Listeners, Detach(c, s, l) PROVE Once(p)'
  <2>1. Interests /\ UNCHANGED <<loopVars, calls, types>>
    BY <1>8 DEF Detach, Calls
  <2> QED
    BY <2>1, InterestsKept
<1>9. ASSUME NEW s \in Subs, VisitSubscription(s) PROVE Once(p)'
  <2>1. /\ stage # "idle" /\ cur = NoSub /\ s \in todo /\ todo' = todo \ {s} /\ cur' = s
        /\ ltodo' = IF evType \in types[s] /\ evName \in subSymbols[s] THEN listeners[s] ELSE {}
        /\ p \in entitled
        /\ UNCHANGED <<live, types, listeners, subSymbols, stage, evName, evType, calls>>
    BY <1>9 DEF VisitSubscription, subVars, regVars, histVars
  <2>2. StillInterested(p)'
    BY <1>e, <2>1 DEF StillInterested
  <2>3. ASSUME Wildcard \notin subSymbols[p[1]] PROVE CallsSoFar(p)'
    <3>1. CallsSoFar(p) /\ p[1] \in Subs /\ evName \in subSymbols[p[1]]
      BY <1>e, <1>p, <2>1, <2>3 DEF Once, StillInterested
    <3>2. CASE p[1] = s
      <4>1. stage = "symbol" /\ calls[p] = 0
        BY <2>1, <3>1, <3>2, EventSubscriptionAssumption DEF CallsSoFar
      <4>2. ltodo' = listeners[s] /\ p[2] \in listeners[s]
        BY <1>e, <2>1, <3>1, <3>2 DEF StillInterested
      <4> QED
        BY <2>1, <3>2, <4>1, <4>2 DEF CallsSoFar
    <3>3. CASE p[1] # s
      BY <2>1, <3>1, <3>3, EventSubscriptionAssumption DEF CallsSoFar
    <3> QED
      BY <3>2, <3>3
  <2> QED
    BY <2>1, <2>2, <2>3 DEF Once
<1>10. ASSUME NEW l \in Listeners, CallListener(l) PROVE Once(p)'
  <2>1. /\ cur # NoSub /\ l \in ltodo /\ ltodo' = ltodo \ {l}
        /\ calls' = [calls EXCEPT ![<<cur, l>>] = @ + 1] /\ p \in entitled
        /\ UNCHANGED <<live, types, listeners, subSymbols, stage, evName, evType, todo, cur>>
    BY <1>0, <1>10, EventSubscriptionAssumption DEF CallListener, subVars, regVars, TypeOK
  <2>2. StillInterested(p)'
    BY <1>e, <2>1 DEF StillInterested
  <2>3. ASSUME Wildcard \notin subSymbols[p[1]] PROVE CallsSoFar(p)'
    <3>1. CallsSoFar(p) /\ p \in Pairs /\ p = <<p[1], p[2]>>
      BY <1>e, <1>p, <2>1, <2>3 DEF Once
    <3>2. CASE p = <<cur, l>>
      <4>1. p[1] = cur /\ p[2] = l /\ cur \notin todo
        BY <1>0, <3>2 DEF LoopSound
      <4>2. calls'[p] = calls[p] + 1
        BY <1>0, <2>1, <3>1, <3>2 DEF TypeOK
      <4>3. stage = "symbol" /\ calls[p] = 0
        BY <2>1, <3>1, <4>1 DEF CallsSoFar
      <4> QED
        BY <2>1, <4>1, <4>2, <4>3 DEF CallsSoFar
    <3>3. CASE p # <<cur, l>>
      <4>1. calls'[p] = calls[p] /\ (p[1] = cur => p[2] # l)
        BY <1>0, <2>1, <3>1, <3>3 DEF TypeOK
      <4> QED
        BY <2>1, <3>1, <4>1 DEF CallsSoFar
    <3> QED
      BY <3>2, <3>3
  <2> QED
    BY <2>1, <2>2, <2>3 DEF Once
<1>11. ASSUME LeaveSubscription PROVE Once(p)'
  <2>1. /\ cur # NoSub /\ ltodo = {} /\ cur' = NoSub /\ p \in entitled
        /\ UNCHANGED <<live, types, listeners, subSymbols, stage, evName, evType, todo, ltodo, calls>>
    BY <1>0, <1>11, EventSubscriptionAssumption DEF TypeOK, LeaveSubscription, subVars, regVars, histVars
  <2>2. StillInterested(p)'
    BY <1>e, <2>1 DEF StillInterested
  <2>3. p[1] \in Subs /\ p[1] # NoSub /\ cur \notin todo
    BY <1>0, <1>e, <1>p, <2>1, EventSubscriptionAssumption DEF LoopSound
  <2>4. CallsSoFar(p) => CallsSoFar(p)'
    BY <2>1, <2>3 DEF CallsSoFar
  <2> QED
    BY <1>e, <2>1, <2>2, <2>4 DEF Once
<1>12. ASSUME NEW n \in Names \ {Wildcard}, NEW e \in EventTypes, BeginEvent(n, e) PROVE Once(p)'
  <2>1. /\ stage = "idle" /\ evName' = n /\ evType' = e /\ calls' = [q \in Pairs |-> 0]
        /\ UNCHANGED <<live, types, listeners, subSymbols, cur>>
    BY <1>12 DEF BeginEvent, subVars
  <2>2. /\ p \in Pairs /\ p[1] \in live /\ p[2] \in listeners[p[1]] /\ e \in types[p[1]]
        /\ {n, Wildcard} \cap subSymbols[p[1]] # {}
    BY <1>12 DEF BeginEvent
  <2>3. StillInterested(p)'
    BY <2>1, <2>2 DEF StillInterested
  <2>4. ASSUME Wildcard \notin subSymbols[p[1]] PROVE CallsSoFar(p)'
    <3>1. p[1] \in symSubs[n]
      BY <1>0, <1>p, <2>2, <2>4 DEF RegistryAgrees
    <3>2. Known(n)
      BY <1>0, <2>1, <3>1, KnownIffHeld
    <3>3. stage' = "symbol" /\ todo' = symSubs[n]
      BY <1>12, <3>2 DEF BeginEvent, BeginPass
    <3> QED
      BY <2>1, <2>2, <3>1, <3>3 DEF CallsSoFar
  <2> QED
    BY <2>1, <2>3, <2>4 DEF Once
<1>13. ASSUME EndPass PROVE Once(p)'
  <2>1. /\ stage # "idle" /\ cur = NoSub /\ todo = {} /\ p \in entitled
        /\ todo' = {} \/ (todo' = symSubs[Wildcard] /\ Wildcard \in Names)
        /\ UNCHANGED <<live, types, listeners, subSymbols, symSubs, evName, evType, cur, calls>>
    BY <1>13 DEF EndPass, BeginPass, Known, subVars, histVars
  <2>2. StillInterested(p)'
    BY <1>e, <2>1 DEF StillInterested
  <2>3. ASSUME Wildcard \notin subSymbols[p[1]] PROVE CallsSoFar(p)'
    <3>1. p[1] \in Subs /\ p[1] # NoSub /\ CallsSoFar(p)
      BY <1>e, <1>p, <2>1, <2>3, EventSubscriptionAssumption DEF Once
    <3>2. calls[p] = 1
      BY <2>1, <3>1 DEF CallsSoFar
    <3>3. p[1] \notin todo'
      BY <1>0, <2>1, <2>3, <3>1 DEF RegistryAgrees
    <3> QED
      BY <2>1, <3>1, <3>2, <3>3 DEF CallsSoFar
  <2> QED
    BY <2>1, <2>2, <2>3 DEF Once
<1>14. ASSUME ListenerReturns \/ Reconnect \/ UNCHANGED vars PROVE Once(p)'
  <2>1. /\ p \in entitled
        /\ UNCHANGED <<live, types, listeners, subSymbols, stage, evName, evType, todo, cur, ltodo, calls>>
    BY <1>14 DEF ListenerReturns, Reconnect, vars, subVars, regVars, loopVars, histVars
  <2> QED
    BY <1>e, <2>1 DEF Once, StillInterested, CallsSoFar
<1>15. ASSUME NEW c \in Callers, CallGoesOn(c) PROVE Once(p)'
  BY <1>4, <1>5, <1>15 DEF CallGoesOn
<1>16. ASSUME NEW c \in Callers, NEW s \in Subs, CallStarts(c, s) PROVE Once(p)'
  BY <1>1, <1>3, <1>7, <1>8, <1>16 DEF CallStarts
<1> QED
  BY <1>9, <1>10, <1>11, <1>12, <1>13, <1>14, <1>15, <1>16 DEF Next

\* Every listener whose interest lasts for the whole delivery is called exactly
\* once for an event, for any number of subscriptions and listeners and
\* whatever the listeners call before, at and after its turn.
THEOREM DeliveredOnceTheorem == Spec => []DeliveredOnce
<1>1. Init => OnceInv
  BY DeliveryInit DEF Init, OnceInv
<1>2. OnceInv /\ [Next]_vars => OnceInv'
  BY OnceStep
<1>3. OnceInv => DeliveredOnce
  <2> SUFFICES ASSUME OnceInv, NEW p \in entitled, Wildcard \notin subSymbols[p[1]]
               PROVE  calls[p] <= 1 /\ (stage = "idle" => calls[p] = 1)
    BY DEF DeliveredOnce
  <2>1. CallsSoFar(p)
    BY DEF OnceInv, Once
  <2> QED
    BY <2>1 DEF CallsSoFar
<1> QED
  BY <1>1, <1>2, <1>3, PTL DEF Spec
=============================================================================
