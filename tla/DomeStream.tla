----------------------------- MODULE DomeStream -----------------------------
(***************************************************************************)
(* The Dome WebSocket manager (core/dome/websocket.py): the pump connects, *)
(* subscribes again and reads; callers subscribe and unsubscribe while it  *)
(* does.  A send that meets a full buffer gives way to the other tasks, so *)
(* anything may happen between a frame and the line after it.  The server  *)
(* answers requests in their order, naming a new subscription and not the  *)
(* request; the manager takes the oldest waiting payload for it.           *)
(***************************************************************************)
EXTENDS Naturals, Sequences, SequencesExt, FiniteSets

CONSTANTS
    Payload,       \* subscribe requests, one caller each
    MaxTroubles,   \* bound on broken connections and failed connects
    MaxIds         \* bound on the subscriptions the server names

ASSUME StreamAssumption == MaxTroubles \in Nat /\ MaxIds \in Nat

VARIABLES
    running,     \* self._running
    pump,        \* where the background task is; it has a connection from "resub" to "close"
    resub,       \* what _resubscribe has left of _subscriptions, and how far it is in _pending_subs
    subs,        \* self._subscriptions: id -> payload kept, and (history) the one the id is for
    pending,     \* self._pending_subs
    caller,      \* of subscribe_orders
    leaving,     \* ids whose unsubscribe has been sent
    asked,       \* requests of this connection whose answer has not been read, in order
    ids, troubles,   \* so far
    \* history
    sent,        \* payloads sent on this connection
    tangled      \* something happened that answers in order cannot tell apart
streamVars == <<running, pump, resub, subs, pending, caller, leaving, asked, ids, troubles, sent, tangled>>

Kept == {subs[i].payload : i \in DOMAIN subs} \cup ToSet(pending)

StreamTypeOK ==
    /\ running \in BOOLEAN /\ tangled \in BOOLEAN
    /\ pump \in {"off", "connect", "resub", "stream", "close", "backoff", "ended"}
    /\ resub \in [ids : SUBSET (1..MaxIds), n : Nat, disturbed : BOOLEAN]
    /\ DOMAIN subs \subseteq 1..ids
    /\ \A i \in DOMAIN subs : subs[i] \in [payload : Payload, truly : Payload]
    /\ pending \in Seq(Payload) /\ asked \in Seq(Payload)
    /\ caller \in [Payload -> {"idle", "sending", "done"}]
    /\ leaving \subseteq 1..MaxIds
    /\ ids \in 0..MaxIds /\ troubles \in 0..MaxTroubles
    /\ sent \subseteq Payload

NoResub == [ids |-> {}, n |-> 0, disturbed |-> FALSE]

StreamInit(callers) ==
    /\ running = FALSE /\ pump = "off" /\ resub = NoResub
    /\ subs = << >> /\ pending = <<>>
    /\ caller = [p \in Payload |-> IF p \in callers THEN "idle" ELSE "done"]
    /\ leaving = {} /\ asked = <<>>
    /\ ids = 0 /\ troubles = 0
    /\ sent = {} /\ tangled = FALSE

HasConnection == pump \in {"resub", "stream", "close"}
Open == pump \in {"resub", "stream"}
Senders == {p \in Payload : caller[p] = "sending"}

\* A frame of p goes out on the open connection.
Frame(p) == asked' = Append(asked, p) /\ sent' = sent \cup {p}

-----------------------------------------------------------------------------
(* The pump *)

StreamStart ==
    /\ running' = TRUE /\ pump' = "connect"
    /\ UNCHANGED <<resub, subs, pending, caller, leaving, asked, ids, troubles, sent, tangled>>

\* Callers still at a send on the old connection have been resumed by now.
Connect ==
    /\ pump = "connect" /\ Senders = {} /\ leaving = {}
    /\ pump' = "resub"
    /\ resub' = [ids |-> DOMAIN subs, n |-> 0, disturbed |-> FALSE]
    /\ asked' = <<>> /\ sent' = {}
    /\ UNCHANGED <<running, subs, pending, caller, leaving, ids, troubles, tangled>>

ConnectFails ==
    /\ pump = "connect" /\ troubles < MaxTroubles
    /\ troubles' = troubles + 1
    /\ pump' = "backoff"
    /\ UNCHANGED <<running, resub, subs, pending, caller, leaving, asked, ids, sent, tangled>>

\* A dictionary keeps the order of insertion, here that of the ids.
SendsNext ==
    \E i \in resub.ids :
        /\ \A j \in resub.ids : i <= j
        /\ Frame(subs[i].payload)
        /\ resub' = [resub EXCEPT !.ids = @ \ {i}]

\* _resubscribe goes on: to the next of the confirmed subscriptions (a dict that has changed
\* raises), then through the pending ones, those that are appended meanwhile included.
\* Mutant: only the confirmed ones are sent again.
ResubscribeConfirmed ==
    /\ pump = "resub"
    /\ IF resub.disturbed THEN pump' = "close" /\ UNCHANGED <<resub, asked, sent, tangled>>
       ELSE IF resub.ids # {}
       THEN /\ SendsNext
            /\ tangled' = TRUE
            /\ UNCHANGED pump
       ELSE /\ pump' = "stream" /\ resub' = NoResub /\ UNCHANGED <<asked, sent, tangled>>
    /\ UNCHANGED <<running, subs, pending, caller, leaving, ids, troubles>>
Resubscribe ==
    /\ pump = "resub"
    /\ \/ /\ resub.disturbed
          /\ pump' = "close" /\ UNCHANGED <<resub, asked, sent, tangled>>
       \/ /\ ~resub.disturbed
          /\ SendsNext
          /\ tangled' = TRUE
          /\ UNCHANGED pump
       \/ /\ ~resub.disturbed /\ resub.ids = {} /\ resub.n < Len(pending)
          /\ Frame(pending[resub.n + 1])
          /\ resub' = [resub EXCEPT !.n = @ + 1]
          /\ UNCHANGED <<pump, tangled>>
       \/ /\ ~resub.disturbed /\ resub.ids = {} /\ resub.n = Len(pending)
          /\ pump' = "stream" /\ resub' = NoResub
          /\ UNCHANGED <<asked, sent, tangled>>
    /\ UNCHANGED <<running, subs, pending, caller, leaving, ids, troubles>>

\* The server closes the connection, or it breaks; the pump meets that at its next await.
Break ==
    /\ Open /\ troubles < MaxTroubles
    /\ troubles' = troubles + 1
    /\ pump' = "close" /\ resub' = NoResub
    /\ UNCHANGED <<running, subs, pending, caller, leaving, asked, ids, sent, tangled>>

\* The finally block: _conn is None, and the loop goes on or is done.
Closed ==
    /\ pump = "close"
    /\ pump' = IF running THEN "backoff" ELSE "ended"
    /\ asked' = <<>> /\ sent' = {}
    /\ UNCHANGED <<running, resub, subs, pending, caller, leaving, ids, troubles, tangled>>

Retry ==
    /\ pump = "backoff"
    /\ pump' = IF running THEN "connect" ELSE "ended"
    /\ UNCHANGED <<running, resub, subs, pending, caller, leaving, asked, ids, troubles, sent, tangled>>

\* _handle_system of the server's next answer.
\* Mutant: the newest waiting payload is taken.
ConfirmNewest(id) ==
    IF pending = <<>> THEN UNCHANGED <<subs, pending>>
    ELSE /\ subs' = [i \in DOMAIN subs \cup {id} |->
                       IF i = id THEN [payload |-> Last(pending), truly |-> Head(asked)] ELSE subs[i]]
         /\ pending' = Front(pending)
Confirm(id) ==
    IF pending = <<>> THEN UNCHANGED <<subs, pending>>
    ELSE /\ subs' = [i \in DOMAIN subs \cup {id} |->
                       IF i = id THEN [payload |-> Head(pending), truly |-> Head(asked)] ELSE subs[i]]
         /\ pending' = Tail(pending)

Subscribed ==
    /\ pump = "stream" /\ asked # <<>> /\ ids < MaxIds
    /\ ids' = ids + 1
    /\ Confirm(ids + 1)
    /\ asked' = Tail(asked)
    /\ tangled' = (tangled \/ Head(asked) \notin ToSet(pending))
    /\ UNCHANGED <<running, pump, resub, caller, leaving, troubles, sent>>

\* The server refuses the request: no answer confirms it, and its payload stays waiting.
Refused ==
    /\ pump = "stream" /\ asked # <<>>
    /\ asked' = Tail(asked)
    /\ tangled' = TRUE
    /\ UNCHANGED <<running, pump, resub, subs, pending, caller, leaving, ids, troubles, sent>>

-----------------------------------------------------------------------------
(* Callers *)

\* The pump goes from its connect to the first frame, or to reading, without giving way.
CallersRun == pump = "resub" => sent # {}

\* subscribe_orders up to its send; without a connection the payload only waits for one.
Subscribe(p) ==
    /\ caller[p] = "idle" /\ CallersRun
    /\ \/ /\ Open
          /\ Frame(p)
          /\ caller' = [caller EXCEPT ![p] = "sending"]
          /\ tangled' = (tangled \/ Senders # {} \/ pump = "resub")
          /\ UNCHANGED pending
       \/ /\ ~HasConnection
          /\ pending' = Append(pending, p)
          /\ caller' = [caller EXCEPT ![p] = "done"]
          /\ UNCHANGED <<asked, sent, tangled>>
    /\ UNCHANGED <<running, pump, resub, subs, leaving, ids, troubles>>

\* The send returns and the payload is retained.
Retain(p) ==
    /\ caller[p] = "sending"
    /\ caller' = [caller EXCEPT ![p] = "done"]
    /\ pending' = Append(pending, p)
    /\ UNCHANGED <<running, pump, resub, subs, leaving, asked, ids, troubles, sent, tangled>>

\* The connection has broken: the send raises, and the caller may try again.
SendRaises(p) ==
    /\ caller[p] = "sending" /\ ~Open
    /\ caller' = [caller EXCEPT ![p] = "idle"]
    /\ UNCHANGED <<running, pump, resub, subs, pending, leaving, asked, ids, troubles, sent, tangled>>

Without(id) == [i \in DOMAIN subs \ {id} |-> subs[i]]

\* unsubscribe: the request, then the entry.
Unsubscribe(id) ==
    /\ id \in DOMAIN subs \ leaving /\ CallersRun
    /\ \/ Open /\ leaving' = leaving \cup {id} /\ UNCHANGED subs
       \/ ~HasConnection /\ subs' = Without(id) /\ UNCHANGED leaving
    /\ UNCHANGED <<running, pump, resub, pending, caller, asked, ids, troubles, sent, tangled>>

\* A dictionary that _resubscribe is going through notices.
Forget(id) ==
    /\ id \in leaving
    /\ leaving' = leaving \ {id}
    /\ subs' = Without(id)
    /\ resub' = [resub EXCEPT !.disturbed = @ \/ (pump = "resub" /\ id \in DOMAIN subs /\ resub.n = 0)]
    /\ UNCHANGED <<running, pump, pending, caller, asked, ids, troubles, sent, tangled>>

UnsubscribeRaises(id) ==
    /\ id \in leaving /\ ~Open
    /\ leaving' = leaving \ {id}
    /\ UNCHANGED <<running, pump, resub, subs, pending, caller, asked, ids, troubles, sent, tangled>>

-----------------------------------------------------------------------------
\* Mutant: the task is not cancelled; only a connection is closed.
StopUncancelled ==
    /\ running' = FALSE
    /\ pump' = IF HasConnection THEN "close" ELSE pump
    /\ resub' = NoResub
    /\ UNCHANGED <<subs, pending, caller, leaving, asked, ids, troubles, sent, tangled>>
\* stop up to its first await: an open connection is closed, which ends the pump; without one
\* the task is cancelled at its connect or its sleep.
StreamStop ==
    /\ running' = FALSE
    /\ pump' = CASE HasConnection -> "close" [] pump = "off" -> "off" [] OTHER -> "ended"
    /\ resub' = NoResub
    /\ UNCHANGED <<subs, pending, caller, leaving, asked, ids, troubles, sent, tangled>>

PumpStep == Connect \/ ConnectFails \/ Resubscribe \/ Closed \/ Retry
CallerStep ==
    \/ \E p \in Payload : Retain(p) \/ SendRaises(p)
    \/ \E id \in leaving : Forget(id) \/ UnsubscribeRaises(id)

StreamNext ==
    \/ PumpStep \/ Break \/ Subscribed \/ Refused
    \/ CallerStep
    \/ \E p \in Payload : Subscribe(p)
    \/ \E id \in DOMAIN subs : Unsubscribe(id)

StreamFairness == WF_streamVars(PumpStep) /\ WF_streamVars(CallerStep)
=============================================================================
