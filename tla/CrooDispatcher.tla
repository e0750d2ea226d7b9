--------------------------- MODULE CrooDispatcher ---------------------------
(***************************************************************************)
(* croo_agent/dispatcher.py: a provider that sells its services on the     *)
(* Croo marketplace.  It accepts or rejects negotiations, remembers the    *)
(* validated requirement of an accepted one in memory, and works the order *)
(* when ORDER_PAID arrives.  runtime.py starts it, drains it on SIGTERM    *)
(* and ends it.                                                            *)
(*                                                                         *)
(* An order is named after its negotiation.  All handlers are coroutines   *)
(* of one event loop and interleave at their awaits, each an action here;  *)
(* _pending_lock is never held across an await.  The marketplace, its      *)
(* buyers and the WebSocket are modelled from how the code uses them.      *)
(* dry_run is FALSE: in a dry run SafeDeliver only logs.                   *)
(***************************************************************************)
EXTENDS Naturals, FiniteSets

CONSTANTS
    Negotiation,  \* the negotiations of a behaviour, each opened at most once
    Service,      \* service ids
    Copies,       \* how often an ORDER_PAID event may arrive (a bound)
    MaxStarts     \* how often the provider is started (a bound)

ASSUME CopiesAssumption == Copies \in Nat \ {0}

VARIABLES
    market,      \* market[n]: the negotiation, then its order, at the marketplace
    asked,       \* asked[n]: the service bought, and whether the requirement is valid
    answer,      \* answer[n]: the task whose deliverable the buyer received
    offered,     \* NEGOTIATION_CREATED events under way to the provider
    notices,     \* notices[n]: ORDER_PAID events under way for the order of n
    life,        \* of the provider process
    starts,      \* how often it was started
    serviceMap,  \* _service_map: the service ids this process knows
    handling,    \* handling[n]: _handle_negotiation at its await, or its outcome
    pending,     \* the keys of _pending: orders whose requirement is cached
    task,        \* task[t]: one call of _handle_paid_order, then _run_and_deliver
    awaited      \* the tasks drain() waits for

external == <<market, asked, answer, offered, notices>>
process == <<life, starts, serviceMap, awaited>>
vars == <<external, process, handling, pending, task>>

\* The k-th ORDER_PAID event of n counted from the last; 0 stands for no task.
Task == Negotiation \X (1 .. Copies)

Ordered == {"created", "paid", "delivered", "expired"}
Market == {"none", "open", "rejected", "lapsed"} \cup Ordered
Handling == {"idle", "fetching", "rejecting", "accepting", "cached", "ended", "dead"}

\* Tasks in _inflight, spawned and not finished.
Tracked == {"running", "delivering"}
Unfinished == Tracked \cup {"recovering"}
Stage == Unfinished \cup {"idle", "refused", "done", "failed", "dead"}
Params == {"none", "agreed", "preset"}
Envelope == {"none", "ok", "error"}

TypeOK ==
    /\ market \in [Negotiation -> Market]
    /\ asked \in [Negotiation -> [service : Service, valid : BOOLEAN]]
    /\ answer \in [Negotiation -> 0 .. Copies]
    /\ offered \subseteq Negotiation
    /\ notices \in [Negotiation -> 0 .. Copies]
    /\ life \in {"up", "draining", "drained", "cut", "down"}
    /\ starts \in Nat
    /\ serviceMap \subseteq Service
    /\ handling \in [Negotiation -> Handling]
    /\ pending \subseteq Negotiation
    /\ task \in [Task -> [at : Stage, params : Params, status : Envelope]]
    /\ awaited \subseteq Task

Init ==
    /\ market = [n \in Negotiation |-> "none"]
    /\ asked \in {[n \in Negotiation |-> [service |-> s, valid |-> FALSE]] : s \in Service}
    /\ answer = [n \in Negotiation |-> 0]
    /\ offered = {}
    /\ notices = [n \in Negotiation |-> 0]
    /\ life = "down"
    /\ starts = 0
    /\ serviceMap = {}
    /\ handling = [n \in Negotiation |-> "idle"]
    /\ pending = {}
    /\ task = [t \in Task |-> [at |-> "idle", params |-> "none", status |-> "none"]]
    /\ awaited = {}
-----------------------------------------------------------------------------
\* Buyers and the marketplace.

Negotiate(n, s, v) ==
    /\ market[n] = "none"
    /\ market' = [market EXCEPT ![n] = "open"]
    /\ asked' = [asked EXCEPT ![n] = [service |-> s, valid |-> v]]
    /\ offered' = offered \cup {n}
    /\ UNCHANGED <<answer, notices, process, handling, pending, task>>

\* The buyer pays; the event arrives once or, on a flaky stream, again.
Pay(n) ==
    /\ market[n] = "created"
    /\ market' = [market EXCEPT ![n] = "paid"]
    /\ \E c \in 1 .. Copies : notices' = [notices EXCEPT ![n] = c]
    /\ UNCHANGED <<asked, answer, offered, process, handling, pending, task>>

\* A negotiation nobody took lapses, an order not delivered in time expires.
Lapse(n) ==
    /\ \/ market[n] = "open" /\ market' = [market EXCEPT ![n] = "lapsed"]
       \/ market[n] \in {"created", "paid"} /\ market' = [market EXCEPT ![n] = "expired"]
    /\ UNCHANGED <<asked, answer, offered, notices, process, handling, pending, task>>

\* The stream is open until the drain is over.
Listening == life \in {"up", "draining"}

\* An event for which no listener is connected is gone.
LoseEvent(n) ==
    /\ ~Listening
    /\ \/ n \in offered /\ offered' = offered \ {n} /\ UNCHANGED notices
       \/ notices[n] > 0 /\ notices' = [notices EXCEPT ![n] = @ - 1] /\ UNCHANGED offered
    /\ UNCHANGED <<market, asked, answer, process, handling, pending, task>>
-----------------------------------------------------------------------------
\* _handle_negotiation

Moves(n, to) == handling' = [handling EXCEPT ![n] = to]

\* The event reaches the main loop; an unknown service is rejected at once.
OnNegotiationCreated(n) ==
    /\ Listening /\ n \in offered
    /\ offered' = offered \ {n}
    /\ Moves(n, IF asked[n].service \in serviceMap THEN "fetching" ELSE "rejecting")
    /\ UNCHANGED <<market, asked, answer, notices, process, pending, task>>

\* Mutant: a requirement that fails validation is logged and let through.
GetNegotiationLenient(n) ==
    /\ handling[n] = "fetching"
    /\ Moves(n, "accepting") \/ Moves(n, "rejecting")
    /\ UNCHANGED <<external, process, pending, task>>

\* await get_negotiation, then the binding and capability validations.
GetNegotiation(n) ==
    /\ handling[n] = "fetching"
    /\ \/ asked[n].valid /\ Moves(n, "accepting")
       \/ Moves(n, "rejecting")
    /\ UNCHANGED <<external, process, pending, task>>

\* await reject_negotiation; an exception is logged.
SafeRejectNegotiation(n) ==
    /\ handling[n] = "rejecting"
    /\ Moves(n, "ended")
    /\ market' \in {market, [market EXCEPT ![n] = IF @ = "open" THEN "rejected" ELSE @]}
    /\ UNCHANGED <<asked, answer, offered, notices, process, pending, task>>

\* The marketplace acts on accept_negotiation before the provider hears of it.
AcceptTakesEffect(n) ==
    /\ handling[n] = "accepting" /\ market[n] = "open"
    /\ market' = [market EXCEPT ![n] = "created"]
    /\ UNCHANGED <<asked, answer, offered, notices, process, handling, pending, task>>

\* Mutant: the requirement is cached only for services with a preset.
AcceptReturnsSometimesCaches(n) ==
    /\ handling[n] = "accepting"
    /\ \/ /\ market[n] \in Ordered
          /\ Moves(n, "cached")
          /\ pending' \in {pending, pending \cup {n}}
       \/ Moves(n, "ended") /\ UNCHANGED pending
    /\ UNCHANGED <<external, process, task>>

\* accept_negotiation returns an order id, and the requirement is cached under
\* it; or it raises, or returns no order id, though it may have taken effect.
AcceptReturns(n) ==
    /\ handling[n] = "accepting"
    /\ \/ /\ market[n] \in Ordered
          /\ Moves(n, "cached")
          /\ pending' = pending \cup {n}
       \/ Moves(n, "ended") /\ UNCHANGED pending
    /\ UNCHANGED <<external, process, task>>
-----------------------------------------------------------------------------
\* _handle_paid_order and _run_and_deliver

Runs(t, params) == task' = [task EXCEPT ![t] = [@ EXCEPT !.at = "running", !.params = params]]
Ends(t, at) == task' = [task EXCEPT ![t].at = at]

\* Mutant: the cached requirement is read and stays in the cache.
HandlePaidOrderPeeks(n) ==
    /\ Listening /\ notices[n] > 0
    /\ notices' = [notices EXCEPT ![n] = @ - 1]
    /\ \/ n \in pending /\ Runs(<<n, notices[n]>>, "agreed")
       \/ n \notin pending /\ Ends(<<n, notices[n]>>, "recovering")
    /\ UNCHANGED <<market, asked, answer, offered, process, handling, pending>>

\* The cached requirement is popped and a tracked task is spawned for it, or
\* the handler goes to recover what it can; until then it is not tracked.
HandlePaidOrder(n) ==
    /\ Listening /\ notices[n] > 0
    /\ notices' = [notices EXCEPT ![n] = @ - 1]
    /\ pending' = pending \ {n}
    /\ \/ n \in pending /\ Runs(<<n, notices[n]>>, "agreed")
       \/ n \notin pending /\ Ends(<<n, notices[n]>>, "recovering")
    /\ UNCHANGED <<market, asked, answer, offered, process, handling>>

\* await get_order: the preset parameters of the service, if this process
\* knows it; otherwise the order is refused.
RecoverOrderContext(t) ==
    /\ task[t].at = "recovering"
    /\ \/ asked[t[1]].service \in serviceMap /\ Runs(t, "preset")
       \/ Ends(t, "refused")
    /\ UNCHANGED <<external, process, handling, pending>>

\* Mutant: the handler is awaited without wait_for and may never return.
RunHandlerWithoutTimeout(t) ==
    /\ task[t].at = "running"
    /\ \/ \E s \in {"ok", "error"} :
            task' = [task EXCEPT ![t] = [@ EXCEPT !.at = "delivering", !.status = s]]
       \/ Ends(t, "dead")
    /\ UNCHANGED <<external, process, handling, pending>>

\* The capability handler runs under wait_for.  A result, a failure, an
\* exception and a timeout all become an envelope.
RunHandler(t) ==
    /\ task[t].at = "running"
    /\ \E s \in {"ok", "error"} :
         task' = [task EXCEPT ![t] = [@ EXCEPT !.at = "delivering", !.status = s]]
    /\ UNCHANGED <<external, process, handling, pending>>

\* The marketplace takes a deliverable for a paid order, before the provider
\* hears of it.
DeliverTakesEffect(t) ==
    /\ task[t].at = "delivering" /\ market[t[1]] = "paid"
    /\ market' = [market EXCEPT ![t[1]] = "delivered"]
    /\ answer' = [answer EXCEPT ![t[1]] = t[2]]
    /\ UNCHANGED <<asked, offered, notices, process, handling, pending, task>>

\* deliver_order returns, or raises whether or not it took effect; an exception
\* is logged and nothing is retried.
SafeDeliver(t) ==
    /\ task[t].at = "delivering"
    /\ \/ answer[t[1]] = t[2] /\ Ends(t, "done")
       \/ Ends(t, "failed")
    /\ UNCHANGED <<external, process, handling, pending>>
-----------------------------------------------------------------------------
\* runtime.py

\* run_provider: an empty service map ends the process, so there is one.
Start(known) ==
    /\ life = "down" /\ starts < MaxStarts
    /\ known # {}
    /\ life' = "up"
    /\ starts' = starts + 1
    /\ serviceMap' = known
    /\ UNCHANGED <<external, handling, pending, task, awaited>>

\* SIGTERM: drain() takes the tasks in _inflight at this moment.
Shutdown ==
    /\ life = "up"
    /\ life' = "draining"
    /\ awaited' = {t \in Task : task[t].at \in Tracked}
    /\ UNCHANGED <<external, starts, serviceMap, handling, pending, task>>

Finished == \A t \in awaited : task[t].at \notin Unfinished

\* Mutant: drain() looks at _inflight and does not gather.
DrainReturnsEarly ==
    /\ life = "draining"
    /\ life' = "drained"
    /\ UNCHANGED <<external, starts, serviceMap, awaited, handling, pending, task>>

DrainReturns ==
    /\ life = "draining" /\ Finished
    /\ life' = "drained"
    /\ UNCHANGED <<external, starts, serviceMap, awaited, handling, pending, task>>

\* wait_for gives up after 30 seconds and cancels what it gathered.
DrainTimesOut ==
    /\ life = "draining" /\ ~Finished
    /\ life' = "cut"
    /\ task' = [t \in Task |-> IF t \in awaited /\ task[t].at \in Unfinished
                               THEN [task[t] EXCEPT !.at = "dead"] ELSE task[t]]
    /\ UNCHANGED <<external, starts, serviceMap, awaited, handling, pending>>

\* The process is gone, with every handler and everything in memory.
Killed ==
    /\ life' = "down"
    /\ pending' = {}
    /\ serviceMap' = {}
    /\ awaited' = {}
    /\ handling' = [n \in Negotiation |->
         IF handling[n] \in {"fetching", "rejecting", "accepting"} \/ n \in pending
         THEN "dead" ELSE handling[n]]
    /\ task' = [t \in Task |-> IF task[t].at \in Unfinished
                               THEN [task[t] EXCEPT !.at = "dead"] ELSE task[t]]
    /\ UNCHANGED <<external, starts>>

Exit == life \in {"drained", "cut"} /\ Killed

Crash == life # "down" /\ Killed

Handlers ==
    \/ \E n \in Negotiation :
         \/ OnNegotiationCreated(n) \/ GetNegotiation(n) \/ SafeRejectNegotiation(n)
         \/ AcceptReturns(n) \/ HandlePaidOrder(n)
    \/ \E t \in Task : RecoverOrderContext(t) \/ RunHandler(t) \/ SafeDeliver(t)

Next ==
    \/ \E n \in Negotiation, s \in Service, v \in BOOLEAN : Negotiate(n, s, v)
    \/ \E n \in Negotiation : Pay(n) \/ Lapse(n) \/ LoseEvent(n) \/ AcceptTakesEffect(n)
    \/ \E t \in Task : DeliverTakesEffect(t)
    \/ Handlers
    \/ \E known \in SUBSET Service : Start(known)
    \/ Shutdown \/ DrainReturns \/ DrainTimesOut \/ Exit \/ Crash

Spec == Init /\ [][Next]_vars

\* The event loop runs what is ready and the HTTP calls of the SDK end.  Only
\* wait_for makes a capability handler end.
Fairness ==
    /\ \A n \in Negotiation :
         /\ WF_vars(OnNegotiationCreated(n)) /\ WF_vars(HandlePaidOrder(n))
         /\ WF_vars(GetNegotiation(n)) /\ WF_vars(SafeRejectNegotiation(n))
         /\ WF_vars(AcceptReturns(n))
    /\ \A t \in Task :
         WF_vars(RecoverOrderContext(t)) /\ WF_vars(RunHandler(t)) /\ WF_vars(SafeDeliver(t))

FairSpec == Spec /\ Fairness
-----------------------------------------------------------------------------
\* Buyers only ever owe or pay for a requirement that passed validation: an
\* order exists for it, although the requirement is forgotten on a restart.
OrdersAreValidated == \A n \in Negotiation : market[n] \in Ordered => asked[n].valid

\* An order is worked without the buyer's requirement only when the provider
\* could not have it: the process that accepted is gone, the answer to accept
\* was lost, the payment overtook it, or another event had popped it.
DegradedHasCause ==
    \A t \in Task : task[t].params = "preset" =>
        \/ handling[t[1]] \in {"dead", "ended", "accepting"}
        \/ t[1] \in pending
        \/ \E u \in Task : u[1] = t[1] /\ task[u].params = "agreed"

\* A second ORDER_PAID never runs the buyer's requirement again (the quota of
\* the analysis service is spent once).
AgreedRunsOnce ==
    \A t, u \in Task : /\ task[t].params = "agreed" /\ task[u].params = "agreed"
                       /\ t[1] = u[1]
                       => t = u

\* What drain() waits for has been offered to the marketplace when it returns.
DrainedTasksFinished ==
    life = "drained" => \A t \in awaited : task[t].at \in {"done", "failed"}

\* While the provider is up, a payment it was told of is worked to an end.
PaymentIsWorked ==
    \A n \in Negotiation : notices[n] > 0 /\ life = "up" ~>
        \/ life # "up"
        \/ \E t \in Task : t[1] = n /\ task[t].at \in {"done", "failed", "refused"}

\* The runs that had the requirement of the buyer, and what the buyer received.
Taken(n) == {k \in 1 .. Copies : task[<<n, k>>].params = "agreed"}
Received(n) ==
    LET t == <<n, answer[n]>>
    IN  IF answer[n] = 0 THEN [by |-> 0, from |-> "none", status |-> "none"]
        ELSE [by |-> answer[n], from |-> task[t].params, status |-> task[t].status]

Sale == INSTANCE SaleLedger WITH
    Deal <- Negotiation, Wish <- [service : Service, valid : BOOLEAN], Worker <- 1 .. Copies,
    deal <- market, wish <- asked,
    taken <- [n \in Negotiation |-> Taken(n)], received <- [n \in Negotiation |-> Received(n)]

\* The provider keeps the promises of SaleLedger: through restarts, repeated payment events and
\* lost answers a requirement is taken up once at most, and what the buyer received is what one
\* run made of it, or of the preset, and never changes afterwards.
KeepsSale == Sale!SaleSpec
-----------------------------------------------------------------------------
\* What the documentation says and the code does not do.

\* dispatcher.py: "the buyer always gets some response after paying".  When the
\* requirement was at hand and its handler is done, the order is not left paid.
PaidOrderIsAnswered ==
    \A t \in Task : task[t].params = "agreed" /\ task[t].at = "failed" =>
        market[t[1]] # "paid"

=============================================================================
