----------------------- MODULE CrooDispatcherProofs -----------------------
(***************************************************************************)
(* Proofs about CrooDispatcher for every set of negotiations and services, *)
(* every number of event copies and every number of restarts.              *)
(***************************************************************************)
EXTENDS CrooDispatcher, TLAPS

\* A task names its negotiation and the copy of the event it works.
LEMMA TaskParts ==
    /\ \A t \in Task : t[1] \in Negotiation /\ t[2] \in 1 .. Copies
    /\ \A n \in Negotiation, k \in 1 .. Copies :
         <<n, k>> \in Task /\ <<n, k>>[1] = n /\ <<n, k>>[2] = k
BY DEF Task

\* A payment event under way names a task.
LEMMA NoticeIsTask ==
    ASSUME TypeOK, NEW n \in Negotiation, notices[n] > 0
    PROVE  /\ <<n, notices[n]>> \in Task /\ notices[n] \in 1 .. Copies
           /\ <<n, notices[n]>>[1] = n /\ <<n, notices[n]>>[2] = notices[n]
BY TaskParts, CopiesAssumption DEF TypeOK

\* Init establishes the types.
LEMMA InitTypeOK == Init => TypeOK
<1> SUFFICES ASSUME Init PROVE TypeOK
  OBVIOUS
<1>1. asked \in [Negotiation -> [service : Service, valid : BOOLEAN]]
  <2>1. PICK s \in Service : asked = [n \in Negotiation |-> [service |-> s, valid |-> FALSE]]
    BY DEF Init
  <2>2. QED
    BY <2>1
<1>2. task \in [Task -> [at : Stage, params : Params, status : Envelope]]
  BY DEF Init, Stage, Params, Envelope
<1>3. QED
  BY <1>1, <1>2, CopiesAssumption DEF Init, TypeOK, Market, Handling

\* The steps that write task keep its type.
LEMMA TaskTypes ==
    ASSUME TypeOK, NEW t \in Task, NEW to \in Stage, NEW params \in Params,
           NEW s \in Envelope
    PROVE  /\ Runs(t, params) => task' \in [Task -> [at : Stage, params : Params, status : Envelope]]
           /\ Ends(t, to) => task' \in [Task -> [at : Stage, params : Params, status : Envelope]]
           /\ task' = [task EXCEPT ![t] = [@ EXCEPT !.at = "delivering", !.status = s]]
                => task' \in [Task -> [at : Stage, params : Params, status : Envelope]]
<1>1. task \in [Task -> [at : Stage, params : Params, status : Envelope]]
  BY DEF TypeOK
<1>2. {"running", "delivering"} \subseteq Stage
  BY DEF Stage, Unfinished, Tracked
<1>3. /\ [[task[t] EXCEPT !.at = "running"] EXCEPT !.params = params]
             \in [at : Stage, params : Params, status : Envelope]
      /\ [task[t] EXCEPT !.at = to] \in [at : Stage, params : Params, status : Envelope]
      /\ [[task[t] EXCEPT !.at = "delivering"] EXCEPT !.status = s]
             \in [at : Stage, params : Params, status : Envelope]
  BY <1>1, <1>2
<1>4. QED
  BY <1>1, <1>3 DEF Runs, Ends

\* Every step preserves the types.
LEMMA NextTypeOK == TypeOK /\ [Next]_vars => TypeOK'
<1> SUFFICES ASSUME TypeOK, [Next]_vars PROVE TypeOK'
  OBVIOUS
<1> USE DEF external, process
<1>1. ASSUME NEW n \in Negotiation, NEW s \in Service, NEW v \in BOOLEAN, Negotiate(n, s, v)
      PROVE  TypeOK'
  BY <1>1 DEF Negotiate, TypeOK, Market
<1>2. ASSUME NEW n \in Negotiation, Pay(n) \/ Lapse(n) \/ LoseEvent(n) \/ AcceptTakesEffect(n)
      PROVE  TypeOK'
  <2>1. CASE Pay(n)
    BY <2>1, CopiesAssumption DEF Pay, TypeOK, Market, Ordered
  <2>2. CASE Lapse(n)
    BY <2>2 DEF Lapse, TypeOK, Market, Ordered
  <2>3. CASE LoseEvent(n)
    BY <2>3, CopiesAssumption DEF LoseEvent, TypeOK
  <2>4. CASE AcceptTakesEffect(n)
    BY <2>4 DEF AcceptTakesEffect, TypeOK, Market, Ordered
  <2>5. QED
    BY <1>2, <2>1, <2>2, <2>3, <2>4
<1>3. ASSUME NEW n \in Negotiation,
             \/ OnNegotiationCreated(n) \/ GetNegotiation(n)
             \/ SafeRejectNegotiation(n) \/ AcceptReturns(n)
      PROVE  TypeOK'
  BY <1>3 DEF OnNegotiationCreated, GetNegotiation, SafeRejectNegotiation,
              AcceptReturns, Moves, TypeOK, Handling, Market, Ordered
<1>4. ASSUME NEW n \in Negotiation, HandlePaidOrder(n)
      PROVE  TypeOK'
  <2>1. notices[n] \in 1 .. Copies /\ <<n, notices[n]>> \in Task
    BY <1>4, NoticeIsTask DEF HandlePaidOrder
  <2>2. notices' \in [Negotiation -> 0 .. Copies]
    BY <1>4, <2>1, CopiesAssumption DEF HandlePaidOrder, TypeOK
  <2>3. task' \in [Task -> [at : Stage, params : Params, status : Envelope]]
    <3>1. "agreed" \in Params /\ "recovering" \in Stage /\ "none" \in Envelope
      BY DEF Params, Stage, Unfinished, Envelope
    <3>2. QED
      BY <1>4, <2>1, <3>1, TaskTypes DEF HandlePaidOrder
  <2>4. QED
    BY <1>4, <2>2, <2>3 DEF HandlePaidOrder, TypeOK
<1>5. ASSUME NEW t \in Task, RecoverOrderContext(t) \/ RunHandler(t) \/ SafeDeliver(t)
      PROVE  TypeOK'
  <2>1. /\ "preset" \in Params /\ {"refused", "done", "failed"} \subseteq Stage
        /\ {"ok", "error", "none"} \subseteq Envelope
    BY DEF Params, Stage, Envelope
  <2>2. task' \in [Task -> [at : Stage, params : Params, status : Envelope]]
    BY <1>5, <2>1, TaskTypes DEF RecoverOrderContext, RunHandler, SafeDeliver
  <2>3. QED
    BY <1>5, <2>2 DEF RecoverOrderContext, RunHandler, SafeDeliver, TypeOK
<1>6. ASSUME NEW t \in Task, DeliverTakesEffect(t)
      PROVE  TypeOK'
  BY <1>6, TaskParts, CopiesAssumption DEF DeliverTakesEffect, TypeOK, Market, Ordered
<1>7. ASSUME NEW known \in SUBSET Service, Start(known)
      PROVE  TypeOK'
  BY <1>7 DEF Start, TypeOK
<1>8. CASE Shutdown \/ DrainReturns
  BY <1>8 DEF Shutdown, DrainReturns, TypeOK
<1>9. CASE DrainTimesOut
  BY <1>9 DEF DrainTimesOut, TypeOK, Stage
<1>10. CASE Exit \/ Crash
  BY <1>10 DEF Exit, Crash, Killed, TypeOK, Stage, Handling
<1>11. CASE UNCHANGED vars
  BY <1>11 DEF vars, TypeOK
<1>12. QED
  BY <1>1, <1>2, <1>3, <1>4, <1>5, <1>6, <1>7, <1>8, <1>9, <1>10, <1>11 DEF Next, Handlers

\* The state of the dispatcher always has the types TypeOK gives it.
THEOREM TypeCorrect == Spec => []TypeOK
BY InitTypeOK, NextTypeOK, PTL DEF Spec
-----------------------------------------------------------------------------
\* States of an order that was paid for, and a task that worked the requirement
\* of the buyer.
Worked == {"paid", "delivered", "expired"}
Agreed(n) == \E t \in Task : t[1] = n /\ task[t].params = "agreed"

\* A negotiation is handled once and only after it was opened; its order exists
\* once accept_negotiation was called for a valid requirement.
Handled(n) ==
    /\ n \in offered => handling[n] = "idle" /\ market[n] \notin Ordered
    /\ n \in offered \/ handling[n] # "idle" => market[n] # "none"
    /\ handling[n] = "accepting" => asked[n].valid
    /\ market[n] \in Ordered =>
         asked[n].valid /\ handling[n] \in {"accepting", "cached", "ended", "dead"}

\* The requirement is cached once, then popped for one task.
Cached(n) ==
    /\ handling[n] \in {"idle", "fetching", "rejecting", "accepting"} =>
         n \notin pending /\ ~Agreed(n)
    /\ n \in pending => ~Agreed(n)
    /\ handling[n] = "cached" => n \in pending \/ Agreed(n)

\* A task starts with its event, after the payment, and has parameters only
\* once it runs.
Started(t) ==
    /\ task[t].at \in {"idle", "recovering"} => task[t].params = "none"
    /\ t[2] <= notices[t[1]] => task[t].at = "idle" /\ market[t[1]] \in Worked
    /\ task[t].at # "idle" => market[t[1]] \in Worked

\* What drain() waits for was in _inflight; it has ended when drain() returns.
Awaited(t) ==
    t \in awaited =>
        /\ life = "draining" => task[t].at \in Tracked \cup {"done", "failed"}
        /\ life = "drained" => task[t].at \in {"done", "failed"}

\* A task that runs has parameters, and one that has run has an envelope.
Fruitful(t) ==
    /\ task[t].at \in {"running", "delivering", "done", "failed"} => task[t].params \in {"agreed", "preset"}
    /\ task[t].at \in {"delivering", "done", "failed"} => task[t].status \in {"ok", "error"}

\* The stages of a task whose handler is over.
Over == {"delivering", "done", "failed", "dead"}

\* The task that answered has nothing left to run.
Answered(n) ==
    answer[n] # 0 => market[n] = "delivered" /\ task[<<n, answer[n]>>].at \in Over

IInv ==
    /\ TypeOK
    /\ AgreedRunsOnce
    /\ \A n \in Negotiation : Handled(n) /\ Cached(n) /\ Answered(n)
    /\ \A t \in Task : Started(t) /\ Awaited(t) /\ Fruitful(t)

\* What the steps that write task do to its fields.
LEMMA RunsEffects ==
    ASSUME TypeOK, NEW t \in Task, NEW params, Runs(t, params), NEW u \in Task
    PROVE  /\ task'[u].at = IF u = t THEN "running" ELSE task[u].at
           /\ task'[u].params = IF u = t THEN params ELSE task[u].params
<1>1. task[t] \in [at : Stage, params : Params, status : Envelope]
  BY DEF TypeOK
<1>2. QED
  BY <1>1 DEF Runs, TypeOK

LEMMA EndsEffects ==
    ASSUME TypeOK, NEW t \in Task, NEW to, Ends(t, to), NEW u \in Task
    PROVE  /\ task'[u].at = IF u = t THEN to ELSE task[u].at
           /\ task'[u].params = task[u].params
<1>1. task[t] \in [at : Stage, params : Params, status : Envelope]
  BY DEF TypeOK
<1>2. QED
  BY <1>1 DEF Ends, TypeOK

LEMMA RunHandlerEffects ==
    ASSUME TypeOK, NEW t \in Task, RunHandler(t), NEW u \in Task
    PROVE  /\ task'[u].at = IF u = t THEN "delivering" ELSE task[u].at
           /\ task'[u].params = task[u].params
<1>1. task[t] \in [at : Stage, params : Params, status : Envelope]
  BY DEF TypeOK
<1>2. PICK s \in {"ok", "error"} :
        task' = [task EXCEPT ![t] = [@ EXCEPT !.at = "delivering", !.status = s]]
  BY DEF RunHandler
<1>3. QED
  BY <1>1, <1>2 DEF TypeOK

\* What a kill and the end of a timed-out drain do to the tasks.
LEMMA TaskDeaths ==
    ASSUME TypeOK, NEW u \in Task, Exit \/ Crash \/ DrainTimesOut
    PROVE  /\ task'[u].at = task[u].at \/ (task[u].at \in Unfinished /\ task'[u].at = "dead")
           /\ task'[u].params = task[u].params
<1>1. task \in [Task -> [at : Stage, params : Params, status : Envelope]]
  BY DEF TypeOK
<1>2. task[u] \in [at : Stage, params : Params, status : Envelope]
  BY <1>1
<1>3. \/ task'[u] = task[u]
      \/ task[u].at \in Unfinished /\ task'[u] = [task[u] EXCEPT !.at = "dead"]
  BY DEF Exit, Crash, Killed, DrainTimesOut
<1>4. QED
  BY <1>2, <1>3

\* Init establishes the invariant.
LEMMA InitIInv == Init => IInv
<1> SUFFICES ASSUME Init PROVE IInv
  OBVIOUS
<1>1. \A t \in Task : task[t].at = "idle" /\ task[t].params = "none"
  BY DEF Init
<1>2. \A n \in Negotiation : Handled(n) /\ Cached(n)
  BY <1>1 DEF Init, Handled, Cached, Agreed, Ordered
<1>3. \A t \in Task : Started(t) /\ Awaited(t)
  <2> TAKE t \in Task
  <2>1. t[1] \in Negotiation /\ t[2] \in 1 .. Copies /\ notices[t[1]] = 0
    BY TaskParts DEF Init
  <2>2. ~(t[2] <= notices[t[1]])
    BY <2>1, CopiesAssumption
  <2>3. QED
    BY <1>1, <2>2 DEF Init, Started, Awaited
<1>4. (\A n \in Negotiation : Answered(n)) /\ \A t \in Task : Fruitful(t)
  BY <1>1 DEF Init, Answered, Fruitful
<1>5. QED
  BY <1>1, <1>2, <1>3, <1>4, InitTypeOK DEF IInv, AgreedRunsOnce

\* The handling of a negotiation follows the negotiation.
LEMMA NextHandled ==
    ASSUME IInv, [Next]_vars, NEW n \in Negotiation
    PROVE  Handled(n)'
<1> USE DEF external, process
<1> TypeOK /\ Handled(n) /\ Cached(n)
  BY DEF IInv
<1>1. ASSUME NEW m \in Negotiation, NEW s \in Service, NEW v \in BOOLEAN, Negotiate(m, s, v)
      PROVE  Handled(n)'
  BY <1>1 DEF Negotiate, Handled, TypeOK, Ordered, Handling
<1>2. ASSUME NEW m \in Negotiation, Pay(m) \/ Lapse(m) \/ LoseEvent(m)
      PROVE  Handled(n)'
  BY <1>2 DEF Pay, Lapse, LoseEvent, Handled, TypeOK, Ordered
<1>3. ASSUME NEW m \in Negotiation, AcceptTakesEffect(m)
      PROVE  Handled(n)'
  BY <1>3 DEF AcceptTakesEffect, Handled, TypeOK, Ordered
<1>4. ASSUME NEW m \in Negotiation,
             \/ OnNegotiationCreated(m) \/ GetNegotiation(m)
             \/ SafeRejectNegotiation(m) \/ AcceptReturns(m)
      PROVE  Handled(n)'
  BY <1>4 DEF OnNegotiationCreated, GetNegotiation, SafeRejectNegotiation,
              AcceptReturns, Moves, Handled, TypeOK, Ordered
<1>5. ASSUME NEW t \in Task, DeliverTakesEffect(t)
      PROVE  Handled(n)'
  BY <1>5, TaskParts DEF DeliverTakesEffect, Handled, TypeOK, Ordered
<1>6. CASE \/ \E m \in Negotiation : HandlePaidOrder(m)
           \/ \E t \in Task : RecoverOrderContext(t) \/ RunHandler(t) \/ SafeDeliver(t)
           \/ \E known \in SUBSET Service : Start(known)
           \/ Shutdown \/ DrainReturns \/ DrainTimesOut
           \/ UNCHANGED vars
  <2>1. UNCHANGED <<market, asked, offered, handling>>
    BY <1>6 DEF HandlePaidOrder, RecoverOrderContext, RunHandler, SafeDeliver, Start,
                Shutdown, DrainReturns, DrainTimesOut, vars
  <2>2. QED
    BY <2>1 DEF Handled
<1>7. CASE Exit \/ Crash
  <2>1. /\ UNCHANGED <<market, asked, offered>>
        /\ handling'[n] = IF handling[n] \in {"fetching", "rejecting", "accepting"} \/ n \in pending
                          THEN "dead" ELSE handling[n]
    BY <1>7 DEF Exit, Crash, Killed
  <2>2. QED
    BY <2>1 DEF Handled, Cached
<1>8. QED
  BY <1>1, <1>2, <1>3, <1>4, <1>5, <1>6, <1>7 DEF Next, Handlers

\* A task that runs the requirement of n runs it after a step only if it did
\* before, or the step popped the requirement.
LEMMA NextAgreed ==
    ASSUME IInv, [Next]_vars, NEW t \in Task
    PROVE  (task'[t].params = "agreed") <=>
             \/ task[t].params = "agreed"
             \/ \E n \in Negotiation : /\ HandlePaidOrder(n) /\ n \in pending
                                       /\ t = <<n, notices[n]>>
<1> USE DEF external, process
<1> TypeOK /\ Started(t)
  BY DEF IInv
<1>1. ASSUME NEW n \in Negotiation, HandlePaidOrder(n)
      PROVE  /\ (task'[t].params = "agreed") <=>
                   \/ task[t].params = "agreed"
                   \/ n \in pending /\ t = <<n, notices[n]>>
             /\ \A m \in Negotiation : HandlePaidOrder(m) => m = n
  <2>1. <<n, notices[n]>> \in Task
    BY <1>1, NoticeIsTask DEF HandlePaidOrder
  <2>2. /\ n \in pending => Runs(<<n, notices[n]>>, "agreed")
        /\ n \notin pending => Ends(<<n, notices[n]>>, "recovering")
    BY <1>1 DEF HandlePaidOrder
  <2>3. \A m \in Negotiation : HandlePaidOrder(m) => m = n
    <3>1. ASSUME NEW m \in Negotiation, HandlePaidOrder(m), m # n PROVE FALSE
      <4>1. notices'[m] = notices[m] - 1 /\ notices[m] \in Nat
        BY <3>1, CopiesAssumption DEF HandlePaidOrder, TypeOK
      <4>2. notices'[m] = notices[m]
        BY <1>1, <3>1 DEF HandlePaidOrder, TypeOK
      <4>3. QED
        BY <4>1, <4>2
    <3>2. QED
      BY <3>1
  <2>4. CASE n \in pending
    <3>1. task'[t].params = IF t = <<n, notices[n]>> THEN "agreed" ELSE task[t].params
      BY <2>1, <2>2, <2>4, RunsEffects
    <3>2. QED
      BY <2>3, <2>4, <3>1
  <2>5. CASE n \notin pending
    <3>1. task'[t].params = task[t].params
      BY <2>1, <2>2, <2>5, EndsEffects
    <3>2. QED
      BY <2>3, <2>5, <3>1
  <2>6. QED
    BY <2>4, <2>5
<1>2. CASE \A n \in Negotiation : ~HandlePaidOrder(n)
  <2>1. ASSUME NEW u \in Task, RecoverOrderContext(u)
        PROVE  (task'[t].params = "agreed") <=> (task[t].params = "agreed")
    <3>1. task[u].params # "agreed"
      BY <2>1 DEF RecoverOrderContext, IInv, Started
    <3>2. Runs(u, "preset") \/ Ends(u, "refused")
      BY <2>1 DEF RecoverOrderContext
    <3>3. CASE Runs(u, "preset")
      <4>1. task'[t].params = IF t = u THEN "preset" ELSE task[t].params
        BY <3>3, RunsEffects
      <4>2. QED
        BY <3>1, <4>1
    <3>4. CASE Ends(u, "refused")
      <4>1. task'[t].params = task[t].params
        BY <3>4, EndsEffects
      <4>2. QED
        BY <4>1
    <3>5. QED
      BY <3>2, <3>3, <3>4
  <2>2. ASSUME NEW u \in Task, RunHandler(u) \/ SafeDeliver(u)
        PROVE  task'[t].params = task[t].params
    <3>1. CASE RunHandler(u)
      BY <3>1, RunHandlerEffects
    <3>2. CASE SafeDeliver(u)
      <4>1. Ends(u, "done") \/ Ends(u, "failed")
        BY <3>2 DEF SafeDeliver
      <4>2. QED
        BY <4>1, EndsEffects
    <3>3. QED
      BY <2>2, <3>1, <3>2
  <2>3. CASE Exit \/ Crash \/ DrainTimesOut
    BY <2>3, TaskDeaths, <1>2
  <2>4. CASE task' = task
    BY <2>4, <1>2
  <2>5. task' = task \/ Exit \/ Crash \/ DrainTimesOut
          \/ \E u \in Task : RecoverOrderContext(u) \/ RunHandler(u) \/ SafeDeliver(u)
    BY <1>2 DEF Next, Handlers, Negotiate, Pay, Lapse, LoseEvent, AcceptTakesEffect,
                DeliverTakesEffect, OnNegotiationCreated, GetNegotiation,
                SafeRejectNegotiation, AcceptReturns, Start, Shutdown, DrainReturns, vars
  <2>6. QED
    BY <1>2, <2>1, <2>2, <2>3, <2>4, <2>5
<1>3. QED
  BY <1>1, <1>2

\* A requirement that is cached, or may still be cached, has not been worked.
LEMMA NextCached ==
    ASSUME IInv, [Next]_vars, NEW n \in Negotiation
    PROVE  Cached(n)'
<1> USE DEF external, process
<1>0. TypeOK /\ Handled(n) /\ Cached(n)
  BY DEF IInv
<1>1. ASSUME NEW m \in Negotiation, HandlePaidOrder(m)
      PROVE  Cached(n)'
  <2>1. /\ <<m, notices[m]>> \in Task /\ <<m, notices[m]>>[1] = m
        /\ pending' = pending \ {m} /\ handling' = handling
    BY <1>0, <1>1, NoticeIsTask DEF HandlePaidOrder
  <2>2. CASE m \in pending
    <3>1. Runs(<<m, notices[m]>>, "agreed")
      BY <1>1, <2>2 DEF HandlePaidOrder
    <3>2. \A t \in Task :
            task'[t].params = IF t = <<m, notices[m]>> THEN "agreed" ELSE task[t].params
      BY <1>0, <2>1, <3>1, RunsEffects
    <3>3. CASE n = m
      <4>1. Agreed(n)'
        BY <2>1, <3>2, <3>3 DEF Agreed
      <4>2. QED
        BY <1>0, <2>1, <2>2, <3>3, <4>1 DEF Cached
    <3>4. CASE n # m
      <4>1. Agreed(n)' <=> Agreed(n)
        BY <2>1, <3>2, <3>4 DEF Agreed
      <4>2. QED
        BY <1>0, <2>1, <3>4, <4>1 DEF Cached
    <3>5. QED
      BY <3>3, <3>4
  <2>3. CASE m \notin pending
    <3>1. Ends(<<m, notices[m]>>, "recovering")
      BY <1>1, <2>3 DEF HandlePaidOrder
    <3>2. \A t \in Task : task'[t].params = task[t].params
      BY <1>0, <2>1, <3>1, EndsEffects
    <3>3. (Agreed(n)' <=> Agreed(n)) /\ pending' = pending
      BY <2>1, <2>3, <3>2 DEF Agreed
    <3>4. QED
      BY <1>0, <2>1, <3>3 DEF Cached
  <2>4. QED
    BY <2>2, <2>3
<1>2. CASE \A m \in Negotiation : ~HandlePaidOrder(m)
  <2>1. Agreed(n)' <=> Agreed(n)
    BY <1>2, NextAgreed DEF Agreed
  <2>2. ASSUME NEW m \in Negotiation,
               \/ OnNegotiationCreated(m) \/ GetNegotiation(m) \/ SafeRejectNegotiation(m)
        PROVE  Cached(n)'
    BY <1>0, <2>1, <2>2 DEF OnNegotiationCreated, GetNegotiation, SafeRejectNegotiation,
                            Moves, Handled, Cached, TypeOK
  <2>3. ASSUME NEW m \in Negotiation, AcceptReturns(m)
        PROVE  Cached(n)'
    BY <1>0, <2>1, <2>3 DEF AcceptReturns, Moves, Cached, TypeOK
  <2>4. CASE Exit \/ Crash
    <3>1. /\ pending' = {}
          /\ handling'[n] = IF handling[n] \in {"fetching", "rejecting", "accepting"} \/ n \in pending
                            THEN "dead" ELSE handling[n]
      BY <2>4 DEF Exit, Crash, Killed
    <3>2. QED
      BY <1>0, <2>1, <3>1 DEF Cached
  <2>5. CASE UNCHANGED <<handling, pending>>
    BY <1>0, <2>1, <2>5 DEF Cached
  <2>6. \/ UNCHANGED <<handling, pending>>
        \/ Exit \/ Crash
        \/ \E m \in Negotiation : \/ OnNegotiationCreated(m) \/ GetNegotiation(m)
                                  \/ SafeRejectNegotiation(m) \/ AcceptReturns(m)
    BY <1>2 DEF Next, Handlers, Negotiate, Pay, Lapse, LoseEvent, AcceptTakesEffect,
                DeliverTakesEffect, RecoverOrderContext, RunHandler, SafeDeliver, Start,
                Shutdown, DrainReturns, DrainTimesOut, vars
  <2>7. QED
    BY <2>2, <2>3, <2>4, <2>5, <2>6
<1>3. QED
  BY <1>1, <1>2

\* A second task with the requirement of the same buyer never appears.
LEMMA NextRunsOnce == IInv /\ [Next]_vars => AgreedRunsOnce'
<1> SUFFICES ASSUME IInv, [Next]_vars,
                    NEW t \in Task, NEW u \in Task,
                    task'[t].params = "agreed", task'[u].params = "agreed", t[1] = u[1]
             PROVE  t = u
  BY DEF AgreedRunsOnce
<1>1. CASE task[t].params = "agreed" /\ task[u].params = "agreed"
  BY <1>1 DEF IInv, AgreedRunsOnce
<1>2. ASSUME NEW n \in Negotiation, HandlePaidOrder(n), n \in pending
      PROVE  t = u
  <2>1. /\ <<n, notices[n]>> \in Task /\ <<n, notices[n]>>[1] = n
        /\ Runs(<<n, notices[n]>>, "agreed")
    BY <1>2, NoticeIsTask DEF HandlePaidOrder, IInv
  <2>2. \A v \in Task :
          task'[v].params = IF v = <<n, notices[n]>> THEN "agreed" ELSE task[v].params
    BY <2>1, RunsEffects DEF IInv
  <2>3. \A v \in Task : v[1] = n => task[v].params # "agreed"
    BY <1>2 DEF IInv, Cached, Agreed
  <2>4. QED
    BY <1>1, <2>1, <2>2, <2>3
<1>3. QED
  BY <1>1, <1>2, NextAgreed

\* A task starts with its event, after the payment.
LEMMA NextStarted ==
    ASSUME IInv, [Next]_vars, NEW t \in Task
    PROVE  Started(t)'
<1> USE DEF external, process
<1> DEFINE n == t[1]
<1>0. /\ TypeOK /\ Started(t)
      /\ n \in Negotiation /\ t[2] \in 1 .. Copies /\ notices[n] \in 0 .. Copies
  BY TaskParts DEF IInv, TypeOK
<1>1. CASE UNCHANGED task
  <2>1. ASSUME NEW m \in Negotiation, NEW s \in Service, NEW v \in BOOLEAN, Negotiate(m, s, v)
        PROVE  Started(t)'
    BY <1>0, <1>1, <2>1 DEF Negotiate, Started, TypeOK, Worked
  <2>2. ASSUME NEW m \in Negotiation, Pay(m) \/ Lapse(m)
        PROVE  Started(t)'
    BY <1>0, <1>1, <2>2 DEF Pay, Lapse, Started, TypeOK, Worked
  <2>3. ASSUME NEW m \in Negotiation, LoseEvent(m)
        PROVE  Started(t)'
    <3>1. /\ market' = market /\ notices'[n] \in {notices[n], notices[n] - 1}
      BY <1>0, <2>3 DEF LoseEvent, TypeOK
    <3>2. t[2] <= notices'[n] => t[2] <= notices[n]
      BY <1>0, <3>1, CopiesAssumption
    <3>3. QED
      BY <1>0, <1>1, <3>1, <3>2 DEF Started
  <2>4. ASSUME NEW m \in Negotiation, AcceptTakesEffect(m)
        PROVE  Started(t)'
    BY <1>0, <1>1, <2>4 DEF AcceptTakesEffect, Started, TypeOK, Worked
  <2>5. ASSUME NEW u \in Task, DeliverTakesEffect(u)
        PROVE  Started(t)'
    BY <1>0, <1>1, <2>5, TaskParts DEF DeliverTakesEffect, Started, TypeOK, Worked
  <2>6. ASSUME NEW m \in Negotiation, SafeRejectNegotiation(m)
        PROVE  Started(t)'
    BY <1>0, <1>1, <2>6 DEF SafeRejectNegotiation, Started, TypeOK, Worked
  <2>7. CASE UNCHANGED <<market, notices>>
    BY <1>0, <1>1, <2>7 DEF Started
  <2>8. ASSUME NEW m \in Negotiation, HandlePaidOrder(m)
        PROVE  FALSE
    <3>1. <<m, notices[m]>> \in Task /\ <<m, notices[m]>>[1] = m /\ <<m, notices[m]>>[2] = notices[m]
      BY <1>0, <2>8, NoticeIsTask DEF HandlePaidOrder
    <3>2. task[<<m, notices[m]>>].at = "idle"
      <4>1. notices[m] <= notices[m]
        BY <2>8, CopiesAssumption DEF HandlePaidOrder, IInv, TypeOK
      <4>2. QED
        BY <3>1, <4>1 DEF IInv, Started
    <3>3. Runs(<<m, notices[m]>>, "agreed") \/ Ends(<<m, notices[m]>>, "recovering")
      BY <2>8 DEF HandlePaidOrder
    <3>4. task'[<<m, notices[m]>>].at \in {"running", "recovering"}
      BY <1>0, <3>1, <3>3, RunsEffects, EndsEffects
    <3>5. QED
      BY <1>1, <3>2, <3>4
  <2>9. QED
    BY <1>1, <2>1, <2>2, <2>3, <2>4, <2>5, <2>6, <2>7, <2>8
       DEF Next, Handlers, OnNegotiationCreated, GetNegotiation, AcceptReturns,
           RecoverOrderContext, RunHandler, SafeDeliver, Start, Shutdown, DrainReturns,
           DrainTimesOut, Exit, Crash, Killed, vars
<1>2. ASSUME NEW m \in Negotiation, HandlePaidOrder(m)
      PROVE  Started(t)'
  <2> DEFINE new == <<m, notices[m]>>
  <2>1. /\ new \in Task /\ new[1] = m /\ new[2] = notices[m] /\ notices[m] \in 1 .. Copies
        /\ market' = market
        /\ notices' = [notices EXCEPT ![m] = @ - 1]
    BY <1>0, <1>2, NoticeIsTask DEF HandlePaidOrder
  <2>2. Runs(new, "agreed") \/ Ends(new, "recovering")
    BY <1>2 DEF HandlePaidOrder
  <2>3. Started(new)
    BY <2>1 DEF IInv
  <2>4. task[new].at = "idle" /\ task[new].params = "none" /\ market[m] \in Worked
    <3>1. new[2] <= notices[new[1]]
      BY <2>1, CopiesAssumption
    <3>2. QED
      BY <2>1, <2>3, <3>1 DEF Started
  <2>5. t[2] <= notices'[n] => t[2] <= notices[n] /\ t # new
    BY <1>0, <2>1, CopiesAssumption DEF TypeOK
  <2>6. /\ task'[t].at = IF t = new THEN task'[new].at ELSE task[t].at
        /\ task'[t].params = IF t = new THEN task'[new].params ELSE task[t].params
        /\ \/ task'[new].at = "running"
           \/ task'[new].at = "recovering" /\ task'[new].params = "none"
    BY <1>0, <2>1, <2>2, <2>4, RunsEffects, EndsEffects
  <2>7. CASE t = new
    BY <2>1, <2>4, <2>5, <2>6, <2>7 DEF Started
  <2>8. CASE t # new
    BY <1>0, <2>1, <2>5, <2>6, <2>8 DEF Started
  <2>9. QED
    BY <2>7, <2>8
<1>3. ASSUME NEW u \in Task, RecoverOrderContext(u) \/ RunHandler(u) \/ SafeDeliver(u)
      PROVE  Started(t)'
  <2>1. /\ UNCHANGED <<market, notices>>
        /\ task[u].at \notin {"idle"}
    BY <1>3 DEF RecoverOrderContext, RunHandler, SafeDeliver
  <2>2. \/ RunHandler(u) \/ Runs(u, "preset")
        \/ Ends(u, "refused") \/ Ends(u, "done") \/ Ends(u, "failed")
    BY <1>3 DEF RecoverOrderContext, SafeDeliver
  <2>3. IF t = u THEN task'[t].at \notin {"idle", "recovering"}
                 ELSE task'[t].at = task[t].at /\ task'[t].params = task[t].params
    BY <1>0, <2>2, RunHandlerEffects, RunsEffects, EndsEffects
  <2>4. QED
    BY <1>0, <2>1, <2>3 DEF Started
<1>4. CASE Exit \/ Crash \/ DrainTimesOut
  <2>1. UNCHANGED <<market, notices>>
    BY <1>4 DEF Exit, Crash, Killed, DrainTimesOut
  <2>2. /\ task'[t].at = task[t].at \/ (task[t].at \in Unfinished /\ task'[t].at = "dead")
        /\ task'[t].params = task[t].params
    BY <1>0, <1>4, TaskDeaths
  <2>3. QED
    BY <1>0, <2>1, <2>2 DEF Started, Unfinished, Tracked
<1>5. QED
  BY <1>1, <1>2, <1>3, <1>4
     DEF Next, Handlers, Negotiate, Pay, Lapse, LoseEvent, AcceptTakesEffect,
         DeliverTakesEffect, OnNegotiationCreated, GetNegotiation, SafeRejectNegotiation,
         AcceptReturns, Start, Shutdown, DrainReturns, vars

\* What drain() waits for goes on, and has ended when drain() returns.
LEMMA NextAwaited ==
    ASSUME IInv, [Next]_vars, NEW t \in Task
    PROVE  Awaited(t)'
<1> USE DEF external, process
<1>0. TypeOK /\ Awaited(t)
  BY DEF IInv
<1>1. CASE UNCHANGED task
  <2>1. CASE UNCHANGED <<life, awaited>>
    BY <1>0, <1>1, <2>1 DEF Awaited
  <2>2. ASSUME NEW known \in SUBSET Service, Start(known)
        PROVE  Awaited(t)'
    BY <2>2 DEF Start, Awaited
  <2>3. CASE Shutdown
    BY <1>1, <2>3 DEF Shutdown, Awaited
  <2>4. CASE DrainReturns
    BY <1>0, <1>1, <2>4 DEF DrainReturns, Finished, Awaited, Unfinished
  <2>5. CASE DrainTimesOut \/ Exit \/ Crash
    BY <2>5 DEF DrainTimesOut, Exit, Crash, Killed, Awaited
  <2>6. QED
    BY <2>1, <2>2, <2>3, <2>4, <2>5
       DEF Next, Handlers, Negotiate, Pay, Lapse, LoseEvent, AcceptTakesEffect,
           DeliverTakesEffect, OnNegotiationCreated, GetNegotiation, SafeRejectNegotiation,
           AcceptReturns, HandlePaidOrder, RecoverOrderContext, RunHandler, SafeDeliver, vars
<1>2. ASSUME NEW m \in Negotiation, HandlePaidOrder(m)
      PROVE  Awaited(t)'
  <2> DEFINE new == <<m, notices[m]>>
  <2>1. new \in Task /\ new[1] = m /\ new[2] = notices[m] /\ notices[m] \in 1 .. Copies
    BY <1>0, <1>2, NoticeIsTask DEF HandlePaidOrder
  <2>2. task[new].at = "idle"
    <3>1. Started(new) /\ new[2] <= notices[new[1]]
      BY <2>1, CopiesAssumption DEF IInv
    <3>2. QED
      BY <3>1 DEF Started
  <2>3. Runs(new, "agreed") \/ Ends(new, "recovering")
    BY <1>2 DEF HandlePaidOrder
  <2>4. t # new => task'[t].at = task[t].at
    BY <1>0, <2>1, <2>3, RunsEffects, EndsEffects
  <2>5. UNCHANGED <<life, awaited>> /\ Listening
    BY <1>2 DEF HandlePaidOrder
  <2>6. QED
    BY <1>0, <2>2, <2>4, <2>5 DEF Awaited, Listening, Tracked
<1>3. ASSUME NEW u \in Task, RecoverOrderContext(u) \/ RunHandler(u) \/ SafeDeliver(u)
      PROVE  Awaited(t)'
  <2>1. UNCHANGED <<life, awaited>>
    BY <1>3 DEF RecoverOrderContext, RunHandler, SafeDeliver
  <2>2. task[u].at \in {"recovering", "running", "delivering"}
    BY <1>3 DEF RecoverOrderContext, RunHandler, SafeDeliver
  <2>3. CASE RecoverOrderContext(u)
    <3>1. task[u].at = "recovering" /\ (Runs(u, "preset") \/ Ends(u, "refused"))
      BY <2>3 DEF RecoverOrderContext
    <3>2. t # u => task'[t].at = task[t].at
      BY <1>0, <3>1, RunsEffects, EndsEffects
    <3>3. QED
      BY <1>0, <2>1, <3>1, <3>2 DEF Awaited, Tracked
  <2>4. CASE RunHandler(u)
    <3>1. task'[t].at = IF t = u THEN "delivering" ELSE task[t].at
      BY <1>0, <2>4, RunHandlerEffects
    <3>2. QED
      BY <1>0, <2>1, <2>4, <3>1 DEF Awaited, Tracked, RunHandler
  <2>5. CASE SafeDeliver(u)
    <3>1. task[u].at = "delivering" /\ (Ends(u, "done") \/ Ends(u, "failed"))
      BY <2>5 DEF SafeDeliver
    <3>2. IF t = u THEN task'[t].at \in {"done", "failed"} ELSE task'[t].at = task[t].at
      BY <1>0, <3>1, EndsEffects
    <3>3. QED
      BY <1>0, <2>1, <3>1, <3>2 DEF Awaited, Tracked
  <2>6. QED
    BY <1>3, <2>3, <2>4, <2>5
<1>4. CASE Exit \/ Crash \/ DrainTimesOut
  BY <1>4 DEF Exit, Crash, Killed, DrainTimesOut, Awaited
<1>5. QED
  BY <1>1, <1>2, <1>3, <1>4
     DEF Next, Handlers, Negotiate, Pay, Lapse, LoseEvent, AcceptTakesEffect,
         DeliverTakesEffect, OnNegotiationCreated, GetNegotiation, SafeRejectNegotiation,
         AcceptReturns, Start, Shutdown, DrainReturns, vars
-----------------------------------------------------------------------------
\* What a step does to the parameters and the envelope of a task: a task whose
\* handler is over keeps both, and one that runs has what it needs.
TaskMoves(t) ==
    \/ task'[t] = task[t]
    \/ /\ task[t].at = "idle" /\ task'[t].at \in {"running", "recovering"}
       /\ task'[t].at = "running" => task'[t].params = "agreed"
    \/ /\ task[t].at = "recovering" /\ task'[t].at \in {"running", "refused"}
       /\ task'[t].at = "running" => task'[t].params = "preset"
    \/ /\ task[t].at = "running" /\ task'[t].at = "delivering"
       /\ task'[t].params = task[t].params /\ task'[t].status \in {"ok", "error"}
    \/ /\ task[t].at = "delivering" /\ task'[t].at \in {"done", "failed"}
       /\ task'[t].params = task[t].params /\ task'[t].status = task[t].status
    \/ /\ task[t].at \in Unfinished /\ task'[t].at = "dead"
       /\ task'[t].params = task[t].params /\ task'[t].status = task[t].status

LEMMA NextMoves ==
    ASSUME IInv, [Next]_vars, NEW t \in Task
    PROVE  TaskMoves(t)
<1>0. TypeOK /\ task \in [Task -> [at : Stage, params : Params, status : Envelope]]
      /\ task[t] \in [at : Stage, params : Params, status : Envelope]
  BY DEF IInv, TypeOK
<1>1. ASSUME NEW n \in Negotiation, HandlePaidOrder(n) PROVE TaskMoves(t)
  <2> DEFINE new == <<n, notices[n]>>
  <2>1. new \in Task /\ new[1] = n /\ new[2] = notices[n] /\ notices[n] \in 1 .. Copies
    BY <1>0, <1>1, NoticeIsTask DEF HandlePaidOrder
  <2>2. task[new].at = "idle"
    <3>1. Started(new) /\ new[2] <= notices[new[1]]
      BY <2>1, CopiesAssumption DEF IInv
    <3>2. QED
      BY <3>1 DEF Started
  <2> HIDE DEF new
  <2>3. Runs(new, "agreed") \/ Ends(new, "recovering")
    BY <1>1 DEF HandlePaidOrder, new
  <2>4. CASE t = new
    BY <1>0, <2>1, <2>2, <2>3, <2>4 DEF Runs, Ends, TaskMoves
  <2>5. CASE t # new
    BY <1>0, <2>1, <2>3, <2>5 DEF Runs, Ends, TaskMoves
  <2>6. QED
    BY <2>4, <2>5
<1>2. ASSUME NEW u \in Task, RecoverOrderContext(u) PROVE TaskMoves(t)
  <2>1. task[u].at = "recovering" /\ (Runs(u, "preset") \/ Ends(u, "refused"))
    BY <1>2 DEF RecoverOrderContext
  <2>2. QED
    BY <1>0, <2>1 DEF Runs, Ends, TaskMoves
<1>3. ASSUME NEW u \in Task, RunHandler(u) PROVE TaskMoves(t)
  BY <1>0, <1>3 DEF RunHandler, TaskMoves
<1>4. ASSUME NEW u \in Task, SafeDeliver(u) PROVE TaskMoves(t)
  <2>1. task[u].at = "delivering" /\ (Ends(u, "done") \/ Ends(u, "failed"))
    BY <1>4 DEF SafeDeliver
  <2>2. QED
    BY <1>0, <2>1 DEF Ends, TaskMoves
<1>5. CASE Exit \/ Crash \/ DrainTimesOut
  <2>1. \/ task'[t] = task[t]
        \/ task[t].at \in Unfinished /\ task'[t] = [task[t] EXCEPT !.at = "dead"]
    BY <1>0, <1>5 DEF Exit, Crash, Killed, DrainTimesOut
  <2>2. QED
    BY <1>0, <2>1 DEF TaskMoves
<1>6. CASE UNCHANGED task
  BY <1>6 DEF TaskMoves
<1>7. QED
  BY <1>1, <1>2, <1>3, <1>4, <1>5, <1>6
     DEF Next, Handlers, Negotiate, Pay, Lapse, LoseEvent, AcceptTakesEffect,
         DeliverTakesEffect, OnNegotiationCreated, GetNegotiation, SafeRejectNegotiation,
         AcceptReturns, Start, Shutdown, DrainReturns, vars

\* A task that runs has parameters, and one that has run an envelope.
LEMMA NextFruitful ==
    ASSUME IInv, [Next]_vars, NEW t \in Task
    PROVE  Fruitful(t)'
<1>1. Fruitful(t) /\ TaskMoves(t)
  BY NextMoves DEF IInv
<1>2. QED
  BY <1>1 DEF Fruitful, TaskMoves

\* A task whose handler is over has its parameters and its envelope for good.
LEMMA OverIsFinal ==
    ASSUME IInv, [Next]_vars, NEW t \in Task, task[t].at \in Over
    PROVE  /\ task'[t].at \in Over
           /\ task'[t].params = task[t].params /\ task'[t].status = task[t].status
BY NextMoves DEF TaskMoves, Over

\* An order that was delivered stays so, and one is answered as it is delivered.
LEMMA DeliveredStays ==
    ASSUME IInv, [Next]_vars, NEW n \in Negotiation
    PROVE  /\ market[n] = "delivered" => market'[n] = "delivered"
           /\ \/ answer'[n] = answer[n]
              \/ \E t \in Task : DeliverTakesEffect(t) /\ t[1] = n /\ answer'[n] = t[2]
<1> USE DEF external, process
<1>0. market \in [Negotiation -> Market] /\ answer \in [Negotiation -> 0 .. Copies]
  BY DEF IInv, TypeOK
<1>1. ASSUME NEW m \in Negotiation, NEW s \in Service, NEW v \in BOOLEAN, Negotiate(m, s, v)
      PROVE  answer' = answer /\ (market[n] = "delivered" => market'[n] = "delivered")
  BY <1>0, <1>1 DEF Negotiate
<1>2. ASSUME NEW m \in Negotiation, Pay(m) \/ Lapse(m) \/ AcceptTakesEffect(m) \/ SafeRejectNegotiation(m)
      PROVE  answer' = answer /\ (market[n] = "delivered" => market'[n] = "delivered")
  BY <1>0, <1>2 DEF Pay, Lapse, AcceptTakesEffect, SafeRejectNegotiation
<1>3. ASSUME NEW t \in Task, DeliverTakesEffect(t)
      PROVE  /\ market[n] = "delivered" => market'[n] = "delivered"
             /\ answer'[n] = answer[n] \/ (t[1] = n /\ answer'[n] = t[2])
  BY <1>0, <1>3, TaskParts DEF DeliverTakesEffect
<1>4. CASE UNCHANGED <<market, answer>>
  BY <1>4
<1>5. QED
  BY <1>1, <1>2, <1>3, <1>4
     DEF Next, Handlers, LoseEvent, OnNegotiationCreated, GetNegotiation, AcceptReturns, HandlePaidOrder,
         RecoverOrderContext, RunHandler, SafeDeliver, Start, Shutdown, DrainReturns, DrainTimesOut,
         Exit, Crash, Killed, vars

\* The task that answered has nothing left to run.
LEMMA NextAnswered ==
    ASSUME IInv, [Next]_vars, NEW n \in Negotiation
    PROVE  Answered(n)'
<1>1. Answered(n) /\ answer[n] \in 0 .. Copies /\ Copies \in Nat
  BY CopiesAssumption DEF IInv, TypeOK
<1>2. CASE answer'[n] = answer[n]
  <2>1. SUFFICES ASSUME answer[n] # 0
                 PROVE  market'[n] = "delivered" /\ task'[<<n, answer[n]>>].at \in Over
    BY <1>2 DEF Answered
  <2>2. <<n, answer[n]>> \in Task /\ market[n] = "delivered" /\ task[<<n, answer[n]>>].at \in Over
    BY <1>1, <2>1, TaskParts DEF Answered
  <2>3. QED
    BY <2>2, OverIsFinal, DeliveredStays
<1>3. ASSUME NEW t \in Task, DeliverTakesEffect(t), t[1] = n, answer'[n] = t[2]
      PROVE  Answered(n)'
  <2>1. t = <<n, t[2]>> /\ task[t].at = "delivering" /\ task' = task /\ market' = [market EXCEPT ![n] = "delivered"]
    BY <1>3 DEF DeliverTakesEffect, Task
  <2>2. market'[n] = "delivered"
    BY <2>1 DEF IInv, TypeOK
  <2>3. QED
    BY <1>3, <2>1, <2>2 DEF Answered, Over
<1>4. QED
  BY <1>2, <1>3, DeliveredStays
-----------------------------------------------------------------------------
(* CrooDispatcher implements SaleLedger: the order at the marketplace is   *)
(* the deal, the tasks with the buyer's requirement are the runs that took *)
(* the wish, and the deliverable is what the run that answered made.       *)

LEMMA InitSale == Init => Sale!SaleInit
<1> SUFFICES ASSUME Init PROVE Sale!SaleInit
  OBVIOUS
<1>1. asked \in [Negotiation -> [service : Service, valid : BOOLEAN]]
  BY InitTypeOK DEF TypeOK
<1>2. \A n \in Negotiation : Taken(n) = {}
  BY TaskParts DEF Init, Taken
<1>3. \A n \in Negotiation : Received(n) = Sale!Nothing
  BY DEF Init, Received, Sale!Nothing
<1>4. QED
  BY <1>1, <1>2, <1>3 DEF Init, Sale!SaleInit

\* A requirement is taken up when it is popped from the cache, and at no other time.
LEMMA NextTaken ==
    ASSUME IInv, [Next]_vars, NEW n \in Negotiation
    PROVE  \/ HandlePaidOrder(n) /\ n \in pending /\ Taken(n)' = {notices[n]}
           \/ Taken(n)' = Taken(n) /\ ~(HandlePaidOrder(n) /\ n \in pending)
<1>1. \A k \in 1 .. Copies : <<n, k>> \in Task /\ <<n, k>>[1] = n /\ <<n, k>>[2] = k
  BY TaskParts
<1>2. \A k \in 1 .. Copies :
        (task'[<<n, k>>].params = "agreed") <=>
            \/ task[<<n, k>>].params = "agreed"
            \/ \E m \in Negotiation : HandlePaidOrder(m) /\ m \in pending /\ <<n, k>> = <<m, notices[m]>>
  BY <1>1, NextAgreed
<1>3. \A k \in 1 .. Copies :
        (task'[<<n, k>>].params = "agreed") <=>
            \/ task[<<n, k>>].params = "agreed"
            \/ HandlePaidOrder(n) /\ n \in pending /\ k = notices[n]
  BY <1>2
<1>4. CASE HandlePaidOrder(n) /\ n \in pending
  <2>1. notices[n] \in 1 .. Copies
    BY <1>4, NoticeIsTask DEF HandlePaidOrder, IInv
  <2>2. \A k \in 1 .. Copies : task[<<n, k>>].params # "agreed"
    BY <1>1, <1>4 DEF IInv, Cached, Agreed
  <2>3. QED
    BY <1>3, <1>4, <2>1, <2>2 DEF Taken
<1>5. CASE ~(HandlePaidOrder(n) /\ n \in pending)
  BY <1>3, <1>5 DEF Taken
<1>6. QED
  BY <1>4, <1>5

\* What was received is final; it comes with the answer.
LEMMA NextReceived ==
    ASSUME IInv, [Next]_vars, NEW n \in Negotiation
    PROVE  \/ Received(n)' = Received(n)
           \/ \E t \in Task : DeliverTakesEffect(t) /\ t[1] = n
<1>1. CASE answer'[n] = answer[n]
  <2>1. CASE answer[n] = 0
    BY <1>1, <2>1 DEF Received
  <2>2. CASE answer[n] # 0
    <3>1. <<n, answer[n]>> \in Task /\ task[<<n, answer[n]>>].at \in Over
      BY <2>2, TaskParts, CopiesAssumption DEF IInv, TypeOK, Answered
    <3>2. /\ task'[<<n, answer[n]>>].params = task[<<n, answer[n]>>].params
          /\ task'[<<n, answer[n]>>].status = task[<<n, answer[n]>>].status
      BY <3>1, OverIsFinal
    <3>3. QED
      BY <1>1, <3>2 DEF Received
  <2>3. QED
    BY <2>1, <2>2
<1>2. QED
  BY <1>1, DeliveredStays

\* A step that takes no requirement up and delivers nothing leaves the two histories alone.
LEMMA Quiet ==
    ASSUME IInv, [Next]_vars,
           \A n \in Negotiation : ~(HandlePaidOrder(n) /\ n \in pending),
           \A t \in Task : ~DeliverTakesEffect(t)
    PROVE  /\ [n \in Negotiation |-> Taken(n)]' = [n \in Negotiation |-> Taken(n)]
           /\ [n \in Negotiation |-> Received(n)]' = [n \in Negotiation |-> Received(n)]
<1>1. \A n \in Negotiation : Taken(n)' = Taken(n) /\ Received(n)' = Received(n)
  BY NextTaken, NextReceived
<1>2. QED
  BY <1>1

\* The marketplace and the buyer move the deal; only a valid requirement is accepted.
LEMMA DealSale ==
    ASSUME IInv, [Next]_vars,
           NEW n \in Negotiation,
           \/ \E s \in Service, v \in BOOLEAN : Negotiate(n, s, v)
           \/ Pay(n) \/ Lapse(n) \/ AcceptTakesEffect(n) \/ SafeRejectNegotiation(n)
    PROVE  [Sale!SaleNext]_(Sale!saleVars)
<1>1. task' = task /\ answer' = answer
  BY DEF Negotiate, Pay, Lapse, AcceptTakesEffect, SafeRejectNegotiation
<1>2. /\ [m \in Negotiation |-> Taken(m)]' = [m \in Negotiation |-> Taken(m)]
      /\ [m \in Negotiation |-> Received(m)]' = [m \in Negotiation |-> Received(m)]
  BY <1>1 DEF Taken, Received
<1>3. CASE \E s \in Service, v \in BOOLEAN : Negotiate(n, s, v)
  <2>1. Sale!Open(n)
    BY <1>2, <1>3 DEF Negotiate, Sale!Open, Sale!To
  <2>2. QED
    BY <2>1 DEF Sale!SaleNext
<1>4. CASE AcceptTakesEffect(n)
  <2>1. asked[n].valid
    BY <1>4 DEF AcceptTakesEffect, IInv, Handled
  <2>2. Sale!Proceed(n)
    BY <1>2, <1>4, <2>1 DEF AcceptTakesEffect, Sale!Proceed, Sale!To
  <2>3. QED
    BY <2>2 DEF Sale!SaleNext
<1>5. CASE Pay(n) \/ Lapse(n)
  <2>1. Sale!Proceed(n)
    BY <1>2, <1>5 DEF Pay, Lapse, Sale!Proceed, Sale!To
  <2>2. QED
    BY <2>1 DEF Sale!SaleNext
<1>6. CASE SafeRejectNegotiation(n)
  <2>1. asked' = asked /\ (market' = market \/ market' = [market EXCEPT ![n] = IF @ = "open" THEN "rejected" ELSE @])
    BY <1>6 DEF SafeRejectNegotiation
  <2>2. market \in [Negotiation -> Market]
    BY DEF IInv, TypeOK
  <2>3. CASE market' = market \/ market[n] # "open"
    <3>1. market' = market
      BY <2>1, <2>2, <2>3
    <3>2. QED
      BY <1>2, <2>1, <3>1 DEF Sale!saleVars
  <2>4. CASE market' # market /\ market[n] = "open"
    <3>1. Sale!Proceed(n)
      BY <1>2, <2>1, <2>4 DEF Sale!Proceed, Sale!To
    <3>2. QED
      BY <3>1 DEF Sale!SaleNext
  <2>5. QED
    BY <2>3, <2>4
<1>7. QED
  BY <1>3, <1>4, <1>5, <1>6

\* A requirement that is popped is taken up, once and after the payment.
LEMMA TakeSale ==
    ASSUME IInv, [Next]_vars, NEW n \in Negotiation, HandlePaidOrder(n)
    PROVE  [Sale!SaleNext]_(Sale!saleVars)
<1>1. market' = market /\ asked' = asked /\ answer' = answer
  BY DEF HandlePaidOrder
<1>2. \A t \in Task : ~DeliverTakesEffect(t)
  <2>1. ASSUME NEW t \in Task, DeliverTakesEffect(t) PROVE FALSE
    <3>1. market'[t[1]] = "delivered" /\ market[t[1]] = "paid"
      BY <2>1, TaskParts DEF DeliverTakesEffect, IInv, TypeOK
    <3>2. QED
      BY <1>1, <3>1
  <2>2. QED
    BY <2>1
<1>3. \A m \in Negotiation : m # n => ~HandlePaidOrder(m)
  <2>1. ASSUME NEW m \in Negotiation, m # n, HandlePaidOrder(m) PROVE FALSE
    <3>1. notices'[m] = notices[m] - 1 /\ notices[m] \in Nat
      BY <2>1, CopiesAssumption DEF HandlePaidOrder, IInv, TypeOK
    <3>2. notices'[m] = notices[m]
      BY <2>1 DEF HandlePaidOrder, IInv, TypeOK
    <3>3. QED
      BY <3>1, <3>2
  <2>2. QED
    BY <2>1
<1>4. CASE n \notin pending
  <2>1. UNCHANGED Sale!saleVars
    BY <1>1, <1>2, <1>3, <1>4, Quiet DEF Sale!saleVars
  <2>2. QED
    BY <2>1
<1>5. CASE n \in pending
  <2>1. notices[n] \in 1 .. Copies /\ <<n, notices[n]>> \in Task
        /\ <<n, notices[n]>>[1] = n /\ <<n, notices[n]>>[2] = notices[n]
    BY NoticeIsTask DEF HandlePaidOrder, IInv
  <2>2. market[n] \in {"paid", "delivered", "expired"}
    <3>1. notices[n] <= notices[n]
      BY <2>1, CopiesAssumption
    <3>2. QED
      BY <2>1, <3>1 DEF IInv, Started, Worked
  <2>3. Taken(n) = {}
    BY <1>5, TaskParts DEF IInv, Cached, Agreed, Taken
  <2>4. Taken(n)' = {notices[n]} /\ \A m \in Negotiation : m # n => Taken(m)' = Taken(m)
    BY <1>3, <1>5, NextTaken
  <2>5. [m \in Negotiation |-> Taken(m)]' = [[m \in Negotiation |-> Taken(m)] EXCEPT ![n] = {notices[n]}]
    BY <2>4
  <2>6. [m \in Negotiation |-> Received(m)]' = [m \in Negotiation |-> Received(m)]
    <3>1. \A m \in Negotiation : Received(m)' = Received(m)
      BY <1>2, NextReceived
    <3>2. QED
      BY <3>1
  <2>7. Sale!Take(n, notices[n])
    BY <1>1, <2>2, <2>3, <2>5, <2>6 DEF Sale!Take
  <2>8. QED
    BY <2>1, <2>7 DEF Sale!SaleNext
<1>6. QED
  BY <1>4, <1>5

\* The deliverable the marketplace takes is what one run made.
LEMMA DeliverSale ==
    ASSUME IInv, [Next]_vars, NEW t \in Task, DeliverTakesEffect(t)
    PROVE  [Sale!SaleNext]_(Sale!saleVars)
<1>1. PICK n \in Negotiation, k \in 1 .. Copies : t = <<n, k>> /\ t[1] = n /\ t[2] = k
  BY DEF Task
<1>2. /\ market[n] = "paid" /\ market' = [market EXCEPT ![n] = "delivered"]
      /\ answer' = [answer EXCEPT ![n] = k] /\ asked' = asked /\ task' = task
      /\ task[t].at = "delivering"
  BY <1>1 DEF DeliverTakesEffect
<1>3. task[t].params \in {"agreed", "preset"} /\ task[t].status \in {"ok", "error"}
  BY <1>2 DEF IInv, Fruitful
<1>4. \A m \in Negotiation : Taken(m)' = Taken(m)
  BY <1>2 DEF Taken
<1>5. (k \in Taken(n)) <=> (task[t].params = "agreed")
  BY <1>1 DEF Taken
<1>6. answer \in [Negotiation -> 0 .. Copies] /\ k # 0
  BY CopiesAssumption DEF IInv, TypeOK
<1>7. \A m \in Negotiation : m # n => Received(m)' = Received(m)
  BY <1>2, <1>6 DEF Received
<1>8. Received(n)' = [by |-> k, from |-> IF k \in Taken(n) THEN "agreed" ELSE "preset", status |-> task[t].status]
  BY <1>1, <1>2, <1>3, <1>5, <1>6 DEF Received
<1>9. [m \in Negotiation |-> Received(m)]' =
          [[m \in Negotiation |-> Received(m)] EXCEPT ![n] =
              [by |-> k, from |-> IF k \in Taken(n) THEN "agreed" ELSE "preset", status |-> task[t].status]]
  BY <1>7, <1>8
<1>10. [m \in Negotiation |-> Taken(m)]' = [m \in Negotiation |-> Taken(m)]
  BY <1>4
<1>11. Sale!Deliver(n, k)
  BY <1>2, <1>3, <1>9, <1>10 DEF Sale!Deliver, Sale!To
<1>12. QED
  BY <1>11 DEF Sale!SaleNext

LEMMA NextSale ==
    ASSUME IInv, [Next]_vars
    PROVE  [Sale!SaleNext]_(Sale!saleVars)
<1>1. ASSUME NEW n \in Negotiation,
             \/ \E s \in Service, v \in BOOLEAN : Negotiate(n, s, v)
             \/ Pay(n) \/ Lapse(n) \/ AcceptTakesEffect(n) \/ SafeRejectNegotiation(n)
      PROVE  [Sale!SaleNext]_(Sale!saleVars)
  BY <1>1, DealSale
<1>2. ASSUME NEW n \in Negotiation, HandlePaidOrder(n) PROVE [Sale!SaleNext]_(Sale!saleVars)
  BY <1>2, TakeSale
<1>3. ASSUME NEW t \in Task, DeliverTakesEffect(t) PROVE [Sale!SaleNext]_(Sale!saleVars)
  BY <1>3, DeliverSale
<1>4. CASE UNCHANGED <<market, asked>> /\ (\A n \in Negotiation : ~HandlePaidOrder(n))
           /\ \A t \in Task : ~DeliverTakesEffect(t)
  <2>1. UNCHANGED Sale!saleVars
    BY <1>4, Quiet DEF Sale!saleVars
  <2>2. QED
    BY <2>1
<1>5. \/ UNCHANGED <<market, asked>>
      \/ \E t \in Task : DeliverTakesEffect(t)
      \/ \E n \in Negotiation : \/ \E s \in Service, v \in BOOLEAN : Negotiate(n, s, v)
                                \/ Pay(n) \/ Lapse(n) \/ AcceptTakesEffect(n) \/ SafeRejectNegotiation(n)
                                \/ HandlePaidOrder(n)
  BY DEF Next, Handlers, LoseEvent, OnNegotiationCreated, GetNegotiation, AcceptReturns, RecoverOrderContext,
         RunHandler, SafeDeliver, Start, Shutdown, DrainReturns, DrainTimesOut, Exit, Crash, Killed,
         external, process, vars
<1>6. QED
  BY <1>1, <1>2, <1>3, <1>4, <1>5
-----------------------------------------------------------------------------
\* The invariant, and what it implies, hold in every reachable state.
THEOREM Inductive == Spec => []IInv
<1>1. IInv /\ [Next]_vars => IInv'
  BY NextTypeOK, NextRunsOnce, NextHandled, NextCached, NextStarted, NextAwaited, NextFruitful, NextAnswered
     DEF IInv
<1>2. QED
  BY <1>1, InitIInv, PTL DEF Spec

\* Every order the marketplace holds is for a requirement that was validated.
THEOREM OnlyValidatedOrders == Spec => []OrdersAreValidated
<1>1. IInv => OrdersAreValidated
  BY DEF IInv, Handled, OrdersAreValidated
<1>2. QED
  BY <1>1, Inductive, PTL

\* An order is worked with preset parameters only when the requirement of the
\* buyer could not be had.
THEOREM DegradedOnlyWithCause == Spec => []DegradedHasCause
<1>1. ASSUME IInv PROVE DegradedHasCause
  <2> SUFFICES ASSUME NEW t \in Task, task[t].params = "preset"
               PROVE  \/ handling[t[1]] \in {"dead", "ended", "accepting"}
                      \/ t[1] \in pending
                      \/ Agreed(t[1])
    BY DEF DegradedHasCause, Agreed
  <2>1. t[1] \in Negotiation /\ Started(t) /\ Handled(t[1]) /\ Cached(t[1])
    BY <1>1, TaskParts DEF IInv
  <2>2. market[t[1]] \in Ordered
    BY <2>1 DEF Started, Worked, Ordered
  <2>3. QED
    BY <2>1, <2>2 DEF Handled, Cached
<1>2. QED
  BY <1>1, Inductive, PTL

\* The requirement of a buyer is never worked twice.
THEOREM RunsOnce == Spec => []AgreedRunsOnce
<1>1. IInv => AgreedRunsOnce
  BY DEF IInv
<1>2. QED
  BY <1>1, Inductive, PTL

\* When drain() returns in time, every task it took has ended.
THEOREM DrainEndsTasks == Spec => []DrainedTasksFinished
<1>1. ASSUME IInv PROVE DrainedTasksFinished
  <2>1. awaited \subseteq Task
    BY <1>1 DEF IInv, TypeOK
  <2>2. QED
    BY <1>1, <2>1 DEF IInv, Awaited, DrainedTasksFinished
<1>2. QED
  BY <1>1, Inductive, PTL

\* Through any number of restarts, repeated payment events and lost answers, the provider keeps
\* what SaleLedger promises a buyer: a deal for a valid requirement only, which is taken up once
\* at most, and one final answer, which is what the run that gave it made of the requirement if
\* that run had popped it, and else of the service's preset.
THEOREM KeepsTheSale == Spec => KeepsSale
BY InitSale, NextSale, Inductive, PTL DEF Spec, KeepsSale, Sale!SaleSpec
=============================================================================
