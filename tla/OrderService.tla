---------------------------- MODULE OrderService ----------------------------
(***************************************************************************)
(* api/orders/service.py: hosted orders (place_order), non-custodial       *)
(* orders (build_order, then submit_order) and their cancellation          *)
(* (cancel_order, cancel_all_open).                                        *)
(*                                                                         *)
(* Each element of Req is one HTTP request.  A request runs one handler    *)
(* once, and every await in the handler is a point where other requests,   *)
(* the exchange, Redis expiry and a worker crash can act.  What a request  *)
(* creates is named after it: the exchange order it posted, the database   *)
(* row it inserted, the payload it built.                                  *)
(***************************************************************************)
EXTENDS RiskGuard

CONSTANTS
    Req,       \* the requests of a behaviour, each used at most once
    User,      \* the users; a request acts for one of them
    Quote,     \* the prices and sizes clients ask for, each pair one value
    Worth,     \* Worth[q]: price * size, exactly, as validate_order_size compares it
    ToUnits,   \* ToUnits[q]: the USDC amount of the struct, to_units(size * price), on one
               \* scale with Worth: only the order of the amounts matters
    Kept,      \* Kept[q]: the price and the size in the row's Numeric(18, 6) columns
    Ops        \* the operations a run exercises (a bound, not in the code)

ASSUME QuoteAssumption ==
    Quote # {} /\ Worth \in [Quote -> Nat] /\ ToUnits \in [Quote -> Nat] /\ DOMAIN Kept = Quote

\* Signing truncates the float product to a millionth: it may fall short of the exact worth (100
\* at 0.29 signs 28.999999), but what the float is too large by is far below a millionth, so it
\* does not carry an amount that was within a limit, a whole number, past it.
ASSUME SigningAssumption ==
    \A q \in Quote, t \in Tier : ValidateOrderSize(t, Worth[q]) => ValidateOrderSize(t, ToUnits[q])

VARIABLES
    pc,      \* pc[r]: the await the handler of r is suspended at, or its outcome
    req,     \* req[r]: what r asked for, fixed when its handler starts
    todo,    \* todo[r]: targets whose exchange cancel r has still to call
    gotId,   \* requests whose exchange answer carried an order id
    tier,    \* users.tier
    redis,   \* order_build:* keys present, each named by the request that built it
    exch,    \* exch[r]: the order the exchange holds because r posted it
    row      \* row[r]: the row of table orders that r inserted

vars == <<pc, req, todo, gotId, tier, redis, exch, row>>

Running == {"verifying", "posting", "persisting", "cancelling", "committing", "sweeping"}
Outcome == {"ok", "error", "dead"}
Kind == {"none", "place", "build", "submit", "cancel", "cancelAll"}

\* What a request carries, what is signed and posted, and what the row shows: the struct holds
\* an amount, the row a price and a size, both next to the fee.  (The struct's other amount,
\* to_units(size), and the side that says which is which, are left out.)
Asked == [quote : Quote, fee : Nat]
Terms == [notional : Nat, fee : Nat]
Listed == [kept : {Kept[q] : q \in Quote}, fee : Nat]

Struct(asked) == [notional |-> ToUnits[asked.quote], fee |-> asked.fee]
Columns(asked) == [kept |-> Kept[asked.quote], fee |-> asked.fee]

NotAsked == [quote |-> CHOOSE q \in Quote : TRUE, fee |-> 0]
NoTerms == Struct(NotAsked)
NotListed == Columns(NotAsked)

Status == {"PENDING", "OPEN", "PARTIALLY_FILLED", "FILLED", "CANCELLED", "EXPIRED"}
NotCancellable == {"FILLED", "CANCELLED", "EXPIRED"}
Sweepable == {"OPEN", "PENDING"}
Row == [status : Status \cup {"absent"}, owner : User, exid : BOOLEAN, terms : Listed]

Request == [kind : Kind, user : User, terms : Asked, targets : SUBSET Req]
ExchangeOrder == [status : {"none", "live", "filled", "cancelled"}, terms : Terms]

TypeOK ==
    /\ pc \in [Req -> {"idle"} \cup Running \cup Outcome]
    /\ req \in [Req -> Request]
    /\ todo \in [Req -> SUBSET Req]
    /\ gotId \subseteq Req
    /\ tier \in [User -> Tier]
    /\ redis \subseteq Req
    /\ exch \in [Req -> ExchangeOrder]
    /\ row \in [Req -> Row]

\* A user registers on the free tier; there are no orders and no payloads yet.
Init ==
    \E anyone \in User :
        /\ pc = [r \in Req |-> "idle"]
        /\ req = [r \in Req |-> [kind |-> "none", user |-> anyone,
                                 terms |-> NotAsked, targets |-> {}]]
        /\ todo = [r \in Req |-> {}]
        /\ gotId = {}
        /\ tier = [u \in User |-> "free"]
        /\ redis = {}
        /\ exch = [r \in Req |-> [status |-> "none", terms |-> NoTerms]]
        /\ row = [r \in Req |-> [status |-> "absent", owner |-> anyone,
                                 exid |-> FALSE, terms |-> NotListed]]
-----------------------------------------------------------------------------
Starts(r, kind, u, terms, targets) ==
    /\ pc[r] = "idle"
    /\ kind \in Ops
    /\ req' = [req EXCEPT ![r] = [kind |-> kind, user |-> u,
                                  terms |-> terms, targets |-> targets]]

Goes(r, to) == pc' = [pc EXCEPT ![r] = to]

\* The price and size asked for, with the fee of the tier the authentication dependency read.
TermsFor(u, q) == [quote |-> q, fee |-> GetFeeRateBps(tier[u])]

\* Mutant: the Redis key without the user's id.
PayloadFoundForAnyone(u, b) == b \in redis

\* The order_build key is looked up under the caller's own id, so a payload
\* another user built is not found.
PayloadFound(u, b) == b \in redis /\ req[b].user = u

\* Mutant: get_order and the select without the filter on user_id.
RowFoundForAnyone(u, t) == row[t].status # "absent"

\* get_order finds the row only under its owner.
RowFound(u, t) == row[t].status # "absent" /\ row[t].owner = u

OpenOrders(u) == {t \in Req : RowFound(u, t) /\ row[t].status \in Sweepable}

Withdrawn(t) ==
    [exch EXCEPT ![t].status = IF @ = "live" THEN "cancelled" ELSE @]

Cancelled(targets) ==
    [t \in Req |-> IF t \in targets THEN [row[t] EXCEPT !.status = "CANCELLED"] ELSE row[t]]
-----------------------------------------------------------------------------
\* place_order up to the call of post_order.
PlaceOrder(r, u, q) ==
    /\ \/ /\ ValidateOrderSize(tier[u], Worth[q])
          /\ Starts(r, "place", u, TermsFor(u, q), {})
          /\ Goes(r, "posting")
       \/ /\ ~ValidateOrderSize(tier[u], Worth[q])
          /\ Starts(r, "place", u, NotAsked, {})
          /\ Goes(r, "error")
    /\ UNCHANGED <<todo, gotId, tier, redis, exch, row>>

\* Mutant: build_order without its size check.
BuildOrderUnchecked(r, u, q) ==
    /\ Starts(r, "build", u, TermsFor(u, q), {})
    /\ Goes(r, "ok")
    /\ redis' = redis \cup {r}
    /\ UNCHANGED <<todo, gotId, tier, exch, row>>

\* build_order: the size check, then one redis.set, which may raise.
BuildOrder(r, u, q) ==
    /\ \/ /\ ValidateOrderSize(tier[u], Worth[q])
          /\ Starts(r, "build", u, TermsFor(u, q), {})
          /\ \/ Goes(r, "ok") /\ redis' = redis \cup {r}
             \/ Goes(r, "error") /\ UNCHANGED redis
       \/ /\ ~ValidateOrderSize(tier[u], Worth[q])
          /\ Starts(r, "build", u, NotAsked, {})
          /\ Goes(r, "error") /\ UNCHANGED redis
    /\ UNCHANGED <<todo, gotId, tier, exch, row>>

\* submit_order up to the lookup of the user's wallet: the stored parameters
\* are in the handler's memory from here on.
SubmitOrder(r, u, b) ==
    /\ req[b].kind = "build"
    /\ \/ /\ PayloadFound(u, b)
          /\ Starts(r, "submit", u, req[b].terms, {b})
          /\ Goes(r, "verifying")
       \/ /\ ~PayloadFound(u, b)
          /\ Starts(r, "submit", u, NotAsked, {b})
          /\ Goes(r, "error")
    /\ UNCHANGED <<todo, gotId, tier, redis, exch, row>>

\* Mutant: the payload key is left to expire.
VerifyWithoutDelete(r) ==
    /\ pc[r] = "verifying"
    /\ Goes(r, "posting") \/ Goes(r, "error")
    /\ UNCHANGED <<req, todo, gotId, tier, redis, exch, row>>

\* The signature and wallet checks, then redis.delete, whose result is not
\* looked at.  A check or the lookup may raise; so may the delete, done or not.
VerifyAndDelete(r) ==
    /\ pc[r] = "verifying"
    /\ \/ Goes(r, "posting") /\ redis' = redis \ req[r].targets
       \/ Goes(r, "error") /\ redis' \in {redis, redis \ req[r].targets}
    /\ UNCHANGED <<req, todo, gotId, tier, exch, row>>

\* Mutant: an error status of the exchange is taken for an answer.
PostOrderIgnoresStatus(r) ==
    /\ pc[r] = "posting"
    /\ Goes(r, "persisting")
    /\ exch' \in {exch, [exch EXCEPT ![r] = [status |-> "live", terms |-> Struct(req[r].terms)]]}
    /\ UNCHANGED <<req, todo, gotId, tier, redis, row>>

\* await clob.post_order: accepted with or without an order id in the answer,
\* accepted with the answer lost, or refused.  Any exception ends the request.
PostOrder(r) ==
    /\ pc[r] = "posting"
    /\ \/ /\ exch' = [exch EXCEPT ![r] = [status |-> "live", terms |-> Struct(req[r].terms)]]
          /\ \/ Goes(r, "persisting") /\ gotId' \in {gotId, gotId \cup {r}}
             \/ Goes(r, "error") /\ UNCHANGED gotId
       \/ Goes(r, "error") /\ UNCHANGED <<exch, gotId>>
    /\ UNCHANGED <<req, todo, tier, redis, row>>

\* Mutant: a failed commit is answered like a successful one.
PersistIgnoresCommit(r) ==
    /\ pc[r] = "persisting"
    /\ Goes(r, "ok")
    /\ row' \in {row, [row EXCEPT ![r] = [status |-> "OPEN", owner |-> req[r].user,
                                          exid |-> r \in gotId, terms |-> Columns(req[r].terms)]]}
    /\ UNCHANGED <<req, todo, gotId, tier, redis, exch>>

\* Mutant: the fee of the row is computed again instead of taken from the payload.
PersistAtCurrentTier(r) ==
    /\ pc[r] = "persisting"
    /\ Goes(r, "ok")
    /\ row' = [row EXCEPT ![r] = [status |-> "OPEN", owner |-> req[r].user, exid |-> r \in gotId,
                                  terms |-> Columns(TermsFor(req[r].user, req[r].terms.quote))]]
    /\ UNCHANGED <<req, todo, gotId, tier, redis, exch>>

\* Insert and commit the row, then refresh it.  Each may raise.
Persist(r) ==
    /\ pc[r] = "persisting"
    /\ \/ /\ row' = [row EXCEPT ![r] = [status |-> "OPEN", owner |-> req[r].user,
                                        exid |-> r \in gotId, terms |-> Columns(req[r].terms)]]
          /\ \/ Goes(r, "ok")
             \/ Goes(r, "error")
       \/ Goes(r, "error") /\ UNCHANGED row
    /\ UNCHANGED <<req, todo, gotId, tier, redis, exch>>
-----------------------------------------------------------------------------
\* cancel_order up to the exchange call, which a row without an id skips.
CancelOrder(r, u, t) ==
    /\ Starts(r, "cancel", u, NotAsked, {t})
    /\ \/ /\ RowFound(u, t) /\ row[t].status \notin NotCancellable
          /\ Goes(r, IF row[t].exid THEN "cancelling" ELSE "committing")
       \/ /\ ~RowFound(u, t) \/ row[t].status \in NotCancellable
          /\ Goes(r, "error")
    /\ UNCHANGED <<todo, gotId, tier, redis, exch, row>>

\* Mutant: cancel_order swallows exceptions like cancel_all_open does.
CancelAtExchangeSwallows(r) ==
    /\ pc[r] = "cancelling"
    /\ \E t \in req[r].targets : exch' \in {exch, Withdrawn(t)}
    /\ Goes(r, "committing")
    /\ UNCHANGED <<req, todo, gotId, tier, redis, row>>

\* await clob.cancel_order: an exception leaves the handler, whether or not
\* the exchange had acted.  A 2xx answer does not say the order was live.
CancelAtExchange(r) ==
    /\ pc[r] = "cancelling"
    /\ \E t \in req[r].targets :
         \/ exch' = Withdrawn(t) /\ pc' \in {[pc EXCEPT ![r] = "committing"],
                                             [pc EXCEPT ![r] = "error"]}
         \/ UNCHANGED exch /\ Goes(r, "error")
    /\ UNCHANGED <<req, todo, gotId, tier, redis, row>>

\* Mutant: cancel_order returns without a commit.
CommitCancelWithoutCommit(r) ==
    /\ pc[r] = "committing"
    /\ Goes(r, "ok")
    /\ UNCHANGED <<req, todo, gotId, tier, redis, exch, row>>

\* status = CANCELLED, commit, refresh.  Only the status column is written.
CommitCancel(r) ==
    /\ pc[r] = "committing"
    /\ \/ /\ row' = Cancelled(req[r].targets)
          /\ \/ Goes(r, "ok")
             \/ Goes(r, "error")
       \/ Goes(r, "error") /\ UNCHANGED row
    /\ UNCHANGED <<req, todo, gotId, tier, redis, exch>>

\* cancel_all_open: select the user's OPEN and PENDING rows.
CancelAllOpen(r, u) ==
    /\ Starts(r, "cancelAll", u, NotAsked, OpenOrders(u))
    /\ todo' = [todo EXCEPT ![r] = {t \in OpenOrders(u) : row[t].exid}]
    /\ Goes(r, "sweeping")
    /\ UNCHANGED <<gotId, tier, redis, exch, row>>

\* Mutant: an order the exchange did not take down is tried again.
SweepOneRetries(r, t) ==
    /\ pc[r] = "sweeping" /\ t \in todo[r]
    /\ exch' \in {exch, Withdrawn(t)}
    /\ todo' = IF exch' = exch THEN todo ELSE [todo EXCEPT ![r] = @ \ {t}]
    /\ UNCHANGED <<pc, req, gotId, tier, redis, row>>

\* One round of the loop: the exchange acts or not, and any exception is
\* swallowed ("Best-effort cancellation").
SweepOne(r, t) ==
    /\ pc[r] = "sweeping" /\ t \in todo[r]
    /\ exch' \in {exch, Withdrawn(t)}
    /\ todo' = [todo EXCEPT ![r] = @ \ {t}]
    /\ UNCHANGED <<pc, req, gotId, tier, redis, row>>

\* Mutant: rows without an exchange id are skipped altogether.
CommitSweepSkipsNoId(r) ==
    /\ pc[r] = "sweeping" /\ todo[r] = {}
    /\ Goes(r, "ok")
    /\ row' = Cancelled({t \in req[r].targets : row[t].exid})
    /\ UNCHANGED <<req, todo, gotId, tier, redis, exch>>

\* The single commit after the loop.
CommitSweep(r) ==
    /\ pc[r] = "sweeping" /\ todo[r] = {}
    /\ \/ /\ row' = Cancelled(req[r].targets)
          /\ \/ Goes(r, "ok")
             \/ Goes(r, "error")
       \/ Goes(r, "error") /\ UNCHANGED row
    /\ UNCHANGED <<req, todo, gotId, tier, redis, exch>>
-----------------------------------------------------------------------------
\* The worker process dies, or the request task is cancelled, at an await.
Die(r) ==
    /\ pc[r] \in Running
    /\ Goes(r, "dead")
    /\ UNCHANGED <<req, todo, gotId, tier, redis, exch, row>>

\* The 60 second lifetime of the payload key ends.
ExpireKey(b) ==
    /\ b \in redis
    /\ redis' = redis \ {b}
    /\ UNCHANGED <<pc, req, todo, gotId, tier, exch, row>>

\* The exchange matches an order; nothing tells the broker.
Fill(t) ==
    /\ exch[t].status = "live"
    /\ exch' = [exch EXCEPT ![t].status = "filled"]
    /\ UNCHANGED <<pc, req, todo, gotId, tier, redis, row>>

\* POST /developer/billing/upgrade: to another paid tier, up or down.
UpgradeTier(u, new) ==
    /\ "upgrade" \in Ops
    /\ new \in {"pro", "enterprise"} /\ new # tier[u]
    /\ tier' = [tier EXCEPT ![u] = new]
    /\ UNCHANGED <<pc, req, todo, gotId, redis, exch, row>>

\* A handler resumes from its await.
Step(r) ==
    \/ VerifyAndDelete(r)
    \/ PostOrder(r)
    \/ Persist(r)
    \/ CancelAtExchange(r)
    \/ CommitCancel(r)
    \/ \E t \in Req : SweepOne(r, t)
    \/ CommitSweep(r)

Next ==
    \/ \E r \in Req, u \in User, q \in Quote : PlaceOrder(r, u, q) \/ BuildOrder(r, u, q)
    \/ \E r, b \in Req, u \in User : SubmitOrder(r, u, b)
    \/ \E r, t \in Req, u \in User : CancelOrder(r, u, t)
    \/ \E r \in Req, u \in User : CancelAllOpen(r, u)
    \/ \E r \in Req : Step(r) \/ Die(r) \/ ExpireKey(r) \/ Fill(r)
    \/ \E u \in User, new \in Tier : UpgradeTier(u, new)

\* Every await of a handler ends: the HTTP client gives up after 30 seconds,
\* and a resumed coroutine is run by the event loop.
Fairness == \A r \in Req : WF_vars(Step(r))

Spec == Init /\ [][Next]_vars

FairSpec == Spec /\ Fairness
-----------------------------------------------------------------------------
Posts(r) == req[r].kind \in {"place", "submit"}
Cancels(r) == req[r].kind \in {"cancel", "cancelAll"}
Recorded(r) == row[r].status # "absent"

\* A client told that its order was taken finds it in its list, and the
\* exchange holds it (place_order, submit_order: post, then insert).
AckedOrderIsRecorded ==
    \A r \in Req : Posts(r) /\ pc[r] = "ok" => Recorded(r) /\ exch[r].status # "none"

\* The two sides of one order: the price and size listed and the amount signed come from the
\* same quote, each by its own conversion, and the fee is the same.
SameDeal(listed, signed) ==
    /\ listed.fee = signed.fee
    /\ \E q \in Quote : listed.kept = Kept[q] /\ signed.notional = ToUnits[q]

\* A row shows the broker fee that was signed and posted, although the tier may change while the
\* payload waits in Redis, and the price and size, rounded for its columns, whose truncated
\* product was signed.  It does not show the amount: price times size of the row may differ.
RowTermsAreSigned ==
    \A r \in Req : Recorded(r) => SameDeal(row[r].terms, exch[r].terms)

\* The amount signed of no order at the exchange is beyond the size limit of the tier whose fee
\* it pays, on either path: validate_order_size runs at build, not at submit, and compares the
\* exact worth, not the amount that is signed.
WithinLimit ==
    \A r \in Req : exch[r].status # "none" =>
        \E t \in Tier : /\ exch[r].terms.fee = GetFeeRateBps(t)
                       /\ ValidateOrderSize(t, exch[r].terms.notional)

\* When cancel_order succeeds for an order with an exchange id, the exchange
\* no longer works it: the row is not closed over a failed exchange call.
CancelOkMeansDown ==
    \A r \in Req : req[r].kind = "cancel" /\ pc[r] = "ok" =>
        \A t \in req[r].targets : row[t].exid => exch[t].status # "live"

\* When cancel_all_open succeeds, every row it selected is CANCELLED, whatever
\* the exchange answered and whatever ran since the select.
SweptRowsAreCancelled ==
    \A r \in Req : req[r].kind = "cancelAll" /\ pc[r] = "ok" =>
        \A t \in req[r].targets : row[t].status = "CANCELLED"

\* An order that the service took off the exchange while its row still says
\* OPEN is explained by a cancel that has not committed: in flight, failed or
\* killed.  A cancel that succeeded leaves no such order behind.
DivergenceHasCause ==
    \A t \in Req : exch[t].status = "cancelled" /\ row[t].status = "OPEN" =>
        \E r \in Req : /\ Cancels(r) /\ t \in req[r].targets
                       /\ pc[r] \in {"committing", "sweeping", "error", "dead"}

\* A payload reaches the exchange only for the user who built it, with the
\* terms it was built with (the Redis key holds the user's id).
PayloadStaysWithBuilder ==
    \A r \in Req : req[r].kind = "submit" /\ exch[r].status # "none" =>
        \A b \in req[r].targets : /\ req[b].user = req[r].user
                                  /\ exch[r].terms = Struct(req[b].terms)

\* A row is written only by a request of its owner (get_order and the select
\* of cancel_all_open filter on user_id).
OwnerWrites ==
    [][\A t \in Req : row'[t] # row[t] =>
        \E r \in Req : pc'[r] # pc[r] /\ req[r].user = row'[t].owner]_vars

\* Single use, as far as the code provides it: once an order went out for a
\* payload, a submit that starts later no longer finds the payload.
LateSubmitFails ==
    [][\A r, q \in Req : /\ pc[r] = "idle" /\ pc'[r] = "verifying"
                         /\ req[q].kind = "submit" /\ req[q].targets = req'[r].targets
                         => exch[q].status = "none"]_vars

\* cancel_all_open gets through its list: the orders it selected end up
\* CANCELLED unless the request itself fails or is killed.
SweepCompletes ==
    \A r \in Req : pc[r] = "sweeping" ~>
        \/ \A t \in req[r].targets : row[t].status = "CANCELLED"
        \/ pc[r] \in {"error", "dead"}

\* The service keeps the promises of OrderLedger.
LedgerState(t) ==
    CASE row[t].status = "absent" -> "unlisted"
      [] row[t].status = "CANCELLED" -> "closed"
      [] OTHER -> "open"

Ledger == INSTANCE OrderLedger WITH
    Order <- Req, Holder <- User, BookTerms <- Terms, ListedTerms <- Listed, Agrees <- SameDeal,
    book <- exch,
    ledger <- [t \in Req |-> LedgerState(t)],
    holder <- [t \in Req |-> row[t].owner],
    agreed <- [t \in Req |-> row[t].terms]

KeepsLedger == Ledger!LSpec
-----------------------------------------------------------------------------
\* What the documentation says and the code does not do.

\* service.py: "Delete the Redis key (single-use)": a payload is posted once.
PayloadSingleUse ==
    \A r, q \in Req : /\ req[r].kind = "submit" /\ req[q].kind = "submit"
                      /\ req[r].targets = req[q].targets
                      /\ exch[r].status # "none" /\ exch[q].status # "none"
                      => r = q

=============================================================================
