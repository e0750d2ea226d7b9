# A TLA+ model of the Polymarket broker

The repository is a brokerage service around the Polymarket exchange: a FastAPI
application (`api/`, `core/`, `db/`), background collectors (`data_pipeline/`), a
Telegram agent (`tg_agent/`), a provider process that sells the agent's answers on the
Croo marketplace (`croo_agent/`) and a web frontend (`frontend/`). This directory holds
TLA+ models of the parts that change state, TLC runs over small instances of them, and
TLAPS proofs. `PROJECT.json` lists the runs, one mutant per property, the source lines
behind each definition, the hazards and the theorems.

## Inventory

| Component | State | Operations | What is hard | What makes it correct |
|---|---|---|---|---|
| Order service (`api/orders`, `core/risk_guard.py`, `core/fee_engine.py`) | rows of table `orders`, `order_build:*` keys in Redis, orders at the exchange (CLOB), `users.tier` | place, build, submit, cancel, cancel all | three stores without a transaction; every `await` lets other requests, fills, key expiry and crashes in | acknowledged means posted and recorded; row and signed amount come from one quote; limits hold at posting; a cancel that succeeded took the order down |
| Croo provider (`croo_agent/dispatcher.py`, `runtime.py`) | `_pending`, `_inflight`, `_service_map`; negotiations and orders at the marketplace | negotiate, accept, reject, work a paid order, recover, deliver, drain | events lost, repeated and out of order; restarts lose memory; drain against new events | only valid requirements are accepted; a requirement is worked once; payments are worked to an end |
| Croo catalogue and tools (`services.py`, `setup_cli.py`, `credentials.py`, `deliverables.py`, `buyer_smoke.py`) | listings and agents at the marketplace, credentials file, the provider's copy of its map | bind and validate requirements, rebuild the catalogue, save credentials, start the provider | a rebuild is some fifty calls of which any may fail, with or without effect; rebuilds overlap; the provider reads the file once | what is sold is what is advertised; catalogue and file agree after a run that went well |
| Dome access (`core/dome`) | key assignment and cooling times; `_subscriptions`, `_pending_subs`, one connection | acquire, report 429, request with a retry; subscribe, unsubscribe, confirm, reconnect | all keys cooling, retry of a retry; subscribers act while the reconnect loop sends; answers do not name the request | a key that was limited rests; what was subscribed is subscribed again |
| Rate limit and quota (`api/middleware/rate_limit.py`, `core/ai/quota.py`) | counters in Redis with expiry | count, expire, refuse | crash between INCR and EXPIRE; check then increment | no more than the limit per window; nobody locked out for ever |
| Webhooks (`api/webhooks`) | `failure_count`, `status` per webhook | register, delete, deliver (one attempt), suspend | dispatches overwrite each other's counts and lock rows in any order | a webhook that fails is suspended, one that works is not; every dispatch ends |
| Authentication (`api/auth`, `core/security.py`, `api/deps.py`, `api/agent/tg_auth.py`) | users, API keys, nonces | register, log in, wallet challenge and verification, Google, keys | a nonce is read and deleted in two steps, a user looked up and inserted in two | a nonce signs in once; one user per wallet; a revoked key stays out |
| Portfolio and strategies (`api/portfolio`, `api/strategies`) | none; reads rows | positions, balance, opportunities | rows the exchange disagrees with | positions follow from the rows |
| Collectors (`data_pipeline`) | rows per source; one task and session each | list, fetch, write, commit, sleep, tear down | failures anywhere in a round, pages that move, cancellation at any await | a failing round does not end the loop; of what it could use, a round that reports success lost nothing without a cause |
| Application lifespan (`api/main.py`) | the tasks, the stream and the clients of one process | build, start, serve, cancel, gather, close | shutdown meets tasks wherever they are | nothing is closed under a user of it; shutdown ends |
| Telegram agent (`tg_agent`) | conversations; the capability handlers have none | chat, callbacks; `invoke` of a capability | one dispatch on strings for forty services | a service is answered by its own branch |
| Routers, API clients, frontend | none | queries | none | read-only |

The application reads a user's tier from the database on each request and passes it to
the order service, which calls the risk guard and the fee table, posts to the CLOB and
writes the row. The Croo dispatcher calls the Telegram agent's capability handlers,
which read the same database and APIs, for the services that `setup_cli` listed. The
API process also runs the collectors and the Dome stream as tasks. It and the provider
share only PostgreSQL and Redis.

## Modules

| Module | What it is | Composed with |
|---|---|---|
| `RiskGuard` | tier tables and the size check | |
| `OrderLedger` | abstract: what is promised about one order seen from outside | |
| `OrderService` | the order service in full | `RiskGuard`; refines `OrderLedger` |
| `SaleLedger` | abstract: what the provider promises a buyer about one deal | |
| `CrooDispatcher` | the Croo provider with the marketplace around it | refines `SaleLedger` |
| `CrooServices` | the 39 services and the two validations, as functions | |
| `AgentHandlers` | which branch of the agent answers which parameters | `CrooServices` |
| `CrooCatalogue` | `setup_cli`, the file, the provider's map and purchases | `AgentHandlers` |
| `DomeKeyPool` | the key pool of the Dome client and the client's retry | |
| `DomeStream` | the Dome WebSocket manager | |
| `Collectors` | the nine collectors | |
| `Application` | the lifespan of the API process | `Collectors`, `DomeStream` |
| `RequestLimits` | call limit, usage counter and analysis quota in Redis | |
| `Webhooks` | registration, dispatch and suspension | |
| `Accounts` | users, sign-ins and API keys | |
| `OrderServiceProofs`, `CrooDispatcherProofs`, `CrooCatalogueProofs`, `DomeKeyPoolProofs`, `RequestLimitsProofs`, `WebhooksProofs`, `AccountsProofs`, `ApplicationProofs` (with `Collectors` and `DomeStream`) | the theorems about each | |
| `MC...` | instances for TLC: sets, starting states, symmetry | |

### OrderService

An element of `Req` is one HTTP request, which runs one handler once. `pc[r]` is the
await at which the handler is suspended, or how it ended (`ok`, `error`, `dead`). Each
action is the code from one await to the next, so all interleavings of coroutines and
worker processes are behaviours of the model. Objects are named after the request that
made them: `exch[r]` is the exchange order that `r` posted, `row[r]` the row it
inserted, `r \in redis` the payload it built.

* `PlaceOrder`, `PostOrder`, `Persist`: hosted orders. `PostOrder` covers an accepted
  order whose answer has an id, lacks one or is lost, and a refusal. `Persist` covers a
  commit that fails and a `refresh` that fails after the commit.
* `BuildOrder`, `SubmitOrder`, `VerifyAndDelete`, `PostOrder`, `Persist`: non-custodial
  orders. The result of `redis.delete` is ignored, as in the code.
* `CancelOrder`, `CancelAtExchange`, `CommitCancel`; `CancelAllOpen`, `SweepOne`,
  `CommitSweep`. The sweep's rows are those read before its awaits.
* `UpgradeTier` is the one other write of `users.tier`; `ExpireKey` the end of the 60
  seconds of a payload; `Fill` a match at the exchange; `Die` a crash or cancelled task.

The handler that reads a row or a key and has no await before its next decision is one
action. A quote is the price and size a client asks for. Three things are made of it, each
by a conversion of its own, which are constants: `Worth`, the exact product that
`validate_order_size` compares with the limit; `ToUnits`, the amount that is signed, a
float product truncated to a millionth (`eip712.py:9-34`: 100 at 0.29 signs 28.999999);
and `Kept`, the price and size rounded into the columns of the row. So a row need not show
the amount that was signed, and no property says so: `RowTermsAreSigned` says that row and
signature come from one quote and carry the same fee, `WithinLimit` speaks of the signed
amount. Signatures, ids and market data are opaque. A 2xx answer of the CLOB is taken to
mean that it accepted the order or had taken the cancelled order off the book; the code
looks no further than the status.

### CrooDispatcher

`market[n]` is the negotiation and later the order at the marketplace, `handling[n]` the
await of `_handle_negotiation`, `task[<<n, k>>]` one call of `_handle_paid_order` with
the `_run_and_deliver` it spawns, `pending` the keys of `_pending`, `life` the process.
`accept_negotiation` and `deliver_order` are two steps each: the marketplace acts
(`AcceptTakesEffect`, `DeliverTakesEffect`), and the call returns or raises. `Killed`
loses all memory; `offered` and `notices` are events under way, which are lost while
nobody listens. `_pending_lock` is never held across an await, so a handler's use of
`_pending` is atomic. `dry_run` is FALSE. Building a context opens no connection
(`tg_agent/context.py`), so it does not fail.

Not covered: the order in which the SDK's thread hands over two events is arbitrary in
the model; the connection of the stream before `register_listeners` is one line earlier
in the code and no event arrives in between here.

### DomeKeyPool

`key_pool.py` is code without an `await`, shared by every coroutine that uses the
client; `client.py` awaits one HTTP answer, or two. `at[c]` is the request caller `c`
awaits and `key[c]` its key: `Request` calls `next_key`, `Retry` is the handling of a
429 up to the second request, `Answer` every other end. `Pick` states what the loop of
`_pick` finds (the first key from the counter on that does not rest, else one that is
free soonest) instead of looping. A cooling deadline is kept as the ticks left of it and
`Tick` is `time.monotonic`; the round-robin counter is kept modulo the number of keys.
`waits` is a history variable the code does not have. Among keys that are free equally
soon the code takes the first of the list and the model takes any, since ticks are
coarser than floats. The keys are distinct. The keys reserved for WebSockets only choose
the URL of the stream. A 429 to the repeated request is not reported to the pool
(`client.py:58`), and the model does as the code does: that key is handed out as free.

### RequestLimits

A counter is a Redis key: `count[k]` its value (0 when there is none), `k \in timed`
whether it has a time to live. A request runs `RateLimitMiddleware.__call__` and, for an
analysis, `check_and_increment_quota`; `at[r]` is the command whose answer it awaits,
and each action is the effect of one command with the code up to the next. The agent
processes call the quota without the middleware, so `ReadQuota` also starts from
`"idle"`. The usage counter is tracked in a `try` whose exceptions are swallowed
(`TrackingFails`); any other exception ends the request (`Die`, which is also a crash).
`Lapse` is the end of 24 hours: a counter of a day is timed after its day began, so it
lapses after the day ended; for the same reason reading the date and the GET that
follows it are one step (a first use and a later read would both have to fall on
midnight to tell the difference). `life`, `born`, `passed`, `granted`, `ahead` and `cut`
are history variables. Not covered: a request that finds no Redis client (it is not
limited), a quota of 0 (it is off), loss of Redis data.

### Webhooks

`dispatch_event` is one transaction. `Select` reads the hooks, `Deliver` is one delivery,
a single attempt (`RETRY_DELAYS` has no use), `Record` the UPDATE, which waits while
another dispatch or a DELETE holds the row, `Commit` the one commit at the end, `Abort`
the end of a deadlock the database found, `Die` a crash. `count[d][h]` is the count the
dispatch read and writes back. PostgreSQL re-reads the locked row, but SQLAlchemy's UPDATE
sets the value computed before. Nothing in `src/` but tests calls `dispatch_event` yet;
any route that does opens a session of its own. Left out: signatures and the payload.

### Accounts

`at[r]` is the await of request `r`, as in `OrderService`; a row, a nonce and a key are
named after the request that made them. The look-up and the insertion of a user are two
steps (`FindWallet`, `AddUser`), and so are GET and DEL of a nonce (`GetNonce`,
`DeleteNonce`) and the look-up of a key and of its user (`ResolveKey`, `CheckUser`); the
UNIQUE columns decide an insertion. `before[r]` is history: the requests that had ended
when `r` began, which is what "later" means in the properties. Access tokens are held by
whoever signed in and are checked without the database (`WithToken`), so a deactivated
user keeps passing until they lapse; their lapse is left out, as it only takes behaviours
away. Left out: profile fields, refresh tokens after they are stored (no route reads
them), and the Telegram binding, which cannot succeed (`bot.py:91` and `tg_auth.py:94`
call functions that do not exist).

### CrooServices, AgentHandlers, CrooCatalogue

A requirement is a function from the fields a buyer sent to the class of each value: what
Python's truth, the string tests of the validations and asyncpg's types can tell apart.
`Binds` and `Merge` are `validate_against_binding` and `merge_params`. `AgentHandlers`
gives, for every feed and action, the kinds of result the branch can end with.
`CrooCatalogue` has one action per call of `setup_cli` (`SetupAgent`, `ListServices`,
`Deactivate`, `Create`, `Activate`, `Save`), each of which may fail before or after it
took effect, `Abort` for a kill between two calls, and `Start`, `Stop` and `Buy`. `run[o]`
is one run, `file` the credentials file (saved by one `os.replace`), `provider` what the
live process has loaded. A purchase, whose interleavings are those of `CrooDispatcher`, is
one step. Requirements that are not JSON are left out.

What the branches do and the result kinds do not show: `weather_cities` and
`weather_fusion` always fail, since a date out of JSON is a string and the column a DATE;
`min_bias_bps` and `min_spread_bps` fail as strings, though the schema asks for strings;
`analysis_scan` ignores its category, and `dome_arb_spreads` its bound. A required value
that is false without being a string (0, false, an empty list) passes the validation and
ends in the handler's default branch: the one exception in `AnswerIsAdvertised`.

### Collectors, DomeStream, Application

`Policies` says for each of the nine collectors what a failed fetch, a refused row and a
failed commit do to its round, and whether it drops a unit whose data it cannot use;
`RoundStep` works units one at a time with a failure possible at each await. Four
collectors drop such units with a bare `continue` or `return` (`nba_collector.py:138`,
`kalshi_collector.py:38`, `:46`, `:52`, `:65`, `dome_market_collector.py:38`,
`weather_collector.py:146-183`): no row, no log entry, and the round still ends as a
success. `unfit[c]` is what lacks something now (`Spoil` and `Mend` change it), `PassOver`
the drop, next to `SkipLogged` for a failure that is logged. `stable[c]` is what was
listed and usable since the round began, and only that is what a round that reports
success may not lose. One board of units stands for every source: only the sports
collector, which reads pages by offset, sees it change within a round, and the order of a
list may change between its pages. Blank rows that CoinGlass stores count as stored. After
a refused statement PostgreSQL rolls the whole transaction back at COMMIT without an
error, which weather and sports odds do not notice. Rows of sports events that end are
never marked closed, since the query lists open ones only. A task cancelled before its
first step never runs its `finally`, so its client stays open (`"unrun"`).

`DomeStream` takes `websocket.py` apart at its sends, each of which gives way when the
write buffer is full, and at its reads. The server answers requests in order.
`tangled` is history: something happened that answers in order cannot tell apart.
`resub.disturbed` is a dict that changed while it was iterated, which raises and
reconnects. Ids kept from an earlier connection are never replaced, and who subscribes
while the loop resubscribes may be sent twice. `build_dome_ws` is called in `main.py`;
`subscribe_orders` has no caller yet.

`Application` is the lifespan: what is built, which collectors start, and a shutdown that
cancels the tasks, gathers them, stops the stream and closes the clients. Its steps
interleave with those of the two modules it extends. The Redis, bot and order book
clients are closed in the same step as the Dome client.

## Runs

| Run | Instance | Shows |
|---|---|---|
| `OrderHosted` | 4 requests, 1 user, quotes at and above the free limit; place, cancel, cancel all | the ack, cancel and sweep guarantees; a divergence has a cause; refinement of `OrderLedger` |
| `OrderTenants` | 3 requests, 2 users, quotes at and above the free limit; build, submit, cancel, cancel all, upgrade | terms, limit, payload ownership, late submits, row ownership |
| `OrderSweep` | 3 requests, fair | a sweep ends |
| `OrderSingleUse` (violation) | 3 requests | a payload read twice is posted twice |
| `CrooOrders` | 1 negotiation, 2 services, 2 copies of the payment event, 2 starts; fair | degraded runs, single use, drain, progress; refinement of `SaleLedger` |
| `CrooAnswer` (violation) | 1 negotiation | a paid order without an answer |
| `Marketplace` | a release of 2 services over three situations (nothing, an older installation, all 39 services), 2 operators, 2 runs | sales are of the advertised kind and conforming ones are accepted; a run that goes well repairs the catalogue; the file is never partial |
| `DomePool` | 6 keys of which 2 are reserved, cooldown of 3 ticks, 3 callers | fair rotation; a retry takes another key |
| `Limits` | 3 requests, 1 address, 1 user, 2 calls per life, 1 analysis per day, 2 days | the call limit, the quota for later requests, what leaves a counter without expiry |
| `Webhooks` | 2 hooks, 2 users of which 1 pays, 3 dispatches, 2 failures allowed; fair | counts are exact without overlap; only a stale reader reactivates; dispatches end |
| `Accounts` | 3 requests of any kind, 1 wallet, 2 mail addresses, a Google account that changed its address, an older user or none, whose key then stands for a key nobody made | nonces, wallet accounts, keys |
| `Application` | each collector by itself, sports with 3 lists, the stream with 2 subscribers, Kalshi beside the stream; fair | what a round or the stream may lose, and that everything ends in order |

Bounds. Four order requests allow a place, two rival cancels (or a sweep) and one more
placed order; three allow a build and two rival submits, or a build, its submit and a
stranger's cancel. Every property but the sweep's speaks of at most two requests and one
order, and the theorems hold for any number. One quote is worth the free limit of 1000 and
signs less, the other is worth and signs more and is refused on that tier alone; the fee
and the limit of a placed order on a paid tier, of which `OrderTenants` has none, are left
to the theorems. Orders at Croo meet only in the process life and the service map, so one
negotiation with two payment events (two tasks) has all the interactions of its own; two
services make one known and one unknown. `Copies` and `MaxStarts` bound the repetitions of
an event and restarts; two is the least that repeats. A rebuild treats its services one
after the other, so a release of two has a first, a next and an order between them, and
the theorems hold for any release; two runs are an interrupted one and its repair, or two
that overlap. Calls of the pool take no time, so all four keys may rest at once, and three
callers put two whole requests between a request and its retry; with three ticks keys are
at different distances from the end of their rest. Three calls exceed a limit of two, and
two overlapping analyses a quota of one; counters of different addresses or users do not
meet. Two dispatches lock two hooks in opposite orders; the third is the stale reader that
brings one back. Three account requests are a challenge and two sign-ins with it, two
first sign-ins behind one another, or a key's creation, use and revocation; the older user
allows one step more. Pages of two over lists of two to four have a full last page, a part
of one, and two pages; two changes (`MaxChanges`) move a unit off the pages read and back,
or take its data away and give it back; Kalshi, whose policy and client are those of the
Dome collector, is looked at beside the stream only. Two subscribers suffice to confuse
two answers, two broken connections (`MaxTroubles`) interrupt a resubscription, and four
ids (`MaxIds`) let each be confirmed twice. Deadlock is checked for `DomePool` and
`Application`: elsewhere requests are finite, and a stopped provider may stay stopped.

Fairness. `OrderService!FairSpec` has weak fairness of `Step(r)`: the HTTP client gives
up after 30 seconds, so each await ends, and the event loop runs a coroutine that is
ready. `CrooDispatcher!FairSpec` has weak fairness of the coroutines that handle an
event, a call or a task; for the capability handler only `asyncio.wait_for` justifies it
(its mutant drops the timeout). `Webhooks!FairSpec` has weak fairness of a dispatch's next
step, as a delivery times out after 10 seconds and PostgreSQL finds every deadlock, and of
the commit of a deletion. `Application` has weak fairness of the lifespan's steps, of each
collector's round and teardown, and of the stream's pump and callers: their clients all
have timeouts. Nothing is assumed of buyers, the marketplace, clients, fills, expiry,
crashes, the operator, broken connections, or of the signal that stops the server.

## Proofs

`OrderServiceProofs` proves, for every set of requests and users and every set of
operations, for any quotes and any conversions of them, from `QuoteAssumption` (there is a
quote, and worth and signed amount are natural numbers) and, for the size limit alone,
`SigningAssumption` (the float error is too small to carry an amount past a limit it was
within, which are whole numbers of USDC): type correctness; each safety invariant and both
action properties of the passing runs; and that `OrderService` implements `OrderLedger`.
The properties are not inductive as they stand. `IInv` adds, for each request by the stage
it is at,

* `Standing`: what a request that has not posted may not have left behind;
* `Listing`: what a posting request holds on the exchange and in the row, and that its
  terms respect the limit of some tier;
* `Carrying`: that a payload's terms are those of the build it comes from;
* `Closing`: what a cancel's targets look like at each of its awaits;

and the invariants `AckedOrderIsRecorded` and `DivergenceHasCause`. A step of one
request keeps the facts of the others because an exchange order, once posted, only moves
from live to filled or cancelled with the same terms, and a row only from open to
cancelled (`Forward`); this is proved once and used for every action (`BystanderKeeps`).
The refinement has one lemma per action that does not stutter.

`CrooDispatcherProofs` proves, for all negotiations, services, event copies and
restarts, from `CopiesAssumption`: type correctness, the three invariants of
`CrooOrders`, that orders exist for validated requirements only (`OrdersAreValidated`,
which `SaleLedger` implies) and that `CrooDispatcher` implements `SaleLedger`. `IInv` adds

* `Handled`: a negotiation is handled after it was opened, and its order exists only for a
  valid requirement and once `accept_negotiation` was called;
* `Cached`: a requirement that is cached or may still be has no task, so popping it starts
  the only one;
* `Started`: a task starts with its own event after the payment, so `DegradedHasCause`
  follows: the order exists, hence (`Handled`) accepting it has at least begun, and
  (`Cached`) an accepted one is cached, popped or lost;
* `Awaited`: a task drain() took never goes back to recovering;
* `Fruitful`: a task that delivers has parameters and an envelope;
* `Answered`: a deal with an answer is delivered, and the answer is that of a task past
  its handler.

The refinement maps the deal to `market`, the requirement to `asked`, who took it up to
the tasks that run with the buyer's parameters (`Taken`) and what the buyer received to
what the answering task holds (`Received`). `HandlePaidOrder` takes up (`TakeSale`) if the
requirement is cached, and by `Cached` no task had it before. What was received is final
because nothing writes to the parameters or the envelope of a task past its handler
(`OverIsFinal`), and a delivered deal is not delivered again (`DeliveredStays`).

`DomeKeyPoolProofs` proves, for any number of keys and callers and any cooldown, from
the assumptions that the constants are naturals and there is a key: type correctness,
`RotationIsFair` and `RetryChangesKey`. `RotationIsFair` is not inductive; what is, is
that the handouts that passed a key over and the keys ahead of it in the turn add up to
less than a round (`Turns`), since each handout that passes it over moves the counter
nearer.

`RequestLimitsProofs` proves, for finitely many requests, any addresses, users, limits
and days: type correctness, `PassedWithinLimit`, `LateAnalysisRefused` and
`UntimedHasCause`. `IInv` adds that calls counted in one life of a counter have
different numbers within the counter (`NumbersDiffer`, `Numbered`), so those let through
are mapped one-to-one into the numbers up to the limit; and that until its day is over a
quota counts at least the requests that spent from it (`Counted`), so who reads less
than the limit has fewer than that many ahead of it (`Keyed`). `UntimedHasCause` is
inductive by itself.

`WebhooksProofs` proves, for any hooks, users, events, dispatches and `MAX_FAILURES`, from
`PayingAssumption` and `FailuresAssumption`: type correctness, that a hook carries no more
failures than happened and fails only after enough of them, `SerialCountIsExact` and
`ReactivatedByStaleReader`. The exactness needs that a dispatch knows the committed count
of every hook it has in hand which no other dispatch touched (`HandsKnow`), and that two
with the hook in hand make it `overlapped` when the later one selects it.

`CrooCatalogueProofs` proves, for any operators, release and situations to start from,
from `OfferedAssumption` and `SituationsAssumption`: type correctness and all five
properties of `Marketplace`. `IInv` says of every run that its map holds the first services
of the catalogue as they are listed for its agent (`RunOK`), so one that has as many entries
as the catalogue is complete; and of a run in which nothing went wrong that what is active is
mapped or about to be deactivated (`CleanOK`). The three properties of sales rest on two more
facts. `Truthful`: the file and the provider call a service what it is listed as, and the
provider, the runs and a settled file know this release's slugs only. `Delivers`, proved for
each of the 39 services: no buyer may name what the service presets, and any parameters with
the presets and true required values pass `validate_requirement` and take a branch of the
advertised kind. So the catalogue is compared with the handlers for all parameters, of which
TLC enumerates the classes that a requirement can have. That the file of the situation to
start from is truthful is part of `Installation`; every file a run saves is, by
`FileChangesWhole`. The catalogue is written as the one function on the union of its groups,
since the provers know nothing of TLC's `@@`.

`AccountsProofs` proves, for any requests, wallets, mail addresses and Google accounts,
from `NamesAssumption`: type correctness, `NonceReuseOverlaps`, `ChallengeSurvives`,
`WalletGetsItsAccount` and `KeyWorksUntilRevoked`. `IInv` adds, by concern,

* `AsksOK`: what a request is about fits what it awaits, and what was over before it is
  over still;
* `NonceOK`: a request past its DEL will not meet its nonce again, and one before it either
  still finds that nonce, or none, or one made after it began;
* `RowsOK`, `WalletOK`: rows are unique by id and wallet, and a wallet sign-in that found
  no row has one in its way only if it appeared since;
* `KeysOK`, `ActiveOK`, `PresentedOK`: a key keeps its owner, a revoked key and an inactive
  user have the request that made them so, and a request between its two reads carries the
  owner of its key and has no completed revocation before it.

A step of one request leaves the others where they are (`StepFrame`), and what is over
stays over (`EndedRests`), which carries each part past the steps of others; then one case
per action remains.

`ApplicationProofs` proves, for any deployments, units, page sizes, payloads and bounds, from
`StreamAssumption`, `CollectingAssumption`, `PageAssumption` and `DeploymentsAssumption`: type
correctness and the five invariants of `Application`. `IInv` is one part for each of the three
modules; a step of one leaves the variables of the others alone.

* The stream (`StreamInv`). `StreamCarriesAll` needs what a resubscription has passed so
  far (`ResubOK`: an id taken off `resub.ids` has been sent, unless the dict changed and
  the iteration is about to raise) and that a caller at its send has its frame out
  (`SendersOK`), as it may retain its payload after the pump has gone by.
  `MisattributionHasCause` needs that the requests without an answer are the waiting
  payloads in order, and after them at most that of one caller still at its send
  (`AskedOK`), so the answer that comes is for the first that waits.
* The collectors (`RoundOK`, for each). `SilentLossHasCause` needs that what was listed
  and usable all through a round is stored, logged or still to do, whence nothing that is
  passed over was (`Fresh`), and that only two collectors outlive a refused row
  (`Refusal`). `PagedMissHasCause` needs it page by page (`Reached`): as long as nothing
  moved across the offset, every unit before it is covered. Each of the three changes of a
  list (`LeaveIs`, `ArriveIs`, `MoveIs`) draws the units before the offset from units
  before it, or is marked as a shift.
* The lifespan (`LifespanOK`): what each phase says of the tasks, the pump and the clients;
  `StopLeavesNothing` follows from the phases that come after gathering.

With this every invariant and every action property of the passing runs is a theorem.
Only model-checked: the five liveness properties (`SweepCompletes`, `PaymentIsWorked`,
`DispatchEnds`, `CollectorsKeepGoing`, `ShutdownCompletes`), as liveness under fairness is out
of the provers' reach, and what the violation runs refute. The type invariants of the proved
modules are theorems and no runs.

## What the runs refute

* A payload is not single-use: `submit_order` reads the key, awaits a query, and deletes
  without looking at the count (`service.py:287-319`).
* A buyer may get no response after paying (`dispatcher.py:333`).

Further disagreements need no run. `cancel_all_open` counts orders the exchange did not
cancel (`service.py:217-223`). `drain` waits for the tasks of one moment only
(`dispatcher.py:100-102`). "Nonce is single-use" holds for requests one after the other
only (`api/auth/service.py:126`, `:139`). `check_position_cap` has no caller although the
documentation describes the cap as enforced; a filled order stays cancellable because no
code writes fills into the row. The middleware limits every address to 500 calls,
whatever the tier (`rate_limit.py:73-79` answers "Upgrade to Pro for unlimited access"),
and its counter lasts 24 hours from the first call where `rate-limits.mdx:39` says it
resets at midnight UTC; if the request that made it ended early, it lasts for ever. The
"10 calls/day" of `analysis.mdx:14` can be exceeded by requests that overlap.

## Plan

Done: the order service, the Croo dispatcher, its catalogue and the agent's handlers, Dome
keys and stream, request limits, webhooks, accounts, collectors and the lifespan, each with
its runs; proofs of all invariants and action properties. Worth doing next, in order: the
pages of `list_orders` with equal timestamps; the truncation of envelopes
(`deliverables.py`) as a function of section sizes; the composition of `CrooDispatcher`
with `CrooCatalogue`, in which the service map a task uses changes between acceptance and
execution; positions over the rows of `OrderService`. An abstract specification worth
stating is the supervised task, which every collector and the stream's pump implement.

## Not modelled

Read-only routers and API clients, which keep no state: they have nothing that a step
could break. Portfolio and strategies, which sum and scan rows; `execute_convergence`
never places an order: it passes `OrderService` two arguments where `__init__` takes one
(`strategies/router.py:135`, `orders/service.py:44`), outside its `try`. The Telegram
chat, whose confirmations end in a request to the order service. The live order book proxy
and the WebSocket router, which poll for one connection. `deliverables.py`, which depends
on the byte length of JSON texts, and `buyer_smoke.py`, an operator's script. Prompts,
formatting, fee formulas in floating point, signatures, the frontend and the deployment
files.
