---------------------------- MODULE CrooCatalogue ----------------------------
(***************************************************************************)
(* The catalogue of services at the Croo marketplace, the credentials file *)
(* that maps service ids to slugs, the operator's runs of setup_cli that   *)
(* create both, the provider process that loads the file once, and buyers  *)
(* who order what is listed.  Every call to the marketplace may fail with  *)
(* or without having taken effect, a run may be killed between any two     *)
(* calls, and runs may overlap.  A purchase (negotiation, payment and the  *)
(* handler's work, interleaved in CrooDispatcher) is one step here.        *)
(***************************************************************************)
EXTENDS AgentHandlers, Naturals, Sequences, FiniteSets

CONSTANTS
    Operator,    \* shells that may run setup_cli
    Offered,     \* get_service_specs(): the slugs of this release in order
    Situations   \* what the model may start from: agents, listing, file and the runs to come

VARIABLES
    agents,      \* how many agents the operator's wallet has deployed
    listing,     \* services at the marketplace by id: agent, slug, status
    file,        \* .credentials.json: the agent and its {service id: slug}; or NoFile
    run,         \* the run of each operator
    runs,        \* runs still to be started (a bound)
    provider,    \* the live provider's agent, service_map and Dome client; or Off
    \* history
    clean,       \* nothing went wrong in the run and no other run acted during it
    settled,     \* the file is that of a clean run and no run has acted since
    sale         \* the last step, if it was a purchase
vars == <<agents, listing, file, run, runs, provider, clean, settled, sale>>

NoFile == [agent |-> 0, services |-> <<>>]
Off == [agent |-> 0, map |-> <<>>, dome |-> FALSE]
NoSale == [slug |-> "none", result |-> "none", conforming |-> FALSE, falsy |-> FALSE, current |-> FALSE]
Idle == [pc |-> "idle", agent |-> 0, todo |-> {}, map |-> <<>>, id |-> 0]

Installation(s) ==
    /\ s.agents \in Nat /\ s.runs \in Nat
    /\ s.listing \in Seq([agent : 1..s.agents, slug : STRING, status : {"draft", "active", "inactive"}])
    /\ s.file = NoFile \/ s.file.agent \in 1..s.agents
    /\ s.file.services \in [DOMAIN s.file.services -> STRING]
    /\ DOMAIN s.file.services \subseteq DOMAIN s.listing
    /\ \A i \in DOMAIN s.file.services : s.file.services[i] = s.listing[i].slug
    /\ s.file = [agent |-> s.file.agent, services |-> s.file.services]

ASSUME OfferedAssumption == Offered \in Seq(Slugs \intersect STRING) /\ Offered # <<>>
ASSUME SituationsAssumption == \A s \in Situations : Installation(s)

Ids == DOMAIN listing
Active(a) == {i \in Ids : listing[i].agent = a /\ listing[i].status = "active"}

TypeOK ==
    /\ agents \in Nat /\ runs \in Nat
    /\ \A i \in Ids : /\ listing[i].agent \in 1..agents
                      /\ listing[i].status \in {"draft", "active", "inactive"}
    /\ file.agent \in 0..agents
    /\ DOMAIN file.services \subseteq Ids
    /\ \A o \in Operator :
          /\ run[o].pc \in {"idle", "list", "setup", "work", "activate"}
          /\ run[o].agent \in 0..agents
          /\ run[o].todo \subseteq Ids /\ DOMAIN run[o].map \subseteq Ids
          /\ run[o].pc = "activate" => run[o].id \in DOMAIN run[o].map
    /\ provider.agent \in 0..agents /\ DOMAIN provider.map \subseteq Ids
    /\ clean \in [Operator -> BOOLEAN] /\ settled \in BOOLEAN

Init ==
    /\ \E s \in Situations : /\ agents = s.agents /\ listing = s.listing
                             /\ file = s.file /\ runs = s.runs
    /\ run = [o \in Operator |-> Idle]
    /\ provider = Off
    /\ clean = [o \in Operator |-> FALSE]
    /\ settled = FALSE
    /\ sale = NoSale

-----------------------------------------------------------------------------
(* setup_cli *)

\* A step of run o changes the marketplace or the file.
Acts(o) == /\ settled' = FALSE
           /\ clean' = [p \in Operator |-> p = o /\ clean[o]]

Ends(o) == run' = [run EXCEPT ![o] = Idle] /\ sale' = NoSale

Advance(o, r) == run' = [run EXCEPT ![o] = r] /\ sale' = NoSale

Started(o) == /\ run[o].pc = "idle" /\ runs > 0
              /\ runs' = runs - 1
              /\ clean' = [clean EXCEPT ![o] = TRUE]

\* _run_setup --rebuild: the credentials are loaded (there must be some), then login.
Rebuild(o) ==
    /\ Started(o)
    /\ file # NoFile
    /\ Advance(o, [Idle EXCEPT !.pc = "list", !.agent = file.agent])
    /\ UNCHANGED <<agents, listing, file, provider, settled>>

\* _run_setup without --rebuild (an existing file is overwritten in the end, if confirmed)
Setup(o) ==
    /\ Started(o)
    /\ Advance(o, [Idle EXCEPT !.pc = "setup"])
    /\ UNCHANGED <<agents, listing, file, provider, settled>>

\* Mutant: only the services of the file are deactivated.
ListKnownServices(o) ==
    /\ run[o].pc = "list"
    /\ Advance(o, [run[o] EXCEPT !.pc = "work", !.todo = Active(run[o].agent) \intersect DOMAIN file.services])
    /\ UNCHANGED <<agents, listing, file, runs, provider, clean, settled>>

\* list_services of the agent; what is not active is left alone.
ListServices(o) ==
    /\ run[o].pc = "list"
    /\ Advance(o, [run[o] EXCEPT !.pc = "work", !.todo = Active(run[o].agent)])
    /\ UNCHANGED <<agents, listing, file, runs, provider, clean, settled>>

\* update_service(INACTIVE): a failure is logged and the run continues.
Deactivate(o) ==
    /\ run[o].pc = "work"
    /\ \E i \in run[o].todo :
          /\ Advance(o, [run[o] EXCEPT !.todo = @ \ {i}])
          /\ \/ /\ listing' = [listing EXCEPT ![i].status = "inactive"]
                /\ Acts(o)
             \/ /\ clean' = [clean EXCEPT ![o] = FALSE]
                /\ UNCHANGED <<listing, settled>>
    /\ UNCHANGED <<agents, file, runs, provider>>

NewId == Len(listing) + 1
With(map, id, slug) == [i \in DOMAIN map \union {id} |-> IF i = id THEN slug ELSE map[i]]
Listed(a, slug, status) == Append(listing, [agent |-> a, slug |-> slug, status |-> status])

\* Mutant: the service that setup_agent registers is left out of the map.
SetupAgentUnmapped(o) ==
    /\ run[o].pc = "setup"
    /\ agents' = agents + 1
    /\ Acts(o)
    /\ listing' = Listed(agents + 1, Offered[1], "active")
    /\ Advance(o, [run[o] EXCEPT !.pc = "work", !.agent = agents + 1])
    /\ UNCHANGED <<file, runs, provider>>

\* setup_agent: a new agent with its first service, active.  When the call fails, the agent
\* may be there all the same, with or without the service.
SetupAgent(o) ==
    /\ run[o].pc = "setup"
    /\ agents' = agents + 1
    /\ Acts(o)
    /\ \/ /\ listing' = Listed(agents + 1, Offered[1], "active")
          /\ Advance(o, [run[o] EXCEPT !.pc = "work", !.agent = agents + 1, !.map = With(<<>>, NewId, Offered[1])])
       \/ /\ listing' = Listed(agents + 1, Offered[1], "active")
          /\ Ends(o)
       \/ /\ listing' = listing
          /\ Ends(o)
    /\ UNCHANGED <<file, runs, provider>>

\* create_service of the next slug; a failure ends the run.
Create(o) ==
    /\ run[o].pc = "work" /\ run[o].todo = {}
    /\ LET n == Cardinality(DOMAIN run[o].map) + 1
       IN  /\ n <= Len(Offered)
           /\ \E status \in {"draft", "active"} : listing' = Listed(run[o].agent, Offered[n], status)
           /\ \/ Advance(o, [run[o] EXCEPT !.pc = "activate", !.id = NewId, !.map = With(@, NewId, Offered[n])])
              \/ Ends(o)
    /\ Acts(o)
    /\ UNCHANGED <<agents, file, runs, provider>>

\* update_service(ACTIVE): a failure is logged and the service may stay a draft.
Activate(o) ==
    /\ run[o].pc = "activate"
    /\ Advance(o, [run[o] EXCEPT !.pc = "work", !.id = 0])
    /\ \/ /\ listing' = [listing EXCEPT ![run[o].id].status = "active"]
          /\ Acts(o)
       \/ UNCHANGED <<listing, clean, settled>>
    /\ UNCHANGED <<agents, file, runs, provider>>

\* Mutant: what a run has so far is saved.
SavePartial(o) ==
    /\ run[o].pc = "work" /\ run[o].todo = {} /\ run[o].map # <<>>
    /\ file' = [agent |-> run[o].agent, services |-> run[o].map]
    /\ settled' = clean[o]
    /\ clean' = [p \in Operator |-> FALSE]
    /\ Ends(o)
    /\ UNCHANGED <<agents, listing, runs, provider>>

\* credentials.save: a temporary file that replaces the old one, with the agent loaded or
\* deployed and the new map.
Save(o) ==
    /\ run[o].pc = "work" /\ run[o].todo = {} /\ Cardinality(DOMAIN run[o].map) = Len(Offered)
    /\ file' = [agent |-> run[o].agent, services |-> run[o].map]
    /\ settled' = clean[o]
    /\ clean' = [p \in Operator |-> FALSE]
    /\ Ends(o)
    /\ UNCHANGED <<agents, listing, runs, provider>>

\* A call raises without having taken effect, the save fails, or the run is interrupted.
Abort(o) ==
    /\ run[o].pc # "idle"
    /\ Ends(o)
    /\ UNCHANGED <<agents, listing, file, runs, provider, clean, settled>>

-----------------------------------------------------------------------------
(* The provider *)

\* run_provider: without a file, or without a service whose slug this release knows, it exits
\* (codes 4 to 6).  Services with unknown slugs are dropped.
Resolved(services) == [i \in {j \in DOMAIN services : services[j] \in Slugs} |-> services[i]]

Start ==
    /\ provider = Off
    /\ Resolved(file.services) # <<>>
    /\ \E dome \in BOOLEAN :
          provider' = [agent |-> file.agent, map |-> Resolved(file.services), dome |-> dome]
    /\ sale' = NoSale
    /\ UNCHANGED <<agents, listing, file, run, runs, clean, settled>>

Stop ==
    /\ provider # Off
    /\ provider' = Off
    /\ sale' = NoSale
    /\ UNCHANGED <<agents, listing, file, run, runs, clean, settled>>

-----------------------------------------------------------------------------
(* Buyers *)

\* What the marketplace shows of a slug; one of an earlier release has no entry.
Published(slug) == IF slug \in Slugs THEN SPECS[slug] ELSE Service("none", <<>>, {}, {})

Partial(fields) == UNION {[sent -> Value] : sent \in SUBSET fields}

\* Any values for the service's own fields, and perhaps a field that is not one of them.
Requirements(spec) ==
    {own @@ other : own \in Partial(Allowed(spec)),
                    other \in {<<>>} \union {[f \in {g} |-> "word"] : g \in DOMAIN spec.preset \union {"stranger"}}}

\* The dispatcher's answer: an unknown service id, a rejected requirement, or what the
\* handler ends with, "error" also being a timeout.
Answers(id, req) ==
    IF id \notin DOMAIN provider.map THEN {"unknown"}
    ELSE LET spec == SPECS[provider.map[id]]
         IN  IF ~Accepts(spec, req) THEN {"invalid"}
             ELSE {"error"} \union Outcomes(spec.capability, Merge(spec, req), provider.dome)

\* The provider's map is that of the settled file.
Current == settled /\ provider.agent = file.agent /\ provider.map = Resolved(file.services)

Buy ==
    /\ provider # Off
    /\ \E id \in Active(provider.agent) :
          LET spec == Published(listing[id].slug)
          IN  \E req \in Requirements(spec) : \E result \in Answers(id, req) :
                 sale' = [slug |-> listing[id].slug, result |-> result,
                          conforming |-> Conforms(spec, req) /\ \A f \in spec.required : req[f] = "word",
                          falsy |-> \E f \in spec.required \intersect DOMAIN req : req[f] = "zero",
                          current |-> Current]
    /\ UNCHANGED <<agents, listing, file, run, runs, provider, clean, settled>>

SetupStep(o) == \/ Rebuild(o) \/ Setup(o) \/ ListServices(o) \/ Deactivate(o) \/ SetupAgent(o)
                \/ Create(o) \/ Activate(o) \/ Save(o) \/ Abort(o)
Next == Start \/ Stop \/ Buy \/ \E o \in Operator : SetupStep(o)

Spec == Init /\ [][Next]_vars

-----------------------------------------------------------------------------
(* Properties *)

\* The kind of result the name and description of each service promise.
Advertised ==
    [market_search |-> "markets", market_detail |-> "market",
     strategy_list |-> "strategies", strategy_scan_convergence |-> "convergence_opportunities",
     analysis_ask |-> "answer", analysis_scan |-> "opportunities",
     nba_list |-> "nba_games", nba_detail |-> "nba_detail", nba_fusion |-> "nba_fusion",
     btc_list |-> "btc_predictions", btc_detail |-> "btc_predictions", btc_fusion |-> "btc_fusion",
     crypto_overview |-> "crypto_overview", crypto_funding |-> "crypto_funding", crypto_oi |-> "crypto_oi",
     crypto_liquidations |-> "crypto_liquidations", crypto_sentiment |-> "crypto_sentiment",
     weather_dates |-> "weather_dates", weather_cities |-> "weather_cities", weather_fusion |-> "weather_fusion",
     sports_categories |-> "sports_categories", sports_events |-> "sports_events",
     sports_odds_sports |-> "sports_odds_sports", sports_odds_bookmaker |-> "sports_odds",
     sports_odds_scores |-> "sports_scores", sports_odds_opportunities |-> "sports_bias_opportunities",
     dome_markets_list |-> "dome_markets", dome_markets_candles |-> "dome_candlesticks",
     dome_arb_spreads |-> "dome_spreads", dome_arb_opportunities |-> "dome_opportunities",
     dome_wallet_positions |-> "dome_wallet_positions", dome_wallet_pnl |-> "dome_wallet_pnl",
     dome_crypto_price |-> "dome_crypto_price",
     dome_events_list |-> "dome_events", dome_events_activity |-> "dome_activity",
     kalshi_markets |-> "kalshi_markets", kalshi_price |-> "kalshi_price",
     kalshi_trades |-> "kalshi_trades", kalshi_orderbook |-> "kalshi_orderbook"]

\* Whatever a buyer says of a listed service, the presets, both validations and the handler's
\* branches end in the kind of result the service advertises, or in an error -- never in the
\* branch of another service.  The one way to the default branch is a required value that is
\* false without being a string: validate_against_binding lets it pass, and the handlers test
\* `action == ... and value`.
AnswerIsAdvertised ==
    sale.result \in {"none", "unknown", "invalid", "error"} \/ sale.falsy
        \/ sale.result = Advertised[sale.slug]

\* The two validations never reject what the published schema allows: who sends a non-blank
\* string for every required field and strings for optional ones is never told it is invalid.
ConformingIsAccepted == sale.conforming => sale.result # "invalid"

\* After a run that went well (its deactivations succeeded and no other run acted during it,
\* or since), the agent's active services are all in the file, under the slug they were listed
\* with, whatever earlier runs left at the marketplace when they failed or were killed.
SettledCatalogueIsWhole ==
    settled => \A i \in Active(file.agent) : /\ i \in DOMAIN file.services
                                              /\ file.services[i] = listing[i].slug

\* A buyer of an active service is turned away as unknown only if the operator's last run left
\* the catalogue unsettled or the provider still runs with an older file.
UnknownServiceHasCause == sale.result = "unknown" => ~sale.current

\* The file only ever changes to a complete catalogue: each slug of the release under exactly
\* one id, of a service that is listed for the file's agent -- not what a failed, killed or
\* overlapping run had so far.
FileChangesWhole ==
    [][file' # file =>
          /\ \A n \in DOMAIN Offered : \E i \in DOMAIN file'.services : file'.services[i] = Offered[n]
          /\ Cardinality(DOMAIN file'.services) = Len(Offered)
          /\ \A i \in DOMAIN file'.services : /\ listing[i].agent = file'.agent
                                              /\ listing[i].slug = file'.services[i]]_vars
=============================================================================
