---------------------------- MODULE CrooServices ----------------------------
(***************************************************************************)
(* The catalogue of the Croo provider (croo_agent/services.py): what each  *)
(* service fixes, what its buyer must and may say, and the validation of a *)
(* buyer's requirement.  A requirement is a function from the fields the   *)
(* buyer sent to the class of the value sent:                              *)
(*    "word"    a string with a visible character                          *)
(*    "spaces"  a string of white space        "empty"  the string ""      *)
(*    "null"    null                           "zero"   0, false, [] or {} *)
(*    "number"  any other value that is not a string                       *)
(* Parameters are the same with the presets, whose values are themselves.  *)
(***************************************************************************)
EXTENDS TLC

Text == {"word", "spaces", "empty"}
Value == Text \union {"null", "zero", "number"}

\* Python's truth of params.get(f): presets are non-empty strings.
Truthy(p, f) == f \in DOMAIN p /\ p[f] \notin {"empty", "null", "zero"}

\* params.get(f, default)
Get(p, f, default) == IF f \in DOMAIN p THEN p[f] ELSE default

Service(capability, preset, required, optional) ==
    [capability |-> capability, preset |-> preset, required |-> required, optional |-> optional]
Feed(feed, action, required, optional) ==
    Service("data_feed", [feed |-> feed, action |-> action], required, optional)

MarketServices ==
    [market_search |-> Service("market_query", [action |-> "search"], {"query"}, {}),
     market_detail |-> Service("market_query", [action |-> "detail"], {"market_id"}, {})]

StrategyServices ==
    [strategy_list             |-> Service("strategy", [action |-> "list"], {}, {}),
     strategy_scan_convergence |-> Service("strategy", [action |-> "scan"], {}, {})]

AnalysisServices ==
    [analysis_ask  |-> Service("analysis", [action |-> "ask"], {"question"}, {}),
     analysis_scan |-> Service("analysis", [action |-> "scan"], {}, {"category"})]

NbaServices ==
    [nba_list   |-> Feed("nba", "list", {}, {}),
     nba_detail |-> Feed("nba", "detail", {"game_id"}, {}),
     nba_fusion |-> Feed("nba", "fusion", {"game_id"}, {})]

BtcServices ==
    [btc_list   |-> Feed("btc", "list", {}, {}),
     btc_detail |-> Feed("btc", "detail", {"timeframe"}, {}),
     btc_fusion |-> Feed("btc", "fusion", {"timeframe"}, {})]

CryptoServices ==
    [crypto_overview     |-> Feed("crypto", "overview", {}, {"symbol"}),
     crypto_funding      |-> Feed("crypto", "funding", {}, {"symbol"}),
     crypto_oi           |-> Feed("crypto", "oi", {}, {"symbol"}),
     crypto_liquidations |-> Feed("crypto", "liquidations", {}, {"symbol"}),
     crypto_sentiment    |-> Feed("crypto", "sentiment", {}, {"symbol"})]

WeatherServices ==
    [weather_dates  |-> Feed("weather", "dates", {}, {}),
     weather_cities |-> Feed("weather", "cities", {"date"}, {}),
     weather_fusion |-> Feed("weather", "fusion", {"date", "city"}, {})]

SportsServices ==
    [sports_categories |-> Feed("sports", "categories", {}, {}),
     sports_events     |-> Feed("sports", "list", {"sport"}, {})]

\* Mutant: the preset has the slug's word for the action, not the handler's.
SportsOddsServicesMisnamed ==
    [sports_odds_sports        |-> Feed("sports_odds", "sports", {}, {}),
     sports_odds_bookmaker     |-> Feed("sports_odds", "bookmaker", {"sport"}, {}),
     sports_odds_scores        |-> Feed("sports_odds", "scores", {"sport"}, {}),
     sports_odds_opportunities |-> Feed("sports_odds", "opportunities", {}, {"min_bias_bps"})]

SportsOddsServices ==
    [sports_odds_sports        |-> Feed("sports_odds", "sports", {}, {}),
     sports_odds_bookmaker     |-> Feed("sports_odds", "odds", {"sport"}, {}),
     sports_odds_scores        |-> Feed("sports_odds", "scores", {"sport"}, {}),
     sports_odds_opportunities |-> Feed("sports_odds", "opportunities", {}, {"min_bias_bps"})]

DomeMarketServices ==
    [dome_markets_list    |-> Feed("dome_markets", "list", {}, {"market_slug", "query"}),
     dome_markets_candles |-> Feed("dome_markets", "candlesticks", {"market_slug"}, {})]

DomeArbServices ==
    [dome_arb_spreads       |-> Feed("dome_arbitrage", "spreads", {}, {"min_spread_bps"}),
     dome_arb_opportunities |-> Feed("dome_arbitrage", "opportunities", {}, {"min_spread_bps"})]

DomeWalletServices ==
    [dome_wallet_positions |-> Feed("dome_wallets", "positions", {"wallet_address"}, {}),
     dome_wallet_pnl       |-> Feed("dome_wallets", "pnl", {"wallet_address"}, {})]

DomeLiveServices ==
    [dome_crypto_price    |-> Service("data_feed", [feed |-> "dome_crypto"], {}, {"symbol", "source"}),
     dome_events_list     |-> Feed("dome_events", "list", {}, {}),
     dome_events_activity |-> Feed("dome_events", "activity", {}, {})]

KalshiServices ==
    [kalshi_markets   |-> Feed("kalshi", "markets", {}, {"query"}),
     kalshi_price     |-> Feed("kalshi", "price", {"ticker"}, {}),
     kalshi_trades    |-> Feed("kalshi", "trades", {"ticker"}, {}),
     kalshi_orderbook |-> Feed("kalshi", "orderbook", {"ticker"}, {})]

Groups == {MarketServices, StrategyServices, AnalysisServices, NbaServices, BtcServices, CryptoServices,
           WeatherServices, SportsServices, SportsOddsServices, DomeMarketServices, DomeArbServices,
           DomeWalletServices, DomeLiveServices, KalshiServices}

Slugs == UNION {DOMAIN g : g \in Groups}

SPECS == [slug \in Slugs |-> (CHOOSE g \in Groups : slug \in DOMAIN g)[slug]]

Allowed(spec) == spec.required \union spec.optional

\* validate_against_binding: no preset is overridden, what is required is there and, when it
\* is a string, not blank, and nothing else is sent.
Binds(spec, req) ==
    /\ DOMAIN spec.preset \intersect DOMAIN req = {}
    /\ \A f \in spec.required : f \in DOMAIN req /\ req[f] \notin {"null", "empty", "spaces"}
    /\ DOMAIN req \subseteq Allowed(spec)

\* merge_params: fields that are not allowed are dropped and the presets win.
Merge(spec, req) == [f \in DOMAIN spec.preset \union (DOMAIN req \intersect Allowed(spec)) |->
                        IF f \in DOMAIN spec.preset THEN spec.preset[f] ELSE req[f]]

\* Mutant: a domain added to the handlers was not added here.
DATA_FEED_DOMAINS_Stale ==
    {"nba", "btc", "crypto", "weather", "sports", "sports_odds", "dome_markets",
     "dome_arbitrage", "dome_crypto", "dome_events", "kalshi"}

DATA_FEED_DOMAINS ==
    {"nba", "btc", "crypto", "weather", "sports", "sports_odds", "dome_markets",
     "dome_arbitrage", "dome_wallets", "dome_crypto", "dome_events", "kalshi"}

\* validate_requirement: the second check, on the merged parameters.
Permits(capability, p) ==
    \/ /\ capability = "market_query"
       /\ \/ Get(p, "action", "null") = "search" /\ Truthy(p, "query")
          \/ Get(p, "action", "null") = "detail" /\ Truthy(p, "market_id")
    \/ capability = "data_feed" /\ Get(p, "feed", "null") \in DATA_FEED_DOMAINS
    \/ capability = "strategy" /\ Get(p, "action", "null") \in {"list", "scan"}
    \/ /\ capability = "analysis"
       /\ \/ Get(p, "action", "null") = "ask" /\ Truthy(p, "question")
          \/ Get(p, "action", "null") = "scan"

Accepts(spec, req) == Binds(spec, req) /\ Permits(spec.capability, Merge(spec, req))

\* requirement_schema_json: what the marketplace shows a buyer -- strings, the required ones
\* present, no others.
Conforms(spec, req) ==
    /\ spec.required \subseteq DOMAIN req
    /\ DOMAIN req \subseteq Allowed(spec)
    /\ \A f \in DOMAIN req : req[f] \in Text
=============================================================================
