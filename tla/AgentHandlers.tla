---------------------------- MODULE AgentHandlers ----------------------------
(***************************************************************************)
(* The capability handlers of the agent (tg_agent): which branch answers   *)
(* given parameters, and with which kind of result.  The rows and prices   *)
(* themselves are abstract: Outcomes is the set of kinds of result the     *)
(* handler can end with, "error" being {"success": False} or an exception, *)
(* which the orchestrator turns into the same.  A kind is the "_type" of   *)
(* the result, or its one key where a handler sets no "_type".             *)
(***************************************************************************)
EXTENDS CrooServices

\* A query whose every bound value has the type of its column may also fail; asyncpg refuses
\* a bound value of another type, so a query with one always fails.
Query(kind, typed) == IF typed THEN {kind, "error"} ELSE {"error"}

IsText(p, f) == f \in DOMAIN p => p[f] \in Text

Market(p) ==
    CASE Get(p, "action", "search") = "search" -> {"markets", "error"}
      [] Get(p, "action", "search") = "detail" -> {"market", "error"}
      [] OTHER -> {"error"}

\* _scan_convergence needs the Gamma client; the other two need nothing and the database.
Strategy(p) ==
    CASE Get(p, "action", "scan") = "list" -> {"strategies"}
      [] Get(p, "action", "scan") = "scan" -> {"convergence_opportunities", "error"}
      [] Get(p, "action", "scan") = "positions" -> {"convergence_positions", "error"}
      [] OTHER -> {"error"}

Analysis(p) ==
    CASE Get(p, "action", "ask") = "ask" -> {"answer", "error"}
      [] Get(p, "action", "ask") = "scan" -> {"opportunities", "error"}
      [] OTHER -> {"error"}

Nba(p) ==
    CASE Get(p, "action", "list") = "detail" /\ Truthy(p, "game_id") -> Query("nba_detail", IsText(p, "game_id"))
      [] Get(p, "action", "list") = "fusion" /\ Truthy(p, "game_id") -> Query("nba_fusion", IsText(p, "game_id"))
      [] OTHER -> Query("nba_games", TRUE)

Btc(p) ==
    CASE Get(p, "action", "list") = "fusion" /\ Truthy(p, "timeframe") -> Query("btc_fusion", IsText(p, "timeframe"))
      [] Get(p, "action", "list") = "detail" /\ Truthy(p, "timeframe") -> Query("btc_predictions", IsText(p, "timeframe"))
      [] OTHER -> Query("btc_predictions", TRUE)

\* The row is read before the action is looked at; a symbol that is true and no string has
\* no upper().
Crypto(p) ==
    LET action == Get(p, "action", "overview")
    IN  Query(CASE action = "funding" -> "crypto_funding"
                [] action = "oi" -> "crypto_oi"
                [] action = "liquidations" -> "crypto_liquidations"
                [] action = "sentiment" -> "crypto_sentiment"
                [] OTHER -> "crypto_overview",
              Truthy(p, "symbol") => IsText(p, "symbol"))

\* event_date is a column of dates and a decoded JSON value never is a date.
Weather(p) ==
    CASE Get(p, "action", "dates") = "fusion" /\ Truthy(p, "date") /\ Truthy(p, "city") -> Query("weather_fusion", FALSE)
      [] Get(p, "action", "dates") = "cities" /\ Truthy(p, "date") -> Query("weather_cities", FALSE)
      [] OTHER -> Query("weather_dates", TRUE)

Sports(p) ==
    IF Get(p, "action", "categories") = "list" /\ Truthy(p, "sport")
    THEN Query("sports_events", IsText(p, "sport"))
    ELSE Query("sports_categories", TRUE)

\* min_bias_bps is compared with a column of integers as the buyer sent it.
SportsOdds(p) ==
    CASE Get(p, "action", "sports") = "odds" /\ Truthy(p, "sport") -> Query("sports_odds", IsText(p, "sport"))
      [] Get(p, "action", "sports") = "scores" /\ Truthy(p, "sport") -> Query("sports_scores", IsText(p, "sport"))
      [] Get(p, "action", "sports") = "opportunities" ->
             Query("sports_bias_opportunities", Get(p, "min_bias_bps", "number") \in {"number", "zero"})
      [] OTHER -> Query("sports_odds_sports", TRUE)

\* params.get("market_slug") or params.get("query")
DomeMarkets(p) ==
    LET named == Truthy(p, "market_slug") \/ Truthy(p, "query")
        typed == IF Truthy(p, "market_slug") THEN IsText(p, "market_slug") ELSE IsText(p, "query")
    IN  IF Get(p, "action", "list") = "candlesticks" /\ named
        THEN Query("dome_candlesticks", typed)
        ELSE Query("dome_markets", named => typed)

\* Only "opportunities" uses the bound, but whatever is not "spreads" is labelled so.
DomeArb(p) ==
    LET action == Get(p, "action", "spreads")
    IN  Query(IF action = "spreads" THEN "dome_spreads" ELSE "dome_opportunities",
              action = "opportunities" => Get(p, "min_spread_bps", "number") \in {"number", "zero"})

DomeWallets(p) ==
    IF ~Truthy(p, "wallet_address") THEN {"error"}
    ELSE IF Get(p, "action", "positions") = "pnl"
         THEN Query("dome_wallet_pnl", IsText(p, "wallet_address"))
         ELSE Query("dome_wallet_positions", IsText(p, "wallet_address"))

\* These three ask the Dome API itself and fail without a client for it.
DomeCrypto(p) == Query("dome_crypto_price", Truthy(p, "symbol") => IsText(p, "symbol"))

DomeEvents(p) ==
    IF Get(p, "action", "list") = "activity" THEN Query("dome_activity", TRUE) ELSE Query("dome_events", TRUE)

Kalshi(p) ==
    LET action == Get(p, "action", "markets")
        ticker == Truthy(p, "ticker") \/ Truthy(p, "market_id")
    IN  CASE action = "price" /\ ticker -> Query("kalshi_price", TRUE)
          [] action = "trades" -> Query("kalshi_trades", TRUE)
          [] action = "orderbook" /\ ticker -> Query("kalshi_orderbook", TRUE)
          [] OTHER -> Query("kalshi_markets", TRUE)

\* handle_data_feed with _FEED_HANDLERS.
DataFeed(p, dome) ==
    LET feed == Get(p, "feed", "empty")
    IN  CASE feed = "nba" -> Nba(p)
          [] feed = "btc" -> Btc(p)
          [] feed = "crypto" -> Crypto(p)
          [] feed = "weather" -> Weather(p)
          [] feed = "sports" -> Sports(p)
          [] feed = "sports_odds" -> SportsOdds(p)
          [] feed = "dome_markets" -> DomeMarkets(p)
          [] feed = "dome_arbitrage" -> DomeArb(p)
          [] feed = "dome_wallets" -> DomeWallets(p)
          [] feed = "dome_crypto" /\ dome -> DomeCrypto(p)
          [] feed = "dome_events" /\ dome -> DomeEvents(p)
          [] feed = "kalshi" /\ dome -> Kalshi(p)
          [] OTHER -> {"error"}

\* AgentOrchestrator.invoke with the handlers of build_orchestrator that Croo can reach.
Outcomes(capability, p, dome) ==
    CASE capability = "market_query" -> Market(p)
      [] capability = "strategy" -> Strategy(p)
      [] capability = "analysis" -> Analysis(p)
      [] capability = "data_feed" -> DataFeed(p, dome)
      [] OTHER -> {"error"}
=============================================================================
