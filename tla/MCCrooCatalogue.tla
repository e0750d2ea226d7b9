-------------------------- MODULE MCCrooCatalogue --------------------------
EXTENDS CrooCatalogue

Complete == <<"market_search", "market_detail", "strategy_list", "strategy_scan_convergence", "analysis_ask",
    "analysis_scan", "nba_list", "nba_detail", "nba_fusion", "btc_list", "btc_detail", "btc_fusion",
    "crypto_overview", "crypto_funding", "crypto_oi", "crypto_liquidations", "crypto_sentiment",
    "weather_dates", "weather_cities", "weather_fusion", "sports_categories", "sports_events",
    "sports_odds_sports", "sports_odds_bookmaker", "sports_odds_scores", "sports_odds_opportunities",
    "dome_markets_list", "dome_markets_candles", "dome_arb_spreads", "dome_arb_opportunities",
    "dome_wallet_positions", "dome_wallet_pnl", "dome_crypto_price", "dome_events_list",
    "dome_events_activity", "kalshi_markets", "kalshi_price", "kalshi_trades", "kalshi_orderbook">>

ASSUME {Complete[n] : n \in DOMAIN Complete} = Slugs

Release == <<"nba_detail", "strategy_list">>

Installed(slugs, more) ==
    [agents |-> 1, listing |-> [i \in DOMAIN slugs |-> [agent |-> 1, slug |-> slugs[i], status |-> "active"]],
     file |-> [agent |-> 1, services |-> slugs], runs |-> more]

\* Nothing yet; an installation of this release's first service and one it no longer knows;
\* the whole catalogue, with no more runs.
Starts == {[agents |-> 0, listing |-> <<>>, file |-> NoFile, runs |-> 2],
           Installed(<<"strategy_list", "market_query">>, 2),
           Installed(Complete, 0)}
=============================================================================
