SPECIFICATION Spec
CONSTANTS
    u1 = u1 u2 = u2 u3 = u3 u4 = u4
    Unit = {u1, u2, u3, u4}
    Page = 2
    MaxChanges = 2
    Collecting = {"sports_collector", "nba_collector", "btc_collector", "coinglass_collector", "weather_collector", "sports_odds_collector", "dome_market_collector", "kalshi_collector", "wallet_tracker"}
    Payload = {p1, p2}
    MaxTroubles = 2
    MaxIds = 4
    Deployments <- MCDeployments
INVARIANTS
    SilentLossHasCause
    PagedMissHasCause
    StreamCarriesAll
    MisattributionHasCause
    StopLeavesNothing
PROPERTIES
    CollectorsKeepGoing
    ShutdownCompletes
