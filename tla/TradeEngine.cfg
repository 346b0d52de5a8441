SPECIFICATION Spec
CONSTANTS
    QtyMod = 16
    DefaultLimits <- MCDefaultLimits
    Tickers = {1, 2}
    max_events_per_cycle = 2
    enable_risk_checks = TRUE
    Limits <- MCLimits
    Orders <- MCOrders
    Updates <- MCUpdates
    Bbos <- MCBbos
    MaxCalls = 3
    MaxInFlight = 2
INVARIANTS TracksLiveOrders LeavesMatchExchange PositionMatchesExchange
    OpenQtyCoversOrders CountsTrackedOrders PnlAccountsForFills
    ExposureBounded
