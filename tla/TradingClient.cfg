SPECIFICATION Spec
CONSTANTS
    QtyMod = 16
    DefaultLimits <- MCLimits
    mm_config <- MCMarketMaker
    lt_config <- MCLiquidityTaker
    Tickers = {1, 2}
    Strategies = {"MarketMaker", "LiquidityTaker"}
    Updates <- MCUpdates
    MaxBatch = 2
    MaxOrders = 4
    MaxInFlight = 2
INVARIANTS TypeOK PositionsAgree OpenQtyCoversBook
PROPERTIES QuietOrdersWithinLimit TakerSpaced
CHECK_DEADLOCK FALSE
