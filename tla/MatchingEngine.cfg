SPECIFICATION Spec
CONSTANTS
    N = 2
    QtyMod = 4
    Tickers = {1, 2}
    Clients = {1}
    Prices = {10}
    OrderQtys = {1, 2}
    ClientOrderIds = {7}
    MaxOrderId = 3
INVARIANTS
    BooksSound
    MarketIdsUnique
    ResponsesMirrorBooks
    FeedMirrorsBooks
PROPERTIES
    MarketIdsNotReused
    RejectionsChangeNothing
