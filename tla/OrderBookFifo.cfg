SPECIFICATION OrderBookSpec
CONSTANTS
    N = 3
    QtyMod = 4
    OrderIds = {1, 2, 3, 4}
    Clients = {1}
    Prices = {10}
    OrderQtys = {1, 3}
    MaxAdds = 4
INVARIANT
    LevelListIsFifo
