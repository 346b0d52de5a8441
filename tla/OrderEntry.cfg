SPECIFICATION FairSpec
CONSTANTS
    N = 2
    QtyMod = 4
    Tickers = {1}
    Prices = {1}
    OrderQtys = {1}
    OrderSides = {1}
    Gateways = {1, 2}
    MaxConns = 2
    SendBuffer = 6
    MaxRequests = 3
INVARIANTS TypeOK AnswerableClients RequestsInOrder ResponsesMatchRequests SequencedOnce
PROPERTY EveryRequestAnswered
CHECK_DEADLOCK FALSE
