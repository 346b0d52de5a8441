SPECIFICATION Spec
CONSTANTS
    Tickers = {1}
    enable_snapshots = TRUE
    snapshot_interval = 2
    SendFails = TRUE
    Receivers = {r1}
    Ids = {a, b}
    Flows <- MCFlows
    Lossy = TRUE
    SocketBuffer = 1
    MaxCount = 4
INVARIANTS QuotesBacked BBOBacked SnapshotDue
SYMMETRY Symmetry
