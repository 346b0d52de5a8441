SPECIFICATION LoggerSpec
CONSTANTS
    Capacity = 2
    StaleLoads = TRUE
    LogLevels = {0, 1}
    MaxLogs = 4
INVARIANT
    LoggerTyped
PROPERTIES
    EntriesReachOutput
    FlushReturns
    DropReturns
CHECK_DEADLOCK FALSE
