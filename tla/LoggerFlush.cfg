SPECIFICATION LoggerSpec
CONSTANTS
    Capacity = 2
    StaleLoads = FALSE
    LogLevels = {0, 1}
    MaxLogs = 3
INVARIANT
    FlushWritesAll
CHECK_DEADLOCK FALSE
