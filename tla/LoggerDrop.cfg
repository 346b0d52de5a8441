SPECIFICATION LoggerSpec
CONSTANTS
    Capacity = 2
    StaleLoads = TRUE
    LogLevels = {0, 1}
    MaxLogs = 3
INVARIANT
    DropWritesAll
CHECK_DEADLOCK FALSE
