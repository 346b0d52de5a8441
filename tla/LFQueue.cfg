SPECIFICATION FairQueueSpec
CONSTANTS
    N = 4
    W = 8
    Items = {a, b}
    NoItem = NoItem
    MaxPushes = 10
INVARIANTS
    AccessesOrdered
    LenOneSided
PROPERTIES
    ImplementsFifo
    DropDrains
