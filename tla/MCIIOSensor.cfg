\* A buffer of two: a flush with its additional event fills it.
CONSTANTS
    MaxSize = 2
    InfoEvents = 1
    Granule = 3
    MaxStamp = 4
    MaxFlushes = 2
SPECIFICATION FairSpec
INVARIANTS
    FlushesKept
    LateOnlyInHand
PROPERTIES
    TimestampsInOrder
    FlushAnswered
