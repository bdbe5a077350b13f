\* A sensor that needs all three hardware sensors; lists of two.
CONSTANTS
    Mode = "9AXIS"
    MaxFusionData = 2
    MaxFlushes = 1
    MaxActivates = 2
    InjectMax = 1
SPECIFICATION VirtualFairSpec
INVARIANTS
    FlushEventsAsked
PROPERTIES
    InjectedPosted
    DataComputed
