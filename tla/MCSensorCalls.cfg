CONSTANTS
    Threads = {t1, t2}
    Mixes <- ActivatesOrBatches
    NoCall = NoCall
    Virtual = {"ROTV"}
    Sysfs <- Listed
    MinODR <- Lowest
    MaxODR <- Highest
    DefaultODR <- Defaults
    Periods = {0, 20000000}
SYMMETRY AnyThread
SPECIFICATION RestSpec
INVARIANTS
    CallsPutRight
PROPERTIES
    ImplementsSensors
