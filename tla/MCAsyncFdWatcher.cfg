\* Two descriptors (the MCT transport watches two), a pipe of two bytes.
CONSTANTS
    Fds = {3, 4}
    TimeoutCbs = {OnTimeout}
    ZeroCb = ZeroCb
    NoCb = NoCb
    PipeCapacity = 2
    PipeMayFail = TRUE
SPECIFICATION WatcherFairSpec
INVARIANTS
    NoLostWakeup
    StopIsFinal
    CallbacksValid
    ZeroTimeoutNeverFires
PROPERTIES
    StopCompletes
    DataServed
