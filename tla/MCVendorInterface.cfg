CONSTANTS
    FwOpcodes <- MCFwOpcodes
    LpmOpcode = "sleepMode"
    LpmTransmits = TRUE
    StackOpcodes = {"reset", "caps"}
    CapsOpcode = "caps"
    ScoOutcomes = {"success", "failure", "later"}
    FdCounts = {0, 1}
    MaxCommands = 1
    MaxEvents = 1
SPECIFICATION FairSpec
INVARIANTS
    WakeAssertedOnWrite
    RoutedToOrigin
PROPERTIES
    SleepsWhenIdle
    FirmwareEventuallyConfigured
    CloseCompletes
