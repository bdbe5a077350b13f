\* Writes and the event flag may fail, and the framework may restart.  0 asks for the
\* highest rate.
CONSTANTS
    Virtual = {"GRAV", "ROTV"}
    Sysfs <- Listed
    MinODR <- Lowest
    MaxODR <- Highest
    DefaultODR <- Defaults
    Periods = {0, 20000000}
    TickModulus = 1024
    FirstTicks = {1023}
    MaxInits = 2
SPECIFICATION Spec
INVARIANTS
    ListenersFollow
    SwitchFollows
    TriggerIsMax
    SampledAtItsRate
