\* The session is destroyed while its worker runs.
CONSTANTS
    Ranges <- SmallRanges
    Programs = {1, 10}
    GetBand <- SmallGetBand
    Delay <- SmallDelays
    MaxCalls = 3
SPECIFICATION Spec
INVARIANT NoUseAfterDestruction
CHECK_DEADLOCK FALSE
