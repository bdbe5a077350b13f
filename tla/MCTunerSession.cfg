\* A client that calls at any time and a driver that may refuse.
CONSTANTS
    Ranges <- SmallRanges
    Programs = {1, 5, 12}
    GetBand <- SmallGetBand
    Delay <- SmallDelays
    MaxCalls = 4
SPECIFICATION FairSpec
INVARIANTS
    IncompleteIsPending
    AtMostTwoChains
PROPERTIES
    StepStaysInRange
    TunedInItsBand
    ClosedQuiesces
\* A closed or destroyed session has nothing left to do.
CHECK_DEADLOCK FALSE
