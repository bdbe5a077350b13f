CONSTANTS
    ByteMod = 5
    Packets <- MCPackets
    MaxPackets = 2
    FdCounts = {1, 2, 3}
    OutPackets <- MCOutPackets
    MaxOutgoing = 3
    UartCapacity = 4
SPECIFICATION FairSpec
INVARIANTS
    OutgoingWhole
PROPERTIES
    H4ImplementsLink
    MctImplementsLinks
\* All packets are sent, or LOG_ALWAYS_FATAL ends the process.
CHECK_DEADLOCK FALSE
