\* The second failed read of a device ends the threads; a virtual sensor is disabled once.
CONSTANTS
    VirtualGroups <- GravityAndRotation
    Toggled = {"GRAV"}
    MaxReadRetries = 1
    MaxDeactivates = 1
SPECIFICATION FairSpec
INVARIANTS
    FusedOnce
PROPERTIES
    SomebodyNotified
    BothEnd
