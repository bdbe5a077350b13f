\* Clients that come one after the other, or at the same time.
CONSTANTS
    Clients = {c1, c2}
    NoClient = NoClient
    MaxLinks = 2
SPECIFICATION Spec
INVARIANTS
    NoFatal
    NoOrphanedSession
PROPERTY EndedByItsClient
\* With overlapping clients the process may abort.
CHECK_DEADLOCK FALSE
