\* Three threads that make every kind of call.
CONSTANTS
    Threads = {t1, t2, t3}
    Sessions = {s1, s2, s3}
    NoSession = NoSession
    Free = Free
SPECIFICATION RadioFairSpec
INVARIANTS
    OneOpenSession
PROPERTY
    OpenSessionReturns
\* openSession and step may wait for each other.
CHECK_DEADLOCK FALSE
