\* Two receivers, which see each other's results; lost messages, restarts and failing writes.
SPECIFICATION FairSpec
CONSTANTS
    Receivers = {r1, r2}
    Garbage = Garbage
    PutFails = TRUE
    MaxKeys = 3
    MaxRequests = 2
    MaxFaults = 1
INVARIANTS
    GivenIsSaved
PROPERTIES
    KeysAdvance
    RequestRefreshes
    RequestGetsKey
\* requests and keys are bounded: the system stops when they are used up
CHECK_DEADLOCK FALSE
