\* The key is replaced while the sender reads it.
SPECIFICATION Spec
CONSTANTS
    Receivers = {r1}
    Garbage = Garbage
    PutFails = FALSE
    MaxKeys = 3
    MaxRequests = 1
    MaxFaults = 0
INVARIANTS
    SharedKeyAgrees
\* a bounded number of requests and keys: the system stops when they are used up
CHECK_DEADLOCK FALSE
