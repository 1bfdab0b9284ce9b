\* A session of a device and a trial, every fault at any moment.
SPECIFICATION FairSpec
INVARIANTS
    SuccessIsGranted
PROPERTIES
    StaleUseWindows
    LinkPromise
    StaysSubscribed
    DisconnectEnds
    TrialEnds
\* a session that was taken down stops
CHECK_DEADLOCK FALSE
