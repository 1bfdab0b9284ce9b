\* Two distances of two bits, exponents modulo 7, every challenge z.
SPECIFICATION Spec
CONSTANTS
    Order = 7
    N = 2
    Files <- MCFiles
    Readings <- MCReadings
    Unit = 20
    SingleValues <- MCSingleValues
    Tapes <- MCTapes
    Y = {3, 5}
    Z = {1, 2, 3, 4, 5, 6}
    X = {2, 5}
    C = {4}
    R = {2, 3}
    User <- MCUser
    NoStandard = NoStandard
INVARIANTS
    RoundsKeepRelation
    ScalarsFollowRounds
    AcceptedIsInStandard
    InStandardIsAccepted
\* one proof and its check: they end
CHECK_DEADLOCK FALSE
