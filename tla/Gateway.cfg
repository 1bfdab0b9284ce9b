\* A gateway, its pushes and two sub-devices, with every fault.
SPECIFICATION OneFailureSpec
CONSTANTS
    k1 = k1
    k2 = k2
    k3 = k3
    k4 = k4
    s1 = s1
    d1 = d1
    d2 = d2
    c1 = c1
    c2 = c2
    b1 = b1
    b2 = b2
    Ids = {k1, k2, k3, k4}
    SubIds = {s1}
    Devices = {d1, d2}
    Chains = {c1, c2}
    Brokers = {b1, b2}
    Content <- PushContent
    NoId = NoId
    NoDevice = NoDevice
    BadItem = BadItem
    NoChain = NoChain
    Incomplete = Incomplete
    NoCfg = NoCfg
    InitChains = {c1, NoChain}
    InitBroker = b1
INVARIANTS
    TypeOK
    TasksAreListed
    DefaultFollowsGateway
    
    AckedIsApplied
    BrokerIsShared
PROPERTIES
    DefaultChangesQuietly
    
    AcceptedTakesEffect
\* a gateway that cannot read its file does nothing more
CHECK_DEADLOCK FALSE
