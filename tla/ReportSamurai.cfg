SPECIFICATION Spec
CONSTANT
    ChainTypes = {"samurai"}
INVARIANT
    ReportIsOnChain
