SPECIFICATION FairSpec
CONSTANT
    ChainTypes = {"bcop", "none"}
INVARIANTS
    ReportIsOnChain
    ResultIsProved
PROPERTIES
    StatusIsCleared
    SamplesGetThrough
