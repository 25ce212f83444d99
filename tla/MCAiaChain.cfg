SPECIFICATION FairSpec
CONSTANTS
    Certs <- AiaCerts
    Resolutions <- MCResolutions
    Targets <- AllTargets
    Documents <- AllDocuments
    MaxRedirects = 3
    MaxBodySize = 2
    AiaUrls <- MCAiaUrls
    Leaves <- AllLeaves
    Stores <- AllStores
    Pools <- AllPools
    MaxChainDepth = 3
CHECK_DEADLOCK FALSE
INVARIANTS OnlyPublicOrOverlooked EffortBounded PathIsFound
PROPERTY BuildReturns
