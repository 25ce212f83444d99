SPECIFICATION Spec
CONSTANTS
    Configs <- RelaxedConfigs
    Certs <- BothSources
    OcspReplies <- RelaxedOcspReplies
    CrlReplies <- RelaxedCrlReplies
    MaxDepth = 2
    MaxTime = 3
INVARIANT RelaxedToleratesUnconfirmed
