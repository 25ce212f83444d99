SPECIFICATION FairSpec
CONSTANTS
    Configs <- AllConfigs
    Certs <- SomeProfiles
    OcspReplies <- SomeOcspReplies
    CrlReplies <- SomeCrlReplies
    MaxDepth = 2
    MaxTime = 2
INVARIANTS TypeOK StrictAnswerIsGrounded TimelyEvidenceDecides ResponderConfirmedFirst RecursionIsBounded
PROPERTIES CheckReturns ImplementsContract NestedImplementsContract
