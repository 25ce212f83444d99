SPECIFICATION Spec
CONSTANTS
    Certs <- PathCertSet
    Leaves <- BuiltFor
    Pools <- CaPools
    Depths <- ShortAndLong
    Stores <- AnchorStores
    Chains <- PresentedChains
    Instants <- EdgeInstants
    Purposes <- SomePurposes
INVARIANTS AcceptedIsPath AnyAnchorSuffices NoCertificateTwice BuiltChainHolds
           WalkEndsAtAnchor
PROPERTY ConstraintsOnlyNarrow
