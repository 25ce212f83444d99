SPECIFICATION VerifySpec
CONSTANTS
    Certs <- StoreCerts
    Stores <- RolloverStores
    Chains <- RolloverChains
    Instants <- EdgeInstants
    Purposes <- SomePurposes
INVARIANT EveryAnchorIsTried
