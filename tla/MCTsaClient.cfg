SPECIFICATION FairSpec
CONSTANTS
    Certs <- TsaCerts
    KeyAlgorithm <- MCKeyAlgorithm
    LegacyBuild = TRUE
    Nonces = {1, 2, 5, 9}
    NoNonce = 0
    OrderRounds = 3
    Pool <- TwoClients
    Hash <- Hasher
    Others = {5}
    Tsas <- AllTsas
    Fabricators <- AllFabricators
    Forger <- Forging
    Distorted <- Distortions
    Bundles <- AllBundles
    Verifications <- AllVerifications
    MaxTime = 1
    MaxIssued = 2
CHECK_DEADLOCK FALSE
INVARIANTS AnswersThisAttempt SignerIsBound VerifiedIsGenuine HonestAnswerAccepted GenuineVerifies
PROPERTY PoolReturns
