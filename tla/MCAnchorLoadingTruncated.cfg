SPECIFICATION Spec
CONSTANTS
    Certs <- AllAnchorCerts
    Files <- Three
    Extension <- MCExtension
    Versions <- MCVersions
    Missing = Missing
    StoreKind = {"Signature", "Timestamp"}
    NoStore = NoStore
    Directories <- AllDirectories
    Chains <- AnchorChains
    MaxEdits = 1
    MaxLoads = 2
CHECK_DEADLOCK FALSE
INVARIANT NothingDroppedSilently
