SPECIFICATION FairSpec
CONSTANTS
    c1 = c1  c2 = c2  u1 = u1  u2 = u2  u3 = u3
    Calls = {c1, c2}
    Urls = {u1, u2, u3}
    Cert <- TheCert
    Issuer <- TheIssuer
    Points <- ThreePoints
    Policy <- BothDefault
    ValidationTime <- BothWallClock
    MaxBodySize <- TwoLimits
    GracePeriod = 2
    MaxCacheBytes = 3
    MaxCacheEntries = 2
    LongUrls = {}
    Windows <- OneWindow
    Ahead = 0
    Sizes <- SmallLargeHuge
    Others <- NoOthers
    MaxTime = 1
    MaxIssued = 2
INVARIANTS CacheBounded BodyLimitHolds
PROPERTIES EvictsOldestFirst CallsReturn
