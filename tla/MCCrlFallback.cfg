SPECIFICATION Spec
CONSTANTS
    c1 = c1  c2 = c2  u1 = u1  u2 = u2  u3 = u3
    Calls = {c1, c2}
    Urls = {u1, u2, u3}
    Cert <- TheCert
    Issuer <- TheIssuer
    Points <- TwoPoints
    Policy <- BothDefault
    ValidationTime <- BothWallClock
    MaxBodySize <- SameLimit
    GracePeriod = 2
    MaxCacheBytes = 4
    MaxCacheEntries = 2
    LongUrls = {}
    Windows <- OneWindow
    Ahead = 1
    Sizes <- SizeOne
    Others <- NoOthers
    MaxTime = 2
    MaxIssued = 1
INVARIANT FallbackFailsClosed
