SPECIFICATION Spec
CONSTANTS
    c1 = c1  c2 = c2  u1 = u1  u2 = u2  u3 = u3
    Calls = {c1, c2}
    Urls = {u1, u2, u3}
    Cert <- TheCert
    Issuer <- TheIssuer
    Points <- TwoPoints
    Policy <- TwoPolicies
    ValidationTime <- OneHistorical
    MaxBodySize <- SameLimit
    GracePeriod = 2
    MaxCacheBytes = 4
    MaxCacheEntries = 2
    LongUrls = {u2}
    Windows <- WindowOrNone
    Ahead = 0
    Sizes <- SizeOne
    Others <- SomeOthers
    MaxTime = 3
    MaxIssued = 2
INVARIANTS RevocationTakesEffect RevokedIsTrue
PROPERTY CurrentIsNotShadowed
