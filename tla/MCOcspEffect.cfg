SPECIFICATION Spec
CONSTANTS
    c1 = c1  c2 = c2  NoNonce = NoNonce
    Nonces = {c1, c2}
    Certs <- OcspCerts
    Calls = {c1}
    Requests <- AllRequests
    Serial = "mine"
    Issuer <- Inter
    Responders <- BothResponders
    Windows <- WindowOrNone
    Hints <- AllHints
    Forgeries <- AllForgeries
    MaxTime = 3
    MaxProduced = 1
INVARIANTS SignerSpeaksForIssuer RevocationTakesEffect RevokedIsTrue HonestEvidenceCounts StrictSeesRevocation
PROPERTY FetchesProgress
