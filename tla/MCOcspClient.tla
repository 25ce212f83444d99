---------------------------- MODULE MCOcspClient ----------------------------
(* Instances of OcspClient for TLC.                                        *)
EXTENDS OcspClient, PathCerts, TLC

CONSTANTS c1, c2

\* Delegates of the CA Inter: one it vouches for, an earlier certificate of
\* that one, one that has to be checked, one outside the CA's constraints.
Delegate(der, subject, key) ==
    [Ee(der, subject, "I", "i") EXCEPT !.key = key]
Vouched == [Delegate(30, "S", "d") EXCEPT !.nocheck = "present"]
Earlier == [Vouched EXCEPT !.der = 31, !.not_after = 0]
Unvouched == Delegate(32, "E", "k")
Outside == [Delegate(33, "Z", "z") EXCEPT !.nocheck = "present"]

\* Certificates without a say: the CA's name on another key, a delegate that
\* this key appointed, and subscribers of the CA that may not respond.
Impostor == Ca(34, "I", "I", "x", "x")
Appointed == [Vouched EXCEPT !.der = 35, !.key = "x", !.signer = "x"]
Subscriber == [Delegate(36, "E", "e") EXCEPT !.eku = <<"other">>, !.nocheck = "present"]
Unfit == [Delegate(37, "E", "u") EXCEPT !.keyUsage = {"cRLSign"}, !.nocheck = "present"]

OcspCerts == {Root, Inter, Vouched, Earlier, Unvouched, Outside, Impostor,
              Appointed, Subscriber, Unfit}
BothResponders == {Inter, Vouched}
AllHints == {<<>>, <<Vouched>>, <<Earlier, Vouched>>, <<Unvouched>>, <<Outside>>,
             <<Impostor>>, <<Appointed>>, <<Subscriber>>, <<Unfit>>}

\* A statement about the certificate that holds for ever, whoever signs it.
Claim(status, by, responder, signer) ==
    [successful |-> TRUE, parses |-> TRUE,
     by |-> by, responder |-> responder, signer |-> signer, produced_at |-> 0,
     nonce |-> NoNonce, embedded |-> <<>>,
     singles |-> <<[id |-> CertId("mine", Inter), sha1 |-> TRUE, status |-> status,
                    revokedAt |-> IF status = "revoked" THEN 0 ELSE Never,
                    this |-> 0, next |-> 9]>>]
Claims(status) ==
    {Claim(status, "name", "I", "x"), Claim(status, "name", "S", "x"),
     Claim(status, "key", "e", "e"), Claim(status, "key", "u", "u"),
     Claim(status, "key", "z", "z"), Claim(status, "key", "k", "k"),
     Claim(status, "name", "I", "none")}

\* What a responder may also say: another hash, an inverted window, nothing.
Useless ==
    {[Claim("good", "key", "i", "i") EXCEPT !.singles[1].sha1 = FALSE],
     [Claim("good", "key", "i", "i") EXCEPT !.singles[1].this = 2, !.singles[1].next = 1],
     [Claim("unknown", "key", "i", "i") EXCEPT !.singles[1].next = 9],
     [Claim("good", "key", "i", "i") EXCEPT !.singles = <<>>],
     [Claim("good", "key", "i", "i") EXCEPT !.parses = FALSE],
     [NoResponse EXCEPT !.signer = "i"]}
AllForgeries == Claims("good") \cup Claims("revoked") \cup Useless

WithPath == [given |-> TRUE, chain |-> <<Inter>>, roots |-> <<Root>>]
WithoutPath == [given |-> FALSE, chain |-> <<>>, roots |-> <<>>]
Limits == [clock_skew |-> 0, max_age |-> 1]
Skewed == [clock_skew |-> 1, max_age |-> 0]

Opportunistic ==
    [urls |-> 2, use_nonce |-> TRUE, require_nonce |-> FALSE, nonce_wraps |-> 0,
     validation_time |-> WallClock, freshness |-> Limits, path |-> WithPath]
Strict == [Opportunistic EXCEPT !.require_nonce = TRUE]
Historical == [Opportunistic EXCEPT !.validation_time = 1, !.use_nonce = FALSE,
                                    !.freshness = Skewed]
IssuerOnly == [Opportunistic EXCEPT !.path = WithoutPath]
WrongPath == [Strict EXCEPT !.path.chain = <<Impostor>>]
\* A nonce that happens to read as an OCTET STRING.
LooksWrapped == [Strict EXCEPT !.nonce_wraps = 1, !.urls = 1]
Unasked == [Strict EXCEPT !.use_nonce = FALSE]

AllRequests ==
    {Opportunistic, Strict, Historical, IssuerOnly, WrongPath, Unasked,
     LooksWrapped,
     [Opportunistic EXCEPT !.urls = 0]}
WindowOrNone == {1, NoNext}
=============================================================================
