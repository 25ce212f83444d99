----------------------------- MODULE MCCrlClient ----------------------------
(* Instances of CrlClient for TLC.                                         *)
EXTENDS CrlClient, TLC

CONSTANTS c1, c2, u1, u2, u3

Default == [clock_skew |-> 0, max_age |-> 1]
Skewed == [clock_skew |-> 1, max_age |-> 1]

TheCert == [issuer |-> "I", serial |-> "mine"]
TheIssuer == [subject |-> "I", key |-> "i", keyUsage |-> {"keyCertSign", "cRLSign"}]

\* An empty CRL signed by the issuer's key that stays current.
Empty == [NoDoc EXCEPT !.decodes = TRUE, !.issuer = "I", !.signer = "i",
                       !.next = 3, !.size = 1]
With(oid, critical) == [Empty EXCEPT !.exts = <<[oid |-> oid, critical |-> critical, value |-> 0]>>]
Listing(exts) == [Empty EXCEPT !.entries = <<[serial |-> "mine", at |-> 0, exts |-> exts]>>]

\* Somebody else's and a delta CRL; one for a part of the certificates, one of
\* another name of the same key, one with an entry of another issuer for the
\* same serial number, and one with a rule of its own.
SomeOthers ==
    (u1 :> {[Listing(<<>>) EXCEPT !.signer = "x"], With("deltaCRLIndicator", TRUE)})
      @@ (u2 :> {With("issuingDistributionPoint", FALSE), [Listing(<<>>) EXCEPT !.issuer = "J"],
                 Listing(<<[oid |-> "certificateIssuer", critical |-> TRUE, value |-> 0]>>),
                 With("other", TRUE)})
      @@ (u3 :> {})

\* Two calls, the second with a wider policy and a historical instant.
TwoPoints == (c1 :> <<u1, u2>>) @@ (c2 :> <<u1>>)
TwoPolicies == (c1 :> Default) @@ (c2 :> Skewed)
OneHistorical == (c1 :> WallClock) @@ (c2 :> 1)
SameLimit == [c \in Calls |-> 2]
WindowOrNone == {1, NoNext}

\* Inserts into a cache of two entries and three bytes, by two clients with
\* different body limits: a CRL of 3 fits one of them, a CRL of 4 no cache.
ThreePoints == (c1 :> <<u1, u2, u3>>) @@ (c2 :> <<u2, u3>>)
BothDefault == [c \in Calls |-> Default]
BothWallClock == [c \in Calls |-> WallClock]
TwoLimits == (c1 :> 4) @@ (c2 :> 2)
OneWindow == {0}
NoOthers == [u \in Urls |-> {}]
SmallLargeHuge == {1, 3, 4}
SizeOne == {1}
=============================================================================
