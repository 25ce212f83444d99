----------------------------- MODULE MCTrustPath ----------------------------
(* Instances of TrustPath for TLC: chains as they may be presented, and    *)
(* pools with loops and several issuers.                                   *)
EXTENDS TrustPath, PathCerts

PathCertSet == {Root, Reissue, Rollover, Successor, Inter, Narrow, SelfIssued,
                Subordinate, Cross, Host, Mail, Deep, Forged} \cup Odd

\* Stores of certificates named R, with the one that works first, last or
\* missing, and of an intermediate.
AnchorStores == {<<>>, <<Root>>, <<Inter>>, <<Successor>>, <<Reissue, Root>>,
                 <<Root, Reissue>>, <<Rollover, Root>>, <<Successor, Root>>,
                 <<Rollover, Reissue>>, <<Inter, Successor>>,
                 <<Successor, Rollover, Root>>, <<Reissue, Successor, Root>>}

\* Leaves and CAs in any order, CAs below CAs.
PresentedChains ==
    Arrangements(PathCertSet, 2)
      \cup {<<a, b, c>> : a \in {Host, Deep, Forged, Inter} \cup Odd,
                          b \in {SelfIssued, Subordinate, Inter} \cup Odd,
                          c \in {Root, Rollover, Inter, Narrow} \cup Odd}
      \cup {<<Deep, Subordinate, SelfIssued, Inter>>,
            <<Deep, Subordinate, SelfIssued, Narrow>>}

BuiltFor == {Host, Mail, Deep, Forged, Subordinate, SelfIssued, Cross}

\* Pools of up to two CAs, among them a pair that certify each other, and of
\* three, in every order.
CaPools == Arrangements({Root, Rollover, Inter, Narrow, SelfIssued,
                         Subordinate, Cross}, 2)
             \cup {p \in Arrangements({Inter, Narrow, Subordinate, Cross}, 3) : Len(p) = 3}

ShortAndLong == {0, 2, 4}
EdgeInstants == {NoTime, 0, 1, 2}
SomePurposes == {AnyPurpose, "OcspResponder", "IntermediateCa"}
=============================================================================
