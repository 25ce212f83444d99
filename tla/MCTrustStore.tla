---------------------------- MODULE MCTrustStore ----------------------------
(* An instance of TrustStore for TLC: a root and its rollover certificate. *)
EXTENDS TrustStore, PathCerts

StoreCerts == {Root, Reissue, Rollover, Successor, Inter, Narrow, SelfIssued,
               Subordinate, Host, Mail, Deep, Forged} \cup Odd

EdgeInstants == {NoTime, 0, 1, 2}
SomePurposes == {AnyPurpose, "OcspResponder", "IntermediateCa"}

\* The rollover certificate, configured next to the root that signed it.
RolloverStores == {<<Rollover, Root>>}
RolloverChains == {<<Rollover>>, <<Narrow, Rollover>>} \cup {<<c>> : c \in StoreCerts}
=============================================================================
