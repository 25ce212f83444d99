---------------------------- MODULE Certificates ----------------------------
(***************************************************************************)
(* X.509 certificates as the path code reads them (trust/store.rs,         *)
(* trust/chain_build.rs, ltv/name_constraints.rs), and the checks of one   *)
(* certificate or of one pair of certificates.  A certificate is:          *)
(*   der            its identity: two certificates are the same encoding   *)
(*                  only when they agree on it                             *)
(*   subject issuer distinguished names                                    *)
(*   serial ski     serial number; subjectKeyIdentifier, or "none"         *)
(*   key signer     its key, and the key that made its signature ("none"   *)
(*                  when no key did, or the policy refuses the algorithm)  *)
(*   bc pathLen     basicConstraints: CA, not a CA, or unreadable          *)
(*   keyUsage       its bits, {} when the extension is absent; one that    *)
(*                  cannot be read is {"other"}, which permits nothing     *)
(*   eku            the extended key usages in order, <<>> when absent     *)
(*   duplicate      the extensions it repeats                              *)
(*   critical       classes of the extensions it marks critical:           *)
(*                  basicConstraints, keyUsage, subjectAltName ("basic"),  *)
(*                  extendedKeyUsage ("eku"), nameConstraints and the      *)
(*                  distribution points ("path"), nocheck, or unknown ones *)
(*   hasSan san     subjectAltName; sanParses is FALSE when it is garbled  *)
(*   emails         emailAddress attributes of the subject                 *)
(*   permitted excluded   the subtrees of its NameConstraints              *)
(*   nocheck        its id-pkix-ocsp-nocheck extension                     *)
(* A name is a kind and a value; a subtree is a kind and the set of values *)
(* it covers, which stands for the suffix, mask and prefix comparisons.    *)
(***************************************************************************)
EXTENDS Naturals, Integers, Sequences, FiniteSets

CONSTANT Certs       \* the certificates there are

Unlimited == -1
NoTime == -1         \* validation_time = None
AnyPurpose == "any"  \* leaf_purpose = None

Kinds == {"dns", "mail", "ip", "directory"}
GeneralName == [kind: Kinds \cup {"other"}, value: STRING]
Subtree == [kind: Kinds \cup {"other"}, covers: SUBSET STRING]

KeyUsageBits ==
    {"digitalSignature", "contentCommitment", "keyCertSign", "cRLSign", "other"}
Ekus == {"OCSPSigning", "timeStamping", "other"}
CertRole ==
    {"EndEntity", "IntermediateCa", "CrlSigner", "OcspResponder", "TimestampSigner"}

Certificate ==
    [der: Nat, subject: STRING, issuer: STRING, serial: Nat, ski: STRING,
     key: STRING, signer: STRING,
     bc: {"ca", "notca", "malformed"}, pathLen: Nat \cup {Unlimited},
     keyUsage: SUBSET KeyUsageBits, eku: Seq(Ekus),
     duplicate: SUBSET {"basicConstraints", "keyUsage", "extendedKeyUsage",
                        "subjectAltName", "other"},
     critical: SUBSET {"basic", "eku", "path", "nocheck", "unknown"},
     not_before: Nat, not_after: Nat,
     hasSan: BOOLEAN, sanParses: BOOLEAN, san: SUBSET GeneralName,
     emails: SUBSET STRING,
     permitted: SUBSET Subtree, excluded: SUBSET Subtree,
     nocheck: {"absent", "present", "malformed"}]

ASSUME CertsAssumption == Certs \subseteq Certificate

LastOf(s) == s[Len(s)]
IsIn(x, s) == \E i \in 1 .. Len(s) : s[i] = x

-----------------------------------------------------------------------------
(* One certificate.                                                        *)

IsSelfIssued(c) == c.subject = c.issuer

\* verify_certificate_signature_with_policy.
SignedBy(c, issuer) == c.signer = issuer.key

\* reject_duplicate_extensions, then reject_unknown_critical_extensions: a
\* critical extendedKeyUsage is refused on a CA, and on a certificate whose
\* basicConstraints cannot be read.
ExtensionsOk(c) ==
    /\ c.duplicate = {}
    /\ c.critical \cap {"nocheck", "unknown"} = {}
    /\ "eku" \in c.critical => c.bc = "notca"

\* A keyUsage that is present restricts what the key may sign.
KeyUsageAllows(c, bits) == c.keyUsage = {} \/ c.keyUsage \cap bits # {}
MaySign(c) == KeyUsageAllows(c, {"digitalSignature", "contentCommitment"})

\* The profiles of x509_ext.rs.  A timestamp signer has no purpose but this
\* one, and says so in a critical extension.
ValidateEndEntity(c) == c.bc = "notca" /\ MaySign(c)
ValidateIntermediateCa(c) == c.bc = "ca" /\ KeyUsageAllows(c, {"keyCertSign"})
ValidateCrlSigner(c) == "cRLSign" \in c.keyUsage
ValidateOcspResponder(c) == IsIn("OCSPSigning", c.eku)
ValidateTimestampSigner(c) ==
    /\ c.bc = "notca" /\ MaySign(c)
    /\ "eku" \in c.critical /\ c.eku = <<"timeStamping">>

\* validate_extensions_for_role, when the caller names a purpose.
SatisfiesPurpose(c, purpose) ==
    \/ purpose = AnyPurpose
    \/ /\ c.duplicate = {}
       /\ CASE purpose = "EndEntity" -> ValidateEndEntity(c)
            [] purpose = "IntermediateCa" -> ValidateIntermediateCa(c)
            [] purpose = "CrlSigner" -> ValidateCrlSigner(c)
            [] purpose = "OcspResponder" -> ValidateOcspResponder(c)
            [] purpose = "TimestampSigner" -> ValidateTimestampSigner(c)
            [] OTHER -> FALSE

\* The validity window; `fraction` says that the instant lies strictly after
\* the second `time`, so that notAfter itself is already past.
ValidAt(c, time, fraction) ==
    time # NoTime =>
        /\ c.not_before <= time
        /\ time <= c.not_after
        /\ fraction => time # c.not_after

\* validate_intermediate_ca_extensions.
MayIssue(c) == c.bc = "ca" /\ KeyUsageAllows(c, {"keyCertSign"})

-----------------------------------------------------------------------------
(* One certificate and what is below it.                                   *)

\* The CA certificates below position t of path p that use up path length.
SubordinateCas(p, t) ==
    Cardinality({k \in 1 .. t - 1 : p[k].bc = "ca" /\ ~IsSelfIssued(p[k])})

\* enforce_path_len of `issuer` at position t of path p, with p[1 .. t - 1]
\* below it; what is below is only read when there is a constraint.
PathLenOk(issuer, p, t) ==
    /\ issuer.bc # "malformed"
    /\ issuer.bc = "ca" /\ issuer.pathLen # Unlimited =>
         /\ \A k \in 1 .. t - 1 : p[k].bc # "malformed"
         /\ SubordinateCas(p, t) <= issuer.pathLen

-----------------------------------------------------------------------------
(* Name constraints (NameConstraintState).                                 *)

NoConstraints == [permitted |-> {}, excluded |-> {}]

\* decode_base_general_name: a subtree of an unsupported kind is refused.
Decodable(c) == \A b \in c.permitted \cup c.excluded : b.kind \in Kinds

\* Mutant: permitted subtrees of all issuers form one union.
AddFromCert_Broadens(s, c) ==
    [permitted |-> {(UNION s.permitted) \cup c.permitted} \ {{}},
     excluded |-> s.excluded \cup c.excluded]

\* add_from_cert: permitted subtrees stay grouped by issuer, excluded ones
\* are thrown together.
AddFromCert(s, c) ==
    [permitted |-> s.permitted \cup ({c.permitted} \ {{}}),
     excluded |-> s.excluded \cup c.excluded]

IsEmpty(s) == s.permitted = {} /\ s.excluded = {}

BaseMatches(b, n) == b.kind = n.kind /\ n.value \in b.covers

ConstrainsMail(s) ==
    \E b \in s.excluded \cup UNION s.permitted : b.kind = "mail"

\* collect_asserted_names: the subject, and the subjectAltName entries or,
\* only if that extension is absent and mail is constrained, the subject's
\* mail addresses.
AssertedNames(s, c) ==
    {[kind |-> "directory", value |-> c.subject]}
      \cup (IF c.hasSan THEN {n \in c.san : n.kind \in Kinds}
            ELSE IF ConstrainsMail(s)
                 THEN {[kind |-> "mail", value |-> e] : e \in c.emails}
                 ELSE {})

\* check_name: in no excluded subtree, and in one permitted subtree of each
\* issuer that permits any of its kind.
CheckName(s, n) ==
    /\ \A b \in s.excluded : ~BaseMatches(b, n)
    /\ \A group \in s.permitted :
         (\E b \in group : b.kind = n.kind) =>
             \E b \in group : BaseMatches(b, n)

CheckCert(s, c) ==
    \/ IsEmpty(s)
    \/ /\ c.hasSan => c.sanParses
       /\ \A n \in AssertedNames(s, c) : CheckName(s, n)
=============================================================================
