----------------------------- MODULE OcspCheck ------------------------------
(***************************************************************************)
(* The checks of one OCSP response (ltv/ocsp.rs, check_revocation_detailed *)
(* and its variants).  A response is reduced to what the checks read:      *)
(*   successful    its responseStatus                                      *)
(*   parses        what follows is a well-formed BasicOCSPResponse         *)
(*   by responder  responderID: a name, or the hash of a key               *)
(*   signer        the key that made its signature                         *)
(*   singles       its SingleResponses, in order                           *)
(*   nonce         the value of its nonce extension, or NoNonce            *)
(*   embedded      the certificates that come with it, in order; they are  *)
(*                 not covered by the signature                            *)
(* Instants are exact.  The code truncates them to seconds for the path    *)
(* and passes on whether something was cut off, which is the same          *)
(* comparison (WindowMeaning in TrustStoreProofs).                         *)
(***************************************************************************)
EXTENDS PathValidation, FiniteSetsExt

CONSTANTS Nonces, NoNonce

\* Bytes: a random core that is no OCTET STRING, inside so many of them.
NonceBytes == [core: Nonces, wraps: Nat]

NoNext == -1
Never == -1

\* build_cert_id: hashes of the issuer's name and key, and the serial number.
CertIds == [name: STRING, key: STRING, serial: STRING]
CertId(serial, issuer) ==
    [name |-> issuer.subject, key |-> issuer.key, serial |-> serial]

\* SingleResponse: the CertID and its hash algorithm, the status, the window.
Single ==
    [id: CertIds, sha1: BOOLEAN,
     status: {"good", "revoked", "unknown"}, revokedAt: Nat \cup {Never},
     this: Nat, next: Nat \cup {NoNext}]

\* ParsedBasicOcspResponse.
Response ==
    [successful: BOOLEAN, parses: BOOLEAN,
     by: {"name", "key"}, responder: STRING, signer: STRING,
     produced_at: Nat, singles: Seq(Single), nonce: NonceBytes \cup {NoNonce},
     embedded: Seq(Certs)]

\* validate_ocsp_response_status, and parse_ocsp_response, which looks at the
\* status again.
Successful(r) == r.successful
Parses(r) == Successful(r) /\ r.parses

\* OcspFreshness, and the optional issuer path of a check.
Freshness == [clock_skew: Nat, max_age: Nat]
IssuerPath == [given: BOOLEAN, chain: Seq(Certs), roots: Seq(Certs)]

\* OcspCheckOutcome; every Err of the check is an integrity failure.
Failed == [error |-> "integrity", status |-> "Unknown", delegated |-> FALSE]
Checked(status, delegated) ==
    [error |-> "none", status |-> status, delegated |-> delegated]

-----------------------------------------------------------------------------
(* The responder.                                                          *)

\* Mutant: whoever carries the CA's name is the CA.
SameIdentity_ByName(a, b) == a.subject = b.subject

\* certs_have_same_identity.
SameIdentity(a, b) == a.subject = b.subject /\ a.key = b.key

\* The candidates whose key verifies the signature: the embedded
\* certificates, then the issuer.
Candidates(r, issuer) == Append(r.embedded, issuer)
Verifying(r, issuer) ==
    {i \in 1 .. Len(r.embedded) + 1 : Candidates(r, issuer)[i].key = r.signer}

\* verify_ocsp_response_signature, when one verifies: the first that does,
\* but the caller's own copy if it is the issuer.
Responder(r, issuer) ==
    LET first == Candidates(r, issuer)[Min(Verifying(r, issuer))]
    IN  IF SameIdentity(first, issuer) THEN issuer ELSE first

\* responder_matches_responder_id.
MatchesResponderId(c, r) ==
    r.responder = IF r.by = "name" THEN c.subject ELSE c.key

\* validate_delegated_responder_extensions.
DelegateExtensionsOk(c) ==
    /\ c.duplicate = {} /\ c.bc # "malformed" /\ (c.hasSan => c.sanParses)
    /\ MaySign(c) /\ c.nocheck # "malformed"
    /\ c.critical \cap {"path", "unknown"} = {}
    /\ SatisfiesPurpose(c, "OcspResponder")

\* The second case of validate_responder_trust.
DelegatedBy(c, issuer) ==
    /\ c.issuer = issuer.subject /\ SignedBy(c, issuer)
    /\ DelegateExtensionsOk(c)
    /\ Decodable(issuer) /\ CheckCert(AddFromCert(NoConstraints, issuer), c)

\* validate_responder_trust.
TrustedResponder(c, issuer, r, now) ==
    /\ ValidAt(c, now, FALSE)
    /\ MatchesResponderId(c, r)
    /\ SameIdentity(c, issuer) \/ DelegatedBy(c, issuer)

\* validate_ocsp_certificate_path of the issuer, and of a delegate above it.
PathOk(path, now) ==
    path.given => Verifiable(path.chain, path.roots, now, FALSE, "IntermediateCa")
DelegatePathOk(c, path, now) ==
    path.given /\ Verifiable(<<c>> \o path.chain, path.roots, now, FALSE, "OcspResponder")

\* ResponderRevocationCheck.
ResponderCheckRequired(c, issuer) == ~SameIdentity(c, issuer) /\ c.nocheck # "present"

-----------------------------------------------------------------------------
(* The answer.                                                             *)

\* encode_tlv(0x04, b).
Wrapped(b) == [b EXCEPT !.wraps = @ + 1]

\* parse_ocsp_extensions: a value that reads as an OCTET STRING is taken out
\* of it, any other is the nonce itself.
ParseNonce(value) == [value EXCEPT !.wraps = IF @ = 0 THEN 0 ELSE @ - 1]

\* validate_nonce.
ValidateNonce(sent, echoed) == echoed \in {sent, Wrapped(sent)}

\* Mutant: a response without a nonce passes under the strict policy.
NonceOk_Optional(sent, value, require) ==
    sent # NoNonce /\ value # NoNonce => ValidateNonce(sent, ParseNonce(value))

\* The strict policy needs a nonce and its echo; otherwise a responder may
\* leave it out, and a nonce that was not sent is not looked at.
NonceOk(sent, value, require) ==
    /\ require => sent # NoNonce /\ value # NoNonce
    /\ sent # NoNonce /\ value # NoNonce => ValidateNonce(sent, ParseNonce(value))

\* find_matching_response looks for the first of these.
Matching(r, serial, issuer) ==
    {i \in 1 .. Len(r.singles) : r.singles[i].id = CertId(serial, issuer)}

\* Mutant: a response without nextUpdate is fresh for ever.
ValidateResponseFreshness_NoAge(s, now, f) ==
    s.next # NoNext => s.next >= s.this /\ now <= s.next + f.clock_skew

\* Mutant: evidence collected after the validated instant is refused.
ValidateResponseFreshness_NoLater(s, now, f) ==
    /\ s.this <= now + f.clock_skew
    /\ IF s.next = NoNext
       THEN now <= s.this + f.max_age + f.clock_skew
       ELSE s.next >= s.this /\ now <= s.next + f.clock_skew

\* validate_response_freshness: not stale; a window in the future passes.
ValidateResponseFreshness(s, now, f) ==
    IF s.next = NoNext
    THEN now <= s.this + f.max_age + f.clock_skew
    ELSE s.next >= s.this /\ now <= s.next + f.clock_skew

\* Mutant: a revocation counts whenever it happened.
StatusOf_AnyTime(s, now) ==
    CASE s.status = "good" -> "Valid"
      [] s.status = "revoked" -> "Revoked"
      [] s.status = "unknown" -> "Unknown"

\* CertStatus to ValidationStatus: a later revocation does not count yet.
StatusOf(s, now) ==
    CASE s.status = "good" -> "Valid"
      [] s.status = "revoked" -> IF s.revokedAt > now THEN "Valid" ELSE "Revoked"
      [] s.status = "unknown" -> "Unknown"

\* What the signed content says of the certificate with this serial.
Answer(r, serial, issuer, delegated, now, f) ==
    IF Matching(r, serial, issuer) = {} THEN Checked("Unknown", FALSE)
    ELSE LET s == r.singles[Min(Matching(r, serial, issuer))]
         IN  IF s.sha1 /\ ValidateResponseFreshness(s, now, f)
             THEN Checked(StatusOf(s, now), delegated)
             ELSE Failed

\* check_revocation_detailed_with_issuer_path (path.given), or
\* check_revocation_detailed_with_nonce_policy.
CheckRevocationDetailed(r, serial, issuer, path, sent, require, now, f) ==
    LET c == Responder(r, issuer)
        accepted ==
          /\ path.given => path.chain # <<>> /\ path.chain[1] = issuer
          /\ Parses(r)
          /\ Verifying(r, issuer) # {}
          /\ PathOk(path, now)
          /\ TrustedResponder(c, issuer, r, now)
          /\ SameIdentity(c, issuer) \/ DelegatePathOk(c, path, now)
          /\ NonceOk(sent, r.nonce, require)
    IN  IF accepted
        THEN Answer(r, serial, issuer, ResponderCheckRequired(c, issuer), now, f)
        ELSE Failed
=============================================================================
