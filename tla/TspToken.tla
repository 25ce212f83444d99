------------------------------ MODULE TspToken ------------------------------
(***************************************************************************)
(* RFC 3161 requests, responses and tokens, and the checks of a token      *)
(* (tsp/token.rs).  A token is reduced to what the checks read:            *)
(*   content       what its envelopes say they wrap: "TSTInfo" or "other"  *)
(*   info          the TSTInfo                                             *)
(*   signerInfos   how many signers it has; the rest is about the first    *)
(*   attrs         the signed attributes, each an oid and its values       *)
(*   unsigned      the oids of its unsigned attributes                     *)
(*   sid           how it names the signer's certificate                   *)
(*   digest        digestAlgorithm                                         *)
(*   alg params    signatureAlgorithm and its RSASSA-PSS parameters        *)
(*   sig           the signature                                           *)
(*   certs         the certificates that come with it, in order            *)
(* Of these the signature covers attrs and, through the message digest in  *)
(* them, info: everything else may have been put there by anyone.          *)
(***************************************************************************)
EXTENDS PathValidation, SignatureAlgorithms, FiniteSetsExt

CONSTANTS
    Nonces,         \* the values of a 64-bit nonce
    NoNonce,
    OrderRounds     \* how many issuers order_chain appends at most

ASSUME TokenAssumption == NoNonce \notin Nonces /\ OrderRounds \in Nat
\* der identifies a certificate.
ASSUME DerAssumption == \A a, b \in Certs : a.der = b.der => a = b

NoPolicy == "none"

-----------------------------------------------------------------------------
(* TSTInfo.                                                                *)

\* Its optional fields, in the order the syntax wants them.
OptionalFields == <<"accuracy", "ordering", "nonce", "tsa", "extensions">>
Rank(f) == CHOOSE i \in 1 .. Len(OptionalFields) : OptionalFields[i] = f.tag

\* validate_tst_accuracy: seconds, milliseconds, microseconds, each at most
\* once and in this order.
ValidateTstAccuracy(parts) ==
    /\ \A i, j \in 1 .. Len(parts) : i < j => parts[i].rank < parts[j].rank
    /\ \A i \in 1 .. Len(parts) : parts[i].rank > 1 => parts[i].value \in 1 .. 999

\* validate_tst_extensions: none is interpreted, so none may be critical.
ValidateTstExtensions(exts) ==
    /\ exts # <<>>
    /\ \A i, j \in 1 .. Len(exts) : i # j => exts[i].oid # exts[j].oid
    /\ \A i \in 1 .. Len(exts) : ~exts[i].critical

\* validate_tst_tsa_name: one GeneralName of a kind there is, also of one
\* that check_tsa_identity cannot decode.
ValidateTstTsaName(name) == name.kind # "malformed"

\* A nonce has to fit 64 bits.
ValidateOptional(f) ==
    CASE f.tag = "accuracy" -> ValidateTstAccuracy(f.parts)
      [] f.tag = "nonce" -> f.nonce \in Nonces
      [] f.tag = "extensions" -> ValidateTstExtensions(f.list)
      [] f.tag = "tsa" -> ValidateTstTsaName(f.name)
      [] f.tag = "ordering" -> TRUE
      [] OTHER -> FALSE

\* parse_message_imprint.
ParseMessageImprint(info) ==
    /\ info.alg \in DigestAlgorithm
    /\ OutputSize(info.hash.alg) = OutputSize(info.alg)

\* parse_tst_info_body.
ParseTstInfoBody(info) ==
    /\ info.version = 1
    /\ ParseMessageImprint(info)
    /\ LET opt == info.optional IN
         /\ \A i \in 1 .. Len(opt) : ValidateOptional(opt[i])
         /\ \A i, j \in 1 .. Len(opt) : i < j => Rank(opt[i]) < Rank(opt[j])

\* The nonce the parser leaves behind: each one replaces the one before.
NonceFields(info) == {i \in 1 .. Len(info.optional) : info.optional[i].tag = "nonce"}
NonceOf(info) ==
    IF NonceFields(info) = {} THEN NoNonce
    ELSE info.optional[Max(NonceFields(info))].nonce

\* gen_time_parts: seconds, and whether a fraction follows.
GenTimeParses(info) == info.fraction \in {"none", "positive"}
HasFraction(info) == info.fraction = "positive"

\* check_gen_time_within_validity.
CheckGenTime(signer, info) ==
    GenTimeParses(info) /\ ValidAt(signer, info.genTime, HasFraction(info))

\* check_tsa_identity: the tsa field, if there is one, is a name of the
\* signer.  A kind of name the decoder lacks is refused.
CheckTsaIdentity(signer, info) ==
    \A i \in 1 .. Len(info.optional) :
        LET f == info.optional[i] IN
        f.tag = "tsa" =>
            /\ f.name.kind # "x400"
            /\ \/ f.name = [kind |-> "directory", value |-> signer.subject]
               \/ /\ "subjectAltName" \notin signer.duplicate
                  /\ signer.hasSan /\ signer.sanParses /\ f.name \in signer.san

-----------------------------------------------------------------------------
(* Signed attributes.                                                      *)

Occurrences(attrs, oid) == {i \in 1 .. Len(attrs) : attrs[i].oid = oid}
Absent(attrs, oid) == Occurrences(attrs, oid) = {}

\* find_attribute, when it finds one: a single attribute with a single value.
FindAttribute(attrs, oid) ==
    \E i \in 1 .. Len(attrs) : Occurrences(attrs, oid) = {i} /\ Len(attrs[i].values) = 1
AttributeValue(attrs, oid) == attrs[Min(Occurrences(attrs, oid))].values[1]

\* parse_ess_binding: one certificate, no policies, and a hash as long as its
\* algorithm makes it.  The first version of the attribute is always SHA-1.
EssOids == {"signingCertificate", "signingCertificateV2"}
EssDigest(oid, v) == IF oid = "signingCertificate" THEN "Sha1" ELSE v.alg
ParseEssBinding(oid, v) ==
    /\ v.shape = "single"
    /\ EssDigest(oid, v) \in DigestAlgorithm \cup {"Sha1"}
    /\ OutputSize(v.hash.alg) = OutputSize(EssDigest(oid, v))

\* EssBinding::matches.
EssMatches(oid, v, c) ==
    /\ v.issuerSerial # <<>> => v.issuerSerial = <<c.issuer, c.serial>>
    /\ v.hash = Digest(EssDigest(oid, v), c.der)

\* signing_certificate_bindings succeeds.
SigningCertificateBindings(t) ==
    /\ \A oid \in EssOids :
         \/ Absent(t.attrs, oid)
         \/ /\ FindAttribute(t.attrs, oid)
            /\ ParseEssBinding(oid, AttributeValue(t.attrs, oid))
    /\ \E oid \in EssOids : ~Absent(t.attrs, oid)
    /\ t.unsigned \cap EssOids = {}

\* The certificate all signed bindings name.
IsBound(t, c) ==
    \A oid \in EssOids :
        ~Absent(t.attrs, oid) => EssMatches(oid, AttributeValue(t.attrs, oid), c)

-----------------------------------------------------------------------------
(* The signer.                                                             *)

\* signer_identifier_matches.
SignerIdentifierMatches(sid, c) ==
    IF sid.by = "issuerSerial"
    THEN c.issuer = sid.issuer /\ c.serial = sid.serial
    ELSE c.ski # "none" /\ c.ski = sid.ski

\* The certificates of the token, then those the caller adds.
Embedded(t, extra) ==
    LET embedded[n \in 0 .. Len(extra)] ==
            IF n = 0 THEN t.certs
            ELSE IF IsIn(extra[n], embedded[n - 1]) THEN embedded[n - 1]
                 ELSE Append(embedded[n - 1], extra[n])
    IN  embedded[Len(extra)]

\* Mutant: when no certificate has the signed hash, the identifier will do.
SignerCandidates_Fallback(t, certs) ==
    LET named == {i \in 1 .. Len(certs) : SignerIdentifierMatches(t.sid, certs[i])}
        bound == {i \in named : IsBound(t, certs[i])}
    IN  IF bound # {} THEN bound ELSE named

SignerCandidates(t, certs) ==
    {i \in 1 .. Len(certs) :
        SignerIdentifierMatches(t.sid, certs[i]) /\ IsBound(t, certs[i])}

SignerOf(t, certs) == certs[Min(SignerCandidates(t, certs))]

\* combined_oid_digest finds a hash in the algorithm.
CombinedOidDigest(a) == a.scheme \in {"RsaPkcs1v15", "Ecdsa"} /\ a.hash \in Sha2

\* Mutant: only bare RSA keys are expected.
Resolved_RsaOnly(a, digest) ==
    IF a = RsaEncryption THEN Algorithm("RsaPkcs1v15", digest) ELSE a

\* verify_cms_signature: a bare key algorithm takes the hash of the digest
\* algorithm, any other that implies a hash has to agree with it.
Resolved(a, digest) ==
    IF digest \notin Sha2 THEN a
    ELSE IF a = RsaEncryption THEN Algorithm("RsaPkcs1v15", digest)
    ELSE IF a = EcPublicKey THEN Algorithm("Ecdsa", digest)
    ELSE a

\* Mutant: the hash of the signature may differ from that of the content.
VerifyCmsSignature_HashesDiffer(t, key) ==
    IF t.alg = Pss
    THEN VerifyRsaPssStrict(t.sig, t.attrs, key, t.params)
    ELSE VerifySignatureByOid(t.sig, t.attrs, key, Resolved(t.alg, t.digest), FALSE)

VerifyCmsSignature(t, key) ==
    IF t.alg = Pss
    THEN VerifyRsaPssStrict(t.sig, t.attrs, key, t.params) /\ t.params.hash = t.digest
    ELSE /\ CombinedOidDigest(t.alg) => t.alg.hash = t.digest
         /\ VerifySignatureByOid(t.sig, t.attrs, key, Resolved(t.alg, t.digest), FALSE)

\* require_timestamping_eku, require_not_ca, require_timestamp_signing_key_usage.
RequireTimestampingEku(c) ==
    /\ "extendedKeyUsage" \notin c.duplicate
    /\ "eku" \in c.critical /\ c.eku = <<"timeStamping">>
RequireNotCa(c) == "basicConstraints" \notin c.duplicate /\ c.bc = "notca"
RequireSigningKeyUsage(c) == "keyUsage" \notin c.duplicate /\ MaySign(c)

\* The signed attributes speak of this very TSTInfo.
SignedContent(t) ==
    /\ t.digest \in DigestAlgorithm
    /\ FindAttribute(t.attrs, "contentType")
    /\ AttributeValue(t.attrs, "contentType") = [contentType |-> "TSTInfo"]
    /\ FindAttribute(t.attrs, "messageDigest")
    /\ AttributeValue(t.attrs, "messageDigest") = [digest |-> Digest(t.digest, t.info)]

\* verify_token_cms.
VerifyTokenCms(t, extra) ==
    LET certs == Embedded(t, extra) IN
    /\ t.content = "TSTInfo" /\ t.signerInfos = 1
    /\ SigningCertificateBindings(t)
    /\ SignerCandidates(t, certs) # {}
    /\ LET signer == SignerOf(t, certs) IN
         /\ SignedContent(t)
         /\ VerifyCmsSignature(t, signer.key)
         /\ RequireTimestampingEku(signer) /\ RequireNotCa(signer)
         /\ RequireSigningKeyUsage(signer)
         /\ ParseTstInfoBody(t.info)
         /\ CheckTsaIdentity(signer, t.info)
         /\ CheckGenTime(signer, t.info)

-----------------------------------------------------------------------------
(* Requests and responses.                                                 *)

\* build_timestamp_request.
BuildTimestampRequest(alg, hash, policy, nonce, certReq) ==
    [alg |-> alg, hash |-> hash, policy |-> policy, nonce |-> nonce, certReq |-> certReq]

\* parse_timestamp_response: a status, at most one text before at most one
\* failure code, and nothing after the token.
ParseTimestampResponse(r) ==
    /\ ~r.trailing
    /\ r.statusInfo \in {<<>>, <<"statusString">>, <<"failureInfo">>,
                         <<"statusString", "failureInfo">>}

\* PkiStatus::is_success.
IsSuccess(r) == r.status \in {"granted", "grantedWithMods"}

\* Mutant: a token without a nonce passes.
CheckTstInfoMatches_NonceOptional(info, hash, nonce, alg) ==
    /\ info.hash = hash /\ info.alg = alg
    /\ nonce # NoNonce => NonceOf(info) \in {nonce, NoNonce}

\* check_tst_info_matches: a nonce that was sent has to come back.
CheckTstInfoMatches(info, hash, nonce, alg) ==
    /\ info.hash = hash /\ info.alg = alg
    /\ nonce # NoNonce => NonceOf(info) = nonce

\* check_tst_policy.
CheckTstPolicy(info, policy) == policy # NoPolicy => info.policy = policy

\* validate_timestamp_response_for_policy, after parsing; `r.token` is a
\* sequence of at most one token.
ValidateTimestampResponse(r, hash, nonce, alg, extra, policy) ==
    /\ ParseTimestampResponse(r) /\ IsSuccess(r) /\ r.token # <<>>
    /\ VerifyTokenCms(r.token[1], extra)
    /\ CheckTstInfoMatches(r.token[1].info, hash, nonce, alg)
    /\ CheckTstPolicy(r.token[1].info, policy)

-----------------------------------------------------------------------------
(* The path.                                                               *)

SameTbs(a, b) == [a EXCEPT !.der = 0, !.signer = ""] = [b EXCEPT !.der = 0, !.signer = ""]

\* Mutant: the first certificate with the right name is taken.
NextLink_ByName(chain, certs) ==
    LET named == {i \in 1 .. Len(certs) : certs[i].subject = LastOf(chain).issuer}
    IN  IF IsSelfIssued(LastOf(chain)) \/ named = {} THEN chain
        ELSE Append(chain, certs[Min(named)])

\* One round of order_chain: of the certificates that carry the issuer's name
\* and are not in the chain, the first whose key made the signature, or else
\* the first.
NextLink(chain, certs) ==
    LET named == {i \in 1 .. Len(certs) :
                    /\ certs[i].subject = LastOf(chain).issuer
                    /\ \A k \in 1 .. Len(chain) : ~SameTbs(chain[k], certs[i])}
        signing == {i \in named : SignedBy(LastOf(chain), certs[i])}
    IN  IF IsSelfIssued(LastOf(chain)) \/ named = {} THEN chain
        ELSE Append(chain, certs[Min(IF signing # {} THEN signing ELSE named)])

\* order_chain.
OrderChain(signer, certs) ==
    LET chain[k \in 0 .. OrderRounds] ==
            IF k = 0 THEN <<signer>> ELSE NextLink(chain[k - 1], certs)
    IN  chain[OrderRounds]

\* verify_timestamp_token, with a trust store that holds `roots`.  Without a
\* validation_time the path is judged at genTime, fraction included.
VerifyTimestampToken(t, hash, alg, nonce, roots, when, extra) ==
    /\ VerifyTokenCms(t, extra)
    /\ CheckTstInfoMatches(t.info, hash, nonce, alg)
    /\ LET certs == Embedded(t, extra) IN
       Verifiable(OrderChain(SignerOf(t, certs), certs), roots,
                  IF when = NoTime THEN t.info.genTime ELSE when,
                  when = NoTime /\ HasFraction(t.info), "TimestampSigner")
=============================================================================
