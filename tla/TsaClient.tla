----------------------------- MODULE TsaClient ------------------------------
(***************************************************************************)
(* The TSA client and its pool (tsp/client.rs): one call after the other   *)
(* server is asked, each with a nonce of its own, until one answers, and   *)
(* a verifier later looks at a token.  The authorities are honest but slow *)
(* and the network delivers any token ever made, whoever made it, with     *)
(* everything the signature does not cover changed at will.                *)
(***************************************************************************)
EXTENDS TspToken

CONSTANTS
    Pool,           \* the clients, in order: what each is configured with
    Hash,           \* data_hash, the same for all of them
    Others,         \* attempts of other parties that may be answered too
    Tsas,           \* honest authorities
    Fabricators,    \* others that sign, with keys nobody certified for it or
                    \* in a way that does not count
    Forger,         \* one of them, that writes what it likes
    Distorted(_),   \* what may be made of a TSTInfo
    Bundles,        \* certificates the network may attach to a token
    Verifications,  \* how a verifier may be configured
    MaxTime,        \* bound: last instant of the clock
    MaxIssued       \* bound: tokens the authorities issue

\* The attempts of the call, one for each client it may get to.  A nonce is
\* eight random bytes, taken to be different each time.
Attempts == 1 .. Len(Pool)
ASSUME AttemptsAssumption ==
    /\ Len(Pool) \in Nat \ {0} /\ Others \cap Attempts = {} /\ Attempts \cup Others \subseteq Nonces
    /\ \A i \in Attempts :
         /\ Pool[i].verification_certs \in Seq(Certs)
         /\ Pool[i].digest_algorithm \in DigestAlgorithm
         /\ OutputSize(Hash.alg) = OutputSize(Pool[i].digest_algorithm)
ASSUME WorldAssumption ==
    /\ \A a \in Tsas \cup Fabricators : a.cert \in Certs /\ a.ess \in EssOids
    /\ Forger \in Fabricators
    /\ {a.cert.key : a \in Tsas} \cap {a.cert.key : a \in Fabricators} = {}
    /\ Bundles \subseteq Seq(Certs)
    /\ \A v \in Verifications : v.extra \in Seq(Certs) /\ Len(v.roots) \in Nat

\* The ways of signing there are: with a SHA-2 digest, the identifier naming
\* the key alone or the digest too, or with the parameters that say it.
SignsProperly(a) ==
    LET kind == KeyAlgorithm(a.cert.key) IN
    /\ a.digest \in Sha2
    /\ \/ /\ kind = "Rsa" /\ a.signs = Algorithm("RsaPkcs1v15", a.digest)
          /\ a.alg \in {RsaEncryption, a.signs} /\ a.params.salt = 0
       \/ /\ kind = "Rsa" /\ a.signs = Algorithm("RsaPss", a.digest)
          /\ a.alg = Pss /\ a.params = PssParams(a.digest)
       \/ /\ <<kind, a.digest>> \in EcdsaPairs /\ a.signs = Algorithm("Ecdsa", a.digest)
          /\ a.alg \in {EcPublicKey, a.signs} /\ a.params.salt = 0
       \/ /\ kind = "Ed25519" /\ a.signs = Ed25519 /\ a.alg = Ed25519 /\ a.params.salt = 0

\* An authority has a certificate for it, that it names, and names itself by
\* one of the names in it.
ASSUME TsasAssumption ==
    \A a \in Tsas :
        /\ a.certs \in Seq(Certs) /\ SignsProperly(a)
        /\ SatisfiesPurpose(a.cert, "TimestampSigner")
        /\ SignerIdentifierMatches(a.sid, a.cert)
        /\ \/ a.name = [kind |-> "directory", value |-> a.cert.subject]
           \/ /\ a.cert.hasSan /\ a.cert.sanParses /\ a.name \in a.cert.san
              /\ a.name.kind \notin {"malformed", "x400"}

\* Nobody but its holder has signed the certificate, and no verifier trusts it.
Unvouched(c) ==
    \A v \in Verifications :
        /\ ~IsIn(c, v.roots)
        /\ \A d \in Certs \cup {v.roots[i] : i \in 1 .. Len(v.roots)} :
              d # c => ~(c.issuer = d.subject /\ SignedBy(c, d))

\* Whoever else signs does so with a weak algorithm, with another hash than
\* that of the content, or under a certificate that is not one for it.
ASSUME FabricatorsAssumption ==
    \A f \in Fabricators :
        \/ IsWeakSignatureOid(f.alg)
        \/ CombinedOidDigest(f.alg) /\ f.alg.hash # f.digest
        \/ ~SatisfiesPurpose(f.cert, "TimestampSigner")
        \/ Unvouched(f.cert)
ASSUME BoundsAssumption == MaxTime \in Nat /\ MaxIssued \in Nat

VARIABLES
    now,        \* the clock of the authorities
    sent,       \* attempts whose request has left
    issued,     \* what the authorities have issued: attempt, authority, token
    pc,         \* where the call stands
    attempt,    \* the client it is at
    got,        \* the token it returned, if it did
    verdict     \* the token a verifier accepted, and how it looked at it

vars == <<now, sent, issued, pc, attempt, got, verdict>>

-----------------------------------------------------------------------------
(* Authorities and whoever else makes tokens.                              *)

\* The request of an attempt; that of another party is for the same hash.
RequestOf(a) ==
    LET c == Pool[IF a \in Attempts THEN a ELSE 1]
    IN  BuildTimestampRequest(c.digest_algorithm, Hash, c.policy_oid, a, c.cert_req)

\* The TSTInfo that answers a request.
Answer(req, tsa, time, fraction) ==
    [version |-> 1, policy |-> IF req.policy = NoPolicy THEN tsa.policy ELSE req.policy,
     alg |-> req.alg, hash |-> req.hash, genTime |-> time, fraction |-> fraction,
     optional |-> <<[tag |-> "accuracy", parts |-> <<[rank |-> 1, value |-> 1],
                                                     [rank |-> 2, value |-> 999]>>],
                    [tag |-> "nonce", nonce |-> req.nonce],
                    [tag |-> "tsa", name |-> tsa.name]>>]

\* The certificate identifier of an authority, in the attribute it uses.
EssValue(tsa, alg) ==
    [alg |-> alg, hash |-> Digest(alg, tsa.cert.der), shape |-> "single",
     issuerSerial |-> <<tsa.cert.issuer, tsa.cert.serial>>]

\* A token signed by the holder of a certificate.
Token(tsa, info, certs) ==
    LET attrs ==
            <<[oid |-> "contentType", values |-> <<[contentType |-> "TSTInfo"]>>],
              [oid |-> "messageDigest", values |-> <<[digest |-> Digest(tsa.digest, info)]>>],
              [oid |-> tsa.ess,
               values |-> <<EssValue(tsa, IF tsa.ess = "signingCertificate" THEN "Sha1"
                                          ELSE tsa.digest)>>]>>
    IN  [content |-> "TSTInfo", info |-> info, signerInfos |-> 1, attrs |-> attrs,
         unsigned |-> {}, sid |-> tsa.sid, digest |-> tsa.digest,
         alg |-> tsa.alg, params |-> tsa.params,
         sig |-> [key |-> tsa.cert.key, alg |-> tsa.signs, salt |-> tsa.params.salt,
                  over |-> attrs],
         certs |-> certs]

Genuine == {u.token : u \in issued}

\* What may become of a token on the way: any certificates and the other ways
\* to name the signer, another content or another token's attributes or a
\* second message digest, and fields nobody signed.
Renamed(t) ==
    {[t EXCEPT !.certs = w.certs, !.sid = w.sid] :
        w \in [certs: Bundles \cup {t.certs}, sid: {t.sid} \cup {a.sid : a \in Tsas}]}
Reworded(t) ==
    {[t EXCEPT !.info = i] : i \in {u.info : u \in Genuine} \cup Distorted(t.info)}
Reattributed(t) ==
    {[t EXCEPT !.attrs = x] :
        x \in {u.attrs : u \in Genuine}
                \cup {Append(t.attrs, [oid |-> "messageDigest", values |-> <<[digest |-> Hash]>>])}}
Relabelled(t) ==
    {[t EXCEPT !.unsigned = {"signingCertificateV2"}], [t EXCEPT !.signerInfos = 2],
     [t EXCEPT !.content = "other"], [t EXCEPT !.digest = "Sha3_256"],
     [t EXCEPT !.alg = Algorithm("RsaPkcs1v15", "Sha1")]}
Altered(t) == Renamed(t) \cup Reworded(t) \cup Reattributed(t) \cup Relabelled(t)

\* What others make for a request: the answer, or something like it.
Imitated ==
    {Token(f, Answer(RequestOf(a), f, now, "none"), <<f.cert>>) : a \in sent, f \in Fabricators}
ForgedTokens ==
    UNION {{Token(Forger, i, <<Forger.cert>>) :
              i \in Distorted(Answer(RequestOf(a), Forger, now, "none"))} : a \in sent}
Fabricated == Imitated \cup ForgedTokens

OnTheNetwork == (UNION {Altered(t) : t \in Genuine}) \cup Fabricated

\* What is made of a TSTInfo still has a list of optional fields.
ASSUME DistortionAssumption ==
    \A a \in Attempts \cup Others, s \in Tsas \cup Fabricators, time \in 0 .. MaxTime,
       fraction \in {"none", "positive"} :
        \A i \in Distorted(Answer(RequestOf(a), s, time, fraction)) : Len(i.optional) \in Nat

-----------------------------------------------------------------------------
Init ==
    /\ now = 0 /\ sent = Others /\ issued = {}
    /\ pc = "validate" /\ attempt = 1 /\ got = <<>> /\ verdict = <<>>

\* An authority answers a request it has received, under a certificate that is
\* valid at this moment; the certificates come along if they were asked for.
Issue ==
    /\ Cardinality(issued) < MaxIssued
    /\ \E a \in sent, tsa \in Tsas, fraction \in {"none", "positive"} :
         /\ ValidAt(tsa.cert, now, fraction = "positive")
         /\ issued' = issued \cup
              {[attempt |-> a, tsa |-> tsa,
                token |-> Token(tsa, Answer(RequestOf(a), tsa, now, fraction),
                                IF RequestOf(a).certReq THEN tsa.certs ELSE <<>>)]}
    /\ UNCHANGED <<now, sent, pc, attempt, got, verdict>>

Tick ==
    /\ now < MaxTime /\ pc # "done"
    /\ now' = now + 1
    /\ UNCHANGED <<sent, issued, pc, attempt, got, verdict>>

\* Mutant: a client that fails is asked again.
NextClient_Again == pc' = "validate" /\ UNCHANGED <<attempt, got>>

\* The pool goes on to its next client, or returns the last error.
NextClient ==
    /\ \/ attempt < Len(Pool) /\ attempt' = attempt + 1 /\ pc' = "validate"
       \/ attempt = Len(Pool) /\ pc' = "done" /\ UNCHANGED attempt
    /\ UNCHANGED got

\* validate_fetch_url refuses or does not answer in time, or there are no
\* random bytes.
UrlRefused ==
    /\ pc = "validate"
    /\ NextClient
    /\ UNCHANGED <<now, sent, issued, verdict>>

\* The request goes out.
Send ==
    /\ pc = "validate"
    /\ pc' = "waiting" /\ sent' = sent \cup {attempt}
    /\ UNCHANGED <<now, issued, attempt, got, verdict>>

\* No answer in time, an HTTP error, a body above max_body_size.
NoAnswer ==
    /\ pc = "waiting"
    /\ NextClient
    /\ UNCHANGED <<now, sent, issued, verdict>>

\* TsaClient::timestamp takes the response of the attempt at hand.
Accepts(r) ==
    LET c == Pool[attempt]
    IN  ValidateTimestampResponse(r, Hash, attempt, c.digest_algorithm,
                                  c.verification_certs, c.policy_oid)

\* What can come back: a token in a well-formed response, or anything else.
Granted(t) == [trailing |-> FALSE, statusInfo |-> <<>>, status |-> "granted", token |-> <<t>>]
Responses ==
    {Granted(t) : t \in OnTheNetwork}
      \cup {[trailing |-> FALSE, statusInfo |-> <<"statusString", "failureInfo">>,
             status |-> "rejection", token |-> <<>>],
            [trailing |-> FALSE, statusInfo |-> <<>>, status |-> "granted", token |-> <<>>]}
      \cup {[Granted(t) EXCEPT !.status = "waiting"] : t \in Genuine}
      \cup {[Granted(t) EXCEPT !.trailing = TRUE] : t \in Genuine}

Receive ==
    /\ pc = "waiting"
    /\ \E r \in Responses :
         \/ Accepts(r) /\ got' = r.token /\ pc' = "done" /\ UNCHANGED attempt
         \/ ~Accepts(r) /\ NextClient
    /\ UNCHANGED <<now, sent, issued, verdict>>

\* Later someone verifies a token, from wherever it comes.
VerifyLater ==
    /\ pc = "done" /\ verdict = <<>>
    /\ \E t \in OnTheNetwork, v \in Verifications :
         /\ VerifyTimestampToken(t, Hash, Pool[1].digest_algorithm, NoNonce,
                                 v.roots, v.when, v.extra)
         /\ verdict' = <<[token |-> t, how |-> v]>>
    /\ UNCHANGED <<now, sent, issued, pc, attempt, got>>

Next ==
    \/ verdict = <<>> /\ (Issue \/ Tick)
    \/ UrlRefused \/ Send \/ NoAnswer \/ Receive \/ VerifyLater

Spec == Init /\ [][Next]_vars

\* Both waits of a client end with its timeout.
FairSpec == Spec /\ WF_vars(UrlRefused \/ Send \/ NoAnswer \/ Receive)

-----------------------------------------------------------------------------
IssuedAs(t) == {u \in issued : u.token.info = t.info /\ u.token.attrs = t.attrs}
ByAuthority(t) == t.sig.key \in {a.cert.key : a \in Tsas}

\* The token a call returns answers the attempt it was returned for: the
\* hash, the policy asked for and no nonce but that attempt's (client.rs,
\* timestamp); if an authority signed it, it issued it for this attempt, not
\* for an earlier one that ran into its timeout nor for another party.
AnswersThisAttempt ==
    got # <<>> =>
        LET info == got[1].info
            c == Pool[attempt]
        IN  /\ info.hash = Hash /\ info.alg = c.digest_algorithm
            /\ c.policy_oid # NoPolicy => info.policy = c.policy_oid
            /\ \A i \in NonceFields(info) : info.optional[i].nonce = attempt
            /\ NonceFields(info) # {}
            /\ ByAuthority(got[1]) => \E u \in IssuedAs(got[1]) : u.attempt = attempt

\* Whoever accepts a token of an authority, and whatever certificates came
\* with it, takes it under the certificate the authority signed it under, also
\* when another certificate has the same key (token.rs, verify_token_cms).
SignerIsBound ==
    /\ got # <<>> /\ ByAuthority(got[1]) =>
         \E u \in IssuedAs(got[1]) :
             SignerOf(got[1], Embedded(got[1], Pool[attempt].verification_certs)) = u.tsa.cert
    /\ verdict # <<>> /\ ByAuthority(verdict[1].token) =>
         \E u \in IssuedAs(verdict[1].token) :
             SignerOf(verdict[1].token,
                      Embedded(verdict[1].token, verdict[1].how.extra)) = u.tsa.cert

\* A token that verifies against a trust store was issued by an authority,
\* with this very content: no other key, certificate or algorithm will do
\* (token.rs, verify_timestamp_token).
VerifiedIsGenuine ==
    verdict # <<>> =>
        IssuedAs(verdict[1].token) # {}

\* The answer of an authority to the attempt under way would be taken, if it
\* arrived now and the signer's certificate is with it or configured.
HonestAnswerAccepted ==
    pc = "waiting" =>
        \A u \in issued :
            /\ u.attempt = attempt
            /\ IsIn(u.tsa.cert, u.token.certs \o Pool[attempt].verification_certs)
            => Accepts(Granted(u.token))

\* Each certificate has at most one issuer at hand, by name and signature: no
\* two certificates of one name and one key, so also no intermediate issued
\* again for the key it had; and no root of the verifier has a namesake at
\* hand, and every one has signed itself.
Unambiguous(certs, roots) ==
    LET issued_by(c, d) == c.issuer = d.subject /\ SignedBy(c, d) IN
    /\ \A i, j, k \in 1 .. Len(certs) :
         issued_by(certs[i], certs[j]) /\ issued_by(certs[i], certs[k]) => certs[j] = certs[k]
    /\ \A k \in 1 .. Len(roots) :
         /\ issued_by(roots[k], roots[k])
         /\ \A i, j \in 1 .. Len(certs) :
              issued_by(certs[i], roots[k]) /\ certs[j].subject = roots[k].subject
                => certs[j] = roots[k]

\* A chain that comes to a self-issued certificate only at its end and to none
\* twice.
Straight(c) ==
    \A i \in 2 .. Len(c) : \A k \in 1 .. i - 1 : ~IsSelfIssued(c[k]) /\ ~SameTbs(c[k], c[i])

\* A token of an authority verifies whenever some straight selection of the
\* certificates that came with it is a valid chain, in whatever order they came,
\* and also if namesakes with another key, such as re-issued intermediates with
\* a new key, came with them (token.rs, order_chain).  It is not said of
\* ambiguous certificates: of two intermediates with one name and one key
\* order_chain takes the first, which may be the expired one, although its
\* comment speaks of re-issued intermediates without that exception.
GenuineVerifies ==
    pc = "done" /\ verdict = <<>> =>
        \A u \in issued, b \in Bundles, v \in Verifications :
            LET t == [u.token EXCEPT !.certs = b]
                certs == Embedded(t, v.extra)
                when == IF v.when = NoTime THEN t.info.genTime ELSE v.when
                frac == v.when = NoTime /\ HasFraction(t.info)
            IN  \/ VerifyTimestampToken(t, Hash, t.info.alg, NoNonce, v.roots, v.when, v.extra)
                \/ ~IsIn(u.tsa.cert, certs) \/ ~Unambiguous(certs, v.roots)
                \/ \A n \in 0 .. OrderRounds : \A s \in [1 .. n -> 1 .. Len(certs)] :
                       LET c == <<u.tsa.cert>> \o [k \in 1 .. n |-> certs[s[k]]] IN
                       ~(Straight(c) /\ Verifiable(c, v.roots, when, frac, "TimestampSigner"))

\* A call of the pool returns, whatever the servers do (client.rs, timestamp).
PoolReturns == <>(pc = "done")
=============================================================================
