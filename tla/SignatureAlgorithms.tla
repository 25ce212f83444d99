------------------------ MODULE SignatureAlgorithms -------------------------
(***************************************************************************)
(* Digests, signature algorithms and the policy on weak ones               *)
(* (crypto/algorithm.rs, crypto/verify.rs).  A hash is the algorithm and   *)
(* what was hashed, so no two inputs collide; a signature is the key, the  *)
(* algorithm and what was signed.  An algorithm is a scheme and the hash   *)
(* its identifier implies: none for the bare key identifiers, for Ed25519  *)
(* and for RSASSA-PSS, whose hash is in its parameters.                    *)
(***************************************************************************)
EXTENDS Naturals, Sequences

CONSTANTS
    KeyAlgorithm(_),    \* of a key: "Rsa", "P256", "P384", "P521", "Dsa", "Ed25519"
    LegacyBuild         \* feature legacy-algorithms

ASSUME BuildAssumption == LegacyBuild \in BOOLEAN

DigestAlgorithm == {"Sha256", "Sha384", "Sha512", "Sha3_256", "Sha3_384", "Sha3_512"}
Sha2 == {"Sha256", "Sha384", "Sha512"}

\* output_size, and the length of a SHA-1 hash.
OutputSize(alg) ==
    CASE alg = "Sha1" -> 20
      [] alg \in {"Sha256", "Sha3_256"} -> 32
      [] alg \in {"Sha384", "Sha3_384"} -> 48
      [] alg \in {"Sha512", "Sha3_512"} -> 64
      [] OTHER -> 0

Digest(alg, data) == [alg |-> alg, of |-> data]

Algorithm(scheme, hash) == [scheme |-> scheme, hash |-> hash]
Pss == Algorithm("RsaPss", "none")
RsaEncryption == Algorithm("rsaEncryption", "none")
EcPublicKey == Algorithm("ecPublicKey", "none")
Ed25519 == Algorithm("Ed25519", "none")

-----------------------------------------------------------------------------
(* Verification.                                                           *)

\* is_weak_signature_oid.
IsWeakSignatureOid(a) ==
    \/ a.scheme = "RsaPkcs1v15" /\ a.hash \in {"Md5", "Sha1", "Sha224"}
    \/ a.scheme \in {"Ecdsa", "Dsa"} /\ a.hash = "Sha1"

\* verify_with_backend: `key` is of the kind and made the signature in
\* exactly this way.
VerifyWithBackend(sig, over, key, kind, a, salt) ==
    KeyAlgorithm(key) = kind /\ sig = [key |-> key, alg |-> a, salt |-> salt, over |-> over]

\* verify_ecdsa_bound: the pairs of a curve and a hash that go together.
EcdsaPairs ==
    {<<"P256", "Sha256">>, <<"P384", "Sha384">>, <<"P521", "Sha512">>,
     <<"P521", "Sha256">>, <<"P521", "Sha384">>, <<"P256", "Sha1">>, <<"P384", "Sha1">>}
VerifyEcdsaBound(sig, over, key, a) ==
    /\ <<KeyAlgorithm(key), a.hash>> \in EcdsaPairs
    /\ VerifyWithBackend(sig, over, key, KeyAlgorithm(key), a, 0)

\* verify_dsa, verify_legacy_md5_rsa.
VerifyDsa(sig, over, key, a) ==
    LegacyBuild /\ VerifyWithBackend(sig, over, key, "Dsa", a, 0)
VerifyRsa(sig, over, key, a) ==
    (a.hash = "Md5" => LegacyBuild) /\ VerifyWithBackend(sig, over, key, "Rsa", a, 0)

\* verify_signature_by_oid_with_policy.  RSASSA-PSS without its parameters is
\* tried with each hash, the salt as long as the hash.
VerifySignatureByOid(sig, over, key, a, allowLegacy) ==
    /\ IsWeakSignatureOid(a) => allowLegacy
    /\ CASE a.scheme = "RsaPkcs1v15" /\ a.hash \in Sha2 \cup {"Md5", "Sha1", "Sha224"} ->
              VerifyRsa(sig, over, key, a)
         [] a = Pss ->
              \E h \in Sha2 : VerifyWithBackend(sig, over, key, "Rsa",
                                  Algorithm("RsaPss", h), OutputSize(h))
         [] a.scheme = "Ecdsa" /\ a.hash \in Sha2 \cup {"Sha1"} ->
              VerifyEcdsaBound(sig, over, key, a)
         [] a.scheme = "Dsa" /\ a.hash \in {"Sha1", "Sha256"} ->
              VerifyDsa(sig, over, key, a)
         [] a = Ed25519 -> VerifyWithBackend(sig, over, key, "Ed25519", a, 0)
         [] OTHER -> FALSE

\* verify_rsa_pss_signature_strict: the parameters are there, name one hash
\* for the message and the mask, and the salt they name is the one used.
NoParams == [present |-> FALSE, hash |-> "none", mgf1 |-> "none", salt |-> 0, trailer |-> 1]
PssParams(h) == [NoParams EXCEPT !.present = TRUE, !.hash = h, !.mgf1 = h, !.salt = OutputSize(h)]
VerifyRsaPssStrict(sig, over, key, p) ==
    /\ p.present /\ p.hash \in Sha2 /\ p.mgf1 = p.hash /\ p.trailer = 1
    /\ VerifyWithBackend(sig, over, key, "Rsa", Algorithm("RsaPss", p.hash), p.salt)
=============================================================================
