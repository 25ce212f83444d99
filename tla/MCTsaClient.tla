----------------------------- MODULE MCTsaClient ----------------------------
(* Instances of TsaClient for TLC.                                         *)
EXTENDS TsaClient, PathCerts, TLC

\* A timestamp signer, its renewal with the same key under another CA, and
\* one of another kind directly below the root.
Signer(der, issuer, key, by) ==
    [Ee(der, "E", issuer, by) EXCEPT !.key = key, !.ski = key, !.eku = <<"timeStamping">>,
        !.hasSan = TRUE, !.san = {Dns("a")}]
TsaOld == [Signer(40, "I", "t", "i") EXCEPT !.not_after = 1]
TsaNew == [Signer(41, "S", "t", "s") EXCEPT !.not_before = 1]
TsaEc == Signer(42, "R", "q", "r1")

\* Namesakes of the CAs with other keys.
Namesake == Ca(43, "I", "R", "y", "y")
NamesakeSub == Ca(44, "S", "I", "y", "y")

\* Certificates of others: nobody's, and subscribers of the CA of each kind
\* that may not sign tokens.
SelfMade == Signer(50, "E", "x", "x")
Subscriber == [Signer(51, "I", "e1", "i") EXCEPT !.eku = <<"OCSPSigning">>]
Uncritical == [Signer(52, "I", "e2", "i") EXCEPT !.critical = {}]
TwoPurposes == [Signer(53, "I", "e3", "i") EXCEPT !.eku = <<"timeStamping", "other">>]
Unfit == [Signer(54, "I", "e4", "i") EXCEPT !.keyUsage = {"cRLSign"}]
TsaCa == [Signer(55, "I", "e5", "i") EXCEPT !.bc = "ca"]
Repeats == [Signer(56, "I", "e6", "i") EXCEPT !.duplicate = {"keyUsage"}]
Weak == Signer(57, "I", "w1", "i")
Mixed == Signer(58, "I", "w2", "i")

TsaCerts == {Root, Inter, Subordinate, TsaOld, TsaNew, TsaEc, Namesake, NamesakeSub,
             SelfMade, Subscriber, Uncritical, TwoPurposes, Unfit, TsaCa, Repeats,
             Weak, Mixed}

MCKeyAlgorithm(key) == IF key = "q" THEN "P256" ELSE "Rsa"

ByKey(c) == [by |-> "ski", ski |-> c.ski]
BySerial(c) == [by |-> "issuerSerial", issuer |-> c.issuer, serial |-> c.serial]

Plain(c, certs) ==
    [cert |-> c, policy |-> "p0", name |-> Dns("a"), digest |-> "Sha256",
     alg |-> RsaEncryption, params |-> NoParams,
     signs |-> Algorithm("RsaPkcs1v15", "Sha256"),
     ess |-> "signingCertificateV2", sid |-> ByKey(c), certs |-> certs]

AllTsas ==
    {Plain(TsaOld, <<TsaOld, Inter>>),
     [Plain(TsaNew, <<Inter, Subordinate, TsaNew>>) EXCEPT !.alg = Pss,
        !.params = PssParams("Sha256"), !.signs = Algorithm("RsaPss", "Sha256"),
        !.name = [kind |-> "directory", value |-> "E"]],
     [Plain(TsaEc, <<TsaEc>>) EXCEPT !.alg = EcPublicKey,
        !.signs = Algorithm("Ecdsa", "Sha256"), !.ess = "signingCertificate",
        !.sid = BySerial(TsaEc)]}

AllFabricators ==
    {Plain(c, <<>>) : c \in {SelfMade, Subscriber, Uncritical, TwoPurposes, Unfit,
                             TsaCa, Repeats}}
      \cup {[Plain(Weak, <<>>) EXCEPT !.alg = Algorithm("RsaPkcs1v15", "Sha1"),
                                      !.signs = Algorithm("RsaPkcs1v15", "Sha1")],
            [Plain(Mixed, <<>>) EXCEPT !.alg = Algorithm("RsaPkcs1v15", "Sha512"),
                                       !.signs = Algorithm("RsaPkcs1v15", "Sha512")]}

Forging == Plain(SelfMade, <<>>)

\* A second nonce before or after the first, fields out of order or out of
\* range, a critical extension, another hash, instant, name or policy.
Distortions(info) ==
    LET opt == info.optional
        with(fs) == [info EXCEPT !.optional = fs]
        other == [tag |-> "nonce", nonce |-> 9]
    IN  {with(<<opt[1], other, opt[2], opt[3]>>), with(<<opt[1], opt[2], other, opt[3]>>),
         with(<<opt[2], opt[1], opt[3]>>), with(<<opt[1], other, opt[3]>>), with(<<>>),
         with(<<opt[1], [other EXCEPT !.nonce = 99]>>),
         with(<<[opt[1] EXCEPT !.parts[2].value = 1000], opt[2]>>),
         with(Append(opt, [tag |-> "extensions", list |-> <<[oid |-> "o", critical |-> TRUE]>>])),
         with(Append(opt, [tag |-> "extensions", list |-> <<[oid |-> "o", critical |-> FALSE]>>])),
         with(<<opt[2], [opt[3] EXCEPT !.name = Dns("z")]>>),
         with(<<opt[2], [opt[3] EXCEPT !.name.kind = "x400"]>>),
         with(<<opt[2], [opt[3] EXCEPT !.name.kind = "malformed"]>>),
         [info EXCEPT !.hash = Digest("Sha3_256", "doc")],
         [info EXCEPT !.hash = Digest("Sha512", "doc")],
         [info EXCEPT !.alg = "Sha3_256"], [info EXCEPT !.version = 2],
         [info EXCEPT !.genTime = 9], [info EXCEPT !.fraction = "malformed"],
         [info EXCEPT !.policy = "p2"]}

AllBundles ==
    {<<TsaNew, Subordinate, Inter>>, <<Namesake, Inter, TsaNew, TsaOld>>,
     <<NamesakeSub, Root, TsaOld, Namesake, Subordinate, Inter, TsaNew, TsaEc>>}

Hasher == Digest("Sha256", "doc")
TwoClients ==
    <<[digest_algorithm |-> "Sha256", policy_oid |-> NoPolicy, cert_req |-> TRUE,
       verification_certs |-> <<>>],
      [digest_algorithm |-> "Sha256", policy_oid |-> "p1", cert_req |-> FALSE,
       verification_certs |-> <<TsaOld, TsaNew>>]>>

Looks(roots, when, extra) == [roots |-> roots, when |-> when, extra |-> extra]
AllVerifications ==
    {Looks(<<Root>>, NoTime, <<>>),
     Looks(<<Successor, Root>>, 2, <<Inter, Subordinate, TsaNew>>)}
=============================================================================
