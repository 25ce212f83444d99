------------------------------ MODULE PathCerts -----------------------------
(* A small public key infrastructure for the instances of the path modules.*)
EXTENDS Integers, Sequences

Dns(v) == [kind |-> "dns", value |-> v]
Within(k, vs) == [kind |-> k, covers |-> vs]

\* A CA without restrictions, valid for ever, and a leaf.
Ca(der, subject, issuer, key, signer) ==
    [der |-> der, subject |-> subject, issuer |-> issuer, serial |-> der,
     ski |-> key, key |-> key, signer |-> signer, bc |-> "ca", pathLen |-> -1,
     keyUsage |-> {"keyCertSign", "cRLSign"}, eku |-> <<>>,
     duplicate |-> {}, critical |-> {"basic"},
     not_before |-> 0, not_after |-> 9, hasSan |-> FALSE, sanParses |-> TRUE,
     san |-> {}, emails |-> {}, permitted |-> {}, excluded |-> {},
     nocheck |-> "absent"]
Ee(der, subject, issuer, signer) ==
    [Ca(der, subject, issuer, "e", signer) EXCEPT !.bc = "notca",
        !.keyUsage = {"digitalSignature"}, !.eku = <<"OCSPSigning">>,
        !.critical = {"eku"}]

\* A root, its reissue with the same key under tighter limits, the
\* certificate that carries its successor key, and a successor.
Root == Ca(1, "R", "R", "r1", "r1")
Reissue == [Root EXCEPT !.der = 2, !.not_after = 1, !.pathLen = 1,
                        !.permitted = {Within("dns", {"a"})}]
Rollover == Ca(3, "R", "R", "r2", "r1")
Successor == [Ca(4, "R", "R", "r2", "r2") EXCEPT !.keyUsage = {},
                 !.pathLen = 1, !.excluded = {Within("mail", {"m"})}]

\* An intermediate that may have subordinates, one that may not, its own
\* rollover, a subordinate, and a cross-certificate back to the root's key.
Inter == [Ca(5, "I", "R", "i", "r1") EXCEPT
             !.permitted = {Within("dns", {"a", "b"}), Within("directory", {"S", "E", "I"})}]
Narrow == [Ca(6, "I", "R", "i", "r2") EXCEPT !.pathLen = 0, !.not_before = 1]
SelfIssued == [Ca(7, "I", "I", "i", "i") EXCEPT !.permitted = {Within("dns", {"b"})}]
Subordinate == [Ca(8, "S", "I", "s", "i") EXCEPT !.excluded = {Within("dns", {"b"})}]
Cross == Ca(9, "R", "I", "r1", "i")

\* Leaves: a host name, a mail address in the subject, and one below S.
Host == [Ee(10, "E", "I", "i") EXCEPT !.hasSan = TRUE, !.san = {Dns("a")}]
Mail == [Ee(11, "E", "R", "r2") EXCEPT !.emails = {"m"}, !.not_after = 1]
Deep == [Ee(12, "E", "S", "s") EXCEPT !.hasSan = TRUE, !.san = {Dns("b")}]

\* What has to be refused: another key, repeated or unknown critical
\* extensions, a CA that is none, unreadable extensions.
Forged == [Host EXCEPT !.der = 13, !.signer = "none"]
Odd == {[Inter EXCEPT !.der = 14, !.duplicate = {"other"}],
        [Inter EXCEPT !.der = 15, !.critical = {"unknown"}],
        [Inter EXCEPT !.der = 16, !.bc = "malformed"],
        [Inter EXCEPT !.der = 17, !.keyUsage = {"cRLSign"}],
        [Inter EXCEPT !.der = 18, !.excluded = {Within("other", {})}],
        [Host EXCEPT !.der = 19, !.sanParses = FALSE],
        [Host EXCEPT !.der = 20, !.bc = "malformed", !.critical = {}]}

\* Sequences of at most n distinct elements of S.
Arrangements(S, n) ==
    UNION {{s \in [1 .. k -> S] : \A i, j \in 1 .. k : i # j => s[i] # s[j]}
             : k \in 0 .. n}
=============================================================================
