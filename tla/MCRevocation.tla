---------------------------- MODULE MCRevocation ----------------------------
(* Instances of Revocation for TLC.                                        *)
EXTENDS Revocation

Timeouts(o, c, p) == [ocsp |-> o, crl |-> c, cert |-> p]

ConfigOf(strict, preferOcsp, t, depth) ==
    [prefer_ocsp |-> preferOcsp, require_revocation_check |-> strict,
     use_ocsp_nonce |-> TRUE, require_nonce |-> FALSE,
     ocsp_timeout |-> t.ocsp, crl_timeout |-> t.crl,
     per_cert_timeout |-> t.cert, max_ocsp_recursion |-> depth]

NonceRefused(c) == [c EXCEPT !.use_ocsp_nonce = FALSE, !.require_nonce = TRUE]

Profile(o, c) == [ocsp_urls |-> o, crl_points |-> c]
Response(s, d) == [error |-> "none", status |-> s, delegated |-> d]
Failure(e) == [error |-> e, status |-> "Unknown", delegated |-> FALSE]

\* The strict policy with the timers in the order of the defaults (OCSP,
\* then CRL, then the deadline), the relaxed one with a deadline before the
\* source timers, no budget, and the nonce policy that refuses.
AllConfigs ==
    {ConfigOf(TRUE, TRUE, Timeouts(1, 1, 2), 1),
     ConfigOf(FALSE, FALSE, Timeouts(2, 2, 1), 1),
     ConfigOf(TRUE, FALSE, Timeouts(1, 1, 1), 0),
     NonceRefused(ConfigOf(TRUE, TRUE, Timeouts(1, 1, 1), 1))}
BothSources == {Profile(TRUE, TRUE)}
SomeProfiles == {Profile(TRUE, TRUE), Profile(FALSE, FALSE)}
SomeOcspReplies ==
    {Response("Valid", TRUE), Response("Valid", FALSE), Response("Revoked", FALSE),
     Failure("integrity")}
SomeCrlReplies == {"Valid", "Revoked", "integrity"}

\* The defaults in proportion (3 s, 7 s, 10 s) under the relaxed policy.
RelaxedConfigs == {ConfigOf(FALSE, TRUE, Timeouts(1, 2, 3), 1)}
RelaxedOcspReplies == {Response("Valid", TRUE), Response("Revoked", FALSE)}
RelaxedCrlReplies == {"Revoked", "integrity"}
=============================================================================
