--------------------------- MODULE CrlRevocation ----------------------------
(***************************************************************************)
(* The checks of ltv/crl.rs on one downloaded CRL.  A CRL is reduced to    *)
(* what the checks read:                                                   *)
(*   decodes   its fields are well-formed and in order, nothing follows    *)
(*             them, and both algorithm identifiers agree                  *)
(*   issuer    the name it carries                                         *)
(*   signer    the key that signed it, or "none" when no key did or the    *)
(*             policy refuses the algorithm                                *)
(*   exts      its extensions; an entry has extensions of its own          *)
(*   entries   serial number and date of the revocations, in order         *)
(*   this/next its window; next = NoNext when nextUpdate is absent         *)
(*   size      its length in bytes                                         *)
(* Instants and durations are natural numbers on one scale.                *)
(***************************************************************************)
EXTENDS ValidationStatus, Sequences

NoNext == -1
WallClock == -1      \* validation_time = None

CrlExtensions ==
    Seq([oid: {"deltaCRLIndicator", "issuingDistributionPoint", "certificateIssuer",
               "reasonCode", "other"}, critical: BOOLEAN, value: Nat])

\* RevokedEntry, with the extensions it was read from.
RevokedEntries == Seq([serial: STRING, at: Nat, exts: CrlExtensions])

CrlDocs ==
    [decodes: BOOLEAN, issuer: STRING, signer: STRING, exts: CrlExtensions,
     entries: RevokedEntries, this: Nat, next: Nat \cup {NoNext}, size: Nat]

\* CrlFreshness.
Freshness == [clock_skew: Nat, max_age: Nat]

-----------------------------------------------------------------------------
(* Parsing.                                                                *)

\* Mutant: what is critical and whose entry it is are not looked at.
ValidateCrlExtensions_AnyScope(exts) ==
    \A i, j \in 1 .. Len(exts) : exts[i].oid = exts[j].oid => i = j

\* validate_crl_extensions, for the list and for each entry.  Some codes of
\* revocation are for delta CRLs only or are not defined.
ValidateCrlExtensions(exts) ==
    /\ \A i, j \in 1 .. Len(exts) : exts[i].oid = exts[j].oid => i = j
    /\ \A i \in 1 .. Len(exts) :
         /\ ~exts[i].critical
         /\ exts[i].oid # "certificateIssuer"
         /\ exts[i].oid = "reasonCode" => exts[i].value \in 0 .. 10 \ {7, 8}

\* extensions_contain_oid.
ContainsOid(exts, oid) == \E i \in 1 .. Len(exts) : exts[i].oid = oid

\* parse_revoked_certificates.
ParseRevokedCertificates(entries) ==
    \A i \in 1 .. Len(entries) : ValidateCrlExtensions(entries[i].exts)

\* parse_crl: only complete CRLs, for all certificates of their issuer.
ParseCrl(d) ==
    /\ d.decodes
    /\ ParseRevokedCertificates(d.entries)
    /\ ~ContainsOid(d.exts, "deltaCRLIndicator")
    /\ ~ContainsOid(d.exts, "issuingDistributionPoint")
    /\ ValidateCrlExtensions(d.exts)

\* verify_crl_signature_with_policy: `issuer` is a certificate's subject, key
\* and key usage.
VerifyCrlSignature(d, issuer) ==
    /\ issuer.keyUsage = {} \/ "cRLSign" \in issuer.keyUsage
    /\ issuer.subject = d.issuer
    /\ d.signer = issuer.key

-----------------------------------------------------------------------------
(* Freshness.                                                              *)

\* Mutant: the window is only checked to be well-formed.
ValidateCrlDates_NoExpiry(this, next, now, f) ==
    next = NoNext \/ next >= this

\* validate_crl_dates: not stale at `now`; a window in the future passes.
ValidateCrlDates(this, next, now, f) ==
    IF next = NoNext
    THEN now <= this + f.max_age + f.clock_skew
    ELSE next >= this /\ now <= next + f.clock_skew

\* CrlValidity::is_current and crl_is_current: also not from the future.
CrlIsCurrent(d, now, f) ==
    /\ ParseCrl(d)
    /\ now + f.clock_skew >= d.this
    /\ ValidateCrlDates(d.this, d.next, now, f)

-----------------------------------------------------------------------------
(* The certificate: its issuer's name and its serial number.               *)

\* The first entry of the certificate, as a sequence of at most one.
EntryOf(d, cert) ==
    LET mine == {i \in 1 .. Len(d.entries) : d.entries[i].serial = cert.serial}
    IN  IF mine = {} THEN <<>>
        ELSE <<d.entries[CHOOSE i \in mine : \A j \in mine : i <= j]>>

\* check_revocation_with_options: an Err of any step is the orchestrator's
\* Invalid; an entry dated after the validation time does not count yet.
CheckRevocation(d, cert, issuer, validation_time, clock, f) ==
    LET now == IF validation_time = WallClock THEN clock ELSE validation_time
        entry == EntryOf(d, cert)
    IN  IF ~(/\ ParseCrl(d)
             /\ VerifyCrlSignature(d, issuer)
             /\ ValidateCrlDates(d.this, d.next, now, f)
             /\ d.issuer = cert.issuer)
        THEN "Invalid"
        ELSE IF entry # <<>> /\ entry[1].at <= now THEN "Revoked" ELSE "Valid"
=============================================================================
