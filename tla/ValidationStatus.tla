-------------------------- MODULE ValidationStatus --------------------------
(***************************************************************************)
(* The four-valued status of ltv/status.rs and the pure functions of       *)
(* ltv/revocation.rs that combine two of them.  The payload of a status    *)
(* (source, reason text, instants) decides nothing and is left out.        *)
(***************************************************************************)
EXTENDS Integers

\* enum ValidationStatus.
Statuses == {"Valid", "Revoked", "Invalid", "Unknown"}

\* ValidationStatus::priority.
Priority(s) ==
    CASE s = "Revoked" -> 3
      [] s = "Valid"   -> 2
      [] s = "Invalid" -> 1
      [] OTHER         -> 0   \* Unknown

\* resolve_priority: the first argument wins a tie.
ResolvePriority(a, b) == IF Priority(a) >= Priority(b) THEN a ELSE b

\* merge_preferred: the preference only orders the arguments.
MergePreferred(ocsp, crl, prefer_ocsp) ==
    IF prefer_ocsp THEN ResolvePriority(ocsp, crl)
                   ELSE ResolvePriority(crl, ocsp)

\* enforce_revocation_policy: under the strict policy Unknown blocks.
EnforceRevocationPolicy(status, required) ==
    IF required /\ status = "Unknown" THEN "Invalid" ELSE status
=============================================================================
