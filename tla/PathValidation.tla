--------------------------- MODULE PathValidation ---------------------------
(***************************************************************************)
(* What chain verification promises, without saying how it walks: RFC 5280 *)
(* path validation as one formula.  TrustStore is shown to decide exactly  *)
(* Verifiable, and the callers of verify_chain rely on it.                 *)
(***************************************************************************)
EXTENDS Certificates

\* What one CA's constraints mean for one certificate below it, by itself.
Allows(ca, c) ==
    LET mine == {[kind |-> "directory", value |-> c.subject]}
                  \cup (IF c.hasSan THEN {n \in c.san : n.kind \in Kinds}
                        ELSE {[kind |-> "mail", value |-> e] : e \in c.emails})
    IN  /\ ca.permitted \cup ca.excluded # {} => (c.hasSan => c.sanParses)
        /\ \A n \in mine :
             /\ \A b \in ca.excluded : ~BaseMatches(b, n)
             /\ (\E b \in ca.permitted : b.kind = n.kind)
                  => \E b \in ca.permitted : BaseMatches(b, n)

\* The window of c contains the instant, counted in half seconds so that a
\* fraction of a second is an instant of its own.
Covers(c, time, frac) ==
    time # NoTime =>
        LET instant == 2 * time + IF frac THEN 1 ELSE 0 IN
        2 * c.not_before <= instant /\ instant <= 2 * c.not_after

\* p is a certification path at the validated instant, each certificate
\* vouched for by the next and each CA within what it may certify, that ends
\* in one of the roots.
IsPath(p, roots, time, frac, role) ==
    /\ p # <<>> /\ IsIn(LastOf(p), roots)
    /\ SatisfiesPurpose(p[1], role)
    /\ \A i \in 1 .. Len(p) : ExtensionsOk(p[i]) /\ Covers(p[i], time, frac)
    /\ \A i \in 1 .. Len(p) - 1 :
         /\ p[i].issuer = p[i + 1].subject
         /\ SignedBy(p[i], p[i + 1])
         /\ MayIssue(p[i + 1])
         /\ PathLenOk(p[i + 1], p, i + 1)
    /\ \A t \in 2 .. Len(p) :
         /\ Decodable(p[t])
         /\ \A k \in 1 .. t - 1 : Allows(p[t], p[k])

\* A chain that verify_chain accepts: one that ends in a self-issued root is
\* judged as it is, any other is completed by a root.
Verifiable(c, roots, time, frac, role) ==
    /\ c # <<>>
    /\ IF IsSelfIssued(LastOf(c)) /\ IsIn(LastOf(c), roots)
       THEN IsPath(c, roots, time, frac, role) /\ SignedBy(LastOf(c), LastOf(c))
       ELSE \E i \in 1 .. Len(roots) :
                IsPath(Append(c, roots[i]), roots, time, frac, role)
=============================================================================
