----------------------------- MODULE TrustStore -----------------------------
(***************************************************************************)
(* Verifying a chain against the trust anchors (trust/store.rs,            *)
(* verify_chain_inner and enforce_name_constraints_path).  One step per    *)
(* loop of the function, and within the walk over the links, the candidate *)
(* anchors and the name constraints, one step per iteration.               *)
(***************************************************************************)
EXTENDS PathValidation

CONSTANTS
    Stores,     \* the contents of the store explored (sequences of anchors)
    Chains,     \* the chains presented
    Instants,   \* the validation times: instants, or NoTime
    Purposes    \* the leaf purposes asked for, or AnyPurpose

ASSUME StoresAssumption == Stores \subseteq Seq(Certs)
ASSUME ChainsAssumption == Chains \subseteq Seq(Certs)
ASSUME RequestsAssumption ==
    Instants \subseteq Nat \cup {NoTime} /\ Purposes \subseteq STRING

VARIABLES
    anchors,    \* the store's anchors, in order
    when,       \* validation_time: an instant, or NoTime
    fraction,   \* positive_fraction
    purpose,    \* leaf_purpose, or AnyPurpose
    chain,      \* the chain to verify, leaf first
    step,       \* where verification stands
    link,       \* i of the walk over the links, from 1
    candidate,  \* index of the anchor tried
    path,       \* the full path under the name constraint walk
    top,        \* position of the issuer whose constraints are next
    state,      \* NameConstraintState
    lastErr,    \* error of the last candidate
    outcome     \* what verify_chain_inner returned

given == <<anchors, when, fraction, purpose, chain>>
walk == <<link, candidate, path, top, state, lastErr>>
storeVars == <<given, step, walk, outcome>>

Steps == {"idle", "extensions", "purpose", "time", "links", "anchor",
          "candidates", "names", "done"}
Errors == {"empty_chain", "profile", "time", "chain_broken", "signature",
           "untrusted_root"}

StoreTypeOK ==
    /\ anchors \in Seq(Certs)
    /\ when \in Nat \cup {NoTime} /\ fraction \in BOOLEAN /\ purpose \in STRING
    /\ chain \in Seq(Certs)
    /\ step \in Steps
    /\ link \in Nat /\ candidate \in Nat /\ top \in Nat
    /\ path \in Seq(Certs)
    /\ state \in [permitted: SUBSET SUBSET Subtree, excluded: SUBSET Subtree]
    /\ lastErr \in Errors
    /\ outcome \in Errors \cup {"pending", "trusted"}

\* The locals of verify_chain_inner before its first statement.
Unstarted ==
    /\ link = 1 /\ candidate = 1
    /\ path = <<>> /\ top = 0 /\ state = NoConstraints
    /\ lastErr = "untrusted_root"
    /\ outcome = "pending"

\* A request: a store, an instant and a purpose.
Request ==
    /\ anchors \in Stores
    /\ when \in Instants
    /\ fraction \in IF when = NoTime THEN {FALSE} ELSE BOOLEAN
    /\ purpose \in Purposes

-----------------------------------------------------------------------------
Go(s) == step' = s /\ UNCHANGED outcome

\* An early return with an error.
Fail(e) ==
    /\ step' = "done" /\ outcome' = e
    /\ UNCHANGED <<given, walk>>

\* Duplicate and unknown critical extensions, for the whole chain.
CheckExtensions ==
    /\ step = "extensions"
    /\ \/ chain = <<>> /\ Fail("empty_chain")
       \/ /\ chain # <<>>
          /\ \E i \in 1 .. Len(chain) : ~ExtensionsOk(chain[i])
          /\ Fail("profile")
       \/ /\ chain # <<>>
          /\ \A i \in 1 .. Len(chain) : ExtensionsOk(chain[i])
          /\ Go("purpose") /\ UNCHANGED <<given, walk>>

CheckPurpose ==
    /\ step = "purpose"
    /\ \/ ~SatisfiesPurpose(chain[1], purpose) /\ Fail("profile")
       \/ /\ SatisfiesPurpose(chain[1], purpose)
          /\ Go("time") /\ UNCHANGED <<given, walk>>

CheckTime ==
    /\ step = "time"
    /\ \/ /\ \E i \in 1 .. Len(chain) : ~ValidAt(chain[i], when, fraction)
          /\ Fail("time")
       \/ /\ \A i \in 1 .. Len(chain) : ValidAt(chain[i], when, fraction)
          /\ Go("links") /\ UNCHANGED <<given, walk>>

\* Mutant: the path length of an intermediate is not enforced.
LinkOk_NoPathLen(i) == MayIssue(chain[i + 1])

\* What the walk asks of the issuer at i + 1 once the signature verifies.
LinkOk(i) ==
    /\ MayIssue(chain[i + 1])
    /\ PathLenOk(chain[i + 1], chain, i + 1)

CheckLink ==
    /\ step = "links" /\ link < Len(chain)
    /\ LET cert == chain[link]
           issuer == chain[link + 1]
       IN \/ cert.issuer # issuer.subject /\ Fail("chain_broken")
          \/ /\ cert.issuer = issuer.subject /\ ~SignedBy(cert, issuer)
             /\ Fail("signature")
          \/ /\ cert.issuer = issuer.subject /\ SignedBy(cert, issuer)
             /\ ~LinkOk(link)
             /\ Fail("profile")
          \/ /\ cert.issuer = issuer.subject /\ SignedBy(cert, issuer)
             /\ LinkOk(link)
             /\ link' = link + 1
             /\ UNCHANGED <<given, step, candidate, path, top, state, lastErr,
                            outcome>>

LinksChecked ==
    /\ step = "links" /\ link >= Len(chain)
    /\ Go("anchor") /\ UNCHANGED <<given, walk>>

\* The name constraint walk over the full path p starts at its anchor.
EnterNames(p) ==
    /\ path' = p /\ top' = Len(p) /\ state' = NoConstraints
    /\ Go("names")
    /\ UNCHANGED <<given, link, candidate, lastErr>>

\* The last certificate is self-issued and in the store.
AnchoredDirectly == IsSelfIssued(LastOf(chain)) /\ IsIn(LastOf(chain), anchors)

FindAnchor ==
    /\ step = "anchor"
    /\ \/ /\ AnchoredDirectly /\ ~SignedBy(LastOf(chain), LastOf(chain))
          /\ Fail("signature")
       \/ /\ AnchoredDirectly /\ SignedBy(LastOf(chain), LastOf(chain))
          /\ EnterNames(chain)
       \/ /\ ~AnchoredDirectly
          /\ Go("candidates") /\ UNCHANGED <<given, walk>>

\* The checks of a candidate before the name constraints, in their order.
AnchorError(a) ==
    LET profile == ExtensionsOk(a) /\ MayIssue(a)
                     /\ PathLenOk(a, chain, Len(chain) + 1) IN
    CASE ~SignedBy(LastOf(chain), a) -> "signature"
      [] SignedBy(LastOf(chain), a) /\ ~profile -> "profile"
      [] SignedBy(LastOf(chain), a) /\ profile /\ ~ValidAt(a, when, fraction) -> "time"
      [] OTHER -> "none"

\* Mutant: the first candidate's error is returned.
NextCandidate_GivesUp(e) ==
    /\ candidate' = Len(anchors) + 1
    /\ lastErr' = e
    /\ Go("candidates")
    /\ UNCHANGED <<given, link, path, top, state>>

\* A candidate has failed: its error is kept, the next one is tried.
NextCandidate(e) ==
    /\ candidate' = candidate + 1
    /\ lastErr' = e
    /\ Go("candidates")
    /\ UNCHANGED <<given, link, path, top, state>>

\* find_all_issuers and the loop over its result: an anchor of another name
\* is passed over.
TryCandidate ==
    /\ step = "candidates" /\ candidate <= Len(anchors)
    /\ LET a == anchors[candidate]
           named == a.subject = LastOf(chain).issuer
       IN \/ ~named /\ NextCandidate(lastErr)
          \/ /\ named /\ AnchorError(a) # "none"
             /\ NextCandidate(AnchorError(a))
          \/ /\ named /\ AnchorError(a) = "none"
             /\ EnterNames(Append(chain, a))

\* No candidate is left: UntrustedRoot if none had the name.
CandidatesExhausted ==
    /\ step = "candidates" /\ candidate > Len(anchors)
    /\ Fail(lastErr)

\* Every certificate below the issuer satisfies the constraints so far.
Permits(s) == \A k \in 1 .. top - 1 : CheckCert(s, path[k])

\* One issuer of enforce_name_constraints_path, from the anchor down.
ApplyConstraints ==
    /\ step = "names" /\ top > 1
    /\ LET issuer == path[top]
           s == AddFromCert(state, issuer)
       IN \/ /\ ~(Decodable(issuer) /\ Permits(s))
             /\ \/ AnchoredDirectly /\ Fail("profile")
                \/ ~AnchoredDirectly /\ NextCandidate("profile")
          \/ /\ Decodable(issuer) /\ Permits(s)
             /\ state' = s /\ top' = top - 1
             /\ UNCHANGED <<given, step, link, candidate, path, lastErr, outcome>>

Accept ==
    /\ step = "names" /\ top <= 1
    /\ step' = "done" /\ outcome' = "trusted"
    /\ UNCHANGED <<given, walk>>

VerifyNext ==
    \/ CheckExtensions \/ CheckPurpose \/ CheckTime
    \/ CheckLink \/ LinksChecked
    \/ FindAnchor \/ TryCandidate \/ CandidatesExhausted
    \/ ApplyConstraints \/ Accept

\* Any chain may be presented: by a token, by a responder, by the caller.
VerifyInit == Request /\ chain \in Chains /\ step = "extensions" /\ Unstarted

Returned == step = "done" /\ UNCHANGED storeVars

VerifySpec == VerifyInit /\ [][VerifyNext \/ Returned]_storeVars

-----------------------------------------------------------------------------
(* Properties.                                                             *)

\* p is a valid path of this request (PathValidation).
ValidPath(p) == IsPath(p, anchors, when, fraction, purpose)

\* An accepted chain, completed by the anchor found, is a valid path; the
\* walk with its accumulated constraints leaves no check of it out.
AcceptedIsPath ==
    outcome = "trusted" =>
        /\ ValidPath(path)
        /\ \/ /\ AnchoredDirectly /\ path = chain
              /\ SignedBy(LastOf(chain), LastOf(chain))
           \/ /\ ~AnchoredDirectly
              /\ \E i \in 1 .. Len(anchors) : path = Append(chain, anchors[i])

\* A chain is rejected only if no anchor completes it: the failure of one
\* candidate never hides another.  (A self-issued last certificate that is
\* itself an anchor is judged as that anchor alone.)
AnyAnchorSuffices ==
    step = "done" /\ outcome # "trusted" =>
        ~Verifiable(chain, anchors, when, fraction, purpose)

\* The comment on find_all_issuers: each anchor of the issuer's name can be
\* tried until one verifies the signature.
EveryAnchorIsTried ==
    step = "done" /\ outcome # "trusted" /\ chain # <<>> =>
        \A i \in 1 .. Len(anchors) : ~ValidPath(Append(chain, anchors[i]))

\* Going down a path, a CA can only narrow what the CAs above it allow (the
\* comment in check_name); a new candidate starts from nothing.
ConstraintsOnlyNarrow ==
    [][state' # NoConstraints =>
         \A c \in Certs : \A n \in AssertedNames(state', c) :
             CheckName(state', n) => CheckName(state, n)]_state
=============================================================================
