-------------------------- MODULE TrustStoreProofs --------------------------
(***************************************************************************)
(* Chain verification is exact: what TrustStore accepts is a valid path,   *)
(* and what it rejects no anchor completes, for every set of certificates, *)
(* every store, every chain and every instant.                             *)
(***************************************************************************)
EXTENDS TrustStore, TLAPS

-----------------------------------------------------------------------------
(* Name constraints.                                                       *)

\* s holds the constraints of the certificates p[t], t \in T.
Accumulates(s, p, T) ==
    /\ s.permitted = {p[t].permitted : t \in T} \ {{}}
    /\ s.excluded = UNION {p[t].excluded : t \in T}

\* The names of c that some constraint could be about.
OwnNames(c) ==
    {[kind |-> "directory", value |-> c.subject]}
      \cup (IF c.hasSan THEN {n \in c.san : n.kind \in Kinds}
            ELSE {[kind |-> "mail", value |-> e] : e \in c.emails})

\* A name that the accumulated check does not collect is of no interest to
\* any of the constraints.
LEMMA UncollectedNames ==
    ASSUME NEW s, NEW c, NEW n \in OwnNames(c)
    PROVE  n \in AssertedNames(s, c) \/ (n.kind = "mail" /\ ~ConstrainsMail(s))
  BY DEF OwnNames, AssertedNames

LEMMA CollectedNames ==
    ASSUME NEW s, NEW c
    PROVE  AssertedNames(s, c) \subseteq OwnNames(c)
  BY DEF OwnNames, AssertedNames

\* The check against the accumulated state is the check against each of the
\* issuers by itself.
LEMMA CheckCertMeaning ==
    ASSUME NEW s, NEW p, NEW T, NEW c, Accumulates(s, p, T)
    PROVE  CheckCert(s, c) <=> \A t \in T : Allows(p[t], c)
<1>1. IsEmpty(s) <=> \A t \in T : p[t].permitted = {} /\ p[t].excluded = {}
  BY DEF IsEmpty, Accumulates
<1>2. \A t \in T : \A b : b \in p[t].excluded => b \in s.excluded
  BY DEF Accumulates
<1>3. \A t \in T : \A b : b \in p[t].permitted =>
          p[t].permitted \in s.permitted /\ b \in UNION s.permitted
  BY DEF Accumulates
<1>4. \A t \in T : Allows(p[t], c) <=>
          /\ p[t].permitted \cup p[t].excluded # {} => (c.hasSan => c.sanParses)
          /\ \A n \in OwnNames(c) :
               /\ \A b \in p[t].excluded : ~BaseMatches(b, n)
               /\ (\E b \in p[t].permitted : b.kind = n.kind)
                    => \E b \in p[t].permitted : BaseMatches(b, n)
  BY DEF Allows, OwnNames
<1>5. ASSUME CheckCert(s, c), NEW t \in T
      PROVE  Allows(p[t], c)
  <2>1. CASE IsEmpty(s)
    BY <1>1, <1>4, <2>1
  <2>2. CASE ~IsEmpty(s)
    <3>1. /\ c.hasSan => c.sanParses
          /\ \A n \in AssertedNames(s, c) : CheckName(s, n)
      BY <1>5, <2>2 DEF CheckCert
    <3>2. ASSUME NEW n \in OwnNames(c)
          PROVE  /\ \A b \in p[t].excluded : ~BaseMatches(b, n)
                 /\ (\E b \in p[t].permitted : b.kind = n.kind)
                      => \E b \in p[t].permitted : BaseMatches(b, n)
      <4>1. CASE n \in AssertedNames(s, c)
        BY <3>1, <4>1, <1>2, <1>3 DEF CheckName
      <4>2. CASE n.kind = "mail" /\ ~ConstrainsMail(s)
        <5>1. \A b \in s.excluded \cup UNION s.permitted : b.kind # "mail"
          BY <4>2 DEF ConstrainsMail
        <5> QED
          BY <4>2, <5>1, <1>2, <1>3 DEF BaseMatches
      <4> QED
        BY <4>1, <4>2, UncollectedNames
    <3> QED
      BY <1>4, <3>1, <3>2
  <2> QED
    BY <2>1, <2>2
<1>6. ASSUME \A t \in T : Allows(p[t], c)
      PROVE  CheckCert(s, c)
  <2>1. SUFFICES ASSUME ~IsEmpty(s)
                 PROVE  /\ c.hasSan => c.sanParses
                        /\ \A n \in AssertedNames(s, c) : CheckName(s, n)
    BY DEF CheckCert
  <2>2. c.hasSan => c.sanParses
    BY <1>1, <1>4, <1>6, <2>1
  <2>3. ASSUME NEW n \in AssertedNames(s, c)
        PROVE  CheckName(s, n)
    <3>1. n \in OwnNames(c)
      BY CollectedNames
    <3>2. \A b \in s.excluded : ~BaseMatches(b, n)
      <4>1. \A b \in s.excluded : \E t \in T : b \in p[t].excluded
        BY DEF Accumulates
      <4> QED
        BY <1>4, <1>6, <3>1, <4>1
    <3>3. \A g \in s.permitted : \E t \in T : g = p[t].permitted
      BY DEF Accumulates
    <3>4. \A g \in s.permitted : (\E b \in g : b.kind = n.kind)
                                   => \E b \in g : BaseMatches(b, n)
      BY <1>4, <1>6, <3>1, <3>3
    <3> QED
      BY <3>2, <3>4 DEF CheckName
  <2> QED
    BY <2>2, <2>3
<1> QED
  BY <1>5, <1>6

-----------------------------------------------------------------------------
(* Paths.                                                                  *)

\* What the walk over the links has established of link i.
Linked(i) ==
    /\ chain[i].issuer = chain[i + 1].subject
    /\ SignedBy(chain[i], chain[i + 1])
    /\ LinkOk(i)

\* Everything verification asks of the chain before it turns to an anchor.
ChainOk ==
    /\ SatisfiesPurpose(chain[1], purpose)
    /\ \A i \in 1 .. Len(chain) :
         ExtensionsOk(chain[i]) /\ ValidAt(chain[i], when, fraction)
    /\ \A i \in 1 .. Len(chain) - 1 : Linked(i)

NamesOk(p) ==
    \A t \in 2 .. Len(p) :
        /\ Decodable(p[t])
        /\ \A k \in 1 .. t - 1 : Allows(p[t], p[k])

AnchorOk(a) ==
    /\ LastOf(chain).issuer = a.subject
    /\ AnchorError(a) = "none"

\* The comparison with a fraction is the comparison in half seconds.
LEMMA WindowMeaning ==
    ASSUME NEW c \in Certs, when \in Nat \cup {NoTime}, fraction \in BOOLEAN
    PROVE  ValidAt(c, when, fraction) <=> Covers(c, when, fraction)
<1>1. c.not_before \in Nat /\ c.not_after \in Nat
  BY CertsAssumption DEF Certificate
<1>2. CASE when = NoTime
  BY <1>2 DEF ValidAt, Covers
<1>3. CASE when # NoTime /\ fraction = TRUE
  <2>1. when \in Nat /\ 2 * when + 1 \in Nat
    BY <1>3
  <2>2. (c.not_before <= when) <=> (2 * c.not_before <= 2 * when + 1)
    BY <1>1, <2>1
  <2>3. (when <= c.not_after /\ when # c.not_after)
          <=> (2 * when + 1 <= 2 * c.not_after)
    BY <1>1, <2>1
  <2> QED
    BY <1>3, <2>2, <2>3 DEF ValidAt, Covers
<1>4. CASE when # NoTime /\ fraction = FALSE
  <2>1. when \in Nat /\ 2 * when + 0 = 2 * when
    BY <1>4
  <2>2. (c.not_before <= when) <=> (2 * c.not_before <= 2 * when)
    BY <1>1, <2>1
  <2>3. (when <= c.not_after) <=> (2 * when <= 2 * c.not_after)
    BY <1>1, <2>1
  <2> QED
    BY <1>4, <2>1, <2>2, <2>3 DEF ValidAt, Covers
<1> QED
  BY <1>2, <1>3, <1>4

\* A chain completed by an anchor.
LEMMA AppendFacts ==
    ASSUME NEW c \in Seq(Certs), NEW a \in Certs
    PROVE  /\ Append(c, a) \in Seq(Certs)
           /\ Append(c, a) # <<>>
           /\ Len(c) \in Nat
           /\ Len(Append(c, a)) = Len(c) + 1
           /\ Append(c, a)[Len(c) + 1] = a
           /\ \A i \in 1 .. Len(c) : Append(c, a)[i] = c[i]
           /\ LastOf(Append(c, a)) = a
  BY DEF LastOf

LEMMA ChainFacts ==
    ASSUME NEW c \in Seq(Certs), c # <<>>
    PROVE  /\ Len(c) \in Nat /\ Len(c) >= 1
           /\ LastOf(c) \in Certs
           /\ \A i \in 1 .. Len(c) : c[i] \in Certs
  BY DEF LastOf

\* Path length looks only at what is below.
LEMMA PathLenBelow ==
    ASSUME NEW c, NEW p, NEW t \in Nat, NEW issuer,
           \A k \in 1 .. t - 1 : p[k] = c[k]
    PROVE  PathLenOk(issuer, p, t) <=> PathLenOk(issuer, c, t)
<1>1. {k \in 1 .. t - 1 : p[k].bc = "ca" /\ ~IsSelfIssued(p[k])}
        = {k \in 1 .. t - 1 : c[k].bc = "ca" /\ ~IsSelfIssued(c[k])}
  OBVIOUS
<1>2. SubordinateCas(p, t) = SubordinateCas(c, t)
  BY <1>1 DEF SubordinateCas
<1> QED
  BY <1>2 DEF PathLenOk

\* A valid path through an anchor outside the chain.
LEMMA CompletedPath ==
    ASSUME StoreTypeOK, chain # <<>>, NEW j \in 1 .. Len(anchors)
    PROVE  ValidPath(Append(chain, anchors[j])) <=>
             ChainOk /\ AnchorOk(anchors[j]) /\ NamesOk(Append(chain, anchors[j]))
<1> DEFINE a == anchors[j]
           p == Append(chain, a)
           n == Len(chain)
<1> a \in Certs /\ chain \in Seq(Certs)
  BY DEF StoreTypeOK
<1>1. /\ p \in Seq(Certs) /\ p # <<>> /\ n \in Nat /\ n >= 1
      /\ Len(p) = n + 1 /\ p[n + 1] = a /\ LastOf(p) = a
      /\ \A i \in 1 .. n : p[i] = chain[i] /\ chain[i] \in Certs
      /\ LastOf(chain) = chain[n]
  BY AppendFacts, ChainFacts DEF LastOf
<1> HIDE DEF a, p, n
<1>2. IsIn(LastOf(p), anchors)
  BY <1>1 DEF IsIn, a
<1>3. p[1] = chain[1]
  BY <1>1
<1>4. \A c \in Certs : ValidAt(c, when, fraction) <=> Covers(c, when, fraction)
  BY WindowMeaning DEF StoreTypeOK
<1>5. (\A i \in 1 .. Len(p) : ExtensionsOk(p[i]) /\ Covers(p[i], when, fraction)) <=>
        /\ \A i \in 1 .. n : ExtensionsOk(chain[i]) /\ ValidAt(chain[i], when, fraction)
        /\ ExtensionsOk(a) /\ ValidAt(a, when, fraction)
  <2>1. \A i \in 1 .. Len(p) : i \in 1 .. n \/ i = n + 1
    BY <1>1
  <2>2. n + 1 \in 1 .. Len(p) /\ \A i \in 1 .. n : i \in 1 .. Len(p)
    BY <1>1
  <2> QED
    BY <1>1, <1>4, <2>1, <2>2
<1>6. \A t \in 1 .. n + 1 : PathLenOk(p[t], p, t) <=> PathLenOk(p[t], chain, t)
  <2> SUFFICES ASSUME NEW t \in 1 .. n + 1
               PROVE  PathLenOk(p[t], p, t) <=> PathLenOk(p[t], chain, t)
    OBVIOUS
  <2>1. t \in Nat /\ \A k \in 1 .. t - 1 : p[k] = chain[k]
    BY <1>1
  <2> QED
    BY <2>1, PathLenBelow
<1> DEFINE Edge(i) == /\ p[i].issuer = p[i + 1].subject
                      /\ SignedBy(p[i], p[i + 1])
                      /\ MayIssue(p[i + 1])
                      /\ PathLenOk(p[i + 1], p, i + 1)
<1>7. \A i \in 1 .. n - 1 : Edge(i) <=> Linked(i)
  <2> SUFFICES ASSUME NEW i \in 1 .. n - 1
               PROVE  Edge(i) <=> Linked(i)
    OBVIOUS
  <2>1. i \in 1 .. n /\ i + 1 \in 1 .. n /\ i + 1 \in 1 .. n + 1
    BY <1>1
  <2>2. p[i] = chain[i] /\ p[i + 1] = chain[i + 1]
    BY <1>1, <2>1
  <2>3. PathLenOk(p[i + 1], p, i + 1) <=> PathLenOk(chain[i + 1], chain, i + 1)
    BY <1>6, <2>1, <2>2
  <2> QED
    BY <2>2, <2>3 DEF Linked, LinkOk
<1>8. Edge(n) <=> /\ LastOf(chain).issuer = a.subject
                  /\ SignedBy(LastOf(chain), a)
                  /\ MayIssue(a)
                  /\ PathLenOk(a, chain, n + 1)
  <2>1. n \in 1 .. n /\ n + 1 \in 1 .. n + 1
    BY <1>1
  <2>2. p[n] = LastOf(chain) /\ p[n + 1] = a
    BY <1>1, <2>1
  <2> QED
    BY <1>6, <2>1, <2>2
<1>9. (\A i \in 1 .. Len(p) - 1 : Edge(i))
        <=> (\A i \in 1 .. n - 1 : Linked(i)) /\ Edge(n)
  <2>1. \A i \in 1 .. Len(p) - 1 : i \in 1 .. n - 1 \/ i = n
    BY <1>1
  <2>2. n \in 1 .. Len(p) - 1 /\ \A i \in 1 .. n - 1 : i \in 1 .. Len(p) - 1
    BY <1>1
  <2> HIDE DEF Edge
  <2> QED
    BY <1>7, <2>1, <2>2
<1>10. AnchorOk(a) <=>
         /\ LastOf(chain).issuer = a.subject
         /\ SignedBy(LastOf(chain), a)
         /\ ExtensionsOk(a) /\ MayIssue(a) /\ PathLenOk(a, chain, n + 1)
         /\ ValidAt(a, when, fraction)
  BY DEF AnchorOk, AnchorError, n
<1>11. ValidPath(p) <=>
         /\ p # <<>> /\ IsIn(LastOf(p), anchors)
         /\ SatisfiesPurpose(p[1], purpose)
         /\ \A i \in 1 .. Len(p) : ExtensionsOk(p[i]) /\ Covers(p[i], when, fraction)
         /\ \A i \in 1 .. Len(p) - 1 : Edge(i)
         /\ NamesOk(p)
  BY DEF ValidPath, IsPath, NamesOk
<1>12. ChainOk <=>
         /\ SatisfiesPurpose(p[1], purpose)
         /\ \A i \in 1 .. n : ExtensionsOk(chain[i]) /\ ValidAt(chain[i], when, fraction)
         /\ \A i \in 1 .. n - 1 : Linked(i)
  BY <1>3 DEF ChainOk, n
<1>13. ValidPath(p) <=> ChainOk /\ AnchorOk(a) /\ NamesOk(p)
  <2> HIDE DEF Edge
  <2> QED
    BY <1>1, <1>2, <1>5, <1>8, <1>9, <1>10, <1>11, <1>12
<1> QED
  BY <1>13 DEF a, p

\* A valid path that is the chain itself.
LEMMA ChainAsPath ==
    ASSUME StoreTypeOK, chain # <<>>
    PROVE  ValidPath(chain) <=>
             ChainOk /\ IsIn(LastOf(chain), anchors) /\ NamesOk(chain)
<1>1. \A i \in 1 .. Len(chain) : ValidAt(chain[i], when, fraction) <=> Covers(chain[i], when, fraction)
  BY ChainFacts, WindowMeaning DEF StoreTypeOK
<1> QED
  BY <1>1 DEF ValidPath, IsPath, ChainOk, Linked, LinkOk, NamesOk

-----------------------------------------------------------------------------
(* The inductive invariant.                                                *)

\* What the steps behind have established of the chain.
Passed ==
    /\ link >= 1 /\ candidate >= 1
    /\ step \notin {"candidates", "names", "done"} => candidate = 1
    /\ step \notin {"idle", "extensions", "done"} =>
         /\ chain # <<>>
         /\ \A i \in 1 .. Len(chain) : ExtensionsOk(chain[i])
    /\ step \in {"time", "links", "anchor", "candidates", "names"} =>
         SatisfiesPurpose(chain[1], purpose)
    /\ step \in {"links", "anchor", "candidates", "names"} =>
         \A i \in 1 .. Len(chain) : ValidAt(chain[i], when, fraction)
    /\ step # "done" => \A i \in 1 .. Len(chain) - 1 : i < link => Linked(i)
    /\ step \in {"anchor", "candidates", "names"} => link >= Len(chain)

\* The full path under the name constraint walk: the chain, or the chain and
\* a candidate that has passed its own checks.
PathChosen ==
    \/ /\ AnchoredDirectly /\ path = chain
       /\ SignedBy(LastOf(chain), LastOf(chain))
    \/ /\ ~AnchoredDirectly /\ candidate <= Len(anchors)
       /\ path = Append(chain, anchors[candidate])
       /\ AnchorOk(anchors[candidate])

\* The walk has folded in, and enforced, the constraints above `top`.
Walked ==
    /\ top <= Len(path)
    /\ Accumulates(state, path, top + 1 .. Len(path))
    /\ \A t \in top + 1 .. Len(path) :
         t > 1 => Decodable(path[t]) /\ \A k \in 1 .. t - 1 : Allows(path[t], path[k])

\* No anchor passed over would have done.
NoneBefore ==
    \A j \in 1 .. Len(anchors) :
        j < candidate => ~ValidPath(Append(chain, anchors[j]))

Inv ==
    /\ StoreTypeOK
    /\ Passed
    /\ step = "names" => PathChosen /\ Walked
    /\ step = "candidates" => ~AnchoredDirectly
    /\ step \in {"candidates", "names"} /\ ~AnchoredDirectly => NoneBefore
    /\ outcome # "pending" => step = "done"
    /\ outcome = "trusted" => chain # <<>>
    /\ AcceptedIsPath
    /\ AnyAnchorSuffices

USE DEF Steps, Errors

LEMMA StateTyped ==
    ASSUME NEW s \in [permitted: SUBSET SUBSET Subtree, excluded: SUBSET Subtree],
           NEW c \in Certs
    PROVE  AddFromCert(s, c)
             \in [permitted: SUBSET SUBSET Subtree, excluded: SUBSET Subtree]
<1>1. c.permitted \in SUBSET Subtree /\ c.excluded \in SUBSET Subtree
  BY CertsAssumption DEF Certificate
<1>2. /\ s.permitted \cup ({c.permitted} \ {{}}) \in SUBSET SUBSET Subtree
      /\ s.excluded \cup c.excluded \in SUBSET Subtree
  BY <1>1
<1> QED
  BY <1>2 DEF AddFromCert

LEMMA NoConstraintsTyped ==
    NoConstraints \in [permitted: SUBSET SUBSET Subtree, excluded: SUBSET Subtree]
  BY DEF NoConstraints

LEMMA AnchorErrorTyped ==
    ASSUME NEW a
    PROVE  AnchorError(a) \in Errors \cup {"none"}
  BY DEF AnchorError

LEMMA EnterNamesTyped ==
    ASSUME StoreTypeOK, NEW p \in Seq(Certs), EnterNames(p)
    PROVE  StoreTypeOK'
  BY NoConstraintsTyped DEF StoreTypeOK, EnterNames, Go, given

LEMMA NextCandidateTyped ==
    ASSUME StoreTypeOK, NEW e \in Errors, NextCandidate(e)
    PROVE  StoreTypeOK'
  BY DEF StoreTypeOK, NextCandidate, Go, given

\* Every step of verification keeps the types.
LEMMA VerifyTyped ==
    ASSUME StoreTypeOK, Passed, step = "names" => PathChosen /\ Walked, VerifyNext
    PROVE  StoreTypeOK'
<1>1. CASE CheckExtensions
  BY <1>1 DEF StoreTypeOK, CheckExtensions, Fail, Go, given, walk
<1>2. CASE CheckPurpose
  BY <1>2 DEF StoreTypeOK, CheckPurpose, Fail, Go, given, walk
<1>3. CASE CheckTime
  BY <1>3 DEF StoreTypeOK, CheckTime, Fail, Go, given, walk
<1>4. CASE CheckLink
  BY <1>4 DEF StoreTypeOK, CheckLink, Fail, Go, given, walk
<1>5. CASE LinksChecked
  BY <1>5 DEF StoreTypeOK, LinksChecked, Fail, Go, given, walk
<1>6. CASE FindAnchor
  <2>1. CASE EnterNames(chain)
    BY <2>1, EnterNamesTyped DEF StoreTypeOK
  <2>2. CASE ~EnterNames(chain)
    BY <1>6, <2>2 DEF StoreTypeOK, FindAnchor, Fail, Go, given, walk
  <2> QED
    BY <2>1, <2>2
<1>7. CASE TryCandidate
  <2>1. candidate \in 1 .. Len(anchors) /\ anchors[candidate] \in Certs
    <3>1. candidate <= Len(anchors)
      BY <1>7 DEF TryCandidate
    <3>2. candidate >= 1
      BY DEF Passed
    <3> QED
      BY <3>1, <3>2 DEF StoreTypeOK
  <2>2. Append(chain, anchors[candidate]) \in Seq(Certs)
        /\ Len(Append(chain, anchors[candidate])) \in Nat
    BY <2>1, AppendFacts DEF StoreTypeOK
  <2>3. AnchorError(anchors[candidate]) # "none" =>
           AnchorError(anchors[candidate]) \in Errors
    BY AnchorErrorTyped
  <2>4. \/ NextCandidate(lastErr)
        \/ /\ AnchorError(anchors[candidate]) # "none"
           /\ NextCandidate(AnchorError(anchors[candidate]))
        \/ EnterNames(Append(chain, anchors[candidate]))
    BY <1>7 DEF TryCandidate
  <2>5. lastErr \in Errors
    BY DEF StoreTypeOK
  <2> QED
    BY <2>2, <2>3, <2>4, <2>5, NextCandidateTyped, EnterNamesTyped
<1>8. CASE CandidatesExhausted
  BY <1>8 DEF StoreTypeOK, CandidatesExhausted, Fail, Go, given, walk
<1>9. CASE ApplyConstraints
  <2>1. top \in 1 .. Len(path) /\ path[top] \in Certs
    BY <1>9 DEF ApplyConstraints, Walked, StoreTypeOK
  <2>2. AddFromCert(state, path[top])
          \in [permitted: SUBSET SUBSET Subtree, excluded: SUBSET Subtree]
    BY <2>1, StateTyped DEF StoreTypeOK
  <2>3. CASE NextCandidate("profile")
    BY <2>3, NextCandidateTyped
  <2>4. CASE ~NextCandidate("profile")
    BY <1>9, <2>1, <2>2, <2>4
    DEF StoreTypeOK, ApplyConstraints, Fail, Go, given, walk
  <2> QED
    BY <2>3, <2>4
<1>10. CASE Accept
  BY <1>10 DEF StoreTypeOK, Accept, given, walk
<1> QED
  BY <1>1, <1>2, <1>3, <1>4, <1>5, <1>6, <1>7, <1>8, <1>9, <1>10 DEF VerifyNext

-----------------------------------------------------------------------------
(* Every step preserves the invariant.                                     *)

\* Nothing completes the chain: what a rejection has to rest on.
NoPath ==
    IF AnchoredDirectly
    THEN ~(ValidPath(chain) /\ SignedBy(LastOf(chain), LastOf(chain)))
    ELSE \A i \in 1 .. Len(anchors) : ~ValidPath(Append(chain, anchors[i]))

LEMMA GivenStable ==
    ASSUME UNCHANGED given
    PROVE  /\ AnchoredDirectly' <=> AnchoredDirectly
           /\ NoPath' <=> NoPath
           /\ \A i : Linked(i)' <=> Linked(i)
           /\ \A j : AnchorOk(anchors[j])' <=> AnchorOk(anchors[j])
           /\ \A j : ValidPath(Append(chain, anchors[j]))'
                       <=> ValidPath(Append(chain, anchors[j]))
  BY DEF given, AnchoredDirectly, NoPath, ValidPath, IsPath, Covers, Linked, LinkOk,
         AnchorOk, AnchorError

LEMMA BadChain ==
    ASSUME StoreTypeOK, chain # <<>>, ~ChainOk
    PROVE  NoPath
  BY CompletedPath, ChainAsPath DEF NoPath

LEMMA FailSafe ==
    ASSUME Inv, StoreTypeOK', step # "done", NEW e \in Errors, Fail(e),
           chain # <<>> => NoPath
    PROVE  Inv'
<1>1. UNCHANGED given /\ chain' = chain /\ link' = link /\ candidate' = candidate
  BY DEF Fail, given, walk
<1>2. step' = "done" /\ outcome' # "trusted"
  BY DEF Fail
<1>3. Passed'
  BY <1>1, <1>2 DEF Inv, Passed
<1>4. NoPath' <=> NoPath
  BY <1>1, GivenStable
<1>5. AnyAnchorSuffices'
  BY <1>1, <1>4 DEF AnyAnchorSuffices, Verifiable, NoPath, AnchoredDirectly, ValidPath
<1>6. AcceptedIsPath'
  BY <1>2 DEF AcceptedIsPath
<1> QED
  BY <1>2, <1>3, <1>5, <1>6 DEF Inv

\* The checks of the chain go on to the next one.
LEMMA MoveSafe ==
    ASSUME Inv, StoreTypeOK', NEW s \in {"purpose", "time", "links", "anchor", "candidates"},
           step # "done", Go(s), UNCHANGED <<given, walk>>, Passed',
           s = "candidates" => ~AnchoredDirectly /\ candidate = 1
    PROVE  Inv'
<1>1. UNCHANGED given /\ chain' = chain /\ anchors' = anchors /\ candidate' = candidate
  BY DEF given, walk
<1>2. step' = s /\ outcome' = outcome /\ outcome = "pending"
  BY DEF Go, Inv
<1>3. AcceptedIsPath' /\ AnyAnchorSuffices'
  BY <1>2 DEF AcceptedIsPath, AnyAnchorSuffices
<1>4. s = "candidates" => NoneBefore'
  BY <1>1 DEF NoneBefore
<1>5. AnchoredDirectly' <=> AnchoredDirectly
  BY <1>1, GivenStable
<1> QED
  BY <1>2, <1>3, <1>4, <1>5 DEF Inv

LEMMA NextCandidateSafe ==
    ASSUME Inv, StoreTypeOK', step \in {"candidates", "names"}, ~AnchoredDirectly,
           NEW e \in Errors, NextCandidate(e), candidate <= Len(anchors),
           ~ValidPath(Append(chain, anchors[candidate]))
    PROVE  Inv'
<1>1. UNCHANGED given /\ chain' = chain /\ anchors' = anchors /\ link' = link
      /\ when' = when /\ fraction' = fraction /\ purpose' = purpose
  BY DEF NextCandidate, given
<1>2. step' = "candidates" /\ outcome' = outcome /\ outcome = "pending"
      /\ candidate' = candidate + 1
  BY DEF NextCandidate, Go, Inv
<1>3. AcceptedIsPath' /\ AnyAnchorSuffices'
  BY <1>2 DEF AcceptedIsPath, AnyAnchorSuffices
<1>4. Passed'
  <2>1. candidate' >= 1
    BY <1>2 DEF Inv, StoreTypeOK, Passed
  <2>2. \A i : Linked(i)' <=> Linked(i)
    BY <1>1, GivenStable
  <2> QED
    BY <1>1, <1>2, <2>1, <2>2 DEF Inv, Passed
<1>5. \A j \in 1 .. Len(anchors) :
          j < candidate + 1 => ~ValidPath(Append(chain, anchors[j]))
  <2>1. NoneBefore /\ candidate \in Nat
    BY DEF Inv, StoreTypeOK
  <2>2. \A j \in 1 .. Len(anchors) : j < candidate + 1 => j < candidate \/ j = candidate
    BY <2>1
  <2> QED
    BY <2>1, <2>2 DEF NoneBefore
<1>6. \A j : ValidPath(Append(chain, anchors[j]))'
               <=> ValidPath(Append(chain, anchors[j]))
  BY <1>1, GivenStable
<1>7. NoneBefore'
  BY <1>1, <1>2, <1>5, <1>6 DEF NoneBefore
<1>8. ~AnchoredDirectly'
  BY <1>1, GivenStable
<1> QED
  BY <1>2, <1>3, <1>4, <1>7, <1>8 DEF Inv

LEMMA EnterNamesSafe ==
    ASSUME Inv, StoreTypeOK', step \in {"anchor", "candidates"},
           NEW p \in Seq(Certs), EnterNames(p),
           \/ AnchoredDirectly /\ p = chain /\ SignedBy(LastOf(chain), LastOf(chain))
           \/ /\ ~AnchoredDirectly /\ step = "candidates"
              /\ candidate <= Len(anchors)
              /\ p = Append(chain, anchors[candidate])
              /\ AnchorOk(anchors[candidate])
    PROVE  Inv'
<1>1. UNCHANGED given /\ chain' = chain /\ anchors' = anchors /\ link' = link
      /\ candidate' = candidate
      /\ when' = when /\ fraction' = fraction /\ purpose' = purpose
  BY DEF EnterNames, given
<1>2. step' = "names" /\ outcome' = outcome /\ outcome = "pending"
      /\ path' = p /\ top' = Len(p) /\ state' = NoConstraints
  BY DEF EnterNames, Go, Inv
<1>3. AcceptedIsPath' /\ AnyAnchorSuffices'
  BY <1>2 DEF AcceptedIsPath, AnyAnchorSuffices
<1>4. Passed'
  <2>1. \A i : Linked(i)' <=> Linked(i)
    BY <1>1, GivenStable
  <2> QED
    BY <1>1, <1>2, <2>1 DEF Inv, Passed
<1>5. AnchoredDirectly' <=> AnchoredDirectly
  BY <1>1, GivenStable
<1>6. PathChosen'
  <2>1. \A j : AnchorOk(anchors[j])' <=> AnchorOk(anchors[j])
    BY <1>1, GivenStable
  <2>2. AnchorOk(anchors[candidate])' <=> AnchorOk(anchors[candidate])
    BY <1>1 DEF AnchorOk, AnchorError
  <2> QED
    BY <1>1, <1>2, <1>5, <2>2 DEF PathChosen
<1>7. Walked'
  <2>1. Len(p) \in Nat /\ Len(p) + 1 .. Len(p) = {}
    OBVIOUS
  <2>2. Accumulates(NoConstraints, p, {})
    BY DEF Accumulates, NoConstraints
  <2> QED
    BY <1>2, <2>1, <2>2 DEF Walked, Accumulates
<1>8. ~AnchoredDirectly => NoneBefore'
  <2>1. ~AnchoredDirectly => NoneBefore
    BY DEF Inv
  <2>2. \A j : ValidPath(Append(chain, anchors[j]))'
               <=> ValidPath(Append(chain, anchors[j]))
    BY <1>1, GivenStable
  <2> QED
    BY <1>1, <2>1, <2>2 DEF NoneBefore
<1> QED
  BY <1>2, <1>3, <1>4, <1>5, <1>6, <1>7, <1>8 DEF Inv

\* What verification knows of the chain when it turns to the anchors.
LEMMA ChainPassed ==
    ASSUME Inv, step \in {"anchor", "candidates", "names"}
    PROVE  chain # <<>> /\ ChainOk
<1>1. /\ chain # <<>> /\ link >= Len(chain)
      /\ \A i \in 1 .. Len(chain) - 1 : i < link => Linked(i)
  BY DEF Inv, Passed
<1>2. Len(chain) \in Nat /\ link \in Nat
  BY DEF Inv, StoreTypeOK
<1>3. \A i \in 1 .. Len(chain) - 1 : Linked(i)
  BY <1>1, <1>2
<1> QED
  BY <1>1, <1>3 DEF Inv, Passed, ChainOk

\* Under the walk, the path is valid if and only if its names are.
LEMMA PathUnderWalk ==
    ASSUME Inv, step = "names"
    PROVE  /\ path \in Seq(Certs) /\ path # <<>>
           /\ ValidPath(path) <=> NamesOk(path)
<1>1. chain # <<>> /\ ChainOk /\ StoreTypeOK /\ PathChosen /\ Passed
  BY ChainPassed DEF Inv
<1>2. CASE AnchoredDirectly
  <2>1. path = chain /\ IsIn(LastOf(chain), anchors)
    BY <1>1, <1>2 DEF PathChosen, AnchoredDirectly
  <2> QED
    BY <1>1, <2>1, ChainAsPath DEF StoreTypeOK
<1>3. CASE ~AnchoredDirectly
  <2>1. /\ path = Append(chain, anchors[candidate])
        /\ AnchorOk(anchors[candidate])
        /\ candidate <= Len(anchors) /\ candidate >= 1
    BY <1>1, <1>3 DEF PathChosen, Passed
  <2>2. candidate \in 1 .. Len(anchors) /\ anchors[candidate] \in Certs
    BY <1>1, <2>1 DEF StoreTypeOK
  <2>3. path # <<>>
    BY <1>1, <2>1, <2>2, AppendFacts DEF StoreTypeOK
  <2>4. ValidPath(path) <=> NamesOk(path)
    BY <1>1, <2>1, <2>2, CompletedPath
  <2> QED
    BY <1>1, <2>3, <2>4 DEF StoreTypeOK
<1> QED
  BY <1>2, <1>3

\* One issuer of the name constraint walk.
LEMMA ApplyConstraintsSafe ==
    ASSUME Inv, StoreTypeOK', ApplyConstraints
    PROVE  Inv'
<1> DEFINE n == Len(path)
           s == AddFromCert(state, path[top])
<1>1. step = "names" /\ top > 1 /\ Walked /\ StoreTypeOK /\ chain # <<>>
  BY ChainPassed DEF ApplyConstraints, Inv
<1>2. top \in 2 .. n /\ n \in Nat
  BY <1>1 DEF Walked, StoreTypeOK
<1>3. Accumulates(s, path, top .. n)
  <2>1. Accumulates(state, path, top + 1 .. n)
    BY <1>1 DEF Walked
  <2>2. top .. n = (top + 1 .. n) \cup {top}
    BY <1>2
  <2>3. s.permitted = state.permitted \cup ({path[top].permitted} \ {{}})
        /\ s.excluded = state.excluded \cup path[top].excluded
    BY DEF AddFromCert
  <2>4. {path[t].permitted : t \in top .. n}
          = {path[t].permitted : t \in top + 1 .. n} \cup {path[top].permitted}
    BY <2>2
  <2>5. UNION {path[t].excluded : t \in top .. n}
          = (UNION {path[t].excluded : t \in top + 1 .. n}) \cup path[top].excluded
    BY <2>2
  <2> QED
    BY <2>1, <2>3, <2>4, <2>5 DEF Accumulates
<1>4. \A k \in 1 .. top - 1 :
         CheckCert(s, path[k]) <=> \A t \in top .. n : Allows(path[t], path[k])
  BY <1>3, CheckCertMeaning
<1> HIDE DEF s, n
<1>5. CASE ~(Decodable(path[top]) /\ Permits(s))
  <2>1. ~NamesOk(path)
    <3>1. CASE ~Decodable(path[top])
      BY <1>2, <3>1 DEF NamesOk, n
    <3>2. CASE ~Permits(s)
      <4>1. PICK k \in 1 .. top - 1 : \E t \in top .. n : ~Allows(path[t], path[k])
        BY <1>4, <3>2 DEF Permits
      <4>2. PICK t \in top .. n : ~Allows(path[t], path[k])
        BY <4>1
      <4>3. t \in 2 .. n /\ k \in 1 .. t - 1
        BY <1>2, <4>1, <4>2
      <4> QED
        BY <4>2, <4>3 DEF NamesOk, n
    <3> QED
      BY <1>5, <3>1, <3>2
  <2>2. ~ValidPath(path)
    BY <1>1, <2>1, PathUnderWalk
  <2>3. CASE AnchoredDirectly
    <3>1. path = chain
      BY <1>1, <2>3 DEF Inv, PathChosen
    <3>2. NoPath
      BY <2>2, <2>3, <3>1 DEF NoPath
    <3>3. Fail("profile")
      BY <1>5, <2>3 DEF ApplyConstraints, s
    <3> QED
      BY <1>1, <3>2, <3>3, FailSafe
  <2>4. CASE ~AnchoredDirectly
    <3>1. path = Append(chain, anchors[candidate]) /\ candidate <= Len(anchors)
      BY <1>1, <2>4 DEF Inv, PathChosen
    <3>2. NextCandidate("profile")
      BY <1>5, <2>4 DEF ApplyConstraints, s
    <3> QED
      BY <1>1, <2>2, <2>4, <3>1, <3>2, NextCandidateSafe
  <2> QED
    BY <2>3, <2>4
<1>6. CASE Decodable(path[top]) /\ Permits(s)
  <2>1. /\ state' = s /\ top' = top - 1
        /\ UNCHANGED <<given, step, link, candidate, path, lastErr, outcome>>
    BY <1>6 DEF ApplyConstraints, s
  <2>2. UNCHANGED given /\ chain' = chain /\ anchors' = anchors /\ link' = link
        /\ candidate' = candidate /\ step' = step /\ outcome' = outcome
        /\ path' = path
        /\ when' = when /\ fraction' = fraction /\ purpose' = purpose
    BY <2>1 DEF given
  <2>3. outcome = "pending"
    BY <1>1 DEF Inv
  <2>4. AcceptedIsPath' /\ AnyAnchorSuffices'
    BY <1>1, <2>2, <2>3 DEF AcceptedIsPath, AnyAnchorSuffices
  <2>5. Passed'
    <3>1. \A i : Linked(i)' <=> Linked(i)
      BY <2>2, GivenStable
    <3> QED
      BY <1>1, <2>2, <3>1 DEF Inv, Passed
  <2>6. AnchoredDirectly' <=> AnchoredDirectly
    BY <2>2, GivenStable
  <2>7. PathChosen'
    <3>1. PathChosen
      BY <1>1 DEF Inv
    <3>2. AnchorOk(anchors[candidate])' <=> AnchorOk(anchors[candidate])
      BY <2>2 DEF AnchorOk, AnchorError
    <3> QED
      BY <2>2, <2>6, <3>1, <3>2 DEF PathChosen
  <2>8. Walked'
    <3>1. top' <= n /\ top' + 1 = top /\ \A t \in top .. n : t = top \/ t \in top + 1 .. n
      BY <1>2, <2>1
    <3>2. \A k \in 1 .. top - 1 : Allows(path[top], path[k])
      BY <1>2, <1>4, <1>6 DEF Permits
    <3>3. \A t \in top .. n : t > 1 =>
             Decodable(path[t]) /\ \A k \in 1 .. t - 1 : Allows(path[t], path[k])
      BY <1>1, <1>6, <3>1, <3>2 DEF Walked, n
    <3>4. Accumulates(s, path, top' + 1 .. n)
      BY <1>3, <3>1
    <3> QED
      BY <2>1, <2>2, <3>1, <3>3, <3>4 DEF Walked, Accumulates, n
  <2>9. ~AnchoredDirectly => NoneBefore'
    <3>1. ~AnchoredDirectly => NoneBefore
      BY <1>1 DEF Inv
    <3>2. \A j : ValidPath(Append(chain, anchors[j]))'
                 <=> ValidPath(Append(chain, anchors[j]))
      BY <2>2, GivenStable
    <3> QED
      BY <2>2, <3>1, <3>2 DEF NoneBefore
  <2> QED
    BY <1>1, <2>2, <2>3, <2>4, <2>5, <2>6, <2>7, <2>8, <2>9 DEF Inv
<1> QED
  BY <1>5, <1>6

LEMMA AcceptSafe ==
    ASSUME Inv, StoreTypeOK', Accept
    PROVE  Inv'
<1>1. step = "names" /\ top <= 1 /\ step' = "done" /\ outcome' = "trusted"
      /\ UNCHANGED given /\ chain' = chain /\ anchors' = anchors /\ path' = path
      /\ when' = when /\ fraction' = fraction /\ purpose' = purpose
      /\ link' = link /\ candidate' = candidate
  BY DEF Accept, given, walk
<1>2. NamesOk(path)
  <2>1. Walked /\ top \in Nat /\ Len(path) \in Nat
    BY <1>1 DEF Inv, StoreTypeOK
  <2>2. \A t \in 2 .. Len(path) : t \in top + 1 .. Len(path) /\ t > 1
    BY <1>1, <2>1
  <2> QED
    BY <2>1, <2>2 DEF Walked, NamesOk
<1>3. ValidPath(path)
  BY <1>1, <1>2, PathUnderWalk
<1>4. \/ /\ AnchoredDirectly /\ path = chain
         /\ SignedBy(LastOf(chain), LastOf(chain))
      \/ /\ ~AnchoredDirectly
         /\ \E i \in 1 .. Len(anchors) : path = Append(chain, anchors[i])
  <2>1. PathChosen /\ candidate \in Nat /\ candidate >= 1 /\ Len(anchors) \in Nat
    BY <1>1 DEF Inv, StoreTypeOK, Passed
  <2> QED
    BY <2>1 DEF PathChosen
<1>5. ValidPath(path)'
  BY <1>1, <1>3 DEF ValidPath, IsPath, Covers
<1>6. AcceptedIsPath'
  <2>1. AnchoredDirectly' <=> AnchoredDirectly
    BY <1>1, GivenStable
  <2> QED
    BY <1>1, <1>4, <1>5, <2>1 DEF AcceptedIsPath
<1>7. Passed' /\ chain # <<>>
  BY <1>1 DEF Inv, Passed
<1> QED
  BY <1>1, <1>6, <1>7 DEF Inv, AnyAnchorSuffices

\* The checks of the chain before its anchor.
LEMMA ChainChecksSafe ==
    ASSUME Inv, StoreTypeOK',
           CheckExtensions \/ CheckPurpose \/ CheckTime \/ CheckLink \/ LinksChecked
    PROVE  Inv'
<1>1. StoreTypeOK /\ Passed
  BY DEF Inv
<1>2. CASE CheckExtensions
  <2>1. CASE chain = <<>> /\ Fail("empty_chain")
    BY <1>2, <2>1, FailSafe DEF CheckExtensions
  <2>2. CASE /\ chain # <<>> /\ Fail("profile")
             /\ \E i \in 1 .. Len(chain) : ~ExtensionsOk(chain[i])
    <3>1. ~ChainOk
      BY <2>2 DEF ChainOk
    <3> QED
      BY <1>1, <1>2, <2>2, <3>1, BadChain, FailSafe DEF CheckExtensions
  <2>3. CASE /\ chain # <<>> /\ Go("purpose") /\ UNCHANGED <<given, walk>>
             /\ \A i \in 1 .. Len(chain) : ExtensionsOk(chain[i])
    <3>1. Passed'
      <4>1. \A i : Linked(i)' <=> Linked(i)
        BY <2>3, GivenStable DEF given
      <4> QED
        BY <1>1, <1>2, <2>3, <4>1 DEF Passed, CheckExtensions, Go, given, walk
    <3> QED
      BY <1>2, <2>3, <3>1, MoveSafe DEF CheckExtensions
  <2> QED
    BY <1>2, <2>1, <2>2, <2>3 DEF CheckExtensions
<1>3. CASE CheckPurpose
  <2>0. step = "purpose" /\ chain # <<>>
    BY <1>1, <1>3 DEF Passed, CheckPurpose
  <2>1. CASE ~SatisfiesPurpose(chain[1], purpose) /\ Fail("profile")
    <3>1. ~ChainOk
      BY <2>1 DEF ChainOk
    <3> QED
      BY <1>1, <2>0, <2>1, <3>1, BadChain, FailSafe
  <2>2. CASE /\ SatisfiesPurpose(chain[1], purpose)
             /\ Go("time") /\ UNCHANGED <<given, walk>>
    <3>1. Passed'
      <4>1. \A i : Linked(i)' <=> Linked(i)
        BY <2>2, GivenStable DEF given
      <4> QED
        BY <1>1, <2>0, <2>2, <4>1 DEF Passed, Go, given, walk
    <3> QED
      BY <2>0, <2>2, <3>1, MoveSafe
  <2> QED
    BY <1>3, <2>1, <2>2 DEF CheckPurpose
<1>4. CASE CheckTime
  <2>0. step = "time" /\ chain # <<>>
    BY <1>1, <1>4 DEF Passed, CheckTime
  <2>1. CASE /\ Fail("time")
             /\ \E i \in 1 .. Len(chain) : ~ValidAt(chain[i], when, fraction)
    <3>1. ~ChainOk
      BY <2>1 DEF ChainOk
    <3> QED
      BY <1>1, <2>0, <2>1, <3>1, BadChain, FailSafe
  <2>2. CASE /\ \A i \in 1 .. Len(chain) : ValidAt(chain[i], when, fraction)
             /\ Go("links") /\ UNCHANGED <<given, walk>>
    <3>1. Passed'
      <4>1. \A i : Linked(i)' <=> Linked(i)
        BY <2>2, GivenStable DEF given
      <4> QED
        BY <1>1, <2>0, <2>2, <4>1 DEF Passed, Go, given, walk
    <3> QED
      BY <2>0, <2>2, <3>1, MoveSafe
  <2> QED
    BY <1>4, <2>1, <2>2 DEF CheckTime
<1>5. CASE CheckLink
  <2>0. step = "links" /\ chain # <<>> /\ link < Len(chain) /\ link \in 1 .. Len(chain) - 1
    BY <1>1, <1>5 DEF Passed, CheckLink, StoreTypeOK
  <2>1. CASE ~Linked(link)
    <3>1. ~ChainOk
      BY <2>0, <2>1 DEF ChainOk
    <3>2. \E e \in Errors : Fail(e)
      BY <1>5, <2>1 DEF CheckLink, Linked
    <3> QED
      BY <1>1, <2>0, <3>1, <3>2, BadChain, FailSafe
  <2>2. CASE Linked(link)
    <3>1. /\ link' = link + 1
          /\ UNCHANGED <<given, step, candidate, path, top, state, lastErr, outcome>>
      BY <1>5, <2>2 DEF CheckLink, Linked
    <3>2. /\ UNCHANGED given /\ chain' = chain /\ candidate' = candidate
          /\ step' = step /\ outcome' = outcome
          /\ when' = when /\ fraction' = fraction /\ purpose' = purpose
      BY <3>1 DEF given
    <3>3. outcome = "pending"
      BY <2>0 DEF Inv
    <3>4. AcceptedIsPath' /\ AnyAnchorSuffices'
      BY <2>0, <3>2, <3>3 DEF AcceptedIsPath, AnyAnchorSuffices
    <3>5. \A i \in 1 .. Len(chain) - 1 : i < link + 1 => Linked(i)
      <4>1. link \in Nat /\ \A i \in 1 .. Len(chain) - 1 : i < link => Linked(i)
        BY <1>1, <2>0 DEF Passed, StoreTypeOK
      <4>2. \A i \in 1 .. Len(chain) - 1 : i < link + 1 => i < link \/ i = link
        BY <4>1
      <4> QED
        BY <2>2, <4>1, <4>2
    <3>6. \A i : Linked(i)' <=> Linked(i)
      BY <3>2, GivenStable
    <3>7. link' >= 1
      BY <1>1, <3>1 DEF Passed, StoreTypeOK
    <3>8. Passed'
      BY <1>1, <2>0, <3>1, <3>2, <3>5, <3>6, <3>7 DEF Passed
    <3> QED
      BY <2>0, <3>2, <3>3, <3>4, <3>8 DEF Inv
  <2> QED
    BY <2>1, <2>2
<1>6. CASE LinksChecked
  <2>0. step = "links" /\ link >= Len(chain) /\ Go("anchor") /\ UNCHANGED <<given, walk>>
    BY <1>6 DEF LinksChecked
  <2>1. Passed'
    <3>1. \A i : Linked(i)' <=> Linked(i)
      BY <2>0, GivenStable DEF given
    <3> QED
      BY <1>1, <2>0, <3>1 DEF Passed, Go, given, walk
  <2> QED
    BY <2>0, <2>1, MoveSafe
<1> QED
  BY <1>2, <1>3, <1>4, <1>5, <1>6

\* The search for an anchor.
LEMMA AnchorSearchSafe ==
    ASSUME Inv, StoreTypeOK', FindAnchor \/ TryCandidate \/ CandidatesExhausted
    PROVE  Inv'
<1>1. StoreTypeOK /\ Passed
  BY DEF Inv
<1>2. chain # <<>> /\ ChainOk
  BY ChainPassed DEF FindAnchor, TryCandidate, CandidatesExhausted
<1>3. CASE FindAnchor
  <2>0. step = "anchor"
    BY <1>3 DEF FindAnchor
  <2>1. CASE /\ AnchoredDirectly /\ ~SignedBy(LastOf(chain), LastOf(chain))
             /\ Fail("signature")
    <3>1. NoPath
      BY <2>1 DEF NoPath
    <3> QED
      BY <2>0, <2>1, <3>1, FailSafe
  <2>2. CASE /\ AnchoredDirectly /\ SignedBy(LastOf(chain), LastOf(chain))
             /\ EnterNames(chain)
    <3>1. chain \in Seq(Certs)
      BY <1>1 DEF StoreTypeOK
    <3> QED
      BY <2>0, <2>2, <3>1, EnterNamesSafe
  <2>3. CASE ~AnchoredDirectly /\ Go("candidates") /\ UNCHANGED <<given, walk>>
    <3>1. candidate = 1
      BY <1>1, <2>0 DEF Passed
    <3>2. Passed'
      <4>1. \A i : Linked(i)' <=> Linked(i)
        BY <2>3, GivenStable DEF given
      <4> QED
        BY <1>1, <2>0, <2>3, <4>1 DEF Passed, Go, given, walk
    <3> QED
      BY <2>0, <2>3, <3>1, <3>2, MoveSafe
  <2> QED
    BY <1>3, <2>1, <2>2, <2>3 DEF FindAnchor
<1>4. CASE TryCandidate
  <2>0. step = "candidates" /\ candidate <= Len(anchors) /\ ~AnchoredDirectly
    BY <1>4 DEF TryCandidate, Inv
  <2>1. candidate \in 1 .. Len(anchors) /\ anchors[candidate] \in Certs
    <3>1. candidate >= 1
      BY <1>1 DEF Passed
    <3> QED
      BY <1>1, <2>0, <3>1 DEF StoreTypeOK
  <2>2. CASE ~AnchorOk(anchors[candidate])
    <3>1. ~ValidPath(Append(chain, anchors[candidate]))
      BY <1>1, <1>2, <2>1, <2>2, CompletedPath
    <3>2. \E e \in Errors : NextCandidate(e)
      <4>1. lastErr \in Errors /\ (AnchorError(anchors[candidate]) # "none" =>
                AnchorError(anchors[candidate]) \in Errors)
        BY <1>1, AnchorErrorTyped DEF StoreTypeOK
      <4>2. \/ NextCandidate(lastErr)
            \/ /\ AnchorError(anchors[candidate]) # "none"
               /\ NextCandidate(AnchorError(anchors[candidate]))
        BY <1>4, <2>2 DEF TryCandidate, AnchorOk
      <4> QED
        BY <4>1, <4>2
    <3> QED
      BY <2>0, <3>1, <3>2, NextCandidateSafe
  <2>3. CASE AnchorOk(anchors[candidate])
    <3>1. EnterNames(Append(chain, anchors[candidate]))
      BY <1>4, <2>3 DEF TryCandidate, AnchorOk
    <3>2. Append(chain, anchors[candidate]) \in Seq(Certs)
      BY <1>1, <2>1, AppendFacts DEF StoreTypeOK
    <3> QED
      BY <2>0, <2>3, <3>1, <3>2, EnterNamesSafe
  <2> QED
    BY <2>2, <2>3
<1>5. CASE CandidatesExhausted
  <2>0. step = "candidates" /\ candidate > Len(anchors) /\ Fail(lastErr)
        /\ ~AnchoredDirectly /\ NoneBefore
    BY <1>5 DEF CandidatesExhausted, Inv
  <2>1. \A j \in 1 .. Len(anchors) : j < candidate
    BY <1>1, <2>0 DEF StoreTypeOK
  <2>2. NoPath
    BY <2>0, <2>1 DEF NoPath, NoneBefore
  <2>3. lastErr \in Errors
    BY <1>1 DEF StoreTypeOK
  <2> QED
    BY <2>0, <2>2, <2>3, FailSafe
<1> QED
  BY <1>3, <1>4, <1>5

\* Every step of verification preserves the invariant.
LEMMA VerifySafe ==
    ASSUME Inv, VerifyNext
    PROVE  Inv'
<1>1. StoreTypeOK'
  BY VerifyTyped DEF Inv
<1> QED
  BY <1>1, ChainChecksSafe, AnchorSearchSafe, ApplyConstraintsSafe, AcceptSafe
  DEF VerifyNext

-----------------------------------------------------------------------------
(* The theorems.                                                           *)

\* Before its first check, verification satisfies the invariant.
LEMMA UnstartedSafe ==
    ASSUME Request, Unstarted, chain \in Seq(Certs), step \in {"idle", "extensions"}
    PROVE  Inv
<1>1. when \in Nat \cup {NoTime} /\ fraction \in BOOLEAN /\ purpose \in STRING
      /\ anchors \in Seq(Certs)
  BY StoresAssumption, RequestsAssumption DEF Request
<1>2. StoreTypeOK
  BY <1>1, NoConstraintsTyped DEF StoreTypeOK, Unstarted
<1>3. Passed
  BY DEF Passed, Unstarted
<1> QED
  BY <1>2, <1>3 DEF Inv, Unstarted, AcceptedIsPath, AnyAnchorSuffices

LEMMA StutterSafe ==
    ASSUME Inv, UNCHANGED storeVars
    PROVE  Inv'
<1>1. UNCHANGED <<anchors, when, fraction, purpose, chain, step, link, candidate,
                  path, top, state, lastErr, outcome>>
  BY DEF storeVars, given, walk
<1>2. StoreTypeOK' /\ (Passed' <=> Passed)
  BY <1>1 DEF Inv, StoreTypeOK, Passed, Linked, LinkOk
<1>3. AnchoredDirectly' <=> AnchoredDirectly
  BY <1>1 DEF AnchoredDirectly
<1>4. PathChosen' <=> PathChosen
  BY <1>1, <1>3 DEF PathChosen, AnchorOk, AnchorError
<1>5. Walked' <=> Walked
  BY <1>1 DEF Walked, Accumulates
<1>6. NoneBefore' <=> NoneBefore
  <2>1. UNCHANGED given
    BY <1>1 DEF given
  <2> QED
    BY <1>1, <2>1, GivenStable DEF NoneBefore
<1>7. AcceptedIsPath' <=> AcceptedIsPath
  BY <1>1, <1>3 DEF AcceptedIsPath, ValidPath, IsPath, Covers
<1>8. AnyAnchorSuffices' <=> AnyAnchorSuffices
  <2>1. UNCHANGED given
    BY <1>1 DEF given
  <2>2. NoPath' <=> NoPath
    BY <2>1, GivenStable
  <2> QED
    BY <1>1, <2>2 DEF AnyAnchorSuffices, Verifiable, NoPath, AnchoredDirectly, ValidPath
<1> QED
  BY <1>1, <1>2, <1>3, <1>4, <1>5, <1>6, <1>7, <1>8 DEF Inv

\* Verification of any chain against any store keeps the invariant.
THEOREM VerifyInvariance == VerifySpec => []Inv
<1>1. VerifyInit => Inv
  BY ChainsAssumption, UnstartedSafe DEF VerifyInit
<1>2. Inv /\ [VerifyNext \/ Returned]_storeVars => Inv'
  BY VerifySafe, StutterSafe DEF Returned
<1> QED
  BY <1>1, <1>2, PTL DEF VerifySpec

\* Soundness of verify_chain: what is accepted is a valid path to an anchor.
THEOREM Soundness == VerifySpec => []AcceptedIsPath
<1>1. Inv => AcceptedIsPath
  BY DEF Inv
<1> QED
  BY <1>1, VerifyInvariance, PTL

\* Completeness of verify_chain: what is rejected no anchor completes.
THEOREM Completeness == VerifySpec => []AnyAnchorSuffices
<1>1. Inv => AnyAnchorSuffices
  BY DEF Inv
<1> QED
  BY <1>1, VerifyInvariance, PTL

\* verify_chain decides path validation: it accepts exactly the chains that
\* are verifiable.
THEOREM Exact ==
    VerifySpec =>
        [](step = "done" =>
             (outcome = "trusted" <=>
                Verifiable(chain, anchors, when, fraction, purpose)))
<1>1. ASSUME Inv, outcome = "trusted"
      PROVE  Verifiable(chain, anchors, when, fraction, purpose)
  <2>1. AcceptedIsPath /\ chain \in Seq(Certs)
    BY <1>1 DEF Inv, StoreTypeOK
  <2>2. chain # <<>>
    BY <1>1 DEF Inv
  <2> QED
    BY <1>1, <2>1, <2>2 DEF AcceptedIsPath, Verifiable, AnchoredDirectly, ValidPath
<1>2. Inv => (step = "done" =>
             (outcome = "trusted" <=>
                Verifiable(chain, anchors, when, fraction, purpose)))
  BY <1>1 DEF Inv, AnyAnchorSuffices
<1> QED
  BY <1>2, VerifyInvariance, PTL

\* Constraints of a CA further down only narrow what is allowed.
THEOREM Narrowing == VerifySpec => ConstraintsOnlyNarrow
<1>1. ASSUME NEW s, NEW c, NEW n, CheckName(AddFromCert(s, c), n)
      PROVE  CheckName(s, n)
  <2>1. /\ s.excluded \subseteq AddFromCert(s, c).excluded
        /\ s.permitted \subseteq AddFromCert(s, c).permitted
    BY DEF AddFromCert
  <2> QED
    BY <1>1, <2>1 DEF CheckName
<1>2. ASSUME VerifyNext
      PROVE  \/ state' = state \/ state' = NoConstraints
             \/ state' = AddFromCert(state, path[top])
  BY <1>2 DEF VerifyNext, CheckExtensions, CheckPurpose, CheckTime, CheckLink,
              LinksChecked, FindAnchor, TryCandidate, CandidatesExhausted,
              ApplyConstraints, Accept, EnterNames, NextCandidate, Fail, Go, walk
<1>3. [VerifyNext \/ Returned]_storeVars =>
        [state' # NoConstraints =>
           \A c \in Certs : \A n \in AssertedNames(state', c) :
               CheckName(state', n) => CheckName(state, n)]_state
  <2>1. CASE UNCHANGED storeVars
    BY <2>1 DEF storeVars, walk
  <2>2. CASE VerifyNext
    BY <1>1, <1>2, <2>2
  <2> QED
    BY <2>1, <2>2 DEF Returned
<1> QED
  BY <1>3, PTL DEF VerifySpec, ConstraintsOnlyNarrow
=============================================================================
