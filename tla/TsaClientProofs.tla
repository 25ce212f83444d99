-------------------------- MODULE TsaClientProofs ---------------------------
(* Theorems about TsaClient, for every pool, every set of authorities and  *)
(* of others that sign, and whatever the network makes of a token.         *)
EXTENDS TsaClient, FiniteSetTheorems, SequenceTheorems, TLAPS

-----------------------------------------------------------------------------
(* Induction over numbers, and the numbers it finds.                       *)

\* A set of numbers with 0 and all successors has every number.
LEMMA NatSetInduction ==
    ASSUME NEW X, 0 \in X, \A n \in Nat : n \in X => n + 1 \in X
    PROVE  \A n \in Nat : n \in X
<1> SUFFICES ASSUME NEW n \in Nat, n \notin X PROVE FALSE
  OBVIOUS
<1> DEFINE T == {S \in SUBSET (0 .. n) : \E k \in 0 .. n : S = 0 .. k /\ k \notin X}
<1>1. IsFiniteSet(0 .. n)
  BY FS_Interval
<1>2. 0 .. n \in T
  OBVIOUS
<1>3. PICK S \in T : \A U \in T : ~(<<U, S>> \in StrictSubsetOrdering(0 .. n))
  <2> DEFINE R == StrictSubsetOrdering(0 .. n)
             F == SUBSET (0 .. n)
  <2>1. IsWellFoundedOn(R, F)
    BY <1>1, FS_StrictSubsetOrderingWellFounded, FS_FiniteSubsetsOfFinite
  <2>2. T \subseteq F /\ T # {}
    BY <1>2
  <2> HIDE DEF T, R, F
  <2>3. \E x \in T : \A y \in T : ~(<<y, x>> \in R)
    BY <2>1, <2>2, WFMin
  <2> QED BY <2>3 DEF R
<1>4. PICK k \in 0 .. n : S = 0 .. k /\ k \notin X
  OBVIOUS
<1>5. k # 0 /\ k - 1 \notin X
  BY <1>4
<1>6. 0 .. (k - 1) \in T
  BY <1>5
<1>7. <<0 .. (k - 1), 0 .. k>> \in StrictSubsetOrdering(0 .. n)
  BY <1>5 DEF StrictSubsetOrdering
<1> QED BY <1>3, <1>4, <1>6, <1>7

\* A set of numbers has a least one.
LEMMA LeastIn ==
    ASSUME NEW S \in SUBSET Nat, S # {}
    PROVE  Min(S) \in S /\ \A y \in S : Min(S) <= y
<1> DEFINE X == {n \in Nat : (\E y \in S : y <= n) => \E x \in S : \A y \in S : x <= y}
<1>1. 0 \in X
  OBVIOUS
<1>2. ASSUME NEW n \in Nat, n \in X PROVE n + 1 \in X
  <2> SUFFICES ASSUME NEW z \in S, z <= n + 1 PROVE \E x \in S : \A y \in S : x <= y
    OBVIOUS
  <2>1. CASE \E y \in S : y <= n
    BY <1>2, <2>1
  <2>2. CASE ~\E y \in S : y <= n
    <3>1. \A y \in S : z <= y
      BY <2>2
    <3> QED BY <3>1
  <2> QED BY <2>1, <2>2
<1>3. \A n \in Nat : n \in X
  <2> HIDE DEF X
  <2> QED BY <1>1, <1>2, NatSetInduction
<1>4. PICK z \in S : TRUE
  OBVIOUS
<1>5. z \in X /\ z <= z
  BY <1>3
<1>6. \E x \in S : \A y \in S : x <= y
  BY <1>5
<1> QED BY <1>6 DEF Min

\* The least and the greatest of one number.
LEMMA OfOne ==
    ASSUME NEW n \in Nat
    PROVE  Min({n}) = n /\ Max({n}) = n
  BY DEF Min, Max

-----------------------------------------------------------------------------
(* The certificates a verifier has before it.                              *)

\* One round of the loop over the certificates the caller adds.
AddOne(before, c) == IF IsIn(c, before) THEN before ELSE Append(before, c)

\* The function that Embedded chooses for its rounds.
IsEmbedded(g, certs, extra) ==
    g = [n \in 0 .. Len(extra) |-> IF n = 0 THEN certs ELSE AddOne(g[n - 1], extra[n])]

\* There is one.
LEMMA EmbeddedExists ==
    ASSUME NEW certs, NEW extra \in Seq(Certs)
    PROVE  \E g : IsEmbedded(g, certs, extra)
<1>0. Len(extra) \in Nat
  BY LenProperties
<1> DEFINE D == 0 .. Len(extra)
           val(h, n) == IF n = 0 THEN certs ELSE AddOne(h[n - 1], extra[n])
           X == {m \in Nat : \E h : h = [n \in D |-> h[n]]
                                  /\ \A n \in D : n <= m => h[n] = val(h, n)}
<1>1. 0 \in X
  <2> DEFINE h == [n \in D |-> certs]
  <2>1. h = [n \in D |-> h[n]] /\ \A n \in D : n <= 0 => h[n] = val(h, n)
    BY <1>0
  <2> HIDE DEF h, val
  <2> QED BY <2>1
<1>2. ASSUME NEW m \in Nat, m \in X PROVE m + 1 \in X
  <2>1. PICK h : h = [n \in D |-> h[n]] /\ \A n \in D : n <= m => h[n] = val(h, n)
    BY <1>2
  <2> DEFINE g == [n \in D |-> val(h, n)]
  <2>2. \A n \in D : n <= m => g[n] = h[n]
    BY <2>1
  <2>3. ASSUME NEW n \in D, n <= m + 1 PROVE g[n] = val(g, n)
    <3>1. CASE n = 0
      BY <3>1
    <3>2. CASE n # 0
      <4>1. n - 1 \in D /\ n - 1 <= m
        BY <1>0, <2>3, <3>2
      <4>2. g[n - 1] = h[n - 1]
        BY <2>2, <4>1
      <4>3. g[n] = AddOne(h[n - 1], extra[n])
        BY <3>2
      <4> HIDE DEF g
      <4> QED BY <3>2, <4>2, <4>3
    <3> QED BY <3>1, <3>2
  <2>4. g = [n \in D |-> g[n]]
    OBVIOUS
  <2> HIDE DEF g, val, D
  <2>5. g = [n \in D |-> g[n]] /\ \A n \in D : n <= m + 1 => g[n] = val(g, n)
    BY <2>3, <2>4
  <2>6. \E k : k = [n \in D |-> k[n]] /\ \A n \in D : n <= m + 1 => k[n] = val(k, n)
    BY <2>5
  <2> QED BY <2>6
<1>3. \A m \in Nat : m \in X
  <2> HIDE DEF X
  <2> QED BY <1>1, <1>2, NatSetInduction
<1>4. PICK h : h = [n \in D |-> h[n]] /\ \A n \in D : n <= Len(extra) => h[n] = val(h, n)
  BY <1>0, <1>3
<1>5. h = [n \in D |-> val(h, n)]
  <2> HIDE DEF val
  <2>1. \A n \in D : h[n] = val(h, n)
    BY <1>0, <1>4
  <2> QED BY <1>4, <2>1
<1> QED BY <1>5 DEF IsEmbedded

\* What the list has after n rounds: certificates, those of the token and
\* the first n that were added.
Gathered(s, n, certs, extra) ==
    /\ s \in Seq(Certs)
    /\ \A i \in 1 .. Len(certs) : IsIn(certs[i], s)
    /\ \A i \in 1 .. n : IsIn(extra[i], s)

\* One round adds the next.
LEMMA AddOneGathers ==
    ASSUME NEW certs \in Seq(Certs), NEW extra \in Seq(Certs), NEW s, NEW n \in Nat,
           n + 1 \in 1 .. Len(extra), Gathered(s, n, certs, extra)
    PROVE  Gathered(AddOne(s, extra[n + 1]), n + 1, certs, extra)
<1> DEFINE c == extra[n + 1]
           t == AddOne(s, c)
<1>0. c \in Certs /\ s \in Seq(Certs)
  BY ElementOfSeq DEF Gathered
<1>1. t \in Seq(Certs) /\ IsIn(c, t) /\ \A x : IsIn(x, s) => IsIn(x, t)
  <2>1. CASE IsIn(c, s)
    BY <1>0, <2>1 DEF AddOne
  <2>2. CASE ~IsIn(c, s)
    <3>1. t = Append(s, c)
      BY <2>2 DEF AddOne
    <3>2. t \in Seq(Certs) /\ Len(t) = Len(s) + 1 /\ t[Len(s) + 1] = c
          /\ \A i \in 1 .. Len(s) : t[i] = s[i]
      BY <1>0, <3>1, AppendProperties
    <3>3. Len(s) \in Nat
      BY <1>0, LenProperties
    <3> HIDE DEF t, c
    <3> QED BY <3>2, <3>3 DEF IsIn
  <2> QED BY <2>1, <2>2
<1>2. \A i \in 1 .. n + 1 : i \in 1 .. n \/ extra[i] = c
  OBVIOUS
<1> HIDE DEF t, c
<1> QED BY <1>1, <1>2 DEF Gathered, t, c

\* What a verifier has before it: certificates, those of the token and those
\* the caller adds.
LEMMA EmbeddedFacts ==
    ASSUME NEW t, t.certs \in Seq(Certs), NEW extra \in Seq(Certs)
    PROVE  Gathered(Embedded(t, extra), Len(extra), t.certs, extra)
<1>0. Len(extra) \in Nat
  BY LenProperties
<1> DEFINE g == CHOOSE g : IsEmbedded(g, t.certs, extra)
<1>1. IsEmbedded(g, t.certs, extra)
  BY EmbeddedExists
<1>2. Embedded(t, extra) = g[Len(extra)]
  BY DEF Embedded, IsEmbedded, AddOne
<1> HIDE DEF g
<1> DEFINE X == {n \in Nat : n <= Len(extra) => Gathered(g[n], n, t.certs, extra)}
<1>3. 0 \in X
  <2>1. g[0] = t.certs
    BY <1>0, <1>1 DEF IsEmbedded
  <2>2. Gathered(t.certs, 0, t.certs, extra)
    BY DEF Gathered, IsIn
  <2> QED BY <2>1, <2>2
<1>4. ASSUME NEW n \in Nat, n \in X PROVE n + 1 \in X
  <2> SUFFICES ASSUME n + 1 <= Len(extra) PROVE Gathered(g[n + 1], n + 1, t.certs, extra)
    OBVIOUS
  <2>1. g[n + 1] = AddOne(g[n], extra[n + 1])
    BY <1>0, <1>1 DEF IsEmbedded
  <2>2. Gathered(g[n], n, t.certs, extra) /\ n + 1 \in 1 .. Len(extra)
    BY <1>0, <1>4
  <2> QED BY <2>1, <2>2, AddOneGathers
<1>5. \A n \in Nat : n \in X
  <2> HIDE DEF X
  <2> QED BY <1>3, <1>4, NatSetInduction
<1> QED BY <1>0, <1>2, <1>5

\* The signer that was found: one of the certificates, named by the token and
\* bound by its attributes.
LEMMA SignerFacts ==
    ASSUME NEW t, NEW certs \in Seq(Certs), SignerCandidates(t, certs) # {}
    PROVE  /\ SignerOf(t, certs) \in Certs
           /\ SignerIdentifierMatches(t.sid, SignerOf(t, certs))
           /\ IsBound(t, SignerOf(t, certs))
<1> DEFINE S == SignerCandidates(t, certs)
<1>1. S \in SUBSET Nat
  BY LenProperties DEF SignerCandidates
<1>2. Min(S) \in S
  BY <1>1, LeastIn
<1>3. Min(S) \in 1 .. Len(certs)
  BY <1>2 DEF SignerCandidates
<1>4. SignerOf(t, certs) \in Certs
  BY <1>3, ElementOfSeq DEF SignerOf
<1> QED BY <1>2, <1>4 DEF SignerCandidates, SignerOf
-----------------------------------------------------------------------------
(* order_chain, and what a path says of its first certificate.             *)

\* The function that OrderChain chooses for its rounds.
IsOrder(g, signer, certs) ==
    g = [k \in 0 .. OrderRounds |->
           IF k = 0 THEN <<signer>> ELSE NextLink(g[k - 1], certs)]

\* There is one.
LEMMA OrderExists ==
    ASSUME NEW signer, NEW certs
    PROVE  \E g : IsOrder(g, signer, certs)
<1>0. OrderRounds \in Nat
  BY TokenAssumption
<1> DEFINE D == 0 .. OrderRounds
           val(h, k) == IF k = 0 THEN <<signer>> ELSE NextLink(h[k - 1], certs)
           X == {m \in Nat : \E h : h = [k \in D |-> h[k]]
                                  /\ \A k \in D : k <= m => h[k] = val(h, k)}
<1>1. 0 \in X
  <2> DEFINE h == [k \in D |-> <<signer>>]
  <2>1. h = [k \in D |-> h[k]] /\ \A k \in D : k <= 0 => h[k] = val(h, k)
    BY <1>0
  <2> HIDE DEF h, val
  <2> QED BY <2>1
<1>2. ASSUME NEW m \in Nat, m \in X PROVE m + 1 \in X
  <2>1. PICK h : h = [k \in D |-> h[k]] /\ \A k \in D : k <= m => h[k] = val(h, k)
    BY <1>2
  <2> DEFINE g == [k \in D |-> val(h, k)]
  <2>2. \A k \in D : k <= m => g[k] = h[k]
    BY <2>1
  <2>3. ASSUME NEW k \in D, k <= m + 1 PROVE g[k] = val(g, k)
    <3>1. CASE k = 0
      BY <3>1
    <3>2. CASE k # 0
      <4>1. k - 1 \in D /\ k - 1 <= m
        BY <1>0, <2>3, <3>2
      <4>2. g[k - 1] = h[k - 1]
        BY <2>2, <4>1
      <4>3. g[k] = NextLink(h[k - 1], certs)
        BY <3>2
      <4> HIDE DEF g
      <4> QED BY <3>2, <4>2, <4>3
    <3> QED BY <3>1, <3>2
  <2>4. g = [k \in D |-> g[k]]
    OBVIOUS
  <2> HIDE DEF g, val, D
  <2>5. g = [k \in D |-> g[k]] /\ \A k \in D : k <= m + 1 => g[k] = val(g, k)
    BY <2>3, <2>4
  <2>6. \E f : f = [k \in D |-> f[k]] /\ \A k \in D : k <= m + 1 => f[k] = val(f, k)
    BY <2>5
  <2> QED BY <2>6
<1>3. \A m \in Nat : m \in X
  <2> HIDE DEF X
  <2> QED BY <1>1, <1>2, NatSetInduction
<1>4. PICK h : h = [k \in D |-> h[k]] /\ \A k \in D : k <= OrderRounds => h[k] = val(h, k)
  BY <1>0, <1>3
<1>5. h = [k \in D |-> val(h, k)]
  <2> HIDE DEF val
  <2>1. \A k \in D : h[k] = val(h, k)
    BY <1>0, <1>4
  <2> QED BY <1>4, <2>1
<1> QED BY <1>5 DEF IsOrder

\* A list of certificates that starts with this one.
StartsWith(chain, c) == chain \in Seq(Certs) /\ Len(chain) >= 1 /\ chain[1] = c

\* One more link leaves the first.
LEMMA NextLinkFacts ==
    ASSUME NEW certs \in Seq(Certs), NEW c, NEW chain, StartsWith(chain, c)
    PROVE  StartsWith(NextLink(chain, certs), c)
<1> DEFINE named == {i \in 1 .. Len(certs) :
                       /\ certs[i].subject = LastOf(chain).issuer
                       /\ \A k \in 1 .. Len(chain) : ~SameTbs(chain[k], certs[i])}
           signing == {i \in named : SignedBy(LastOf(chain), certs[i])}
           S == IF signing # {} THEN signing ELSE named
           next == certs[Min(S)]
<1>1. CASE IsSelfIssued(LastOf(chain)) \/ named = {}
  <2>1. NextLink(chain, certs) = chain
    BY <1>1 DEF NextLink
  <2> QED BY <2>1
<1>2. CASE ~(IsSelfIssued(LastOf(chain)) \/ named = {})
  <2>1. NextLink(chain, certs) = Append(chain, next)
    BY <1>2 DEF NextLink
  <2>2. S # {} /\ S \subseteq 1 .. Len(certs)
    BY <1>2
  <2>3. S \in SUBSET Nat
    BY <2>2, LenProperties
  <2> HIDE DEF S
  <2>4. Min(S) \in S
    BY <2>2, <2>3, LeastIn
  <2>5. next \in Certs
    BY <2>2, <2>4, ElementOfSeq
  <2> HIDE DEF next
  <2>6. chain \in Seq(Certs) /\ Len(chain) \in Nat /\ Len(chain) >= 1 /\ chain[1] = c
    BY LenProperties DEF StartsWith
  <2>7. /\ Append(chain, next) \in Seq(Certs) /\ Len(Append(chain, next)) = Len(chain) + 1
        /\ \A i \in 1 .. Len(chain) : Append(chain, next)[i] = chain[i]
    BY <2>5, <2>6, AppendProperties
  <2> QED BY <2>1, <2>6, <2>7 DEF StartsWith
<1> QED BY <1>1, <1>2

\* order_chain starts with the signer.
LEMMA OrderFacts ==
    ASSUME NEW certs \in Seq(Certs), NEW c \in Certs
    PROVE  StartsWith(OrderChain(c, certs), c)
<1>0. OrderRounds \in Nat
  BY TokenAssumption
<1> DEFINE g == CHOOSE g : IsOrder(g, c, certs)
<1>1. IsOrder(g, c, certs)
  BY OrderExists
<1>2. OrderChain(c, certs) = g[OrderRounds]
  BY DEF OrderChain, IsOrder
<1> HIDE DEF g
<1> DEFINE X == {n \in Nat : n <= OrderRounds => StartsWith(g[n], c)}
<1>3. 0 \in X
  <2>1. g[0] = <<c>>
    BY <1>0, <1>1 DEF IsOrder
  <2>2. StartsWith(<<c>>, c)
    BY DEF StartsWith
  <2> QED BY <2>1, <2>2
<1>4. ASSUME NEW n \in Nat, n \in X PROVE n + 1 \in X
  <2> SUFFICES ASSUME n + 1 <= OrderRounds PROVE StartsWith(g[n + 1], c)
    OBVIOUS
  <2>1. g[n + 1] = NextLink(g[n], certs)
    BY <1>0, <1>1 DEF IsOrder
  <2>2. StartsWith(g[n], c)
    BY <1>0, <1>4
  <2> QED BY <2>1, <2>2, NextLinkFacts
<1>5. \A n \in Nat : n \in X
  <2> HIDE DEF X
  <2> QED BY <1>3, <1>4, NatSetInduction
<1> QED BY <1>0, <1>2, <1>5

\* The certificates a verifier may have in a path.
AtHand(v) == Certs \cup {v.roots[i] : i \in 1 .. Len(v.roots)}

\* No path starts with a certificate that nobody vouches for, or with one
\* that is not a timestamp signer's.
LEMMA PathFromSigner ==
    ASSUME NEW v \in Verifications, NEW p, NEW time, NEW frac,
           Len(p) \in Nat, \A i \in 1 .. Len(p) : p[i] \in AtHand(v), Len(p) >= 1,
           IsPath(p, v.roots, time, frac, "TimestampSigner")
    PROVE  SatisfiesPurpose(p[1], "TimestampSigner") /\ ~Unvouched(p[1])
<1>1. SatisfiesPurpose(p[1], "TimestampSigner")
  BY DEF IsPath
<1>2. ASSUME Unvouched(p[1]) PROVE FALSE
  <2> DEFINE X == {n \in Nat : n + 1 <= Len(p) => p[n + 1] = p[1]}
  <2>1. 0 \in X
    OBVIOUS
  <2>2. ASSUME NEW n \in Nat, n \in X PROVE n + 1 \in X
    <3> SUFFICES ASSUME n + 2 <= Len(p) PROVE p[n + 2] = p[1]
      OBVIOUS
    <3>1. p[n + 1] = p[1]
      BY <2>2
    <3>2. n + 1 \in 1 .. Len(p) - 1 /\ n + 1 + 1 = n + 2 /\ n + 2 \in 1 .. Len(p)
      OBVIOUS
    <3>3. p[n + 1].issuer = p[n + 2].subject /\ SignedBy(p[n + 1], p[n + 2])
      BY <3>2 DEF IsPath
    <3>4. p[n + 2] \in AtHand(v)
      BY <3>2
    <3> QED BY <1>2, <3>1, <3>3, <3>4 DEF Unvouched, AtHand
  <2>3. \A n \in Nat : n \in X
    <3> HIDE DEF X
    <3> QED BY <2>1, <2>2, NatSetInduction
  <2>4. Len(p) - 1 \in Nat /\ (Len(p) - 1) + 1 = Len(p)
    OBVIOUS
  <2>5. LastOf(p) = p[1]
    BY <2>3, <2>4 DEF LastOf
  <2>6. IsIn(p[1], v.roots)
    BY <2>5 DEF IsPath
  <2> QED BY <1>2, <2>6 DEF Unvouched
<1> QED BY <1>1, <1>2

\* Nor does a chain that verify_chain accepts.
LEMMA VerifiableFromSigner ==
    ASSUME NEW v \in Verifications, NEW c, NEW chain, StartsWith(chain, c), NEW time, NEW frac,
           Verifiable(chain, v.roots, time, frac, "TimestampSigner")
    PROVE  SatisfiesPurpose(c, "TimestampSigner") /\ ~Unvouched(c)
<1>0. chain \in Seq(Certs) /\ Len(chain) \in Nat /\ Len(chain) >= 1 /\ chain[1] = c
  BY LenProperties DEF StartsWith
<1>1. \A i \in 1 .. Len(chain) : chain[i] \in Certs
  BY <1>0, ElementOfSeq
<1>2. CASE IsPath(chain, v.roots, time, frac, "TimestampSigner")
  <2>1. \A i \in 1 .. Len(chain) : chain[i] \in AtHand(v)
    BY <1>1 DEF AtHand
  <2> QED BY <1>0, <1>2, <2>1, PathFromSigner
<1>3. ASSUME NEW i \in 1 .. Len(v.roots),
             IsPath(Append(chain, v.roots[i]), v.roots, time, frac, "TimestampSigner")
      PROVE  SatisfiesPurpose(c, "TimestampSigner") /\ ~Unvouched(c)
  <2> DEFINE p == Append(chain, v.roots[i])
  <2>1. v.roots[i] \in AtHand(v) /\ chain \in Seq(AtHand(v))
    BY <1>0, <1>1, SeqDef DEF AtHand
  <2>2. /\ p \in Seq(AtHand(v)) /\ Len(p) = Len(chain) + 1
        /\ \A k \in 1 .. Len(chain) : p[k] = chain[k]
    BY <2>1, AppendProperties
  <2>3. p[1] = c /\ Len(p) \in Nat /\ Len(p) >= 1
    BY <1>0, <2>2
  <2>4. \A k \in 1 .. Len(p) : p[k] \in AtHand(v)
    BY <2>2, ElementOfSeq
  <2> HIDE DEF p
  <2>5. IsPath(p, v.roots, time, frac, "TimestampSigner")
    BY <1>3 DEF p
  <2> QED BY <2>3, <2>4, <2>5, PathFromSigner
<1> QED BY <1>2, <1>3 DEF Verifiable
-----------------------------------------------------------------------------
(* Tokens as their makers make them.                                       *)

\* The signed attributes of a token.
Attrs(a, info) ==
    <<[oid |-> "contentType", values |-> <<[contentType |-> "TSTInfo"]>>],
      [oid |-> "messageDigest", values |-> <<[digest |-> Digest(a.digest, info)]>>],
      [oid |-> a.ess,
       values |-> <<EssValue(a, IF a.ess = "signingCertificate" THEN "Sha1" ELSE a.digest)>>]>>

\* The fields of a token that nobody has altered.
IsMade(t, a, info, certs) ==
    /\ t.content = "TSTInfo" /\ t.info = info /\ t.signerInfos = 1
    /\ t.attrs = Attrs(a, info) /\ t.unsigned = {} /\ t.sid = a.sid
    /\ t.digest = a.digest /\ t.alg = a.alg /\ t.params = a.params /\ t.certs = certs
    /\ t.sig = [key |-> a.cert.key, alg |-> a.signs, salt |-> a.params.salt,
                over |-> Attrs(a, info)]

\* They are as its maker makes them.
LEMMA TokenFields ==
    ASSUME NEW a, NEW info, NEW certs
    PROVE  IsMade(Token(a, info, certs), a, info, certs)
  BY DEF Token, Attrs, IsMade

\* Each attribute is there once, with one value.
LEMMA AttrsFacts ==
    ASSUME NEW a, a.ess \in EssOids, NEW info
    PROVE  LET as == Attrs(a, info) IN
           /\ FindAttribute(as, "contentType") /\ FindAttribute(as, "messageDigest")
           /\ AttributeValue(as, "contentType") = [contentType |-> "TSTInfo"]
           /\ AttributeValue(as, "messageDigest") = [digest |-> Digest(a.digest, info)]
           /\ FindAttribute(as, a.ess) /\ ~Absent(as, a.ess)
           /\ AttributeValue(as, a.ess) =
                EssValue(a, IF a.ess = "signingCertificate" THEN "Sha1" ELSE a.digest)
           /\ \A oid \in EssOids : oid # a.ess => Absent(as, oid)
<1> DEFINE as == Attrs(a, info)
<1>0. /\ Len(as) = 3
      /\ as[1] = [oid |-> "contentType", values |-> <<[contentType |-> "TSTInfo"]>>]
      /\ as[2] = [oid |-> "messageDigest",
                  values |-> <<[digest |-> Digest(a.digest, info)]>>]
      /\ as[3] = [oid |-> a.ess,
                  values |-> <<EssValue(a, IF a.ess = "signingCertificate" THEN "Sha1"
                                           ELSE a.digest)>>]
  BY DEF Attrs
<1> HIDE DEF as
<1>1. /\ as[1].oid = "contentType" /\ as[2].oid = "messageDigest" /\ as[3].oid = a.ess
      /\ Len(as[1].values) = 1 /\ Len(as[2].values) = 1 /\ Len(as[3].values) = 1
      /\ as[1].values[1] = [contentType |-> "TSTInfo"]
      /\ as[2].values[1] = [digest |-> Digest(a.digest, info)]
      /\ as[3].values[1] =
           EssValue(a, IF a.ess = "signingCertificate" THEN "Sha1" ELSE a.digest)
  BY <1>0
<1>2. a.ess # "contentType" /\ a.ess # "messageDigest"
  BY DEF EssOids
<1>3. /\ Occurrences(as, "contentType") = {1} /\ Occurrences(as, "messageDigest") = {2}
      /\ Occurrences(as, a.ess) = {3}
      /\ \A oid \in EssOids : oid # a.ess => Occurrences(as, oid) = {}
  <2>1. \A i \in 1 .. Len(as) : i = 1 \/ i = 2 \/ i = 3
    BY <1>0
  <2>2. 1 \in 1 .. Len(as) /\ 2 \in 1 .. Len(as) /\ 3 \in 1 .. Len(as)
    BY <1>0
  <2>3. Occurrences(as, "contentType") = {1}
    BY <1>1, <1>2, <2>1, <2>2 DEF Occurrences
  <2>4. Occurrences(as, "messageDigest") = {2}
    BY <1>1, <1>2, <2>1, <2>2 DEF Occurrences
  <2>5. Occurrences(as, a.ess) = {3}
    BY <1>1, <1>2, <2>1, <2>2 DEF Occurrences
  <2>6. ASSUME NEW oid \in EssOids, oid # a.ess PROVE Occurrences(as, oid) = {}
    <3>1. oid # "contentType" /\ oid # "messageDigest"
      BY DEF EssOids
    <3> QED BY <1>1, <2>1, <2>6, <3>1 DEF Occurrences
  <2> QED BY <2>3, <2>4, <2>5, <2>6
<1>4. Min({1}) = 1 /\ Min({2}) = 2 /\ Min({3}) = 3
  BY OfOne
<1> QED BY <1>0, <1>1, <1>3, <1>4 DEF FindAttribute, AttributeValue, Absent, as

\* They bind one certificate, that of the maker.
LEMMA AttrsBind ==
    ASSUME NEW a, a.ess \in EssOids, a.cert \in Certs, NEW info, NEW t, t.attrs = Attrs(a, info),
           NEW c \in Certs, IsBound(t, c)
    PROVE  c = a.cert
<1> DEFINE v == AttributeValue(t.attrs, a.ess)
<1>1. EssMatches(a.ess, v, c)
  BY AttrsFacts DEF IsBound
<1> DEFINE h == IF a.ess = "signingCertificate" THEN "Sha1" ELSE a.digest
<1>2. v.hash.of = a.cert.der
  <2>1. v = EssValue(a, h)
    BY AttrsFacts
  <2> HIDE DEF v, h
  <2>2. v.hash = Digest(h, a.cert.der)
    BY <2>1 DEF EssValue
  <2> QED BY <2>2 DEF Digest
<1>3. v.hash = Digest(EssDigest(a.ess, v), c.der)
  BY <1>1 DEF EssMatches
<1>4. v.hash.of = c.der
  BY <1>3 DEF Digest
<1> QED BY <1>2, <1>4, DerAssumption

\* And the maker's is bound.
LEMMA AttrsBindMaker ==
    ASSUME NEW a, a.ess \in EssOids, NEW info, NEW t, t.attrs = Attrs(a, info)
    PROVE  IsBound(t, a.cert)
<1> SUFFICES ASSUME NEW oid \in EssOids, ~Absent(t.attrs, oid)
             PROVE  EssMatches(oid, AttributeValue(t.attrs, oid), a.cert)
  BY DEF IsBound
<1>1. oid = a.ess
  BY AttrsFacts
<1>2. AttributeValue(t.attrs, oid) =
        EssValue(a, IF a.ess = "signingCertificate" THEN "Sha1" ELSE a.digest)
  BY <1>1, AttrsFacts
<1> QED BY <1>1, <1>2 DEF EssMatches, EssValue, EssDigest, Digest

\* A signature that verifies was made with this key over these attributes.
LEMMA SignatureMeans ==
    ASSUME NEW t, NEW key, VerifyCmsSignature(t, key)
    PROVE  t.sig.key = key /\ t.sig.over = t.attrs
<1>1. \/ VerifyRsaPssStrict(t.sig, t.attrs, key, t.params)
      \/ VerifySignatureByOid(t.sig, t.attrs, key, Resolved(t.alg, t.digest), FALSE)
  BY DEF VerifyCmsSignature
<1>2. \E k, a, salt : VerifyWithBackend(t.sig, t.attrs, key, k, a, salt)
  <2>1. CASE VerifyRsaPssStrict(t.sig, t.attrs, key, t.params)
    BY <2>1 DEF VerifyRsaPssStrict
  <2>2. CASE VerifySignatureByOid(t.sig, t.attrs, key, Resolved(t.alg, t.digest), FALSE)
    <3> DEFINE a == Resolved(t.alg, t.digest)
    <3>1. \/ VerifyRsa(t.sig, t.attrs, key, a) \/ VerifyEcdsaBound(t.sig, t.attrs, key, a)
          \/ VerifyDsa(t.sig, t.attrs, key, a)
          \/ VerifyWithBackend(t.sig, t.attrs, key, "Ed25519", a, 0)
          \/ \E h \in Sha2 : VerifyWithBackend(t.sig, t.attrs, key, "Rsa",
                                 Algorithm("RsaPss", h), OutputSize(h))
      BY <2>2 DEF VerifySignatureByOid
    <3> QED BY <3>1 DEF VerifyRsa, VerifyEcdsaBound, VerifyDsa
  <2> QED BY <1>1, <2>1, <2>2
<1> QED BY <1>2 DEF VerifyWithBackend

\* Whatever becomes of a token on the way, the signature stays.
LEMMA AlteredKeeps ==
    ASSUME NEW a, NEW info, NEW certs \in Seq(Certs), NEW t,
           t \in Altered(Token(a, info, certs))
    PROVE  t.sig = Token(a, info, certs).sig /\ t.certs \in Seq(Certs)
<1> SUFFICES ASSUME NEW g, g = Token(a, info, certs), t \in Altered(g)
             PROVE  t.sig = g.sig /\ t.certs \in Seq(Certs)
  OBVIOUS
<1>0. Bundles \subseteq Seq(Certs)
  BY WorldAssumption
<1>1. g.certs = certs
  BY DEF Token
<1>2. \/ t \in Renamed(g) \/ t \in Reworded(g) \/ t \in Reattributed(g)
      \/ t \in Relabelled(g)
  BY DEF Altered
<1>3. CASE t \in Renamed(g)
  <2>1. PICK w \in [certs: Bundles \cup {g.certs}, sid: {g.sid} \cup {x.sid : x \in Tsas}] :
            t = [g EXCEPT !.certs = w.certs, !.sid = w.sid]
    BY <1>3, Zenon DEF Renamed
  <2>2. t.sig = g.sig /\ t.certs = w.certs
    BY <2>1 DEF Token
  <2> QED BY <1>0, <1>1, <2>1, <2>2
<1>4. CASE t \in Reworded(g)
  <2>1. PICK i : t = [g EXCEPT !.info = i]
    BY <1>4, Zenon DEF Reworded
  <2> QED BY <1>1, <2>1 DEF Token
<1>5. CASE t \in Reattributed(g)
  <2>1. PICK x : t = [g EXCEPT !.attrs = x]
    BY <1>5, Zenon DEF Reattributed
  <2> QED BY <1>1, <2>1 DEF Token
<1>6. CASE t \in Relabelled(g)
  <2>1. \/ t = [g EXCEPT !.unsigned = {"signingCertificateV2"}]
        \/ t = [g EXCEPT !.signerInfos = 2] \/ t = [g EXCEPT !.content = "other"]
        \/ t = [g EXCEPT !.digest = "Sha3_256"]
        \/ t = [g EXCEPT !.alg = Algorithm("RsaPkcs1v15", "Sha1")]
    BY <1>6, Zenon DEF Relabelled
  <2> QED BY <1>1, <2>1 DEF Token
<1> QED BY <1>2, <1>3, <1>4, <1>5, <1>6
-----------------------------------------------------------------------------
(* The inductive invariant.                                                *)

\* What the variables hold; a call that has returned a token is over.
TypeInv ==
    /\ now \in 0 .. MaxTime /\ sent \subseteq Attempts \cup Others
    /\ pc \in {"validate", "waiting", "done"} /\ attempt \in Attempts
    /\ got # <<>> => pc = "done"

\* An answer of an authority, and what it consists of.
InfoFor(a, s, time, fraction) == Answer(RequestOf(a), s, time, fraction)
CertsFor(a, s) == IF RequestOf(a).certReq THEN s.certs ELSE <<>>
Issued(a, s, time, fraction) ==
    [attempt |-> a, tsa |-> s,
     token |-> Token(s, InfoFor(a, s, time, fraction), CertsFor(a, s))]
\* Something an authority has issued, while its certificate was valid.
IsIssued(u) ==
    \E a \in Attempts \cup Others, s \in Tsas, time \in 0 .. MaxTime,
       fraction \in {"none", "positive"} :
        ValidAt(s.cert, time, fraction = "positive") /\ u = Issued(a, s, time, fraction)
\* Nothing else is in issued.
IssuedInv == \A u \in issued : IsIssued(u)

\* The two halves of SignerIsBound.
GotBound ==
    got # <<>> /\ ByAuthority(got[1]) =>
        \E u \in IssuedAs(got[1]) :
            SignerOf(got[1], Embedded(got[1], Pool[attempt].verification_certs)) = u.tsa.cert
VerdictBound ==
    verdict # <<>> /\ ByAuthority(verdict[1].token) =>
        \E u \in IssuedAs(verdict[1].token) :
            SignerOf(verdict[1].token,
                     Embedded(verdict[1].token, verdict[1].how.extra)) = u.tsa.cert

\* The invariant: the properties themselves, on top of what was issued.
Inv ==
    /\ TypeInv /\ IssuedInv
    /\ AnswersThisAttempt /\ GotBound
    /\ VerifiedIsGenuine /\ VerdictBound

\* The parts of an answer.
LEMMA IssuedParts ==
    ASSUME NEW a, NEW s, NEW time, NEW fraction, NEW u, u = Issued(a, s, time, fraction)
    PROVE  /\ u.attempt = a /\ u.tsa = s
           /\ u.token = Token(s, InfoFor(a, s, time, fraction), CertsFor(a, s))
           /\ IsMade(u.token, s, InfoFor(a, s, time, fraction), CertsFor(a, s))
  BY TokenFields DEF Issued

\* The nonce is the attempt's.
LEMMA InfoNonce ==
    ASSUME NEW a, NEW s, NEW time, NEW fraction
    PROVE  /\ Len(InfoFor(a, s, time, fraction).optional) = 3
           /\ InfoFor(a, s, time, fraction).optional[2] = [tag |-> "nonce", nonce |-> a]
  BY DEF InfoFor, Answer, RequestOf, BuildTimestampRequest

\* An authority sends certificates.
LEMMA IssuedCerts ==
    ASSUME NEW a, NEW s \in Tsas
    PROVE  CertsFor(a, s) \in Seq(Certs)
<1>1. s.certs \in Seq(Certs)
  BY TsasAssumption
<1>2. <<>> \in Seq(Certs)
  OBVIOUS
<1> QED BY <1>1, <1>2 DEF CertsFor

\* The signer of whatever verifies.
LEMMA VerifiedSigner ==
    ASSUME NEW t, t.certs \in Seq(Certs), NEW extra \in Seq(Certs), VerifyTokenCms(t, extra)
    PROVE  LET c == SignerOf(t, Embedded(t, extra)) IN
           /\ Embedded(t, extra) \in Seq(Certs)
           /\ c \in Certs /\ IsBound(t, c) /\ VerifyCmsSignature(t, c.key)
           /\ t.sig.key = c.key /\ t.sig.over = t.attrs
           /\ AttributeValue(t.attrs, "messageDigest") = [digest |-> Digest(t.digest, t.info)]
           /\ ParseTstInfoBody(t.info)
<1> DEFINE certs == Embedded(t, extra)
           c == SignerOf(t, certs)
<1>1. certs \in Seq(Certs)
  BY EmbeddedFacts DEF Gathered
<1>2. /\ SignerCandidates(t, certs) # {} /\ VerifyCmsSignature(t, c.key) /\ SignedContent(t)
      /\ ParseTstInfoBody(t.info)
  BY DEF VerifyTokenCms
<1> HIDE DEF certs
<1>3. c \in Certs /\ IsBound(t, c)
  BY <1>1, <1>2, SignerFacts
<1>4. t.sig.key = c.key /\ t.sig.over = t.attrs
  BY <1>2, SignatureMeans
<1>5. AttributeValue(t.attrs, "messageDigest") = [digest |-> Digest(t.digest, t.info)]
  BY <1>2 DEF SignedContent
<1> QED BY <1>1, <1>2, <1>3, <1>4, <1>5 DEF certs

\* What verifies and comes from an authority is what it issued, and the
\* certificate it is verified with is the authority's.
LEMMA FromAuthority ==
    ASSUME IssuedInv, NEW g \in Genuine, NEW t \in Altered(g), NEW extra \in Seq(Certs),
           VerifyTokenCms(t, extra)
    PROVE  \E u \in IssuedAs(t) : SignerOf(t, Embedded(t, extra)) = u.tsa.cert
<1>1. PICK u \in issued : g = u.token
  BY DEF Genuine
<1>2. IsIssued(u)
  BY DEF IssuedInv
<1>3. PICK a \in Attempts \cup Others, s \in Tsas, time \in 0 .. MaxTime,
           fraction \in {"none", "positive"} : u = Issued(a, s, time, fraction)
  BY <1>2 DEF IsIssued
<1> DEFINE info == InfoFor(a, s, time, fraction)
           certs == CertsFor(a, s)
           c == SignerOf(t, Embedded(t, extra))
<1>4. /\ u.tsa = s /\ g = Token(s, info, certs) /\ g.info = info /\ g.attrs = Attrs(s, info)
      /\ g.sig.over = Attrs(s, info)
  <2>1. u.tsa = s /\ u.token = Token(s, info, certs) /\ IsMade(u.token, s, info, certs)
    BY <1>3, IssuedParts
  <2> QED BY <1>1, <2>1 DEF IsMade
<1>5. certs \in Seq(Certs)
  BY IssuedCerts
<1> HIDE DEF info, certs
<1>6. t.sig = g.sig /\ t.certs \in Seq(Certs)
  BY <1>4, <1>5, AlteredKeeps
<1>7. /\ c \in Certs /\ IsBound(t, c) /\ t.sig.over = t.attrs
      /\ AttributeValue(t.attrs, "messageDigest") = [digest |-> Digest(t.digest, t.info)]
  BY <1>6, VerifiedSigner
<1> HIDE DEF c
<1>8. t.attrs = Attrs(s, info)
  BY <1>4, <1>6, <1>7
<1>9. s.ess \in EssOids /\ s.cert \in Certs
  BY WorldAssumption
<1>10. c = s.cert
  BY <1>7, <1>8, <1>9, AttrsBind
<1>11. t.info = info
  <2>1. AttributeValue(t.attrs, "messageDigest") = [digest |-> Digest(s.digest, info)]
    BY <1>8, <1>9, AttrsFacts
  <2>2. Digest(s.digest, info) = Digest(t.digest, t.info)
    BY <1>7, <2>1
  <2> QED BY <2>2 DEF Digest
<1>12. u \in IssuedAs(t)
  BY <1>1, <1>4, <1>8, <1>11 DEF IssuedAs
<1> QED BY <1>4, <1>10, <1>12 DEF c

\* What others make is verified with the certificate of its maker.
LEMMA FromOther ==
    ASSUME NEW f \in Fabricators, NEW info, NEW t, t = Token(f, info, <<f.cert>>),
           NEW extra \in Seq(Certs), VerifyTokenCms(t, extra)
    PROVE  SignerOf(t, Embedded(t, extra)) = f.cert /\ t.info = info
<1>1. f.ess \in EssOids /\ f.cert \in Certs
  BY WorldAssumption
<1>2. t.info = info /\ t.attrs = Attrs(f, info) /\ t.certs = <<f.cert>>
  <2>1. IsMade(t, f, info, <<f.cert>>)
    BY TokenFields
  <2> QED BY <2>1 DEF IsMade
<1>3. t.certs \in Seq(Certs)
  <2>1. <<f.cert>> \in Seq(Certs)
    BY <1>1
  <2> QED BY <1>2, <2>1
<1> DEFINE c == SignerOf(t, Embedded(t, extra))
<1>4. c \in Certs /\ IsBound(t, c)
  BY <1>3, VerifiedSigner
<1> HIDE DEF c
<1> QED BY <1>1, <1>2, <1>4, AttrsBind DEF c

\* The forms of what others make, each with a list of optional fields.
LEMMA FabricatedForms ==
    ASSUME TypeInv, NEW t \in Fabricated
    PROVE  \E f \in Fabricators : \E info :
               t = Token(f, info, <<f.cert>>) /\ Len(info.optional) \in Nat
<1>1. t \in Imitated \/ t \in ForgedTokens
  BY DEF Fabricated
<1>2. CASE t \in Imitated
  <2>1. PICK a \in sent, f \in Fabricators :
            t = Token(f, Answer(RequestOf(a), f, now, "none"), <<f.cert>>)
    BY <1>2 DEF Imitated
  <2>2. Len(Answer(RequestOf(a), f, now, "none").optional) = 3
    BY DEF Answer
  <2> QED BY <2>1, <2>2
<1>3. CASE t \in ForgedTokens
  <2>1. PICK a \in sent : t \in {Token(Forger, i, <<Forger.cert>>) :
                                   i \in Distorted(Answer(RequestOf(a), Forger, now, "none"))}
    BY <1>3 DEF ForgedTokens
  <2>2. PICK i \in Distorted(Answer(RequestOf(a), Forger, now, "none")) :
            t = Token(Forger, i, <<Forger.cert>>)
    BY <2>1
  <2>3. Forger \in Fabricators
    BY WorldAssumption
  <2>4. Len(i.optional) \in Nat
    BY <2>3, DistortionAssumption DEF TypeInv
  <2> QED BY <2>2, <2>3, <2>4
<1> QED BY <1>1, <1>2, <1>3
-----------------------------------------------------------------------------
(* What acceptance means.                                                  *)

\* Whoever made it, what is accepted from the network was issued by an
\* authority under the signer's certificate, or was made by somebody else
\* under theirs.
LEMMA NetworkSigner ==
    ASSUME TypeInv, IssuedInv, NEW t \in OnTheNetwork, NEW extra \in Seq(Certs),
           VerifyTokenCms(t, extra)
    PROVE  LET c == SignerOf(t, Embedded(t, extra)) IN
           \/ \E u \in IssuedAs(t) : c = u.tsa.cert
           \/ \E f \in Fabricators : \E info :
                 /\ t = Token(f, info, <<f.cert>>) /\ t.info = info /\ c = f.cert
                 /\ Len(info.optional) \in Nat
<1>1. (\E g \in Genuine : t \in Altered(g)) \/ t \in Fabricated
  BY DEF OnTheNetwork
<1>2. CASE \E g \in Genuine : t \in Altered(g)
  BY <1>2, FromAuthority
<1>3. CASE t \in Fabricated
  <2>1. PICK f \in Fabricators : \E info :
               t = Token(f, info, <<f.cert>>) /\ Len(info.optional) \in Nat
    BY <1>3, FabricatedForms
  <2>2. PICK info : t = Token(f, info, <<f.cert>>) /\ Len(info.optional) \in Nat
    BY <2>1
  <2>3. SignerOf(t, Embedded(t, extra)) = f.cert /\ t.info = info
    BY <2>2, FromOther
  <2> QED BY <2>2, <2>3
<1> QED BY <1>1, <1>2, <1>3

\* Nobody else has the key of an authority.
LEMMA OthersKey ==
    ASSUME NEW f \in Fabricators, NEW info, NEW t, t = Token(f, info, <<f.cert>>)
    PROVE  ~ByAuthority(t)
<1>1. t.sig.key = f.cert.key
  <2>1. IsMade(t, f, info, <<f.cert>>)
    BY TokenFields
  <2> QED BY <2>1 DEF IsMade
<1>2. f.cert.key \in {a.cert.key : a \in Fabricators}
  OBVIOUS
<1> QED BY <1>1, <1>2, WorldAssumption DEF ByAuthority

\* A TSTInfo that parses has one nonce at most, and if that has to be a given
\* one it has it.
LEMMA OneNonce ==
    ASSUME NEW info, Len(info.optional) \in Nat, ParseTstInfoBody(info),
           NEW nonce, nonce # NoNonce, NonceOf(info) = nonce
    PROVE  NonceFields(info) # {} /\ \A i \in NonceFields(info) : info.optional[i].nonce = nonce
<1> DEFINE F == NonceFields(info)
           opt == info.optional
<1>1. F # {}
  BY DEF NonceOf
<1>2. ASSUME NEW i \in F, NEW j \in F PROVE i = j
  <2>1. i \in 1 .. Len(opt) /\ j \in 1 .. Len(opt) /\ opt[i].tag = "nonce" /\ opt[j].tag = "nonce"
    BY DEF NonceFields
  <2>2. Rank(opt[i]) = 3 /\ Rank(opt[j]) = 3
    BY <2>1 DEF Rank, OptionalFields
  <2>3. (i < j => Rank(opt[i]) < Rank(opt[j])) /\ (j < i => Rank(opt[j]) < Rank(opt[i]))
    BY <2>1 DEF ParseTstInfoBody
  <2>4. ~(i < j) /\ ~(j < i)
    BY <2>2, <2>3
  <2> QED BY <2>1, <2>4
<1>3. PICK i \in F : F = {i}
  BY <1>1, <1>2
<1>4. i \in Nat
  BY <1>3 DEF NonceFields
<1>5. NonceOf(info) = opt[i].nonce
  BY <1>1, <1>3, <1>4, OfOne DEF NonceOf
<1> QED BY <1>1, <1>3, <1>5

\* What an attempt accepts has all that AnswersThisAttempt and SignerIsBound
\* ask of it.
LEMMA AcceptedFacts ==
    ASSUME TypeInv, IssuedInv, NEW r \in Responses, Accepts(r)
    PROVE  LET t == r.token[1]
               c == Pool[attempt]
           IN  /\ t.info.hash = Hash /\ t.info.alg = c.digest_algorithm
               /\ c.policy_oid # NoPolicy => t.info.policy = c.policy_oid
               /\ \A i \in NonceFields(t.info) : t.info.optional[i].nonce = attempt
               /\ NonceFields(t.info) # {}
               /\ ByAuthority(t) => \E u \in IssuedAs(t) :
                    u.attempt = attempt /\ SignerOf(t, Embedded(t, c.verification_certs)) = u.tsa.cert
<1> DEFINE t == r.token[1]
           c == Pool[attempt]
<1>1. attempt \in Attempts /\ attempt \in Nonces /\ attempt # NoNonce
      /\ c.verification_certs \in Seq(Certs)
  BY AttemptsAssumption, TokenAssumption DEF TypeInv
<1>2. /\ IsSuccess(r) /\ r.token # <<>> /\ ParseTimestampResponse(r)
      /\ VerifyTokenCms(t, c.verification_certs)
      /\ CheckTstInfoMatches(t.info, Hash, attempt, c.digest_algorithm)
      /\ CheckTstPolicy(t.info, c.policy_oid)
  BY DEF Accepts, ValidateTimestampResponse
<1>3. t \in OnTheNetwork
  <2>1. CASE \E x \in OnTheNetwork : r = Granted(x)
    BY <2>1 DEF Granted
  <2>2. CASE r.token = <<>>
    BY <1>2, <2>2
  <2>3. CASE \E x \in Genuine : r = [Granted(x) EXCEPT !.status = "waiting"]
    BY <1>2, <2>3 DEF Granted, IsSuccess
  <2>4. CASE \E x \in Genuine : r = [Granted(x) EXCEPT !.trailing = TRUE]
    BY <1>2, <2>4 DEF Granted, ParseTimestampResponse
  <2> QED BY <2>1, <2>2, <2>3, <2>4 DEF Responses
<1> HIDE DEF t, c
<1>4. t.info.hash = Hash /\ t.info.alg = c.digest_algorithm /\ NonceOf(t.info) = attempt
  BY <1>1, <1>2 DEF CheckTstInfoMatches
<1>5. c.policy_oid # NoPolicy => t.info.policy = c.policy_oid
  BY <1>2 DEF CheckTstPolicy
<1>6. ParseTstInfoBody(t.info)
  BY <1>2 DEF VerifyTokenCms
<1>7. CASE \E u \in IssuedAs(t) : SignerOf(t, Embedded(t, c.verification_certs)) = u.tsa.cert
  <2>1. PICK u \in IssuedAs(t) :
            SignerOf(t, Embedded(t, c.verification_certs)) = u.tsa.cert
    BY <1>7
  <2>2. u \in issued /\ u.token.info = t.info
    BY DEF IssuedAs
  <2>3. PICK a \in Attempts \cup Others, s \in Tsas, time \in 0 .. MaxTime,
             fraction \in {"none", "positive"} : u = Issued(a, s, time, fraction)
    BY <2>2 DEF IssuedInv, IsIssued
  <2>4. u.attempt = a /\ u.token.info = InfoFor(a, s, time, fraction)
    <3>1. u.attempt = a /\ IsMade(u.token, s, InfoFor(a, s, time, fraction), CertsFor(a, s))
      BY <2>3, IssuedParts
    <3> QED BY <3>1 DEF IsMade
  <2>5. Len(t.info.optional) = 3 /\ t.info.optional[2] = [tag |-> "nonce", nonce |-> a]
    BY <2>2, <2>4, InfoNonce
  <2>6. /\ NonceFields(t.info) # {}
        /\ \A i \in NonceFields(t.info) : t.info.optional[i].nonce = attempt
    BY <1>1, <1>4, <1>6, <2>5, OneNonce
  <2>7. 2 \in NonceFields(t.info)
    BY <2>5 DEF NonceFields
  <2>8. u.attempt = attempt
    BY <2>4, <2>5, <2>6, <2>7
  <2> QED BY <1>4, <1>5, <2>1, <2>6, <2>8 DEF t, c
<1>8. ASSUME NEW f \in Fabricators, NEW info, t = Token(f, info, <<f.cert>>), t.info = info,
             Len(info.optional) \in Nat
      PROVE  /\ NonceFields(t.info) # {}
             /\ \A i \in NonceFields(t.info) : t.info.optional[i].nonce = attempt
             /\ ~ByAuthority(t)
  <2>1. /\ NonceFields(t.info) # {}
        /\ \A i \in NonceFields(t.info) : t.info.optional[i].nonce = attempt
    BY <1>1, <1>4, <1>6, <1>8, OneNonce
  <2> QED BY <1>8, <2>1, OthersKey
<1>9. \/ \E u \in IssuedAs(t) : SignerOf(t, Embedded(t, c.verification_certs)) = u.tsa.cert
      \/ \E f \in Fabricators : \E info :
            t = Token(f, info, <<f.cert>>) /\ t.info = info /\ Len(info.optional) \in Nat
  BY <1>1, <1>2, <1>3, NetworkSigner
<1> QED BY <1>4, <1>5, <1>7, <1>8, <1>9 DEF t, c

\* What others sign does not verify against a trust store.
LEMMA OthersFail ==
    ASSUME NEW v \in Verifications, NEW f \in Fabricators, NEW info, NEW t,
           t = Token(f, info, <<f.cert>>), NEW hash, NEW alg, NEW nonce,
           VerifyTimestampToken(t, hash, alg, nonce, v.roots, v.when, v.extra)
    PROVE  FALSE
<1> DEFINE certs == Embedded(t, v.extra)
           c == SignerOf(t, certs)
<1>0. v.extra \in Seq(Certs) /\ f.cert \in Certs
  BY WorldAssumption
<1>1. VerifyTokenCms(t, v.extra)
  BY DEF VerifyTimestampToken
<1>2. IsMade(t, f, info, <<f.cert>>)
  BY TokenFields
<1>3. t.certs \in Seq(Certs)
  <2>1. <<f.cert>> \in Seq(Certs)
    BY <1>0
  <2> QED BY <1>2, <2>1 DEF IsMade
<1>4. c = f.cert /\ certs \in Seq(Certs) /\ VerifyCmsSignature(t, c.key)
  <2>1. c = f.cert
    BY <1>0, <1>1, FromOther
  <2>2. certs \in Seq(Certs) /\ VerifyCmsSignature(t, c.key)
    BY <1>0, <1>1, <1>3, VerifiedSigner
  <2> QED BY <2>1, <2>2
<1>5. PICK time, frac : Verifiable(OrderChain(c, certs), v.roots, time, frac, "TimestampSigner")
  BY DEF VerifyTimestampToken
<1> HIDE DEF c, certs
<1>6. StartsWith(OrderChain(c, certs), c)
  BY <1>0, <1>4, OrderFacts
<1>7. SatisfiesPurpose(f.cert, "TimestampSigner") /\ ~Unvouched(f.cert)
  BY <1>4, <1>5, <1>6, VerifiableFromSigner
<1>8. t.alg = f.alg /\ t.digest = f.digest
  BY <1>2 DEF IsMade
<1>9. ~(CombinedOidDigest(f.alg) /\ f.alg.hash # f.digest)
  <2>1. CombinedOidDigest(f.alg) => f.alg # Pss
    BY DEF CombinedOidDigest, Pss, Algorithm
  <2> QED BY <1>4, <1>8, <2>1 DEF VerifyCmsSignature
<1>10. ~IsWeakSignatureOid(f.alg)
  <2> SUFFICES ASSUME IsWeakSignatureOid(f.alg) PROVE FALSE
    OBVIOUS
  <2>1. f.alg.scheme \in {"RsaPkcs1v15", "Ecdsa", "Dsa"}
    BY DEF IsWeakSignatureOid
  <2>2. f.alg # Pss /\ f.alg # RsaEncryption /\ f.alg # EcPublicKey
    BY <2>1 DEF Pss, RsaEncryption, EcPublicKey, Algorithm
  <2>3. Resolved(t.alg, t.digest) = f.alg
    BY <1>8, <2>2 DEF Resolved
  <2>4. VerifySignatureByOid(t.sig, t.attrs, c.key, f.alg, FALSE)
    BY <1>4, <1>8, <2>2, <2>3 DEF VerifyCmsSignature
  <2> QED BY <2>4 DEF VerifySignatureByOid
<1> QED BY <1>7, <1>9, <1>10, FabricatorsAssumption
-----------------------------------------------------------------------------
(* Every step keeps the invariant.                                         *)

\* It holds before anything was sent.
LEMMA InitInv == Init => Inv
<1> SUFFICES ASSUME Init PROVE Inv
  OBVIOUS
<1>1. TypeInv
  BY AttemptsAssumption, BoundsAssumption DEF Init, TypeInv, Attempts
<1>2. IssuedInv /\ AnswersThisAttempt /\ GotBound /\ VerifiedIsGenuine /\ VerdictBound
  BY DEF Init, IssuedInv, AnswersThisAttempt, GotBound, VerifiedIsGenuine, VerdictBound
<1> QED BY <1>1, <1>2 DEF Inv

\* No step leaves the types, and no client is asked once a token was returned.
LEMMA TypeStep == ASSUME Inv, [Next]_vars PROVE TypeInv'
<1> USE DEF Inv, TypeInv
<1>0. Len(Pool) \in Nat \ {0} /\ Attempts = 1 .. Len(Pool) /\ MaxTime \in Nat
  BY AttemptsAssumption, BoundsAssumption DEF Attempts
<1>1. ASSUME NextClient, pc \in {"validate", "waiting"}, UNCHANGED <<now, sent>> PROVE TypeInv'
  BY <1>0, <1>1 DEF NextClient
<1>2. CASE Issue
  BY <1>2 DEF Issue
<1>3. CASE Tick
  BY <1>0, <1>3 DEF Tick
<1>4. CASE UrlRefused
  BY <1>1, <1>4 DEF UrlRefused
<1>5. CASE Send
  BY <1>5 DEF Send
<1>6. CASE NoAnswer
  BY <1>1, <1>6 DEF NoAnswer
<1>7. CASE Receive
  <2>1. UNCHANGED <<now, sent>> /\ pc = "waiting"
    BY <1>7 DEF Receive
  <2>2. NextClient \/ (pc' = "done" /\ UNCHANGED attempt)
    BY <1>7 DEF Receive
  <2> QED BY <1>1, <2>1, <2>2
<1>8. CASE VerifyLater
  BY <1>8 DEF VerifyLater
<1>9. CASE UNCHANGED vars
  BY <1>9 DEF vars
<1> QED BY <1>2, <1>3, <1>4, <1>5, <1>6, <1>7, <1>8, <1>9 DEF Next

\* Only an authority issues, and nothing issued is taken back.
LEMMA IssuedStep == ASSUME Inv, [Next]_vars PROVE IssuedInv' /\ issued \subseteq issued'
<1>1. CASE Issue
  <2>1. PICK a \in sent, s \in Tsas, fraction \in {"none", "positive"} :
          /\ ValidAt(s.cert, now, fraction = "positive")
          /\ issued' = issued \cup
               {[attempt |-> a, tsa |-> s,
                 token |-> Token(s, Answer(RequestOf(a), s, now, fraction),
                                 IF RequestOf(a).certReq THEN s.certs ELSE <<>>)]}
    BY <1>1 DEF Issue
  <2>2. issued' = issued \cup {Issued(a, s, now, fraction)}
    BY <2>1 DEF Issued, InfoFor, CertsFor
  <2>3. a \in Attempts \cup Others /\ now \in 0 .. MaxTime
    BY DEF Inv, TypeInv
  <2>4. IsIssued(Issued(a, s, now, fraction))
    BY <2>1, <2>3 DEF IsIssued
  <2>5. \A u \in issued' : IsIssued(u)
    BY <2>2, <2>4 DEF Inv, IssuedInv
  <2> QED BY <2>2, <2>5 DEF IssuedInv, IsIssued
<1>2. CASE UNCHANGED issued
  BY <1>2 DEF Inv, IssuedInv, IsIssued
<1>3. UNCHANGED issued \/ Issue
  BY DEF Next, Tick, UrlRefused, Send, NoAnswer, Receive, VerifyLater, vars
<1> QED BY <1>1, <1>2, <1>3

\* The token a call returns is one it accepted, and stays so.
LEMMA GotStep == ASSUME Inv, [Next]_vars PROVE AnswersThisAttempt' /\ GotBound'
<1>0. issued \subseteq issued'
  BY IssuedStep
<1>1. CASE got' = <<>>
  BY <1>1 DEF AnswersThisAttempt, GotBound
<1>2. CASE UNCHANGED <<got, attempt>>
  BY <1>0, <1>2 DEF Inv, AnswersThisAttempt, GotBound, IssuedAs
<1>3. ASSUME NEW r \in Responses, Accepts(r), got' = r.token, UNCHANGED <<attempt, issued>>
      PROVE  AnswersThisAttempt' /\ GotBound'
  <2>1. TypeInv /\ IssuedInv
    BY DEF Inv
  <2> DEFINE t == r.token[1]
             c == Pool[attempt]
  <2>2. /\ t.info.hash = Hash /\ t.info.alg = c.digest_algorithm
        /\ c.policy_oid # NoPolicy => t.info.policy = c.policy_oid
        /\ \A i \in NonceFields(t.info) : t.info.optional[i].nonce = attempt
        /\ NonceFields(t.info) # {}
        /\ ByAuthority(t) => \E u \in IssuedAs(t) :
             u.attempt = attempt /\ SignerOf(t, Embedded(t, c.verification_certs)) = u.tsa.cert
    BY <1>3, <2>1, AcceptedFacts
  <2> QED BY <1>3, <2>2 DEF AnswersThisAttempt, GotBound, IssuedAs
<1>4. \/ got' = <<>> \/ UNCHANGED <<got, attempt>>
      \/ \E r \in Responses : Accepts(r) /\ got' = r.token /\ UNCHANGED <<attempt, issued>>
  <2>1. ASSUME NextClient, pc \in {"validate", "waiting"} PROVE got' = <<>>
    BY <2>1 DEF Inv, TypeInv, NextClient
  <2>2. CASE Receive
    <3>1. pc = "waiting" /\ UNCHANGED issued
      BY <2>2 DEF Receive
    <3> QED BY <2>1, <2>2, <3>1 DEF Receive
  <2>3. CASE UrlRefused \/ NoAnswer
    BY <2>1, <2>3 DEF UrlRefused, NoAnswer
  <2>4. CASE Issue \/ Tick \/ Send \/ VerifyLater \/ UNCHANGED vars
    BY <2>4 DEF Issue, Tick, Send, VerifyLater, vars
  <2> QED BY <2>2, <2>3, <2>4 DEF Next
<1> QED BY <1>1, <1>2, <1>3, <1>4

\* What a verifier accepts was issued, under the certificate it is accepted
\* with.
LEMMA VerdictStep == ASSUME Inv, [Next]_vars PROVE VerifiedIsGenuine' /\ VerdictBound'
<1>0. issued \subseteq issued'
  BY IssuedStep
<1>1. CASE UNCHANGED verdict
  <2>1. VerifiedIsGenuine'
    BY <1>0, <1>1 DEF Inv, VerifiedIsGenuine, IssuedAs
  <2>2. VerdictBound'
    BY <1>0, <1>1 DEF Inv, VerdictBound, IssuedAs, ByAuthority
  <2> QED BY <2>1, <2>2
<1>2. CASE VerifyLater
  <2>1. PICK t \in OnTheNetwork, v \in Verifications :
          /\ VerifyTimestampToken(t, Hash, Pool[1].digest_algorithm, NoNonce,
                                  v.roots, v.when, v.extra)
          /\ verdict' = <<[token |-> t, how |-> v]>>
    BY <1>2 DEF VerifyLater
  <2>2. UNCHANGED issued
    BY <1>2 DEF VerifyLater
  <2>3. VerifyTokenCms(t, v.extra)
    BY <2>1 DEF VerifyTimestampToken
  <2>4. v.extra \in Seq(Certs)
    BY WorldAssumption
  <2>5. TypeInv /\ IssuedInv
    BY DEF Inv
  <2>6. \/ \E u \in IssuedAs(t) : SignerOf(t, Embedded(t, v.extra)) = u.tsa.cert
        \/ \E f \in Fabricators : \E info :
             /\ t = Token(f, info, <<f.cert>>) /\ t.info = info
             /\ SignerOf(t, Embedded(t, v.extra)) = f.cert /\ Len(info.optional) \in Nat
    BY <2>3, <2>4, <2>5, NetworkSigner
  <2>7. \E u \in IssuedAs(t) : SignerOf(t, Embedded(t, v.extra)) = u.tsa.cert
    BY <2>1, <2>6, OthersFail
  <2>8. verdict'[1].token = t /\ verdict'[1].how = v
    BY <2>1
  <2> QED BY <2>2, <2>7, <2>8 DEF VerifiedIsGenuine, VerdictBound, IssuedAs
<1>3. UNCHANGED verdict \/ VerifyLater
  BY DEF Next, Issue, Tick, UrlRefused, Send, NoAnswer, Receive, vars
<1> QED BY <1>1, <1>2, <1>3
-----------------------------------------------------------------------------
(* An honest answer is taken.                                              *)

\* The sizes of hashes, and the names of the ones there are.
LEMMA DigestsKnown ==
    /\ Sha2 \subseteq DigestAlgorithm
    /\ "Sha1" \in DigestAlgorithm \cup {"Sha1"}
  BY DEF Sha2, DigestAlgorithm

\* What a proper signer signs verifies.
LEMMA ProperVerifies ==
    ASSUME NEW a \in Tsas, NEW info, NEW certs, NEW t, IsMade(t, a, info, certs)
    PROVE  VerifyCmsSignature(t, a.cert.key)
<1> DEFINE kind == KeyAlgorithm(a.cert.key)
           sig(alg, salt) == [key |-> a.cert.key, alg |-> alg, salt |-> salt, over |-> t.attrs]
<1>1. /\ t.digest = a.digest /\ t.alg = a.alg /\ t.params = a.params
      /\ t.sig = sig(a.signs, a.params.salt)
  BY DEF IsMade
<1>2. a.digest \in Sha2 /\ a.digest \notin {"Md5", "Sha1", "Sha224", "none"}
  BY TsasAssumption DEF SignsProperly, Sha2
<1>3. CASE /\ kind = "Rsa" /\ a.signs = Algorithm("RsaPkcs1v15", a.digest)
           /\ a.alg \in {RsaEncryption, a.signs} /\ a.params.salt = 0
  <2>1. a.alg # Pss /\ a.alg # EcPublicKey /\ a.signs # EcPublicKey /\ a.signs # RsaEncryption
        /\ a.signs.scheme = "RsaPkcs1v15" /\ a.signs.hash = a.digest
    BY <1>3 DEF Pss, RsaEncryption, EcPublicKey, Algorithm
  <2>2. Resolved(a.alg, a.digest) = a.signs
    BY <1>2, <1>3, <2>1 DEF Resolved
  <2>3. CombinedOidDigest(a.alg) => a.alg.hash = a.digest
    BY <1>3, <2>1 DEF CombinedOidDigest, RsaEncryption, Algorithm
  <2>4. VerifyRsa(t.sig, t.attrs, a.cert.key, a.signs)
    BY <1>1, <1>2, <1>3, <2>1 DEF VerifyRsa, VerifyWithBackend
  <2>5. ~IsWeakSignatureOid(a.signs)
    BY <1>2, <2>1 DEF IsWeakSignatureOid
  <2>6. VerifySignatureByOid(t.sig, t.attrs, a.cert.key, a.signs, FALSE)
    BY <1>2, <2>1, <2>4, <2>5 DEF VerifySignatureByOid, Pss, Ed25519, Algorithm
  <2> QED BY <1>1, <2>1, <2>2, <2>3, <2>6 DEF VerifyCmsSignature
<1>4. CASE /\ kind = "Rsa" /\ a.signs = Algorithm("RsaPss", a.digest)
           /\ a.alg = Pss /\ a.params = PssParams(a.digest)
  <2>1. /\ a.params.present /\ a.params.hash = a.digest /\ a.params.mgf1 = a.digest
        /\ a.params.trailer = 1
    BY <1>4 DEF PssParams, NoParams
  <2>2. VerifyRsaPssStrict(t.sig, t.attrs, a.cert.key, t.params)
    BY <1>1, <1>2, <1>4, <2>1 DEF VerifyRsaPssStrict, VerifyWithBackend
  <2> QED BY <1>1, <1>4, <2>1, <2>2 DEF VerifyCmsSignature
<1>5. CASE /\ <<kind, a.digest>> \in EcdsaPairs /\ a.signs = Algorithm("Ecdsa", a.digest)
           /\ a.alg \in {EcPublicKey, a.signs} /\ a.params.salt = 0
  <2>1. a.alg # Pss /\ a.alg # RsaEncryption /\ a.signs # EcPublicKey /\ a.signs # RsaEncryption
        /\ a.signs.scheme = "Ecdsa" /\ a.signs.hash = a.digest /\ a.signs # Pss
    BY <1>5 DEF Pss, RsaEncryption, EcPublicKey, Algorithm
  <2>2. Resolved(a.alg, a.digest) = a.signs
    BY <1>2, <1>5, <2>1 DEF Resolved
  <2>3. CombinedOidDigest(a.alg) => a.alg.hash = a.digest
    BY <1>5, <2>1 DEF CombinedOidDigest, EcPublicKey, Algorithm
  <2>4. VerifyEcdsaBound(t.sig, t.attrs, a.cert.key, a.signs)
    BY <1>1, <1>2, <1>5, <2>1 DEF VerifyEcdsaBound, VerifyWithBackend
  <2>5. ~IsWeakSignatureOid(a.signs)
    BY <1>2, <2>1 DEF IsWeakSignatureOid
  <2>6. VerifySignatureByOid(t.sig, t.attrs, a.cert.key, a.signs, FALSE)
    BY <1>2, <2>1, <2>4, <2>5 DEF VerifySignatureByOid, Pss, Ed25519, Algorithm
  <2> QED BY <1>1, <2>1, <2>2, <2>3, <2>6 DEF VerifyCmsSignature
<1>6. CASE kind = "Ed25519" /\ a.signs = Ed25519 /\ a.alg = Ed25519 /\ a.params.salt = 0
  <2>1. Ed25519 # Pss /\ Ed25519 # RsaEncryption /\ Ed25519 # EcPublicKey
        /\ Ed25519.scheme = "Ed25519"
    BY DEF Ed25519, Pss, RsaEncryption, EcPublicKey, Algorithm
  <2>2. Resolved(a.alg, a.digest) = Ed25519
    BY <1>6, <2>1 DEF Resolved
  <2>3. ~CombinedOidDigest(a.alg)
    BY <1>6, <2>1 DEF CombinedOidDigest
  <2>4. VerifyWithBackend(t.sig, t.attrs, a.cert.key, "Ed25519", Ed25519, 0)
    BY <1>1, <1>6 DEF VerifyWithBackend
  <2>5. ~IsWeakSignatureOid(Ed25519)
    BY <2>1 DEF IsWeakSignatureOid
  <2>6. VerifySignatureByOid(t.sig, t.attrs, a.cert.key, Ed25519, FALSE)
    BY <2>1, <2>4, <2>5 DEF VerifySignatureByOid
  <2> QED BY <1>1, <1>6, <2>1, <2>2, <2>3, <2>6 DEF VerifyCmsSignature
<1>7. SignsProperly(a)
  BY TsasAssumption
<1> QED BY <1>3, <1>4, <1>5, <1>6, <1>7 DEF SignsProperly

\* The bindings of an authority's token are well-formed.
LEMMA ProperBindings ==
    ASSUME NEW a \in Tsas, NEW info, NEW certs, NEW t, IsMade(t, a, info, certs)
    PROVE  SigningCertificateBindings(t)
<1> DEFINE h == IF a.ess = "signingCertificate" THEN "Sha1" ELSE a.digest
           v == AttributeValue(t.attrs, a.ess)
<1>1. a.ess \in EssOids /\ a.digest \in Sha2
  BY WorldAssumption, TsasAssumption DEF SignsProperly
<1>2. t.attrs = Attrs(a, info) /\ t.unsigned = {}
  BY DEF IsMade
<1>3. /\ FindAttribute(t.attrs, a.ess) /\ ~Absent(t.attrs, a.ess)
      /\ \A oid \in EssOids : oid # a.ess => Absent(t.attrs, oid)
      /\ v = EssValue(a, h)
  BY <1>1, <1>2, AttrsFacts
<1>4. h \in DigestAlgorithm \cup {"Sha1"}
  BY <1>1 DEF Sha2, DigestAlgorithm
<1> HIDE DEF v
<1>5. v.shape = "single" /\ v.alg = h /\ v.hash.alg = h
  BY <1>3 DEF EssValue, Digest
<1>6. EssDigest(a.ess, v) = h
  BY <1>5 DEF EssDigest
<1> HIDE DEF h
<1>7. ParseEssBinding(a.ess, v)
  BY <1>4, <1>5, <1>6 DEF ParseEssBinding
<1>8. \A oid \in EssOids :
         \/ Absent(t.attrs, oid)
         \/ FindAttribute(t.attrs, oid) /\ ParseEssBinding(oid, AttributeValue(t.attrs, oid))
  BY <1>3, <1>7 DEF v
<1> QED BY <1>1, <1>2, <1>3, <1>8 DEF SigningCertificateBindings

\* The client whose request an attempt is, or is like.
ClientOf(a) == Pool[IF a \in Attempts THEN a ELSE 1]

\* The TSTInfo of an answer parses, has the name of the signer, and answers
\* the request.
LEMMA ProperInfo ==
    ASSUME NEW a \in Attempts \cup Others, NEW s \in Tsas, NEW time \in 0 .. MaxTime,
           NEW fraction \in {"none", "positive"}, ValidAt(s.cert, time, fraction = "positive")
    PROVE  LET info == InfoFor(a, s, time, fraction) IN
           /\ ParseTstInfoBody(info) /\ CheckTsaIdentity(s.cert, info)
           /\ CheckGenTime(s.cert, info)
           /\ CheckTstInfoMatches(info, Hash, a, ClientOf(a).digest_algorithm)
           /\ CheckTstPolicy(info, ClientOf(a).policy_oid)
<1> DEFINE info == InfoFor(a, s, time, fraction)
           opt == info.optional
<1>0. /\ a \in Nonces /\ ClientOf(a).digest_algorithm \in DigestAlgorithm
      /\ OutputSize(Hash.alg) = OutputSize(ClientOf(a).digest_algorithm)
  <2>1. (IF a \in Attempts THEN a ELSE 1) \in Attempts
    BY AttemptsAssumption DEF Attempts
  <2> QED BY <2>1, AttemptsAssumption DEF ClientOf
<1>1. /\ info.version = 1 /\ info.alg = ClientOf(a).digest_algorithm /\ info.hash = Hash
      /\ info.genTime = time /\ info.fraction = fraction
      /\ ClientOf(a).policy_oid # NoPolicy => info.policy = ClientOf(a).policy_oid
  BY DEF InfoFor, Answer, RequestOf, BuildTimestampRequest, ClientOf
<1>2. opt = <<[tag |-> "accuracy", parts |-> <<[rank |-> 1, value |-> 1],
                                                [rank |-> 2, value |-> 999]>>],
              [tag |-> "nonce", nonce |-> a], [tag |-> "tsa", name |-> s.name]>>
  BY DEF InfoFor, Answer, RequestOf, BuildTimestampRequest
<1> DEFINE parts == <<[rank |-> 1, value |-> 1], [rank |-> 2, value |-> 999]>>
<1>3. /\ Len(opt) = 3 /\ opt[1].tag = "accuracy" /\ opt[1].parts = parts
      /\ opt[2].tag = "nonce" /\ opt[2].nonce = a
      /\ opt[3].tag = "tsa" /\ opt[3].name = s.name
  BY <1>2
<1> HIDE DEF info
<1>4. \A i \in 1 .. Len(opt) : i = 1 \/ i = 2 \/ i = 3
  BY <1>3
<1>5. /\ s.name.kind # "malformed" /\ s.name.kind # "x400"
      /\ \/ s.name = [kind |-> "directory", value |-> s.cert.subject]
         \/ s.cert.hasSan /\ s.cert.sanParses /\ s.name \in s.cert.san
  <2>1. \/ s.name = [kind |-> "directory", value |-> s.cert.subject]
        \/ /\ s.cert.hasSan /\ s.cert.sanParses /\ s.name \in s.cert.san
           /\ s.name.kind \notin {"malformed", "x400"}
    BY TsasAssumption
  <2>2. CASE s.name = [kind |-> "directory", value |-> s.cert.subject]
    <3>1. s.name.kind = "directory"
      BY <2>2
    <3> QED BY <2>2, <3>1
  <2> QED BY <2>1, <2>2
<1>6. ParseTstInfoBody(info)
  <2>1. ValidateTstAccuracy(parts)
    <3>1. Len(parts) = 2 /\ parts[1].rank = 1 /\ parts[2].rank = 2 /\ parts[2].value = 999
      OBVIOUS
    <3>2. \A i \in 1 .. Len(parts) : i = 1 \/ i = 2
      BY <3>1
    <3> HIDE DEF parts
    <3> QED BY <3>1, <3>2 DEF ValidateTstAccuracy
  <2> HIDE DEF parts
  <2>2. ValidateOptional(opt[1])
    BY <1>3, <2>1 DEF ValidateOptional
  <2>3. ValidateOptional(opt[2])
    BY <1>0, <1>3 DEF ValidateOptional
  <2>4. ValidateOptional(opt[3])
    BY <1>3, <1>5 DEF ValidateOptional, ValidateTstTsaName
  <2>5. Rank(opt[1]) = 1 /\ Rank(opt[2]) = 3 /\ Rank(opt[3]) = 4
    BY <1>3 DEF Rank, OptionalFields
  <2>6. \A i, j \in 1 .. Len(opt) : i < j => Rank(opt[i]) < Rank(opt[j])
    BY <1>4, <2>5
  <2>7. ParseMessageImprint(info)
    BY <1>0, <1>1 DEF ParseMessageImprint
  <2>8. \A i \in 1 .. Len(opt) : ValidateOptional(opt[i])
    BY <1>4, <2>2, <2>3, <2>4
  <2> QED BY <1>1, <2>6, <2>7, <2>8 DEF ParseTstInfoBody
<1>7. CheckTsaIdentity(s.cert, info)
  <2>1. s.cert.duplicate = {}
    BY TsasAssumption DEF SatisfiesPurpose, AnyPurpose
  <2>2. \A i \in 1 .. Len(opt) : opt[i].tag = "tsa" => opt[i].name = s.name
    BY <1>3, <1>4
  <2> QED BY <1>5, <2>1, <2>2 DEF CheckTsaIdentity
<1>8. CheckGenTime(s.cert, info)
  BY <1>1 DEF CheckGenTime, GenTimeParses, HasFraction
<1>9. NonceOf(info) = a
  <2>1. NonceFields(info) = {2}
    BY <1>3, <1>4 DEF NonceFields
  <2>2. Max({2}) = 2
    BY OfOne
  <2> QED BY <1>3, <2>1, <2>2 DEF NonceOf
<1>10. /\ CheckTstInfoMatches(info, Hash, a, ClientOf(a).digest_algorithm)
       /\ CheckTstPolicy(info, ClientOf(a).policy_oid)
  BY <1>1, <1>9 DEF CheckTstInfoMatches, CheckTstPolicy
<1> QED BY <1>6, <1>7, <1>8, <1>10 DEF info

\* Such a token verifies wherever the signer's certificate is at hand.
LEMMA HonestVerifies ==
    ASSUME NEW a \in Attempts \cup Others, NEW s \in Tsas, NEW time \in 0 .. MaxTime,
           NEW fraction \in {"none", "positive"}, ValidAt(s.cert, time, fraction = "positive"),
           NEW b \in Seq(Certs), NEW t, IsMade(t, s, InfoFor(a, s, time, fraction), b),
           NEW extra \in Seq(Certs), IsIn(s.cert, Embedded(t, extra))
    PROVE  VerifyTokenCms(t, extra) /\ SignerOf(t, Embedded(t, extra)) = s.cert
<1> DEFINE info == InfoFor(a, s, time, fraction)
           certs == Embedded(t, extra)
           c == SignerOf(t, certs)
<1>1. /\ t.content = "TSTInfo" /\ t.signerInfos = 1 /\ t.info = info /\ t.digest = s.digest
      /\ t.attrs = Attrs(s, info) /\ t.sid = s.sid /\ t.certs = b
  BY DEF IsMade
<1>2. t.certs \in Seq(Certs)
  BY <1>1
<1>3. Gathered(certs, Len(extra), t.certs, extra)
  BY <1>2, EmbeddedFacts
<1> HIDE DEF info, certs
<1>4. s.ess \in EssOids /\ s.cert \in Certs
  BY WorldAssumption
<1>5. SignerIdentifierMatches(s.sid, s.cert) /\ SatisfiesPurpose(s.cert, "TimestampSigner")
      /\ s.digest \in Sha2
  BY TsasAssumption DEF SignsProperly
<1>6. PICK i \in 1 .. Len(certs) : certs[i] = s.cert
  BY DEF IsIn, certs
<1>7. IsBound(t, s.cert)
  BY <1>1, <1>4, AttrsBindMaker
<1>8. SignerCandidates(t, certs) # {}
  BY <1>1, <1>5, <1>6, <1>7 DEF SignerCandidates
<1>9. c = s.cert
  <2>1. certs \in Seq(Certs)
    BY <1>3 DEF Gathered
  <2>2. c \in Certs /\ IsBound(t, c)
    BY <1>8, <2>1, SignerFacts
  <2> HIDE DEF c
  <2> QED BY <1>1, <1>4, <2>2, AttrsBind
<1>10. SignedContent(t)
  <2>1. s.digest \in DigestAlgorithm
    BY <1>5, DigestsKnown
  <2> QED BY <1>1, <1>4, <2>1, AttrsFacts DEF SignedContent
<1>11. VerifyCmsSignature(t, c.key)
  <2>1. VerifyCmsSignature(t, s.cert.key)
    BY ProperVerifies
  <2> QED BY <1>9, <2>1
<1>12. RequireTimestampingEku(c) /\ RequireNotCa(c) /\ RequireSigningKeyUsage(c)
  <2>1. s.cert.duplicate = {} /\ ValidateTimestampSigner(s.cert)
    BY <1>5 DEF SatisfiesPurpose, AnyPurpose
  <2> HIDE DEF c
  <2> QED BY <1>9, <2>1 DEF RequireTimestampingEku, RequireNotCa, RequireSigningKeyUsage,
                            ValidateTimestampSigner
<1>13. SigningCertificateBindings(t)
  BY ProperBindings
<1>14. ParseTstInfoBody(t.info) /\ CheckTsaIdentity(c, t.info) /\ CheckGenTime(c, t.info)
  <2>1. ParseTstInfoBody(info) /\ CheckTsaIdentity(s.cert, info) /\ CheckGenTime(s.cert, info)
    BY ProperInfo DEF info
  <2> QED BY <1>1, <1>9, <2>1
<1> HIDE DEF c
<1> QED BY <1>1, <1>8, <1>9, <1>10, <1>11, <1>12, <1>13, <1>14 DEF VerifyTokenCms, certs, c

\* So the attempt it answers accepts it.
LEMMA HonestFollows == Inv => HonestAnswerAccepted
<1> SUFFICES ASSUME Inv, NEW u \in issued, u.attempt = attempt,
                    IsIn(u.tsa.cert, u.token.certs \o Pool[attempt].verification_certs)
             PROVE  Accepts(Granted(u.token))
  BY DEF HonestAnswerAccepted
<1>1. PICK a \in Attempts \cup Others, s \in Tsas, time \in 0 .. MaxTime,
           fraction \in {"none", "positive"} :
             ValidAt(s.cert, time, fraction = "positive") /\ u = Issued(a, s, time, fraction)
  BY DEF Inv, IssuedInv, IsIssued
<1> DEFINE t == u.token
           info == InfoFor(a, s, time, fraction)
           extra == Pool[attempt].verification_certs
<1>2. u.attempt = a /\ u.tsa = s /\ IsMade(t, s, info, CertsFor(a, s))
  BY <1>1, IssuedParts
<1>3. a = attempt /\ attempt \in Attempts /\ extra \in Seq(Certs)
  BY <1>2, AttemptsAssumption DEF Inv, TypeInv
<1>4. t.info = info /\ t.certs \in Seq(Certs)
  <2>1. t.info = info /\ t.certs = CertsFor(a, s)
    BY <1>2 DEF IsMade
  <2> QED BY <2>1, IssuedCerts
<1> HIDE DEF info, extra
<1>5. IsIn(s.cert, t.certs) \/ IsIn(s.cert, extra)
  <2>1. IsIn(s.cert, t.certs \o extra)
    BY <1>2 DEF extra
  <2> HIDE DEF t
  <2>2. /\ Len(t.certs) \in Nat /\ Len(extra) \in Nat
        /\ Len(t.certs \o extra) = Len(t.certs) + Len(extra)
        /\ \A k \in 1 .. Len(t.certs) + Len(extra) :
             (t.certs \o extra)[k] =
                 IF k <= Len(t.certs) THEN t.certs[k] ELSE extra[k - Len(t.certs)]
    BY <1>3, <1>4, ConcatProperties, LenProperties
  <2>3. PICK k \in 1 .. Len(t.certs) + Len(extra) : (t.certs \o extra)[k] = s.cert
    BY <2>1, <2>2 DEF IsIn
  <2>4. CASE k <= Len(t.certs)
    BY <2>2, <2>3, <2>4 DEF IsIn
  <2>5. CASE ~(k <= Len(t.certs))
    <3>1. k - Len(t.certs) \in 1 .. Len(extra) /\ extra[k - Len(t.certs)] = s.cert
      BY <2>2, <2>3, <2>5
    <3> QED BY <3>1 DEF IsIn
  <2> QED BY <2>4, <2>5
<1>6. VerifyTokenCms(t, extra)
  <2>1. Gathered(Embedded(t, extra), Len(extra), t.certs, extra)
    BY <1>3, <1>4, EmbeddedFacts
  <2>2. IsIn(s.cert, Embedded(t, extra))
    BY <1>5, <2>1 DEF Gathered, IsIn
  <2>3. CertsFor(a, s) \in Seq(Certs)
    BY IssuedCerts
  <2> QED BY <1>1, <1>2, <1>3, <2>2, <2>3, HonestVerifies DEF info
<1>7. /\ CheckTstInfoMatches(info, Hash, attempt, Pool[attempt].digest_algorithm)
      /\ CheckTstPolicy(info, Pool[attempt].policy_oid)
  <2>1. ClientOf(a) = Pool[attempt]
    BY <1>3 DEF ClientOf
  <2>2. /\ CheckTstInfoMatches(info, Hash, a, ClientOf(a).digest_algorithm)
        /\ CheckTstPolicy(info, ClientOf(a).policy_oid)
    BY <1>1, ProperInfo DEF info
  <2> QED BY <1>3, <2>1, <2>2
<1> DEFINE r == Granted(t)
<1>8. /\ r.trailing = FALSE /\ r.statusInfo = <<>> /\ r.status = "granted"
      /\ r.token = <<t>> /\ r.token # <<>> /\ r.token[1] = t
  BY DEF Granted
<1>9. ParseTimestampResponse(r) /\ IsSuccess(r)
  BY <1>8 DEF ParseTimestampResponse, IsSuccess
<1> HIDE DEF r
<1>10. Accepts(r)
  BY <1>4, <1>6, <1>7, <1>8, <1>9 DEF Accepts, ValidateTimestampResponse, extra
<1> QED BY <1>10 DEF r

-----------------------------------------------------------------------------
(* The theorems.                                                           *)

\* Every state the pool and the network can reach has the invariant.
THEOREM Invariance == Spec => []Inv
<1>1. Inv /\ [Next]_vars => Inv'
  BY TypeStep, IssuedStep, GotStep, VerdictStep DEF Inv
<1> QED BY InitInv, <1>1, PTL DEF Spec

\* A token that a call returns has the hash, the policy and the nonce of its
\* attempt, and if an authority's key signed it, it was issued for that attempt
\* (client.rs, timestamp; token.rs, check_tst_info_matches).
THEOREM AttemptIsAnswered == Spec => []AnswersThisAttempt
<1>1. Inv => AnswersThisAttempt
  BY DEF Inv
<1> QED BY Invariance, <1>1, PTL

\* A token of an authority is only ever accepted under the certificate it was
\* signed under (token.rs, verify_token_cms).
THEOREM SignerBound == Spec => []SignerIsBound
<1>1. Inv => SignerIsBound
  BY DEF Inv, SignerIsBound, GotBound, VerdictBound
<1> QED BY Invariance, <1>1, PTL

\* What verifies against a trust store was issued by an authority with this
\* very content (token.rs, verify_timestamp_token).
THEOREM OnlyGenuineVerifies == Spec => []VerifiedIsGenuine
<1>1. Inv => VerifiedIsGenuine
  BY DEF Inv
<1> QED BY Invariance, <1>1, PTL

\* No honest answer to the attempt under way is turned down (token.rs,
\* validate_timestamp_response_for_policy).
THEOREM HonestAnswersPass == Spec => []HonestAnswerAccepted
  BY Invariance, HonestFollows, PTL

-----------------------------------------------------------------------------
(* Genuine tokens verify.                                                  *)

\* The first certificates of a chain.
Start(c, k) == [i \in 1 .. k |-> c[i]]

\* They grow by one.
LEMMA StartFacts ==
    ASSUME NEW c \in Seq(Certs), NEW k \in 1 .. Len(c)
    PROVE  /\ Start(c, k) \in Seq(Certs) /\ Len(Start(c, k)) = k /\ LastOf(Start(c, k)) = c[k]
           /\ \A i \in 1 .. k : Start(c, k)[i] = c[i]
           /\ k = Len(c) => Start(c, k) = c
           /\ k < Len(c) => Start(c, k + 1) = Append(Start(c, k), c[k + 1])
<1>0. Len(c) \in Nat /\ \A i \in 1 .. Len(c) : c[i] \in Certs
  BY LenProperties, ElementOfSeq
<1> DEFINE s == Start(c, k)
<1>1. s \in Seq(Certs) /\ Len(s) = k /\ \A i \in 1 .. k : s[i] = c[i]
  BY <1>0 DEF Start
<1>2. LastOf(s) = c[k]
  BY <1>0, <1>1 DEF LastOf
<1>3. ASSUME k = Len(c) PROVE s = c
  <2>1. c = [i \in 1 .. Len(c) |-> c[i]]
    OBVIOUS
  <2> QED BY <1>3, <2>1 DEF Start
<1>4. ASSUME k < Len(c) PROVE Start(c, k + 1) = Append(s, c[k + 1])
  <2> DEFINE a == Append(s, c[k + 1])
             b == Start(c, k + 1)
  <2>0. c[k + 1] \in Certs /\ k \in Nat
    BY <1>0, <1>4
  <2> HIDE DEF s
  <2>1. /\ a \in Seq(Certs) /\ Len(a) = k + 1 /\ a[k + 1] = c[k + 1]
        /\ \A i \in 1 .. k : a[i] = s[i]
    BY <1>1, <2>0, AppendProperties
  <2>2. a = [i \in 1 .. k + 1 |-> a[i]]
    BY <2>1
  <2> HIDE DEF a
  <2>3. \A i \in 1 .. k + 1 : a[i] = c[i]
    BY <1>1, <2>0, <2>1
  <2> QED BY <2>2, <2>3 DEF Start, a
<1> QED BY <1>1, <1>2, <1>3, <1>4

\* A chain and one certificate more.
LEMMA OneMore ==
    ASSUME NEW c \in Seq(Certs), NEW x
    PROVE  /\ Len(c) \in Nat /\ Len(Append(c, x)) = Len(c) + 1 /\ Append(c, x) # <<>>
           /\ \A i \in 1 .. Len(c) : Append(c, x)[i] = c[i]
           /\ Append(c, x)[Len(c) + 1] = x /\ LastOf(Append(c, x)) = x
<1>1. \A i \in 1 .. Len(c) : c[i] \in Certs \cup {x}
  BY ElementOfSeq
<1>2. c \in Seq(Certs \cup {x}) /\ Len(c) \in Nat
  BY <1>1, SeqDef, LenProperties
<1>3. /\ Append(c, x) \in Seq(Certs \cup {x}) /\ Len(Append(c, x)) = Len(c) + 1
      /\ \A i \in 1 .. Len(c) : Append(c, x)[i] = c[i]
      /\ Append(c, x)[Len(c) + 1] = x
  BY <1>2, AppendProperties
<1>4. Append(c, x) # <<>>
  BY <1>2, <1>3
<1> QED BY <1>2, <1>3, <1>4 DEF LastOf

\* The name and the signature of the one are the other's.
IssuedBy(c, d) == c.issuer = d.subject /\ SignedBy(c, d)

\* Of the certificates at most one has issued another.
OneIssuer(certs) ==
    \A i, j, k \in 1 .. Len(certs) :
        IssuedBy(certs[i], certs[j]) /\ IssuedBy(certs[i], certs[k]) => certs[j] = certs[k]

\* Every certificate of the chain is at hand, and issued by the next.
Selected(c, certs) ==
    /\ c \in Seq(Certs) /\ Len(c) >= 1 /\ Straight(c)
    /\ \A i \in 1 .. Len(c) : IsIn(c[i], certs)
    /\ \A i \in 1 .. Len(c) - 1 : IssuedBy(c[i], c[i + 1])

\* A round of order_chain finds the next one.
LEMMA NextIsLink ==
    ASSUME NEW certs \in Seq(Certs), OneIssuer(certs), NEW c, Selected(c, certs),
           NEW k \in 1 .. Len(c) - 1
    PROVE  NextLink(Start(c, k), certs) = Start(c, k + 1)
<1> DEFINE chain == Start(c, k)
           named == {i \in 1 .. Len(certs) :
                       /\ certs[i].subject = LastOf(chain).issuer
                       /\ \A m \in 1 .. Len(chain) : ~SameTbs(chain[m], certs[i])}
           signing == {i \in named : SignedBy(LastOf(chain), certs[i])}
<1>0. c \in Seq(Certs) /\ Len(c) \in Nat /\ k \in 1 .. Len(c) /\ k < Len(c)
  BY LenProperties DEF Selected
<1>1. /\ Len(chain) = k /\ LastOf(chain) = c[k] /\ \A i \in 1 .. k : chain[i] = c[i]
      /\ Start(c, k + 1) = Append(chain, c[k + 1])
  BY <1>0, StartFacts
<1> HIDE DEF chain
<1>2. IssuedBy(c[k], c[k + 1])
  BY DEF Selected
<1>3. ~IsSelfIssued(c[k]) /\ \A m \in 1 .. k : ~SameTbs(c[m], c[k + 1])
  <2>1. k + 1 \in 2 .. Len(c) /\ (k + 1) - 1 = k
    BY <1>0
  <2>2. \A m \in 1 .. k : ~IsSelfIssued(c[m]) /\ ~SameTbs(c[m], c[k + 1])
    BY <2>1 DEF Selected, Straight
  <2> QED BY <1>0, <2>2
<1>4. PICK i \in 1 .. Len(certs) : certs[i] = c[k]
  BY <1>0 DEF Selected, IsIn
<1>5. PICK j \in 1 .. Len(certs) : certs[j] = c[k + 1]
  <2>1. k + 1 \in 1 .. Len(c)
    BY <1>0
  <2> QED BY <2>1 DEF Selected, IsIn
<1>6. j \in signing
  BY <1>1, <1>2, <1>3, <1>5 DEF IssuedBy
<1>7. signing \in SUBSET Nat
  BY LenProperties
<1>8. Min(signing) \in signing
  <2> HIDE DEF signing
  <2> QED BY <1>6, <1>7, LeastIn
<1>9. certs[Min(signing)] = c[k + 1]
  <2>1. Min(signing) \in 1 .. Len(certs) /\ IssuedBy(certs[i], certs[Min(signing)])
    BY <1>1, <1>4, <1>8 DEF IssuedBy
  <2>2. IssuedBy(certs[i], certs[j])
    BY <1>2, <1>4, <1>5
  <2> HIDE DEF signing
  <2> QED BY <1>5, <2>1, <2>2 DEF OneIssuer
<1>10. NextLink(chain, certs) = Append(chain, certs[Min(signing)])
  <2>1. ~(IsSelfIssued(LastOf(chain)) \/ named = {}) /\ signing # {}
    BY <1>1, <1>3, <1>6
  <2> QED BY <2>1 DEF NextLink
<1> QED BY <1>1, <1>9, <1>10 DEF chain

\* Nothing but x could follow the chain, and nothing follows x.
EndsAt(c, certs, x) ==
    \/ IsSelfIssued(LastOf(c))
    \/ /\ IsSelfIssued(x)
       /\ \A j \in 1 .. Len(certs) : certs[j].subject = LastOf(c).issuer => certs[j] = x

\* What the chain may have become.
Ended(chain, c, x) ==
    chain = c \/ (~IsSelfIssued(LastOf(c)) /\ IsSelfIssued(x) /\ chain = Append(c, x))

\* A round of order_chain goes no further.
LEMMA NextStays ==
    ASSUME NEW certs \in Seq(Certs), NEW c \in Seq(Certs), NEW x, EndsAt(c, certs, x),
           NEW chain, Ended(chain, c, x)
    PROVE  Ended(NextLink(chain, certs), c, x)
<1> DEFINE named == {i \in 1 .. Len(certs) :
                       /\ certs[i].subject = LastOf(chain).issuer
                       /\ \A m \in 1 .. Len(chain) : ~SameTbs(chain[m], certs[i])}
           signing == {i \in named : SignedBy(LastOf(chain), certs[i])}
           S == IF signing # {} THEN signing ELSE named
<1>1. CASE IsSelfIssued(LastOf(chain)) \/ named = {}
  <2>1. NextLink(chain, certs) = chain
    BY <1>1 DEF NextLink
  <2> QED BY <2>1
<1>2. CASE ~(IsSelfIssued(LastOf(chain)) \/ named = {})
  <2>1. chain = c
    BY <1>2, OneMore DEF Ended
  <2>2. NextLink(chain, certs) = Append(chain, certs[Min(S)])
    BY <1>2 DEF NextLink
  <2>3. S # {} /\ S \subseteq named
    BY <1>2
  <2>4. S \in SUBSET Nat
    BY <2>3, LenProperties
  <2>5. Min(S) \in S
    <3> HIDE DEF S
    <3> QED BY <2>3, <2>4, LeastIn
  <2>6. Min(S) \in 1 .. Len(certs) /\ certs[Min(S)].subject = LastOf(chain).issuer
    BY <2>3, <2>5
  <2> HIDE DEF S
  <2>7. certs[Min(S)] = x /\ IsSelfIssued(x)
    BY <1>2, <2>1, <2>6 DEF EndsAt
  <2> QED BY <1>2, <2>1, <2>2, <2>7 DEF Ended
<1> QED BY <1>1, <1>2

\* So order_chain returns the chain, up to the anchor it ends at.
LEMMA OrderFinds ==
    ASSUME NEW certs \in Seq(Certs), OneIssuer(certs), NEW c, Selected(c, certs),
           Len(c) <= OrderRounds + 1, NEW x, EndsAt(c, certs, x)
    PROVE  Ended(OrderChain(c[1], certs), c, x)
<1>0. OrderRounds \in Nat /\ c \in Seq(Certs) /\ Len(c) \in Nat /\ Len(c) >= 1
  BY TokenAssumption, LenProperties DEF Selected
<1> DEFINE g == CHOOSE g : IsOrder(g, c[1], certs)
<1>1. IsOrder(g, c[1], certs)
  BY OrderExists
<1>2. OrderChain(c[1], certs) = g[OrderRounds]
  BY DEF OrderChain, IsOrder
<1> HIDE DEF g
<1> DEFINE X == {n \in Nat : n < Len(c) => g[n] = Start(c, n + 1)}
<1>3. 0 \in X
  <2>1. g[0] = <<c[1]>>
    BY <1>0, <1>1 DEF IsOrder
  <2>2. Start(c, 1) = <<c[1]>>
    BY DEF Start
  <2> QED BY <2>1, <2>2
<1>4. ASSUME NEW n \in Nat, n \in X PROVE n + 1 \in X
  <2> SUFFICES ASSUME n + 1 < Len(c) PROVE g[n + 1] = Start(c, (n + 1) + 1)
    OBVIOUS
  <2>0. n + 1 \in 0 .. OrderRounds /\ n + 1 # 0 /\ (n + 1) - 1 = n
    BY <1>0
  <2>1. g[n + 1] = NextLink(g[n], certs)
    BY <1>1, <2>0 DEF IsOrder
  <2>2. g[n] = Start(c, n + 1) /\ n + 1 \in 1 .. Len(c) - 1
    BY <1>0, <1>4
  <2> QED BY <2>1, <2>2, NextIsLink
<1>5. \A n \in Nat : n \in X
  <2> HIDE DEF X
  <2> QED BY <1>3, <1>4, NatSetInduction
<1>6. g[Len(c) - 1] = c
  <2>1. Len(c) - 1 \in Nat /\ Len(c) - 1 < Len(c) /\ (Len(c) - 1) + 1 = Len(c)
    BY <1>0
  <2>2. g[Len(c) - 1] = Start(c, Len(c))
    BY <1>5, <2>1
  <2> QED BY <1>0, <2>2, StartFacts
<1> DEFINE Y == {m \in Nat : (Len(c) - 1) + m <= OrderRounds => Ended(g[(Len(c) - 1) + m], c, x)}
<1>7. 0 \in Y
  BY <1>0, <1>6 DEF Ended
<1>8. ASSUME NEW m \in Nat, m \in Y PROVE m + 1 \in Y
  <2> DEFINE n == (Len(c) - 1) + m
  <2>0. n \in Nat /\ (Len(c) - 1) + (m + 1) = n + 1
    BY <1>0
  <2> SUFFICES ASSUME n + 1 <= OrderRounds PROVE Ended(g[n + 1], c, x)
    BY <2>0
  <2>1. g[n + 1] = NextLink(g[n], certs)
    BY <1>0, <1>1, <2>0 DEF IsOrder
  <2>2. Ended(g[n], c, x)
    BY <1>0, <1>8, <2>0
  <2> HIDE DEF n
  <2> QED BY <1>0, <2>1, <2>2, NextStays
<1>9. \A m \in Nat : m \in Y
  <2> HIDE DEF Y
  <2> QED BY <1>7, <1>8, NatSetInduction
<1>10. OrderRounds - (Len(c) - 1) \in Nat /\ (Len(c) - 1) + (OrderRounds - (Len(c) - 1)) = OrderRounds
  BY <1>0
<1>11. Ended(g[OrderRounds], c, x)
  <2>1. OrderRounds - (Len(c) - 1) \in Y
    BY <1>9, <1>10
  <2> QED BY <1>0, <1>10, <2>1
<1> QED BY <1>2, <1>11

\* The verifier judges what order_chain returns as it would the chain.
LEMMA OrderedVerifies ==
    ASSUME NEW certs \in Seq(Certs), NEW roots, Len(roots) \in Nat, Unambiguous(certs, roots),
           NEW c \in Seq(Certs), Len(c) \in 1 .. OrderRounds + 1, Straight(c),
           \A i \in 1 .. Len(c) : IsIn(c[i], certs),
           NEW time, NEW frac, NEW role, Verifiable(c, roots, time, frac, role)
    PROVE  Verifiable(OrderChain(c[1], certs), roots, time, frac, role)
<1> DEFINE result == OrderChain(c[1], certs)
<1>0. OrderRounds \in Nat /\ Len(c) \in Nat /\ Len(c) >= 1 /\ Len(c) <= OrderRounds + 1
  BY TokenAssumption, LenProperties
<1>1. OneIssuer(certs)
  BY DEF Unambiguous, OneIssuer, IssuedBy
<1>2. IsIn(LastOf(c), certs)
  BY <1>0 DEF LastOf
<1>3. CASE IsSelfIssued(LastOf(c)) /\ IsIn(LastOf(c), roots)
  <2>1. IsPath(c, roots, time, frac, role)
    BY <1>3 DEF Verifiable
  <2>2. Selected(c, certs)
    BY <1>0, <2>1 DEF Selected, IsPath, IssuedBy
  <2>3. Ended(result, c, LastOf(c))
    BY <1>0, <1>1, <1>3, <2>2, OrderFinds DEF EndsAt
  <2>4. result = c
    BY <1>3, <2>3 DEF Ended
  <2> QED BY <2>4
<1>4. CASE ~(IsSelfIssued(LastOf(c)) /\ IsIn(LastOf(c), roots))
  <2>1. PICK k \in 1 .. Len(roots) : IsPath(Append(c, roots[k]), roots, time, frac, role)
    BY <1>4 DEF Verifiable
  <2> DEFINE r == roots[k]
             p == Append(c, r)
  <2>2. /\ Len(p) = Len(c) + 1 /\ p # <<>> /\ p[Len(c) + 1] = r /\ LastOf(p) = r
        /\ \A i \in 1 .. Len(c) : p[i] = c[i]
    BY OneMore
  <2> HIDE DEF p
  <2>3. IsPath(p, roots, time, frac, role)
    BY <2>1 DEF p
  <2>4. ASSUME NEW i \in 1 .. Len(c) PROVE IssuedBy(p[i], p[i + 1])
    <3>1. i \in 1 .. Len(p) - 1
      BY <1>0, <2>2
    <3> QED BY <2>3, <3>1 DEF IsPath, IssuedBy
  <2>5. Selected(c, certs)
    <3>1. ASSUME NEW i \in 1 .. Len(c) - 1 PROVE IssuedBy(c[i], c[i + 1])
      <4>1. i \in 1 .. Len(c) /\ i + 1 \in 1 .. Len(c)
        BY <1>0
      <4>2. p[i] = c[i] /\ p[i + 1] = c[i + 1]
        BY <2>2, <4>1
      <4> QED BY <2>4, <4>1, <4>2
    <3> QED BY <1>0, <3>1 DEF Selected
  <2>6. IssuedBy(LastOf(c), r)
    <3>1. Len(c) \in 1 .. Len(c)
      BY <1>0
    <3>2. p[Len(c)] = LastOf(c)
      BY <2>2, <3>1 DEF LastOf
    <3> QED BY <2>2, <2>4, <3>1, <3>2
  <2>7. IssuedBy(r, r)
    BY DEF Unambiguous, IssuedBy
  <2>8. IsSelfIssued(r) /\ SignedBy(r, r)
    BY <2>7 DEF IssuedBy, IsSelfIssued
  <2>9. \A j \in 1 .. Len(certs) : certs[j].subject = LastOf(c).issuer => certs[j] = r
    <3> SUFFICES ASSUME NEW j \in 1 .. Len(certs), certs[j].subject = LastOf(c).issuer
                 PROVE  certs[j] = r
      OBVIOUS
    <3>1. PICK i \in 1 .. Len(certs) : certs[i] = LastOf(c)
      BY <1>2 DEF IsIn
    <3>2. /\ certs[i].issuer = r.subject /\ SignedBy(certs[i], r)
          /\ certs[j].subject = r.subject
      BY <2>6, <3>1 DEF IssuedBy
    <3> QED BY <3>2 DEF Unambiguous
  <2>10. Ended(result, c, r)
    BY <1>0, <1>1, <2>5, <2>8, <2>9, OrderFinds DEF EndsAt
  <2>11. CASE result = c
    BY <2>11
  <2>12. CASE result = p
    <3>1. IsIn(r, roots)
      BY DEF IsIn
    <3>2. Verifiable(p, roots, time, frac, role)
      BY <2>2, <2>3, <2>8, <3>1 DEF Verifiable
    <3> QED BY <2>12, <3>2
  <2> QED BY <2>10, <2>11, <2>12 DEF Ended, p
<1> QED BY <1>3, <1>4

\* A token with other certificates is as its maker makes it with these.
LEMMA Recertified ==
    ASSUME NEW s, NEW info, NEW certs, NEW b
    PROVE  IsMade([Token(s, info, certs) EXCEPT !.certs = b], s, info, b)
<1> DEFINE x == Token(s, info, certs)
           y == [x EXCEPT !.certs = b]
<1>1. IsMade(x, s, info, certs)
  BY TokenFields
<1>2. DOMAIN x = {"content", "info", "signerInfos", "attrs", "unsigned", "sid", "digest", "alg",
                  "params", "sig", "certs"}
  BY DEF Token
<1> HIDE DEF x
<1>3. /\ y.content = x.content /\ y.info = x.info /\ y.signerInfos = x.signerInfos
      /\ y.attrs = x.attrs /\ y.unsigned = x.unsigned /\ y.sid = x.sid
      /\ y.digest = x.digest /\ y.alg = x.alg /\ y.params = x.params /\ y.sig = x.sig
      /\ y.certs = b
  BY <1>2
<1> HIDE DEF y
<1>4. IsMade(y, s, info, b)
  BY <1>1, <1>3 DEF IsMade
<1> QED BY <1>4 DEF x, y

\* A token of an authority with other certificates around it.
LEMMA GenuineFollows == Inv => GenuineVerifies
<1> SUFFICES ASSUME Inv, NEW u \in issued, NEW b \in Bundles, NEW v \in Verifications
             PROVE  LET t == [u.token EXCEPT !.certs = b]
                        certs == Embedded(t, v.extra)
                        when == IF v.when = NoTime THEN t.info.genTime ELSE v.when
                        frac == v.when = NoTime /\ HasFraction(t.info)
                    IN  \/ VerifyTimestampToken(t, Hash, t.info.alg, NoNonce, v.roots, v.when,
                                                v.extra)
                        \/ ~IsIn(u.tsa.cert, certs) \/ ~Unambiguous(certs, v.roots)
                        \/ \A n \in 0 .. OrderRounds : \A s \in [1 .. n -> 1 .. Len(certs)] :
                             LET c == <<u.tsa.cert>> \o [k \in 1 .. n |-> certs[s[k]]] IN
                             ~(Straight(c)
                               /\ Verifiable(c, v.roots, when, frac, "TimestampSigner"))
  BY DEF GenuineVerifies
<1> DEFINE t == [u.token EXCEPT !.certs = b]
           certs == Embedded(t, v.extra)
           when == IF v.when = NoTime THEN t.info.genTime ELSE v.when
           frac == v.when = NoTime /\ HasFraction(t.info)
           a == u.tsa
<1> SUFFICES ASSUME IsIn(a.cert, certs), Unambiguous(certs, v.roots),
                    NEW n \in 0 .. OrderRounds, NEW s \in [1 .. n -> 1 .. Len(certs)],
                    Straight(<<a.cert>> \o [k \in 1 .. n |-> certs[s[k]]]),
                    Verifiable(<<a.cert>> \o [k \in 1 .. n |-> certs[s[k]]],
                               v.roots, when, frac, "TimestampSigner")
             PROVE  VerifyTimestampToken(t, Hash, t.info.alg, NoNonce, v.roots, v.when, v.extra)
  OBVIOUS
<1>1. PICK q \in Attempts \cup Others, tsa \in Tsas, time \in 0 .. MaxTime,
           fraction \in {"none", "positive"} :
             /\ ValidAt(tsa.cert, time, fraction = "positive")
             /\ u = Issued(q, tsa, time, fraction)
  BY DEF Inv, IssuedInv, IsIssued
<1> DEFINE info == InfoFor(q, tsa, time, fraction)
<1>2. a = tsa /\ IsMade(u.token, tsa, info, CertsFor(q, tsa))
  BY <1>1, IssuedParts
<1>3. IsMade(t, tsa, info, b)
  <2>1. u.token = Token(tsa, info, CertsFor(q, tsa))
    BY <1>1 DEF Issued
  <2> HIDE DEF info
  <2> QED BY <2>1, Recertified
<1>4. b \in Seq(Certs) /\ v.extra \in Seq(Certs) /\ Len(v.roots) \in Nat /\ a.cert \in Certs
  BY <1>2, WorldAssumption
<1>5. t.certs = b /\ t.info = info
  <2> HIDE DEF t, info
  <2> QED BY <1>3 DEF IsMade
<1> HIDE DEF t, info
<1>6. certs \in Seq(Certs)
  BY <1>4, <1>5, EmbeddedFacts DEF Gathered
<1>7. VerifyTokenCms(t, v.extra) /\ SignerOf(t, certs) = a.cert
  BY <1>1, <1>2, <1>3, <1>4, HonestVerifies DEF info
<1>8. CheckTstInfoMatches(t.info, Hash, NoNonce, t.info.alg)
  <2>1. CheckTstInfoMatches(info, Hash, q, ClientOf(q).digest_algorithm)
    BY <1>1, ProperInfo DEF info
  <2> QED BY <1>5, <2>1 DEF CheckTstInfoMatches
<1> HIDE DEF certs, when, frac, a
<1> DEFINE rest == [k \in 1 .. n |-> certs[s[k]]]
           c == <<a.cert>> \o rest
<1>9. /\ OrderRounds \in Nat /\ n \in Nat
      /\ rest \in Seq(Certs) /\ Len(rest) = n /\ \A k \in 1 .. n : IsIn(rest[k], certs)
  <2>1. OrderRounds \in Nat /\ n \in Nat
    BY TokenAssumption
  <2>2. \A k \in 1 .. n : s[k] \in 1 .. Len(certs)
    OBVIOUS
  <2>3. \A k \in 1 .. n : certs[s[k]] \in Certs
    BY <1>6, <2>2, ElementOfSeq
  <2>4. rest \in Seq(Certs) /\ Len(rest) = n
    BY <2>1, <2>3
  <2> QED BY <2>1, <2>2, <2>4 DEF IsIn
<1>10. Straight(c) /\ Verifiable(c, v.roots, when, frac, "TimestampSigner")
  BY DEF a
<1> HIDE DEF rest
<1>11. <<a.cert>> \in Seq(Certs) /\ Len(<<a.cert>>) = 1 /\ <<a.cert>>[1] = a.cert
  BY <1>4
<1>12. /\ c \in Seq(Certs) /\ Len(c) = 1 + n
       /\ \A k \in 1 .. 1 + n : c[k] = IF k <= 1 THEN a.cert ELSE rest[k - 1]
  <2> DEFINE one == <<a.cert>>
  <2> HIDE DEF one
  <2>1. /\ one \o rest \in Seq(Certs) /\ Len(one \o rest) = Len(one) + Len(rest)
        /\ \A k \in 1 .. Len(one) + Len(rest) :
             (one \o rest)[k] = IF k <= Len(one) THEN one[k] ELSE rest[k - Len(one)]
    BY <1>9, <1>11, ConcatProperties DEF one
  <2>2. \A k \in 1 .. 1 + n : k <= 1 => k = 1
    BY <1>9
  <2> QED BY <1>9, <1>11, <2>1, <2>2 DEF one
<1> HIDE DEF c
<1>13. c[1] = a.cert /\ Len(c) \in 1 .. OrderRounds + 1
  BY <1>9, <1>12
<1>14. ASSUME NEW i \in 1 .. Len(c) PROVE IsIn(c[i], certs)
  <2>1. CASE i = 1
    BY <1>13, <2>1
  <2>2. CASE i # 1
    <3>1. i - 1 \in 1 .. n /\ c[i] = rest[i - 1]
      BY <1>9, <1>12, <2>2
    <3> QED BY <1>9, <3>1
  <2> QED BY <2>1, <2>2
<1>15. Verifiable(OrderChain(a.cert, certs), v.roots, when, frac, "TimestampSigner")
  BY <1>4, <1>6, <1>10, <1>12, <1>13, <1>14, OrderedVerifies
<1> QED BY <1>7, <1>8, <1>15 DEF VerifyTimestampToken, certs, when, frac

\* Every genuine token that comes with a straight valid chain, among
\* certificates in which no issuer is ambiguous, verifies, whatever order they
\* come in (token.rs, order_chain).
THEOREM EveryGenuineVerifies == Spec => []GenuineVerifies
  BY Invariance, GenuineFollows, PTL
=============================================================================
