------------------------ MODULE AnchorLoadingProofs -------------------------
(* Theorems about AnchorLoading, for every directory, however its files are *)
(* edited, and every set of certificates.                                   *)
EXTENDS AnchorLoading, FiniteSetTheorems, SequenceTheorems, TLAPS

-----------------------------------------------------------------------------
(* Induction over numbers, and the numbers it finds.                       *)

\* A set of numbers with 0 and all successors has every number.
LEMMA NatSetInduction ==
    ASSUME NEW X, 0 \in X, \A n \in Nat : n \in X => n + 1 \in X
    PROVE  \A n \in Nat : n \in X
<1> SUFFICES ASSUME NEW n \in Nat, n \notin X PROVE FALSE
  OBVIOUS
<1> DEFINE T == {S \in SUBSET (0 .. n) : \E k \in 0 .. n : S = 0 .. k /\ k \notin X}
<1>1. IsFiniteSet(0 .. n)
  BY FS_Interval
<1>2. 0 .. n \in T
  OBVIOUS
<1>3. PICK S \in T : \A U \in T : ~(<<U, S>> \in StrictSubsetOrdering(0 .. n))
  <2> DEFINE R == StrictSubsetOrdering(0 .. n)
             F == SUBSET (0 .. n)
  <2>1. IsWellFoundedOn(R, F)
    BY <1>1, FS_StrictSubsetOrderingWellFounded, FS_FiniteSubsetsOfFinite
  <2>2. T \subseteq F /\ T # {}
    BY <1>2
  <2> HIDE DEF T, R, F
  <2>3. \E x \in T : \A y \in T : ~(<<y, x>> \in R)
    BY <2>1, <2>2, WFMin
  <2> QED BY <2>3 DEF R
<1>4. PICK k \in 0 .. n : S = 0 .. k /\ k \notin X
  OBVIOUS
<1>5. k # 0 /\ k - 1 \notin X
  BY <1>4
<1>6. 0 .. (k - 1) \in T
  BY <1>5
<1>7. <<0 .. (k - 1), 0 .. k>> \in StrictSubsetOrdering(0 .. n)
  BY <1>5 DEF StrictSubsetOrdering
<1> QED BY <1>3, <1>4, <1>6, <1>7

\* A set of numbers has a least one.
LEMMA LeastIn ==
    ASSUME NEW S \in SUBSET Nat, S # {}
    PROVE  Min(S) \in S /\ \A y \in S : Min(S) <= y
<1> DEFINE X == {n \in Nat : (\E y \in S : y <= n) => \E x \in S : \A y \in S : x <= y}
<1>1. 0 \in X
  OBVIOUS
<1>2. ASSUME NEW n \in Nat, n \in X PROVE n + 1 \in X
  <2> SUFFICES ASSUME NEW z \in S, z <= n + 1 PROVE \E x \in S : \A y \in S : x <= y
    OBVIOUS
  <2>1. CASE \E y \in S : y <= n
    BY <1>2, <2>1
  <2>2. CASE ~\E y \in S : y <= n
    <3>1. \A y \in S : z <= y
      BY <2>2
    <3> QED BY <3>1
  <2> QED BY <2>1, <2>2
<1>3. \A n \in Nat : n \in X
  <2> HIDE DEF X
  <2> QED BY <1>1, <1>2, NatSetInduction
<1>4. PICK z \in S : TRUE
  OBVIOUS
<1>5. z \in X /\ z <= z
  BY <1>3
<1>6. \E x \in S : \A y \in S : x <= y
  BY <1>5
<1> QED BY <1>6 DEF Min

-----------------------------------------------------------------------------
(* Only.                                                                   *)

\* One round of the loop.
KeepOne(before, x, S) == IF x \in S THEN Append(before, x) ELSE before

\* The function that Only chooses for its rounds.
IsKept(g, s, S) ==
    g = [n \in 0 .. Len(s) |-> IF n = 0 THEN <<>> ELSE KeepOne(g[n - 1], s[n], S)]

\* There is one.
LEMMA KeptExists ==
    ASSUME NEW s, Len(s) \in Nat, NEW S
    PROVE  \E g : IsKept(g, s, S)
<1> DEFINE D == 0 .. Len(s)
           val(h, n) == IF n = 0 THEN <<>> ELSE KeepOne(h[n - 1], s[n], S)
           X == {m \in Nat : \E h : h = [n \in D |-> h[n]]
                                  /\ \A n \in D : n <= m => h[n] = val(h, n)}
<1>1. 0 \in X
  <2> DEFINE h == [n \in D |-> <<>>]
  <2>1. h = [n \in D |-> h[n]] /\ \A n \in D : n <= 0 => h[n] = val(h, n)
    OBVIOUS
  <2> HIDE DEF h, val
  <2> QED BY <2>1
<1>2. ASSUME NEW m \in Nat, m \in X PROVE m + 1 \in X
  <2>1. PICK h : h = [n \in D |-> h[n]] /\ \A n \in D : n <= m => h[n] = val(h, n)
    BY <1>2
  <2> DEFINE g == [n \in D |-> val(h, n)]
  <2>2. \A n \in D : n <= m => g[n] = h[n]
    BY <2>1
  <2>3. ASSUME NEW n \in D, n <= m + 1 PROVE g[n] = val(g, n)
    <3>1. CASE n = 0
      BY <3>1
    <3>2. CASE n # 0
      <4>1. n - 1 \in D /\ n - 1 <= m
        BY <2>3, <3>2
      <4>2. g[n - 1] = h[n - 1]
        BY <2>2, <4>1
      <4>3. g[n] = KeepOne(h[n - 1], s[n], S)
        BY <3>2
      <4> HIDE DEF g
      <4> QED BY <3>2, <4>2, <4>3
    <3> QED BY <3>1, <3>2
  <2>4. g = [n \in D |-> g[n]]
    OBVIOUS
  <2> HIDE DEF g, val, D
  <2>5. g = [n \in D |-> g[n]] /\ \A n \in D : n <= m + 1 => g[n] = val(g, n)
    BY <2>3, <2>4
  <2>6. \E k : k = [n \in D |-> k[n]] /\ \A n \in D : n <= m + 1 => k[n] = val(k, n)
    BY <2>5
  <2> QED BY <2>6
<1>3. \A m \in Nat : m \in X
  <2> HIDE DEF X
  <2> QED BY <1>1, <1>2, NatSetInduction
<1>4. PICK h : h = [n \in D |-> h[n]] /\ \A n \in D : n <= Len(s) => h[n] = val(h, n)
  BY <1>3
<1>5. h = [n \in D |-> val(h, n)]
  <2> HIDE DEF val
  <2>1. \A n \in D : h[n] = val(h, n)
    BY <1>4
  <2> QED BY <1>4, <2>1
<1> QED BY <1>5 DEF IsKept

\* What is kept of the first n elements: those that are in S.
KeptOf(k, n, s, S) ==
    /\ k \in Seq(S)
    /\ \A i \in 1 .. n : s[i] \in S => IsIn(s[i], k)
    /\ \A x : IsIn(x, k) => \E i \in 1 .. n : s[i] = x

\* One round keeps that.
LEMMA KeepOneKeeps ==
    ASSUME NEW s, NEW S, NEW n \in Nat, NEW k, KeptOf(k, n, s, S)
    PROVE  KeptOf(KeepOne(k, s[n + 1], S), n + 1, s, S)
<1> DEFINE x == s[n + 1]
           t == KeepOne(k, x, S)
<1>0. k \in Seq(S) /\ Len(k) \in Nat
  BY LenProperties DEF KeptOf
<1>1. /\ t \in Seq(S)
      /\ x \in S => IsIn(x, t)
      /\ \A y : IsIn(y, k) => IsIn(y, t)
      /\ \A y : IsIn(y, t) => IsIn(y, k) \/ y = x
  <2>1. CASE x \in S
    <3>1. t = Append(k, x)
      BY <2>1 DEF KeepOne
    <3>2. t \in Seq(S) /\ Len(t) = Len(k) + 1 /\ t[Len(k) + 1] = x
          /\ \A i \in 1 .. Len(k) : t[i] = k[i]
      BY <1>0, <2>1, <3>1, AppendProperties
    <3> HIDE DEF t, x
    <3> QED BY <1>0, <3>2 DEF IsIn
  <2>2. CASE x \notin S
    BY <1>0, <2>2 DEF KeepOne
  <2> QED BY <2>1, <2>2
<1>2. \A i \in 1 .. n + 1 : i \in 1 .. n \/ i = n + 1
  OBVIOUS
<1>3. n + 1 \in 1 .. n + 1 /\ \A i \in 1 .. n : i \in 1 .. n + 1
  OBVIOUS
<1>4. ASSUME NEW i \in 1 .. n + 1, s[i] \in S PROVE IsIn(s[i], t)
  <2> HIDE DEF t
  <2> QED BY <1>1, <1>2, <1>4 DEF KeptOf
<1>5. ASSUME NEW y, IsIn(y, t) PROVE \E i \in 1 .. n + 1 : s[i] = y
  <2> HIDE DEF t
  <2> QED BY <1>1, <1>3, <1>5 DEF KeptOf
<1> HIDE DEF t
<1>6. KeptOf(t, n + 1, s, S)
  BY <1>1, <1>4, <1>5 DEF KeptOf
<1> QED BY <1>6 DEF t

\* Only keeps the elements that are in S, and no others.
LEMMA OnlyFacts ==
    ASSUME NEW s, Len(s) \in Nat, NEW S
    PROVE  KeptOf(Only(s, S), Len(s), s, S)
<1> DEFINE g == CHOOSE g : IsKept(g, s, S)
<1>1. IsKept(g, s, S)
  BY KeptExists
<1>2. Only(s, S) = g[Len(s)]
  BY DEF Only, IsKept, KeepOne
<1> HIDE DEF g
<1> DEFINE X == {n \in Nat : n <= Len(s) => KeptOf(g[n], n, s, S)}
<1>3. 0 \in X
  <2>1. g[0] = <<>>
    BY <1>1 DEF IsKept
  <2>2. KeptOf(<<>>, 0, s, S)
    BY DEF KeptOf, IsIn
  <2> QED BY <2>1, <2>2
<1>4. ASSUME NEW n \in Nat, n \in X PROVE n + 1 \in X
  <2> SUFFICES ASSUME n + 1 <= Len(s) PROVE KeptOf(g[n + 1], n + 1, s, S)
    OBVIOUS
  <2>1. g[n + 1] = KeepOne(g[n], s[n + 1], S)
    BY <1>1 DEF IsKept
  <2>2. KeptOf(g[n], n, s, S)
    BY <1>4
  <2> QED BY <2>1, <2>2, KeepOneKeeps
<1>5. \A n \in Nat : n \in X
  <2> HIDE DEF X
  <2> QED BY <1>3, <1>4, NatSetInduction
<1> QED BY <1>2, <1>5

-----------------------------------------------------------------------------
(* One file.                                                               *)

\* The certificates of the positions chosen.
LEMMA CertsOfFacts ==
    ASSUME NEW blocks \in Seq(PemBlock), NEW S \in SUBSET (1 .. Len(blocks))
    PROVE  /\ CertsOf(blocks, S) \in Seq(Certs)
           /\ \A i \in S : IsIn(blocks[i].cert, CertsOf(blocks, S))
<1> DEFINE all == [i \in 1 .. Len(blocks) |-> i]
           at == Only(all, S)
           certs == [k \in 1 .. Len(at) |-> blocks[at[k]].cert]
<1>0. Len(blocks) \in Nat /\ \A i \in 1 .. Len(blocks) : blocks[i] \in PemBlock
  BY LenProperties, ElementOfSeq
<1>1. all \in Seq(Nat) /\ Len(all) = Len(blocks)
  BY <1>0
<1>2. KeptOf(at, Len(all), all, S)
  BY <1>0, <1>1, OnlyFacts
<1>3. CertsOf(blocks, S) = certs
  BY DEF CertsOf
<1> HIDE DEF at
<1>4. at \in Seq(S) /\ Len(at) \in Nat
  BY <1>2, LenProperties DEF KeptOf
<1>5. \A k \in 1 .. Len(at) : at[k] \in S
  BY <1>4, ElementOfSeq
<1>6. \A k \in 1 .. Len(at) : blocks[at[k]].cert \in Certs
  BY <1>0, <1>5 DEF PemBlock
<1>7. certs \in Seq(Certs) /\ Len(certs) = Len(at)
  BY <1>4, <1>6
<1>8. ASSUME NEW i \in S PROVE IsIn(blocks[i].cert, certs)
  <2>1. i \in 1 .. Len(all) /\ all[i] = i
    BY <1>1
  <2>2. IsIn(i, at)
    BY <1>2, <2>1 DEF KeptOf
  <2>3. PICK k \in 1 .. Len(at) : at[k] = i
    BY <2>2 DEF IsIn
  <2>4. certs[k] = blocks[i].cert
    BY <2>3
  <2> QED BY <1>7, <2>3, <2>4 DEF IsIn
<1> QED BY <1>3, <1>7, <1>8

\* add_pem_data adds certificates, and all that end when it succeeds.
LEMMA PemFacts ==
    ASSUME NEW b, b.blocks \in Seq(PemBlock),
           \A i \in 1 .. Len(b.blocks) - 1 : b.blocks[i].what # "cut"
    PROVE  /\ AddPemData(b).added \in Seq(Certs)
           /\ AddPemData(b).ok => EndedBlocksIn(b, AddPemData(b).added)
<1> DEFINE bs == b.blocks
           found == {i \in 1 .. Len(bs) : b.form # "der" /\ bs[i].what # "other"}
           bad == {i \in found : bs[i].what # "certificate"}
           good == {i \in found : bad # {} => i < Min(bad)}
<1>0. Len(bs) \in Nat /\ \A i \in 1 .. Len(bs) : bs[i] \in PemBlock
  BY LenProperties, ElementOfSeq
<1>1. /\ AddPemData(b).added = CertsOf(bs, good)
      /\ AddPemData(b).ok <=> good # {} /\ (bad # {} => bs[Min(bad)].what = "cut")
  BY DEF AddPemData
<1>2. good \in SUBSET (1 .. Len(bs)) /\ bad \in SUBSET Nat
  BY <1>0
<1>3. /\ CertsOf(bs, good) \in Seq(Certs)
      /\ \A i \in good : IsIn(bs[i].cert, CertsOf(bs, good))
  <2> HIDE DEF good
  <2> QED BY <1>2, CertsOfFacts
<1>4. ASSUME AddPemData(b).ok PROVE EndedBlocksIn(b, CertsOf(bs, good))
  <2>0. good # {} /\ (bad # {} => bs[Min(bad)].what = "cut")
    BY <1>1, <1>4
  <2>1. b.form # "der"
    BY <2>0
  <2>2. ASSUME bad # {} PROVE bad = {Len(bs)} /\ Min(bad) = Len(bs) /\ bs[Len(bs)].what = "cut"
    <3>1. Min(bad) \in bad /\ \A i \in bad : Min(bad) <= i
      BY <1>2, <2>2, LeastIn
    <3>2. Min(bad) \in 1 .. Len(bs) /\ bs[Min(bad)].what = "cut"
      BY <2>0, <2>2, <3>1
    <3>3. Min(bad) = Len(bs)
      <4>1. ASSUME NEW m \in 1 .. Len(bs), bs[m].what = "cut" PROVE m = Len(bs)
        BY <1>0, <4>1
      <4> QED BY <3>2, <4>1
    <3>4. \A i \in bad : i \in 1 .. Len(bs) /\ Len(bs) <= i
      BY <3>1, <3>3
    <3>5. \A i \in bad : i = Len(bs)
      BY <1>0, <3>4
    <3> HIDE DEF bad
    <3> QED BY <2>2, <3>2, <3>3, <3>5
  <2>3. ASSUME NEW i \in 1 .. Len(bs), bs[i].what = "corrupt" PROVE FALSE
    <3>1. i \in bad
      BY <2>1, <2>3
    <3>2. bs[i].what = "cut"
      BY <2>2, <3>1
    <3> QED BY <2>3, <3>2
  <2>4. ASSUME NEW i \in 1 .. Len(bs), bs[i].what = "certificate" PROVE i \in good
    <3>1. i \in found
      BY <2>1, <2>4
    <3>2. bad # {} => i < Min(bad)
      <4> SUFFICES ASSUME bad # {} PROVE i < Len(bs)
        BY <2>2
      <4>1. i # Len(bs)
        BY <2>2, <2>4
      <4> QED BY <1>0, <4>1
    <3> QED BY <3>1, <3>2
  <2> HIDE DEF good, bad, found
  <2> QED BY <1>3, <2>3, <2>4 DEF EndedBlocksIn
<1> HIDE DEF good
<1> QED BY <1>1, <1>3, <1>4

\* So does add_anchor_file_data.
LEMMA AnchorFileFacts ==
    ASSUME NEW b, b.blocks \in Seq(PemBlock),
           \A i \in 1 .. Len(b.blocks) - 1 : b.blocks[i].what # "cut"
    PROVE  /\ AddAnchorFileData(b).added \in Seq(Certs)
           /\ AddAnchorFileData(b).ok => EndedBlocksIn(b, AddAnchorFileData(b).added)
<1>1. CASE b.form = "pem"
  BY <1>1, PemFacts DEF AddAnchorFileData
<1>2. CASE b.form # "pem"
  <2> DEFINE ok == b.form = "der" /\ Len(b.blocks) = 1 /\ b.blocks[1].what = "certificate"
             r == AddAnchorFileData(b)
  <2>1. r.added = (IF ok THEN <<b.blocks[1].cert>> ELSE <<>>) /\ (r.ok <=> ok)
    BY <1>2 DEF AddAnchorFileData, AddDerCertificate
  <2> HIDE DEF r
  <2>2. CASE ok
    <3>0. 1 \in 1 .. Len(b.blocks)
      BY <2>2
    <3>1. b.blocks[1] \in PemBlock
      BY <3>0, ElementOfSeq
    <3>2. b.blocks[1].cert \in Certs
      BY <3>1 DEF PemBlock
    <3>3. r.added = <<b.blocks[1].cert>>
      BY <2>1, <2>2
    <3>4. \A i \in 1 .. Len(b.blocks) : i = 1
      BY <2>2
    <3>5. IsIn(b.blocks[1].cert, r.added)
      BY <3>3 DEF IsIn
    <3>6. EndedBlocksIn(b, r.added)
      BY <2>2, <3>4, <3>5 DEF EndedBlocksIn
    <3>7. r.added \in Seq(Certs)
      BY <3>2, <3>3
    <3> QED BY <3>6, <3>7 DEF r
  <2>3. CASE ~ok
    <3>1. r.added = <<>> /\ ~r.ok
      BY <2>1, <2>3
    <3> QED BY <3>1 DEF r
  <2> QED BY <2>2, <2>3
<1> QED BY <1>1, <1>2

-----------------------------------------------------------------------------
(* The inductive invariant.                                                *)

\* What the variables hold.
TypeInv ==
    /\ dir = [f \in FileNames |-> dir[f]] /\ \A f \in FileNames : IsFile(dir[f])
    /\ stores = [k \in StoreKind |-> stores[k]]
    /\ \A k \in StoreKind : stores[k] = NoStore \/ stores[k] \in Seq(Certs)

\* A load of a directory that has not failed.
Underway == load.mode \in {"strict", "lenient"} /\ (Busy \/ load.ok)

\* What it consists of.
LoadTyped ==
    /\ load = [mode |-> load.mode, kind |-> load.kind, ok |-> load.ok, at |-> load.at,
               entries |-> load.entries, store |-> load.store, skipped |-> load.skipped,
               listing |-> load.listing, hidden |-> load.hidden, read |-> load.read]
    /\ load.kind \in StoreKind
    /\ load.entries \in Seq(FileNames) /\ load.store \in Seq(Certs)

\* A file whose entry could not be listed, and the directory is reported.
Unlisted(f) == f \in load.hidden /\ "directory" \in load.skipped

\* What a strict load has seen is taken, and the rest is still to come.
StrictSoFar ==
    \A f \in load.listing : IsIn(f, load.entries) \/ Taken(f) \/ ~IsCandidate(f)

\* What a lenient load has seen is accounted for, and the rest is still to come.
LenientSoFar ==
    \A f \in load.listing :
        \/ IsIn(f, load.entries) \/ Taken(f)
        \/ f \in load.skipped \/ Unlisted(f) \/ ~IsCandidate(f)

\* A load that is under way, and one that has succeeded.
LoadInv ==
    Underway =>
        /\ LoadTyped
        /\ load.ok => load.entries = <<>>
        /\ load.mode = "strict" => StrictSoFar
        /\ load.mode = "lenient" => LenientSoFar

\* Only a directory is read step by step.
ModeInv == Busy => load.mode \in {"strict", "lenient"} /\ ~load.ok

\* A directory load is consistent with what it has read, and alone takes steps.
Inv == TypeInv /\ LoadInv /\ ModeInv

\* It holds of the empty set of stores.
LEMMA InitInv == Init => Inv
<1> SUFFICES ASSUME Init PROVE Inv
  OBVIOUS
<1>1. TypeInv
  BY FilesAssumption DEF Init, TypeInv
<1>2. LoadInv /\ ModeInv
  BY DEF Init, LoadInv, ModeInv, Underway, Busy
<1> QED BY <1>1, <1>2 DEF Inv

\* What reading a file gives.
LEMMA FileResultFacts ==
    ASSUME TypeInv, NEW f \in FileNames
    PROVE  /\ FileResult(f).added \in Seq(Certs)
           /\ FileResult(f).ok =>
                /\ dir[f] # Missing /\ dir[f].readable
                /\ EndedBlocksIn(dir[f].bytes, FileResult(f).added)
<1>1. CASE dir[f] # Missing /\ dir[f].readable
  <2> DEFINE b == dir[f].bytes
  <2>1. /\ b.blocks \in Seq(PemBlock)
        /\ \A i \in 1 .. Len(b.blocks) - 1 : b.blocks[i].what # "cut"
    BY <1>1 DEF TypeInv, IsFile
  <2>2. FileResult(f) = AddAnchorFileData(b)
    BY <1>1 DEF FileResult
  <2> HIDE DEF b
  <2>3. /\ AddAnchorFileData(b).added \in Seq(Certs)
        /\ AddAnchorFileData(b).ok => EndedBlocksIn(b, AddAnchorFileData(b).added)
    BY <2>1, AnchorFileFacts
  <2> QED BY <1>1, <2>2, <2>3 DEF b
<1>2. CASE ~(dir[f] # Missing /\ dir[f].readable)
  BY <1>2 DEF FileResult
<1> QED BY <1>1, <1>2

\* A longer store has all that the shorter one had.
LEMMA LongerStore ==
    ASSUME NEW s \in Seq(Certs), NEW t \in Seq(Certs)
    PROVE  /\ s \o t \in Seq(Certs) /\ Len(s \o t) = Len(s) + Len(t)
           /\ \A i \in 1 .. Len(s) : (s \o t)[i] = s[i]
           /\ \A x : IsIn(x, s \o t) <=> IsIn(x, s) \/ IsIn(x, t)
<1> DEFINE u == s \o t
<1>1. /\ Len(s) \in Nat /\ Len(t) \in Nat /\ u \in Seq(Certs)
      /\ Len(u) = Len(s) + Len(t)
      /\ \A k \in 1 .. Len(s) + Len(t) : u[k] = IF k <= Len(s) THEN s[k] ELSE t[k - Len(s)]
  BY ConcatProperties, LenProperties
<1> HIDE DEF u
<1>2. \A i \in 1 .. Len(s) : u[i] = s[i]
  BY <1>1
<1>3. \A i \in 1 .. Len(t) : u[Len(s) + i] = t[i] /\ Len(s) + i \in 1 .. Len(u)
  BY <1>1
<1>4. \A k \in 1 .. Len(u) :
         (\E i \in 1 .. Len(s) : u[k] = s[i]) \/ (\E i \in 1 .. Len(t) : u[k] = t[i])
  <2> SUFFICES ASSUME NEW k \in 1 .. Len(u)
               PROVE  (\E i \in 1 .. Len(s) : u[k] = s[i]) \/ (\E i \in 1 .. Len(t) : u[k] = t[i])
    OBVIOUS
  <2>1. CASE k <= Len(s)
    BY <1>1, <2>1
  <2>2. CASE ~(k <= Len(s))
    <3>1. k - Len(s) \in 1 .. Len(t) /\ u[k] = t[k - Len(s)]
      BY <1>1, <2>2
    <3> QED BY <3>1
  <2> QED BY <2>1, <2>2
<1>5. \A i \in 1 .. Len(s) : i \in 1 .. Len(u)
  BY <1>1
<1>6. ASSUME NEW x PROVE IsIn(x, u) <=> IsIn(x, s) \/ IsIn(x, t)
  <2>1. IsIn(x, u) => IsIn(x, s) \/ IsIn(x, t)
    BY <1>4 DEF IsIn
  <2>2. IsIn(x, s) => IsIn(x, u)
    BY <1>2, <1>5 DEF IsIn
  <2>3. IsIn(x, t) => IsIn(x, u)
    BY <1>3 DEF IsIn
  <2> QED BY <2>1, <2>2, <2>3
<1> QED BY <1>1, <1>2, <1>6 DEF u

\* A list loses its head at most.
LEMMA TailFacts ==
    ASSUME NEW s \in Seq(FileNames), s # <<>>
    PROVE  /\ Head(s) \in FileNames /\ Tail(s) \in Seq(FileNames)
           /\ \A x : IsIn(x, s) => x = Head(s) \/ IsIn(x, Tail(s))
<1>1. /\ Head(s) \in FileNames /\ Tail(s) \in Seq(FileNames) /\ Len(s) \in Nat /\ Len(s) >= 1
      /\ Len(Tail(s)) = Len(s) - 1 /\ s[1] = Head(s)
      /\ \A i \in 1 .. Len(Tail(s)) : Tail(s)[i] = s[i + 1]
  BY HeadTailProperties, LenProperties, EmptySeq
<1>2. ASSUME NEW i \in 1 .. Len(s) PROVE s[i] = Head(s) \/ IsIn(s[i], Tail(s))
  <2>1. CASE i = 1
    BY <1>1, <2>1
  <2>2. CASE i # 1
    <3>1. i - 1 \in 1 .. Len(Tail(s)) /\ (i - 1) + 1 = i
      BY <1>1, <2>2
    <3>2. Tail(s)[i - 1] = s[i]
      BY <1>1, <3>1
    <3> QED BY <3>1, <3>2 DEF IsIn
  <2> QED BY <2>1, <2>2
<1> QED BY <1>1, <1>2 DEF IsIn

-----------------------------------------------------------------------------
(* Every step keeps the invariant.                                         *)

\* The certificates of a PEM file of the directory.
LEMMA PemOfFile ==
    ASSUME TypeInv, NEW f \in FileNames, dir[f] # Missing
    PROVE  AddPemData(dir[f].bytes).added \in Seq(Certs)
<1> DEFINE b == dir[f].bytes
<1>1. /\ b.blocks \in Seq(PemBlock)
      /\ \A i \in 1 .. Len(b.blocks) - 1 : b.blocks[i].what # "cut"
  BY DEF TypeInv, IsFile
<1> HIDE DEF b
<1>2. AddPemData(b).added \in Seq(Certs)
  BY <1>1, PemFacts
<1> QED BY <1>2 DEF b

\* An addition leaves what the store had in its place.
LEMMA Addition ==
    ASSUME TypeInv, NEW k \in StoreKind, AddPem(k) \/ AddCertificate(k)
    PROVE  /\ UNCHANGED dir /\ stores[k] \in Seq(Certs)
           /\ \E t \in Seq(Certs) : stores' = [stores EXCEPT ![k] = stores[k] \o t]
<1> USE DEF TypeInv
<1>0. UNCHANGED dir /\ stores[k] \in Seq(Certs)
  BY DEF AddPem, AddCertificate
<1>1. CASE AddPem(k)
  <2>1. PICK f \in FileNames :
          /\ dir[f] # Missing
          /\ stores' = [stores EXCEPT ![k] = Plus(stores[k], AddPemData(dir[f].bytes).added)]
    BY <1>1 DEF AddPem
  <2> QED BY <1>0, <2>1, PemOfFile DEF Plus
<1>2. CASE AddCertificate(k)
  <2>1. PICK c \in Certs : stores' = [stores EXCEPT ![k] = Plus(stores[k], <<c>>)]
    BY <1>2 DEF AddCertificate
  <2>2. <<c>> \in Seq(Certs)
    OBVIOUS
  <2> QED BY <1>0, <2>1, <2>2 DEF Plus
<1> QED BY <1>1, <1>2

\* Stores only ever get certificates.
LEMMA TypeStep == ASSUME Inv, [Next]_vars PROVE TypeInv'
<1> USE DEF Inv, TypeInv
<1>1. CASE Edit
  <2>0. PICK f \in FileNames : \E v \in Versions(f) : dir' = [dir EXCEPT ![f] = v]
    BY <1>1 DEF Edit
  <2>1. PICK v \in Versions(f) : dir' = [dir EXCEPT ![f] = v]
    BY <2>0
  <2>2. IsFile(v)
    BY <2>1, FilesAssumption
  <2>3. stores' = stores
    BY <1>1 DEF Edit
  <2>4. \A g \in FileNames : dir'[g] = IF g = f THEN v ELSE dir[g]
    BY <2>1
  <2>5. dir' = [g \in FileNames |-> dir'[g]]
    BY <2>1
  <2>6. \A g \in FileNames : IsFile(dir'[g])
    BY <2>2, <2>4
  <2> QED BY <2>3, <2>5, <2>6 DEF IsFile
<1>2. ASSUME UNCHANGED dir, NEW k \in StoreKind, NEW s \in Seq(Certs),
             stores' = [stores EXCEPT ![k] = s]
      PROVE  TypeInv'
  <2>1. \A j \in StoreKind : stores'[j] = IF j = k THEN s ELSE stores[j]
    BY <1>2
  <2>2. stores' = [j \in StoreKind |-> stores'[j]]
    BY <1>2
  <2>3. \A j \in StoreKind : stores'[j] = NoStore \/ stores'[j] \in Seq(Certs)
    BY <2>1
  <2> QED BY <1>2, <2>2, <2>3 DEF IsFile
<1>3. CASE UNCHANGED <<dir, stores>>
  BY <1>3 DEF IsFile
<1>4. CASE Finish
  <2>1. LoadTyped /\ UNCHANGED dir /\ stores' = [stores EXCEPT ![load.kind] = load.store]
    BY <1>4 DEF Finish, LoadInv, ModeInv, Underway
  <2> QED BY <1>2, <2>1 DEF LoadTyped
<1>6. ASSUME NEW k \in StoreKind, FromPemFile(k) PROVE TypeInv'
  <2>1. PICK f \in FileNames : /\ dir[f] # Missing
                               /\ stores' = [stores EXCEPT ![k] = AddPemData(dir[f].bytes).added]
    BY <1>6 DEF FromPemFile
  <2>2. UNCHANGED dir
    BY <1>6 DEF FromPemFile
  <2> QED BY <1>2, <2>1, <2>2, PemOfFile
<1>7. ASSUME NEW k \in StoreKind, AddPem(k) \/ AddCertificate(k) PROVE TypeInv'
  <2>1. PICK t \in Seq(Certs) : stores' = [stores EXCEPT ![k] = stores[k] \o t]
    BY <1>7, Addition
  <2>2. UNCHANGED dir /\ stores[k] \o t \in Seq(Certs)
    BY <1>7, Addition, LongerStore
  <2> QED BY <1>2, <2>1, <2>2
<1>8. \/ Edit \/ Finish \/ UNCHANGED <<dir, stores>>
      \/ \E k \in StoreKind : FromPemFile(k) \/ AddPem(k) \/ AddCertificate(k)
  BY DEF Next, ReadEntry, ListDirectory, vars
<1> QED BY <1>1, <1>3, <1>4, <1>6, <1>7, <1>8

\* The start of a load.
LEMMA ListStep ==
    ASSUME Inv, NEW kind \in StoreKind, NEW mode \in {"strict", "lenient"},
           ListDirectory(kind, mode)
    PROVE  LoadInv' /\ ModeInv'
<1>1. PICK hidden \in {{}} \cup {{f} : f \in FileNames} :
         LET listed == {f \in FileNames : dir[f] # Missing}
             complete == listed \cap hidden = {}
         IN  load' = [mode |-> mode, kind |-> kind, ok |-> FALSE,
                      at |-> IF ListingFails(mode, complete) THEN "done" ELSE "reading",
                      entries |-> Only(Files, listed \ hidden), store |-> <<>>,
                      skipped |-> IF complete THEN {} ELSE {"directory"},
                      listing |-> listed, hidden |-> listed \cap hidden,
                      read |-> [f \in {} |-> Missing]]
  BY DEF ListDirectory
<1> DEFINE listed == {f \in FileNames : dir[f] # Missing}
           complete == listed \cap hidden = {}
           seen == Only(Files, listed \ hidden)
<1>2. /\ load'.mode = mode /\ load'.kind = kind /\ load'.ok = FALSE
      /\ load'.at = (IF mode = "strict" /\ ~complete THEN "done" ELSE "reading")
      /\ load'.entries = seen /\ load'.store = <<>>
      /\ load'.skipped = (IF complete THEN {} ELSE {"directory"})
      /\ load'.listing = listed /\ load'.hidden = listed \cap hidden /\ DOMAIN load'.read = {}
  BY <1>1 DEF ListingFails
<1>3. load' = [mode |-> load'.mode, kind |-> load'.kind, ok |-> load'.ok, at |-> load'.at,
               entries |-> load'.entries, store |-> load'.store, skipped |-> load'.skipped,
               listing |-> load'.listing, hidden |-> load'.hidden, read |-> load'.read]
  BY <1>1
<1>4. Len(Files) \in Nat /\ FileNames = {Files[i] : i \in 1 .. Len(Files)}
  BY FilesAssumption, LenProperties DEF FileNames
<1>5. KeptOf(seen, Len(Files), Files, listed \ hidden)
  BY <1>4, OnlyFacts
<1>6. seen \in Seq(FileNames)
  <2>1. seen \in Seq(listed \ hidden) /\ listed \ hidden \subseteq FileNames
    BY <1>5 DEF KeptOf
  <2> HIDE DEF seen, listed
  <2> QED BY <2>1, SeqDef
<1>7. \A f \in listed \ hidden : IsIn(f, seen)
  BY <1>4, <1>5 DEF KeptOf
<1> HIDE DEF seen
<1>8. LoadTyped'
  BY <1>2, <1>3, <1>6 DEF LoadTyped
<1>9. CASE complete
  <2>1. \A f \in listed : IsIn(f, seen)
    BY <1>7, <1>9
  <2>2. StrictSoFar' /\ LenientSoFar'
    BY <1>2, <2>1 DEF StrictSoFar, LenientSoFar
  <2> QED BY <1>2, <1>8, <2>2 DEF LoadInv, ModeInv, Busy
<1>10. CASE ~complete
  <2>1. mode = "lenient" => LenientSoFar'
    <3> SUFFICES ASSUME NEW f \in listed PROVE IsIn(f, seen) \/ Unlisted(f)'
      BY <1>2 DEF LenientSoFar
    <3>1. CASE f \in hidden
      BY <1>2, <1>10, <3>1 DEF Unlisted
    <3>2. CASE f \notin hidden
      BY <1>7, <3>2
    <3> QED BY <3>1, <3>2
  <2>2. mode = "strict" => ~Underway'
    BY <1>2, <1>10 DEF Underway, Busy
  <2> QED BY <1>2, <1>8, <2>1, <2>2 DEF LoadInv, ModeInv, Busy
<1> QED BY <1>9, <1>10

\* One more entry.
LEMMA ReadStep == ASSUME Inv, ReadEntry PROVE LoadInv' /\ ModeInv'
<1> DEFINE f == Head(load.entries)
           result == FileResult(f)
<1>1. /\ LoadTyped /\ load.mode \in {"strict", "lenient"} /\ ~load.ok /\ load.at = "reading"
      /\ load.mode = "strict" => StrictSoFar
      /\ load.mode = "lenient" => LenientSoFar
  BY DEF Inv, LoadInv, ModeInv, Underway, ReadEntry, Busy
<1>2. load.entries \in Seq(FileNames) /\ load.entries # <<>> /\ load.store \in Seq(Certs)
  BY <1>1 DEF LoadTyped, ReadEntry
<1>3. /\ f \in FileNames /\ Tail(load.entries) \in Seq(FileNames)
      /\ \A x : IsIn(x, load.entries) => x = f \/ IsIn(x, Tail(load.entries))
  BY <1>2, TailFacts
<1>4. CASE ~IsCandidate(f)
  <2>1. load' = [load EXCEPT !.entries = Tail(@)]
    BY <1>4 DEF ReadEntry
  <2>2. /\ load'.mode = load.mode /\ load'.kind = load.kind /\ load'.ok = load.ok
        /\ load'.at = load.at /\ load'.entries = Tail(load.entries)
        /\ load'.store = load.store /\ load'.skipped = load.skipped
        /\ load'.listing = load.listing /\ load'.hidden = load.hidden /\ load'.read = load.read
    BY <1>1, <2>1 DEF LoadTyped
  <2>3. load' = [mode |-> load'.mode, kind |-> load'.kind, ok |-> load'.ok, at |-> load'.at,
                 entries |-> load'.entries, store |-> load'.store, skipped |-> load'.skipped,
                 listing |-> load'.listing, hidden |-> load'.hidden, read |-> load'.read]
    BY <1>1, <2>1 DEF LoadTyped
  <2> HIDE DEF f
  <2>4. LoadTyped'
    BY <1>1, <1>3, <2>2, <2>3 DEF LoadTyped
  <2>5. load.mode = "strict" => StrictSoFar'
    BY <1>1, <1>3, <1>4, <2>2 DEF StrictSoFar, Taken
  <2>6. load.mode = "lenient" => LenientSoFar'
    BY <1>1, <1>3, <1>4, <2>2 DEF LenientSoFar, Taken, Unlisted
  <2> QED BY <1>1, <2>2, <2>4, <2>5, <2>6 DEF LoadInv, ModeInv, Busy
<1>5. CASE IsCandidate(f)
  <2> DEFINE at == IF load.mode = "strict" /\ ~result.ok THEN "done" ELSE load.at
             skip == IF load.mode = "lenient" /\ ~result.ok THEN {f} ELSE {}
             read == [g \in DOMAIN load.read \cup {f} |-> IF g = f THEN dir[f] ELSE load.read[g]]
  <2>1. load' = [load EXCEPT !.entries = Tail(load.entries), !.store = load.store \o result.added,
                             !.read = read, !.at = at, !.skipped = load.skipped \cup skip]
    BY <1>5 DEF ReadEntry, Skip
  <2> HIDE DEF at, skip, read
  <2>2. /\ load'.mode = load.mode /\ load'.kind = load.kind /\ load'.ok = load.ok
        /\ load'.at = at /\ load'.entries = Tail(load.entries)
        /\ load'.store = load.store \o result.added /\ load'.skipped = load.skipped \cup skip
        /\ load'.listing = load.listing /\ load'.hidden = load.hidden /\ load'.read = read
    BY <1>1, <2>1 DEF LoadTyped
  <2>3. load' = [mode |-> load'.mode, kind |-> load'.kind, ok |-> load'.ok, at |-> load'.at,
                 entries |-> load'.entries, store |-> load'.store, skipped |-> load'.skipped,
                 listing |-> load'.listing, hidden |-> load'.hidden, read |-> load'.read]
    BY <1>1, <2>1 DEF LoadTyped
  <2>4. /\ result.added \in Seq(Certs)
        /\ result.ok => /\ dir[f] # Missing /\ dir[f].readable
                        /\ EndedBlocksIn(dir[f].bytes, result.added)
    BY <1>3, FileResultFacts DEF Inv
  <2>5. /\ load'.store \in Seq(Certs)
        /\ \A x : IsIn(x, load.store) \/ IsIn(x, result.added) => IsIn(x, load'.store)
    BY <1>2, <2>2, <2>4, LongerStore
  <2>6. /\ DOMAIN load'.read = DOMAIN load.read \cup {f} /\ load'.read[f] = dir[f]
        /\ \A g \in DOMAIN load.read : g # f => load'.read[g] = load.read[g]
    BY <2>2 DEF read
  <2> HIDE DEF f, result
  <2>7. LoadTyped'
    BY <1>1, <1>3, <2>2, <2>3, <2>5 DEF LoadTyped
  <2>8. CASE result.ok
    <3>0. at = load.at /\ skip = {}
      BY <2>8 DEF at, skip
    <3>1. /\ load'.read[f] # Missing /\ load'.read[f].readable
          /\ EndedBlocksIn(load'.read[f].bytes, load'.store)
      BY <2>4, <2>5, <2>6, <2>8 DEF EndedBlocksIn
    <3>2. ASSUME NEW g, g = f \/ Taken(g) PROVE Taken(g)'
      <4>1. CASE g = f
        BY <2>6, <3>1, <4>1 DEF Taken
      <4>2. CASE g # f
        BY <2>5, <2>6, <3>2, <4>2 DEF Taken, EndedBlocksIn
      <4> QED BY <4>1, <4>2
    <3>3. load.mode = "strict" => StrictSoFar'
      <4> SUFFICES ASSUME load.mode = "strict", NEW g \in load'.listing
                   PROVE  IsIn(g, load'.entries) \/ Taken(g)' \/ ~IsCandidate(g)
        BY DEF StrictSoFar
      <4> QED BY <1>1, <1>3, <2>2, <3>2 DEF StrictSoFar
    <3>4. load.mode = "lenient" => LenientSoFar'
      <4> SUFFICES ASSUME load.mode = "lenient", NEW g \in load'.listing
                   PROVE  \/ IsIn(g, load'.entries) \/ Taken(g)'
                          \/ g \in load'.skipped \/ Unlisted(g)' \/ ~IsCandidate(g)
        BY DEF LenientSoFar
      <4> QED BY <1>1, <1>3, <2>2, <3>0, <3>2 DEF LenientSoFar, Unlisted
    <3> QED BY <1>1, <2>2, <2>7, <3>0, <3>3, <3>4 DEF LoadInv, ModeInv, Busy
  <2>9. CASE ~result.ok
    <3>1. CASE load.mode = "strict"
      <4>1. load'.at = "done" /\ ~load'.ok
        BY <1>1, <2>2, <2>9, <3>1 DEF at
      <4> QED BY <4>1 DEF LoadInv, ModeInv, Busy, Underway
    <3>2. CASE load.mode = "lenient"
      <4>0. at = load.at /\ skip = {f}
        BY <2>9, <3>2 DEF at, skip
      <4> SUFFICES ASSUME NEW g \in load'.listing
                   PROVE  \/ IsIn(g, load'.entries) \/ Taken(g)'
                          \/ g \in load'.skipped \/ Unlisted(g)'
                          \/ ~IsCandidate(g)
        BY <1>1, <2>2, <2>7, <3>2, <4>0 DEF LoadInv, ModeInv, Busy, LenientSoFar
      <4>1. CASE g = f
        BY <2>2, <4>0, <4>1
      <4>2. CASE g # f
        <5>1. Taken(g) => Taken(g)'
          BY <2>5, <2>6, <4>2 DEF Taken, EndedBlocksIn
        <5> QED BY <1>1, <1>3, <2>2, <3>2, <4>2, <5>1 DEF LenientSoFar, Unlisted
      <4> QED BY <4>1, <4>2
    <3> QED BY <1>1, <3>1, <3>2
  <2> QED BY <2>8, <2>9
<1> QED BY <1>4, <1>5

\* Every step of a load, and every other step.
LEMMA LoadStep == ASSUME Inv, [Next]_vars PROVE LoadInv' /\ ModeInv'
<1>1. CASE Finish
  <2>1. /\ LoadTyped /\ load.mode \in {"strict", "lenient"} /\ load.entries = <<>>
        /\ load.mode = "strict" => StrictSoFar
        /\ load.mode = "lenient" => LenientSoFar
    BY <1>1 DEF Inv, LoadInv, ModeInv, Underway, Finish, Busy
  <2>2. load' = [load EXCEPT !.at = "done", !.ok = TRUE]
    BY <1>1 DEF Finish
  <2>3. /\ load'.mode = load.mode /\ load'.kind = load.kind /\ load'.ok = TRUE
        /\ load'.at = "done" /\ load'.entries = load.entries
        /\ load'.store = load.store /\ load'.skipped = load.skipped
        /\ load'.listing = load.listing /\ load'.hidden = load.hidden /\ load'.read = load.read
    BY <2>1, <2>2 DEF LoadTyped
  <2>4. load' = [mode |-> load'.mode, kind |-> load'.kind, ok |-> load'.ok, at |-> load'.at,
                 entries |-> load'.entries, store |-> load'.store, skipped |-> load'.skipped,
                 listing |-> load'.listing, hidden |-> load'.hidden, read |-> load'.read]
    BY <2>1, <2>2 DEF LoadTyped
  <2>5. LoadTyped'
    BY <2>1, <2>3, <2>4 DEF LoadTyped
  <2>6. load.mode = "strict" => StrictSoFar'
    BY <2>1, <2>3 DEF StrictSoFar, Taken
  <2>7. load.mode = "lenient" => LenientSoFar'
    BY <2>1, <2>3 DEF LenientSoFar, Taken, Unlisted
  <2> QED BY <2>1, <2>3, <2>5, <2>6, <2>7 DEF LoadInv, ModeInv, Busy
<1>2. CASE UNCHANGED load
  BY <1>2 DEF Inv, LoadInv, ModeInv, Underway, Busy, LoadTyped, StrictSoFar,
              LenientSoFar, Taken, Unlisted
<1>3. CASE load'.mode \in {"none", "add"} /\ load'.at = "done"
  BY <1>3 DEF LoadInv, ModeInv, Underway, Busy
<1>4. CASE ReadEntry
  BY <1>4, ReadStep
<1>5. CASE \E kind \in StoreKind, mode \in {"strict", "lenient"} : ListDirectory(kind, mode)
  BY <1>5, ListStep
<1>6. ASSUME NEW kind \in StoreKind, FromPemFile(kind) \/ AddPem(kind) \/ AddCertificate(kind)
      PROVE  load'.mode \in {"none", "add"} /\ load'.at = "done"
  <2>1. CASE FromPemFile(kind)
    BY <2>1 DEF FromPemFile
  <2>2. CASE AddPem(kind)
    BY <2>2 DEF AddPem
  <2>3. CASE AddCertificate(kind)
    BY <2>3 DEF AddCertificate
  <2> QED BY <1>6, <2>1, <2>2, <2>3
<1>7. \/ Finish \/ UNCHANGED load \/ ReadEntry
      \/ \E kind \in StoreKind, mode \in {"strict", "lenient"} : ListDirectory(kind, mode)
      \/ \E kind \in StoreKind : FromPemFile(kind) \/ AddPem(kind) \/ AddCertificate(kind)
  BY DEF Next, Edit, vars
<1> QED BY <1>1, <1>2, <1>3, <1>4, <1>5, <1>6, <1>7

-----------------------------------------------------------------------------
(* The theorems about directories.                                         *)

\* Whatever is edited while a directory is loaded, the load has every entry
\* behind it or before it, and the stores hold certificates.
THEOREM Invariance == Spec => []Inv
<1>1. Init => Inv
  BY InitInv
<1>2. Inv /\ [Next]_vars => Inv'
  BY TypeStep, LoadStep DEF Inv
<1> QED BY <1>1, <1>2, PTL DEF Spec

\* A strict load that succeeds has every certificate of every candidate that
\* ends: from_pem_directory loses at most a last block without END marker.
THEOREM StrictLoadsLoseOnlyCut == Spec => []StrictLosesOnlyCut
<1>1. Inv => StrictLosesOnlyCut
  <2> SUFFICES ASSUME Inv, Loaded, load.mode = "strict" PROVE StrictLosesOnlyCut
    BY DEF StrictLosesOnlyCut
  <2>1. StrictSoFar /\ load.entries = <<>>
    BY DEF Inv, LoadInv, Underway, Loaded
  <2>2. \A f : ~IsIn(f, load.entries)
    BY <2>1 DEF IsIn
  <2> QED BY <2>1, <2>2 DEF StrictSoFar, StrictLosesOnlyCut
<1> QED BY <1>1, Invariance, PTL

\* A lenient load that succeeds leaves out no file it does not report, and of
\* a file it does not report at most a last block without END marker.
THEOREM LenientLoadsAccount == Spec => []LenientAccounts
<1>1. Inv => LenientAccounts
  <2> SUFFICES ASSUME Inv, Loaded, load.mode = "lenient" PROVE LenientAccounts
    BY DEF LenientAccounts
  <2>1. LenientSoFar /\ load.entries = <<>>
    BY DEF Inv, LoadInv, Underway, Loaded
  <2>2. \A f : ~IsIn(f, load.entries)
    BY <2>1 DEF IsIn
  <2> QED BY <2>1, <2>2 DEF LenientSoFar, Taken, Unlisted, LenientAccounts
<1> QED BY <1>1, Invariance, PTL
-----------------------------------------------------------------------------
(* Adding anchors.                                                         *)

\* What is asked of a path below its anchor.
Sound(p, time, frac, role) ==
    /\ SatisfiesPurpose(p[1], role)
    /\ \A i \in 1 .. Len(p) : ExtensionsOk(p[i]) /\ Covers(p[i], time, frac)
    /\ \A i \in 1 .. Len(p) - 1 :
         /\ p[i].issuer = p[i + 1].subject
         /\ SignedBy(p[i], p[i + 1])
         /\ MayIssue(p[i + 1])
         /\ PathLenOk(p[i + 1], p, i + 1)
    /\ \A t \in 2 .. Len(p) :
         /\ Decodable(p[t])
         /\ \A k \in 1 .. t - 1 : Allows(p[t], p[k])

\* The only thing a path asks of the store is its anchor.
LEMMA PathBySound ==
    ASSUME NEW p, NEW roots, NEW time, NEW frac, NEW role
    PROVE  IsPath(p, roots, time, frac, role) <=>
             p # <<>> /\ IsIn(LastOf(p), roots) /\ Sound(p, time, frac, role)
  BY DEF IsPath, Sound

\* Path length looks only at what is below.
LEMMA PathLenBelow ==
    ASSUME NEW c, NEW p, NEW t \in Nat, NEW issuer,
           \A k \in 1 .. t - 1 : p[k] = c[k]
    PROVE  PathLenOk(issuer, p, t) <=> PathLenOk(issuer, c, t)
<1>1. {k \in 1 .. t - 1 : p[k].bc = "ca" /\ ~IsSelfIssued(p[k])}
        = {k \in 1 .. t - 1 : c[k].bc = "ca" /\ ~IsSelfIssued(c[k])}
  OBVIOUS
<1>2. SubordinateCas(p, t) = SubordinateCas(c, t)
  BY <1>1 DEF SubordinateCas
<1> QED BY <1>2 DEF PathLenOk

\* What a path is asked, the chain that it completes is asked too.
LEMMA PrefixSound ==
    ASSUME NEW c \in Seq(Certs), c # <<>>, NEW a \in Certs, NEW time, NEW frac, NEW role,
           Sound(Append(c, a), time, frac, role)
    PROVE  Sound(c, time, frac, role)
<1> DEFINE p == Append(c, a)
<1>1. /\ Len(c) \in Nat /\ Len(c) >= 1 /\ Len(p) = Len(c) + 1
      /\ \A i \in 1 .. Len(c) : p[i] = c[i]
  BY AppendProperties, LenProperties, EmptySeq
<1> HIDE DEF p
<1>0. Sound(p, time, frac, role)
  BY DEF p
<1>2. p[1] = c[1]
  BY <1>1
<1>3. ASSUME NEW i \in 1 .. Len(c)
      PROVE  ExtensionsOk(c[i]) /\ Covers(c[i], time, frac)
  <2>1. i \in 1 .. Len(p) /\ p[i] = c[i]
    BY <1>1
  <2>2. ExtensionsOk(p[i]) /\ Covers(p[i], time, frac)
    BY <1>0, <2>1 DEF Sound
  <2> QED BY <2>1, <2>2
<1>4. ASSUME NEW i \in 1 .. Len(c) - 1
      PROVE  /\ c[i].issuer = c[i + 1].subject
             /\ SignedBy(c[i], c[i + 1])
             /\ MayIssue(c[i + 1])
             /\ PathLenOk(c[i + 1], c, i + 1)
  <2>1. i \in 1 .. Len(p) - 1 /\ p[i] = c[i] /\ p[i + 1] = c[i + 1]
    BY <1>1
  <2>2. /\ p[i].issuer = p[i + 1].subject /\ SignedBy(p[i], p[i + 1])
        /\ MayIssue(p[i + 1]) /\ PathLenOk(p[i + 1], p, i + 1)
    BY <1>0, <2>1 DEF Sound
  <2>3. i + 1 \in Nat /\ \A k \in 1 .. (i + 1) - 1 : p[k] = c[k]
    BY <1>1
  <2>4. PathLenOk(c[i + 1], p, i + 1) <=> PathLenOk(c[i + 1], c, i + 1)
    BY <2>3, PathLenBelow
  <2> QED BY <2>1, <2>2, <2>4
<1>5. ASSUME NEW t \in 2 .. Len(c)
      PROVE  Decodable(c[t]) /\ \A k \in 1 .. t - 1 : Allows(c[t], c[k])
  <2>1. t \in 2 .. Len(p) /\ p[t] = c[t] /\ \A k \in 1 .. t - 1 : p[k] = c[k]
    BY <1>1
  <2>2. Decodable(p[t]) /\ \A k \in 1 .. t - 1 : Allows(p[t], p[k])
    BY <1>0, <2>1 DEF Sound
  <2> QED BY <2>1, <2>2
<1>6. SatisfiesPurpose(c[1], role)
  BY <1>0, <1>2 DEF Sound
<1> QED BY <1>3, <1>4, <1>5, <1>6 DEF Sound

\* A longer store verifies what the shorter one did.  A chain whose last
\* certificate only now is an anchor was completed by another one, and is a
\* path by itself.
LEMMA VerifiableGrows ==
    ASSUME NEW c \in Seq(Certs), NEW s \in Seq(Certs), NEW t \in Seq(Certs),
           NEW time, NEW frac, NEW role,
           Verifiable(c, s, time, frac, role),
           IsSelfIssued(LastOf(c)) => SignedBy(LastOf(c), LastOf(c))
    PROVE  Verifiable(c, s \o t, time, frac, role)
<1> DEFINE u == s \o t
<1>1. /\ Len(s) \in Nat /\ Len(u) = Len(s) + Len(t) /\ Len(t) \in Nat
      /\ \A i \in 1 .. Len(s) : u[i] = s[i]
      /\ \A x : IsIn(x, s) => IsIn(x, u)
  BY LongerStore, LenProperties
<1> HIDE DEF u
<1>2. c # <<>>
  BY DEF Verifiable
<1>3. CASE IsSelfIssued(LastOf(c)) /\ IsIn(LastOf(c), s)
  <2>1. IsPath(c, s, time, frac, role) /\ SignedBy(LastOf(c), LastOf(c))
    BY <1>3 DEF Verifiable
  <2>2. IsPath(c, u, time, frac, role) /\ IsIn(LastOf(c), u)
    BY <1>1, <2>1, PathBySound
  <2> QED BY <1>2, <1>3, <2>1, <2>2 DEF Verifiable, u
<1>4. CASE ~(IsSelfIssued(LastOf(c)) /\ IsIn(LastOf(c), s))
  <2>1. PICK i \in 1 .. Len(s) : IsPath(Append(c, s[i]), s, time, frac, role)
    BY <1>4 DEF Verifiable
  <2>2. s[i] \in Certs /\ i \in 1 .. Len(u) /\ u[i] = s[i]
    BY <1>1, ElementOfSeq
  <2>3. CASE IsSelfIssued(LastOf(c)) /\ IsIn(LastOf(c), u)
    <3>1. Sound(Append(c, s[i]), time, frac, role)
      BY <2>1, PathBySound
    <3>2. Sound(c, time, frac, role)
      BY <1>2, <2>2, <3>1, PrefixSound
    <3>3. IsPath(c, u, time, frac, role)
      BY <1>2, <2>3, <3>2, PathBySound
    <3> QED BY <1>2, <2>3, <3>3 DEF Verifiable, u
  <2>4. CASE ~(IsSelfIssued(LastOf(c)) /\ IsIn(LastOf(c), u))
    <3>1. IsPath(Append(c, u[i]), u, time, frac, role)
      BY <1>1, <2>1, <2>2, PathBySound
    <3> QED BY <1>2, <2>2, <2>4, <3>1 DEF Verifiable, u
  <2> QED BY <2>3, <2>4
<1> QED BY <1>3, <1>4

\* Additions, also those that fail half way, take no verdict back (store.rs,
\* add_pem_data, add_certificate), chains apart that end in a self-issued
\* certificate signed with another key.
THEOREM AdditionsKeepVerdicts == Spec => AddingKeepsVerdicts
<1>1. ASSUME Inv, [Next]_vars, loads' # loads, load'.mode = "add"
      PROVE  \A k \in StoreKind, c \in Chains :
                /\ stores[k] # NoStore /\ Verifiable(c, stores[k], NoTime, FALSE, AnyPurpose)
                /\ IsSelfIssued(LastOf(c)) => SignedBy(LastOf(c), LastOf(c))
                => Verifiable(c, stores'[k], NoTime, FALSE, AnyPurpose)
  <2>1. PICK kind \in StoreKind : AddPem(kind) \/ AddCertificate(kind)
    <3>1. ASSUME NEW kind \in StoreKind, NEW mode \in {"strict", "lenient"}
          PROVE  ~ListDirectory(kind, mode)
      <4>1. ListDirectory(kind, mode) => load'.mode = mode
        BY DEF ListDirectory
      <4> QED BY <1>1, <4>1
    <3>2. ASSUME NEW kind \in StoreKind PROVE ~FromPemFile(kind)
      BY <1>1 DEF FromPemFile
    <3>3. ~(Edit \/ ReadEntry \/ Finish \/ UNCHANGED vars)
      BY <1>1 DEF Edit, ReadEntry, Finish, vars
    <3> QED BY <1>1, <3>1, <3>2, <3>3 DEF Next
  <2>2. TypeInv
    BY <1>1 DEF Inv
  <2>3. stores[kind] \in Seq(Certs)
    BY <2>1, <2>2, Addition
  <2>4. PICK t \in Seq(Certs) : stores' = [stores EXCEPT ![kind] = stores[kind] \o t]
    BY <2>1, <2>2, Addition
  <2>5. ASSUME NEW k \in StoreKind, NEW c \in Chains,
               Verifiable(c, stores[k], NoTime, FALSE, AnyPurpose),
               IsSelfIssued(LastOf(c)) => SignedBy(LastOf(c), LastOf(c))
        PROVE  Verifiable(c, stores'[k], NoTime, FALSE, AnyPurpose)
    <3>1. c \in Seq(Certs)
      BY ChainsAssumption
    <3>2. CASE k = kind
      <4>1. stores'[k] = stores[k] \o t
        BY <2>2, <2>4, <3>2 DEF TypeInv
      <4>2. Verifiable(c, stores[k] \o t, NoTime, FALSE, AnyPurpose)
        BY <2>3, <2>5, <3>1, <3>2, VerifiableGrows
      <4> QED BY <4>1, <4>2
    <3>3. CASE k # kind
      <4>1. stores'[k] = stores[k]
        BY <2>2, <2>4, <3>3 DEF TypeInv
      <4> QED BY <2>5, <4>1
    <3> QED BY <3>2, <3>3
  <2> QED BY <2>5
<1>2. Inv /\ [Next]_vars =>
        [loads' # loads /\ load'.mode = "add" =>
           \A k \in StoreKind, c \in Chains :
              /\ stores[k] # NoStore /\ Verifiable(c, stores[k], NoTime, FALSE, AnyPurpose)
              /\ IsSelfIssued(LastOf(c)) => SignedBy(LastOf(c), LastOf(c))
              => Verifiable(c, stores'[k], NoTime, FALSE, AnyPurpose)]_vars
  BY <1>1
<1> QED BY <1>2, Invariance, PTL DEF Spec, AddingKeepsVerdicts
=============================================================================
