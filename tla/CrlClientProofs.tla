--------------------------- MODULE CrlClientProofs --------------------------
(* Theorems about CrlClient, for every set of calls, URLs and policies,    *)
(* every size of the cache and every network.                              *)
EXTENDS CrlClient, FiniteSetTheorems, SequenceTheorems, TLAPS

-----------------------------------------------------------------------------
(* Induction over numbers and over the subsets of a finite set, each as a  *)
(* statement about a set.                                                  *)

\* A set of numbers with 0 and all successors has every number.
LEMMA NatSetInduction ==
    ASSUME NEW X, 0 \in X, \A n \in Nat : n \in X => n + 1 \in X
    PROVE  \A n \in Nat : n \in X
<1> SUFFICES ASSUME NEW n \in Nat, n \notin X PROVE FALSE
  OBVIOUS
<1> DEFINE T == {S \in SUBSET (0 .. n) : \E k \in 0 .. n : S = 0 .. k /\ k \notin X}
<1>1. IsFiniteSet(0 .. n)
  BY FS_Interval
<1>2. 0 .. n \in T
  OBVIOUS
<1>3. PICK S \in T : \A U \in T : ~(<<U, S>> \in StrictSubsetOrdering(0 .. n))
  <2> DEFINE R == StrictSubsetOrdering(0 .. n)
             F == SUBSET (0 .. n)
  <2>1. IsWellFoundedOn(R, F)
    BY <1>1, FS_StrictSubsetOrderingWellFounded, FS_FiniteSubsetsOfFinite
  <2>2. T \subseteq F /\ T # {}
    BY <1>2
  <2> HIDE DEF T, R, F
  <2>3. \E x \in T : \A y \in T : ~(<<y, x>> \in R)
    BY <2>1, <2>2, WFMin
  <2> QED BY <2>3 DEF R
<1>4. PICK k \in 0 .. n : S = 0 .. k /\ k \notin X
  OBVIOUS
<1>5. k # 0 /\ k - 1 \notin X
  BY <1>4
<1>6. 0 .. (k - 1) \in T
  BY <1>5
<1>7. <<0 .. (k - 1), 0 .. k>> \in StrictSubsetOrdering(0 .. n)
  BY <1>5 DEF StrictSubsetOrdering
<1> QED BY <1>3, <1>4, <1>6, <1>7

\* A family of sets has every subset of a finite set if it has each of them
\* whose proper subsets it has.
LEMMA SubsetInduction ==
    ASSUME NEW D, IsFiniteSet(D), NEW X,
           \A T \in SUBSET D : (\A U \in SUBSET T : U # T => U \in X) => T \in X
    PROVE  \A T \in SUBSET D : T \in X
<1> DEFINE B == {T \in SUBSET D : T \notin X}
           R == StrictSubsetOrdering(D)
<1> SUFFICES ASSUME B # {} PROVE FALSE
  OBVIOUS
<1>1. IsWellFoundedOn(R, SUBSET D)
  <2>1. FiniteSubsetsOf(D) = SUBSET D
    BY FS_FiniteSubsetsOfFinite
  <2>2. IsWellFoundedOn(R, FiniteSubsetsOf(D))
    BY FS_StrictSubsetOrderingWellFounded
  <2> HIDE DEF R
  <2> QED BY <2>1, <2>2
<1>2. \E T \in B : \A U \in B : <<U, T>> \notin R
  <2>1. B \subseteq SUBSET D
    OBVIOUS
  <2> HIDE DEF B, R
  <2> QED BY <1>1, <2>1, WFMin
<1>3. PICK T \in B : \A U \in B : <<U, T>> \notin R
  BY <1>2
<1>4. ASSUME NEW U \in SUBSET T, U # T PROVE U \in X
  <2>1. <<U, T>> \in R
    BY <1>4 DEF StrictSubsetOrdering
  <2> QED BY <1>3, <2>1
<1> QED BY <1>4

\* The element MapThenSumSet takes out of a set first.
Pick(s) == CHOOSE x \in s : TRUE

\* It is an element of the set.
LEMMA PickIn == ASSUME NEW s, s # {} PROVE Pick(s) \in s
BY DEF Pick

\* The function MapThenSumSet chooses to add the sizes of S up.
IsSum(i, f, S) ==
    i = [s \in SUBSET S |-> IF s = {} THEN 0 ELSE f[Pick(s)].doc.size + i[s \ {Pick(s)}]]

\* The entries of S have sizes.
Sized(f, S) == \A u \in S : f[u].doc.size \in Nat

\* There is such a function, for a finite set: built for one cardinality after
\* the other.
LEMMA SumExists ==
    ASSUME NEW S, IsFiniteSet(S), NEW f, Sized(f, S)
    PROVE  \E i : IsSum(i, f, S)
<1> DEFINE val(h, s) == IF s = {} THEN 0 ELSE f[Pick(s)].doc.size + h[s \ {Pick(s)}]
           X == {n \in Nat : \E h \in [SUBSET S -> Nat] :
                    \A s \in SUBSET S : Cardinality(s) <= n => h[s] = val(h, s)}
<1>1. \A s \in SUBSET S : IsFiniteSet(s) /\ Cardinality(s) \in Nat
                           /\ (Cardinality(s) = 0 <=> s = {})
  BY FS_Subset, FS_CardinalityType, FS_EmptySet
<1>2. \A s \in SUBSET S : s # {} =>
         /\ Pick(s) \in s /\ s \ {Pick(s)} \in SUBSET S
         /\ Cardinality(s \ {Pick(s)}) = Cardinality(s) - 1
  BY <1>1, PickIn, FS_RemoveElement
<1>3. \A h \in [SUBSET S -> Nat], s \in SUBSET S : val(h, s) \in Nat
  <2> TAKE h \in [SUBSET S -> Nat], s \in SUBSET S
  <2>1. CASE s # {}
    <3>1. f[Pick(s)].doc.size \in Nat /\ h[s \ {Pick(s)}] \in Nat
      BY <1>2, <2>1 DEF Sized
    <3> QED BY <3>1, <2>1
  <2> QED BY <2>1
<1>4. 0 \in X
  <2> DEFINE h == [s \in SUBSET S |-> 0]
  <2>1. h \in [SUBSET S -> Nat]
    OBVIOUS
  <2>2. \A s \in SUBSET S : Cardinality(s) <= 0 => h[s] = val(h, s)
    BY <1>1
  <2> QED BY <2>1, <2>2
<1>5. ASSUME NEW n \in Nat, n \in X PROVE n + 1 \in X
  <2>1. PICK h \in [SUBSET S -> Nat] :
           \A s \in SUBSET S : Cardinality(s) <= n => h[s] = val(h, s)
    BY <1>5
  <2> DEFINE g == [s \in SUBSET S |-> val(h, s)]
  <2>2. g \in [SUBSET S -> Nat]
    BY <1>3
  <2>3. \A s \in SUBSET S : Cardinality(s) <= n => g[s] = h[s]
    BY <2>1
  <2>4. ASSUME NEW s \in SUBSET S, Cardinality(s) <= n + 1 PROVE g[s] = val(g, s)
    <3>1. CASE s = {}
      BY <3>1
    <3>2. CASE s # {}
      <4>1. g[s \ {Pick(s)}] = h[s \ {Pick(s)}]
        <5>1. Cardinality(s \ {Pick(s)}) <= n /\ s \ {Pick(s)} \in SUBSET S
          BY <1>1, <1>2, <2>4, <3>2
        <5> HIDE DEF g
        <5> QED BY <2>3, <5>1
      <4>2. g[s] = f[Pick(s)].doc.size + h[s \ {Pick(s)}]
        BY <3>2
      <4> HIDE DEF g
      <4> QED BY <4>1, <4>2, <3>2
    <3> QED BY <3>1, <3>2
  <2> HIDE DEF g, val
  <2> QED BY <2>2, <2>4
<1>6. \A n \in Nat : n \in X
  <2> HIDE DEF X
  <2> QED BY <1>4, <1>5, NatSetInduction
<1>7. PICK h \in [SUBSET S -> Nat] :
         \A s \in SUBSET S : Cardinality(s) <= Cardinality(S) => h[s] = val(h, s)
  BY <1>1, <1>6
<1>8. \A s \in SUBSET S : Cardinality(s) <= Cardinality(S)
  BY FS_Subset
<1>9. h = [s \in SUBSET S |-> val(h, s)]
  <2> HIDE DEF val
  <2> QED BY <1>7, <1>8
<1> QED BY <1>9 DEF IsSum

\* CacheBytes, the sum over entries in insert_cache_entry, is such a function's
\* value.
LEMMA CacheBytesIsSum ==
    ASSUME NEW S, NEW f, IsFiniteSet(S), Sized(f, S)
    PROVE  \E i : IsSum(i, f, S) /\ CacheBytes(f, S) = i[S]
<1> DEFINE i == CHOOSE i : IsSum(i, f, S)
<1>1. IsSum(i, f, S)
  BY SumExists
<1>2. CacheBytes(f, S) = i[S]
  BY DEF CacheBytes, MapThenSumSet, MapThenFoldSet, IsSum, Pick
<1> QED BY <1>1, <1>2

\* One step of the sum.
LEMMA SumStep ==
    ASSUME NEW i, NEW f, NEW S, IsSum(i, f, S), NEW s \in SUBSET S
    PROVE  /\ s = {} => i[s] = 0
           /\ s # {} => /\ Pick(s) \in s
                        /\ i[s] = f[Pick(s)].doc.size + i[s \ {Pick(s)}]
BY PickIn DEF IsSum

\* A sum is a number, and it is the same whichever element is taken out first.
LEMMA SumTakeOut ==
    ASSUME NEW S, IsFiniteSet(S), NEW f, Sized(f, S), NEW i, IsSum(i, f, S)
    PROVE  \A s \in SUBSET S :
              i[s] \in Nat /\ \A x \in s : i[s] = f[x].doc.size + i[s \ {x}]
<1> DEFINE Good(s) == i[s] \in Nat /\ \A x \in s : i[s] = f[x].doc.size + i[s \ {x}]
           X == {s \in SUBSET S : Good(s)}
<1>1. ASSUME NEW s \in SUBSET S, \A t \in SUBSET s : t # s => t \in X
      PROVE  s \in X
  <2>1. CASE s = {}
    <3>1. i[s] = 0
      BY <2>1, SumStep
    <3> QED BY <2>1, <3>1
  <2>2. CASE s # {}
    <3> DEFINE p == Pick(s)
    <3>1. p \in s /\ i[s] = f[p].doc.size + i[s \ {p}]
      BY <2>2, SumStep
    <3>2. f[p].doc.size \in Nat /\ \A x \in s : f[x].doc.size \in Nat
      BY <3>1 DEF Sized
    <3> HIDE DEF p
    <3>3. \A x \in s : Good(s \ {x})
      BY <1>1
    <3>4. i[s] \in Nat
      <4>1. i[s \ {p}] \in Nat
        BY <3>1, <3>3
      <4> QED BY <3>1, <3>2, <4>1
    <3>5. ASSUME NEW x \in s, x # p PROVE i[s] = f[x].doc.size + i[s \ {x}]
      <4>1. x \in s \ {p} /\ p \in s \ {x}
        BY <3>1, <3>5
      <4>2. (s \ {p}) \ {x} = (s \ {x}) \ {p}
        OBVIOUS
      <4>3. i[s \ {p}] = f[x].doc.size + i[(s \ {p}) \ {x}]
        BY <3>1, <3>3, <4>1
      <4>4. i[s \ {x}] = f[p].doc.size + i[(s \ {p}) \ {x}]
        BY <3>3, <4>1, <4>2
      <4>5. i[(s \ {p}) \ {x}] \in Nat
        BY <1>1, <4>1
      <4> DEFINE a == f[p].doc.size
                 b == f[x].doc.size
                 k == i[(s \ {p}) \ {x}]
      <4>6. a \in Nat /\ b \in Nat /\ k \in Nat
        BY <3>2, <4>5
      <4>7. i[s] = a + (b + k) /\ i[s \ {x}] = a + k
        BY <3>1, <4>3, <4>4
      <4> HIDE DEF a, b, k
      <4>8. i[s] = b + i[s \ {x}]
        BY <4>6, <4>7
      <4> QED BY <4>8 DEF b
    <3> QED BY <3>1, <3>4, <3>5
  <2> QED BY <2>1, <2>2
<1>2. \A s \in SUBSET S : s \in X
  <2> HIDE DEF X
  <2> QED BY <1>1, SubsetInduction
<1> QED BY <1>2

\* Two sums of entries that are the same where both are defined agree there.
LEMMA SumAgrees ==
    ASSUME NEW S, IsFiniteSet(S), NEW f, Sized(f, S), NEW i, IsSum(i, f, S),
           NEW T, NEW g, NEW j, IsSum(j, g, T), S \subseteq T,
           \A u \in S : f[u].doc.size = g[u].doc.size
    PROVE  i[S] = j[S]
<1> DEFINE X == {s \in SUBSET S : i[s] = j[s]}
<1>1. ASSUME NEW s \in SUBSET S, \A t \in SUBSET s : t # s => t \in X
      PROVE  s \in X
  <2>1. s \in SUBSET T
    OBVIOUS
  <2>2. CASE s = {}
    BY <2>1, <2>2, SumStep
  <2>3. CASE s # {}
    <3>1. Pick(s) \in s /\ i[s] = f[Pick(s)].doc.size + i[s \ {Pick(s)}]
      BY <2>3, SumStep
    <3>2. j[s] = g[Pick(s)].doc.size + j[s \ {Pick(s)}]
      BY <2>1, <2>3 DEF IsSum
    <3>3. i[s \ {Pick(s)}] = j[s \ {Pick(s)}]
      BY <1>1, <3>1
    <3> QED BY <3>1, <3>2, <3>3
  <2> QED BY <2>2, <2>3
<1>2. \A s \in SUBSET S : s \in X
  <2> HIDE DEF X
  <2> QED BY <1>1, SubsetInduction
<1> QED BY <1>2

\* The bytes of a cache: none, one entry more, one entry less.
LEMMA CacheBytesFacts ==
    ASSUME NEW S, IsFiniteSet(S), NEW f, Sized(f, S)
    PROVE  /\ CacheBytes(f, S) \in Nat
           /\ S = {} => CacheBytes(f, S) = 0
           /\ \A x \in S : CacheBytes(f, S) = f[x].doc.size + CacheBytes(f, S \ {x})
<1>1. PICK i : IsSum(i, f, S) /\ CacheBytes(f, S) = i[S]
  BY CacheBytesIsSum
<1>2. i[S] \in Nat /\ \A x \in S : i[S] = f[x].doc.size + i[S \ {x}]
  BY <1>1, SumTakeOut
<1>3. S = {} => i[S] = 0
  BY <1>1, SumStep
<1>4. ASSUME NEW x \in S PROVE CacheBytes(f, S \ {x}) = i[S \ {x}]
  <2>1. IsFiniteSet(S \ {x}) /\ Sized(f, S \ {x})
    BY FS_RemoveElement DEF Sized
  <2>2. PICK j : IsSum(j, f, S \ {x}) /\ CacheBytes(f, S \ {x}) = j[S \ {x}]
    BY <2>1, CacheBytesIsSum
  <2> QED BY <1>1, <2>1, <2>2, SumAgrees
<1> QED BY <1>1, <1>2, <1>3, <1>4

\* Only the entries counted matter.
LEMMA CacheBytesAgree ==
    ASSUME NEW S, IsFiniteSet(S), NEW f, NEW g, Sized(f, S),
           \A u \in S : f[u].doc.size = g[u].doc.size
    PROVE  CacheBytes(f, S) = CacheBytes(g, S)
<1>1. Sized(g, S)
  BY DEF Sized
<1>2. PICK i : IsSum(i, f, S) /\ CacheBytes(f, S) = i[S]
  BY CacheBytesIsSum
<1>3. PICK j : IsSum(j, g, S) /\ CacheBytes(g, S) = j[S]
  BY <1>1, CacheBytesIsSum
<1> QED BY <1>2, <1>3, SumAgrees

-----------------------------------------------------------------------------
(* Eviction.                                                               *)

\* The function that Kept defines by recursion on the loop of insert_cache_entry.
IsKeep(k, f, size) ==
    k = [S \in SUBSET DOMAIN f |->
            IF S = {} \/ HasRoom(f, S, size) THEN {S}
            ELSE UNION {k[S \ {u}] : u \in Oldest(f, S)}]

\* The loop of insert_cache_entry ends: its recursive form has a solution.
LEMMA KeepExists ==
    ASSUME NEW f, IsFiniteSet(DOMAIN f), NEW size
    PROVE  \E k : IsKeep(k, f, size)
<1> DEFINE D == DOMAIN f
           stop(S) == S = {} \/ HasRoom(f, S, size)
           val(h, S) == IF stop(S) THEN {S} ELSE UNION {h[S \ {u}] : u \in Oldest(f, S)}
           F == [SUBSET D -> SUBSET SUBSET D]
           X == {n \in Nat : \E h \in F :
                    \A S \in SUBSET D : Cardinality(S) <= n => h[S] = val(h, S)}
<1>1. \A S \in SUBSET D : IsFiniteSet(S) /\ Cardinality(S) \in Nat
                           /\ (Cardinality(S) = 0 <=> S = {})
  BY FS_Subset, FS_CardinalityType, FS_EmptySet
<1>2. \A S \in SUBSET D : \A u \in Oldest(f, S) :
         S \ {u} \in SUBSET D /\ Cardinality(S \ {u}) = Cardinality(S) - 1
  BY <1>1, FS_RemoveElement DEF Oldest
<1>3. \A h \in F, S \in SUBSET D : val(h, S) \in SUBSET SUBSET D
  <2> TAKE h \in F, S \in SUBSET D
  <2>1. \A u \in Oldest(f, S) : h[S \ {u}] \in SUBSET SUBSET D
    BY <1>2
  <2>2. UNION {h[S \ {u}] : u \in Oldest(f, S)} \subseteq SUBSET D
    <3> SUFFICES ASSUME NEW L \in UNION {h[S \ {u}] : u \in Oldest(f, S)}
                 PROVE  L \in SUBSET D
      OBVIOUS
    <3>1. PICK u \in Oldest(f, S) : L \in h[S \ {u}]
      OBVIOUS
    <3> QED BY <2>1, <3>1
  <2> HIDE DEF stop
  <2> QED BY <2>2
<1>4. 0 \in X
  <2> DEFINE h == [S \in SUBSET D |-> {S}]
  <2>1. h \in F
    OBVIOUS
  <2>2. \A S \in SUBSET D : Cardinality(S) <= 0 => h[S] = val(h, S)
    BY <1>1
  <2> HIDE DEF val, h, F
  <2> QED BY <2>1, <2>2
<1>5. ASSUME NEW n \in Nat, n \in X PROVE n + 1 \in X
  <2>1. PICK h \in F : \A S \in SUBSET D : Cardinality(S) <= n => h[S] = val(h, S)
    BY <1>5
  <2> DEFINE g == [S \in SUBSET D |-> val(h, S)]
  <2>2. g \in F
    <3> HIDE DEF val
    <3> QED BY <1>3
  <2>3. \A S \in SUBSET D : Cardinality(S) <= n => g[S] = h[S]
    BY <2>1
  <2>4. ASSUME NEW S \in SUBSET D, Cardinality(S) <= n + 1 PROVE g[S] = val(g, S)
    <3>1. \A u \in Oldest(f, S) : g[S \ {u}] = h[S \ {u}]
      <4>1. \A u \in Oldest(f, S) : S \ {u} \in SUBSET D /\ Cardinality(S \ {u}) <= n
        BY <1>1, <1>2, <2>4
      <4> HIDE DEF g
      <4> QED BY <2>3, <4>1
    <3>2. {g[S \ {u}] : u \in Oldest(f, S)} = {h[S \ {u}] : u \in Oldest(f, S)}
      <4> HIDE DEF g
      <4> QED BY <3>1
    <3>3. g[S] = val(h, S)
      OBVIOUS
    <3> HIDE DEF g, stop
    <3> QED BY <3>2, <3>3
  <2> HIDE DEF g, val, F
  <2> QED BY <2>2, <2>4
<1>6. \A n \in Nat : n \in X
  <2> HIDE DEF X
  <2> QED BY <1>4, <1>5, NatSetInduction
<1>7. PICK h \in F :
         \A S \in SUBSET D : Cardinality(S) <= Cardinality(D) => h[S] = val(h, S)
  BY <1>1, <1>6
<1>8. \A S \in SUBSET D : Cardinality(S) <= Cardinality(D)
  BY FS_Subset
<1>9. h = [S \in SUBSET D |-> val(h, S)]
  <2> HIDE DEF val
  <2> QED BY <1>7, <1>8
<1> QED BY <1>9 DEF IsKeep

\* What eviction leaves: a part of the entries with room for the new one, or
\* nothing, and no entry older than one that had to go.
LEMMA KeptFacts ==
    ASSUME NEW f, IsFiniteSet(DOMAIN f), NEW size, NEW K \in Kept(f, size)
    PROVE  /\ K \subseteq DOMAIN f
           /\ K = {} \/ HasRoom(f, K, size)
           /\ \A v \in DOMAIN f \ K, w \in K : f[v].fetched_at <= f[w].fetched_at
<1> DEFINE D == DOMAIN f
           k == CHOOSE k : IsKeep(k, f, size)
           Good(S, L) == /\ L \subseteq S
                         /\ L = {} \/ HasRoom(f, L, size)
                         /\ \A v \in S \ L, w \in L : f[v].fetched_at <= f[w].fetched_at
           X == {S \in SUBSET D : \A L \in k[S] : Good(S, L)}
<1>1. IsKeep(k, f, size)
  BY KeepExists
<1>2. Kept(f, size) = k[D]
  BY DEF Kept, IsKeep
<1> HIDE DEF k
<1>3. \A S \in SUBSET D :
         k[S] = IF S = {} \/ HasRoom(f, S, size) THEN {S}
                ELSE UNION {k[S \ {u}] : u \in Oldest(f, S)}
  BY <1>1 DEF IsKeep
<1>4. ASSUME NEW S \in SUBSET D, \A U \in SUBSET S : U # S => U \in X
      PROVE  S \in X
  <2> SUFFICES ASSUME NEW L \in k[S] PROVE Good(S, L)
    OBVIOUS
  <2>1. CASE S = {} \/ HasRoom(f, S, size)
    <3>1. L = S
      BY <1>3, <2>1
    <3> QED BY <2>1, <3>1
  <2>2. CASE ~(S = {} \/ HasRoom(f, S, size))
    <3>1. PICK u \in Oldest(f, S) : L \in k[S \ {u}]
      <4>1. k[S] = UNION {k[S \ {u}] : u \in Oldest(f, S)}
        BY <1>3, <2>2
      <4> QED BY <4>1
    <3>2. u \in S /\ \A v \in S : f[u].fetched_at <= f[v].fetched_at
      BY <3>1 DEF Oldest
    <3>3. Good(S \ {u}, L)
      BY <1>4, <3>1, <3>2
    <3> QED BY <3>2, <3>3
  <2> QED BY <2>1, <2>2
<1>5. \A S \in SUBSET D : S \in X
  <2> HIDE DEF X
  <2> QED BY <1>4, SubsetInduction
<1> QED BY <1>2, <1>5

\* What insert_cache_entry may make of a cache: every entry is the new one or
\* an old one, the limits hold, and older entries went first.
LEMMA InsertFacts ==
    ASSUME NEW f, IsFiniteSet(DOMAIN f), Sized(f, DOMAIN f),
           Cardinality(DOMAIN f) <= MaxCacheEntries,
           CacheBytes(f, DOMAIN f) <= MaxCacheBytes,
           NEW u, NEW e, e.doc.size \in Nat, NEW g \in InsertCacheEntry(f, u, e)
    PROVE  /\ IsFiniteSet(DOMAIN g) /\ DOMAIN g \subseteq DOMAIN f \cup {u}
           /\ \A v \in DOMAIN g : g[v] = e \/ (v \in DOMAIN f /\ g[v] = f[v])
           /\ \A v \in DOMAIN g \ {u} : v \in DOMAIN f /\ g[v] = f[v]
           /\ Cardinality(DOMAIN g) <= MaxCacheEntries
           /\ CacheBytes(g, DOMAIN g) <= MaxCacheBytes
           /\ g = f \/ \A v \in DOMAIN f \ DOMAIN g, w \in (DOMAIN f \cap DOMAIN g) \ {u} :
                           f[v].fetched_at <= f[w].fetched_at
<1> USE CacheAssumption
<1>1. CASE e.doc.size > MaxCacheBytes \/ u \in LongUrls
  <2>1. g = f
    BY <1>1 DEF InsertCacheEntry
  <2> QED BY <2>1
<1>2. CASE ~(e.doc.size > MaxCacheBytes \/ u \in LongUrls)
  <2> DEFINE r == Without(f, u)
  <2>1. PICK K \in Kept(r, e.doc.size) :
           g = [v \in K \cup {u} |-> IF v = u THEN e ELSE f[v]]
    BY <1>2 DEF InsertCacheEntry
  <2>2. DOMAIN r = DOMAIN f \ {u} /\ \A v \in DOMAIN r : r[v] = f[v]
    BY DEF Without
  <2>3. IsFiniteSet(DOMAIN r)
    BY <2>2, FS_RemoveElement
  <2> HIDE DEF r
  <2>4. /\ K \subseteq DOMAIN r
        /\ K = {} \/ HasRoom(r, K, e.doc.size)
        /\ \A v \in DOMAIN r \ K, w \in K : r[v].fetched_at <= r[w].fetched_at
    BY <2>3, KeptFacts
  <2>5. DOMAIN g = K \cup {u} /\ u \notin K
    BY <2>1, <2>2, <2>4
  <2>6. \A v \in K : v \in DOMAIN f /\ g[v] = f[v] /\ r[v] = f[v]
    BY <2>1, <2>2, <2>4, <2>5
  <2>7. g[u] = e
    BY <2>1
  <2>8. IsFiniteSet(K) /\ Cardinality(K) \in Nat
    BY <2>3, <2>4, FS_Subset, FS_CardinalityType
  <2>9. IsFiniteSet(DOMAIN g) /\ Cardinality(DOMAIN g) = Cardinality(K) + 1
    BY <2>5, <2>8, FS_AddElement
  <2>10. Cardinality(DOMAIN g) <= MaxCacheEntries
    <3>1. K = {} => Cardinality(K) = 0
      BY FS_EmptySet
    <3> QED BY <2>4, <2>8, <2>9, <3>1 DEF HasRoom
  <2>11. CacheBytes(g, DOMAIN g) <= MaxCacheBytes
    <3>1. Sized(g, DOMAIN g) /\ Sized(g, K) /\ Sized(r, K)
      BY <2>5, <2>6, <2>7 DEF Sized
    <3>2. CacheBytes(g, DOMAIN g) = e.doc.size + CacheBytes(g, K)
      <4>1. DOMAIN g \ {u} = K
        BY <2>5
      <4>2. CacheBytes(g, DOMAIN g) = g[u].doc.size + CacheBytes(g, DOMAIN g \ {u})
        BY <2>5, <2>9, <3>1, CacheBytesFacts
      <4> QED BY <2>7, <4>1, <4>2
    <3>3. CacheBytes(g, K) = CacheBytes(r, K)
      BY <2>6, <2>8, <3>1, CacheBytesAgree
    <3>4. CacheBytes(r, K) \in Nat /\ (K = {} => CacheBytes(r, K) = 0)
      BY <2>8, <3>1, CacheBytesFacts
    <3>5. CacheBytes(r, K) <= MaxCacheBytes - e.doc.size
      BY <1>2, <2>4, <3>4 DEF HasRoom
    <3> QED BY <3>2, <3>3, <3>4, <3>5
  <2>12. \A v \in DOMAIN f \ DOMAIN g, w \in (DOMAIN f \cap DOMAIN g) \ {u} :
            f[v].fetched_at <= f[w].fetched_at
    BY <2>2, <2>4, <2>5, <2>6
  <2> QED BY <2>2, <2>4, <2>5, <2>6, <2>7, <2>9, <2>10, <2>11, <2>12
<1> QED BY <1>1, <1>2

\* Taking an entry out keeps the limits.
LEMMA WithoutFacts ==
    ASSUME NEW f, IsFiniteSet(DOMAIN f), Sized(f, DOMAIN f),
           Cardinality(DOMAIN f) <= MaxCacheEntries,
           CacheBytes(f, DOMAIN f) <= MaxCacheBytes, NEW u
    PROVE  LET g == Without(f, u) IN
           /\ IsFiniteSet(DOMAIN g) /\ DOMAIN g = DOMAIN f \ {u}
           /\ \A v \in DOMAIN g : g[v] = f[v]
           /\ Cardinality(DOMAIN g) <= MaxCacheEntries
           /\ CacheBytes(g, DOMAIN g) <= MaxCacheBytes
<1> DEFINE g == Without(f, u)
<1>1. DOMAIN g = DOMAIN f \ {u} /\ \A v \in DOMAIN g : g[v] = f[v]
  BY DEF Without
<1> HIDE DEF g
<1>2. IsFiniteSet(DOMAIN g) /\ Cardinality(DOMAIN g) <= Cardinality(DOMAIN f)
      /\ Cardinality(DOMAIN g) \in Nat /\ Cardinality(DOMAIN f) \in Nat
  BY <1>1, FS_Subset, FS_CardinalityType
<1>3. Sized(g, DOMAIN g) /\ Sized(f, DOMAIN g)
  BY <1>1 DEF Sized
<1>4. CacheBytes(g, DOMAIN g) = CacheBytes(f, DOMAIN g)
  BY <1>1, <1>2, <1>3, CacheBytesAgree
<1>5. CacheBytes(f, DOMAIN g) \in Nat /\ CacheBytes(f, DOMAIN f) \in Nat
  BY <1>2, <1>3, CacheBytesFacts
<1>6. CacheBytes(f, DOMAIN g) <= CacheBytes(f, DOMAIN f)
  <2>1. CASE u \in DOMAIN f
    <3>1. CacheBytes(f, DOMAIN f) = f[u].doc.size + CacheBytes(f, DOMAIN f \ {u})
      BY <2>1, CacheBytesFacts
    <3>2. f[u].doc.size \in Nat
      BY <2>1 DEF Sized
    <3> QED BY <1>1, <1>5, <3>1, <3>2
  <2>2. CASE u \notin DOMAIN f
    <3>1. DOMAIN g = DOMAIN f
      BY <1>1, <2>2
    <3> QED BY <1>5, <3>1
  <2> QED BY <2>1, <2>2
<1>7. CacheBytes(g, DOMAIN g) <= MaxCacheBytes
  BY <1>4, <1>5, <1>6, CacheAssumption
<1>8. Cardinality(DOMAIN g) <= MaxCacheEntries
  BY <1>2, CacheAssumption
<1> QED BY <1>1, <1>2, <1>7, <1>8 DEF g

-----------------------------------------------------------------------------
(* Documents.                                                              *)

\* Short sequences put together.
LEMMA ShortConcat ==
    ASSUME NEW a, NEW b
    PROVE  <<a>> \o <<>> = <<a>> /\ <<a>> \o <<b>> = <<a, b>>
<1> DEFINE S == {a, b}
           t == <<a>> \o <<b>>
<1>1. <<a>> \in Seq(S) /\ <<b>> \in Seq(S) /\ <<a, b>> \in Seq(S)
  OBVIOUS
<1>2. t \in Seq(S) /\ Len(t) = 2 /\ t[1] = a /\ t[2] = b
  BY <1>1, ConcatProperties
<1>3. <<a>> \o <<>> = <<a>>
  BY <1>1, ConcatEmptySeq
<1> HIDE DEF t
<1>4. t = <<a, b>>
  BY <1>1, <1>2
<1> QED BY <1>3, <1>4 DEF t

\* What the issuer publishes is a CRL, and lists the certificate once it is
\* revoked.
LEMMA CompleteFacts ==
    ASSUME revoked \in Nat \cup {NotRevoked},
           NEW this \in Nat, NEW next \in Nat \cup {NoNext}, NEW size \in Nat
    PROVE  LET d == Complete(this, next, size) IN
           /\ d \in CrlDocs /\ d.this = this /\ d.next = next
           /\ revoked = NotRevoked => EntryOf(d, Cert) = <<>>
           /\ revoked # NotRevoked =>
                EntryOf(d, Cert) # <<>> /\ EntryOf(d, Cert)[1].at = revoked
<1> DEFINE d == Complete(this, next, size)
           reason == <<[oid |-> "reasonCode", critical |-> FALSE, value |-> 1]>>
           other == [serial |-> "another", at |-> 0, exts |-> reason]
           mine == [serial |-> Cert.serial, at |-> revoked, exts |-> <<>>]
<1>1. Cert.serial \in STRING /\ Cert.serial # "another"
      /\ Issuer.subject \in STRING /\ Issuer.key \in STRING
  BY CallsAssumption
<1>2. /\ d.decodes = TRUE /\ d.issuer = Issuer.subject /\ d.signer = Issuer.key
      /\ d.exts = <<>> /\ d.this = this /\ d.next = next /\ d.size = size
      /\ d = [decodes |-> d.decodes, issuer |-> d.issuer, signer |-> d.signer,
              exts |-> d.exts, entries |-> d.entries, this |-> d.this,
              next |-> d.next, size |-> d.size]
  BY DEF Complete
<1>3. reason \in CrlExtensions /\ <<>> \in CrlExtensions
  BY DEF CrlExtensions
<1>4. other \in [serial: STRING, at: Nat, exts: CrlExtensions]
  <2>1. \A x \in CrlExtensions :
           [serial |-> "another", at |-> 0, exts |-> x]
              \in [serial: STRING, at: Nat, exts: CrlExtensions]
    BY NamesAssumption
  <2> QED BY <1>3, <2>1
<1>5. other.serial # Cert.serial /\ mine.serial = Cert.serial /\ mine.at = revoked
  BY <1>1
<1>6. CASE revoked = NotRevoked
  <2>1. d.entries = <<other>>
    <3>1. d.entries = <<other>> \o <<>>
      BY <1>6 DEF Complete
    <3> HIDE DEF other, d
    <3> QED BY <3>1, ShortConcat
  <2> HIDE DEF other, mine, d
  <2>2. d.entries \in RevokedEntries
    BY <1>4, <2>1 DEF RevokedEntries
  <2>3. d \in CrlDocs
    BY <1>1, <1>2, <1>3, <2>2 DEF CrlDocs
  <2>4. {i \in 1 .. Len(d.entries) : d.entries[i].serial = Cert.serial} = {}
    BY <1>5, <2>1
  <2>5. EntryOf(d, Cert) = <<>>
    BY <2>4 DEF EntryOf
  <2> QED BY <1>2, <1>6, <2>3, <2>5 DEF d
<1>7. CASE revoked # NotRevoked
  <2>1. d.entries = <<other, mine>>
    <3>1. d.entries = <<other>> \o <<mine>>
      BY <1>7 DEF Complete
    <3> HIDE DEF other, mine, d
    <3> QED BY <3>1, ShortConcat
  <2>2. mine \in [serial: STRING, at: Nat, exts: CrlExtensions]
    BY <1>1, <1>3, <1>7
  <2> HIDE DEF other, mine, d
  <2>3. d.entries \in RevokedEntries
    BY <1>4, <2>1, <2>2 DEF RevokedEntries
  <2>4. d \in CrlDocs
    BY <1>1, <1>2, <1>3, <2>3 DEF CrlDocs
  <2> DEFINE at == {i \in 1 .. Len(d.entries) : d.entries[i].serial = Cert.serial}
  <2>5. at = {2}
    BY <1>5, <2>1
  <2> DEFINE first == CHOOSE i \in at : \A j \in at : i <= j
  <2>6. EntryOf(d, Cert) = <<d.entries[first]>>
    BY <2>5 DEF EntryOf
  <2>7. first = 2
    <3> HIDE DEF at
    <3> QED BY <2>5
  <2> HIDE DEF first
  <2>8. EntryOf(d, Cert) = <<mine>>
    BY <2>1, <2>6, <2>7
  <2> QED BY <1>2, <1>5, <1>7, <2>4, <2>8 DEF d
<1> QED BY <1>6, <1>7

\* A CRL that does not tell all is refused.
LEMMA IncompleteRefused ==
    ASSUME NEW d \in CrlDocs, SaysIncomplete(d), NEW vt, NEW clock, NEW f
    PROVE  CheckRevocation(d, Cert, Issuer, vt, clock, f) = "Invalid"
<1>1. ~(ParseCrl(d) /\ VerifyCrlSignature(d, Issuer))
  <2>1. CASE ~d.decodes \/ d.signer # Issuer.key \/ d.issuer # Issuer.subject
    BY <2>1 DEF ParseCrl, VerifyCrlSignature
  <2>2. CASE \E i \in 1 .. Len(d.exts) :
               d.exts[i].critical
                 \/ d.exts[i].oid \in {"deltaCRLIndicator", "issuingDistributionPoint"}
    BY <2>2 DEF ParseCrl, ValidateCrlExtensions, ContainsOid
  <2>3. CASE \E i \in 1 .. Len(d.entries) : \E k \in 1 .. Len(d.entries[i].exts) :
               d.entries[i].exts[k].critical \/ d.entries[i].exts[k].oid = "certificateIssuer"
    BY <2>3 DEF ParseCrl, ParseRevokedCertificates, ValidateCrlExtensions
  <2> QED BY <2>1, <2>2, <2>3 DEF SaysIncomplete
<1> QED BY <1>1 DEF CheckRevocation

\* Nothing downloaded is nothing accepted.
LEMMA NoDocFacts ==
    /\ NoDoc \in CrlDocs /\ NoDoc.size = 0 /\ ~NoDoc.decodes
    /\ \A vt, clock, f : CheckRevocation(NoDoc, Cert, Issuer, vt, clock, f) = "Invalid"
<1>1. NoDoc \in CrlDocs
  <2>1. <<>> \in CrlExtensions /\ <<>> \in RevokedEntries
    BY DEF CrlExtensions, RevokedEntries
  <2> QED BY <2>1, NamesAssumption DEF NoDoc, CrlDocs
<1>2. NoDoc.size = 0 /\ NoDoc.decodes = FALSE
  BY DEF NoDoc
<1>3. ~ParseCrl(NoDoc)
  BY <1>2 DEF ParseCrl
<1> QED BY <1>1, <1>2, <1>3 DEF CheckRevocation

\* A check returns a status.
LEMMA CheckTyped ==
    ASSUME NEW d, NEW vt, NEW clock, NEW f
    PROVE  CheckRevocation(d, Cert, Issuer, vt, clock, f) \in Statuses
BY DEF CheckRevocation, Statuses

-----------------------------------------------------------------------------
(* The invariant.                                                          *)

\* Every document a call or the cache can hold.
Known == issued \cup {NoDoc} \cup UNION {Others[u] : u \in Urls}

\* The documents a call holds.
Held(c) ==
    {doc[c]} \cup {fallback[c][i] : i \in DOMAIN fallback[c]}
             \cup {chosen[c][i] : i \in DOMAIN chosen[c]}

\* While it downloads, a call is at one of its distribution points.
PointInv ==
    \A c \in Calls : point[c] # 0 /\ (pc[c] = "fetching" => point[c] <= Len(Points[c]))

\* What a call holds is known, and within its own body limit.
HeldInv == \A c \in Calls : \A d \in Held(c) : d \in Known /\ d.size <= MaxBodySize[c]

\* The cache is finite, within its limits, and holds known documents.
CacheInv ==
    /\ IsFiniteSet(DOMAIN cache)
    /\ \A u \in DOMAIN cache : cache[u].doc \in Known
    /\ CacheBounded

\* The last instant at which the issuer did not know of a revocation.
LastUnaware == IF revoked = NotRevoked THEN now ELSE revoked

\* A CRL of the issuer has one of its windows, and lists the certificate, or is
\* dated no later than the issuer may date one while it is unaware.
Honest(d) ==
    /\ \E w \in Windows : d.next = IF w = NoNext THEN NoNext ELSE d.this + w
    /\ \/ EntryOf(d, Cert) = <<>> /\ d.this <= LastUnaware + Ahead
       \/ /\ revoked # NotRevoked
          /\ EntryOf(d, Cert) # <<>> /\ EntryOf(d, Cert)[1].at = revoked

\* A revocation is not in the future, and all the issuer published is honest.
IssuedInv == (revoked # NotRevoked => revoked <= now) /\ \A d \in issued : Honest(d)

\* A definitive verdict is the check of the CRL chosen, at the time it was made.
DecidedInv ==
    \A c \in Calls :
        /\ pc[c] # "done" => verdict[c] = "pending"
        /\ verdict[c] \in {"Valid", "Revoked"} =>
             /\ chosen[c] # <<>>
             /\ verdict[c] = CheckRevocation(chosen[c][1], Cert, Issuer,
                                             ValidationTime[c], decidedAt[c], Policy[c])

\* The inductive invariant.
Inv == TypeOK /\ PointInv /\ HeldInv /\ CacheInv /\ IssuedInv /\ DecidedInv

\* The known documents are CRLs.
LEMMA KnownTyped == TypeOK => Known \subseteq CrlDocs
BY IssuerAssumption, NoDocFacts DEF TypeOK, Known

\* The entries of a typed cache have sizes.
LEMMA CacheSized == TypeOK => Sized(cache, DOMAIN cache)
BY DEF TypeOK, Sized, Entry, CrlDocs

\* The distribution point a call works on.
LEMMA UrlTyped ==
    ASSUME TypeOK, NEW c \in Calls, point[c] # 0, point[c] <= Len(Points[c])
    PROVE  url(c) \in Urls
<1>1. Points[c] \in Seq(Urls) /\ point[c] \in Nat
  BY CallsAssumption DEF TypeOK
<1> QED BY <1>1 DEF url

\* It holds at the start.
LEMMA InitInv == Init => Inv
<1> SUFFICES ASSUME Init PROVE Inv
  OBVIOUS
<1> USE DEF Init
<1>1. DOMAIN cache = {}
  OBVIOUS
<1>2. TypeOK
  BY <1>1, NoDocFacts DEF TypeOK
<1>3. PointInv
  BY DEF PointInv
<1>4. HeldInv
  <2> SUFFICES ASSUME NEW c \in Calls, NEW d \in Held(c)
               PROVE  d \in Known /\ d.size <= MaxBodySize[c]
    BY DEF HeldInv
  <2>1. d = NoDoc
    BY DEF Held
  <2> QED BY <2>1, NoDocFacts, CallsAssumption DEF Known
<1>5. CacheInv
  <2>1. IsFiniteSet({}) /\ Cardinality({}) = 0
    BY FS_EmptySet
  <2>2. CacheBytes(cache, {}) = 0
    BY <2>1, CacheBytesFacts DEF Sized
  <2> QED BY <1>1, <2>1, <2>2, CacheAssumption DEF CacheInv, CacheBounded
<1>6. IssuedInv
  BY DEF IssuedInv
<1>7. DecidedInv
  BY DEF DecidedInv
<1> QED BY <1>2, <1>3, <1>4, <1>5, <1>6, <1>7 DEF Inv

-----------------------------------------------------------------------------
(* Types.                                                                  *)

\* A cache after an insert or a removal is typed.
LEMMA CacheStepTyped ==
    ASSUME TypeOK, CacheInv, NEW u \in Urls
    PROVE  /\ DOMAIN Without(cache, u) \subseteq Urls
           /\ \A v \in DOMAIN Without(cache, u) : Without(cache, u)[v] \in Entry
           /\ \A e \in Entry : \A g \in InsertCacheEntry(cache, u, e) :
                DOMAIN g \subseteq Urls /\ \A v \in DOMAIN g : g[v] \in Entry
<1>1. /\ IsFiniteSet(DOMAIN cache) /\ Sized(cache, DOMAIN cache)
      /\ Cardinality(DOMAIN cache) <= MaxCacheEntries
      /\ CacheBytes(cache, DOMAIN cache) <= MaxCacheBytes
  BY CacheSized DEF CacheInv, CacheBounded
<1>2. ASSUME NEW e \in Entry, NEW g \in InsertCacheEntry(cache, u, e)
      PROVE  DOMAIN g \subseteq Urls /\ \A v \in DOMAIN g : g[v] \in Entry
  <2>1. e.doc.size \in Nat
    BY DEF Entry, CrlDocs
  <2>2. /\ DOMAIN g \subseteq DOMAIN cache \cup {u}
        /\ \A v \in DOMAIN g : g[v] = e \/ (v \in DOMAIN cache /\ g[v] = cache[v])
    BY <1>1, <2>1, InsertFacts
  <2> QED BY <2>2 DEF TypeOK
<1>3. /\ DOMAIN Without(cache, u) = DOMAIN cache \ {u}
      /\ \A v \in DOMAIN Without(cache, u) : Without(cache, u)[v] = cache[v]
  BY DEF Without
<1> QED BY <1>2, <1>3 DEF TypeOK

\* What is downloaded is known.
LEMMA DownloadKnown ==
    ASSUME TypeOK, PointInv, NEW c \in Calls, pc[c] = "fetching",
           NEW d \in issued \cup Others[url(c)]
    PROVE  url(c) \in Urls /\ d \in Known /\ d \in CrlDocs
<1>1. url(c) \in Urls
  BY UrlTyped DEF PointInv
<1> QED BY <1>1, KnownTyped DEF Known

\* Every step keeps the types.
LEMMA TypeStep == ASSUME Inv, [Next]_vars PROVE TypeOK'
<1> USE DEF Inv, world
<1>0. TypeOK /\ CacheInv /\ PointInv
  OBVIOUS
<1>1. ASSUME NEW c \in Calls, Lookup(c) PROVE TypeOK'
  <2>1. url(c) \in Urls
    BY <1>1, UrlTyped DEF Lookup, PointInv
  <2>2. CacheHit(c) => cache[url(c)].doc \in CrlDocs
    BY DEF CacheHit, TypeOK, Entry
  <2>3. /\ DOMAIN cache' \subseteq Urls /\ \A u \in DOMAIN cache' : cache'[u] \in Entry
        /\ doc' \in [Calls -> CrlDocs] /\ point' \in [Calls -> Nat]
        /\ pc' \in [Calls -> {"next", "fetching", "evaluate", "check", "done"}]
    <3>1. CASE CacheHit(c) /\ cache[url(c)].doc.size > MaxBodySize[c] /\ NextPoint(c)
               /\ UNCHANGED <<cache, doc>>
      BY <3>1 DEF NextPoint, TypeOK
    <3>2. CASE CacheHit(c) /\ doc' = [doc EXCEPT ![c] = cache[url(c)].doc]
               /\ pc' = [pc EXCEPT ![c] = "evaluate"] /\ UNCHANGED <<cache, point>>
      BY <2>2, <3>2 DEF TypeOK
    <3>3. CASE cache' = Without(cache, url(c)) /\ pc' = [pc EXCEPT ![c] = "fetching"]
               /\ UNCHANGED <<point, doc>>
      BY <2>1, <3>3, CacheStepTyped DEF TypeOK
    <3> QED BY <1>1, <3>1, <3>2, <3>3 DEF Lookup
  <2> QED BY <1>1, <2>3 DEF Lookup, TypeOK
<1>2. ASSUME NEW c \in Calls, DownloadFails(c) PROVE TypeOK'
  BY <1>2 DEF DownloadFails, NextPoint, TypeOK
<1>3. ASSUME NEW c \in Calls, Download(c) PROVE TypeOK'
  <2>1. PICK d \in issued \cup Others[url(c)] :
          /\ doc' = [doc EXCEPT ![c] = d]
          /\ \/ cache' \in InsertCacheEntry(cache, url(c), [doc |-> d, fetched_at |-> now])
             \/ UNCHANGED cache
    BY <1>3 DEF Download
  <2>2. url(c) \in Urls /\ d \in CrlDocs
    BY <1>3, DownloadKnown DEF Download
  <2>3. [doc |-> d, fetched_at |-> now] \in Entry
    BY <2>2 DEF Entry, TypeOK
  <2>4. DOMAIN cache' \subseteq Urls /\ \A u \in DOMAIN cache' : cache'[u] \in Entry
    BY <2>1, <2>2, <2>3, CacheStepTyped DEF TypeOK
  <2> QED BY <1>3, <2>1, <2>2, <2>4 DEF Download, TypeOK
<1>4. ASSUME NEW c \in Calls, Evaluate(c) PROVE TypeOK'
  <2>1. doc[c] \in CrlDocs /\ fallback[c] \in Seq(CrlDocs) /\ <<doc[c]>> \in Seq(CrlDocs)
    BY DEF TypeOK
  <2>2. chosen' \in [Calls -> Seq(CrlDocs)] /\ fallback' \in [Calls -> Seq(CrlDocs)]
    BY <1>4, <2>1 DEF Evaluate, TypeOK
  <2>3. /\ point' \in [Calls -> Nat]
        /\ pc' \in [Calls -> {"next", "fetching", "evaluate", "check", "done"}]
    <3>1. (pc' = [pc EXCEPT ![c] = "check"] /\ point' = point) \/ NextPoint(c)
      BY <1>4 DEF Evaluate
    <3>2. CASE pc' = [pc EXCEPT ![c] = "check"] /\ point' = point
      BY <3>2 DEF TypeOK
    <3>3. CASE NextPoint(c)
      BY <3>3 DEF NextPoint, TypeOK
    <3> QED BY <3>1, <3>2, <3>3
  <2> QED BY <1>4, <2>2, <2>3 DEF Evaluate, TypeOK
<1>5. ASSUME NEW c \in Calls, PointsExhausted(c) PROVE TypeOK'
  BY <1>5 DEF PointsExhausted, TypeOK
<1>6. ASSUME NEW c \in Calls, Check(c) PROVE TypeOK'
  <2>1. "Unknown" \in Statuses
    BY DEF Statuses
  <2> QED BY <1>6, <2>1, CheckTyped DEF Check, Finish, TypeOK
<1>7. ASSUME NEW c \in Calls, TimedOut(c) PROVE TypeOK'
  BY <1>7 DEF TimedOut, Finish, TypeOK, Statuses
<1>8. CASE ClearCache
  BY <1>8 DEF ClearCache, TypeOK
<1>9. CASE Issue
  <2>1. PICK w \in Windows, a \in 0 .. Ahead, size \in Sizes :
          issued' = issued \cup
            {Complete(now + a, IF w = NoNext THEN NoNext ELSE now + a + w, size)}
    BY <1>9 DEF Issue
  <2>2. /\ now + a \in Nat /\ size \in Nat
        /\ (IF w = NoNext THEN NoNext ELSE now + a + w) \in Nat \cup {NoNext}
    BY IssuerAssumption DEF TypeOK
  <2>3. Complete(now + a, IF w = NoNext THEN NoNext ELSE now + a + w, size) \in CrlDocs
    BY <2>2, CompleteFacts DEF TypeOK
  <2> QED BY <1>9, <2>1, <2>3 DEF Issue, TypeOK
<1>10. CASE Revoke
  BY <1>10 DEF Revoke, TypeOK
<1>11. CASE Tick
  BY <1>11 DEF Tick, TypeOK
<1>12. CASE UNCHANGED vars
  BY <1>12 DEF vars, TypeOK
<1> QED BY <1>1, <1>2, <1>3, <1>4, <1>5, <1>6, <1>7, <1>8, <1>9, <1>10, <1>11, <1>12
        DEF Next, CallStep, Quiescent

-----------------------------------------------------------------------------
(* The other parts of the invariant.                                       *)

\* Only Lookup starts a download, at a distribution point there is.
LEMMA PointStep == ASSUME Inv, [Next]_vars PROVE PointInv'
<1> USE DEF Inv, PointInv
<1>1. ASSUME NEW c \in Calls, CallStep(c) PROVE PointInv'
  <2>1. TypeOK /\ PointInv
    OBVIOUS
  <2>2. \/ NextPoint(c)
        \/ point' = point /\ \E p \in {"evaluate", "check", "done"} : pc' = [pc EXCEPT ![c] = p]
        \/ point' = point /\ pc' = [pc EXCEPT ![c] = "fetching"] /\ point[c] <= Len(Points[c])
    BY <1>1 DEF CallStep, Lookup, Download, DownloadFails, Evaluate, PointsExhausted,
                Check, TimedOut, Finish
  <2> QED BY <2>1, <2>2 DEF NextPoint, TypeOK
<1>2. CASE UNCHANGED <<pc, point>>
  BY <1>2
<1> QED BY <1>1, <1>2 DEF Next, ClearCache, Issue, Revoke, Tick, Quiescent, vars

\* Known documents stay known.
LEMMA KnownGrows == ASSUME [Next]_vars PROVE Known \subseteq Known'
<1>1. issued \subseteq issued'
  BY DEF Next, CallStep, Lookup, Download, DownloadFails, Evaluate, PointsExhausted,
         Check, TimedOut, ClearCache, Issue, Revoke, Tick, Quiescent, vars, world
<1> QED BY <1>1 DEF Known

\* The parts of Held.
LEMMA HeldParts ==
    ASSUME NEW c \in Calls
    PROVE  /\ doc[c] \in Held(c)
           /\ \A i \in DOMAIN fallback[c] : fallback[c][i] \in Held(c)
           /\ \A i \in DOMAIN chosen[c] : chosen[c][i] \in Held(c)
BY DEF Held

\* What a call takes from the network or from the cache is known and within its
\* limit; Evaluate and PointsExhausted pass on what it holds.
LEMMA HeldStep == ASSUME Inv, [Next]_vars PROVE HeldInv'
<1> USE DEF Inv
<1>0. TypeOK /\ PointInv /\ HeldInv /\ CacheInv /\ Known \subseteq Known'
  BY KnownGrows
<1> SUFFICES ASSUME NEW c \in Calls, NEW d \in Held(c)'
             PROVE  d \in Known /\ d.size <= MaxBodySize[c]
  BY <1>0 DEF HeldInv
<1> DEFINE Ok(x) == x \in Known /\ x.size <= MaxBodySize[c]
<1>1. \A x \in Held(c) : Ok(x)
  BY DEF HeldInv
<1>2. Ok(doc'[c])
  <2>1. CASE Lookup(c) /\ CacheHit(c) /\ cache[url(c)].doc.size <= MaxBodySize[c]
             /\ doc' = [doc EXCEPT ![c] = cache[url(c)].doc]
    <3>1. doc'[c] = cache[url(c)].doc /\ url(c) \in DOMAIN cache
      BY <2>1 DEF TypeOK, CacheHit
    <3> QED BY <2>1, <3>1 DEF CacheInv
  <2>2. CASE Download(c)
    <3>1. PICK x \in issued \cup Others[url(c)] :
             x.size <= MaxBodySize[c] /\ doc' = [doc EXCEPT ![c] = x]
      BY <2>2 DEF Download
    <3>2. doc'[c] = x
      BY <3>1 DEF TypeOK
    <3>3. x \in Known
      BY <2>2, DownloadKnown DEF Download
    <3> QED BY <3>1, <3>2, <3>3
  <2>3. CASE doc'[c] = doc[c]
    BY <1>1, <2>3, HeldParts
  <2>4. ASSUME NEW b \in Calls, b # c, CallStep(b) PROVE doc'[c] = doc[c]
    BY <2>4 DEF CallStep, Lookup, Download, DownloadFails, Evaluate, PointsExhausted,
                Check, TimedOut, TypeOK
  <2>5. CallStep(c) => \/ doc' = doc \/ Download(c)
                       \/ /\ Lookup(c) /\ CacheHit(c)
                          /\ cache[url(c)].doc.size <= MaxBodySize[c]
                          /\ doc' = [doc EXCEPT ![c] = cache[url(c)].doc]
    BY DEF CallStep, Lookup, DownloadFails, Evaluate, PointsExhausted, Check, TimedOut
  <2> QED BY <2>1, <2>2, <2>3, <2>4, <2>5
          DEF Next, ClearCache, Issue, Revoke, Tick, Quiescent, vars
<1>3. \A i \in DOMAIN fallback'[c] : Ok(fallback'[c][i])
  <2>1. fallback'[c] = fallback[c] \/ fallback'[c] = <<doc[c]>>
    <3>1. ASSUME NEW b \in Calls, Evaluate(b) PROVE fallback'[c] \in {fallback[c], <<doc[c]>>}
      BY <3>1 DEF Evaluate, TypeOK
    <3> QED BY <3>1 DEF Next, CallStep, Lookup, Download, DownloadFails, PointsExhausted,
                        Check, TimedOut, ClearCache, Issue, Revoke, Tick, Quiescent, vars
  <2>2. CASE fallback'[c] = fallback[c]
    BY <1>1, <2>2, HeldParts
  <2>3. CASE fallback'[c] = <<doc[c]>>
    BY <1>1, <2>3, HeldParts
  <2> QED BY <2>1, <2>2, <2>3
<1>4. \A i \in DOMAIN chosen'[c] : Ok(chosen'[c][i])
  <2>1. chosen'[c] \in {chosen[c], <<doc[c]>>, fallback[c]}
    <3>1. ASSUME NEW b \in Calls, Evaluate(b) \/ PointsExhausted(b)
          PROVE  chosen'[c] \in {chosen[c], <<doc[c]>>, fallback[c]}
      BY <3>1 DEF Evaluate, PointsExhausted, TypeOK
    <3> QED BY <3>1 DEF Next, CallStep, Lookup, Download, DownloadFails,
                        Check, TimedOut, ClearCache, Issue, Revoke, Tick, Quiescent, vars
  <2>2. CASE chosen'[c] = chosen[c]
    BY <1>1, <2>2, HeldParts
  <2>3. CASE chosen'[c] = <<doc[c]>>
    BY <1>1, <2>3, HeldParts
  <2>4. CASE chosen'[c] = fallback[c]
    BY <1>1, <2>4, HeldParts
  <2> QED BY <2>1, <2>2, <2>3, <2>4
<1> QED BY <1>2, <1>3, <1>4 DEF Held

\* Removals, inserts and clear_cache keep the cache within its limits.
LEMMA CacheStep == ASSUME Inv, [Next]_vars PROVE CacheInv'
<1> USE DEF Inv
<1>0. TypeOK /\ PointInv /\ CacheInv /\ Known \subseteq Known'
  BY KnownGrows
<1> DEFINE Fits(f) == /\ IsFiniteSet(DOMAIN f)
                      /\ Cardinality(DOMAIN f) <= MaxCacheEntries
                      /\ CacheBytes(f, DOMAIN f) <= MaxCacheBytes
<1>1. Fits(cache) /\ Sized(cache, DOMAIN cache)
  BY CacheSized DEF CacheInv, CacheBounded
<1> SUFFICES Fits(cache') /\ \A u \in DOMAIN cache' : cache'[u].doc \in Known
  BY <1>0 DEF CacheInv, CacheBounded
<1>2. CASE UNCHANGED cache
  BY <1>1, <1>2 DEF CacheInv
<1>3. ASSUME NEW c \in Calls, cache' = Without(cache, url(c))
      PROVE  Fits(cache') /\ \A u \in DOMAIN cache' : cache'[u].doc \in Known
  <2> DEFINE g == Without(cache, url(c))
  <2>1. Fits(g) /\ DOMAIN g \subseteq DOMAIN cache /\ \A v \in DOMAIN g : g[v] = cache[v]
    BY <1>1, WithoutFacts
  <2> HIDE DEF g
  <2>2. cache' = g
    BY <1>3 DEF g
  <2> QED BY <2>1, <2>2 DEF CacheInv
<1>4. ASSUME NEW c \in Calls, Download(c)
      PROVE  Fits(cache') /\ \A u \in DOMAIN cache' : cache'[u].doc \in Known
  <2>1. PICK d \in issued \cup Others[url(c)] :
           cache' \in InsertCacheEntry(cache, url(c), [doc |-> d, fetched_at |-> now])
              \/ UNCHANGED cache
    BY <1>4 DEF Download
  <2> DEFINE e == [doc |-> d, fetched_at |-> now]
  <2>2. e.doc = d /\ e.doc.size \in Nat /\ d \in Known
    BY <1>4, DownloadKnown DEF Download, CrlDocs
  <2> HIDE DEF e
  <2>3. CASE cache' \in InsertCacheEntry(cache, url(c), e)
    <3>1. /\ Fits(cache')
          /\ \A v \in DOMAIN cache' : cache'[v] = e \/ (v \in DOMAIN cache /\ cache'[v] = cache[v])
      BY <1>1, <2>2, <2>3, InsertFacts
    <3> QED BY <2>2, <3>1 DEF CacheInv
  <2> QED BY <1>2, <2>1, <2>3 DEF e
<1>5. CASE ClearCache
  <2>1. DOMAIN cache' = {}
    BY <1>5 DEF ClearCache
  <2>2. IsFiniteSet({}) /\ Cardinality({}) = 0
    BY FS_EmptySet
  <2>3. CacheBytes(cache', {}) = 0
    BY <2>2, CacheBytesFacts DEF Sized
  <2> QED BY <2>1, <2>2, <2>3, CacheAssumption
<1>6. ASSUME NEW c \in Calls, Lookup(c)
      PROVE  UNCHANGED cache \/ cache' = Without(cache, url(c))
  BY <1>6 DEF Lookup
<1> HIDE DEF Fits
<1> QED BY <1>2, <1>3, <1>4, <1>5, <1>6
        DEF Next, CallStep, DownloadFails, Evaluate, PointsExhausted, Check, TimedOut,
            Issue, Revoke, Tick, Quiescent, vars

\* What the issuer has published stays honest: it learns of a revocation once,
\* and time only adds to what it may date ahead.
LEMMA IssuedStep == ASSUME Inv, [Next]_vars PROVE IssuedInv'
<1> USE DEF Inv
<1>0. TypeOK /\ IssuedInv
  OBVIOUS
<1>1. now \in Nat /\ revoked \in Nat \cup {NotRevoked} /\ Ahead \in Nat
      /\ (revoked # NotRevoked => revoked <= now) /\ NotRevoked = -1
  BY IssuerAssumption DEF TypeOK, IssuedInv, NotRevoked
<1>2. \A d \in issued : d.this \in Nat
  BY DEF TypeOK, CrlDocs
<1>3. CASE Tick
  <2>1. now' = now + 1 /\ revoked' = revoked /\ issued' = issued
    BY <1>3 DEF Tick, world
  <2>2. ASSUME NEW d \in issued PROVE Honest(d)'
    <3>1. Honest(d) /\ d.this \in Nat
      BY <1>2 DEF IssuedInv
    <3> QED BY <1>1, <2>1, <3>1 DEF Honest, LastUnaware
  <2> QED BY <1>1, <2>1, <2>2 DEF IssuedInv
<1>4. CASE Revoke
  <2>1. now' = now /\ revoked' = now /\ revoked = NotRevoked /\ issued' = issued
    BY <1>4 DEF Revoke
  <2>2. ASSUME NEW d \in issued PROVE Honest(d)'
    <3>1. Honest(d) /\ d.this \in Nat
      BY <1>2 DEF IssuedInv
    <3> QED BY <1>1, <2>1, <3>1 DEF Honest, LastUnaware
  <2> QED BY <1>1, <2>1, <2>2 DEF IssuedInv
<1>5. CASE Issue
  <2>1. PICK w \in Windows, a \in 0 .. Ahead, size \in Sizes :
          issued' = issued \cup
            {Complete(now + a, IF w = NoNext THEN NoNext ELSE now + a + w, size)}
    BY <1>5 DEF Issue
  <2> DEFINE next == IF w = NoNext THEN NoNext ELSE now + a + w
             this == now + a
             d == Complete(this, next, size)
  <2>2. now + a \in Nat /\ size \in Nat /\ next \in Nat \cup {NoNext} /\ a <= Ahead
    BY <1>1, IssuerAssumption
  <2>3. now' = now /\ revoked' = revoked
    BY <1>5 DEF Issue
  <2>4. /\ d.this = now + a /\ d.next = next
        /\ revoked = NotRevoked => EntryOf(d, Cert) = <<>>
        /\ revoked # NotRevoked => EntryOf(d, Cert) # <<>> /\ EntryOf(d, Cert)[1].at = revoked
    <3>1. this \in Nat /\ this = now + a
      BY <2>2
    <3> HIDE DEF next, this, d
    <3>2. /\ d.this = this /\ d.next = next
          /\ revoked = NotRevoked => EntryOf(d, Cert) = <<>>
          /\ revoked # NotRevoked =>
               EntryOf(d, Cert) # <<>> /\ EntryOf(d, Cert)[1].at = revoked
      BY <1>1, <2>2, <3>1, CompleteFacts DEF d
    <3> QED BY <3>1, <3>2
  <2>5. Honest(d)
    <3>1. d.next = IF w = NoNext THEN NoNext ELSE d.this + w
      BY <2>4
    <3> HIDE DEF d, next
    <3> QED BY <1>1, <2>2, <2>4, <3>1 DEF Honest, LastUnaware
  <2> HIDE DEF d
  <2>6. \A x \in issued \cup {d} : Honest(x)'
    BY <2>3, <2>5 DEF IssuedInv, Honest, LastUnaware
  <2>7. issued' = issued \cup {d}
    BY <2>1 DEF d
  <2> QED BY <1>1, <2>3, <2>6, <2>7 DEF IssuedInv
<1>6. CASE UNCHANGED <<now, world>>
  BY <1>6 DEF IssuedInv, Honest, LastUnaware, world
<1> QED BY <1>3, <1>4, <1>5, <1>6
        DEF Next, CallStep, Lookup, Download, DownloadFails, Evaluate, PointsExhausted,
            Check, TimedOut, ClearCache, Quiescent, vars, world

\* A verdict is written once, by Check, from the CRL chosen.
LEMMA DecidedStep == ASSUME Inv, [Next]_vars PROVE DecidedInv'
<1> USE DEF Inv
<1>0. TypeOK /\ DecidedInv
  OBVIOUS
<1> DEFINE Told(c) ==
      /\ pc[c] # "done" => verdict[c] = "pending"
      /\ verdict[c] \in {"Valid", "Revoked"} =>
           /\ chosen[c] # <<>>
           /\ verdict[c] = CheckRevocation(chosen[c][1], Cert, Issuer,
                                           ValidationTime[c], decidedAt[c], Policy[c])
<1> SUFFICES ASSUME NEW c \in Calls PROVE Told(c)'
  BY DEF DecidedInv
<1>1. Told(c)
  BY DEF DecidedInv
<1>2. CASE /\ pc'[c] = pc[c] /\ verdict'[c] = verdict[c] /\ chosen'[c] = chosen[c]
           /\ decidedAt'[c] = decidedAt[c]
  BY <1>1, <1>2
<1>3. CASE pc[c] # "done" /\ verdict'[c] = verdict[c]
  BY <1>1, <1>3
<1>4. CASE Check(c)
  <2>1. /\ chosen' = chosen /\ pc'[c] = "done" /\ decidedAt'[c] = now
        /\ verdict'[c] = IF chosen[c] = <<>> THEN "Unknown"
                         ELSE CheckRevocation(chosen[c][1], Cert, Issuer,
                                              ValidationTime[c], now, Policy[c])
    BY <1>4 DEF Check, Finish, TypeOK
  <2> QED BY <2>1
<1>5. CASE TimedOut(c)
  <2>1. verdict'[c] = "Unknown" /\ pc'[c] = "done"
    BY <1>5 DEF TimedOut, Finish, TypeOK
  <2> QED BY <2>1
<1>6. ASSUME Lookup(c) \/ Download(c) \/ DownloadFails(c) \/ Evaluate(c) \/ PointsExhausted(c)
      PROVE  pc[c] # "done" /\ verdict'[c] = verdict[c]
  BY <1>6 DEF Lookup, Download, DownloadFails, Evaluate, PointsExhausted
<1>7. ASSUME NEW b \in Calls, b # c, CallStep(b)
      PROVE  /\ pc'[c] = pc[c] /\ verdict'[c] = verdict[c] /\ chosen'[c] = chosen[c]
             /\ decidedAt'[c] = decidedAt[c]
  BY <1>7 DEF CallStep, Lookup, Download, DownloadFails, Evaluate, PointsExhausted,
              Check, TimedOut, Finish, NextPoint, TypeOK
<1>8. ASSUME UNCHANGED <<pc, verdict, chosen, decidedAt>>
      PROVE  /\ pc'[c] = pc[c] /\ verdict'[c] = verdict[c] /\ chosen'[c] = chosen[c]
             /\ decidedAt'[c] = decidedAt[c]
  BY <1>8
<1> HIDE DEF Told
<1> QED BY <1>2, <1>3, <1>4, <1>5, <1>6, <1>7, <1>8
        DEF Next, CallStep, ClearCache, Issue, Revoke, Tick, Quiescent, vars

-----------------------------------------------------------------------------
(* What the invariant says of a verdict.                                   *)

\* A definitive verdict rests on a CRL of the issuer: everything else a call
\* can hold is refused by parse_crl or by the signature check.
LEMMA VerdictFromIssuer ==
    ASSUME Inv, NEW c \in Calls, verdict[c] \in {"Valid", "Revoked"}
    PROVE  LET d == chosen[c][1] IN
           /\ d \in issued /\ d \in CrlDocs
           /\ ValidateCrlDates(d.this, d.next, Instant(c), Policy[c])
           /\ verdict[c] = "Revoked" <=>
                EntryOf(d, Cert) # <<>> /\ EntryOf(d, Cert)[1].at <= Instant(c)
<1> USE DEF Inv
<1> DEFINE d == chosen[c][1]
<1>1. /\ chosen[c] # <<>>
      /\ verdict[c] = CheckRevocation(d, Cert, Issuer, ValidationTime[c], decidedAt[c], Policy[c])
  BY DEF DecidedInv
<1>2. d \in Known
  <2>1. chosen[c] \in Seq(CrlDocs)
    BY DEF TypeOK
  <2>2. 1 \in DOMAIN chosen[c]
    BY <1>1, <2>1
  <2> QED BY <2>2, HeldParts DEF HeldInv
<1>3. d \in CrlDocs
  BY <1>2, KnownTyped
<1> HIDE DEF d
<1>4. d # NoDoc
  BY <1>1, NoDocFacts
<1>5. ~SaysIncomplete(d)
  BY <1>1, <1>3, IncompleteRefused
<1>6. d \in issued
  BY <1>2, <1>4, <1>5, IssuerAssumption DEF Known
<1> QED BY <1>1, <1>3, <1>6 DEF CheckRevocation, Instant, d

\* The instant a call judges is a time.
LEMMA InstantTyped == ASSUME TypeOK, NEW c \in Calls PROVE Instant(c) \in Nat
BY CallsAssumption DEF TypeOK, Instant

\* A revocation takes effect in every state the invariant allows.
LEMMA EffectFollows == Inv => RevocationTakesEffect
<1> SUFFICES ASSUME Inv, NEW c \in Calls, verdict[c] = "Valid", revoked # NotRevoked
             PROVE  \E w \in Windows : Instant(c) <= revoked + Exposure(c, w)
  BY DEF RevocationTakesEffect
<1> DEFINE d == chosen[c][1]
           t == Instant(c)
<1>1. /\ d \in issued /\ d \in CrlDocs
      /\ ValidateCrlDates(d.this, d.next, t, Policy[c])
      /\ ~(EntryOf(d, Cert) # <<>> /\ EntryOf(d, Cert)[1].at <= t)
  BY VerdictFromIssuer
<1>2. t \in Nat /\ revoked \in Nat /\ Ahead \in Nat /\ Windows \subseteq Nat \cup {NoNext}
  BY InstantTyped, IssuerAssumption DEF Inv, TypeOK
<1>3. Honest(d)
  BY <1>1 DEF Inv, IssuedInv
<1>4. d.this \in Nat /\ Policy[c].max_age \in Nat /\ Policy[c].clock_skew \in Nat
  BY <1>1, CallsAssumption DEF CrlDocs, Freshness
<1> HIDE DEF d, t
<1>5. PICK w \in Windows : d.next = IF w = NoNext THEN NoNext ELSE d.this + w
  BY <1>3 DEF Honest
<1>6. t <= revoked + Exposure(c, w)
  <2>1. CASE EntryOf(d, Cert) = <<>> /\ d.this <= LastUnaware + Ahead
    <3>1. d.this <= revoked + Ahead
      BY <2>1 DEF LastUnaware
    <3>2. CASE w = NoNext
      <4>1. d.next = NoNext
        BY <1>5, <3>2
      <4>2. t <= d.this + Policy[c].max_age + Policy[c].clock_skew
        BY <1>1, <4>1 DEF ValidateCrlDates
      <4>3. Exposure(c, w) = Ahead + Policy[c].max_age + Policy[c].clock_skew
        BY <3>2 DEF Exposure
      <4> QED BY <1>2, <1>4, <3>1, <4>2, <4>3
    <3>3. CASE w # NoNext
      <4>1. w \in Nat /\ d.next = d.this + w /\ d.next # NoNext
        BY <1>2, <1>4, <1>5, <3>3 DEF NoNext
      <4>2. t <= d.next + Policy[c].clock_skew
        BY <1>1, <4>1 DEF ValidateCrlDates
      <4>3. Exposure(c, w) = Ahead + w + Policy[c].clock_skew
        BY <3>3 DEF Exposure
      <4> QED BY <1>2, <1>4, <3>1, <4>1, <4>2, <4>3
    <3> QED BY <3>2, <3>3
  <2>2. CASE EntryOf(d, Cert) # <<>> /\ EntryOf(d, Cert)[1].at = revoked
    <3>1. t < revoked
      BY <1>1, <1>2, <2>2
    <3>2. Exposure(c, w) \in Nat
      BY <1>2, <1>4 DEF Exposure
    <3> QED BY <1>2, <3>1, <3>2
  <2> QED BY <1>3, <2>1, <2>2 DEF Honest
<1> QED BY <1>6 DEF t

\* Revoked is true in every state the invariant allows.
LEMMA TruthFollows == Inv => RevokedIsTrue
<1> SUFFICES ASSUME Inv, NEW c \in Calls, verdict[c] = "Revoked"
             PROVE  revoked # NotRevoked /\ revoked <= Instant(c)
  BY DEF RevokedIsTrue
<1> DEFINE d == chosen[c][1]
<1>1. d \in issued /\ EntryOf(d, Cert) # <<>> /\ EntryOf(d, Cert)[1].at <= Instant(c)
  BY VerdictFromIssuer
<1> HIDE DEF d
<1>2. Honest(d)
  BY <1>1 DEF Inv, IssuedInv
<1> QED BY <1>1, <1>2 DEF Honest

\* A call's own limit holds for what it has chosen.
LEMMA LimitFollows == Inv => BodyLimitHolds
BY HeldParts DEF Inv, HeldInv, BodyLimitHolds

\* A step that puts a new entry into the cache is an insert, and it gives up
\* older entries before younger ones.
LEMMA EvictionStep ==
    ASSUME Inv, Next, NEW u \in Urls,
           u \in DOMAIN cache', u \in DOMAIN cache => cache'[u] # cache[u]
    PROVE  \A v \in DOMAIN cache \ DOMAIN cache' :
           \A w \in (DOMAIN cache \cap DOMAIN cache') \ {u} :
               cache[v].fetched_at <= cache[w].fetched_at
<1> USE DEF Inv
<1>1. /\ IsFiniteSet(DOMAIN cache) /\ Sized(cache, DOMAIN cache)
      /\ Cardinality(DOMAIN cache) <= MaxCacheEntries
      /\ CacheBytes(cache, DOMAIN cache) <= MaxCacheBytes
  BY CacheSized DEF CacheInv, CacheBounded
<1>2. cache' # cache
  OBVIOUS
<1>3. ASSUME NEW c \in Calls PROVE ~Lookup(c)
  <2>1. DOMAIN Without(cache, url(c)) \subseteq DOMAIN cache
        /\ \A v \in DOMAIN Without(cache, url(c)) : Without(cache, url(c))[v] = cache[v]
    BY DEF Without
  <2>2. cache' # Without(cache, url(c))
    BY <2>1
  <2> QED BY <1>2, <2>2 DEF Lookup
<1>4. ~ClearCache
  BY DEF ClearCache
<1>5. PICK c \in Calls : Download(c)
  BY <1>2, <1>3, <1>4 DEF Next, CallStep, DownloadFails, Evaluate, PointsExhausted,
                          Check, TimedOut, Issue, Revoke, Tick, Quiescent, vars
<1>6. PICK d \in issued \cup Others[url(c)] :
         cache' \in InsertCacheEntry(cache, url(c), [doc |-> d, fetched_at |-> now])
  BY <1>2, <1>5 DEF Download
<1> DEFINE e == [doc |-> d, fetched_at |-> now]
<1>7. e.doc.size \in Nat
  BY <1>5, DownloadKnown DEF Download, CrlDocs
<1> HIDE DEF e
<1>8. /\ \A v \in DOMAIN cache' \ {url(c)} : v \in DOMAIN cache /\ cache'[v] = cache[v]
      /\ \A v \in DOMAIN cache \ DOMAIN cache',
            w \in (DOMAIN cache \cap DOMAIN cache') \ {url(c)} :
                cache[v].fetched_at <= cache[w].fetched_at
  <2>1. cache' \in InsertCacheEntry(cache, url(c), e)
    BY <1>6 DEF e
  <2> QED BY <1>1, <1>2, <1>7, <2>1, InsertFacts
<1>9. u = url(c)
  BY <1>8
<1> QED BY <1>8, <1>9

\* What the walk over the distribution points does in one step: it settles for
\* a current CRL or at the end of the points, and goes past no current CRL
\* (fetch_crls_for_cert_with_freshness).
LEMMA WalkStep ==
    ASSUME Inv, Next, NEW c \in Calls
    PROVE  /\ chosen'[c] # chosen[c] =>
                \/ CrlIsCurrent(chosen'[c][1], now, Policy[c])
                \/ point[c] > Len(Points[c])
           /\ point'[c] # point[c] /\ pc[c] = "evaluate" =>
                ~CrlIsCurrent(doc[c], now, Policy[c])
<1> USE DEF Inv
<1>1. CASE Evaluate(c)
  <2>1. CASE CrlIsCurrent(doc[c], now, Policy[c])
    <3>1. chosen'[c] = <<doc[c]>> /\ point' = point
      BY <1>1, <2>1 DEF Evaluate, TypeOK
    <3> QED BY <2>1, <3>1
  <2>2. CASE ~CrlIsCurrent(doc[c], now, Policy[c])
    <3>1. chosen' = chosen
      BY <1>1, <2>2 DEF Evaluate
    <3> QED BY <2>2, <3>1
  <2> QED BY <2>1, <2>2
<1>2. CASE PointsExhausted(c)
  BY <1>2 DEF PointsExhausted
<1>3. CASE Lookup(c) \/ Download(c) \/ DownloadFails(c) \/ Check(c) \/ TimedOut(c)
  BY <1>3 DEF Lookup, Download, DownloadFails, Check, TimedOut
<1>4. ASSUME NEW b \in Calls, b # c, CallStep(b)
      PROVE  chosen'[c] = chosen[c] /\ point'[c] = point[c]
  BY <1>4 DEF CallStep, Lookup, Download, DownloadFails, Evaluate, PointsExhausted,
              Check, TimedOut, NextPoint, TypeOK
<1>5. CASE ClearCache \/ Issue \/ Revoke \/ Tick \/ Quiescent
  BY <1>5 DEF ClearCache, Issue, Revoke, Tick, Quiescent, vars
<1> QED BY <1>1, <1>2, <1>3, <1>4, <1>5 DEF Next, CallStep

-----------------------------------------------------------------------------
(* The theorems.                                                           *)

\* Inv is an inductive invariant of the CRL client, for any number of calls,
\* URLs, distribution points, windows and documents on the network.
THEOREM Invariance == Spec => []Inv
<1>1. Inv /\ [Next]_vars => Inv'
  <2> SUFFICES ASSUME Inv, [Next]_vars PROVE Inv'
    OBVIOUS
  <2>1. TypeOK' /\ PointInv' /\ HeldInv' /\ CacheInv' /\ IssuedInv' /\ DecidedInv'
    BY TypeStep, PointStep, HeldStep, CacheStep, IssuedStep, DecidedStep
  <2> QED BY <2>1 DEF Inv
<1> QED BY InitInv, <1>1, PTL DEF Spec

\* Every variable of the CRL client keeps its type.
THEOREM TypeCorrect == Spec => []TypeOK
<1>1. Inv => TypeOK
  BY DEF Inv
<1> QED BY Invariance, <1>1, PTL

\* The cache keeps to MAX_CACHE_ENTRIES and MAX_CACHE_BYTES, however the
\* lookups, downloads and inserts of any number of calls interleave
\* (insert_cache_entry).
THEOREM CacheStaysBounded == Spec => []CacheBounded
<1>1. Inv => CacheBounded
  BY DEF Inv, CacheInv
<1> QED BY Invariance, <1>1, PTL

\* No call uses a CRL over its own body limit, also when a clone with a larger
\* limit has put it into the shared cache (fetch_crl_with_freshness).
THEOREM LimitPerClone == Spec => []BodyLimitHolds
BY Invariance, LimitFollows, PTL

\* A Valid verdict does not outlive the window of a CRL from before the
\* revocation, whatever the network replays or forges and whatever the cache
\* holds (validate_crl_dates, check_revocation_with_options).
THEOREM RevocationBites == Spec => []RevocationTakesEffect
BY Invariance, EffectFollows, PTL

\* Revoked is only reported of a certificate its issuer had revoked by the
\* validated instant (verify_crl_signature_with_policy and the entry's date).
THEOREM RevokedOnlyWhenTrue == Spec => []RevokedIsTrue
BY Invariance, TruthFollows, PTL

\* A stale CRL never shadows a current one: with points left a call settles only
\* for a current CRL, and it never goes past one (the loop of
\* fetch_crls_for_cert_with_freshness), however long the fetches take.
THEOREM CurrentWins == Spec => CurrentIsNotShadowed
<1> DEFINE A == \A c \in Calls :
         /\ chosen'[c] # chosen[c] =>
              \/ CrlIsCurrent(chosen'[c][1], now, Policy[c])
              \/ point[c] > Len(Points[c])
         /\ point'[c] # point[c] /\ pc[c] = "evaluate" =>
              ~CrlIsCurrent(doc[c], now, Policy[c])
<1>1. Inv /\ [Next]_vars => [A]_<<chosen, point>>
  <2> SUFFICES ASSUME Inv, [Next]_vars, <<chosen, point>>' # <<chosen, point>> PROVE A
    OBVIOUS
  <2>1. Next
    BY DEF vars
  <2> QED BY <2>1, WalkStep
<1>2. CurrentIsNotShadowed <=> [][A]_<<chosen, point>>
  BY DEF CurrentIsNotShadowed
<1> HIDE DEF A
<1> QED BY Invariance, <1>1, <1>2, PTL DEF Spec

\* An insert gives up the oldest entries and no others (the while loop of
\* insert_cache_entry).
THEOREM OldestGoFirst == Spec => EvictsOldestFirst
<1> DEFINE A == \A u \in Urls :
         u \in DOMAIN cache' /\ (u \in DOMAIN cache => cache'[u] # cache[u]) =>
            \A v \in DOMAIN cache \ DOMAIN cache' :
            \A w \in (DOMAIN cache \cap DOMAIN cache') \ {u} :
                cache[v].fetched_at <= cache[w].fetched_at
<1>1. Inv /\ [Next]_vars => [A]_cache
  <2> SUFFICES ASSUME Inv, [Next]_vars, cache' # cache PROVE A
    OBVIOUS
  <2>1. Next
    BY DEF vars
  <2> QED BY <2>1, EvictionStep
<1>2. EvictsOldestFirst <=> [][A]_cache
  BY DEF EvictsOldestFirst
<1> HIDE DEF A
<1> QED BY Invariance, <1>1, <1>2, PTL DEF Spec
=============================================================================
