-------------------------- MODULE TrustPathProofs ---------------------------
(***************************************************************************)
(* Building and verifying together: the invariant of the builder, and that *)
(* what it hands over holds in verification, for every pool and store.     *)
(***************************************************************************)
EXTENDS TrustPath, TrustStoreProofs

\* Where the two halves stand towards each other.
Handed ==
    /\ step = "idle" => chain = <<>> /\ Unstarted /\ building # "none"
    /\ step # "idle" => building = "none" \/ (chain = built /\ building = "ok")
    /\ building = "ok" => Reached

\* An anchor of the issuer's name that was tried has left its error.
Unnamed ==
    /\ lastErr # "chain_broken"
    /\ step \in {"candidates", "names"} /\ lastErr = "untrusted_root" =>
         \A j \in 1 .. Len(anchors) :
             j < candidate => anchors[j].subject # LastOf(chain).issuer

AnchorSubjects == subjects = {anchors[i].subject : i \in 1 .. Len(anchors)}

PathInv ==
    /\ BuildTypeOK
    /\ NoCertificateTwice
    /\ BuiltIsLinked
    /\ Inv
    /\ AnchorSubjects
    /\ Handed
    /\ Unnamed
    /\ BuiltChainHolds
    /\ WalkEndsAtAnchor

-----------------------------------------------------------------------------
(* The builder.                                                            *)

LEMMA ExtendSafe ==
    ASSUME BuildTypeOK, NoCertificateTwice, BuiltIsLinked, Extend
    PROVE  BuildTypeOK' /\ NoCertificateTwice' /\ BuiltIsLinked'
<1>1. PICK k \in 1 .. Len(pool) : Issues(k) /\ built' = Append(built, pool[k])
  BY DEF Extend
<1>2. UNCHANGED <<pool, subjects, maxDepth, building>> /\ rounds' = rounds + 1
  BY DEF Extend
<1> DEFINE c == pool[k]
           n == Len(built)
<1>3. c \in Certs /\ built \in Seq(Certs) /\ built # <<>>
  BY DEF BuildTypeOK, Extend
<1>4. /\ built' \in Seq(Certs) /\ built' # <<>> /\ n \in Nat /\ n >= 1
      /\ Len(built') = n + 1 /\ built'[n + 1] = c
      /\ \A i \in 1 .. n : built'[i] = built[i]
  BY <1>1, <1>3, AppendFacts, ChainFacts
<1>5. BuildTypeOK'
  BY <1>2, <1>4 DEF BuildTypeOK
<1>6. built[n].issuer = c.subject /\ SignedBy(built[n], c)
      /\ \A i \in 1 .. n : built[i] # c
  BY <1>1 DEF Issues, Matches, IsIn, current, LastOf
<1> HIDE DEF c, n
<1>7. NoCertificateTwice'
  <2> SUFFICES ASSUME NEW i \in 1 .. n + 1, NEW j \in 1 .. n + 1, i # j
               PROVE  built'[i] # built'[j]
    BY <1>4 DEF NoCertificateTwice
  <2>1. (i \in 1 .. n \/ i = n + 1) /\ (j \in 1 .. n \/ j = n + 1)
    BY <1>4
  <2> QED
    BY <1>4, <1>6, <2>1 DEF NoCertificateTwice, n
<1>8. BuiltIsLinked'
  <2> SUFFICES ASSUME NEW i \in 1 .. n
               PROVE  /\ built'[i].issuer = built'[i + 1].subject
                      /\ SignedBy(built'[i], built'[i + 1])
    BY <1>4 DEF BuiltIsLinked, SignedBy
  <2>1. CASE i = n
    BY <1>4, <1>6, <2>1
  <2>2. CASE i \in 1 .. n - 1
    <3>1. i + 1 \in 1 .. n
      BY <1>4, <2>2
    <3> QED
      BY <1>4, <2>2, <3>1 DEF BuiltIsLinked, n
  <2> QED
    BY <1>4, <2>1, <2>2
<1> QED
  BY <1>5, <1>7, <1>8

LEMMA ReturnSafe ==
    ASSUME BuildTypeOK, NoCertificateTwice, BuiltIsLinked, StopWalk \/ BuildFails
    PROVE  /\ BuildTypeOK' /\ NoCertificateTwice' /\ BuiltIsLinked'
           /\ UNCHANGED <<pool, subjects, maxDepth, built, rounds>>
           /\ building' = "ok" => Reached
<1>1. /\ UNCHANGED <<pool, subjects, maxDepth, built, rounds>>
      /\ building = "running" /\ building' \in {"ok", "signature", "chain_broken"}
      /\ building' = "ok" => Reached
  BY DEF StopWalk, BuildFails, Return
<1> QED
  BY <1>1 DEF BuildTypeOK, NoCertificateTwice, BuiltIsLinked, SignedBy

LEMMA BuildSafe ==
    ASSUME PathInv, Build
    PROVE  PathInv'
<1>1. step = "idle" /\ UNCHANGED storeVars /\ BuildNext
  BY DEF Build
<1>2. UNCHANGED <<anchors, chain, step, link, candidate, path, top, state, lastErr, outcome>>
  BY <1>1 DEF storeVars, given, walk
<1>3. Inv'
  BY <1>1, StutterSafe DEF PathInv
<1>4. BuildTypeOK' /\ NoCertificateTwice' /\ BuiltIsLinked'
  BY <1>1, ExtendSafe, ReturnSafe DEF PathInv, BuildNext
<1>5. subjects' = subjects
  BY <1>1, ReturnSafe DEF BuildNext, Extend, PathInv
<1>6. Unnamed'
  BY <1>1, <1>2 DEF PathInv, Unnamed
<1>7. BuiltChainHolds' /\ WalkEndsAtAnchor'
  BY <1>1, <1>2 DEF PathInv, Handed, Unstarted, BuiltChainHolds, WalkEndsAtAnchor
<1>8. Handed'
  <2>1. (chain = <<>> /\ Unstarted)'
    BY <1>1, <1>2 DEF PathInv, Handed, Unstarted
  <2>2. building' = "ok" => Reached'
    <3>1. CASE Extend
      BY <3>1 DEF Extend
    <3>2. CASE StopWalk \/ BuildFails
      BY <3>2, ReturnSafe DEF PathInv, Reached, current
    <3> QED
      BY <1>1, <3>1, <3>2 DEF BuildNext
  <2>3. building' # "none"
    BY <1>1 DEF BuildNext, Extend, StopWalk, BuildFails, Return
  <2> QED
    BY <1>1, <1>2, <2>1, <2>2, <2>3 DEF Handed
<1> QED
  BY <1>2, <1>3, <1>4, <1>5, <1>6, <1>7, <1>8 DEF PathInv, AnchorSubjects

-----------------------------------------------------------------------------
(* Handing over, and verification.                                         *)

LEMMA HandOverSafe ==
    ASSUME PathInv, HandOver
    PROVE  PathInv'
<1>1. /\ step = "idle" /\ building = "ok" /\ chain' = built /\ step' = "extensions"
      /\ UNCHANGED <<buildVars, anchors, when, fraction, purpose, walk, outcome>>
  BY DEF HandOver
<1>2. /\ UNCHANGED <<pool, subjects, maxDepth, built, rounds, building>>
      /\ UNCHANGED <<link, candidate, path, top, state, lastErr>>
  BY <1>1 DEF buildVars, walk
<1>3. Unstarted /\ StoreTypeOK
  BY <1>1 DEF PathInv, Handed, Inv
<1>4. StoreTypeOK' /\ built \in Seq(Certs)
  BY <1>1, <1>2, <1>3 DEF StoreTypeOK, PathInv, BuildTypeOK, Steps
<1>5. Passed'
  BY <1>1, <1>2, <1>3 DEF Passed, Unstarted
<1>6. Inv'
  BY <1>1, <1>3, <1>4, <1>5 DEF Inv, Unstarted, AcceptedIsPath, AnyAnchorSuffices
<1>7. BuildTypeOK' /\ NoCertificateTwice' /\ BuiltIsLinked' /\ AnchorSubjects'
  BY <1>1, <1>2 DEF PathInv, BuildTypeOK, NoCertificateTwice, BuiltIsLinked,
                    SignedBy, AnchorSubjects
<1>8. Handed'
  BY <1>1, <1>2 DEF PathInv, Handed, Reached, current
<1>9. Unnamed' /\ BuiltChainHolds' /\ WalkEndsAtAnchor'
  BY <1>1, <1>2, <1>3 DEF PathInv, Unnamed, BuiltChainHolds, WalkEndsAtAnchor, Unstarted
<1> QED
  BY <1>6, <1>7, <1>8, <1>9 DEF PathInv

\* What a step of verification may do to the outcome.
LEMMA Outcomes ==
    ASSUME PathInv, VerifyNext
    PROVE  /\ UNCHANGED <<anchors, chain>> /\ step \notin {"idle", "done"} /\ step' # "idle"
           /\ building = "ok" =>
                \/ outcome' = "pending"
                \/ outcome' \in {"trusted", "empty_chain", "profile", "time"}
                \/ /\ step = "anchor" /\ outcome' = "signature" /\ UNCHANGED link
                \/ /\ step = "candidates" /\ candidate > Len(anchors)
                   /\ outcome' = lastErr /\ UNCHANGED <<link, lastErr>>
<1>1. step # "done" => outcome = "pending"
  BY DEF PathInv, Inv
<1>2. CASE CheckExtensions \/ CheckPurpose \/ CheckTime \/ LinksChecked
  BY <1>1, <1>2 DEF CheckExtensions, CheckPurpose, CheckTime, LinksChecked, Fail, Go, given
<1>3. CASE CheckLink /\ building # "ok"
  BY <1>3 DEF CheckLink, Fail, given
<1>9. CASE CheckLink /\ building = "ok"
  <2>1. step = "links" /\ link \in 1 .. Len(chain) - 1
    BY <1>9 DEF CheckLink, PathInv, Inv, StoreTypeOK, Passed
  <2>2. chain = built
    BY <1>9, <2>1 DEF PathInv, Handed
  <2>3. chain[link].issuer = chain[link + 1].subject
        /\ SignedBy(chain[link], chain[link + 1])
    BY <2>1, <2>2 DEF PathInv, BuiltIsLinked
  <2> QED
    BY <1>1, <1>9, <2>1, <2>3 DEF CheckLink, Fail, given
<1>4. CASE FindAnchor
  BY <1>1, <1>4 DEF FindAnchor, EnterNames, Fail, Go, given, walk
<1>5. CASE TryCandidate
  BY <1>1, <1>5 DEF TryCandidate, EnterNames, NextCandidate, Go, given
<1>6. CASE CandidatesExhausted
  BY <1>1, <1>6 DEF CandidatesExhausted, Fail, given, walk
<1>7. CASE ApplyConstraints
  BY <1>1, <1>7 DEF ApplyConstraints, NextCandidate, Fail, Go, given
<1>8. CASE Accept
  BY <1>8 DEF Accept, given
<1> QED
  BY <1>2, <1>3, <1>4, <1>5, <1>6, <1>7, <1>8, <1>9 DEF VerifyNext

\* An anchor of the issuer's name leaves an error that is not its absence.
LEMMA UnnamedSafe ==
    ASSUME PathInv, VerifyNext
    PROVE  Unnamed'
<1>1. UNCHANGED <<anchors, chain>>
  BY Outcomes
<1>2. candidate \in Nat /\ candidate >= 1 /\ Len(anchors) \in Nat /\ Unnamed
  BY DEF PathInv, Inv, StoreTypeOK, Passed
<1>3. CASE UNCHANGED <<candidate, lastErr>> /\ step' \in {"candidates", "names"}
           /\ step \notin {"candidates", "names"}
  <2>1. candidate = 1 \/ step = "done"
    BY <1>3 DEF PathInv, Inv, Passed
  <2>2. step # "done"
    BY Outcomes
  <2> QED
    BY <1>1, <1>2, <1>3, <2>1, <2>2 DEF Unnamed
<1>4. CASE UNCHANGED <<candidate, lastErr>>
           /\ (step' \in {"candidates", "names"} => step \in {"candidates", "names"})
  BY <1>1, <1>2, <1>4 DEF Unnamed
<1>5. CASE CheckExtensions \/ CheckPurpose \/ CheckTime \/ CheckLink \/ LinksChecked
           \/ FindAnchor \/ CandidatesExhausted \/ Accept
  <2>1. UNCHANGED <<candidate, lastErr>>
    BY <1>5 DEF CheckExtensions, CheckPurpose, CheckTime, CheckLink, LinksChecked,
                FindAnchor, CandidatesExhausted, Accept, EnterNames, Fail, Go, walk
  <2> QED
    BY <1>3, <1>4, <2>1
<1>6. ASSUME NEW e, NextCandidate(e), e \notin {"chain_broken", "untrusted_root"}
      PROVE  Unnamed'
  BY <1>6 DEF NextCandidate, Unnamed
<1>7. CASE TryCandidate
  <2> DEFINE a == anchors[candidate]
  <2>1. step = "candidates"
    BY <1>7 DEF TryCandidate
  <2>2. CASE a.subject # LastOf(chain).issuer /\ NextCandidate(lastErr)
    <3>1. candidate' = candidate + 1 /\ lastErr' = lastErr
      BY <2>2 DEF NextCandidate
    <3>2. \A j \in 1 .. Len(anchors) : j < candidate + 1 => j < candidate \/ j = candidate
      BY <1>2
    <3> QED
      BY <1>1, <1>2, <2>1, <2>2, <3>1, <3>2 DEF Unnamed
  <2>3. CASE AnchorError(a) # "none" /\ NextCandidate(AnchorError(a))
    <3>1. AnchorError(a) \notin {"chain_broken", "untrusted_root"}
      BY DEF AnchorError
    <3> QED
      BY <1>6, <2>3, <3>1
  <2>4. CASE EnterNames(Append(chain, a))
    BY <1>4, <2>1, <2>4 DEF EnterNames
  <2> QED
    BY <1>7, <2>2, <2>3, <2>4 DEF TryCandidate
<1>8. CASE ApplyConstraints
  <2>1. CASE NextCandidate("profile")
    BY <1>6, <2>1
  <2>2. CASE ~NextCandidate("profile")
    <3>1. UNCHANGED <<candidate, lastErr>> /\ step = "names"
      BY <1>8, <2>2 DEF ApplyConstraints, Fail, walk
    <3> QED
      BY <1>4, <3>1
  <2> QED
    BY <2>1, <2>2
<1> QED
  BY <1>5, <1>7, <1>8 DEF VerifyNext

\* The anchors whose subjects the builder knew are the ones searched: if none
\* has the issuer's name, the walk did not stop for an anchor.
LEMMA NoAnchorNamed ==
    ASSUME PathInv, step = "candidates", candidate > Len(anchors),
           lastErr = "untrusted_root", building = "ok"
    PROVE  rounds = maxDepth \/ IsSelfIssued(LastOf(chain))
<1>1. chain = built /\ Reached
  BY DEF PathInv, Handed
<1>2. \A j \in 1 .. Len(anchors) : anchors[j].subject # LastOf(chain).issuer
  <2>1. \A j \in 1 .. Len(anchors) : j < candidate
    BY DEF PathInv, Inv, StoreTypeOK
  <2> QED
    BY <2>1 DEF PathInv, Unnamed
<1>3. LastOf(chain).issuer \notin subjects
  BY <1>2 DEF PathInv, AnchorSubjects
<1> QED
  BY <1>1, <1>3 DEF Reached, current

LEMMA VerifyPathSafe ==
    ASSUME PathInv, Verify
    PROVE  PathInv'
<1>1. VerifyNext /\ UNCHANGED <<pool, subjects, maxDepth, built, rounds, building>>
  BY DEF Verify, buildVars
<1>2. UNCHANGED <<anchors, chain>> /\ step \notin {"idle", "done"} /\ step' # "idle"
  BY <1>1, Outcomes
<1>3. Inv' /\ Unnamed'
  BY <1>1, VerifySafe, UnnamedSafe DEF PathInv
<1>4. BuildTypeOK' /\ NoCertificateTwice' /\ BuiltIsLinked' /\ AnchorSubjects'
  BY <1>1, <1>2 DEF PathInv, BuildTypeOK, NoCertificateTwice, BuiltIsLinked,
                    SignedBy, AnchorSubjects
<1>5. Handed'
  BY <1>1, <1>2 DEF PathInv, Handed, Reached, current
<1>6. step \in {"anchor", "candidates"} => link >= Len(chain)
  BY DEF PathInv, Inv, Passed
<1>7. lastErr # "chain_broken"
  BY DEF PathInv, Unnamed
<1>8. BuiltChainHolds'
  BY <1>1, <1>2, <1>6, <1>7, Outcomes DEF BuiltChainHolds
<1>9. WalkEndsAtAnchor'
  BY <1>1, <1>2, Outcomes, NoAnchorNamed DEF WalkEndsAtAnchor
<1> QED
  BY <1>3, <1>4, <1>5, <1>8, <1>9 DEF PathInv

-----------------------------------------------------------------------------
(* The theorems.                                                           *)

LEMMA PathInitially ==
    ASSUME Init
    PROVE  PathInv
<1>1. Request /\ Unstarted /\ AnchorSubjects /\ chain \in Seq(Certs)
      /\ step \in {"idle", "extensions"}
  <2>1. AnchorSubjects /\ (Offered \/ Presented)
    BY DEF Init, AnchorSubjects
  <2>2. Offered => chain \in Seq(Certs)
    BY DEF Offered
  <2>3. Presented => chain \in Seq(Certs)
    BY ChainsAssumption DEF Presented, VerifyInit
  <2> QED
    BY <2>1, <2>2, <2>3 DEF Offered, Presented, VerifyInit
<1>2. Inv
  BY <1>1, UnstartedSafe
<1>3. anchors \in Seq(Certs)
  BY <1>2 DEF Inv, StoreTypeOK
<1>4. \A i \in 1 .. Len(anchors) : anchors[i].subject \in STRING
  BY <1>3, CertsAssumption DEF Certificate
<1>5. BuildTypeOK /\ NoCertificateTwice /\ BuiltIsLinked
  <2>1. subjects \subseteq STRING
    BY <1>1, <1>4 DEF AnchorSubjects
  <2>2. CASE BuildInit
    <3>1. PICK leaf \in Leaves : built = <<leaf>>
      BY <2>2 DEF BuildInit
    <3>2. Len(built) = 1 /\ built \in Seq(Certs) /\ built # <<>>
      BY <3>1, LeavesAssumption
    <3> QED
      BY <2>1, <2>2, <3>2, PoolsAssumption, DepthsAssumption
      DEF BuildTypeOK, BuildInit, NoCertificateTwice, BuiltIsLinked
  <2>3. CASE NotBuilding
    BY <2>1, <2>3 DEF BuildTypeOK, NotBuilding, NoCertificateTwice, BuiltIsLinked
  <2> QED
    BY <2>2, <2>3 DEF Init, Offered, Presented
<1>6. Unnamed
  BY <1>1 DEF Unnamed, Unstarted
<1>7. Handed /\ BuiltChainHolds /\ WalkEndsAtAnchor
  BY DEF Init, Offered, Presented, VerifyInit, BuildInit, NotBuilding, Handed,
         BuiltChainHolds, WalkEndsAtAnchor, Unstarted
<1> QED
  BY <1>1, <1>2, <1>5, <1>6, <1>7 DEF PathInv

LEMMA PathStutters ==
    ASSUME PathInv, UNCHANGED vars
    PROVE  PathInv'
<1>1. /\ UNCHANGED storeVars
      /\ UNCHANGED <<pool, subjects, maxDepth, built, rounds, building>>
      /\ UNCHANGED <<anchors, chain, step, link, candidate, path, top, state, lastErr, outcome>>
  BY DEF vars, buildVars, storeVars, given, walk
<1>2. Inv'
  BY <1>1, StutterSafe DEF PathInv
<1>3. BuildTypeOK' /\ NoCertificateTwice' /\ BuiltIsLinked' /\ AnchorSubjects'
  BY <1>1 DEF PathInv, BuildTypeOK, NoCertificateTwice, BuiltIsLinked, SignedBy,
              AnchorSubjects
<1>4. Handed' /\ Unnamed' /\ BuiltChainHolds' /\ WalkEndsAtAnchor'
  BY <1>1 DEF PathInv, Handed, Unnamed, BuiltChainHolds, WalkEndsAtAnchor, Reached,
              current, Unstarted
<1> QED
  BY <1>2, <1>3, <1>4 DEF PathInv

\* Building and verification together keep the invariant.
THEOREM PathInvariance == Spec => []PathInv
<1>1. Init => PathInv
  BY PathInitially
<1>2. PathInv /\ [Next]_vars => PathInv'
  BY BuildSafe, HandOverSafe, VerifyPathSafe, PathStutters DEF Next, Finished
<1> QED
  BY <1>1, <1>2, PTL DEF Spec

\* The builder's visited list: no certificate is on the chain twice.
THEOREM Acyclic == Spec => []NoCertificateTwice
<1>1. PathInv => NoCertificateTwice
  BY DEF PathInv
<1> QED
  BY <1>1, PathInvariance, PTL

\* What build_chain_from_pool links, verify_chain finds linked.
THEOREM BuiltChainsVerify == Spec => []BuiltChainHolds
<1>1. PathInv => BuiltChainHolds
  BY DEF PathInv
<1> QED
  BY <1>1, PathInvariance, PTL

\* The builder and the store agree on where the anchors are.
THEOREM AnchorsAgree == Spec => []WalkEndsAtAnchor
<1>1. PathInv => WalkEndsAtAnchor
  BY DEF PathInv
<1> QED
  BY <1>1, PathInvariance, PTL

\* The decision of verify_chain is sound and complete, whether the chain was
\* built from a pool or presented.
THEOREM PathVerdicts == Spec => [](AcceptedIsPath /\ AnyAnchorSuffices)
<1>1. PathInv => AcceptedIsPath /\ AnyAnchorSuffices
  BY DEF PathInv, Inv
<1> QED
  BY <1>1, PathInvariance, PTL

\* The types of the two halves, for every pool, store and depth.
THEOREM PathTypes == Spec => []TypeOK
<1>1. PathInv => TypeOK
  BY DEF PathInv, Inv, TypeOK
<1> QED
  BY <1>1, PathInvariance, PTL
=============================================================================
