----------------------------- MODULE ChainBuild -----------------------------
(***************************************************************************)
(* Building a chain from a pool of certificates                            *)
(* (trust/chain_build.rs, build_chain_from_pool_with_policy): one step per *)
(* round of the loop.  `built` is the Vec the function grows; its last     *)
(* element is `current`, its elements are the `visited` encodings.         *)
(***************************************************************************)
EXTENDS Certificates

CONSTANTS
    Leaves,     \* the certificates a chain is built for
    Pools,      \* the pools explored (sequences of certificates)
    Depths      \* the values of max_depth explored

ASSUME LeavesAssumption == Leaves \subseteq Certs
ASSUME PoolsAssumption == Pools \subseteq Seq(Certs)
ASSUME DepthsAssumption == Depths \subseteq Nat

VARIABLES
    pool,       \* the intermediates offered
    subjects,   \* trust_anchor_subjects
    maxDepth,
    built,      \* the chain so far, leaf first
    rounds,     \* iterations of the loop that have begun
    building    \* "running", how the function returned, or "none" if the
                \* caller has a chain and builds none

buildVars == <<pool, subjects, maxDepth, built, rounds, building>>

BuildTypeOK ==
    /\ pool \in Seq(Certs)
    /\ subjects \subseteq STRING
    /\ maxDepth \in Nat
    /\ built \in Seq(Certs) /\ (building # "none" => built # <<>>)
    /\ rounds \in Nat
    /\ building \in {"none", "running", "ok", "signature", "chain_broken"}

BuildInit ==
    /\ pool \in Pools
    /\ maxDepth \in Depths
    /\ \E leaf \in Leaves : built = <<leaf>>
    /\ rounds = 0
    /\ building = "running"

NotBuilding ==
    /\ pool = <<>> /\ built = <<>>
    /\ maxDepth = 0 /\ rounds = 0
    /\ building = "none"

-----------------------------------------------------------------------------
current == LastOf(built)

\* Mutant: only the current certificate is kept from being its own issuer.
Matches_NoVisited(k) == pool[k].subject = current.issuer /\ pool[k] # current

\* pool[k] carries the issuer's name and is not on the chain yet.
Matches(k) == pool[k].subject = current.issuer /\ ~IsIn(pool[k], built)

Return(how) ==
    /\ building' = how
    /\ UNCHANGED <<pool, subjects, maxDepth, built, rounds>>

\* The two breaks, and the end of the loop.
Reached ==
    \/ rounds = maxDepth
    \/ IsSelfIssued(current)
    \/ current.issuer \in subjects

StopWalk ==
    /\ building = "running"
    /\ Reached
    /\ Return("ok")

\* Mutant: the first certificate of the right name is taken.
Issues_ByName(k) == Matches(k)

Issues(k) == Matches(k) /\ SignedBy(current, pool[k])

\* The first match in pool order whose key verifies the signature.
Extend ==
    /\ building = "running" /\ ~Reached
    /\ \E k \in 1 .. Len(pool) :
         /\ Issues(k)
         /\ \A j \in 1 .. k - 1 : ~Issues(j)
         /\ built' = Append(built, pool[k])
    /\ rounds' = rounds + 1
    /\ UNCHANGED <<pool, subjects, maxDepth, building>>

\* Mutant: without an issuer the chain so far is returned.
BuildFails_ReturnsPartial ==
    /\ building = "running" /\ ~Reached
    /\ \A k \in 1 .. Len(pool) : ~Issues(k)
    /\ Return("ok")

\* No issuer: the last signature error if a name matched, or ChainBroken.
BuildFails ==
    /\ building = "running" /\ ~Reached
    /\ \A k \in 1 .. Len(pool) : ~Issues(k)
    /\ \/ (\E k \in 1 .. Len(pool) : Matches(k)) /\ Return("signature")
       \/ (\A k \in 1 .. Len(pool) : ~Matches(k)) /\ Return("chain_broken")

BuildNext == StopWalk \/ Extend \/ BuildFails

-----------------------------------------------------------------------------
(* Properties.                                                             *)

\* However the pool is cross-certified, the walk visits no certificate twice
\* (the `visited` list), so loops of CAs that certify each other end.
NoCertificateTwice ==
    \A i, j \in 1 .. Len(built) : i # j => built[i] # built[j]

\* Every link of the chain so far verifies: name and signature.
BuiltIsLinked ==
    \A i \in 1 .. Len(built) - 1 :
        /\ built[i].issuer = built[i + 1].subject
        /\ SignedBy(built[i], built[i + 1])
=============================================================================
