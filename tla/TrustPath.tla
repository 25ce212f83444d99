----------------------------- MODULE TrustPath ------------------------------
(***************************************************************************)
(* From a leaf and a pool of certificates to a trust decision: the chain   *)
(* builder is given the subjects of the store's anchors                    *)
(* (trust_anchor_subjects), and what it builds is verified by that store.  *)
(* A chain that a token, a responder or the caller presents is verified    *)
(* without being built.                                                    *)
(***************************************************************************)
EXTENDS ChainBuild, TrustStore

vars == <<buildVars, storeVars>>

TypeOK == BuildTypeOK /\ StoreTypeOK

Offered == Request /\ BuildInit /\ chain = <<>> /\ step = "idle" /\ Unstarted

Presented == VerifyInit /\ NotBuilding

Init ==
    /\ Offered \/ Presented
    /\ subjects = {anchors[i].subject : i \in 1 .. Len(anchors)}

Build == step = "idle" /\ BuildNext /\ UNCHANGED storeVars

\* The caller passes the built chain to verify_chain of the same store.
HandOver ==
    /\ step = "idle" /\ building = "ok"
    /\ chain' = built
    /\ step' = "extensions"
    /\ UNCHANGED <<buildVars, anchors, when, fraction, purpose, walk, outcome>>

Verify == VerifyNext /\ UNCHANGED buildVars

Finished ==
    /\ step = "done" \/ building \in {"signature", "chain_broken"}
    /\ UNCHANGED vars

Next == Build \/ HandOver \/ Verify \/ Finished

Spec == Init /\ [][Next]_vars

-----------------------------------------------------------------------------
(* Properties.                                                             *)

\* What the builder linked, the store finds linked: verification of a built
\* chain never fails for a broken link, and for a signature only when it
\* comes to the anchors.
BuiltChainHolds ==
    building = "ok" =>
        /\ outcome # "chain_broken"
        /\ outcome = "signature" => link >= Len(chain)

\* A walk that stopped before max_depth stopped for a reason the store
\* shares: an anchor of the right name, or a self-issued certificate.
WalkEndsAtAnchor ==
    building = "ok" /\ outcome = "untrusted_root" =>
        rounds = maxDepth \/ IsSelfIssued(LastOf(chain))
=============================================================================
