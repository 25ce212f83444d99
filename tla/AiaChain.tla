------------------------------ MODULE AiaChain ------------------------------
(***************************************************************************)
(* Chain discovery (ltv/chain.rs): build_chain follows the caIssuers URLs  *)
(* of one certificate after the other, build_chain_from_certs looks in a   *)
(* list.  Both only collect candidates for verify_chain.                   *)
(***************************************************************************)
EXTENDS FetchGuard, PathValidation, FiniteSetsExt

CONSTANTS
    AiaUrls(_),     \* extract_aia_urls: the caIssuers URLs of a certificate
    Leaves, Stores, \* certificates to start from, trust stores
    Pools,          \* lists of certificates that come with a signature
    MaxChainDepth   \* MAX_CHAIN_DEPTH

ASSUME DepthAssumption == MaxChainDepth \in Nat \ {0}

\* The URLs a download may come to.
Urls == Targets \cup (UNION {{AiaUrls(c)[i] : i \in 1 .. Len(AiaUrls(c))} : c \in Certs})

\* What servers and resolvers may answer has the form it is read as.
ASSUME NetworkAssumption ==
    /\ \A u \in Urls : \A addrs \in Answers(u) : addrs \subseteq Addresses
    /\ \A d \in Documents : d.cert \in Certs /\ d.size \in Nat /\ d.announced \in BOOLEAN

ASSUME StartAssumption ==
    /\ IsFiniteSet(Certs) /\ Certs # {}
    /\ Leaves \subseteq Certs /\ Pools \subseteq Seq(Certs)
    /\ \A c \in Certs : AiaUrls(c) \in Seq(Urls)

VARIABLES
    roots,      \* the trust store
    chain,      \* what is collected so far
    current,    \* the certificate that comes next
    urls,       \* its URLs that are still to be tried
    pool,       \* the list that was looked in
    pc,
    connections, \* connections made so far
    trace       \* whether every certificate fetched so far had issued the
                \* one before it, and whether all URLs of one have failed

vars == <<fetch, roots, chain, current, urls, pool, pc, connections, trace>>

\* find_issuer: by name.
FindIssuer(c, store) == \E i \in 1 .. Len(store) : store[i].subject = c.issuer

Issued(issuer, c) == c.issuer = issuer.subject /\ SignedBy(c, issuer)

Init ==
    /\ fetch = Idle
    /\ roots \in Stores /\ current \in Leaves
    /\ chain = <<>> /\ urls = <<>> /\ pool = <<>> /\ pc = "push" /\ connections = 0
    /\ trace = [straight |-> TRUE, stuck |-> FALSE]

\* One round of the loop up to its downloads: the chain ends at the child of an
\* anchor, at a self-signed certificate or without a URL.
Push ==
    /\ pc = "push"
    /\ chain' = Append(chain, current)
    /\ urls' = AiaUrls(current)
    /\ pc' = IF FindIssuer(current, roots) \/ IsSelfIssued(current) \/ urls' = <<>>
             THEN "done" ELSE "fetch"
    /\ UNCHANGED <<fetch, roots, current, pool, connections, trace>>

\* The next URL is tried.
TryUrl ==
    /\ pc = "fetch" /\ fetch.at \in {"idle", "failed"} /\ urls # <<>>
    /\ fetch' = Fetching(Head(urls)) /\ urls' = Tail(urls)
    /\ UNCHANGED <<roots, chain, current, pool, pc, connections, trace>>

Download ==
    /\ pc = "fetch" /\ FetchStep
    /\ connections' = connections + IF fetch'.at = "exchange" THEN 1 ELSE 0
    /\ UNCHANGED <<roots, chain, current, urls, pool, pc, trace>>

DownloadBreaks ==
    /\ pc = "fetch" /\ Breaks
    /\ UNCHANGED <<roots, chain, current, urls, pool, pc, connections, trace>>

\* Mutant: one round too few.
Rounds_Short == Len(chain) + 1 < MaxChainDepth

\* The loop has another round.
Rounds == Len(chain) < MaxChainDepth

\* Whatever certificate has come is taken for the issuer.
Follow ==
    /\ pc = "fetch" /\ fetch.at = "fetched"
    /\ current' = fetch.cert /\ fetch' = Idle
    /\ pc' = IF Rounds THEN "push" ELSE "done"
    /\ trace' = [trace EXCEPT !.straight = @ /\ Issued(fetch.cert, current)]
    /\ UNCHANGED <<roots, chain, urls, pool, connections>>

\* No URL gave one.
GiveUp ==
    /\ pc = "fetch" /\ fetch.at = "failed" /\ urls = <<>>
    /\ pc' = "done" /\ fetch' = Idle
    /\ trace' = [trace EXCEPT !.stuck = TRUE]
    /\ UNCHANGED <<roots, chain, current, urls, pool, connections>>

-----------------------------------------------------------------------------
(* The list.                                                               *)

Named(c, certs) == {i \in 1 .. Len(certs) : certs[i].subject = c.issuer}

InPool(c, certs) == certs[Min(Named(c, certs))]

\* build_chain_from_certs.
BuildChainFromCerts(leaf, certs, store) ==
    LET ends(c) == FindIssuer(c, store) \/ IsSelfIssued(c) \/ Named(c, certs) = {}
        collected[n \in 1 .. MaxChainDepth] ==
            IF n = 1 THEN <<leaf>>
            ELSE LET before == collected[n - 1] IN
                 IF Len(before) < n - 1 \/ ends(LastOf(before)) THEN before
                 ELSE Append(before, InPool(LastOf(before), certs))
    IN  collected[MaxChainDepth]

Order ==
    /\ pc = "push" /\ chain = <<>>
    /\ pool' \in Pools
    /\ chain' = BuildChainFromCerts(current, pool', roots)
    /\ pc' = "ordered"
    /\ UNCHANGED <<fetch, roots, current, urls, connections, trace>>

-----------------------------------------------------------------------------
Next == Push \/ TryUrl \/ Download \/ DownloadBreaks \/ Follow \/ GiveUp \/ Order

Spec == Init /\ [][Next]_vars

\* The servers owe nothing; the timeouts and the loop itself do.
FairSpec == Spec /\ WF_vars(Push \/ TryUrl \/ Follow \/ GiveUp) /\ WF_vars(DownloadBreaks)

-----------------------------------------------------------------------------
(* Properties.                                                             *)

\* However many redirects and URLs the servers hand out, what a call does on
\* the network and holds in memory is bounded (net.rs, MAX_REDIRECTS; chain.rs,
\* MAX_CHAIN_DEPTH and max_body_size).
MaxUrls == Max({Len(AiaUrls(c)) : c \in Certs})
EffortBounded ==
    /\ Len(chain) <= MaxChainDepth
    /\ connections <= MaxChainDepth * MaxUrls * MaxRedirects
    /\ fetch.at = "body" => fetch.buffered <= MaxBodySize

\* The paths from a certificate to the store that no certificate before the
\* last ends, being self-issued or having an anchor's name for issuer.
Paths(leaf, certs) ==
    {p \in {<<leaf>> \o s : s \in UNION {[1 .. n -> certs] : n \in 0 .. MaxChainDepth - 1}} :
        /\ Verifiable(p, roots, NoTime, FALSE, AnyPurpose)
        /\ \A i \in 1 .. Len(p) - 1 : ~FindIssuer(p[i], roots) /\ ~IsSelfIssued(p[i])}

\* The chain reaches the anchor and verifies, if there is a path that does and
\* that nothing else could be taken for: with servers that deliver the issuer,
\* or fail over to one that does (chain.rs, build_chain), and from a list in
\* any order and with others of the same name behind the right one
\* (build_chain_from_certs).
PathIsFound ==
    \/ /\ pc = "done" /\ trace.straight /\ ~trace.stuck
       /\ \E p \in Paths(chain[1], Certs) : \A i \in 1 .. Len(p) - 1 :
             AiaUrls(p[i]) # <<>> /\ {x \in Certs : Issued(x, p[i])} = {p[i + 1]}
    \/ /\ pc = "ordered"
       /\ \E p \in Paths(chain[1], {pool[i] : i \in 1 .. Len(pool)}) :
             \A i \in 1 .. Len(p) - 1 :
                Named(p[i], pool) # {} /\ pool[Min(Named(p[i], pool))] = p[i + 1]
    => Verifiable(chain, roots, NoTime, FALSE, AnyPurpose)

\* build_chain returns although no server ever answers.
BuildReturns == <>(pc \in {"done", "ordered"})
=============================================================================
