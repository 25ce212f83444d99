------------------------------ MODULE CrlClient -----------------------------
(***************************************************************************)
(* The CRL client (ltv/crl.rs): concurrent CRL checks that share one cache,*)
(* each walking the distribution points of its certificate, against an     *)
(* issuer that publishes and revokes and a network that may serve any CRL  *)
(* it has ever seen, a forgery, or nothing.                                *)
(*                                                                         *)
(* The cache is the only shared state.  It is read under a lock, and the   *)
(* lock is released before the download; the insert locks it again.        *)
(***************************************************************************)
EXTENDS CrlRevocation, FiniteSets, FiniteSetsExt

CONSTANTS
    Calls,            \* concurrent run_crl_check calls
    Urls,             \* distribution point URLs
    Cert,             \* the certificate: its issuer's name and its serial
    Issuer,           \* the issuer's certificate: its subject, key and key usage
    Points,           \* Points[c]: the URLs of the certificate, in order
    Policy,           \* Policy[c]: the CrlFreshness of the call
    ValidationTime,   \* ValidationTime[c]: an instant, or WallClock
    MaxBodySize,      \* MaxBodySize[c]: limit of the client clone used
    GracePeriod, MaxCacheBytes, MaxCacheEntries,
    LongUrls,         \* URLs longer than 8192 bytes, never cached
    Windows,          \* the issuer's next - this, or NoNext
    Ahead,            \* how far ahead the issuer may date a CRL
    Sizes,            \* sizes of the issuer's CRLs
    Others,           \* Others[u]: what else the network may serve for a URL, CRLs
                      \* that others made or that are not complete
    MaxTime,          \* bound: last instant of the clock
    MaxIssued         \* bound: CRLs the issuer makes

NotRevoked == -1

NoDoc == [decodes |-> FALSE, issuer |-> "", signer |-> "none", exts |-> <<>>,
          entries |-> <<>>, this |-> 0, next |-> NoNext, size |-> 0]

\* A CRL that does not list the certificates of the issuer it has revoked says
\* so: somebody else signed it, it carries another name, it has an extension
\* that makes it part of something or that must be understood, or it has
\* entries of other issuers.
SaysIncomplete(d) ==
    \/ ~d.decodes \/ d.signer # Issuer.key \/ d.issuer # Issuer.subject
    \/ \E i \in 1 .. Len(d.exts) :
         d.exts[i].critical
           \/ d.exts[i].oid \in {"deltaCRLIndicator", "issuingDistributionPoint"}
    \/ \E i \in 1 .. Len(d.entries) : \E k \in 1 .. Len(d.entries[i].exts) :
         d.entries[i].exts[k].critical \/ d.entries[i].exts[k].oid = "certificateIssuer"

\* The names used below are names (the provers do not know it of a literal).
ASSUME NamesAssumption == {"another", "none", ""} \subseteq STRING
ASSUME CallsAssumption ==
    /\ Cert \in [issuer: STRING, serial: STRING \ {"another"}]
    /\ Issuer \in [subject: {Cert.issuer}, key: STRING, keyUsage: SUBSET STRING]
    /\ Points \in [Calls -> Seq(Urls)]
    /\ Policy \in [Calls -> Freshness]
    /\ ValidationTime \in [Calls -> Nat \cup {WallClock}]
    /\ MaxBodySize \in [Calls -> Nat]
ASSUME CacheAssumption ==
    /\ GracePeriod \in Nat /\ MaxCacheBytes \in Nat /\ MaxCacheEntries \in Nat \ {0}
    /\ LongUrls \subseteq Urls
ASSUME IssuerAssumption ==
    /\ Windows \subseteq Nat \cup {NoNext} /\ Ahead \in Nat /\ Sizes \subseteq Nat
    /\ \A u \in Urls : \A d \in Others[u] : d \in CrlDocs /\ SaysIncomplete(d)
ASSUME BoundsAssumption == MaxTime \in Nat /\ MaxIssued \in Nat

VARIABLES
    now,        \* the wall clock
    revoked,    \* when the issuer revoked the certificate, or NotRevoked
    issued,     \* every CRL the issuer has published
    cache,      \* CrlClient.cache: a function from the cached URLs to entries
    pc,         \* where each call stands
    point,      \* index of the distribution point it works on
    doc,        \* the bytes fetch_crl_with_freshness returned last
    fallback,   \* stale_fallback: <<>> or <<the first CRL not current>>
    chosen,     \* the CRLs handed to the check: <<>> or one
    verdict,    \* what run_crl_check returned
    decidedAt   \* history: when it did

vars == <<now, revoked, issued, cache, pc, point, doc, fallback, chosen,
          verdict, decidedAt>>
world == <<revoked, issued>>

Entry == [doc: CrlDocs, fetched_at: Nat]

TypeOK ==
    /\ now \in Nat
    /\ revoked \in Nat \cup {NotRevoked}
    /\ issued \subseteq CrlDocs
    /\ DOMAIN cache \subseteq Urls
    /\ \A u \in DOMAIN cache : cache[u] \in Entry
    /\ pc \in [Calls -> {"next", "fetching", "evaluate", "check", "done"}]
    /\ point \in [Calls -> Nat]
    /\ doc \in [Calls -> CrlDocs]
    /\ fallback \in [Calls -> Seq(CrlDocs)]
    /\ chosen \in [Calls -> Seq(CrlDocs)]
    /\ verdict \in [Calls -> Statuses \cup {"pending"}]
    /\ decidedAt \in [Calls -> Nat]

Init ==
    /\ now = 0
    /\ revoked = NotRevoked
    /\ issued = {}
    /\ cache = [u \in {} |-> 0]
    /\ pc = [c \in Calls |-> "next"]
    /\ point = [c \in Calls |-> 1]
    /\ doc = [c \in Calls |-> NoDoc]
    /\ fallback = [c \in Calls |-> <<>>]
    /\ chosen = [c \in Calls |-> <<>>]
    /\ verdict = [c \in Calls |-> "pending"]
    /\ decidedAt = [c \in Calls |-> 0]

-----------------------------------------------------------------------------
(* The cache.                                                              *)

Without(f, u) == [v \in DOMAIN f \ {u} |-> f[v]]

CacheBytes(f, S) == MapThenSumSet(LAMBDA u : f[u].doc.size, S)

\* Mutant: the bytes of the new entry are not counted.
HasRoom_ForgetsNewEntry(f, S, size) ==
    /\ Cardinality(S) < MaxCacheEntries
    /\ CacheBytes(f, S) <= MaxCacheBytes

\* The while condition of insert_cache_entry, negated: room for `size` more.
HasRoom(f, S, size) ==
    /\ Cardinality(S) < MaxCacheEntries
    /\ CacheBytes(f, S) <= MaxCacheBytes - size

\* Mutant: max_by_key for min_by_key.
Oldest_Newest(f, S) == {u \in S : \A v \in S : f[u].fetched_at >= f[v].fetched_at}

\* min_by_key over a hash map: which of several it finds is not determined.
Oldest(f, S) == {u \in S : \A v \in S : f[u].fetched_at <= f[v].fetched_at}

\* The while loop of insert_cache_entry: what it may leave of the entries.
Kept(f, size) ==
    LET Keep[S \in SUBSET DOMAIN f] ==
            IF S = {} \/ HasRoom(f, S, size) THEN {S}
            ELSE UNION {Keep[S \ {u}] : u \in Oldest(f, S)}
    IN  Keep[DOMAIN f]

\* insert_cache_entry: too large an entry is refused and leaves the cache as
\* it is; otherwise the oldest entries go until the new one fits.
InsertCacheEntry(f, u, entry) ==
    IF entry.doc.size > MaxCacheBytes \/ u \in LongUrls THEN {f}
    ELSE {[v \in K \cup {u} |-> IF v = u THEN entry ELSE f[v]] :
             K \in Kept(Without(f, u), entry.doc.size)}

-----------------------------------------------------------------------------
(* fetch_crls_for_cert_with_freshness and run_crl_check, step by step.     *)

url(c) == Points[c][point[c]]

Finish(c, status) ==
    /\ pc' = [pc EXCEPT ![c] = "done"]
    /\ verdict' = [verdict EXCEPT ![c] = status]
    /\ decidedAt' = [decidedAt EXCEPT ![c] = now]

\* Mutant: a failed distribution point is tried again for ever.
NextPoint_Retries(c) ==
    /\ point' = point
    /\ pc' = [pc EXCEPT ![c] = "next"]

\* A distribution point is done with: the loop goes on to the next one.
NextPoint(c) ==
    /\ point' = [point EXCEPT ![c] = @ + 1]
    /\ pc' = [pc EXCEPT ![c] = "next"]

CacheHit(c) ==
    /\ url(c) \in DOMAIN cache
    /\ LET e == cache[url(c)] IN
       /\ now - e.fetched_at < GracePeriod
       /\ CrlIsCurrent(e.doc, now, Policy[c])

\* Mutant: the body limit is not applied to a cached CRL.
Lookup_NoBodyLimit(c) ==
    /\ pc[c] = "next" /\ point[c] <= Len(Points[c])
    /\ \/ /\ CacheHit(c)
          /\ doc' = [doc EXCEPT ![c] = cache[url(c)].doc]
          /\ pc' = [pc EXCEPT ![c] = "evaluate"]
          /\ UNCHANGED <<cache, point>>
       \/ /\ ~CacheHit(c)
          /\ cache' = Without(cache, url(c))
          /\ pc' = [pc EXCEPT ![c] = "fetching"]
          /\ UNCHANGED <<point, doc>>
    /\ UNCHANGED <<now, world, fallback, chosen, verdict, decidedAt>>

\* Under the lock: a current entry is served, unless it is larger than this
\* client allows; anything else is removed, and the lock released.
Lookup(c) ==
    /\ pc[c] = "next" /\ point[c] <= Len(Points[c])
    /\ \/ /\ CacheHit(c)
          /\ cache[url(c)].doc.size > MaxBodySize[c]
          /\ NextPoint(c)
          /\ UNCHANGED <<cache, doc>>
       \/ /\ CacheHit(c)
          /\ cache[url(c)].doc.size <= MaxBodySize[c]
          /\ doc' = [doc EXCEPT ![c] = cache[url(c)].doc]
          /\ pc' = [pc EXCEPT ![c] = "evaluate"]
          /\ UNCHANGED <<cache, point>>
       \/ /\ ~CacheHit(c)
          /\ cache' = Without(cache, url(c))
          /\ pc' = [pc EXCEPT ![c] = "fetching"]
          /\ UNCHANGED <<point, doc>>
    /\ UNCHANGED <<now, world, fallback, chosen, verdict, decidedAt>>

\* The download fails: URL refused, HTTP error, body over the limit, no DER.
DownloadFails(c) ==
    /\ pc[c] = "fetching"
    /\ NextPoint(c)
    /\ UNCHANGED <<now, world, cache, doc, fallback, chosen, verdict, decidedAt>>

\* The download succeeds: what parses is cached, all of it is returned.
Download(c) ==
    /\ pc[c] = "fetching"
    /\ \E d \in issued \cup Others[url(c)] :
         /\ d.size <= MaxBodySize[c]
         /\ doc' = [doc EXCEPT ![c] = d]
         /\ \/ /\ ParseCrl(d)
               /\ cache' \in InsertCacheEntry(cache, url(c), [doc |-> d, fetched_at |-> now])
            \/ ~ParseCrl(d) /\ UNCHANGED cache
    /\ pc' = [pc EXCEPT ![c] = "evaluate"]
    /\ UNCHANGED <<now, world, point, fallback, chosen, verdict, decidedAt>>

\* Mutant: the first CRL that arrives is final, current or not.
Evaluate_FirstIsFinal(c) ==
    /\ pc[c] = "evaluate"
    /\ chosen' = [chosen EXCEPT ![c] = <<doc[c]>>]
    /\ pc' = [pc EXCEPT ![c] = "check"]
    /\ UNCHANGED <<now, world, cache, point, doc, fallback, verdict, decidedAt>>

\* The CRL is judged by the clock of this moment: current is final, and the
\* first one that is not current is kept as the fallback.
Evaluate(c) ==
    /\ pc[c] = "evaluate"
    /\ \/ /\ CrlIsCurrent(doc[c], now, Policy[c])
          /\ chosen' = [chosen EXCEPT ![c] = <<doc[c]>>]
          /\ pc' = [pc EXCEPT ![c] = "check"]
          /\ UNCHANGED <<point, fallback>>
       \/ /\ ~CrlIsCurrent(doc[c], now, Policy[c])
          /\ fallback' = [fallback EXCEPT ![c] = IF @ = <<>> THEN <<doc[c]>> ELSE @]
          /\ NextPoint(c)
          /\ UNCHANGED chosen
    /\ UNCHANGED <<now, world, cache, doc, verdict, decidedAt>>

\* No distribution point is left: the fallback, or nothing.
PointsExhausted(c) ==
    /\ pc[c] = "next" /\ point[c] > Len(Points[c])
    /\ chosen' = [chosen EXCEPT ![c] = fallback[c]]
    /\ pc' = [pc EXCEPT ![c] = "check"]
    /\ UNCHANGED <<now, world, cache, point, doc, fallback, verdict, decidedAt>>

\* The rest of run_crl_check: no CRL is Unknown, one is checked.
Check(c) ==
    /\ pc[c] = "check"
    /\ Finish(c, IF chosen[c] = <<>> THEN "Unknown"
                 ELSE CheckRevocation(chosen[c][1], Cert, Issuer,
                                      ValidationTime[c], now, Policy[c]))
    /\ UNCHANGED <<now, world, cache, point, doc, fallback, chosen>>

\* crl_timeout (or the caller's deadline) drops the future at its await.
TimedOut(c) ==
    /\ pc[c] = "fetching"
    /\ Finish(c, "Unknown")
    /\ UNCHANGED <<now, world, cache, point, doc, fallback, chosen>>

ClearCache ==
    /\ DOMAIN cache # {}
    /\ cache' = [u \in {} |-> 0]
    /\ UNCHANGED <<now, world, pc, point, doc, fallback, chosen, verdict, decidedAt>>

-----------------------------------------------------------------------------
(* The world.                                                              *)

\* The issuer publishes a complete CRL that tells what it knows now; it has
\* revoked another certificate too.
Complete(this, next, size) ==
    [decodes |-> TRUE, issuer |-> Issuer.subject, signer |-> Issuer.key, exts |-> <<>>,
     entries |-> <<[serial |-> "another", at |-> 0,
                    exts |-> <<[oid |-> "reasonCode", critical |-> FALSE, value |-> 1]>>]>>
                 \o IF revoked = NotRevoked THEN <<>>
                    ELSE <<[serial |-> Cert.serial, at |-> revoked, exts |-> <<>>]>>,
     this |-> this, next |-> next, size |-> size]

Issue ==
    /\ Cardinality(issued) < MaxIssued
    /\ \E w \in Windows, a \in 0 .. Ahead, size \in Sizes :
         issued' = issued \cup
           {Complete(now + a, IF w = NoNext THEN NoNext ELSE now + a + w, size)}
    /\ UNCHANGED <<now, revoked, cache, pc, point, doc, fallback, chosen,
                   verdict, decidedAt>>

Revoke ==
    /\ revoked = NotRevoked
    /\ revoked' = now
    /\ UNCHANGED <<now, issued, cache, pc, point, doc, fallback, chosen,
                   verdict, decidedAt>>

Tick ==
    /\ now < MaxTime
    /\ now' = now + 1
    /\ UNCHANGED <<world, cache, pc, point, doc, fallback, chosen, verdict,
                   decidedAt>>

\* Every call has returned and the bounded world has come to its end.
Quiescent == (\A c \in Calls : pc[c] = "done") /\ UNCHANGED vars

CallStep(c) ==
    \/ Lookup(c) \/ Download(c) \/ DownloadFails(c) \/ Evaluate(c)
    \/ PointsExhausted(c) \/ Check(c) \/ TimedOut(c)

Next ==
    \/ \E c \in Calls : CallStep(c)
    \/ ClearCache
    \/ Issue \/ Revoke \/ Tick
    \/ Quiescent

Spec == Init /\ [][Next]_vars

\* A call is polled until it returns: each await ends, at the latest when
\* crl_timeout drops it.
FairSpec == Spec /\ \A c \in Calls : WF_vars(CallStep(c))

-----------------------------------------------------------------------------
(* Properties.                                                             *)

\* The instant a call judges: validation_time, or the clock at its check.
Instant(c) ==
    IF ValidationTime[c] = WallClock THEN decidedAt[c] ELSE ValidationTime[c]

\* How long a CRL that does not know of a revocation yet can be relied on.
Exposure(c, w) ==
    Ahead + (IF w = NoNext THEN Policy[c].max_age ELSE w) + Policy[c].clock_skew

\* A revocation takes effect: replayed CRLs, slow mirrors and the cache can
\* hide it only until the window of a CRL published before it has closed
\* (validate_crl_dates through cache, selection and check).
RevocationTakesEffect ==
    \A c \in Calls :
        verdict[c] = "Valid" /\ revoked # NotRevoked =>
            \E w \in Windows : Instant(c) <= revoked + Exposure(c, w)

\* A stale or lagging endpoint never shadows a current CRL of another one (the
\* doc of fetch_crls_for_cert): a call settles for a CRL that is not current
\* only once it has tried all its distribution points, and it moves on from a
\* CRL it has received only if that one is not current, by the clock of the
\* moment and whatever the cache has served.
CurrentIsNotShadowed ==
    [][\A c \in Calls :
         /\ chosen'[c] # chosen[c] =>
              \/ CrlIsCurrent(chosen'[c][1], now, Policy[c])
              \/ point[c] > Len(Points[c])
         /\ point'[c] # point[c] /\ pc[c] = "evaluate" =>
              ~CrlIsCurrent(doc[c], now, Policy[c])]_<<chosen, point>>

\* Revoked is only reported of a certificate its issuer had revoked by the
\* validated instant: no forgery and no later revocation counts.
RevokedIsTrue ==
    \A c \in Calls :
        verdict[c] = "Revoked" => revoked # NotRevoked /\ revoked <= Instant(c)

\* The cache never holds more entries or bytes than its limits, whatever
\* the interleaving of inserts (MAX_CACHE_ENTRIES, MAX_CACHE_BYTES).
CacheBounded ==
    /\ Cardinality(DOMAIN cache) <= MaxCacheEntries
    /\ CacheBytes(cache, DOMAIN cache) <= MaxCacheBytes

\* Clones of a client share the cache but not the body limit: a call never
\* uses a CRL over its own limit, also not one a clone has cached.
BodyLimitHolds ==
    \A c \in Calls : \A i \in DOMAIN chosen[c] :
        chosen[c][i].size <= MaxBodySize[c]

\* An insert makes room by giving up the oldest entries and no others.
EvictsOldestFirst ==
    [][\A u \in Urls :
         u \in DOMAIN cache' /\ (u \in DOMAIN cache => cache'[u] # cache[u]) =>
            \A v \in DOMAIN cache \ DOMAIN cache' :
            \A w \in (DOMAIN cache \cap DOMAIN cache') \ {u} :
                cache[v].fetched_at <= cache[w].fetched_at]_cache

\* Every CRL check returns.
CallsReturn == \A c \in Calls : <>(pc[c] = "done")

\* The comment on fetch_crls_for_cert: a fallback CRL is stale, so the check
\* of it will be a definitive Invalid.
FallbackFailsClosed ==
    \A c \in Calls :
        pc[c] = "done" /\ point[c] > Len(Points[c]) /\ chosen[c] # <<>>
            => verdict[c] = "Invalid"
=============================================================================
