# Verification of ritsp-ltv

TLA+ models of `ritsp-ltv`, a Rust library for timestamping (RFC 3161) and long-term
validation: it asks time-stamp authorities for tokens, verifies tokens, builds and verifies
certificate paths, and checks revocation with OCSP and CRLs. The modules in this directory
are translated from `src/src/**.rs`; `PROJECT.json` maps every definition to its lines.

## 1. Inventory of the system

| Part | State it keeps | Operations | Hard behaviour | What makes it correct |
|---|---|---|---|---|
| Revocation orchestrator `ltv/revocation.rs` | per check: two futures, two collected statuses, three timers, the recursion budget | `check_certificate_revocation*`, `collect_revocation_results`, `merge_preferred`, `enforce_revocation_policy`, `run_ocsp_check`, `run_crl_check`, `check_delegated_responder_revocation` | two futures under one `select!`, nested checks inside a timer, drops at every `await` | definitive answers rest on verified evidence; evidence in hand is never lost to a timer; every check returns; nesting is bounded |
| Validation status `ltv/status.rs` | none | `priority`, `resolve_priority`, `is_*`, `code`, `from_code` | - | the ranking Revoked > Valid > Invalid > Unknown is applied alike everywhere |
| CRL client `ltv/crl.rs` | a cache shared by all clones of a client | `fetch_crls_for_cert*`, `fetch_crl_with_freshness`, `insert_cache_entry`, `clear_cache`, `check_revocation*` | lock released across the download, limits, expiry between steps, replayed CRLs | a revocation takes effect in bounded time; no revocation is invented; limits of the cache hold |
| OCSP client `ltv/ocsp.rs` | none across calls; one nonce per fetch | `fetch_ocsp_response*`, `check_revocation_detailed*` | failover with one nonce, delegated responders, freshness | an accepted answer is fresh, for this certificate, from an authorised responder |
| Trust store `trust/store.rs`, `store_set.rs` | anchors and their DER index | loading (`from_pem_*`, `add_*`), `verify_chain*` | several anchors of one name, partial loads | an accepted chain is a path to an anchor; one bad anchor hides no good one |
| Pool chain builder `trust/chain_build.rs` | the chain built so far | `build_chain_from_pool*`, `trust_anchor_subjects` | greedy choice, loops, depth | chain without repetition whose links verify |
| AIA chain builder `ltv/chain.rs` | the chain built so far, the download under way | `build_chain`, `build_chain_from_certs` | answers of foreign servers, failover between URLs | ends, whatever is served; bounded effort; finds the path when the issuers are served |
| TSA client and pool `tsp/client.rs` | configuration; a nonce per request | `timestamp` | failover, timeouts, late answers | the token answers this request and no other; a genuine answer is taken |
| Token verification `tsp/token.rs` | none | `validate_timestamp_response*`, `verify_timestamp_token*` | order of checks, unsigned parts of a token, instant of validation | an accepted token is what an authority issued, under the certificate it signed with |
| URL guard `net.rs` | none | `validate_fetch_url`, `PublicDnsResolver`, redirect policy | resolution at check and at use | no connection to an address of a block the guard names, whatever a name resolves to |
| Name constraints, X.509 extensions `ltv/name_constraints.rs`, `ltv/x509_ext.rs` | none | predicates | union/intersection semantics | - |
| Cryptography, DER, errors | none | calls into providers, byte-level parsing | - | - |

Interaction: the orchestrator owns one OCSP and one CRL client and a trust store, calls the two
clients concurrently from one task, and calls itself for a delegated OCSP responder. The OCSP
check and token verification call the trust store for paths; all downloads pass the URL guard.
The only state shared between tasks is the CRL cache.

## 2. Plan

The order follows the weight of the behaviour: first what decides Valid or Revoked for a
certificate, then what decides whom to trust, then what feeds them.

| # | Modules | Part | State |
|---|---|---|---|
| 1 | `ValidationStatus`, `RevocationContract`, `Revocation`, `MCRevocation`, `RevocationProofs` | statuses, orchestrator and its contract | done |
| 2 | `CrlRevocation`, `CrlClient`, `MCCrlClient`, `CrlClientProofs` | CRL cache, download and check | done |
| 3 | `Certificates`, `PathValidation`, `TrustStore`, `ChainBuild`, `TrustPath`, `PathCerts`, `MCTrustStore`, `MCTrustPath`, `TrustStoreProofs`, `TrustPathProofs` | verification of paths, building from a pool, both together; role profiles of `x509_ext.rs` | done |
| 4 | `OcspCheck`, `OcspClient`, `MCOcspClient`, `OcspClientProofs` | the response checks, responder authorisation, nonce policy, freshness; responder failover with one nonce | done |
| 5 | `AnchorLoading`, `MCAnchorLoading`, `AnchorLoadingProofs` | `from_pem_*`, `add_*`, partial loads, edited directories, `TrustStoreSet` | done |
| 6 | `SignatureAlgorithms`, `TspToken`, `TsaClient`, `MCTsaClient`, `TsaClientProofs` | algorithms and digests; the checks of a token; request, nonce, pool failover | done |
| 7 | `FetchGuard`, `AiaChain`, `MCAiaChain`, `AiaChainProofs` | address rules, resolution at check and at use, redirects; AIA download loop | done |
| 8 | `der_utils.rs` length and integer rules | pure operators against reference definitions | dropped: byte level, no caller depends on more than whether a value decodes |

Composition: `Revocation` stands on the replies of the OCSP and the CRL component
(`CrlRevocation` produces the CRL replies, `OcspCheck` the OCSP ones). `TrustPath` composes
`ChainBuild` with `TrustStore`, `AiaChain` composes `FetchGuard` with the collection of a chain,
`TsaClient` composes the pool with the checks of `TspToken`. The OCSP check, token verification
and both chain builders meet the store in `Verifiable`, which `TrustStore` is proved to decide.
Abstract specifications: `RevocationContract` for one check, `PathValidation` for verification.

Every safety property and action property that a passing run checks is also a theorem
(section 6). What is left to TLC is the liveness of the four specifications with fairness.

## 3. Modules and the code

**Statuses.** `ValidationStatus` has the four statuses, their `priority`, `merge_preferred` and
`enforce_revocation_policy`. Payloads are dropped, nothing branches on them.

**Orchestrator.** One check is one asynchronous task. `Revocation` gives each level of nesting
(level 0 is the certificate, level *l* + 1 the delegated responder of level *l*) a `phase`: where
the current poll stands in the biased `select!` of `collect_revocation_results`. An action is one
branch polled: `RunOcspCheck`, `OcspReplied`, `ResponderChecked`, `OcspPending`, `OcspTimer`,
`RunCrlCheck`, `CrlReplied`, `CrlPending`, `CrlTimer`, `Deadline`; `Poll` is the executor waking
the task. `OcspArrives`, `CrlArrives` and `Tick` are the network and the clock, between any two
steps of a poll. Completing, timing out or giving up drops every future below (`DroppedBelow`).
A reply is what the client functions return: a fetch error, an integrity failure, or a verified
status that may name a delegated responder. `timely` is history: the replies that arrived while
the task was suspended. `RevocationContract` is what a caller is promised: each source reports at
most once, the answer is the higher-ranked report under the policy, and it is final.

**CRL client.** Each call of `CrlClient` walks its distribution points (`NextPoint`, `Lookup`,
`Download`, `DownloadFails`, `Evaluate`, `PointsExhausted`), then checks the CRL chosen (`Check`).
`Lookup` and the insert at the end of `Download` are separate steps because the code releases the
cache lock in between. Eviction (`Kept` within `InsertCacheEntry`) is a recursive function with
the code's conditions; `min_by_key` runs over a hash map, so that entries of the same age go in
any order and an insert has a set of results; `TimedOut` drops a call at its `await` and
`ClearCache` may come at any moment. The issuer (`Issue`, `Revoke`) and a network that serves any
CRL ever issued, CRLs of others, CRLs that are not complete or nothing are the environment.
`CrlRevocation` has the checks on one CRL: its name, the key that signed it, its extensions and
those of its entries, its window. `ParseCrl` takes complete CRLs of one issuer only
(`ValidateCrlExtensions`, `ContainsOid`), `VerifyCrlSignature` needs the issuer's name, key and
key usage, and `EntryOf` finds the certificate. It also holds the two notions of freshness the
code has: `crl_is_current` for choosing, `validate_crl_dates` for deciding. What a CRL that does
not tell all may look like is an assumption on the network (`SaysIncomplete`): it says so in one
of the ways RFC 5280 has for it.

**Paths.** `Certificates` has what the checks read of a certificate: names, key and signing key,
window, extensions, path length, name constraints and asserted names, and the predicates over
them. A base of a constraint is the set of values it covers. `PathValidation` says in one formula
which chains are to be accepted (`IsPath`, `Verifiable`). `TrustStore` is `verify_chain_inner`
with one step per stage and, in its loops, per iteration; `NextCandidate` is the `continue` of the
anchor loop, `ApplyConstraints` an iteration of `enforce_name_constraints_path`. `ChainBuild` is
the loop of `build_chain_from_pool_with_policy`. `TrustPath` gives the builder the subjects of the
store's anchors and the store what was built (`Offered`), or leaves the builder out and presents a
chain to the store, as a caller with a chain of its own does (`Presented`, `NotBuilding`).

**OCSP.** `OcspCheck` is `check_revocation_detailed_inner` and what it calls, as operators over a
response reduced to what they read: the responder is the first candidate whose key verifies
(`Responder`), it must be named by the response and be the CA or its delegate (`TrustedResponder`,
`DelegatedBy`), issuer and delegate must have a path to an anchor (`PathOk`, `DelegatePathOk`),
the nonce must come back in one of its encodings, as far as the policy asks for it (`ParseNonce`,
`ValidateNonce`, `NonceOk`), and the first matching SingleResponse must be fresh (`Answer`). For
paths it uses `Verifiable`, which `TrustStore` is proved to decide. `OcspClient` is the fetch:
`Begin` builds one request, `Refused` and `Answered` are the two ends of `send_ocsp_request`,
`NextUrl` the failover, `Check` the check, `TimedOut` the drop by the orchestrator's timer. Around
it are a CA (`Revoke`), responders that tell the truth of the moment (`Respond`), and a network
that delivers any response ever made or any forgery with whatever certificates attached. A
`Respond` may also come before the call begins: that is the replay the nonce is for. `Entitled`
are the keys that may answer for the CA, its own and those of a `Deputy`, a responder it certified
and exempted from checks. A forgery may say anything definite (`Tells`) as long as no entitled key
has signed it; one that says nothing may be signed by anybody.

**Loading anchors.** `AnchorLoading` has a directory of files that change (`Edit`), a load that
lists it (`ListDirectory`) and reads one entry after the other (`ReadEntry`) in the strict or the
lenient way, `FromPemFile`, `AddPem`, `AddCertificate`, and the two stores of a `TrustStoreSet`
the result goes to (`Finish`). A file is a sequence of PEM blocks with what is wrong with each;
what comes of it (`AddPemData`, `AddDerCertificate`) follows the parser's loop, including what it
has added before it fails. Only the last block may lack its end (`IsFile`): an END marker that is
missing further up makes two blocks one that does not decode. `EndedBlocksIn` says what the parser
takes of a file it returns Ok for; the block that is cut off is the difference between
`StrictLosesOnlyCut` and `LenientAccounts`, which hold, and what the comments promise
(`NothingDroppedSilently`, section 7). `hidden` is history: the entry that could not be listed,
which the report of the directory stands for and for no other. `Only` is what a loop with a filter
leaves of a sequence, in its order.

**Downloads and AIA.** `FetchGuard` is one download: `Validate` resolves the name and judges the
addresses, `Connect` resolves again, through the guarded resolver, and may get other addresses,
`Redirected`, `Responds`, `Chunk` and `Parse` are the exchange as the server wants it, `Breaks` is
every error and both timeouts. Addresses keep their octets and segments, because their masks are
what can be wrong. `NamedBlocks` are the blocks that the comments of `net.rs` name, as prefixes,
bit by bit, and the code's comparisons are checked against them at both edges of every block.
`NonPublicBlocks` adds `OverlookedBlocks`: five blocks of the IANA special-purpose registries that
`is_disallowed_ip` does not name and lets through (section 7). `AiaChain` is the loop around the
downloads: `Push` (one round up to the downloads), `TryUrl`, `Follow` (whatever certificate came
is taken), `GiveUp`, and `Order` for `build_chain_from_certs`, which ends in a place of its own
(`pc = "ordered"`). `trace` is history: whether the servers delivered issuers. `Paths` says what
can be found: both walks stop at a self-issued certificate and below an anchor's name,
`build_chain` needs URLs and an issuer nothing else could be taken for, `build_chain_from_certs`
takes the first of the list with the issuer's name.

**Timestamps.** `TspToken` has the checks of `token.rs` as operators over a token reduced to what
they read, with a comment on what its signature covers: the signed attributes and, through the
digest in them, the TSTInfo. `SignatureAlgorithms` has the dispatch by algorithm, the weak
algorithms and the RSASSA-PSS parameters; the primitives are a signature being made by a key, in
one way, over something. `TsaClient` is the pool: `UrlRefused`, `Send`, `NoAnswer`, `Receive`,
each moving to the next client with a new nonce when an attempt fails (`NextClient`). Around it
are authorities that answer any request that ever left, also late (`Issue`), other parties'
requests, and a network that alters what it likes (`Altered`: other certificates or another name
of the signer, another content, the attributes of another token, fields nobody signed) or brings
tokens others made (`Fabricated`). Authorities have a certificate for it and sign in one of the
ways there are (`TsasAssumption`); others sign with a weak algorithm, with two different hashes,
under a certificate for something else, or under one nobody vouches for (`FabricatorsAssumption`).
`Embedded` is the loop that adds the caller's certificates to the token's. `GenuineVerifies`
states when `order_chain` cannot go astray: `Unambiguous` of the certificates at hand (none has
two issuers of one name and one key, so also no intermediate that was issued again for its key),
`Straight` of the chain it has to find. `VerifyLater` is `verify_timestamp_token` on any of these.

## 4. Runs

| Run | Question | Bounds |
|---|---|---|
| `revocation` | Are definitive answers grounded in verified evidence and responders confirmed before they count, does no timer discard evidence that was there, does nesting stop, does every check return, and do the check and its nested check refine the contract? | four configurations: both policies and preferences, budgets 0 and 1 with room for a level more, a refused nonce, the deadline before, with and after the source timers; four OCSP and three CRL replies that conflict; certificates with both sources and with none |
| `crl_effect` | May a revocation stay hidden, or be invented; may a stale CRL shadow a current one? | two calls with different policies over one cache, two CRLs, replays, a forgery, a delta and a partitioned CRL, one of another name of the same key, an entry of another issuer, an unknown critical extension, clock to 3 |
| `crl_cache` | Do the limits hold under concurrent inserts, and does the oldest go first? | cache of 2 entries and 3 bytes, CRLs of 1, 3 and 4 bytes, three URLs, body limits 4 and 2; also: does each call return? |
| `ocsp_effect` | Who is believed, may a revocation stay hidden or be invented, does genuine evidence decide, does a required nonce exclude everything from before the call, and does a fetch only move forward? | one call in eight configurations (nonce policy, a nonce that reads as an OCTET STRING, historical instant, with, without and with a wrong issuer path, no URL), a CA and a delegate, one response of theirs, 20 forged or useless ones, nine sets of attached certificates, clock to 3 |
| `trust_path` | Are acceptance and rejection exactly `Verifiable`, for chains that are presented and chains that are built; does what is built verify, and do builder and store agree about anchors? | presented: every chain of up to two of the example certificates and chosen ones of three and four; built: seven leaves, pools of up to three CAs in every order, among them a loop, depths 0, 2 and 4; twelve stores of up to three anchors of one name, the one that works first, last or missing; four instants at and around the windows, three purposes |
| `tsa` | Does the token a call returns answer that attempt, under the certificate that signed it; is a token that verifies later genuine; are honest answers taken and genuine tokens verified; does the call return? | a pool of two clients (certificates requested or configured, policy asked for or not), another party's request, three authorities (one certificate renewed with the same key, three algorithms, both ESS attributes, both ways to name the signer), two tokens issued, nine others that sign, 19 distortions of a TSTInfo, three sets of certificates in other orders, two verifiers, three rounds of `order_chain` |
| `aia` | Is no address of a block the guard names contacted, and no other non-public one but those it overlooks; is the effort bounded, is the path found, does the call return? | up to four URLs of a certificate, names that resolve to nothing, public, internal or mixed addresses, the addresses at the edges of the blocks and of the overlooked ones, five redirect targets, bodies at and over the limit, announced or not; three rounds; every list of up to four certificates in every order |
| `loading` | But for a last block without END marker: is a load complete or does it say what is missing, and does adding anchors keep verdicts? | three files in eight versions each, or none; an edit at any moment; an entry that cannot be listed; two loads or additions into two stores |
| `revocation_tolerance`, `crl_fallback`, `trust_rollover`, `loading_truncated` | findings, section 7 | |

Why the bounds suffice. *Levels*: a level talks only to its neighbours; two exercise every
exchange, and the theorems hold for every depth. *Time*: instants matter only in relation to the
three timers, and the clocks reach past the last of them that the property depends on; in the CRL
runs past the window, the maximum age and the skew. *Calls*: the only coupling is the cache, which
two calls already contend for. *Cache*: one insert can evict one, all or no entries, and an entry
can be too large for it. *Paths*: the example certificates in `PathCerts` break each check on its
own, and a leaf, two intermediates and an anchor are the shortest path in which path length,
self-issued CAs and inherited constraints differ from their immediate-neighbour readings. *OCSP*:
a check reads one response, so one genuine and one foreign response at a time are all it can meet;
the attached certificates break each condition on a responder on its own; calls share nothing but
the responses in flight. *Tokens*: a token is judged by itself, so two of them are what mixing
takes; the second attempt is the first that can meet a late answer. *Downloads*: the limits are
compared in three places, and the instance goes past each (a redirect, a chunk and a round more
than allowed). *Loading*: files are read one by one, so two candidates and one edit show every
order of an edit, a listing and a reading. The theorems remove these bounds for the safety
properties they state.

Each property of a passing run has a mutant in `PROJECT.json`: a plausible mistake in the code (a
dropped guard, a swapped order, a missing reset) under which TLC finds it violated. The mutated
forms stand before the definitions they replace. The type invariant of `Revocation` is checked by
its run and proved; those of `TrustPath` (`PathTypes`), `CrlClient`, `OcspClient` and `AiaChain`
(`TypeCorrect`) are proved as part of their inductive invariants.

## 5. Fairness

`Revocation!FairSpec` assumes weak fairness of `Executor` (the runtime polls a task that is woken,
and a poll runs to its end) and of `Tick` (time passes). Nothing is assumed of the network: the
timers alone make `CheckReturns` true. `CrlClient!FairSpec` assumes weak fairness of each call's
next step. A server that stalls keeps no call waiting: URL validation and the request each run
under the client's timeout, so every `await` ends with an answer or an error (`DownloadFails`), at
the latest when the orchestrator's `crl_timeout` drops the future (`TimedOut`). Issuer,
responders, clock and `clear_cache` get no fairness. Of the OCSP fetch no fairness is assumed:
`FetchesProgress` gives a measure that every step of a fetch decreases.

`TsaClient!FairSpec` assumes weak fairness of the call's own next step: `validate_fetch_url` and
the request each run under the client's timeout, so that each of the two waits ends.
`AiaChain!FairSpec` assumes it of the steps of the loop, which wait for nobody, and of
`DownloadBreaks`, because both waits of a download run under `self.timeout`. No authority, server
or resolver owes anything.

## 6. Proofs

All proofs are for every value of the constants under the named assumptions of the modules. Most
of these are typing facts of what is explored. The others say what the world around the code is:

- limits and bounds: `MaxDepth` is larger than the recursion budget (`ConfigsAssumption`), the
  cache has room for an entry (`CacheAssumption`), a chain for a certificate (`DepthAssumption`,
  `LimitsAssumption`);
- the CA and its responders: a CRL that does not tell all says so (`IssuerAssumption` of
  `CrlClient`), a responder is the CA or its deputy with a well-formed certificate, and what an
  entitled key has signed is genuine or says nothing
  (`RespondersAssumption`, `NetworkAssumption` of `OcspClient`);
- nonces do not repeat (`NoncesAssumption`, `AttemptsAssumption`), and the same DER is the same
  certificate (`DerAssumption`): hashes are taken to be free of collisions throughout;
- authorities and other signers are as section 3 says, and do not share keys (`WorldAssumption`,
  `TsasAssumption`, `FabricatorsAssumption`); whatever is made of a TSTInfo still has a list of
  optional fields (`DistortionAssumption`);
- files are sequences of blocks of which only the last may be cut off (`FilesAssumption`);
- there are finitely many certificates to download (`StartAssumption`), and the literals used as
  names are strings (`NamesAssumption`, which the provers do not know by themselves).

TLC evaluates each of them on the instance of its run.

The loops over data (`Kept`, `Embedded`, `OrderChain`, `Only`, the walks of the chain builders)
are recursive functions. The library's induction principles take an operator as a parameter and
cannot be used; each module proves instead that a *set* with 0 and all successors holds every
number (`NatSetInduction`, and `SubsetInduction` for finite sets), from the well-foundedness of
the subset order, and applies it to the set of numbers for which the claim holds. That the
recursive function exists is shown in the same way.

`RevocationProofs`. `IInv` is the conjunction of `TypeOK`, `Bookkeeping` (each level's futures,
statuses, result and phase agree on what has completed), `Nesting` (a level is started by the OCSP
response of the level above it, once, with what is left of the budget), `Evidence` (a definitive
status is what that level's reply said, a definitive result what one of the statuses said),
`ResponderConfirmedFirst` and `StrictAnswerIsGrounded`. The grounding property alone is not
inductive: that a parent's answer is grounded when its responder is confirmed needs to know that
the nested result belongs to the responder of *this* response, which is `Nesting`, and rests on
evidence of its own, which is `Evidence`. From `IInv`: `TypeCorrect`, `Grounding`, `Confirmation`,
`BoundedRecursion`. `LevelRefinement` shows step by step that every level implements
`RevocationContract`; `ContractRefinement` and `NestedRefinement` are its instances for the
certificate and for the delegated responder. `EvidenceDecides` needs more than `IInv`: `Walking`
(the poll walks down and up the levels in one order; what completes leaves nothing running below,
and a level goes on to its timers only when everything below it rests), `Waiting` (a reply that
came while the task was suspended is read before the branch of its source looks at a timer) and
`RevocationDecides`.

`TrustStoreProofs`. `Inv` says what each stage may rely on: `Passed` (the checks already made, and
`Linked` for the part of the chain walked), `PathChosen` and `Walked` (the path under the name
constraint walk, and that the accumulated state is exactly the constraints of the CAs above `top`,
enforced on everything below them), `NoneBefore` (no anchor passed over completes the chain). The
key lemma is `CheckCertMeaning`: checking a certificate against the accumulated state is checking
it against each CA by itself; `CompletedPath` splits `IsPath` of a chain with an anchor appended
into the checks of the chain, of the anchor, and of the names. `Soundness` and `Completeness`
follow; `Exact` puts them together: when verification is done, it has accepted if and only if the
chain is `Verifiable`. `Narrowing` needs no invariant.

`TrustPathProofs`. `PathInv` adds to both halves that the builder's anchor subjects are the
store's, that what is verified is what was built, and `Unnamed`: as long as the error kept is
`untrusted_root`, no anchor tried carried the issuer's name. From it `Acyclic`,
`BuiltChainsVerify`, `AnchorsAgree`, `PathTypes`, and `PathVerdicts`: the two sides of
`verify_chain` for presented and for built chains alike.

`CrlClientProofs`. `Inv` is `TypeOK`, `PointInv` (a download is at a distribution point of the
call), `HeldInv` (what a call holds is known and within its own limit), `CacheInv` (the cache is
finite, within its limits, and holds known documents), `IssuedInv` (what the issuer published is
true of its moment) and `DecidedInv` (a definitive verdict is what the check of the chosen CRL
said at the time it was made). The cache proof is an induction over the entries still there: each
round removes one, and the loop ends with room for the new entry; `OldestGoFirst` carries the age
order through the same induction. `RevocationBites` and `RevokedOnlyWhenTrue` follow from
`DecidedInv`: a CRL that passes `VerifyCrlSignature` and says nothing of being incomplete is one
the issuer published, and such a CRL is true of every instant its window and the policy let it
decide about. From the same invariant: `CacheStaysBounded`, `LimitPerClone`, `TypeCorrect`.
`CurrentWins` needs of the invariant only the types: it goes through the steps of the walk
(`WalkStep`), of which only `Evaluate` and `PointsExhausted` settle anything.

`OcspClientProofs`. `Inv` is `TypeOK`, `WorldInv` (everything the responders made was true when
they made it) and `CallInv` (`Progress`: where each fetch stands and which nonce it sent;
`Decided`: an outcome is what the check said of the answer kept). The argument goes from the
outcome down: a definite outcome has a signer that the checks let speak for the CA (the CA, or a
delegate with a path below the issuer path that was given), so its key is entitled, so the response is genuine, so what it says of the certificate was true at its time
(`SignerBound`, `RevokedOnlyWhenTrue`), and the freshness checks bound how old that is
(`RevocationBites`); with a required nonce it was made for this call (`StrictIsCurrent`).
`HonestEvidenceDecides` goes the other way, through every check. `FailoverEnds` needs the measure
and `Progress` only.

`AiaChainProofs`. `Inv` is `TypeOK`, `FetchInv` (an address about to be connected to, and the
peer, are none that `is_disallowed_ip` refuses, and the body is within its limit), `WalkInv` (how
the chain was collected and where the loop is) and `EffortInv` (connections made and still
possible are paid for by the URLs tried). `NamedBlocksAvoided` compares the code's masks with the
blocks `net.rs` names bit by bit, for every IPv4 and IPv6 address (`AllowedIsUnnamed`); of the
overlooked blocks it says nothing. `EffortStaysBounded` adds up `EffortInv` over the certificates.
`PathsAreFound`: the greedy walk and the path coincide up to where the walk ends.

`TsaClientProofs`. `Inv` is `TypeInv`, `IssuedInv` (what an authority issued is an answer to a
request under a certificate valid at the time) and the safety properties in their inductive form.
A token on the network that passes has attributes its signature fixes, a content the message
digest in them fixes, and a signer the ESS hash in them fixes; so what passes under an authority's
key is the authority's token up to what is not signed (`SignerBound`), and strictly increasing
fields leave one nonce to compare (`AttemptIsAnswered`). Whoever else signs fails by the
algorithm, by the purpose, or by the path: on a path that starts with a certificate nobody vouches
for, every certificate equals the first, and no verifier trusts it (`OnlyGenuineVerifies`).
`HonestAnswersPass` takes an authority's token through every check. `EveryGenuineVerifies` shows
that each round of `order_chain` finds the next certificate of the chain (`NextIsLink`) and that
after its end only the anchor that completes it can follow (`NextStays`).

`AnchorLoadingProofs`. `Inv` is `TypeInv`, `LoadInv` (every file listed is still to come, or read
in full, or, in the lenient way, reported) and `ModeInv` (only a directory is read step by step).
What one file yields is `PemFacts`: a file that parses to its end has given every certificate that
begins and ends. `StrictLoadsLoseOnlyCut` and `LenientLoadsAccount` are `LoadInv` with no entry
left. `AdditionsKeepVerdicts` rests on `VerifiableGrows`: a path asks of the store only its
anchor, and a chain whose last certificate has just become an anchor is a path by itself, being
the beginning of one.

Only model-checked: `CheckReturns`, `CallsReturn`, `PoolReturns` and `BuildReturns`. Liveness
under fairness is out of the proof system's reach.

## 7. What disagrees with the documentation

- **Relaxed policy** (`revocation_tolerance`). The comment says an `Unknown` responder is
  tolerated. The nested check runs inside the parent's OCSP timer; when a source of the responder
  is slow the timer drops it, and the verified response is discarded instead of tolerated.
- **Fallback CRL** (`crl_fallback`). The comment says the fallback CRL is stale and the check
  fails closed. A CRL dated in the future is also kept as the fallback, and the check returns
  Valid.
- **Rollover anchors** (`trust_rollover`). The comment says every anchor of the issuer's name is
  tried. A self-issued last certificate that is itself configured as an anchor is judged by its
  self-signature alone, even if the root that signed it is configured.
- **Truncated bundles** (`loading_truncated`). The comments say that loading fails closed on any
  parse error (`store.rs` 433-443) and that the lenient load drops nothing silently (499-508). A
  bundle cut off within its last certificate loads without it: `add_pem_data` leaves its loop at a
  BEGIN marker without an END marker (643) and returns Ok if a block before it was read.

Two more comments say more than the code does. They have no run of their own; the properties name
them as exceptions:

- The comment on `validate_fetch_url` (`net.rs` 319-321) says that an address that is "otherwise
  non-public" is refused. `is_disallowed_ip` does not name five blocks that the IANA registries do
  not mark as globally reachable, or not as a whole: 64:ff9b:1::/48 (local-use NAT64),
  100:0:0:1::/64, 2001::/23 (protocol assignments, Teredo among them), 2002::/16 (6to4) and
  5f00::/16 (segment routing). `OnlyPublicOrOverlooked` exempts these (`OverlookedBlocks`) and no
  others.
- The comment on `order_chain` (`token.rs` 1273-1279) says that re-issued intermediates no longer
  make a valid chain fail. That is so when the new one has a new key. Of two with the same key the
  first is taken, and when that one has expired a genuine token fails: with such a certificate
  added to the bundles of `MCTsaClient`, `GenuineVerifies` without `Unambiguous` is violated.

Stale documents: ADR 0010 (`docs/adr/0010-crl-fetch-hardening.md` 66 and 111) and ADR 0015
(`docs/adr/0015-chain-validation-hardening.md` 48) still list DNS rebinding and redirects to
internal names as residual. `PublicDnsResolver` has closed both since: the addresses a connection
is made to are judged when they are resolved for it, which is what `OnlyPublicOrOverlooked`
checks.

Seen while modelling and stated as limits of the properties rather than as findings:

- `order_chain` does not stop at an anchor. Among cross-certified anchors it may walk past the
  certificate that would have verified, and a genuine token fails. Nor does it find a chain
  through a self-issued certificate in the middle (a CA that changed its key), or one whose anchor
  is not self-issued and comes with the token; and where the anchor that signed is only in the
  store, it appends the first namesake that came with the token. `GenuineVerifies` is therefore
  about certificates in which an issuer is unambiguous, chains that are self-issued at most at
  their end, and self-signed roots.
- `build_chain` takes whatever certificate a server sends for the issuer without comparing names,
  and discards what it downloads in its last round. `PathIsFound` is about servers that send the
  issuer.
- An OCSP responder that returns the bare nonce is refused when the random bytes happen to read as
  an OCTET STRING of the right length, about once in 2^16 requests: `HonestEvidenceCounts` names
  it as its exception.
- The redirect policy counts the first URL, so `MAX_REDIRECTS` bounds requests, not redirects.
- A file that the lenient load reports as skipped may have contributed the certificates before the
  bad one. A bundle with text before its first marker loads as a file and fails in a directory.
- A self-issued certificate that joins the store as an anchor is from then on judged by its own
  signature (the finding above); `AddingKeepsVerdicts` names it as its exception.

## 8. What is not modelled

Signatures on certificates, CRLs and OCSP responses are facts (this key signed this); for tokens
the algorithms are modelled and the primitives are not. DER parsing is a flag (parses or not)
wherever the code branches on it; the byte-level comparison of names is the set of values a
constraint covers, and malformed directory or mail attributes of certificates under constraints
are left out. Setters of the clients act before a client is shared and are constants of a call.
The blocking wrapper drives the same future. Of OCSP, attached certificates that do not parse (the
code skips them) are left out, and the wrappers that refuse a delegated outcome: they give no
issuer path, and without one there is no such outcome. `extract_tst_info` reads a token without
verifying it and decides nothing. The HTTP client a caller may supply in place of the hardened one
is outside what the guard promises; so are pooled connections, which were checked when they were
opened. The algorithm registry is a table that nothing in the crate consults. `der_utils.rs` and
`error.rs` have no state and no protocol.
