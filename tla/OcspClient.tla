----------------------------- MODULE OcspClient -----------------------------
(***************************************************************************)
(* The OCSP client (ltv/ocsp.rs): a fetch with failover over the responder *)
(* URLs, one nonce for all of them, and the check of what came back,       *)
(* against a CA that may revoke the certificate, responders that tell the  *)
(* truth of the moment, and a network that delivers any response ever      *)
(* made, whoever made it, with whatever certificates attached.             *)
(***************************************************************************)
EXTENDS OcspCheck

CONSTANTS
    Calls,          \* concurrent fetches for the same certificate
    Requests,       \* how a call may be configured
    Serial, Issuer, \* the certificate asked about, and its CA
    Responders,     \* the CA and those it lets answer without a check
    Windows,        \* their nextUpdate - thisUpdate, or NoNext
    Hints,          \* certificates the network may attach
    Forgeries,      \* responses by everyone else, any content, and those that
                    \* tell nothing
    MaxTime,        \* bound: last instant of the clock
    MaxProduced     \* bound: responses the responders make

WallClock == -1     \* validation_time = None

\* What the caller fixes: the URLs of the certificate, the nonce policy, the
\* validated instant, the freshness policy and the issuer path; and what it
\* cannot: how often its random nonce reads as an OCTET STRING.  That the
\* orchestrator asks nobody if it requires a nonce it does not use is in
\* Revocation; other callers come here with that request too.
Request ==
    [urls: Nat, use_nonce: BOOLEAN, require_nonce: BOOLEAN, nonce_wraps: Nat,
     validation_time: Nat \cup {WallClock}, freshness: Freshness,
     path: IssuerPath]

NoResponse ==
    [successful |-> FALSE, parses |-> FALSE,
     by |-> "name", responder |-> "none", signer |-> "none", produced_at |-> 0,
     singles |-> <<>>, nonce |-> NoNonce, embedded |-> <<>>]

Outcomes ==
    [error: {"pending", "fetch", "integrity"}, status: {"Unknown"}, delegated: {FALSE}]
      \cup [error: {"none"}, status: {"Valid", "Revoked", "Unknown"}, delegated: BOOLEAN]
Pending == [error |-> "pending", status |-> "Unknown", delegated |-> FALSE]
NotFetched == [Pending EXCEPT !.error = "fetch"]

\* A certificate that the CA has made for a responder and says needs no check.
Deputy(d) ==
    /\ d.issuer = Issuer.subject /\ SignedBy(d, Issuer) /\ Allows(Issuer, d)
    /\ IsIn("OCSPSigning", d.eku) /\ MaySign(d) /\ d.nocheck = "present"

\* The keys that may answer for the CA.
Entitled(key) ==
    key = Issuer.key \/ \E d \in Certs : d.key = key /\ Deputy(d)

\* The response says something definite about the certificate.
Tells(r) ==
    /\ r.successful /\ r.parses
    /\ \E i \in 1 .. Len(r.singles) :
         LET s == r.singles[i] IN
         /\ s.id = CertId(Serial, Issuer) /\ s.sha1 /\ s.status # "unknown"
         /\ s.next = NoNext \/ s.next >= s.this

ASSUME NoncesAssumption == Calls \subseteq Nonces /\ NoNonce \notin NonceBytes
ASSUME RequestsAssumption == Requests \subseteq Request
ASSUME IssuerAssumption ==
    /\ Serial \in STRING \ {"other"} /\ Issuer \in Certs /\ Decodable(Issuer)
    /\ Windows \subseteq Nat \cup {NoNext}
ASSUME RespondersAssumption ==
    /\ Responders \subseteq Certs /\ Issuer \in Responders
    /\ \A d \in Responders \ {Issuer} :
         /\ Deputy(d) /\ d.duplicate = {} /\ d.bc # "malformed"
         /\ d.critical \cap {"path", "unknown"} = {} /\ (d.hasSan => d.sanParses)
ASSUME NetworkAssumption ==
    /\ Hints \subseteq Seq(Certs) /\ Forgeries \subseteq Response
    /\ \A r \in Forgeries : ~(Entitled(r.signer) /\ Tells(r))
\* The names used below are names (the provers do not know it of a literal).
ASSUME NamesAssumption == {"other", "none"} \subseteq STRING
ASSUME BoundsAssumption == MaxTime \in Nat /\ MaxProduced \in Nat

VARIABLES
    now,        \* the wall clock
    revoked,    \* when the CA revoked the certificate, or Never
    produced,   \* every response a responder has made
    request,    \* the configuration of each call
    pc,         \* where it stands
    url,        \* index of the URL it asks
    nonce,      \* the nonce in its request, or NoNonce
    begunAt,    \* history: when it sent its first request
    answer,     \* what it received
    outcome,    \* what the fetch and the check returned
    decidedAt   \* history: when they did

vars == <<now, revoked, produced, request, pc, url, nonce, begunAt, answer,
          outcome, decidedAt>>
world == <<now, revoked, produced>>
sent == <<request, nonce, begunAt>>

TypeOK ==
    /\ now \in Nat /\ revoked \in Nat \cup {Never}
    /\ produced \subseteq Response
    /\ request \in [Calls -> Requests]
    /\ pc \in [Calls -> {"start", "fetching", "check", "done"}]
    /\ url \in [Calls -> Nat]
    /\ nonce \in [Calls -> NonceBytes \cup {NoNonce}]
    /\ begunAt \in [Calls -> Nat]
    /\ answer \in [Calls -> Response]
    /\ outcome \in [Calls -> Outcomes]
    /\ decidedAt \in [Calls -> Nat]

Init ==
    /\ now = 0 /\ revoked = Never /\ produced = {}
    /\ request \in [Calls -> Requests]
    /\ pc = [c \in Calls |-> "start"]
    /\ url = [c \in Calls |-> 1]
    /\ nonce = [c \in Calls |-> NoNonce]
    /\ begunAt = [c \in Calls |-> 0]
    /\ answer = [c \in Calls |-> NoResponse]
    /\ outcome = [c \in Calls |-> Pending]
    /\ decidedAt = [c \in Calls |-> 0]

-----------------------------------------------------------------------------
(* A call.                                                                 *)

Finish(c, result) ==
    /\ pc' = [pc EXCEPT ![c] = "done"]
    /\ outcome' = [outcome EXCEPT ![c] = result]
    /\ decidedAt' = [decidedAt EXCEPT ![c] = now]

\* extract_aia_urls finds an OCSP responder.
HasUrls(c) == request[c].urls > 0

\* build_ocsp_request_with_nonce: a nonce of its own, if there is to be one.
RequestNonce(c) ==
    IF request[c].use_nonce THEN [core |-> c, wraps |-> request[c].nonce_wraps] ELSE NoNonce

\* The request is built once, for all the URLs.  That may fail (a name or a
\* key that does not encode, no randomness), and without a URL it must.
Begin(c) ==
    /\ pc[c] = "start"
    /\ \/ /\ Finish(c, NotFetched)
          /\ UNCHANGED <<nonce, begunAt>>
       \/ /\ HasUrls(c)
          /\ pc' = [pc EXCEPT ![c] = "fetching"]
          /\ nonce' = [nonce EXCEPT ![c] = RequestNonce(c)]
          /\ begunAt' = [begunAt EXCEPT ![c] = now]
          /\ UNCHANGED <<outcome, decidedAt>>
    /\ UNCHANGED <<world, request, url, answer>>

\* Mutant: after the last URL the first one is asked again.
NextUrl_StartsOver(c) ==
    /\ url' = [url EXCEPT ![c] = IF @ < request[c].urls THEN @ + 1 ELSE 1]
    /\ UNCHANGED <<pc, answer, outcome, decidedAt>>

\* This URL has failed.  The same request goes to the next one; after the
\* last one the fetch has failed.
NextUrl(c) ==
    /\ url' = [url EXCEPT ![c] = @ + 1]
    /\ \/ url[c] < request[c].urls /\ UNCHANGED <<pc, outcome, decidedAt>>
       \/ url[c] >= request[c].urls /\ Finish(c, NotFetched)
    /\ UNCHANGED answer

\* send_ocsp_request gets nothing: URL refused, timeout, HTTP error, body too
\* large or no OCSP response.
Refused(c) ==
    /\ pc[c] = "fetching"
    /\ NextUrl(c)
    /\ UNCHANGED <<world, sent>>

\* A response arrives.  One that is not successful is another failed URL; of
\* one that is, the embedded certificates are what the network makes of them.
Answered(c) ==
    /\ pc[c] = "fetching"
    /\ \E r \in produced \cup Forgeries :
         \/ ~Successful(r) /\ NextUrl(c)
         \/ /\ Successful(r)
            /\ \E h \in Hints \cup {r.embedded} :
                 answer' = [answer EXCEPT ![c] = [r EXCEPT !.embedded = h]]
            /\ pc' = [pc EXCEPT ![c] = "check"]
            /\ UNCHANGED <<url, outcome, decidedAt>>
    /\ UNCHANGED <<world, sent>>

\* The instant a call judges: validation_time, or the clock.
Instant(c, clock) ==
    IF request[c].validation_time = WallClock THEN clock ELSE request[c].validation_time

Check(c) ==
    /\ pc[c] = "check"
    /\ Finish(c, CheckRevocationDetailed(
                     answer[c], Serial, Issuer, request[c].path, nonce[c],
                     request[c].require_nonce, Instant(c, now),
                     request[c].freshness))
    /\ UNCHANGED <<world, sent, url, answer>>

\* ocsp_timeout (or the caller's deadline) drops the future at its await.
TimedOut(c) ==
    /\ pc[c] = "fetching"
    /\ Finish(c, NotFetched)
    /\ UNCHANGED <<world, sent, url, answer>>

-----------------------------------------------------------------------------
(* The world, for as long as a call is under way.  It stands still between *)
(* the receipt of a response and its check: nothing is awaited there, and  *)
(* what arrives later is a late delivery.                                  *)

UnderWay ==
    /\ \E c \in Calls : pc[c] # "done"
    /\ \A c \in Calls : pc[c] # "check"

\* A responder echoes the nonce extension of a request, ours or another
\* client's, puts the bare nonce there, or leaves it out.
Echoes ==
    (UNION {{n, Wrapped(n)} : n \in {nonce[c] : c \in Calls} \ {NoNonce}})
      \cup {NoNonce} \cup [core: Nonces \ Calls, wraps: {1}]

\* It answers for this certificate and another one, with what the CA knows
\* now.
Respond ==
    /\ UnderWay /\ Cardinality(produced) < MaxProduced
    /\ \E d \in Responders, w \in Windows, n \in Echoes :
         LET other == [id |-> CertId("other", Issuer), sha1 |-> TRUE,
                       status |-> "revoked", revokedAt |-> 0, this |-> now,
                       next |-> IF w = NoNext THEN NoNext ELSE now + w]
             mine == [other EXCEPT !.id = CertId(Serial, Issuer), !.revokedAt = revoked,
                        !.status = IF revoked = Never THEN "good" ELSE "revoked"]
         IN  /\ Covers(d, now, FALSE)
             /\ produced' = produced \cup
                  {[successful |-> TRUE, parses |-> TRUE,
                    by |-> "key", responder |-> d.key, signer |-> d.key, produced_at |-> now,
                    singles |-> <<other, mine>>, nonce |-> n, embedded |-> <<d>>]}
    /\ UNCHANGED <<now, revoked, sent, pc, url, answer, outcome, decidedAt>>

Revoke ==
    /\ UnderWay /\ revoked = Never
    /\ revoked' = now
    /\ UNCHANGED <<now, produced, sent, pc, url, answer, outcome, decidedAt>>

Tick ==
    /\ UnderWay /\ now < MaxTime
    /\ now' = now + 1
    /\ UNCHANGED <<revoked, produced, sent, pc, url, answer, outcome, decidedAt>>

\* Every call has returned.
Quiescent == (\A c \in Calls : pc[c] = "done") /\ UNCHANGED vars

CallStep(c) == Begin(c) \/ Refused(c) \/ Answered(c) \/ Check(c) \/ TimedOut(c)

Next ==
    \/ \E c \in Calls : CallStep(c)
    \/ Respond \/ Revoke \/ Tick
    \/ Quiescent

Spec == Init /\ [][Next]_vars

-----------------------------------------------------------------------------
(* Properties.                                                             *)

\* What the call validates, once it has decided.
Validated(c) == Instant(c, decidedAt[c])

\* The outcome stands by itself: no check of a delegate is asked for.
Final(c, status) ==
    outcome[c] = [error |-> "none", status |-> status, delegated |-> FALSE]

\* A revocation takes effect: whatever the network replays, forges or
\* attaches, Valid is returned only while a response from before the
\* revocation can still be fresh (validate_response_freshness and all of
\* validate_responder_trust).
RevocationTakesEffect ==
    \A c \in Calls :
        Final(c, "Valid") /\ revoked # Never =>
            \E w \in Windows :
                Validated(c) <= revoked + request[c].freshness.clock_skew
                    + (IF w = NoNext THEN request[c].freshness.max_age ELSE w)

\* Revoked is only returned of a certificate that the CA had revoked by the
\* validated instant: no forgery, no other certificate and no later
\* revocation counts.
RevokedIsTrue ==
    \A c \in Calls :
        Final(c, "Revoked") => revoked # Never /\ revoked <= Validated(c)

\* Under require_nonce a response from before the call is worth nothing: a
\* Valid about the present means that the certificate was not revoked when
\* the call began, however far back the freshness policy would reach.
StrictSeesRevocation ==
    \A c \in Calls :
        request[c].require_nonce /\ request[c].validation_time = WallClock
          /\ Final(c, "Valid")
            => revoked = Never \/ revoked >= begunAt[c]

\* Whoever signed what is returned speaks for the CA: it is the CA, or its
\* CA-issued certificate allows it at the validated instant, the caller gave
\* the path of the CA and the certificate verifies below it, and the caller
\* is told to check that certificate unless the CA waived it.
SignerSpeaksForIssuer ==
    \A c \in Calls :
        outcome[c].error = "none" /\ outcome[c].status # "Unknown" =>
            \/ answer[c].signer = Issuer.key /\ ~outcome[c].delegated
            \/ \E d \in Certs :
                 /\ d.key = answer[c].signer
                 /\ SignedBy(d, Issuer) /\ IsIn("OCSPSigning", d.eku)
                 /\ Covers(d, Validated(c), FALSE)
                 /\ request[c].path.given
                 /\ Verifiable(<<d>> \o request[c].path.chain, request[c].path.roots,
                               Validated(c), FALSE, "OcspResponder")
                 /\ outcome[c].delegated <=> d.nocheck # "present"

\* A genuine response that arrives as it was made, answers this request and
\* is not outdated at the validated instant decides, if the paths of the CA
\* and of its responders are valid at that instant, also when it was made
\* after that instant: it is never an integrity failure, which would block.
\* The one exception is a bare nonce that happens to read as an OCTET STRING.
HonestEvidenceCounts ==
    \A c \in Calls :
        LET r == answer[c]
            q == request[c]
            s == r.singles[2]
            usable ==
              /\ pc[c] = "done" /\ outcome[c].error # "fetch" /\ r \in produced
              /\ q.path.given /\ q.path.chain # <<>> /\ q.path.chain[1] = Issuer
              /\ PathOk(q.path, Validated(c))
              /\ \A d \in Responders :
                   /\ Covers(d, Validated(c), FALSE)
                   /\ SameIdentity(d, Issuer) \/ DelegatePathOk(d, q.path, Validated(c))
              /\ q.require_nonce => q.use_nonce
              /\ IF r.nonce = NoNonce THEN ~q.require_nonce
                 ELSE q.use_nonce =>
                        \/ r.nonce = Wrapped(nonce[c])
                        \/ r.nonce = nonce[c] /\ nonce[c].wraps = 0
              /\ Validated(c) <= IF s.next = NoNext THEN s.this + q.freshness.max_age
                                                    ELSE s.next
        IN  usable =>
              Final(c, IF s.status = "revoked" /\ s.revokedAt <= Validated(c)
                       THEN "Revoked" ELSE "Valid")

\* What a fetch may still do: ask the URLs that are left, and check.
Remaining(c) ==
    CASE pc[c] = "start" -> request[c].urls + 2
      [] pc[c] = "fetching" -> request[c].urls - url[c] + 2
      [] pc[c] = "check" -> 1
      [] OTHER -> 0

\* Every step a fetch takes brings it nearer to its end, whatever each
\* responder does: no URL is asked twice, and no answer reopens the search.
FetchesProgress ==
    [][\A c \in Calls :
         <<pc[c], url[c], answer[c]>> # <<pc'[c], url'[c], answer'[c]>>
             => Remaining(c)' < Remaining(c)]_vars
=============================================================================
