-------------------------- MODULE OcspClientProofs --------------------------
(* Theorems about OcspClient, for every set of calls, requests, responders *)
(* and certificates, and for every network.                                *)
EXTENDS OcspClient, FiniteSetTheorems, SequenceTheorems, TLAPS

-----------------------------------------------------------------------------
(* Data.                                                                   *)

\* A set of positions has a first one.
LEMMA MinIn == ASSUME NEW S \in SUBSET Nat, S # {}
               PROVE  Min(S) \in S /\ \A n \in S : Min(S) <= n
<1> DEFINE R == OpToRel(<, Nat)
<1>1. PICK x \in S : \A y \in S : ~(<<y, x>> \in R)
  <2> HIDE DEF R
  <2>1. IsWellFoundedOn(R, Nat)
    BY NatLessThanWellFounded DEF R
  <2> QED BY <2>1, WFMin
<1>2. R = {p \in Nat \X Nat : p[1] < p[2]}
  BY DEF OpToRel
<1>3. ASSUME NEW y \in S PROVE x <= y
  <2>1. <<y, x>> \in Nat \X Nat /\ <<y, x>>[1] = y /\ <<y, x>>[2] = x
    OBVIOUS
  <2> HIDE DEF R
  <2>2. ~(y < x)
    BY <1>1, <1>2, <2>1
  <2> QED BY <2>2
<1> QED BY <1>3 DEF Min

\* The one position of a set of one.
LEMMA MinOne == ASSUME NEW n \in Nat PROVE Min({n}) = n
BY DEF Min

\* Both certificates that may have signed are certificates.
LEMMA CandidateFacts ==
    ASSUME NEW r \in Response
    PROVE  /\ Verifying(r, Issuer) \subseteq 1 .. Len(r.embedded) + 1
           /\ \A i \in 1 .. Len(r.embedded) + 1 : Candidates(r, Issuer)[i] \in Certs
           /\ \A i \in 1 .. Len(r.embedded) : Candidates(r, Issuer)[i] = r.embedded[i]
<1>1. r.embedded \in Seq(Certs) /\ Issuer \in Certs
  BY IssuerAssumption DEF Response
<1> QED BY <1>1, AppendProperties DEF Verifying, Candidates

\* The responder found has the key that signed.
LEMMA ResponderFacts ==
    ASSUME NEW r \in Response, Verifying(r, Issuer) # {}
    PROVE  Responder(r, Issuer) \in Certs /\ Responder(r, Issuer).key = r.signer
<1> DEFINE m == Min(Verifying(r, Issuer))
           first == Candidates(r, Issuer)[m]
<1>1. m \in Verifying(r, Issuer)
  <2>1. r.embedded \in Seq(Certs)
    BY DEF Response
  <2>2. Verifying(r, Issuer) \subseteq Nat
    BY <2>1, CandidateFacts
  <2> QED BY <2>2, MinIn
<1>2. first \in Certs /\ first.key = r.signer
  BY <1>1, CandidateFacts DEF Verifying
<1> HIDE DEF first
<1>3. Responder(r, Issuer) = IF SameIdentity(first, Issuer) THEN Issuer ELSE first
  BY DEF Responder, first
<1> QED BY <1>2, <1>3, IssuerAssumption DEF SameIdentity

\* The response for the certificate that is looked at.
LEMMA MatchingFacts ==
    ASSUME NEW r \in Response, Matching(r, Serial, Issuer) # {}
    PROVE  /\ Min(Matching(r, Serial, Issuer)) \in 1 .. Len(r.singles)
           /\ r.singles[Min(Matching(r, Serial, Issuer))] \in Single
           /\ r.singles[Min(Matching(r, Serial, Issuer))].id = CertId(Serial, Issuer)
<1>1. r.singles \in Seq(Single)
  BY DEF Response
<1>2. Matching(r, Serial, Issuer) \subseteq 1 .. Len(r.singles)
  BY DEF Matching
<1> DEFINE m == Min(Matching(r, Serial, Issuer))
<1>3. m \in Matching(r, Serial, Issuer)
  BY <1>1, <1>2, MinIn
<1> HIDE DEF m
<1>4. m \in 1 .. Len(r.singles) /\ r.singles[m].id = CertId(Serial, Issuer)
  BY <1>3 DEF Matching
<1> QED BY <1>1, <1>4 DEF m

\* One CA's constraints, accumulated from nothing, mean what they mean alone.
LEMMA OneConstraint ==
    ASSUME NEW ca, NEW c
    PROVE  CheckCert(AddFromCert(NoConstraints, ca), c) <=> Allows(ca, c)
<1> DEFINE s == AddFromCert(NoConstraints, ca)
           own == {[kind |-> "directory", value |-> c.subject]}
                    \cup (IF c.hasSan THEN {n \in c.san : n.kind \in Kinds}
                          ELSE {[kind |-> "mail", value |-> e] : e \in c.emails})
           Fine(n) == /\ \A b \in ca.excluded : ~BaseMatches(b, n)
                      /\ (\E b \in ca.permitted : b.kind = n.kind)
                           => \E b \in ca.permitted : BaseMatches(b, n)
<1>1. s.permitted = {ca.permitted} \ {{}} /\ s.excluded = ca.excluded
  BY DEF AddFromCert, NoConstraints
<1>2. Allows(ca, c) <=> /\ ca.permitted \cup ca.excluded # {} => (c.hasSan => c.sanParses)
                        /\ \A n \in own : Fine(n)
  BY DEF Allows
<1>3. \A n : CheckName(s, n) <=> Fine(n)
  <2> HIDE DEF s
  <2> QED BY <1>1 DEF CheckName
<1>4. IsEmpty(s) <=> ca.permitted \cup ca.excluded = {}
  BY <1>1 DEF IsEmpty
<1>5. AssertedNames(s, c) \subseteq own
  BY DEF AssertedNames
<1>6. \A n \in own : n \in AssertedNames(s, c) \/ (n.kind = "mail" /\ ~ConstrainsMail(s))
  BY DEF AssertedNames
<1>7. ~ConstrainsMail(s) => \A b \in ca.permitted \cup ca.excluded : b.kind # "mail"
  <2> HIDE DEF s
  <2> QED BY <1>1 DEF ConstrainsMail
<1>8. \A n : n.kind = "mail" /\ ~ConstrainsMail(s) => Fine(n)
  <2> HIDE DEF s
  <2> QED BY <1>7 DEF BaseMatches
<1>9. IsEmpty(s) => \A n : Fine(n)
  BY <1>4
<1> HIDE DEF s, own, Fine
<1> QED BY <1>2, <1>3, <1>4, <1>5, <1>6, <1>8, <1>9 DEF CheckCert, s

\* A delegate that needs no check is a deputy of the CA.
LEMMA DelegateIsDeputy ==
    ASSUME NEW d \in Certs, DelegatedBy(d, Issuer)
    PROVE  /\ SignedBy(d, Issuer) /\ IsIn("OCSPSigning", d.eku)
           /\ d.nocheck = "present" => Deputy(d)
<1>1. IsIn("OCSPSigning", d.eku) /\ MaySign(d)
  BY DEF DelegatedBy, DelegateExtensionsOk, SatisfiesPurpose, ValidateOcspResponder,
         AnyPurpose
<1>2. Allows(Issuer, d)
  BY OneConstraint DEF DelegatedBy
<1> QED BY <1>1, <1>2 DEF DelegatedBy, Deputy

-----------------------------------------------------------------------------
(* The check.                                                              *)

\* What a definite outcome o rests on: who signed, and what was said.
RestsOn(o, r, path, sent_, require, now_, f) ==
    LET s == r.singles[Min(Matching(r, Serial, Issuer))] IN
    /\ Parses(r) /\ NonceOk(sent_, r.nonce, require)
    /\ \E d \in Certs :
         /\ d.key = r.signer /\ ValidAt(d, now_, FALSE)
         /\ o.delegated = ResponderCheckRequired(d, Issuer)
         /\ \/ SameIdentity(d, Issuer)
            \/ DelegatedBy(d, Issuer) /\ DelegatePathOk(d, path, now_)
    /\ Matching(r, Serial, Issuer) # {}
    /\ s.sha1 /\ ValidateResponseFreshness(s, now_, f) /\ o.status = StatusOf(s, now_)

\* A definite outcome of the check rests on all of that.
LEMMA CheckMeaning ==
    ASSUME NEW r \in Response, NEW path, NEW sent_, NEW require, NEW now_ \in Nat,
           NEW f, NEW o,
           o = CheckRevocationDetailed(r, Serial, Issuer, path, sent_, require, now_, f),
           o.error = "none", o.status # "Unknown"
    PROVE  RestsOn(o, r, path, sent_, require, now_, f)
<1> DEFINE c == Responder(r, Issuer)
           s == r.singles[Min(Matching(r, Serial, Issuer))]
           accepted ==
          /\ path.given => path.chain # <<>> /\ path.chain[1] = Issuer
          /\ Parses(r)
          /\ Verifying(r, Issuer) # {}
          /\ PathOk(path, now_)
          /\ TrustedResponder(c, Issuer, r, now_)
          /\ SameIdentity(c, Issuer) \/ DelegatePathOk(c, path, now_)
          /\ NonceOk(sent_, r.nonce, require)
<1>1. o = IF accepted
          THEN Answer(r, Serial, Issuer, ResponderCheckRequired(c, Issuer), now_, f)
          ELSE Failed
  BY DEF CheckRevocationDetailed
<1> HIDE DEF accepted, c, s
<1>2. accepted /\ o = Answer(r, Serial, Issuer, ResponderCheckRequired(c, Issuer), now_, f)
  BY <1>1 DEF Failed
<1>3. o = IF Matching(r, Serial, Issuer) = {} THEN Checked("Unknown", FALSE)
          ELSE IF s.sha1 /\ ValidateResponseFreshness(s, now_, f)
               THEN Checked(StatusOf(s, now_), ResponderCheckRequired(c, Issuer))
               ELSE Failed
  BY <1>2 DEF Answer, s
<1>4. /\ Matching(r, Serial, Issuer) # {} /\ s.sha1 /\ ValidateResponseFreshness(s, now_, f)
      /\ o = Checked(StatusOf(s, now_), ResponderCheckRequired(c, Issuer))
  BY <1>3 DEF Failed, Checked
<1>5. o.status = StatusOf(s, now_) /\ o.delegated = ResponderCheckRequired(c, Issuer)
  BY <1>4 DEF Checked
<1>6. Parses(r) /\ NonceOk(sent_, r.nonce, require) /\ Verifying(r, Issuer) # {}
      /\ TrustedResponder(c, Issuer, r, now_)
  BY <1>2 DEF accepted
<1>7. c \in Certs /\ c.key = r.signer
  BY <1>6, ResponderFacts DEF c
<1>8. /\ ValidAt(c, now_, FALSE)
      /\ SameIdentity(c, Issuer) \/ (DelegatedBy(c, Issuer) /\ DelegatePathOk(c, path, now_))
  BY <1>2, <1>6 DEF TrustedResponder, accepted
<1> QED BY <1>4, <1>5, <1>6, <1>7, <1>8 DEF s, RestsOn

\* What the check returns is an outcome, and not a failure to fetch.
LEMMA CheckTyped ==
    ASSUME NEW r \in Response, NEW path, NEW sent_, NEW require, NEW now_ \in Nat, NEW f
    PROVE  LET o == CheckRevocationDetailed(r, Serial, Issuer, path, sent_, require, now_, f)
           IN  o \in Outcomes /\ o.error \in {"none", "integrity"}
<1> DEFINE o == CheckRevocationDetailed(r, Serial, Issuer, path, sent_, require, now_, f)
           del == ResponderCheckRequired(Responder(r, Issuer), Issuer)
           s == r.singles[Min(Matching(r, Serial, Issuer))]
<1>1. o = Failed \/ o = Answer(r, Serial, Issuer, del, now_, f)
  BY DEF CheckRevocationDetailed
<1>2. del \in BOOLEAN
  BY DEF ResponderCheckRequired
<1>3. Matching(r, Serial, Issuer) # {} => StatusOf(s, now_) \in {"Valid", "Revoked", "Unknown"}
  <2>1. Matching(r, Serial, Issuer) # {} => s.status \in {"good", "revoked", "unknown"}
    BY MatchingFacts DEF Single
  <2> HIDE DEF s
  <2> QED BY <2>1 DEF StatusOf
<1>4. Failed \in Outcomes /\ Failed.error = "integrity"
  BY DEF Failed, Outcomes
<1>5. \A st \in {"Valid", "Revoked", "Unknown"}, b \in BOOLEAN :
         Checked(st, b) \in Outcomes /\ Checked(st, b).error = "none"
  BY DEF Checked, Outcomes
<1> HIDE DEF del
<1>6. \/ Answer(r, Serial, Issuer, del, now_, f) = Failed
      \/ \E st \in {"Valid", "Revoked", "Unknown"}, b \in BOOLEAN :
            Answer(r, Serial, Issuer, del, now_, f) = Checked(st, b)
  BY <1>2, <1>3 DEF Answer
<1> HIDE DEF o
<1> QED BY <1>1, <1>4, <1>5, <1>6 DEF o
-----------------------------------------------------------------------------
(* The invariant.                                                          *)

\* The single response of a genuine response that is about the certificate:
\* what the CA knew when it was made.
Truthful(s) ==
    /\ s.id = CertId(Serial, Issuer) /\ s.sha1 /\ s.this <= now
    /\ \E w \in Windows : s.next = IF w = NoNext THEN NoNext ELSE s.this + w
    /\ \/ s.status = "good" /\ (revoked # Never => s.this <= revoked)
       \/ /\ s.status = "revoked" /\ revoked # Never
          /\ s.revokedAt = revoked /\ revoked <= s.this

\* A nonce that is echoed was sent before, unless no call of ours made it.
EchoesCall(r) ==
    \/ r.nonce = NoNonce \/ r.nonce.core \notin Calls
    \/ pc[r.nonce.core] # "start" /\ begunAt[r.nonce.core] <= r.produced_at

\* What a responder makes: signed by it, about the certificate in its second
\* single response, true at the instant it was made.
Genuine(r) ==
    /\ r.successful /\ r.parses /\ r.by = "key" /\ r.responder = r.signer
    /\ \E d \in Responders : r.signer = d.key /\ r.embedded = <<d>>
    /\ Len(r.singles) = 2 /\ r.singles[1].id # CertId(Serial, Issuer)
    /\ Truthful(r.singles[2]) /\ r.singles[2].this = r.produced_at
    /\ EchoesCall(r)

\* Everything the responders have made is genuine, and no revocation is in the
\* future.
WorldInv ==
    (revoked # Never => revoked <= now) /\ \A r \in produced : Genuine(r)

\* The response a is on the network at t, where the responders have made P:
\* genuine or forged, with whatever certificates attached.
Available(P, a, t) ==
    \E h \in Seq(Certs) :
        \/ \E r \in P : a = [r EXCEPT !.embedded = h] /\ r.produced_at <= t
        \/ \E r \in Forgeries : a = [r EXCEPT !.embedded = h]

\* The response a is on the network at t, as the responders stand now.
Received(a, t) == Available(produced, a, t)

\* How far a call has come.
Progress(c) ==
    /\ pc[c] = "start" => url[c] = 1 /\ nonce[c] = NoNonce
    /\ pc[c] = "fetching" => url[c] # 0 /\ url[c] <= request[c].urls
    /\ pc[c] \in {"fetching", "check"} => nonce[c] = RequestNonce(c)
    /\ nonce[c] \in {NoNonce, RequestNonce(c)} /\ begunAt[c] <= now
    /\ pc[c] = "check" => Received(answer[c], now)
    /\ IF pc[c] = "done" THEN outcome[c].error # "pending" ELSE outcome[c] = Pending

\* A call that got as far as the check returned what the check said then.
Decided(c) ==
    outcome[c].error \in {"none", "integrity"} =>
        /\ nonce[c] = RequestNonce(c)
        /\ Received(answer[c], decidedAt[c])
        /\ outcome[c] = CheckRevocationDetailed(
                            answer[c], Serial, Issuer, request[c].path, nonce[c],
                            request[c].require_nonce, Validated(c), request[c].freshness)

\* What holds of every call.
CallInv == \A c \in Calls : Progress(c) /\ Decided(c)

\* The inductive invariant.
Inv == TypeOK /\ WorldInv /\ CallInv

\* NoResponse is a response, and Pending and NotFetched are outcomes.
LEMMA ConstantsTyped ==
    /\ NoResponse \in Response /\ Pending \in Outcomes /\ NotFetched \in Outcomes
    /\ Pending.error = "pending" /\ NotFetched.error = "fetch"
<1>1. NoResponse \in Response
  BY NamesAssumption DEF NoResponse, Response
<1>2. Pending \in Outcomes /\ NotFetched \in Outcomes
      /\ Pending.error = "pending" /\ NotFetched.error = "fetch"
  BY DEF Pending, NotFetched, Outcomes
<1> QED BY <1>1, <1>2

\* Other certificates attached leave what is signed as it was.
LEMMA EmbeddedFacts ==
    ASSUME NEW r \in Response, NEW h \in Seq(Certs)
    PROVE  LET a == [r EXCEPT !.embedded = h] IN
           /\ a \in Response /\ a.embedded = h
           /\ a.successful = r.successful /\ a.parses = r.parses /\ a.signer = r.signer
           /\ a.singles = r.singles /\ a.nonce = r.nonce /\ a.produced_at = r.produced_at
BY DEF Response

\* The configuration of a call.
LEMMA RequestTyped ==
    ASSUME TypeOK, NEW c \in Calls
    PROVE  /\ request[c].urls \in Nat /\ request[c].use_nonce \in BOOLEAN
           /\ request[c].nonce_wraps \in Nat
           /\ request[c].validation_time \in Nat \cup {WallClock}
           /\ request[c].freshness.clock_skew \in Nat /\ request[c].freshness.max_age \in Nat
<1>1. request[c] \in Request
  BY RequestsAssumption DEF TypeOK
<1>2. request[c].freshness \in Freshness
  BY <1>1 DEF Request
<1> QED BY <1>1, <1>2 DEF Request, Freshness

\* The nonce of a call carries the call's name.
LEMMA NonceTyped ==
    ASSUME TypeOK, NEW c \in Calls
    PROVE  /\ RequestNonce(c) \in NonceBytes \cup {NoNonce}
           /\ RequestNonce(c) # NoNonce => RequestNonce(c).core = c
BY RequestTyped, NoncesAssumption DEF RequestNonce, NonceBytes

\* The instants a call judges are times.
LEMMA InstantTyped ==
    ASSUME TypeOK, NEW c \in Calls
    PROVE  Instant(c, now) \in Nat /\ Validated(c) \in Nat
BY RequestTyped DEF TypeOK, Instant, Validated

\* The invariant holds at the start.
LEMMA InitInv == Init => Inv
<1> SUFFICES ASSUME Init PROVE Inv
  OBVIOUS
<1> USE DEF Init
<1>1. TypeOK
  BY ConstantsTyped DEF TypeOK
<1>2. WorldInv
  BY DEF WorldInv
<1>3. CallInv
  BY ConstantsTyped DEF CallInv, Progress, Decided
<1> QED BY <1>1, <1>2, <1>3 DEF Inv

-----------------------------------------------------------------------------
(* What the responders make.                                               *)

\* The response that Respond makes.
Made(d, w, n) ==
    LET other == [id |-> CertId("other", Issuer), sha1 |-> TRUE,
                  status |-> "revoked", revokedAt |-> 0, this |-> now,
                  next |-> IF w = NoNext THEN NoNext ELSE now + w]
        mine == [other EXCEPT !.id = CertId(Serial, Issuer), !.revokedAt = revoked,
                   !.status = IF revoked = Never THEN "good" ELSE "revoked"]
    IN  [successful |-> TRUE, parses |-> TRUE,
         by |-> "key", responder |-> d.key, signer |-> d.key, produced_at |-> now,
         singles |-> <<other, mine>>, nonce |-> n, embedded |-> <<d>>]

\* An echo is a nonce a call has sent, bare or wrapped, or nobody's of ours.
LEMMA EchoFacts ==
    ASSUME TypeOK, NEW n \in Echoes
    PROVE  /\ n \in NonceBytes \cup {NoNonce}
           /\ \/ n = NoNonce \/ n.core \notin Calls
              \/ \E c \in Calls : nonce[c] # NoNonce /\ n.core = nonce[c].core
<1>1. CASE n = NoNonce
  BY <1>1
<1>2. CASE n \in [core: Nonces \ Calls, wraps: {1}]
  BY <1>2 DEF NonceBytes
<1>3. ASSUME NEW c \in Calls, nonce[c] # NoNonce, n \in {nonce[c], Wrapped(nonce[c])}
      PROVE  n \in NonceBytes /\ n.core = nonce[c].core
  <2>1. nonce[c] \in NonceBytes
    BY <1>3 DEF TypeOK
  <2> QED BY <1>3, <2>1 DEF NonceBytes, Wrapped
<1>4. \/ n = NoNonce \/ n \in [core: Nonces \ Calls, wraps: {1}]
      \/ \E c \in Calls : nonce[c] # NoNonce /\ n \in {nonce[c], Wrapped(nonce[c])}
  BY DEF Echoes
<1> QED BY <1>1, <1>2, <1>3, <1>4

\* What is made is a response, and genuine.
LEMMA MadeFacts ==
    ASSUME Inv, NEW d \in Responders, NEW w \in Windows, NEW n \in Echoes
    PROVE  Made(d, w, n) \in Response /\ Genuine(Made(d, w, n))
<1> DEFINE other == [id |-> CertId("other", Issuer), sha1 |-> TRUE,
                     status |-> "revoked", revokedAt |-> 0, this |-> now,
                     next |-> IF w = NoNext THEN NoNext ELSE now + w]
           mine == [other EXCEPT !.id = CertId(Serial, Issuer), !.revokedAt = revoked,
                      !.status = IF revoked = Never THEN "good" ELSE "revoked"]
           r == Made(d, w, n)
<1>1. now \in Nat /\ revoked \in Nat \cup {Never} /\ (revoked # Never => revoked <= now)
      /\ w \in Nat \cup {NoNext} /\ TypeOK
  BY IssuerAssumption DEF Inv, TypeOK, WorldInv
<1>2. d \in Certs /\ d.key \in STRING /\ Issuer.subject \in STRING /\ Issuer.key \in STRING
  BY RespondersAssumption, IssuerAssumption, CertsAssumption DEF Certificate
<1>3. /\ CertId("other", Issuer) \in CertIds /\ CertId(Serial, Issuer) \in CertIds
      /\ CertId("other", Issuer) # CertId(Serial, Issuer)
  BY <1>2, NamesAssumption, IssuerAssumption DEF CertIds, CertId
<1>4. (IF w = NoNext THEN NoNext ELSE now + w) \in Nat \cup {NoNext}
  BY <1>1
<1>5. other \in Single /\ mine \in Single
  BY <1>1, <1>3, <1>4 DEF Single
<1>6. /\ other.id = CertId("other", Issuer) /\ mine.id = CertId(Serial, Issuer)
      /\ mine.sha1 /\ mine.this = now /\ mine.revokedAt = revoked
      /\ mine.next = IF w = NoNext THEN NoNext ELSE now + w
      /\ mine.status = IF revoked = Never THEN "good" ELSE "revoked"
  OBVIOUS
<1>7. r = [successful |-> TRUE, parses |-> TRUE,
           by |-> "key", responder |-> d.key, signer |-> d.key, produced_at |-> now,
           singles |-> <<other, mine>>, nonce |-> n, embedded |-> <<d>>]
  BY DEF Made
<1> HIDE DEF other, mine, r
<1>8. n \in NonceBytes \cup {NoNonce}
  BY <1>1, EchoFacts
<1>9. r \in Response
  BY <1>1, <1>2, <1>5, <1>7, <1>8 DEF Response
<1>10. Truthful(mine)
  BY <1>1, <1>6 DEF Truthful
<1>11. EchoesCall(r)
  <2>1. r.nonce = n /\ r.produced_at = now
    BY <1>7
  <2>2. ASSUME NEW c \in Calls, nonce[c] # NoNonce, n.core = nonce[c].core
        PROVE  n.core = c /\ pc[c] # "start" /\ begunAt[c] <= now
    <3>1. pc[c] # "start"
      BY <2>2 DEF Inv, CallInv, Progress
    <3>2. nonce[c] = RequestNonce(c) /\ begunAt[c] <= now
      BY <2>2 DEF Inv, CallInv, Progress
    <3>3. nonce[c].core = c
      BY <1>1, <2>2, <3>2, NonceTyped
    <3> QED BY <2>2, <3>1, <3>2, <3>3
  <2> QED BY <1>1, <2>1, <2>2, EchoFacts DEF EchoesCall
<1>12. r.singles[2] = mine /\ r.singles[1] = other /\ Len(r.singles) = 2
  BY <1>7
<1>13. /\ r.successful /\ r.parses /\ r.by = "key" /\ r.responder = r.signer
       /\ r.signer = d.key /\ r.embedded = <<d>> /\ r.produced_at = now
  BY <1>7
<1> QED BY <1>3, <1>6, <1>9, <1>10, <1>11, <1>12, <1>13 DEF Genuine, r
-----------------------------------------------------------------------------
(* Every step keeps the invariant.                                         *)

\* Every step keeps the types.
LEMMA TypeStep == ASSUME Inv, [Next]_vars PROVE TypeOK'
<1> USE DEF world, sent
<1>0. TypeOK
  BY DEF Inv
<1>1. ASSUME NEW c \in Calls, NEW o \in Outcomes, Finish(c, o)
      PROVE  /\ pc' \in [Calls -> {"start", "fetching", "check", "done"}]
             /\ outcome' \in [Calls -> Outcomes] /\ decidedAt' \in [Calls -> Nat]
  BY <1>0, <1>1 DEF Finish, TypeOK
<1>2. ASSUME NEW c \in Calls, NextUrl(c)
      PROVE  /\ pc' \in [Calls -> {"start", "fetching", "check", "done"}]
             /\ outcome' \in [Calls -> Outcomes] /\ decidedAt' \in [Calls -> Nat]
             /\ url' \in [Calls -> Nat] /\ answer' = answer
  <2>1. url' \in [Calls -> Nat] /\ answer' = answer
    BY <1>0, <1>2 DEF NextUrl, TypeOK
  <2>2. CASE UNCHANGED <<pc, outcome, decidedAt>>
    BY <1>0, <2>1, <2>2 DEF TypeOK
  <2>3. CASE Finish(c, NotFetched)
    BY <1>1, <2>1, <2>3, ConstantsTyped
  <2> QED BY <1>2, <2>2, <2>3 DEF NextUrl
<1>3. ASSUME NEW c \in Calls, Begin(c) PROVE TypeOK'
  <2>1. CASE Finish(c, NotFetched) /\ UNCHANGED <<nonce, begunAt>>
    BY <1>0, <1>1, <1>3, <2>1, ConstantsTyped DEF Begin, TypeOK
  <2>2. CASE /\ pc' = [pc EXCEPT ![c] = "fetching"]
             /\ nonce' = [nonce EXCEPT ![c] = RequestNonce(c)]
             /\ begunAt' = [begunAt EXCEPT ![c] = now]
             /\ UNCHANGED <<outcome, decidedAt>>
    <3>1. RequestNonce(c) \in NonceBytes \cup {NoNonce}
      BY <1>0, NonceTyped
    <3> QED BY <1>0, <1>3, <2>2, <3>1 DEF Begin, TypeOK
  <2> QED BY <1>3, <2>1, <2>2 DEF Begin
<1>4. ASSUME NEW c \in Calls, Refused(c) PROVE TypeOK'
  BY <1>0, <1>2, <1>4 DEF Refused, TypeOK
<1>5. ASSUME NEW c \in Calls, Answered(c) PROVE TypeOK'
  <2>1. PICK r \in produced \cup Forgeries :
         \/ NextUrl(c)
         \/ /\ \E h \in Hints \cup {r.embedded} :
                 answer' = [answer EXCEPT ![c] = [r EXCEPT !.embedded = h]]
            /\ pc' = [pc EXCEPT ![c] = "check"]
            /\ UNCHANGED <<url, outcome, decidedAt>>
    BY <1>5 DEF Answered
  <2>2. CASE NextUrl(c)
    BY <1>0, <1>2, <1>5, <2>2 DEF Answered, TypeOK
  <2>3. ASSUME NEW h \in Hints \cup {r.embedded},
               answer' = [answer EXCEPT ![c] = [r EXCEPT !.embedded = h]],
               pc' = [pc EXCEPT ![c] = "check"], UNCHANGED <<url, outcome, decidedAt>>
        PROVE  TypeOK'
    <3>1. r \in Response /\ h \in Seq(Certs)
      BY <1>0, NetworkAssumption DEF TypeOK, Response
    <3>2. [r EXCEPT !.embedded = h] \in Response
      BY <3>1, EmbeddedFacts
    <3> QED BY <1>0, <1>5, <2>3, <3>2 DEF Answered, TypeOK
  <2> QED BY <2>1, <2>2, <2>3
<1>6. ASSUME NEW c \in Calls, Check(c) PROVE TypeOK'
  <2> DEFINE o == CheckRevocationDetailed(
                     answer[c], Serial, Issuer, request[c].path, nonce[c],
                     request[c].require_nonce, Instant(c, now), request[c].freshness)
  <2>1. o \in Outcomes
    BY <1>0, InstantTyped, CheckTyped DEF TypeOK
  <2>2. Finish(c, o) /\ UNCHANGED <<world, sent, url, answer>>
    BY <1>6 DEF Check
  <2> HIDE DEF o
  <2> QED BY <1>0, <1>1, <2>1, <2>2 DEF TypeOK
<1>7. ASSUME NEW c \in Calls, TimedOut(c) PROVE TypeOK'
  BY <1>0, <1>1, <1>7, ConstantsTyped DEF TimedOut, TypeOK
<1>8. CASE Respond
  <2>1. PICK d \in Responders, w \in Windows, n \in Echoes :
           produced' = produced \cup {Made(d, w, n)}
    BY <1>8 DEF Respond, Made
  <2>2. Made(d, w, n) \in Response
    BY MadeFacts
  <2> QED BY <1>0, <1>8, <2>1, <2>2 DEF Respond, TypeOK
<1>9. CASE Revoke
  BY <1>0, <1>9 DEF Revoke, TypeOK
<1>10. CASE Tick
  BY <1>0, <1>10 DEF Tick, TypeOK
<1>11. CASE UNCHANGED vars
  BY <1>0, <1>11 DEF vars, TypeOK
<1> QED BY <1>3, <1>4, <1>5, <1>6, <1>7, <1>8, <1>9, <1>10, <1>11
        DEF Next, CallStep, Quiescent

\* What a step of a call may change: only its own state, and it starts once.
LEMMA CallFrame ==
    ASSUME TypeOK, NEW b \in Calls, CallStep(b)
    PROVE  /\ UNCHANGED <<now, revoked, produced, request>>
           /\ \A c \in Calls \ {b} :
                /\ pc'[c] = pc[c] /\ url'[c] = url[c] /\ nonce'[c] = nonce[c]
                /\ begunAt'[c] = begunAt[c] /\ answer'[c] = answer[c]
                /\ outcome'[c] = outcome[c] /\ decidedAt'[c] = decidedAt[c]
           /\ pc'[b] # "start"
           /\ pc[b] # "start" => nonce' = nonce /\ begunAt' = begunAt
<1> USE DEF world, sent, TypeOK
<1>1. CASE Begin(b)
  BY <1>1 DEF Begin, Finish
<1>2. CASE Refused(b)
  BY <1>2 DEF Refused, NextUrl, Finish
<1>3. CASE Answered(b)
  <2>1. CASE NextUrl(b)
    BY <1>3, <2>1 DEF Answered, NextUrl, Finish
  <2>2. CASE /\ \E x \in Response : answer' = [answer EXCEPT ![b] = x]
             /\ pc' = [pc EXCEPT ![b] = "check"] /\ UNCHANGED <<url, outcome, decidedAt>>
    BY <1>3, <2>2 DEF Answered
  <2>3. ASSUME NEW r \in produced \cup Forgeries, NEW h \in Hints \cup {r.embedded}
        PROVE  [r EXCEPT !.embedded = h] \in Response
    <3>1. r \in Response /\ h \in Seq(Certs)
      BY NetworkAssumption DEF Response
    <3> QED BY <3>1, EmbeddedFacts
  <2> QED BY <1>3, <2>1, <2>2, <2>3 DEF Answered
<1>4. CASE Check(b)
  BY <1>4 DEF Check, Finish
<1>5. CASE TimedOut(b)
  BY <1>5 DEF TimedOut, Finish
<1> QED BY <1>1, <1>2, <1>3, <1>4, <1>5 DEF CallStep

\* Time only adds to what is on the network.
LEMMA AvailableGrows ==
    ASSUME NEW P, NEW Q, P \subseteq Q, NEW a, NEW t \in Nat, NEW u \in Nat, t <= u,
           \A r \in P : r.produced_at \in Nat, Available(P, a, t)
    PROVE  Available(Q, a, u)
BY DEF Available

\* What the responders have made stays genuine.
LEMMA WorldStep == ASSUME Inv, [Next]_vars PROVE WorldInv'
<1> USE DEF Inv
<1>0. /\ TypeOK /\ now \in Nat /\ revoked \in Nat \cup {Never} /\ Never = -1
      /\ (revoked # Never => revoked <= now) /\ \A r \in produced : Genuine(r)
  BY DEF TypeOK, WorldInv, Never
<1>1. \A r \in produced : r \in Response /\ r.singles[2] \in Single
  BY <1>0 DEF TypeOK, Response, Genuine
<1>2. ASSUME NEW r \in produced, UNCHANGED <<pc, begunAt>> PROVE EchoesCall(r)'
  BY <1>0, <1>2 DEF Genuine, EchoesCall
<1>3. ASSUME NEW r \in produced, Truthful(r.singles[2])', EchoesCall(r)' PROVE Genuine(r)'
  BY <1>0, <1>3 DEF Genuine
<1>4. ASSUME NEW b \in Calls, CallStep(b) PROVE WorldInv'
  <2>1. /\ UNCHANGED <<now, revoked, produced>> /\ pc'[b] # "start"
        /\ pc[b] # "start" => begunAt' = begunAt
        /\ \A c \in Calls \ {b} : pc'[c] = pc[c] /\ begunAt'[c] = begunAt[c]
    BY <1>4, CallFrame
  <2>2. ASSUME NEW r \in produced PROVE EchoesCall(r)'
    BY <1>0, <2>1 DEF Genuine, EchoesCall
  <2>3. ASSUME NEW r \in produced PROVE Truthful(r.singles[2])'
    BY <1>0, <2>1 DEF Genuine, Truthful
  <2> QED BY <1>0, <1>3, <2>1, <2>2, <2>3 DEF WorldInv
<1>5. CASE Respond
  <2>1. PICK d \in Responders, w \in Windows, n \in Echoes :
           produced' = produced \cup {Made(d, w, n)}
    BY <1>5 DEF Respond, Made
  <2>2. UNCHANGED <<now, revoked, pc, begunAt>>
    BY <1>5 DEF Respond, sent
  <2> DEFINE m == Made(d, w, n)
  <2>3. Genuine(m)
    BY MadeFacts
  <2> HIDE DEF m
  <2>4. \A r \in produced \cup {m} : Genuine(r)'
    BY <1>0, <2>2, <2>3 DEF Genuine, Truthful, EchoesCall
  <2> QED BY <1>0, <2>1, <2>2, <2>4 DEF WorldInv, m
<1>6. CASE Revoke
  <2>1. now' = now /\ revoked = Never /\ revoked' = now /\ UNCHANGED <<produced, pc, begunAt>>
    BY <1>6 DEF Revoke, sent
  <2>2. ASSUME NEW r \in produced PROVE Truthful(r.singles[2])'
    <3>1. Truthful(r.singles[2])
      BY <1>0 DEF Genuine
    <3> QED BY <1>0, <2>1, <3>1 DEF Truthful
  <2> QED BY <1>0, <1>2, <1>3, <2>1, <2>2 DEF WorldInv
<1>7. CASE Tick
  <2>1. now' = now + 1 /\ UNCHANGED <<revoked, produced, pc, begunAt>>
    BY <1>7 DEF Tick, sent
  <2>2. ASSUME NEW r \in produced PROVE Truthful(r.singles[2])'
    <3>1. Truthful(r.singles[2]) /\ r.singles[2].this \in Nat
      BY <1>0, <1>1 DEF Genuine, Single
    <3> QED BY <1>0, <2>1, <3>1 DEF Truthful
  <2> QED BY <1>0, <1>2, <1>3, <2>1, <2>2 DEF WorldInv
<1>8. CASE UNCHANGED vars
  BY <1>0, <1>8 DEF vars, WorldInv, Genuine, Truthful, EchoesCall
<1> QED BY <1>4, <1>5, <1>6, <1>7, <1>8 DEF Next, Quiescent
\* A call that stands still stays right while the others and the world move on.
LEMMA CallStands ==
    ASSUME Inv, TypeOK', NEW c \in Calls, produced \subseteq produced', now <= now',
           request' = request,
           pc'[c] = pc[c] /\ url'[c] = url[c] /\ nonce'[c] = nonce[c]
             /\ begunAt'[c] = begunAt[c] /\ answer'[c] = answer[c]
             /\ outcome'[c] = outcome[c] /\ decidedAt'[c] = decidedAt[c]
    PROVE  Progress(c)' /\ Decided(c)'
<1>1. /\ Progress(c) /\ Decided(c) /\ now \in Nat /\ now' \in Nat /\ decidedAt[c] \in Nat
      /\ begunAt[c] \in Nat
      /\ \A r \in produced : r.produced_at \in Nat
  BY DEF Inv, CallInv, TypeOK, Response
<1>2. Received(answer[c], now) => Available(produced', answer[c], now')
  BY <1>1, AvailableGrows DEF Received
<1>3. Received(answer[c], decidedAt[c]) => Available(produced', answer[c], decidedAt[c])
  BY <1>1, AvailableGrows DEF Received
<1>4. Received(answer[c], now)' <=> Available(produced', answer[c], now')
  BY DEF Received
<1>5. Received(answer[c], decidedAt[c])' <=> Available(produced', answer[c], decidedAt[c])
  BY DEF Received
<1>6. Progress(c)'
  BY <1>1, <1>2, <1>4 DEF Progress, RequestNonce
<1>7. Validated(c)' = Validated(c) /\ RequestNonce(c)' = RequestNonce(c)
  BY DEF Validated, Instant, RequestNonce
<1>8. Decided(c)'
  BY <1>1, <1>3, <1>5, <1>7 DEF Decided
<1> QED BY <1>6, <1>8

\* A step of a call keeps what is said of it.
LEMMA CallMoves ==
    ASSUME Inv, NEW c \in Calls, CallStep(c)
    PROVE  Progress(c)' /\ Decided(c)'
<1> USE DEF world, sent
<1>0. /\ TypeOK /\ Progress(c) /\ Decided(c) /\ WorldInv /\ now \in Nat
      /\ UNCHANGED <<now, revoked, produced, request>>
  BY CallFrame DEF Inv, CallInv, TypeOK
<1>1. ASSUME Finish(c, NotFetched), nonce' = nonce, begunAt' = begunAt
      PROVE  Progress(c)' /\ Decided(c)'
  <2>1. pc'[c] = "done" /\ outcome'[c].error = "fetch"
    BY <1>0, <1>1, ConstantsTyped DEF Finish, TypeOK
  <2> QED BY <1>0, <1>1, <2>1 DEF Progress, Decided, RequestNonce
<1>2. ASSUME NextUrl(c), pc[c] = "fetching", UNCHANGED sent
      PROVE  Progress(c)' /\ Decided(c)'
  <2>1. CASE Finish(c, NotFetched)
    BY <1>1, <1>2, <2>1
  <2>2. CASE url[c] < request[c].urls /\ UNCHANGED <<pc, outcome, decidedAt>>
    <3>1. url'[c] = url[c] + 1 /\ url[c] \in Nat /\ request[c].urls \in Nat
      BY <1>0, <1>2, RequestTyped DEF NextUrl, TypeOK
    <3>2. outcome'[c] = Pending /\ pc'[c] = "fetching"
      BY <1>0, <1>2, <2>2 DEF Progress
    <3> QED BY <1>0, <1>2, <2>2, <3>1, <3>2, ConstantsTyped
            DEF Progress, Decided, RequestNonce
  <2> QED BY <1>2, <2>1, <2>2 DEF NextUrl
<1>3. CASE Begin(c)
  <2>1. CASE Finish(c, NotFetched) /\ UNCHANGED <<nonce, begunAt>>
    BY <1>1, <2>1
  <2>2. CASE /\ HasUrls(c)
             /\ pc' = [pc EXCEPT ![c] = "fetching"]
             /\ nonce' = [nonce EXCEPT ![c] = RequestNonce(c)]
             /\ begunAt' = [begunAt EXCEPT ![c] = now]
             /\ UNCHANGED <<outcome, decidedAt>>
    <3>1. /\ pc'[c] = "fetching" /\ nonce'[c] = RequestNonce(c) /\ begunAt'[c] = now
          /\ url'[c] = 1 /\ outcome'[c] = Pending /\ request[c].urls \in Nat
          /\ request[c].urls > 0
      BY <1>0, <1>3, <2>2, RequestTyped DEF Begin, TypeOK, Progress, HasUrls
    <3> QED BY <1>0, <3>1, ConstantsTyped DEF Progress, Decided, RequestNonce
  <2> QED BY <1>3, <2>1, <2>2 DEF Begin
<1>4. CASE Refused(c)
  BY <1>2, <1>4 DEF Refused
<1>5. CASE Answered(c)
  <2>1. PICK r \in produced \cup Forgeries :
         \/ NextUrl(c)
         \/ /\ \E h \in Hints \cup {r.embedded} :
                 answer' = [answer EXCEPT ![c] = [r EXCEPT !.embedded = h]]
            /\ pc' = [pc EXCEPT ![c] = "check"]
            /\ UNCHANGED <<url, outcome, decidedAt>>
    BY <1>5 DEF Answered
  <2>2. CASE NextUrl(c)
    BY <1>2, <1>5, <2>2 DEF Answered
  <2>3. ASSUME NEW h \in Hints \cup {r.embedded},
               answer' = [answer EXCEPT ![c] = [r EXCEPT !.embedded = h]],
               pc' = [pc EXCEPT ![c] = "check"], UNCHANGED <<url, outcome, decidedAt>>
        PROVE  Progress(c)' /\ Decided(c)'
    <3>1. h \in Seq(Certs)
      BY <1>0, NetworkAssumption DEF TypeOK, Response
    <3>2. r \in produced => r.produced_at <= now
      BY <1>0 DEF WorldInv, Genuine, Truthful
    <3>3. Received([r EXCEPT !.embedded = h], now)
      BY <3>1, <3>2 DEF Received, Available
    <3>4. /\ answer'[c] = [r EXCEPT !.embedded = h] /\ pc'[c] = "check"
          /\ outcome'[c] = Pending /\ nonce'[c] = RequestNonce(c) /\ nonce' = nonce
          /\ begunAt' = begunAt
      BY <1>0, <1>5, <2>3 DEF Answered, TypeOK, Progress
    <3>5. Received(answer[c], now)'
      BY <1>0, <3>3, <3>4 DEF Received
    <3> QED BY <1>0, <3>4, <3>5, ConstantsTyped DEF Progress, Decided, RequestNonce
  <2> QED BY <2>1, <2>2, <2>3
<1>6. CASE Check(c)
  <2> DEFINE o == CheckRevocationDetailed(
                     answer[c], Serial, Issuer, request[c].path, nonce[c],
                     request[c].require_nonce, Instant(c, now), request[c].freshness)
  <2>1. Finish(c, o) /\ UNCHANGED <<world, sent, url, answer>> /\ pc[c] = "check"
    BY <1>6 DEF Check
  <2> HIDE DEF o
  <2>2. pc'[c] = "done" /\ outcome'[c] = o /\ decidedAt'[c] = now
    BY <1>0, <2>1 DEF Finish, TypeOK
  <2>3. Progress(c)'
    <3>1. o.error # "pending"
      BY <1>0, InstantTyped, CheckTyped DEF TypeOK, o
    <3> QED BY <1>0, <2>1, <2>2, <3>1 DEF Progress, RequestNonce
  <2>4. nonce[c] = RequestNonce(c) /\ Received(answer[c], now)
    BY <1>0, <2>1 DEF Progress
  <2>5. Validated(c)' = Instant(c, now)
    BY <1>0, <2>1, <2>2 DEF Validated, Instant
  <2>6. Received(answer[c], decidedAt[c])'
    BY <1>0, <2>1, <2>2, <2>4 DEF Received
  <2>7. outcome'[c] = CheckRevocationDetailed(
                          answer'[c], Serial, Issuer, request'[c].path, nonce'[c],
                          request'[c].require_nonce, Validated(c)', request'[c].freshness)
    BY <2>1, <2>2, <2>5 DEF o
  <2> QED BY <1>0, <2>1, <2>3, <2>4, <2>6, <2>7 DEF Decided, RequestNonce
<1>7. CASE TimedOut(c)
  BY <1>1, <1>7 DEF TimedOut
<1> QED BY <1>3, <1>4, <1>5, <1>6, <1>7 DEF CallStep

\* Every step keeps what is said of the calls.
LEMMA CallInvStep == ASSUME Inv, [Next]_vars PROVE CallInv'
<1>0. TypeOK /\ TypeOK' /\ now \in Nat
  BY TypeStep DEF Inv, TypeOK
<1>1. ASSUME NEW b \in Calls, CallStep(b) PROVE CallInv'
  <2>1. ASSUME NEW c \in Calls, c # b PROVE Progress(c)' /\ Decided(c)'
    BY <1>0, <1>1, <2>1, CallFrame, CallStands
  <2>2. Progress(b)' /\ Decided(b)'
    BY <1>1, CallMoves
  <2> QED BY <2>1, <2>2 DEF CallInv
<1>2. ASSUME produced \subseteq produced', now <= now',
             UNCHANGED <<request, pc, url, nonce, begunAt, answer, outcome, decidedAt>>
      PROVE  CallInv'
  BY <1>0, <1>2, CallStands DEF CallInv
<1>3. CASE Respond
  BY <1>0, <1>2, <1>3 DEF Respond, sent
<1>4. CASE Revoke
  BY <1>0, <1>2, <1>4 DEF Revoke, sent
<1>5. CASE Tick
  BY <1>0, <1>2, <1>5 DEF Tick, sent
<1>6. CASE UNCHANGED vars
  BY <1>0, <1>2, <1>6 DEF vars
<1> QED BY <1>1, <1>3, <1>4, <1>5, <1>6 DEF Next, Quiescent
-----------------------------------------------------------------------------
(* What the invariant says of an outcome.                                  *)

\* A definite answer of a key that needs no check is an entitled one's.
LEMMA SignerEntitled ==
    ASSUME NEW d \in Certs, SameIdentity(d, Issuer) \/ DelegatedBy(d, Issuer),
           ~ResponderCheckRequired(d, Issuer)
    PROVE  Entitled(d.key)
BY DelegateIsDeputy DEF SameIdentity, ResponderCheckRequired, Entitled

\* In a genuine response the second single response is the one looked at.
LEMMA GenuineMatching ==
    ASSUME NEW r \in Response, NEW a, Genuine(r), a.singles = r.singles
    PROVE  Matching(a, Serial, Issuer) = {2} /\ Min(Matching(a, Serial, Issuer)) = 2
<1>1. Matching(a, Serial, Issuer) = {2}
  BY DEF Matching, Genuine, Truthful
<1> QED BY <1>1, MinOne

\* A final outcome rests on a response that a responder of the CA had made by
\* then: nobody else's is accepted without a check of its signer.
LEMMA FinalGenuine ==
    ASSUME Inv, NEW c \in Calls, NEW st \in {"Valid", "Revoked"}, Final(c, st)
    PROVE  \E r \in produced :
             /\ Genuine(r) /\ r.singles[2] \in Single /\ r \in Response
             /\ r.produced_at <= decidedAt[c]
             /\ ValidateResponseFreshness(r.singles[2], Validated(c), request[c].freshness)
             /\ st = StatusOf(r.singles[2], Validated(c))
             /\ NonceOk(nonce[c], r.nonce, request[c].require_nonce)
<1> DEFINE a == answer[c]
           o == outcome[c]
           v == Validated(c)
           m == Min(Matching(a, Serial, Issuer))
           s == a.singles[m]
           path == request[c].path
           n == nonce[c]
           strict == request[c].require_nonce
           f == request[c].freshness
<1>1. TypeOK /\ Decided(c) /\ WorldInv /\ a \in Response /\ v \in Nat
  BY InstantTyped DEF Inv, CallInv, TypeOK
<1>2. o.error = "none" /\ o.status = st /\ o.delegated = FALSE /\ st # "Unknown"
  BY DEF Final
<1>3. /\ Received(a, decidedAt[c])
      /\ o = CheckRevocationDetailed(a, Serial, Issuer, path, n, strict, v, f)
  BY <1>1, <1>2 DEF Decided
<1>4. /\ Parses(a) /\ NonceOk(n, a.nonce, strict)
      /\ \E d \in Certs :
           /\ d.key = a.signer /\ ValidAt(d, v, FALSE)
           /\ o.delegated = ResponderCheckRequired(d, Issuer)
           /\ SameIdentity(d, Issuer) \/ DelegatedBy(d, Issuer)
      /\ Matching(a, Serial, Issuer) # {}
      /\ s.sha1 /\ ValidateResponseFreshness(s, v, f)
      /\ o.status = StatusOf(s, v)
  <2>1. o.error = "none" /\ o.status # "Unknown"
    BY <1>2
  <2>2. a \in Response /\ v \in Nat
    BY <1>1
  <2>3. o = CheckRevocationDetailed(a, Serial, Issuer, path, n, strict, v, f)
    BY <1>3
  <2>4. RestsOn(o, a, path, n, strict, v, f)
    BY <2>1, <2>2, <2>3, CheckMeaning
  <2> HIDE DEF a, o, path, n, strict, v, f
  <2> QED BY <2>4 DEF RestsOn
<1> HIDE DEF a, o, v, path, n, strict, f
<1>5. Entitled(a.signer)
  BY <1>2, <1>4, SignerEntitled
<1>6. m \in 1 .. Len(a.singles) /\ s \in Single /\ s.id = CertId(Serial, Issuer)
  BY <1>1, <1>4, MatchingFacts
<1>7. Tells(a)
  <2> HIDE DEF m
  <2>1. s.status # "unknown"
    BY <1>2, <1>4 DEF StatusOf
  <2>2. s.next = NoNext \/ s.next >= s.this
    BY <1>4 DEF ValidateResponseFreshness
  <2> QED BY <1>4, <1>6, <2>1, <2>2 DEF Tells, Parses, Successful
<1>8. PICK h \in Seq(Certs) :
         \/ \E r \in produced : a = [r EXCEPT !.embedded = h] /\ r.produced_at <= decidedAt[c]
         \/ \E r \in Forgeries : a = [r EXCEPT !.embedded = h]
  BY <1>3 DEF Received, Available
<1>9. ASSUME NEW r \in Forgeries, a = [r EXCEPT !.embedded = h] PROVE FALSE
  <2>1. r \in Response /\ ~(Entitled(r.signer) /\ Tells(r))
    BY NetworkAssumption
  <2>2. /\ a.signer = r.signer /\ a.singles = r.singles
        /\ a.successful = r.successful /\ a.parses = r.parses
    BY <1>9, <2>1, EmbeddedFacts
  <2> QED BY <1>5, <1>7, <2>1, <2>2 DEF Tells
<1>10. PICK r \in produced : a = [r EXCEPT !.embedded = h] /\ r.produced_at <= decidedAt[c]
  BY <1>8, <1>9
<1>11. r \in Response /\ Genuine(r)
  BY <1>1 DEF TypeOK, WorldInv
<1>12. a.singles = r.singles /\ a.nonce = r.nonce
  BY <1>10, <1>11, EmbeddedFacts
<1>13. m = 2
  BY <1>11, <1>12, GenuineMatching
<1> HIDE DEF m
<1>14. s = r.singles[2]
  BY <1>12, <1>13
<1> HIDE DEF s
<1> QED BY <1>2, <1>4, <1>6, <1>10, <1>11, <1>12, <1>14 DEF o, v, n, strict, f

\* A revocation takes effect in every state the invariant allows.
LEMMA EffectFollows == Inv => RevocationTakesEffect
<1> SUFFICES ASSUME Inv, NEW c \in Calls, Final(c, "Valid"), revoked # Never
             PROVE  \E w \in Windows :
                      Validated(c) <= revoked + request[c].freshness.clock_skew
                        + (IF w = NoNext THEN request[c].freshness.max_age ELSE w)
  BY DEF RevocationTakesEffect
<1> DEFINE v == Validated(c)
           f == request[c].freshness
<1>1. PICK r \in produced :
        /\ Genuine(r) /\ r.singles[2] \in Single
        /\ ValidateResponseFreshness(r.singles[2], v, f)
        /\ "Valid" = StatusOf(r.singles[2], v)
  BY FinalGenuine
<1> DEFINE s == r.singles[2]
<1>2. /\ v \in Nat /\ revoked \in Nat /\ Windows \subseteq Nat \cup {NoNext}
      /\ f.clock_skew \in Nat /\ f.max_age \in Nat
      /\ s.this \in Nat /\ s.revokedAt \in Nat \cup {Never}
  BY <1>1, InstantTyped, RequestTyped, IssuerAssumption DEF Inv, TypeOK, Single
<1>3. Truthful(s)
  BY <1>1 DEF Genuine
<1> HIDE DEF v, f, s
<1>4. PICK w \in Windows : s.next = IF w = NoNext THEN NoNext ELSE s.this + w
  BY <1>3 DEF Truthful
<1> DEFINE span == IF w = NoNext THEN f.max_age ELSE w
<1>5. v <= revoked + f.clock_skew + span
  <2>1. CASE s.status = "good" /\ s.this <= revoked
    <3>1. CASE w = NoNext
      <4>1. v <= s.this + f.max_age + f.clock_skew /\ span = f.max_age
        BY <1>1, <1>4, <3>1 DEF ValidateResponseFreshness, s
      <4> HIDE DEF span
      <4> QED BY <1>2, <2>1, <4>1
    <3>2. CASE w # NoNext
      <4>1. w \in Nat /\ s.next = s.this + w /\ s.next # NoNext /\ span = w
        BY <1>2, <1>4, <3>2 DEF NoNext
      <4>2. v <= s.next + f.clock_skew
        BY <1>1, <4>1 DEF ValidateResponseFreshness, s
      <4> HIDE DEF span
      <4> QED BY <1>2, <2>1, <4>1, <4>2
    <3> QED BY <3>1, <3>2
  <2>2. CASE s.status = "revoked" /\ s.revokedAt = revoked
    <3>1. StatusOf(s, v) = IF s.revokedAt > v THEN "Valid" ELSE "Revoked"
      BY <2>2 DEF StatusOf
    <3>2. v < revoked
      BY <1>1, <1>2, <2>2, <3>1 DEF s
    <3>3. span \in Nat
      BY <1>2
    <3> HIDE DEF span
    <3> QED BY <1>2, <3>2, <3>3
  <2> QED BY <1>3, <2>1, <2>2 DEF Truthful
<1> QED BY <1>5 DEF v, f

\* Revoked is true in every state the invariant allows.
LEMMA TruthFollows == Inv => RevokedIsTrue
<1> SUFFICES ASSUME Inv, NEW c \in Calls, Final(c, "Revoked")
             PROVE  revoked # Never /\ revoked <= Validated(c)
  BY DEF RevokedIsTrue
<1> DEFINE v == Validated(c)
<1>1. PICK r \in produced :
         Genuine(r) /\ r.singles[2] \in Single /\ "Revoked" = StatusOf(r.singles[2], v)
  BY FinalGenuine
<1> DEFINE s == r.singles[2]
<1>2. v \in Nat /\ s.revokedAt \in Nat \cup {Never} /\ Never = -1
  BY <1>1, InstantTyped DEF Inv, Single, Never
<1>3. Truthful(s)
  BY <1>1 DEF Genuine
<1> HIDE DEF v, s
<1>4. s.status = "revoked" /\ ~(s.revokedAt > v)
  BY <1>1, <1>3 DEF Truthful, StatusOf, s
<1> QED BY <1>2, <1>3, <1>4 DEF Truthful, v

\* A nonce that passes a strict check carries the name of the call it was made
\* for.
LEMMA StrictNonce ==
    ASSUME TypeOK, NEW c \in Calls, nonce[c] \in {NoNonce, RequestNonce(c)},
           NEW value \in NonceBytes \cup {NoNonce}, NonceOk(nonce[c], value, TRUE)
    PROVE  value # NoNonce /\ value.core = c
<1>1. nonce[c] # NoNonce /\ value # NoNonce /\ ValidateNonce(nonce[c], ParseNonce(value))
  BY DEF NonceOk
<1>2. nonce[c] \in NonceBytes /\ nonce[c].core = c /\ value \in NonceBytes
  BY <1>1, NonceTyped
<1>3. ParseNonce(value).core = value.core
  BY <1>2 DEF ParseNonce, NonceBytes
<1>4. Wrapped(nonce[c]).core = nonce[c].core
  BY <1>2 DEF Wrapped, NonceBytes
<1> QED BY <1>1, <1>2, <1>3, <1>4 DEF ValidateNonce

\* A strict check sees a revocation, in every state the invariant allows.
LEMMA StrictFollows == Inv => StrictSeesRevocation
<1> SUFFICES ASSUME Inv, NEW c \in Calls, request[c].require_nonce,
                    request[c].validation_time = WallClock, Final(c, "Valid"),
                    revoked # Never
             PROVE  revoked >= begunAt[c]
  BY DEF StrictSeesRevocation
<1>1. PICK r \in produced :
        /\ Genuine(r) /\ r.singles[2] \in Single /\ r \in Response
        /\ r.produced_at <= decidedAt[c] /\ "Valid" = StatusOf(r.singles[2], Validated(c))
        /\ NonceOk(nonce[c], r.nonce, request[c].require_nonce)
  BY FinalGenuine
<1> DEFINE s == r.singles[2]
<1>2. /\ TypeOK /\ nonce[c] \in {NoNonce, RequestNonce(c)}
      /\ Validated(c) = decidedAt[c] /\ decidedAt[c] \in Nat /\ revoked \in Nat
      /\ begunAt[c] \in Nat /\ s.this \in Nat /\ s.this = r.produced_at
      /\ r.nonce \in NonceBytes \cup {NoNonce}
  BY <1>1 DEF Inv, CallInv, Progress, TypeOK, Validated, Instant, Single, Genuine, Response
<1>3. r.nonce # NoNonce /\ r.nonce.core = c
  <2>1. NonceOk(nonce[c], r.nonce, TRUE)
    BY <1>1 DEF NonceOk
  <2> QED BY <1>2, <2>1, StrictNonce
<1>4. begunAt[c] <= r.produced_at
  BY <1>1, <1>3 DEF Genuine, EchoesCall
<1>5. Truthful(s)
  BY <1>1 DEF Genuine
<1> HIDE DEF s
<1>6. ~(s.status = "revoked" /\ s.revokedAt = revoked /\ revoked <= s.this)
  <2>1. s.status = "revoked" => StatusOf(s, Validated(c)) =
                                  IF s.revokedAt > Validated(c) THEN "Valid" ELSE "Revoked"
    BY DEF StatusOf
  <2> QED BY <1>1, <1>2, <2>1 DEF s
<1>7. s.this <= revoked
  BY <1>5, <1>6 DEF Truthful
<1> QED BY <1>2, <1>4, <1>7

\* The validity window is the same in both forms.
LEMMA WindowMeaning ==
    ASSUME NEW d \in Certs, NEW t \in Nat
    PROVE  ValidAt(d, t, FALSE) <=> Covers(d, t, FALSE)
<1>1. d.not_before \in Nat /\ d.not_after \in Nat
  BY CertsAssumption DEF Certificate
<1> QED BY <1>1 DEF ValidAt, Covers

\* Who signed speaks for the CA, in every state the invariant allows.
LEMMA SignerFollows == Inv => SignerSpeaksForIssuer
<1> SUFFICES ASSUME Inv, NEW c \in Calls,
                    outcome[c].error = "none", outcome[c].status # "Unknown"
             PROVE  \/ answer[c].signer = Issuer.key /\ ~outcome[c].delegated
                    \/ \E d \in Certs :
                         /\ d.key = answer[c].signer
                         /\ SignedBy(d, Issuer) /\ IsIn("OCSPSigning", d.eku)
                         /\ Covers(d, Validated(c), FALSE)
                         /\ request[c].path.given
                         /\ Verifiable(<<d>> \o request[c].path.chain, request[c].path.roots,
                                       Validated(c), FALSE, "OcspResponder")
                         /\ outcome[c].delegated <=> d.nocheck # "present"
  BY DEF SignerSpeaksForIssuer
<1>1. /\ answer[c] \in Response /\ Validated(c) \in Nat
      /\ outcome[c] = CheckRevocationDetailed(
                            answer[c], Serial, Issuer, request[c].path, nonce[c],
                            request[c].require_nonce, Validated(c), request[c].freshness)
  BY InstantTyped DEF Inv, CallInv, TypeOK, Decided
<1>2. PICK d \in Certs :
        /\ d.key = answer[c].signer /\ ValidAt(d, Validated(c), FALSE)
        /\ outcome[c].delegated = ResponderCheckRequired(d, Issuer)
        /\ \/ SameIdentity(d, Issuer)
           \/ DelegatedBy(d, Issuer) /\ DelegatePathOk(d, request[c].path, Validated(c))
  BY <1>1, CheckMeaning DEF RestsOn
<1>3. CASE SameIdentity(d, Issuer)
  BY <1>2, <1>3 DEF SameIdentity, ResponderCheckRequired
<1>4. CASE ~SameIdentity(d, Issuer)
  <2>1. SignedBy(d, Issuer) /\ IsIn("OCSPSigning", d.eku)
    BY <1>2, <1>4, DelegateIsDeputy
  <2>2. Covers(d, Validated(c), FALSE)
    BY <1>1, <1>2, WindowMeaning
  <2>3. outcome[c].delegated <=> d.nocheck # "present"
    BY <1>2, <1>4 DEF ResponderCheckRequired
  <2>4. /\ request[c].path.given
        /\ Verifiable(<<d>> \o request[c].path.chain, request[c].path.roots,
                      Validated(c), FALSE, "OcspResponder")
    BY <1>2, <1>4 DEF DelegatePathOk
  <2> QED BY <1>2, <2>1, <2>2, <2>3, <2>4
<1> QED BY <1>3, <1>4
\* The certificate of a responder passes validate_responder_trust.
LEMMA ResponderTrusted ==
    ASSUME NEW d \in Responders, NEW t \in Nat, NEW r,
           Covers(d, t, FALSE), Covers(Issuer, t, FALSE),
           r.by = "key", r.responder = d.key,
           NEW k, k = IF SameIdentity(d, Issuer) THEN Issuer ELSE d
    PROVE  TrustedResponder(k, Issuer, r, t) /\ ~ResponderCheckRequired(k, Issuer)
<1>1. d \in Certs /\ Issuer \in Certs
  BY RespondersAssumption, IssuerAssumption
<1>2. ValidAt(k, t, FALSE)
  BY <1>1, WindowMeaning
<1>3. MatchesResponderId(k, r)
  BY DEF MatchesResponderId, SameIdentity
<1>4. CASE SameIdentity(d, Issuer)
  BY <1>2, <1>3, <1>4 DEF TrustedResponder, ResponderCheckRequired, SameIdentity
<1>5. CASE ~SameIdentity(d, Issuer)
  <2>1. d # Issuer /\ k = d
    BY <1>5 DEF SameIdentity
  <2>2. /\ Deputy(d) /\ d.duplicate = {} /\ d.bc # "malformed"
        /\ d.critical \cap {"path", "unknown"} = {} /\ (d.hasSan => d.sanParses)
    BY <2>1, RespondersAssumption
  <2>3. SatisfiesPurpose(d, "OcspResponder")
    BY <2>2 DEF Deputy, SatisfiesPurpose, ValidateOcspResponder
  <2>4. DelegateExtensionsOk(d)
    BY <2>2, <2>3 DEF Deputy, DelegateExtensionsOk
  <2>5. CheckCert(AddFromCert(NoConstraints, Issuer), d)
    BY <2>2, OneConstraint DEF Deputy
  <2>6. DelegatedBy(d, Issuer) /\ d.nocheck = "present"
    BY <2>2, <2>4, <2>5, IssuerAssumption DEF Deputy, DelegatedBy
  <2> QED BY <1>2, <1>3, <2>1, <2>6 DEF TrustedResponder, ResponderCheckRequired
<1> QED BY <1>4, <1>5

\* In a response that arrives as it was made the attached certificate is the
\* responder's, and it is the one that is found.
LEMMA ResponderFound ==
    ASSUME NEW r \in Response, NEW d \in Certs, r.embedded = <<d>>, r.signer = d.key
    PROVE  /\ Verifying(r, Issuer) # {}
           /\ Responder(r, Issuer) = IF SameIdentity(d, Issuer) THEN Issuer ELSE d
<1>1. Len(r.embedded) = 1 /\ r.embedded[1] = d
  OBVIOUS
<1>2. Candidates(r, Issuer)[1] = d
  <2>1. 1 \in 1 .. Len(r.embedded)
    BY <1>1
  <2>2. Candidates(r, Issuer)[1] = r.embedded[1]
    BY <2>1, CandidateFacts
  <2> QED BY <1>1, <2>2
<1>3. 1 \in Verifying(r, Issuer)
  BY <1>1, <1>2 DEF Verifying
<1>4. \A i \in Verifying(r, Issuer) : i \in Nat /\ 1 <= i
  BY <1>1 DEF Verifying
<1>5. Min(Verifying(r, Issuer)) = 1
  <2>1. Verifying(r, Issuer) \in SUBSET Nat /\ Verifying(r, Issuer) # {}
    BY <1>3, <1>4
  <2> DEFINE m == Min(Verifying(r, Issuer))
  <2>2. m \in Verifying(r, Issuer) /\ m <= 1
    BY <1>3, <2>1, MinIn
  <2> HIDE DEF m
  <2>3. m = 1
    BY <1>4, <2>2
  <2> QED BY <2>3 DEF m
<1> QED BY <1>2, <1>3, <1>5 DEF Responder

\* The echo of a call's own nonce, wrapped, or bare when it does not read as
\* an OCTET STRING, passes validate_nonce.
LEMMA EchoAccepted ==
    ASSUME NEW n \in NonceBytes, NEW value,
           value = Wrapped(n) \/ (value = n /\ n.wraps = 0)
    PROVE  ValidateNonce(n, ParseNonce(value))
<1>1. /\ n.core \in Nonces /\ n.wraps \in Nat
      /\ n = [core |-> n.core, wraps |-> n.wraps]
  BY DEF NonceBytes
<1> DEFINE k == n.core
           w == n.wraps
<1>2. Wrapped(n) = [core |-> k, wraps |-> w + 1]
  BY <1>1 DEF Wrapped
<1>3. \A j \in Nat : ParseNonce([core |-> k, wraps |-> j])
                      = [core |-> k, wraps |-> IF j = 0 THEN 0 ELSE j - 1]
  BY DEF ParseNonce
<1> HIDE DEF k, w
<1>4. n = [core |-> k, wraps |-> w] /\ w \in Nat
  BY <1>1 DEF k, w
<1>5. ParseNonce(Wrapped(n)) = n
  BY <1>2, <1>3, <1>4
<1>6. w = 0 => ParseNonce(n) = n
  BY <1>3, <1>4
<1> QED BY <1>5, <1>6 DEF ValidateNonce, w

\* Honest evidence counts, in every state the invariant allows.
LEMMA HonestFollows == Inv => HonestEvidenceCounts
<1> SUFFICES ASSUME Inv, NEW c \in Calls,
               pc[c] = "done", outcome[c].error # "fetch", answer[c] \in produced,
               request[c].path.given, request[c].path.chain # <<>>,
               request[c].path.chain[1] = Issuer,
               PathOk(request[c].path, Validated(c)),
               \A d \in Responders :
                   /\ Covers(d, Validated(c), FALSE)
                   /\ SameIdentity(d, Issuer)
                        \/ DelegatePathOk(d, request[c].path, Validated(c)),
               request[c].require_nonce => request[c].use_nonce,
               IF answer[c].nonce = NoNonce THEN ~request[c].require_nonce
                 ELSE request[c].use_nonce =>
                        \/ answer[c].nonce = Wrapped(nonce[c])
                        \/ answer[c].nonce = nonce[c] /\ nonce[c].wraps = 0,
               Validated(c) <= IF answer[c].singles[2].next = NoNext
                 THEN answer[c].singles[2].this + request[c].freshness.max_age
                 ELSE answer[c].singles[2].next
             PROVE
               Final(c, IF answer[c].singles[2].status = "revoked"
                           /\ answer[c].singles[2].revokedAt <= Validated(c)
                        THEN "Revoked" ELSE "Valid")
  BY DEF HonestEvidenceCounts
<1> DEFINE r == answer[c]
           q == request[c]
           s == r.singles[2]
           v == Validated(c)
           n == nonce[c]
           k == Responder(r, Issuer)
<1>1. /\ TypeOK /\ r \in Response /\ Genuine(r) /\ v \in Nat /\ s \in Single
      /\ q.freshness.clock_skew \in Nat /\ q.freshness.max_age \in Nat
      /\ Progress(c) /\ Decided(c)
  <2>1. TypeOK /\ r \in Response /\ Genuine(r) /\ Progress(c) /\ Decided(c)
    BY DEF Inv, CallInv, WorldInv, TypeOK
  <2>2. s \in Single
    BY <2>1 DEF Response, Genuine
  <2> QED BY <2>1, <2>2, InstantTyped, RequestTyped
<1>2. outcome[c].error \in {"none", "integrity"}
  <2>1. outcome[c] \in Outcomes
    BY <1>1 DEF TypeOK
  <2>2. outcome[c].error \in {"pending", "fetch", "integrity", "none"}
    BY <2>1 DEF Outcomes
  <2> QED BY <1>1, <2>2 DEF Progress
<1>3. /\ n = RequestNonce(c)
      /\ outcome[c] = CheckRevocationDetailed(r, Serial, Issuer, q.path, n,
                                              q.require_nonce, v, q.freshness)
  BY <1>1, <1>2 DEF Decided
<1>4. PICK d \in Responders : r.signer = d.key /\ r.embedded = <<d>>
  BY <1>1 DEF Genuine
<1>5. d \in Certs
  BY RespondersAssumption
<1>6. Verifying(r, Issuer) # {} /\ k = IF SameIdentity(d, Issuer) THEN Issuer ELSE d
  BY <1>1, <1>4, <1>5, ResponderFound
<1>7. Parses(r)
  BY <1>1 DEF Genuine, Parses, Successful
<1>8. TrustedResponder(k, Issuer, r, v) /\ ~ResponderCheckRequired(k, Issuer)
  BY <1>1, <1>4, <1>6, RespondersAssumption, ResponderTrusted DEF Genuine
<1>9. SameIdentity(k, Issuer) \/ DelegatePathOk(k, q.path, v)
  BY <1>6 DEF SameIdentity
<1>10. NonceOk(n, r.nonce, q.require_nonce)
  <2>1. q.use_nonce <=> n # NoNonce
    BY <1>1, <1>3, NonceTyped, NoncesAssumption, RequestTyped
       DEF RequestNonce, NonceBytes
  <2>2. n # NoNonce => n \in NonceBytes
    BY <1>1 DEF TypeOK
  <2> QED BY <2>1, <2>2, EchoAccepted DEF NonceOk
<1> HIDE DEF k
<1>11. outcome[c] = Answer(r, Serial, Issuer, ResponderCheckRequired(k, Issuer), v, q.freshness)
  BY <1>3, <1>6, <1>7, <1>8, <1>9, <1>10 DEF CheckRevocationDetailed, k
<1>12. Truthful(s)
  BY <1>1 DEF Genuine
<1>13. ValidateResponseFreshness(s, v, q.freshness)
  <2> HIDE DEF s, v
  <2>1. s.this \in Nat
    BY <1>1 DEF Single
  <2>2. PICK w \in Windows : s.next = IF w = NoNext THEN NoNext ELSE s.this + w
    BY <1>12 DEF Truthful
  <2>3. w \in Nat \cup {NoNext}
    BY IssuerAssumption
  <2>4. v <= IF s.next = NoNext THEN s.this + q.freshness.max_age ELSE s.next
    BY DEF s, v
  <2> DEFINE age == q.freshness.max_age
             skew == q.freshness.clock_skew
  <2>5. age \in Nat /\ skew \in Nat /\ v \in Nat
    BY <1>1
  <2> HIDE DEF age, skew
  <2>6. CASE s.next = NoNext
    <3>1. v <= s.this + age + skew
      BY <2>1, <2>4, <2>5, <2>6 DEF age
    <3> QED BY <2>6, <3>1 DEF ValidateResponseFreshness, age, skew
  <2>7. CASE s.next # NoNext
    <3>1. s.next = s.this + w /\ w \in Nat
      BY <2>2, <2>3, <2>7
    <3>2. s.next >= s.this /\ v <= s.next + skew
      BY <2>1, <2>4, <2>5, <2>7, <3>1
    <3> QED BY <2>7, <3>2 DEF ValidateResponseFreshness, skew
  <2> QED BY <2>6, <2>7
<1>14. Matching(r, Serial, Issuer) = {2} /\ Min(Matching(r, Serial, Issuer)) = 2
  BY <1>1, GenuineMatching
<1>15. outcome[c] = Checked(StatusOf(s, v), FALSE)
  <2>1. ResponderCheckRequired(k, Issuer) = FALSE
    BY <1>8 DEF ResponderCheckRequired
  <2>2. outcome[c] = Answer(r, Serial, Issuer, FALSE, v, q.freshness)
    BY <1>11, <2>1
  <2>3. s.sha1
    BY <1>12 DEF Truthful
  <2> QED BY <1>13, <1>14, <2>2, <2>3 DEF Answer
<1>16. StatusOf(s, v) = IF s.status = "revoked" /\ s.revokedAt <= v THEN "Revoked" ELSE "Valid"
  <2>1. s.revokedAt \in Nat \cup {Never} /\ s.status \in {"good", "revoked"}
    BY <1>1, <1>12 DEF Single, Truthful
  <2> HIDE DEF s, v
  <2> QED BY <1>1, <2>1 DEF StatusOf, Never
<1> QED BY <1>15, <1>16 DEF Final, Checked
\* A step of a call leaves it less to do.
LEMMA StepsRemain ==
    ASSUME Inv, NEW c \in Calls, CallStep(c)
    PROVE  Remaining(c)' < Remaining(c)
<1> USE DEF world, sent
<1> DEFINE n == request[c].urls
<1>0. TypeOK /\ Progress(c) /\ n \in Nat /\ url[c] \in Nat /\ request' = request
  BY CallFrame, RequestTyped DEF Inv, CallInv, TypeOK
<1>1. /\ pc[c] = "start" => Remaining(c) = n + 2
      /\ pc[c] = "fetching" => Remaining(c) = n - url[c] + 2
      /\ pc[c] = "check" => Remaining(c) = 1
  BY DEF Remaining
<1>2. /\ pc'[c] = "fetching" => Remaining(c)' = n - url'[c] + 2
      /\ pc'[c] = "check" => Remaining(c)' = 1
      /\ pc'[c] = "done" => Remaining(c)' = 0
  BY <1>0 DEF Remaining
<1> HIDE DEF n
<1>3. /\ pc[c] = "start" => url[c] = 1
      /\ pc[c] = "fetching" => url[c] # 0 /\ url[c] <= n
  BY <1>0 DEF Progress, n
<1>4. ASSUME NEW o, Finish(c, o) PROVE pc'[c] = "done"
  BY <1>0, <1>4 DEF Finish, TypeOK
<1>5. CASE Begin(c)
  <2>1. pc[c] = "start" /\ url' = url /\ pc'[c] \in {"fetching", "done"}
    BY <1>0, <1>4, <1>5 DEF Begin, TypeOK
  <2> QED BY <1>0, <1>1, <1>2, <1>3, <2>1
<1>6. ASSUME NextUrl(c), pc[c] = "fetching" PROVE Remaining(c)' < Remaining(c)
  <2>1. url'[c] = url[c] + 1 /\ (pc'[c] = "fetching" \/ pc'[c] = "done")
    BY <1>0, <1>4, <1>6 DEF NextUrl, TypeOK
  <2> QED BY <1>0, <1>1, <1>2, <1>3, <1>6, <2>1
<1>7. CASE Refused(c)
  BY <1>6, <1>7 DEF Refused
<1>8. CASE Answered(c)
  <2>1. pc[c] = "fetching" /\ (NextUrl(c) \/ pc' = [pc EXCEPT ![c] = "check"])
    BY <1>8 DEF Answered
  <2>2. CASE pc' = [pc EXCEPT ![c] = "check"]
    <3>1. pc'[c] = "check"
      BY <1>0, <2>2 DEF TypeOK
    <3> QED BY <1>0, <1>1, <1>2, <1>3, <2>1, <3>1
  <2> QED BY <1>6, <2>1, <2>2
<1>9. CASE Check(c)
  <2>1. pc[c] = "check" /\ pc'[c] = "done"
    BY <1>4, <1>9 DEF Check
  <2> QED BY <1>1, <1>2, <2>1
<1>10. CASE TimedOut(c)
  <2>1. pc[c] = "fetching" /\ pc'[c] = "done"
    BY <1>4, <1>10 DEF TimedOut
  <2> QED BY <1>0, <1>1, <1>2, <1>3, <2>1
<1> QED BY <1>5, <1>7, <1>8, <1>9, <1>10 DEF CallStep

-----------------------------------------------------------------------------
(* The theorems.                                                           *)

\* Inv is an inductive invariant of the OCSP client, for any number of calls,
\* URLs, responders and certificates, and any network.
THEOREM Invariance == Spec => []Inv
<1>1. Inv /\ [Next]_vars => Inv'
  <2> SUFFICES ASSUME Inv, [Next]_vars PROVE Inv'
    OBVIOUS
  <2>1. TypeOK' /\ WorldInv' /\ CallInv'
    BY TypeStep, WorldStep, CallInvStep
  <2> QED BY <2>1 DEF Inv
<1> QED BY InitInv, <1>1, PTL DEF Spec

\* Every variable of the OCSP client keeps its type.
THEOREM TypeCorrect == Spec => []TypeOK
<1>1. Inv => TypeOK
  BY DEF Inv
<1> QED BY Invariance, <1>1, PTL

\* Whoever signed what is returned speaks for the CA, whatever certificates
\* the network attaches (verify_ocsp_response_signature and
\* validate_responder_trust).
THEOREM SignerBound == Spec => []SignerSpeaksForIssuer
BY Invariance, SignerFollows, PTL

\* A Valid outcome does not outlive the window of a response from before the
\* revocation (validate_response_freshness).
THEOREM RevocationBites == Spec => []RevocationTakesEffect
BY Invariance, EffectFollows, PTL

\* Revoked is only returned of a certificate that the CA had revoked by the
\* validated instant (find_matching_response and the revocation time).
THEOREM RevokedOnlyWhenTrue == Spec => []RevokedIsTrue
BY Invariance, TruthFollows, PTL

\* Under require_nonce a Valid about the present is from after the call began
\* (validate_nonce).
THEOREM StrictIsCurrent == Spec => []StrictSeesRevocation
BY Invariance, StrictFollows, PTL

\* A genuine and fresh response that answers the request decides, and is never
\* an integrity failure (check_revocation_detailed_with_issuer_path).
THEOREM HonestEvidenceDecides == Spec => []HonestEvidenceCounts
BY Invariance, HonestFollows, PTL

\* Every step of a fetch brings it nearer to its end (the failover loop of
\* fetch_ocsp_response).
THEOREM FailoverEnds == Spec => FetchesProgress
<1> DEFINE A == \A c \in Calls :
                  <<pc[c], url[c], answer[c]>> # <<pc'[c], url'[c], answer'[c]>>
                    => Remaining(c)' < Remaining(c)
<1>1. Inv /\ [Next]_vars => [A]_vars
  <2> SUFFICES ASSUME Inv, [Next]_vars, NEW c \in Calls,
                      <<pc[c], url[c], answer[c]>> # <<pc'[c], url'[c], answer'[c]>>
               PROVE  Remaining(c)' < Remaining(c)
    OBVIOUS
  <2>1. TypeOK
    BY DEF Inv
  <2>2. ASSUME NEW b \in Calls, b # c PROVE ~CallStep(b)
    BY <2>1, <2>2, CallFrame
  <2>3. CallStep(c)
    BY <2>2 DEF Next, Respond, Revoke, Tick, Quiescent, vars
  <2> QED BY <2>3, StepsRemain
<1>2. FetchesProgress <=> [][A]_vars
  BY DEF FetchesProgress
<1> HIDE DEF A
<1> QED BY Invariance, <1>1, <1>2, PTL DEF Spec
=============================================================================
