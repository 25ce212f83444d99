----------------------------- MODULE Revocation -----------------------------
(***************************************************************************)
(* The revocation orchestrator (ltv/revocation.rs): one certificate        *)
(* checked with OCSP and CRL concurrently under three timers, and the      *)
(* nested checks of delegated OCSP responders.                             *)
(*                                                                         *)
(* Level 0 is the certificate itself; level l + 1 is the certificate of    *)
(* the delegated responder that signed level l's OCSP response.  The whole *)
(* check is ONE asynchronous task: the executor polls it, each poll walks  *)
(* the biased select of every live level from its first branch to its      *)
(* last, and the task is suspended when all of them are pending.  phase[l] *)
(* is where that walk stands in level l.  Replies arrive and the clock     *)
(* advances between any two steps of the walk.                             *)
(***************************************************************************)
EXTENDS ValidationStatus

CONSTANTS
    Configs,     \* the configurations explored (RevocationConfig + context)
    Certs,       \* the certificate profiles explored
    OcspReplies, \* the OCSP and CRL replies explored
    CrlReplies,
    MaxDepth,    \* bound: deepest level the model has room for
    MaxTime      \* bound: last instant of the clock

Level == 0 .. MaxDepth

\* RevocationConfig and the require_nonce flag of OcspValidationContext.
RevocationConfig ==
    [prefer_ocsp: BOOLEAN, require_revocation_check: BOOLEAN,
     use_ocsp_nonce: BOOLEAN, require_nonce: BOOLEAN,
     ocsp_timeout: Nat, crl_timeout: Nat, per_cert_timeout: Nat,
     max_ocsp_recursion: Nat]

\* What the two run_* functions read of a certificate before they fetch.
CertProfile == [ocsp_urls: BOOLEAN, crl_points: BOOLEAN]

ASSUME MaxDepthAssumption == MaxDepth \in Nat
ASSUME MaxTimeAssumption == MaxTime \in Nat
ASSUME ConfigsAssumption ==
    /\ Configs \subseteq RevocationConfig
    /\ \A c \in Configs : c.max_ocsp_recursion < MaxDepth
ASSUME CertsAssumption == Certs \subseteq CertProfile

Pending == "pending"   \* Option::None of a status; a reply not yet there

\* What comes back from the OCSP fetch and the check of the response: a
\* fetch error (network, HTTP, or a non-successful responder status, which
\* the client itself rejects), an integrity failure, or a verified response
\* that may need its responder checked.
OcspReply ==
    [error: {"fetch", "integrity"}, status: {"Unknown"}, delegated: {FALSE}]
      \cup [error: {"none"}, status: {"Valid", "Revoked", "Unknown"},
            delegated: BOOLEAN]

NoOcspReply == [error |-> Pending, status |-> "Unknown", delegated |-> FALSE]

\* What comes back from the CRL fetch: nothing usable, a CRL that fails
\* check_revocation_with_options, or the status it returns.
CrlReply == {"none", "integrity", "Valid", "Revoked"}

Phases == {"idle", "ocsp", "ocsp_timer", "crl", "crl_timer", "deadline",
           "suspended", "done", "dropped"}

ASSUME RepliesAssumption ==
    OcspReplies \subseteq OcspReply /\ CrlReplies \subseteq CrlReply

VARIABLES
    config,      \* &RevocationConfig, fixed for the whole check
    now,         \* the runtime's clock
    phase,       \* position of the poll in each level
    budget,      \* max_ocsp_recursion of each level's (sub-)config
    cert,        \* profile of the certificate checked at each level
    ocsp,        \* state of each level's run_ocsp_check future
    crl,         \* state of each level's run_crl_check future
    ocspReply,   \* what the network has answered the two fetches
    crlReply,
    ocspTimer,   \* expiry of tokio::time::timeout(config.ocsp_timeout, ..)
    crlTimer,    \* expiry of tokio::time::timeout(config.crl_timeout, ..)
    deadline,    \* expiry of the sleep(per_cert_timeout) of each level
    ocspStatus,  \* ocsp_status of collect_revocation_results
    crlStatus,   \* crl_status of collect_revocation_results
    result,      \* the merged and enforced status of each level
    timely       \* history: the replies that arrived between two polls

vars == <<config, now, phase, budget, cert, ocsp, crl, ocspReply, crlReply,
          ocspTimer, crlTimer, deadline, ocspStatus, crlStatus, result,
          timely>>

net == <<ocspReply, crlReply, timely>>
timers == <<ocspTimer, crlTimer, deadline>>
given == <<config, now, budget, cert>>

TypeOK ==
    /\ config \in Configs
    /\ now \in Nat
    /\ phase \in [Level -> Phases]
    /\ budget \in [Level -> Nat]
    /\ cert \in [Level -> CertProfile]
    /\ ocsp \in [Level -> {"unstarted", "fetching", "responder", "complete"}]
    /\ crl \in [Level -> {"unstarted", "fetching", "complete"}]
    /\ ocspReply \in [Level -> OcspReply \cup {NoOcspReply}]
    /\ crlReply \in [Level -> CrlReply \cup {Pending}]
    /\ ocspTimer \in [Level -> Nat]
    /\ crlTimer \in [Level -> Nat]
    /\ deadline \in [Level -> Nat]
    /\ ocspStatus \in [Level -> Statuses \cup {Pending}]
    /\ crlStatus \in [Level -> Statuses \cup {Pending}]
    /\ result \in [Level -> Statuses \cup {Pending}]
    /\ timely \subseteq (Level \X {"ocsp", "crl"})

Init ==
    /\ config \in Configs
    /\ now = 0
    /\ phase = [l \in Level |-> IF l = 0 THEN "ocsp" ELSE "idle"]
    /\ budget = [l \in Level |-> config.max_ocsp_recursion]
    /\ \E c \in Certs : cert = [l \in Level |-> c]
    /\ ocsp = [l \in Level |-> "unstarted"]
    /\ crl = [l \in Level |-> "unstarted"]
    /\ ocspReply = [l \in Level |-> NoOcspReply]
    /\ crlReply = [l \in Level |-> Pending]
    /\ ocspTimer = [l \in Level |-> 0]
    /\ crlTimer = [l \in Level |-> 0]
    /\ deadline = [l \in Level |-> config.per_cert_timeout]
    /\ ocspStatus = [l \in Level |-> Pending]
    /\ crlStatus = [l \in Level |-> Pending]
    /\ result = [l \in Level |-> Pending]
    /\ timely = {}

-----------------------------------------------------------------------------
(* Helpers shared by the actions.                                          *)

OrUnknown(s) == IF s = Pending THEN "Unknown" ELSE s

\* What a level returns: the sources that did not finish count as Unknown.
Outcome(ocspS, crlS) ==
    EnforceRevocationPolicy(
        MergePreferred(OrUnknown(ocspS), OrUnknown(crlS), config.prefer_ocsp),
        config.require_revocation_check)

\* Completing or abandoning level l's OCSP future drops the futures below it.
DroppedBelow(l) ==
    [k \in Level |-> IF k > l /\ phase[k] \notin {"idle", "done"}
                     THEN "dropped" ELSE phase[k]]

\* Mutant: the deadline branch is polled first, as an unbiased select may.
PolledFrom_DeadlineFirst(l) ==
    [k \in Level |-> IF k < l \/ phase[k] \in {"idle", "done", "dropped"}
                     THEN phase[k] ELSE "deadline"]

\* Mutant: a check whose OCSP branch has completed is not polled again.
PolledFrom_CrlForgotten(l) ==
    [k \in Level |-> IF k < l \/ phase[k] \in {"idle", "done", "dropped"}
                     THEN phase[k]
                     ELSE IF ocspStatus[k] = Pending THEN "ocsp" ELSE "suspended"]

\* A new iteration of level l's select also polls the levels suspended below.
PolledFrom(l) ==
    [k \in Level |-> IF k < l \/ phase[k] \in {"idle", "done", "dropped"}
                     THEN phase[k]
                     ELSE IF ocspStatus[k] = Pending THEN "ocsp" ELSE "crl"]

\* Mutant: the nested check does not inherit the parent's policy.
Decide_PolicyNotInherited(l, ocspS, crlS) ==
    /\ result' = [result EXCEPT ![l] =
         IF l = 0 THEN Outcome(ocspS, crlS)
         ELSE MergePreferred(OrUnknown(ocspS), OrUnknown(crlS), TRUE)]
    /\ phase' = [DroppedBelow(l) EXCEPT ![l] = "done"]

\* collect_revocation_results has both statuses, or gives up on the missing.
Decide(l, ocspS, crlS) ==
    /\ result' = [result EXCEPT ![l] = Outcome(ocspS, crlS)]
    /\ phase' = [DroppedBelow(l) EXCEPT ![l] = "done"]

\* run_ocsp_check returns s: the loop ends or goes on with the CRL branch.
CompleteOcsp(l, s) ==
    /\ ocsp' = [ocsp EXCEPT ![l] = "complete"]
    /\ ocspStatus' = [ocspStatus EXCEPT ![l] = s]
    /\ \/ crlStatus[l] # Pending /\ Decide(l, s, crlStatus[l])
       \/ /\ crlStatus[l] = Pending
          /\ phase' = [DroppedBelow(l) EXCEPT ![l] = "crl"]
          /\ UNCHANGED result
    /\ UNCHANGED <<given, net, timers, crl, crlStatus>>

\* run_crl_check returns s: the loop ends or polls the OCSP branch again.
CompleteCrl(l, s) ==
    /\ crl' = [crl EXCEPT ![l] = "complete"]
    /\ crlStatus' = [crlStatus EXCEPT ![l] = s]
    /\ \/ ocspStatus[l] # Pending /\ Decide(l, ocspStatus[l], s)
       \/ /\ ocspStatus[l] = Pending
          /\ phase' = PolledFrom(l)
          /\ UNCHANGED result
    /\ UNCHANGED <<given, net, timers, ocsp, ocspStatus>>

Goto(l, p) ==
    /\ phase' = [phase EXCEPT ![l] = p]
    /\ UNCHANGED <<given, net, timers, ocsp, crl, ocspStatus, crlStatus, result>>

-----------------------------------------------------------------------------
(* The OCSP branch.                                                        *)

\* First poll of run_ocsp_check: two early returns, or the timed fetch.
RunOcspCheck(l) ==
    /\ phase[l] = "ocsp" /\ ocsp[l] = "unstarted"
    /\ LET nonceRefused == config.require_nonce /\ ~config.use_ocsp_nonce IN
       \/ nonceRefused /\ CompleteOcsp(l, "Invalid")
       \/ ~nonceRefused /\ ~cert[l].ocsp_urls /\ CompleteOcsp(l, "Unknown")
       \/ /\ ~nonceRefused /\ cert[l].ocsp_urls
          /\ ocsp' = [ocsp EXCEPT ![l] = "fetching"]
          /\ ocspTimer' = [ocspTimer EXCEPT ![l] = now + config.ocsp_timeout]
          /\ UNCHANGED <<given, net, phase, crl, crlTimer, deadline,
                         ocspStatus, crlStatus, result>>

\* ocsp_check_error_to_status.  The fetch has already turned a
\* non-successful responder status into a fetch error, so the first case
\* does not arise from here.
OcspCheckErrorToStatus(e) ==
    IF e = "responder_status" THEN "Unknown" ELSE "Invalid"

\* Mutant: the nested check keeps its parent's recursion budget.
CheckDelegatedResponderRevocation_SameBudget(l) ==
    /\ l + 1 \in Level
    /\ ocsp' = [ocsp EXCEPT ![l] = "responder"]
    /\ phase' = [phase EXCEPT ![l + 1] = "ocsp"]
    /\ budget' = [budget EXCEPT ![l + 1] = budget[l]]
    /\ deadline' = [deadline EXCEPT ![l + 1] = now + config.per_cert_timeout]
    /\ \E c \in Certs : cert' = [cert EXCEPT ![l + 1] = c]
    /\ UNCHANGED <<config, now, net, crl, ocspTimer, crlTimer,
                   ocspStatus, crlStatus, result>>

\* check_delegated_responder_revocation: a nested check with one unit of
\* recursion budget less, its own timers, and the parent's policy.
CheckDelegatedResponderRevocation(l) ==
    /\ l + 1 \in Level
    /\ ocsp' = [ocsp EXCEPT ![l] = "responder"]
    /\ phase' = [phase EXCEPT ![l + 1] = "ocsp"]
    /\ budget' = [budget EXCEPT ![l + 1] = IF budget[l] > 0 THEN budget[l] - 1
                                                           ELSE 0]
    /\ deadline' = [deadline EXCEPT ![l + 1] = now + config.per_cert_timeout]
    /\ \E c \in Certs : cert' = [cert EXCEPT ![l + 1] = c]
    /\ UNCHANGED <<config, now, net, crl, ocspTimer, crlTimer,
                   ocspStatus, crlStatus, result>>

\* Mutant: with no budget left the delegated response is taken on trust.
OcspReplied_NoBudgetTrusts(l) ==
    /\ phase[l] = "ocsp" /\ ocsp[l] = "fetching"
    /\ LET r == ocspReply[l] IN
       \/ r.error # Pending /\ (~r.delegated \/ budget[l] = 0)
            /\ CompleteOcsp(l, r.status)
       \/ r.error = "none" /\ r.delegated /\ budget[l] # 0
            /\ CheckDelegatedResponderRevocation(l)

\* The fetched response is checked; a delegated responder without nocheck
\* must be checked first, and cannot be when the budget is exhausted.
OcspReplied(l) ==
    /\ phase[l] = "ocsp" /\ ocsp[l] = "fetching"
    /\ LET r == ocspReply[l] IN
       \/ r.error = "fetch" /\ CompleteOcsp(l, "Unknown")
       \/ r.error = "integrity"
            /\ CompleteOcsp(l, OcspCheckErrorToStatus(r.error))
       \/ r.error = "none" /\ ~r.delegated /\ CompleteOcsp(l, r.status)
       \/ r.error = "none" /\ r.delegated /\ budget[l] = 0
            /\ CompleteOcsp(l, "Invalid")
       \/ r.error = "none" /\ r.delegated /\ budget[l] # 0
            /\ CheckDelegatedResponderRevocation(l)

\* The nested check has an answer: only Revoked or Invalid discards the
\* response (the strict policy has already turned Unknown into Invalid).
ResponderChecked(l) ==
    /\ phase[l] = "ocsp" /\ ocsp[l] = "responder"
    /\ phase[l + 1] = "done"
    /\ CompleteOcsp(l, IF result[l + 1] \in {"Revoked", "Invalid"}
                       THEN "Invalid" ELSE ocspReply[l].status)

\* timeout() polls its future first and its timer only when that is pending.
OcspPending(l) ==
    /\ phase[l] = "ocsp"
    /\ \/ ocsp[l] = "fetching" /\ ocspReply[l].error = Pending
       \/ ocsp[l] = "responder" /\ phase[l + 1] = "suspended"
    /\ Goto(l, "ocsp_timer")

OcspTimer(l) ==
    /\ phase[l] = "ocsp_timer"
    /\ \/ now >= ocspTimer[l] /\ CompleteOcsp(l, "Unknown")
       \/ /\ now < ocspTimer[l]
          /\ Goto(l, IF crlStatus[l] = Pending THEN "crl" ELSE "deadline")

-----------------------------------------------------------------------------
(* The CRL branch.                                                         *)

RunCrlCheck(l) ==
    /\ phase[l] = "crl" /\ crl[l] = "unstarted"
    /\ \/ ~cert[l].crl_points /\ CompleteCrl(l, "Unknown")
       \/ /\ cert[l].crl_points
          /\ crl' = [crl EXCEPT ![l] = "fetching"]
          /\ crlTimer' = [crlTimer EXCEPT ![l] = now + config.crl_timeout]
          /\ UNCHANGED <<given, net, phase, ocsp, ocspTimer, deadline,
                         ocspStatus, crlStatus, result>>

\* Mutant: the fetch outcome is passed on as if it were a status.
CrlVerdict_Unclassified(r) == r

\* Mutant: an error of the CRL check is taken for the absence of an entry.
CrlVerdict_ErrorPasses(r) ==
    CASE r = "none"      -> "Unknown"
      [] r = "integrity" -> "Valid"
      [] OTHER           -> r

\* No CRL at all leaves the status open; a CRL that fails its check does not.
CrlVerdict(r) ==
    CASE r = "none"      -> "Unknown"
      [] r = "integrity" -> "Invalid"
      [] OTHER           -> r

CrlReplied(l) ==
    /\ phase[l] = "crl" /\ crl[l] = "fetching"
    /\ crlReply[l] # Pending
    /\ CompleteCrl(l, CrlVerdict(crlReply[l]))

CrlPending(l) ==
    /\ phase[l] = "crl" /\ crl[l] = "fetching"
    /\ crlReply[l] = Pending
    /\ Goto(l, "crl_timer")

CrlTimer(l) ==
    /\ phase[l] = "crl_timer"
    /\ \/ now >= crlTimer[l] /\ CompleteCrl(l, "Unknown")
       \/ now < crlTimer[l] /\ Goto(l, "deadline")

-----------------------------------------------------------------------------
(* The deadline branch, the executor and the environment.                  *)

\* Mutant: the deadline discards both statuses, as timeout(join!(..)) would.
Deadline_DiscardsBoth(l) ==
    /\ phase[l] = "deadline"
    /\ \/ /\ now >= deadline[l]
          /\ Decide(l, Pending, Pending)
          /\ UNCHANGED <<given, net, timers, ocsp, crl, ocspStatus, crlStatus>>
       \/ now < deadline[l] /\ Goto(l, "suspended")

\* The last branch of the biased select: give up on what is missing, or
\* return Pending to the level above or to the executor.
Deadline(l) ==
    /\ phase[l] = "deadline"
    /\ \/ /\ now >= deadline[l]
          /\ Decide(l, ocspStatus[l], crlStatus[l])
          /\ UNCHANGED <<given, net, timers, ocsp, crl, ocspStatus, crlStatus>>
       \/ now < deadline[l] /\ Goto(l, "suspended")

\* The executor polls the suspended task again.
Poll ==
    /\ phase[0] = "suspended"
    /\ phase' = PolledFrom(0)
    /\ UNCHANGED <<given, net, timers, ocsp, crl, ocspStatus, crlStatus, result>>

Step(l) ==
    \/ RunOcspCheck(l) \/ OcspReplied(l) \/ ResponderChecked(l)
    \/ OcspPending(l) \/ OcspTimer(l)
    \/ RunCrlCheck(l) \/ CrlReplied(l) \/ CrlPending(l) \/ CrlTimer(l)
    \/ Deadline(l)

Executor == Poll \/ \E l \in Level : Step(l)

Live(l) == phase[l] \notin {"idle", "done", "dropped"}

Arrived(l, source) ==
    IF phase[0] = "suspended" THEN timely \cup {<<l, source>>} ELSE timely

\* The network answers a fetch that is still in flight.
OcspArrives(l) ==
    /\ Live(l) /\ ocsp[l] = "fetching" /\ ocspReply[l].error = Pending
    /\ \E r \in OcspReplies : ocspReply' = [ocspReply EXCEPT ![l] = r]
    /\ timely' = Arrived(l, "ocsp")
    /\ UNCHANGED <<given, timers, phase, ocsp, crl, crlReply,
                   ocspStatus, crlStatus, result>>

CrlArrives(l) ==
    /\ Live(l) /\ crl[l] = "fetching" /\ crlReply[l] = Pending
    /\ \E r \in CrlReplies : crlReply' = [crlReply EXCEPT ![l] = r]
    /\ timely' = Arrived(l, "crl")
    /\ UNCHANGED <<given, timers, phase, ocsp, crl, ocspReply,
                   ocspStatus, crlStatus, result>>

Tick ==
    /\ phase[0] # "done"
    /\ now < MaxTime
    /\ now' = now + 1
    /\ UNCHANGED <<config, budget, cert, net, timers, phase, ocsp, crl,
                   ocspStatus, crlStatus, result>>

\* The check has returned to its caller.
Returned == phase[0] = "done" /\ UNCHANGED vars

Next ==
    \/ Executor
    \/ \E l \in Level : OcspArrives(l) \/ CrlArrives(l)
    \/ Tick
    \/ Returned

Spec == Init /\ [][Next]_vars

\* The runtime keeps polling a woken task and its clock keeps running; the
\* network owes nothing.
FairSpec == Spec /\ WF_vars(Executor) /\ WF_vars(Tick)

-----------------------------------------------------------------------------
(* Properties.                                                             *)

\* Level l has verified evidence for s that needs no further certificate.
Direct(l, s) ==
    \/ crlReply[l] = s /\ crlStatus[l] = s
    \/ /\ ocspReply[l].error = "none" /\ ~ocspReply[l].delegated
       /\ ocspReply[l].status = s /\ ocspStatus[l] = s

\* Level l has verified evidence for s signed by a delegated responder.
Delegated(l, s) ==
    /\ ocspReply[l].error = "none" /\ ocspReply[l].delegated
    /\ ocspReply[l].status = s /\ ocspStatus[l] = s

\* The evidence for s at level l needs no further certificate, or it rests
\* on a chain of confirmed responders that ends in such evidence.
Grounded(l, s) ==
    \/ Direct(l, s)
    \/ /\ Delegated(l, s)
       /\ \E k \in Level :
            /\ k > l /\ Direct(k, "Valid")
            /\ \A j \in Level : l < j /\ j < k => Delegated(j, "Valid")

\* Under the strict policy a definitive answer is never hearsay: Valid or
\* Revoked rests on verified evidence of this certificate, and if a delegated
\* responder signed it, on an unbroken chain of responders each confirmed
\* Valid that ends in evidence no delegated responder signed.  (run_ocsp_check
\* and check_delegated_responder_revocation, through every nesting level.)
StrictAnswerIsGrounded ==
    config.require_revocation_check =>
        \A l \in Level : \A s \in {"Valid", "Revoked"} :
            result[l] = s => Grounded(l, s)

\* Under either policy, what a delegated responder signed counts only after
\* the check of that responder has returned, and returned neither Revoked
\* nor Invalid; a check that was abandoned half way confirms nothing.
ResponderConfirmedFirst ==
    \A l \in Level :
        /\ ocspStatus[l] \in {"Valid", "Revoked"}
        /\ ocspReply[l].delegated
        => /\ l + 1 \in Level
           /\ phase[l + 1] = "done"
           /\ result[l + 1] \notin {"Revoked", "Invalid", Pending}

\* The biased select never loses evidence to a deadline: a reply that was
\* there when a poll began is what its source contributes, however late the
\* poll, and a revocation in it decides the check.
TimelyEvidenceDecides ==
    \A l \in Level :
        phase[l] = "done" =>
            /\ <<l, "crl">> \in timely =>
                 /\ crlStatus[l] = CrlVerdict(crlReply[l])
                 /\ crlReply[l] = "Revoked" => result[l] = "Revoked"
            /\ <<l, "ocsp">> \in timely /\ ~ocspReply[l].delegated =>
                 /\ ocspReply[l].error = "none" =>
                        ocspStatus[l] = ocspReply[l].status
                 /\ ocspReply[l].status = "Revoked" => result[l] = "Revoked"

\* Chains of delegated responders stop at the configured depth, because each
\* nested check runs with one unit of budget less (max_ocsp_recursion).
RecursionIsBounded ==
    \A l \in Level : phase[l] # "idle" => l <= config.max_ocsp_recursion

\* Every check returns, whatever the network does: the per-certificate
\* deadline fires in the end and no poll gets stuck.
CheckReturns == <>(phase[0] = "done")

\* The orchestrator keeps the promise of RevocationContract.
Contract == INSTANCE RevocationContract WITH
    policy <- config, ocspReport <- ocspStatus[0], crlReport <- crlStatus[0],
    answer <- result[0]

\* Timers, polls, replies and nested checks implement the contract.
ImplementsContract == Contract!ContractSpec

\* The nested check of a responder owes its caller the same.
NestedContract == INSTANCE RevocationContract WITH
    policy <- config, ocspReport <- ocspStatus[1], crlReport <- crlStatus[1],
    answer <- result[1]

\* The check of a delegated responder implements the contract too.
NestedImplementsContract == NestedContract!ContractSpec
-----------------------------------------------------------------------------
(* The inductive invariant behind the safety properties.                   *)

\* Each future, status and phase agree on what has completed.
Bookkeeping ==
    \A l \in Level :
        /\ ocspStatus[l] # Pending <=> ocsp[l] = "complete"
        /\ crlStatus[l] # Pending <=> crl[l] = "complete"
        /\ result[l] # Pending <=> phase[l] = "done"
        /\ phase[l] = "ocsp_timer" => ocsp[l] # "complete"
        /\ phase[l] = "crl_timer" => crl[l] # "complete"

\* A level is started by the OCSP response of the level above it, once, and
\* with what is left of the recursion budget.
Nesting ==
    \A l \in Level :
        /\ ocsp[l] \in {"unstarted", "fetching"} /\ l + 1 \in Level
               => phase[l + 1] = "idle"
        /\ ocsp[l] = "responder" =>
               /\ l + 1 \in Level /\ phase[l + 1] # "idle"
               /\ ocspReply[l].error = "none" /\ ocspReply[l].delegated
        /\ phase[l] # "idle" => budget[l] + l = config.max_ocsp_recursion

\* A definitive status is what the reply said; a definitive result is what
\* one of the statuses said; under the strict policy none is Unknown.
Evidence ==
    \A l \in Level :
        /\ crlStatus[l] \in {"Valid", "Revoked"} => crlReply[l] = crlStatus[l]
        /\ ocspStatus[l] \in {"Valid", "Revoked"} =>
               ocspReply[l].error = "none" /\ ocspReply[l].status = ocspStatus[l]
        /\ result[l] \in {"Valid", "Revoked"} =>
               crlStatus[l] = result[l] \/ ocspStatus[l] = result[l]
        /\ config.require_revocation_check => result[l] # "Unknown"

IInv ==
    /\ TypeOK
    /\ Bookkeeping
    /\ Nesting
    /\ Evidence
    /\ ResponderConfirmedFirst
    /\ StrictAnswerIsGrounded

\* The comment on check_delegated_responder_revocation: under the relaxed
\* policy only a definitively Revoked or Invalid responder blocks, so a
\* verified response of a responder with budget to check it counts unless
\* the nested check has returned one of the two.
RelaxedToleratesUnconfirmed ==
    \A l \in Level :
        /\ ~config.require_revocation_check
        /\ ocsp[l] = "complete"
        /\ ocspReply[l].error = "none" /\ ocspReply[l].delegated /\ budget[l] # 0
        /\ <<l, "ocsp">> \in timely
        => \/ ocspStatus[l] = ocspReply[l].status
           \/ result[l + 1] \in {"Revoked", "Invalid"}
=============================================================================
