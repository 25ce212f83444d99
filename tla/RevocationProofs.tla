-------------------------- MODULE RevocationProofs --------------------------
(* Theorems about Revocation, for every set of configurations, certificate *)
(* profiles and replies, every depth and every clock bound.                *)
EXTENDS Revocation, TLAPS

-----------------------------------------------------------------------------
(* Lemmas about the operators.                                             *)

\* The outcome of a level is a status, it is definitive only if one of its
\* two sources is, and the strict policy leaves no Unknown.
LEMMA OutcomeFacts ==
    ASSUME NEW o \in Statuses \cup {Pending}, NEW c \in Statuses \cup {Pending}
    PROVE  /\ Outcome(o, c) \in Statuses
           /\ Outcome(o, c) \in {"Valid", "Revoked"} =>
                  Outcome(o, c) = o \/ Outcome(o, c) = c
           /\ config.require_revocation_check => Outcome(o, c) # "Unknown"
BY DEF Outcome, OrUnknown, EnforceRevocationPolicy, MergePreferred,
       ResolvePriority, Priority, Statuses, Pending

\* Levels that are dropped or polled again stay in the type of phase.
LEMMA PhaseMapsTyped ==
    ASSUME TypeOK, NEW l \in Level
    PROVE  /\ DroppedBelow(l) \in [Level -> Phases]
           /\ PolledFrom(l) \in [Level -> Phases]
BY DEF TypeOK, DroppedBelow, PolledFrom, Phases

\* Deciding a level keeps phase and result in their types.
LEMMA DecideTyped ==
    ASSUME TypeOK, NEW l \in Level,
           NEW o \in Statuses \cup {Pending}, NEW c \in Statuses \cup {Pending},
           Decide(l, o, c)
    PROVE  /\ phase' \in [Level -> Phases]
           /\ result' \in [Level -> Statuses \cup {Pending}]
<1> DEFINE dropped == DroppedBelow(l)
<1>1. Outcome(o, c) \in Statuses
  BY OutcomeFacts
<1>2. dropped \in [Level -> Phases]
  BY PhaseMapsTyped
<1>3. phase' = [dropped EXCEPT ![l] = "done"]
      /\ result' = [result EXCEPT ![l] = Outcome(o, c)]
  BY DEF Decide
<1>4. result \in [Level -> Statuses \cup {Pending}]
  BY DEF TypeOK
<1> HIDE DEF dropped
<1>5. phase' \in [Level -> Phases]
  BY <1>2, <1>3 DEF Phases
<1> QED BY <1>1, <1>3, <1>4, <1>5

\* The values handed to CompleteOcsp and CompleteCrl are statuses.
LEMMA StatusesTyped ==
    ASSUME TypeOK, NEW l \in Level
    PROVE  /\ "Valid" \in Statuses /\ "Revoked" \in Statuses
           /\ "Invalid" \in Statuses /\ "Unknown" \in Statuses
           /\ ocspReply[l].status \in Statuses
           /\ \A e : OcspCheckErrorToStatus(e) \in Statuses
           /\ crlReply[l] # Pending => CrlVerdict(crlReply[l]) \in Statuses
<1>1. ocspReply[l] \in OcspReply \cup {NoOcspReply}
  BY DEF TypeOK
<1>2. crlReply[l] \in CrlReply \cup {Pending}
  BY DEF TypeOK
<1>3. ocspReply[l].status \in Statuses
  <2>1. \A r \in OcspReply : r.status \in Statuses
    BY DEF OcspReply, Statuses
  <2>2. NoOcspReply.status \in Statuses
    BY DEF NoOcspReply, Statuses
  <2> QED BY <1>1, <2>1, <2>2
<1>4. crlReply[l] # Pending => CrlVerdict(crlReply[l]) \in Statuses
  BY <1>2 DEF CrlReply, CrlVerdict, Statuses
<1> QED BY <1>3, <1>4 DEF OcspCheckErrorToStatus, Statuses

-----------------------------------------------------------------------------
(* Type correctness.                                                       *)

\* run_ocsp_check returning a status keeps the types.
LEMMA CompleteOcspTyped ==
    ASSUME TypeOK, NEW l \in Level, NEW s \in Statuses, CompleteOcsp(l, s)
    PROVE  TypeOK'
<1> USE DEF CompleteOcsp, given, net, timers
<1>1. phase' \in [Level -> Phases] /\ result' \in [Level -> Statuses \cup {Pending}]
  <2>1. CASE crlStatus[l] # Pending
    <3>1. Decide(l, s, crlStatus[l]) /\ crlStatus[l] \in Statuses \cup {Pending}
      BY <2>1 DEF TypeOK
    <3> QED BY <3>1, DecideTyped
  <2>2. CASE crlStatus[l] = Pending
    <3> DEFINE dropped == DroppedBelow(l)
    <3>1. dropped \in [Level -> Phases]
      BY PhaseMapsTyped
    <3>2. phase' = [dropped EXCEPT ![l] = "crl"] /\ result' = result
      BY <2>2
    <3>3. result \in [Level -> Statuses \cup {Pending}]
      BY DEF TypeOK
    <3> HIDE DEF dropped
    <3>4. phase' \in [Level -> Phases]
      BY <3>1, <3>2 DEF Phases
    <3> QED BY <3>2, <3>3, <3>4
  <2> QED BY <2>1, <2>2
<1> QED BY <1>1 DEF TypeOK

\* run_crl_check returning a status keeps the types.
LEMMA CompleteCrlTyped ==
    ASSUME TypeOK, NEW l \in Level, NEW s \in Statuses, CompleteCrl(l, s)
    PROVE  TypeOK'
<1> USE DEF CompleteCrl, given, net, timers
<1>1. phase' \in [Level -> Phases] /\ result' \in [Level -> Statuses \cup {Pending}]
  <2>1. CASE ocspStatus[l] # Pending
    <3>1. Decide(l, ocspStatus[l], s) /\ ocspStatus[l] \in Statuses \cup {Pending}
      BY <2>1 DEF TypeOK
    <3> QED BY <3>1, DecideTyped
  <2>2. CASE ocspStatus[l] = Pending
    BY <2>2, PhaseMapsTyped DEF TypeOK
  <2> QED BY <2>1, <2>2
<1> QED BY <1>1 DEF TypeOK

\* Moving the poll to another branch keeps the types.
LEMMA GotoTyped ==
    ASSUME TypeOK, NEW l \in Level, NEW p \in Phases, Goto(l, p)
    PROVE  TypeOK'
BY DEF Goto, given, net, timers, TypeOK

\* What the constants are made of.
LEMMA ConstantsTyped ==
    ASSUME NEW c \in Configs
    PROVE  /\ c.ocsp_timeout \in Nat /\ c.crl_timeout \in Nat
           /\ c.per_cert_timeout \in Nat /\ c.max_ocsp_recursion \in Nat
           /\ Level \subseteq Nat /\ 0 \in Level
BY ConfigsAssumption, MaxDepthAssumption DEF RevocationConfig, Level

\* The initial states are well typed.
LEMMA InitTyped == Init => TypeOK
<1> SUFFICES ASSUME Init PROVE TypeOK
  OBVIOUS
<1>1. config \in Configs
  BY DEF Init
<1>2. config.per_cert_timeout \in Nat /\ config.max_ocsp_recursion \in Nat
  BY <1>1, ConstantsTyped
<1>3. phase \in [Level -> Phases]
  BY DEF Init, Phases
<1>4. cert \in [Level -> CertProfile]
  BY CertsAssumption DEF Init
<1>5. ocspReply \in [Level -> OcspReply \cup {NoOcspReply}]
  BY DEF Init
<1> QED BY <1>1, <1>2, <1>3, <1>4, <1>5 DEF Init, TypeOK

\* Starting a nested check keeps the types; its budget does not wrap.
LEMMA CheckDelegatedTyped ==
    ASSUME TypeOK, NEW l \in Level, CheckDelegatedResponderRevocation(l)
    PROVE  TypeOK'
<1> USE DEF CheckDelegatedResponderRevocation, net
<1>1. config \in Configs /\ now \in Nat /\ l + 1 \in Level
  BY DEF TypeOK
<1>2. config.per_cert_timeout \in Nat /\ now + config.per_cert_timeout \in Nat
  BY <1>1, ConstantsTyped
<1>3. deadline' \in [Level -> Nat]
  BY <1>1, <1>2 DEF TypeOK
<1>4. budget' \in [Level -> Nat]
  BY <1>1 DEF TypeOK
<1>5. cert' \in [Level -> CertProfile]
  BY <1>1, CertsAssumption DEF TypeOK
<1>6. phase' \in [Level -> Phases]
  BY <1>1 DEF TypeOK, Phases
<1> QED BY <1>3, <1>4, <1>5, <1>6 DEF TypeOK

\* Every step of the executor, the network and the clock keeps the types.
LEMMA NextTyped == TypeOK /\ [Next]_vars => TypeOK'
<1> SUFFICES ASSUME TypeOK, [Next]_vars PROVE TypeOK'
  OBVIOUS
<1> USE DEF given, net, timers
<1>1. CASE UNCHANGED vars
  BY <1>1 DEF vars, TypeOK
<1>2. ASSUME NEW l \in Level, Step(l) PROVE TypeOK'
  <2>0. config \in Configs /\ now \in Nat
    BY DEF TypeOK
  <2>1. CASE RunOcspCheck(l)
    <3>1. CASE CompleteOcsp(l, "Invalid") \/ CompleteOcsp(l, "Unknown")
      BY <3>1, StatusesTyped, CompleteOcspTyped
    <3>2. CASE /\ ocsp' = [ocsp EXCEPT ![l] = "fetching"]
               /\ ocspTimer' = [ocspTimer EXCEPT ![l] = now + config.ocsp_timeout]
               /\ UNCHANGED <<given, net, phase, crl, crlTimer, deadline,
                              ocspStatus, crlStatus, result>>
      <4>1. now + config.ocsp_timeout \in Nat
        BY <2>0, ConstantsTyped
      <4> QED BY <3>2, <4>1 DEF TypeOK
    <3> QED BY <2>1, <3>1, <3>2 DEF RunOcspCheck
  <2>2. CASE OcspReplied(l)
    <3>1. CASE \E s \in Statuses : CompleteOcsp(l, s)
      BY <3>1, CompleteOcspTyped
    <3>2. CASE CheckDelegatedResponderRevocation(l)
      BY <3>2, CheckDelegatedTyped
    <3> QED BY <2>2, <3>1, <3>2, StatusesTyped DEF OcspReplied
  <2>3. CASE ResponderChecked(l)
    BY <2>3, StatusesTyped, CompleteOcspTyped DEF ResponderChecked
  <2>4. CASE OcspPending(l)
    BY <2>4, GotoTyped DEF OcspPending, Phases
  <2>5. CASE OcspTimer(l)
    BY <2>5, GotoTyped, StatusesTyped, CompleteOcspTyped DEF OcspTimer, Phases
  <2>6. CASE RunCrlCheck(l)
    <3>1. CASE CompleteCrl(l, "Unknown")
      BY <3>1, StatusesTyped, CompleteCrlTyped
    <3>2. CASE /\ crl' = [crl EXCEPT ![l] = "fetching"]
               /\ crlTimer' = [crlTimer EXCEPT ![l] = now + config.crl_timeout]
               /\ UNCHANGED <<given, net, phase, ocsp, ocspTimer, deadline,
                              ocspStatus, crlStatus, result>>
      <4>1. now + config.crl_timeout \in Nat
        BY <2>0, ConstantsTyped
      <4> QED BY <3>2, <4>1 DEF TypeOK
    <3> QED BY <2>6, <3>1, <3>2 DEF RunCrlCheck
  <2>7. CASE CrlReplied(l)
    BY <2>7, StatusesTyped, CompleteCrlTyped DEF CrlReplied
  <2>8. CASE CrlPending(l)
    BY <2>8, GotoTyped DEF CrlPending, Phases
  <2>9. CASE CrlTimer(l)
    BY <2>9, GotoTyped, StatusesTyped, CompleteCrlTyped DEF CrlTimer, Phases
  <2>10. CASE Deadline(l)
    <3>1. CASE Goto(l, "suspended")
      BY <3>1, GotoTyped DEF Phases
    <3>2. CASE /\ Decide(l, ocspStatus[l], crlStatus[l])
               /\ UNCHANGED <<given, net, timers, ocsp, crl, ocspStatus, crlStatus>>
      <4>1. /\ ocspStatus[l] \in Statuses \cup {Pending}
            /\ crlStatus[l] \in Statuses \cup {Pending}
        BY DEF TypeOK
      <4>2. /\ phase' \in [Level -> Phases]
            /\ result' \in [Level -> Statuses \cup {Pending}]
        BY <3>2, <4>1, DecideTyped
      <4> QED BY <3>2, <4>2 DEF TypeOK
    <3> QED BY <2>10, <3>1, <3>2 DEF Deadline
  <2> QED BY <1>2, <2>1, <2>2, <2>3, <2>4, <2>5, <2>6, <2>7, <2>8, <2>9, <2>10
          DEF Step
<1>3. CASE Poll
  <2>1. phase' \in [Level -> Phases]
    BY <1>3, PhaseMapsTyped, MaxDepthAssumption DEF Poll, Level
  <2> QED BY <1>3, <2>1 DEF Poll, TypeOK
<1>4. ASSUME NEW l \in Level, OcspArrives(l) PROVE TypeOK'
  <2>1. ocspReply' \in [Level -> OcspReply \cup {NoOcspReply}]
    BY <1>4, RepliesAssumption DEF OcspArrives, TypeOK
  <2>2. timely' \subseteq (Level \X {"ocsp", "crl"})
    BY <1>4 DEF OcspArrives, Arrived, TypeOK
  <2> QED BY <1>4, <2>1, <2>2 DEF OcspArrives, TypeOK
<1>5. ASSUME NEW l \in Level, CrlArrives(l) PROVE TypeOK'
  <2>1. crlReply' \in [Level -> CrlReply \cup {Pending}]
    BY <1>5, RepliesAssumption DEF CrlArrives, TypeOK
  <2>2. timely' \subseteq (Level \X {"ocsp", "crl"})
    BY <1>5 DEF CrlArrives, Arrived, TypeOK
  <2> QED BY <1>5, <2>1, <2>2 DEF CrlArrives, TypeOK
<1>6. CASE Tick
  BY <1>6 DEF Tick, TypeOK
<1>7. CASE Returned
  BY <1>1, <1>7 DEF Returned
<1> QED BY <1>1, <1>2, <1>3, <1>4, <1>5, <1>6, <1>7 DEF Next, Executor

\* Every reachable state of the orchestrator is well typed: no status is
\* ever an unclassified reply, no budget goes below zero.
THEOREM TypeCorrect == Spec => []TypeOK
BY InitTyped, NextTyped, PTL DEF Spec

-----------------------------------------------------------------------------
(* The inductive invariant.  Safe is IInv without the types and without    *)
(* the grounding, which needs the invariant after the step as well.        *)

Safe == Bookkeeping /\ Nesting /\ Evidence /\ ResponderConfirmedFirst

\* What deciding a level does, level by level.
LEMMA DecideEffect ==
    ASSUME TypeOK, NEW l \in Level,
           NEW o \in Statuses \cup {Pending}, NEW c \in Statuses \cup {Pending},
           Decide(l, o, c)
    PROVE  /\ result'[l] \in Statuses /\ phase'[l] = "done"
           /\ result'[l] \in {"Valid", "Revoked"} =>
                  result'[l] = o \/ result'[l] = c
           /\ config.require_revocation_check => result'[l] # "Unknown"
           /\ \A k \in Level : k # l => result'[k] = result[k]
           /\ \A k \in Level : k # l =>
                  /\ phase'[k] = phase[k] \/ phase'[k] = "dropped"
                  /\ phase[k] \in {"idle", "done"} => phase'[k] = phase[k]
                  /\ phase[k] # "idle" => phase'[k] # "idle"
                  /\ phase[k] # "done" => phase'[k] # "done"
<1>1. /\ result'[l] = Outcome(o, c)
      /\ \A k \in Level : k # l => result'[k] = result[k]
  BY DEF Decide, TypeOK
<1>2. /\ phase'[l] = "done"
      /\ \A k \in Level : k # l => phase'[k] = DroppedBelow(l)[k]
  BY DEF Decide, DroppedBelow
<1> QED BY <1>1, <1>2, OutcomeFacts DEF DroppedBelow

\* What run_ocsp_check returning s does, level by level.
LEMMA CompleteOcspEffect ==
    ASSUME TypeOK, NEW l \in Level, NEW s \in Statuses, CompleteOcsp(l, s)
    PROVE  /\ ocsp'[l] = "complete" /\ ocspStatus'[l] = s
           /\ \A k \in Level : k # l =>
                  /\ ocsp'[k] = ocsp[k] /\ ocspStatus'[k] = ocspStatus[k]
                  /\ result'[k] = result[k]
                  /\ phase'[k] = phase[k] \/ phase'[k] = "dropped"
                  /\ phase[k] \in {"idle", "done"} => phase'[k] = phase[k]
                  /\ phase[k] # "idle" => phase'[k] # "idle"
                  /\ phase[k] # "done" => phase'[k] # "done"
           /\ \/ /\ phase'[l] = "done" /\ result'[l] \in Statuses
                 /\ result'[l] \in {"Valid", "Revoked"} =>
                        result'[l] = s \/ result'[l] = crlStatus[l]
                 /\ config.require_revocation_check => result'[l] # "Unknown"
              \/ phase'[l] = "crl" /\ result'[l] = result[l]
<1>1. /\ ocsp'[l] = "complete" /\ ocspStatus'[l] = s
      /\ \A k \in Level : k # l =>
             ocsp'[k] = ocsp[k] /\ ocspStatus'[k] = ocspStatus[k]
  BY DEF CompleteOcsp, TypeOK
<1>2. CASE crlStatus[l] # Pending
  <2>1. Decide(l, s, crlStatus[l]) /\ crlStatus[l] \in Statuses \cup {Pending}
    BY <1>2 DEF CompleteOcsp, TypeOK
  <2> QED BY <1>1, <2>1, DecideEffect
<1>3. CASE crlStatus[l] = Pending
  <2>1. phase' = [DroppedBelow(l) EXCEPT ![l] = "crl"] /\ result' = result
    BY <1>3 DEF CompleteOcsp
  <2>2. /\ phase'[l] = "crl"
        /\ \A k \in Level : k # l => phase'[k] = DroppedBelow(l)[k]
    BY <2>1 DEF DroppedBelow
  <2> QED BY <1>1, <2>1, <2>2 DEF DroppedBelow
<1> QED BY <1>2, <1>3

\* What run_crl_check returning s does, level by level.
LEMMA CompleteCrlEffect ==
    ASSUME TypeOK, NEW l \in Level, NEW s \in Statuses, CompleteCrl(l, s),
           phase[l] \in {"crl", "crl_timer"}
    PROVE  /\ crl'[l] = "complete" /\ crlStatus'[l] = s
           /\ \A k \in Level : k # l =>
                  /\ crl'[k] = crl[k] /\ crlStatus'[k] = crlStatus[k]
                  /\ result'[k] = result[k]
                  /\ \/ phase'[k] = phase[k] \/ phase'[k] = "dropped"
                     \/ phase'[k] \in {"ocsp", "crl"}
                  /\ phase[k] \in {"idle", "done"} => phase'[k] = phase[k]
                  /\ phase[k] # "idle" => phase'[k] # "idle"
                  /\ phase[k] # "done" => phase'[k] # "done"
           /\ \/ /\ phase'[l] = "done" /\ result'[l] \in Statuses
                 /\ result'[l] \in {"Valid", "Revoked"} =>
                        result'[l] = ocspStatus[l] \/ result'[l] = s
                 /\ config.require_revocation_check => result'[l] # "Unknown"
              \/ phase'[l] \in {"ocsp", "crl"} /\ result'[l] = result[l]
<1>1. /\ crl'[l] = "complete" /\ crlStatus'[l] = s
      /\ \A k \in Level : k # l =>
             crl'[k] = crl[k] /\ crlStatus'[k] = crlStatus[k]
  BY DEF CompleteCrl, TypeOK
<1>2. CASE ocspStatus[l] # Pending
  <2>1. Decide(l, ocspStatus[l], s) /\ ocspStatus[l] \in Statuses \cup {Pending}
    BY <1>2 DEF CompleteCrl, TypeOK
  <2> QED BY <1>1, <2>1, DecideEffect
<1>3. CASE ocspStatus[l] = Pending
  <2>1. phase' = PolledFrom(l) /\ result' = result
    BY <1>3 DEF CompleteCrl
  <2> QED BY <1>1, <2>1 DEF PolledFrom, Level
<1> QED BY <1>2, <1>3

\* run_ocsp_check may return s: a definitive s is what the response said,
\* and the responder that signed it has been confirmed if it had to be.
Justified(l, s) ==
    s \in {"Valid", "Revoked"} =>
        /\ ocspReply[l].error = "none" /\ ocspReply[l].status = s
        /\ ocspReply[l].delegated =>
               /\ l + 1 \in Level /\ phase[l + 1] = "done"
               /\ result[l + 1] \notin {"Revoked", "Invalid", Pending}

\* A justified return of run_ocsp_check preserves the invariant.
LEMMA CompleteOcspSafe ==
    ASSUME TypeOK, Safe, NEW l \in Level, NEW s \in Statuses, CompleteOcsp(l, s),
           phase[l] \in {"ocsp", "ocsp_timer"}, Justified(l, s)
    PROVE  Safe'
<1>1. UNCHANGED <<config, budget, ocspReply, crlReply, crl, crlStatus>>
  BY DEF CompleteOcsp, given, net, timers
<1>2. s # Pending /\ l + 1 # l /\ Level \subseteq Int
  BY DEF Statuses, Pending, Level
<1>3. Bookkeeping'
  BY <1>1, <1>2, CompleteOcspEffect, MaxDepthAssumption
     DEF Safe, Bookkeeping, Statuses, Pending
<1>4. Nesting'
  BY <1>1, <1>2, CompleteOcspEffect DEF Safe, Nesting
<1>5. Evidence'
  <2>1. result[l] = Pending
    BY DEF Safe, Bookkeeping
  <2>2. ASSUME NEW k \in Level, k # l
        PROVE  /\ crlStatus'[k] \in {"Valid", "Revoked"} => crlReply'[k] = crlStatus'[k]
               /\ ocspStatus'[k] \in {"Valid", "Revoked"} =>
                      ocspReply'[k].error = "none" /\ ocspReply'[k].status = ocspStatus'[k]
               /\ result'[k] \in {"Valid", "Revoked"} =>
                      crlStatus'[k] = result'[k] \/ ocspStatus'[k] = result'[k]
               /\ config'.require_revocation_check => result'[k] # "Unknown"
    BY <1>1, <2>2, CompleteOcspEffect DEF Safe, Evidence
  <2>3. /\ crlStatus'[l] \in {"Valid", "Revoked"} => crlReply'[l] = crlStatus'[l]
        /\ ocspStatus'[l] \in {"Valid", "Revoked"} =>
               ocspReply'[l].error = "none" /\ ocspReply'[l].status = ocspStatus'[l]
    BY <1>1, CompleteOcspEffect DEF Safe, Evidence, Justified
  <2>4. /\ result'[l] \in {"Valid", "Revoked"} =>
               crlStatus'[l] = result'[l] \/ ocspStatus'[l] = result'[l]
        /\ config'.require_revocation_check => result'[l] # "Unknown"
    BY <1>1, <2>1, CompleteOcspEffect DEF Pending
  <2> QED BY <2>2, <2>3, <2>4 DEF Evidence
<1>6. ResponderConfirmedFirst'
  <2> SUFFICES ASSUME NEW k \in Level, ocspStatus'[k] \in {"Valid", "Revoked"},
                      ocspReply'[k].delegated
               PROVE  /\ k + 1 \in Level /\ phase'[k + 1] = "done"
                      /\ result'[k + 1] \notin {"Revoked", "Invalid", Pending}
    BY DEF ResponderConfirmedFirst
  <2>1. /\ k + 1 \in Level /\ phase[k + 1] = "done"
        /\ result[k + 1] \notin {"Revoked", "Invalid", Pending}
    BY <1>1, CompleteOcspEffect DEF Safe, ResponderConfirmedFirst, Justified
  <2>2. k + 1 # l
    BY <2>1
  <2> QED BY <2>1, <2>2, CompleteOcspEffect
<1> QED BY <1>3, <1>4, <1>5, <1>6 DEF Safe

\* A return of run_crl_check preserves the invariant if a definitive status
\* is what the CRL said.
LEMMA CompleteCrlSafe ==
    ASSUME TypeOK, Safe, NEW l \in Level, NEW s \in Statuses, CompleteCrl(l, s),
           phase[l] \in {"crl", "crl_timer"},
           s \in {"Valid", "Revoked"} => crlReply[l] = s
    PROVE  Safe'
<1>1. UNCHANGED <<config, budget, ocspReply, crlReply, ocsp, ocspStatus>>
  BY DEF CompleteCrl, given, net, timers
<1>2. s # Pending
  BY DEF Statuses, Pending
<1>3. Bookkeeping'
  BY <1>1, <1>2, CompleteCrlEffect DEF Safe, Bookkeeping, Statuses, Pending
<1>4. Nesting'
  BY <1>1, <1>2, CompleteCrlEffect DEF Safe, Nesting
<1>5. Evidence'
  <2>1. result[l] = Pending
    BY DEF Safe, Bookkeeping
  <2>2. ASSUME NEW k \in Level, k # l
        PROVE  /\ crlStatus'[k] \in {"Valid", "Revoked"} => crlReply'[k] = crlStatus'[k]
               /\ ocspStatus'[k] \in {"Valid", "Revoked"} =>
                      ocspReply'[k].error = "none" /\ ocspReply'[k].status = ocspStatus'[k]
               /\ result'[k] \in {"Valid", "Revoked"} =>
                      crlStatus'[k] = result'[k] \/ ocspStatus'[k] = result'[k]
               /\ config'.require_revocation_check => result'[k] # "Unknown"
    BY <1>1, <2>2, CompleteCrlEffect DEF Safe, Evidence
  <2>3. /\ crlStatus'[l] \in {"Valid", "Revoked"} => crlReply'[l] = crlStatus'[l]
        /\ ocspStatus'[l] \in {"Valid", "Revoked"} =>
               ocspReply'[l].error = "none" /\ ocspReply'[l].status = ocspStatus'[l]
    BY <1>1, CompleteCrlEffect DEF Safe, Evidence
  <2>4. /\ result'[l] \in {"Valid", "Revoked"} =>
               crlStatus'[l] = result'[l] \/ ocspStatus'[l] = result'[l]
        /\ config'.require_revocation_check => result'[l] # "Unknown"
    BY <1>1, <2>1, CompleteCrlEffect DEF Pending
  <2> QED BY <2>2, <2>3, <2>4 DEF Evidence
<1>6. ResponderConfirmedFirst'
  <2> SUFFICES ASSUME NEW k \in Level, ocspStatus'[k] \in {"Valid", "Revoked"},
                      ocspReply'[k].delegated
               PROVE  /\ k + 1 \in Level /\ phase'[k + 1] = "done"
                      /\ result'[k + 1] \notin {"Revoked", "Invalid", Pending}
    BY DEF ResponderConfirmedFirst
  <2>1. /\ k + 1 \in Level /\ phase[k + 1] = "done"
        /\ result[k + 1] \notin {"Revoked", "Invalid", Pending}
    BY <1>1 DEF Safe, ResponderConfirmedFirst
  <2>2. k + 1 # l
    BY <2>1
  <2> QED BY <2>1, <2>2, CompleteCrlEffect
<1> QED BY <1>3, <1>4, <1>5, <1>6 DEF Safe

\* The deadline deciding a level preserves the invariant.
LEMMA DeadlineSafe ==
    ASSUME TypeOK, Safe, NEW l \in Level, phase[l] = "deadline",
           Decide(l, ocspStatus[l], crlStatus[l]),
           UNCHANGED <<given, net, timers, ocsp, crl, ocspStatus, crlStatus>>
    PROVE  Safe'
<1>1. UNCHANGED <<config, budget, ocspReply, crlReply>>
  BY DEF given, net
<1>2. /\ ocspStatus[l] \in Statuses \cup {Pending}
      /\ crlStatus[l] \in Statuses \cup {Pending}
  BY DEF TypeOK
<1>3. Bookkeeping'
  BY <1>1, <1>2, DecideEffect DEF Safe, Bookkeeping, Statuses, Pending
<1>4. Nesting'
  BY <1>1, <1>2, DecideEffect DEF Safe, Nesting
<1>5. Evidence'
  BY <1>1, <1>2, DecideEffect DEF Safe, Evidence
<1>6. ResponderConfirmedFirst'
  <2> SUFFICES ASSUME NEW k \in Level, ocspStatus'[k] \in {"Valid", "Revoked"},
                      ocspReply'[k].delegated
               PROVE  /\ k + 1 \in Level /\ phase'[k + 1] = "done"
                      /\ result'[k + 1] \notin {"Revoked", "Invalid", Pending}
    BY DEF ResponderConfirmedFirst
  <2>1. /\ k + 1 \in Level /\ phase[k + 1] = "done"
        /\ result[k + 1] \notin {"Revoked", "Invalid", Pending}
    BY <1>1 DEF Safe, ResponderConfirmedFirst
  <2>2. k + 1 # l
    BY <2>1
  <2> QED BY <1>2, <2>1, <2>2, DecideEffect
<1> QED BY <1>3, <1>4, <1>5, <1>6 DEF Safe

\* A step that only moves the poll, neither starting a level nor finishing
\* one, preserves the invariant.
LEMMA MoveSafe ==
    ASSUME TypeOK, Safe,
           UNCHANGED <<config, budget, ocspReply, crlReply, ocsp, crl,
                       ocspStatus, crlStatus, result>>,
           \A k \in Level :
               /\ phase[k] = "idle" <=> phase'[k] = "idle"
               /\ phase[k] = "done" <=> phase'[k] = "done"
               /\ phase'[k] = "ocsp_timer" => ocsp[k] # "complete"
               /\ phase'[k] = "crl_timer" => crl[k] # "complete"
    PROVE  Safe'
<1>1. Bookkeeping'
  BY DEF Safe, Bookkeeping
<1>2. Nesting'
  BY DEF Safe, Nesting
<1>3. Evidence'
  BY DEF Safe, Evidence
<1>4. ResponderConfirmedFirst'
  BY DEF Safe, ResponderConfirmedFirst
<1> QED BY <1>1, <1>2, <1>3, <1>4 DEF Safe

\* Starting the check of a delegated responder preserves the invariant: it
\* starts the level below, once, with one unit of budget less.
LEMMA CheckDelegatedSafe ==
    ASSUME TypeOK, Safe, NEW l \in Level, CheckDelegatedResponderRevocation(l),
           phase[l] = "ocsp", ocsp[l] = "fetching", budget[l] # 0,
           ocspReply[l].error = "none", ocspReply[l].delegated
    PROVE  Safe'
<1>1. UNCHANGED <<config, ocspReply, crlReply, crl, ocspStatus, crlStatus, result>>
  BY DEF CheckDelegatedResponderRevocation, net
<1>2. l + 1 \in Level /\ Level \subseteq Int /\ phase[l + 1] = "idle"
  BY DEF CheckDelegatedResponderRevocation, Safe, Nesting, Level
<1>3. /\ ocsp'[l] = "responder" /\ phase'[l + 1] = "ocsp"
      /\ \A k \in Level : k # l => ocsp'[k] = ocsp[k]
      /\ \A k \in Level : k # l + 1 => phase'[k] = phase[k] /\ budget'[k] = budget[k]
  BY <1>2 DEF CheckDelegatedResponderRevocation, TypeOK
<1>4. budget'[l + 1] = budget[l] - 1 /\ budget[l] \in Nat
  BY <1>2 DEF CheckDelegatedResponderRevocation, TypeOK
<1>5. Bookkeeping'
  BY <1>1, <1>2, <1>3 DEF Safe, Bookkeeping
<1>6. Nesting'
  <2>1. config.max_ocsp_recursion \in Nat
    BY ConstantsTyped DEF TypeOK
  <2>2. budget[l] + l = config.max_ocsp_recursion
    BY DEF Safe, Nesting
  <2>3. budget'[l + 1] + (l + 1) = config'.max_ocsp_recursion
    BY <1>1, <1>2, <1>4, <2>1, <2>2
  <2>4. \A k \in Level : phase'[k] # "idle" =>
            budget'[k] + k = config'.max_ocsp_recursion
    BY <1>1, <1>2, <1>3, <2>3 DEF Safe, Nesting
  <2>5. \A k \in Level : ocsp'[k] = "responder" =>
            /\ k + 1 \in Level /\ phase'[k + 1] # "idle"
            /\ ocspReply'[k].error = "none" /\ ocspReply'[k].delegated
    BY <1>1, <1>2, <1>3 DEF Safe, Nesting
  <2>6. \A k \in Level : ocsp'[k] \in {"unstarted", "fetching"} /\ k + 1 \in Level
            => phase'[k + 1] = "idle"
    <3> SUFFICES ASSUME NEW k \in Level, ocsp'[k] \in {"unstarted", "fetching"},
                        k + 1 \in Level
                 PROVE  phase'[k + 1] = "idle"
      OBVIOUS
    <3>1. k # l /\ ocsp[k] \in {"unstarted", "fetching"}
      BY <1>3
    <3>2. phase[k + 1] = "idle"
      BY <3>1 DEF Safe, Nesting
    <3>3. k + 1 # l + 1
      BY <1>2, <3>1
    <3> QED BY <1>3, <3>2, <3>3
  <2> QED BY <2>4, <2>5, <2>6 DEF Nesting
<1>7. Evidence'
  BY <1>1 DEF Safe, Evidence
<1>8. ResponderConfirmedFirst'
  BY <1>1, <1>2, <1>3 DEF Safe, ResponderConfirmedFirst
<1> QED BY <1>5, <1>6, <1>7, <1>8 DEF Safe

\* Safe is an invariant of every step.
LEMMA InitSafe == Init => Safe
<1> SUFFICES ASSUME Init PROVE Safe
  OBVIOUS
<1>1. Bookkeeping
  BY DEF Init, Bookkeeping
<1>2. Nesting
  <2>1. config.max_ocsp_recursion \in Nat /\ Level \subseteq Nat
    BY ConstantsTyped DEF Init
  <2> QED BY <2>1 DEF Init, Nesting
<1>3. Evidence
  BY DEF Init, Evidence, Pending
<1>4. ResponderConfirmedFirst
  BY DEF Init, ResponderConfirmedFirst, Pending
<1> QED BY <1>1, <1>2, <1>3, <1>4 DEF Safe

\* Every step of the executor preserves the invariant.
LEMMA StepSafe ==
    ASSUME TypeOK, Safe, NEW l \in Level, Step(l)
    PROVE  Safe'
<1> USE DEF given, net, timers
<1>1. CASE RunOcspCheck(l)
  <2>1. CASE CompleteOcsp(l, "Invalid") \/ CompleteOcsp(l, "Unknown")
    BY <1>1, <2>1, StatusesTyped, CompleteOcspSafe DEF RunOcspCheck, Justified
  <2>2. CASE /\ ocsp' = [ocsp EXCEPT ![l] = "fetching"]
             /\ UNCHANGED <<given, net, phase, crl, ocspStatus, crlStatus, result>>
    <3>1. /\ ocsp'[l] = "fetching" /\ ocsp[l] = "unstarted"
          /\ \A k \in Level : k # l => ocsp'[k] = ocsp[k]
      BY <1>1, <2>2 DEF RunOcspCheck, TypeOK
    <3>2. Bookkeeping'
      BY <2>2, <3>1 DEF Safe, Bookkeeping
    <3>3. Nesting'
      BY <2>2, <3>1 DEF Safe, Nesting
    <3>4. Evidence' /\ ResponderConfirmedFirst'
      BY <2>2 DEF Safe, Evidence, ResponderConfirmedFirst
    <3> QED BY <3>2, <3>3, <3>4 DEF Safe
  <2> QED BY <1>1, <2>1, <2>2 DEF RunOcspCheck
<1>2. CASE OcspReplied(l)
  <2>1. CASE CompleteOcsp(l, "Unknown") \/ CompleteOcsp(l, "Invalid")
             \/ CompleteOcsp(l, OcspCheckErrorToStatus("integrity"))
    BY <1>2, <2>1, StatusesTyped, CompleteOcspSafe
       DEF OcspReplied, Justified, OcspCheckErrorToStatus
  <2>2. CASE /\ ocspReply[l].error = "none" /\ ~ocspReply[l].delegated
             /\ CompleteOcsp(l, ocspReply[l].status)
    BY <1>2, <2>2, StatusesTyped, CompleteOcspSafe DEF OcspReplied, Justified
  <2>3. CASE /\ ocspReply[l].error = "none" /\ ocspReply[l].delegated
             /\ budget[l] # 0 /\ CheckDelegatedResponderRevocation(l)
    BY <1>2, <2>3, CheckDelegatedSafe DEF OcspReplied
  <2> QED BY <1>2, <2>1, <2>2, <2>3 DEF OcspReplied
<1>3. CASE ResponderChecked(l)
  <2>1. /\ phase[l] = "ocsp" /\ l + 1 \in Level /\ phase[l + 1] = "done"
        /\ result[l + 1] # Pending /\ ocspReply[l].error = "none"
    BY <1>3 DEF ResponderChecked, Safe, Nesting, Bookkeeping
  <2>2. CASE CompleteOcsp(l, "Invalid")
    BY <2>1, <2>2, StatusesTyped, CompleteOcspSafe DEF Justified
  <2>3. CASE /\ result[l + 1] \notin {"Revoked", "Invalid"}
             /\ CompleteOcsp(l, ocspReply[l].status)
    <3>1. Justified(l, ocspReply[l].status)
      BY <2>1, <2>3 DEF Justified
    <3> QED BY <2>1, <2>3, <3>1, StatusesTyped, CompleteOcspSafe
  <2> QED BY <1>3, <2>2, <2>3 DEF ResponderChecked
<1>4. CASE OcspPending(l)
  <2>1. /\ phase[l] = "ocsp" /\ ocsp[l] # "complete"
        /\ phase'[l] = "ocsp_timer"
        /\ \A k \in Level : k # l => phase'[k] = phase[k]
    BY <1>4 DEF OcspPending, Goto, TypeOK
  <2> QED BY <1>4, <2>1, MoveSafe DEF OcspPending, Goto, Safe, Bookkeeping
<1>5. CASE OcspTimer(l)
  <2>1. CASE CompleteOcsp(l, "Unknown")
    BY <1>5, <2>1, StatusesTyped, CompleteOcspSafe DEF OcspTimer, Justified
  <2>2. CASE Goto(l, "crl") \/ Goto(l, "deadline")
    <3>1. /\ phase[l] = "ocsp_timer" /\ phase'[l] \in {"crl", "deadline"}
          /\ \A k \in Level : k # l => phase'[k] = phase[k]
      BY <1>5, <2>2 DEF OcspTimer, Goto, TypeOK
    <3> QED BY <2>2, <3>1, MoveSafe DEF Goto, Safe, Bookkeeping
  <2> QED BY <1>5, <2>1, <2>2 DEF OcspTimer
<1>6. CASE RunCrlCheck(l)
  <2>1. CASE CompleteCrl(l, "Unknown")
    BY <1>6, <2>1, StatusesTyped, CompleteCrlSafe DEF RunCrlCheck
  <2>2. CASE /\ crl' = [crl EXCEPT ![l] = "fetching"]
             /\ UNCHANGED <<given, net, phase, ocsp, ocspStatus, crlStatus, result>>
    <3>1. /\ crl'[l] = "fetching" /\ crl[l] = "unstarted"
          /\ \A k \in Level : k # l => crl'[k] = crl[k]
      BY <1>6, <2>2 DEF RunCrlCheck, TypeOK
    <3>2. Bookkeeping'
      BY <2>2, <3>1 DEF Safe, Bookkeeping
    <3>3. Nesting' /\ Evidence' /\ ResponderConfirmedFirst'
      BY <2>2 DEF Safe, Nesting, Evidence, ResponderConfirmedFirst
    <3> QED BY <3>2, <3>3 DEF Safe
  <2> QED BY <1>6, <2>1, <2>2 DEF RunCrlCheck
<1>7. CASE CrlReplied(l)
  <2>1. CrlVerdict(crlReply[l]) \in {"Valid", "Revoked"} =>
            crlReply[l] = CrlVerdict(crlReply[l])
    BY DEF CrlVerdict
  <2> QED BY <1>7, <2>1, StatusesTyped, CompleteCrlSafe DEF CrlReplied
<1>8. CASE CrlPending(l)
  <2>1. /\ phase[l] = "crl" /\ crl[l] # "complete"
        /\ phase'[l] = "crl_timer"
        /\ \A k \in Level : k # l => phase'[k] = phase[k]
    BY <1>8 DEF CrlPending, Goto, TypeOK
  <2> QED BY <1>8, <2>1, MoveSafe DEF CrlPending, Goto, Safe, Bookkeeping
<1>9. CASE CrlTimer(l)
  <2>1. CASE CompleteCrl(l, "Unknown")
    BY <1>9, <2>1, StatusesTyped, CompleteCrlSafe DEF CrlTimer
  <2>2. CASE Goto(l, "deadline")
    <3>1. /\ phase[l] = "crl_timer" /\ phase'[l] = "deadline"
          /\ \A k \in Level : k # l => phase'[k] = phase[k]
      BY <1>9, <2>2 DEF CrlTimer, Goto, TypeOK
    <3> QED BY <2>2, <3>1, MoveSafe DEF Goto, Safe, Bookkeeping
  <2> QED BY <1>9, <2>1, <2>2 DEF CrlTimer
<1>10. CASE Deadline(l)
  <2>1. CASE /\ Decide(l, ocspStatus[l], crlStatus[l])
             /\ UNCHANGED <<given, net, timers, ocsp, crl, ocspStatus, crlStatus>>
    BY <1>10, <2>1, DeadlineSafe DEF Deadline
  <2>2. CASE Goto(l, "suspended")
    <3>1. /\ phase[l] = "deadline" /\ phase'[l] = "suspended"
          /\ \A k \in Level : k # l => phase'[k] = phase[k]
      BY <1>10, <2>2 DEF Deadline, Goto, TypeOK
    <3> QED BY <2>2, <3>1, MoveSafe DEF Goto, Safe, Bookkeeping
  <2> QED BY <1>10, <2>1, <2>2 DEF Deadline
<1> QED BY <1>1, <1>2, <1>3, <1>4, <1>5, <1>6, <1>7, <1>8, <1>9, <1>10 DEF Step

\* Every step of the specification preserves the invariant.
LEMMA NextSafe == TypeOK /\ Safe /\ [Next]_vars => Safe'
<1> SUFFICES ASSUME TypeOK, Safe, [Next]_vars PROVE Safe'
  OBVIOUS
<1> USE DEF given, net, timers
<1>1. CASE UNCHANGED vars \/ Tick
  BY <1>1, MoveSafe DEF vars, Tick, Safe, Bookkeeping
<1>2. CASE Poll
  <2>1. phase' = PolledFrom(0)
    BY <1>2 DEF Poll
  <2>2. \A k \in Level :
            /\ phase[k] = "idle" <=> phase'[k] = "idle"
            /\ phase[k] = "done" <=> phase'[k] = "done"
            /\ phase'[k] # "ocsp_timer" /\ phase'[k] # "crl_timer"
    BY <2>1, MaxDepthAssumption DEF PolledFrom, Level
  <2> QED BY <1>2, <2>2, MoveSafe DEF Poll
<1>3. ASSUME NEW l \in Level, OcspArrives(l) PROVE Safe'
  <2>1. /\ ocspReply[l].error = Pending /\ ocsp[l] = "fetching"
        /\ \A k \in Level : k # l => ocspReply'[k] = ocspReply[k]
    BY <1>3 DEF OcspArrives, TypeOK
  <2>2. ocspStatus[l] = Pending
    BY <2>1 DEF Safe, Bookkeeping
  <2>3. UNCHANGED <<config, budget, phase, ocsp, crl, crlReply, ocspStatus,
                    crlStatus, result>>
    BY <1>3 DEF OcspArrives
  <2>4. Bookkeeping'
    BY <2>3 DEF Safe, Bookkeeping
  <2>5. Nesting'
    BY <2>1, <2>3 DEF Safe, Nesting
  <2>6. Evidence'
    BY <2>1, <2>2, <2>3 DEF Safe, Evidence, Pending
  <2>7. ResponderConfirmedFirst'
    BY <2>1, <2>2, <2>3 DEF Safe, ResponderConfirmedFirst, Pending
  <2> QED BY <2>4, <2>5, <2>6, <2>7 DEF Safe
<1>4. ASSUME NEW l \in Level, CrlArrives(l) PROVE Safe'
  <2>1. /\ crlReply[l] = Pending /\ crl[l] = "fetching"
        /\ \A k \in Level : k # l => crlReply'[k] = crlReply[k]
    BY <1>4 DEF CrlArrives, TypeOK
  <2>2. crlStatus[l] = Pending
    BY <2>1 DEF Safe, Bookkeeping
  <2>3. UNCHANGED <<config, budget, phase, ocsp, crl, ocspReply, ocspStatus,
                    crlStatus, result>>
    BY <1>4 DEF CrlArrives
  <2>4. Bookkeeping' /\ Nesting' /\ ResponderConfirmedFirst'
    BY <2>3 DEF Safe, Bookkeeping, Nesting, ResponderConfirmedFirst
  <2>5. Evidence'
    BY <2>1, <2>2, <2>3 DEF Safe, Evidence, Pending
  <2> QED BY <2>4, <2>5 DEF Safe
<1> QED BY <1>1, <1>2, <1>3, <1>4, StepSafe DEF Next, Executor, Returned

-----------------------------------------------------------------------------
(* What one step does to the statuses and the result of a level.           *)

\* Level m stutters, or one source reports to it, or it decides, with or
\* without a last report.
Progress(m) ==
    /\ config' = config
    /\ \/ UNCHANGED <<ocspStatus[m], crlStatus[m], result[m]>>
       \/ /\ result[m] = Pending
          /\ \/ /\ ocspStatus[m] = Pending /\ ocspStatus'[m] \in Statuses
                /\ crlStatus'[m] = crlStatus[m]
             \/ /\ crlStatus[m] = Pending /\ crlStatus'[m] \in Statuses
                /\ ocspStatus'[m] = ocspStatus[m]
             \/ UNCHANGED <<ocspStatus[m], crlStatus[m]>>
          /\ \/ result'[m] = Pending
             \/ result'[m] = Outcome(ocspStatus'[m], crlStatus'[m])

\* A step touches one level's result and statuses, and a reply once there
\* stays.
Settled ==
    /\ \A m \in Level : Progress(m)
    /\ \E l \in Level : \A m \in Level : m # l => result'[m] = result[m]
    /\ \A m \in Level : /\ ocspReply[m].error = "none" => ocspReply'[m] = ocspReply[m]
                        /\ crlReply[m] # Pending => crlReply'[m] = crlReply[m]

\* A first report of run_ocsp_check is progress.
LEMMA CompleteOcspSettled ==
    ASSUME TypeOK, NEW l \in Level, NEW s \in Statuses, CompleteOcsp(l, s),
           ocspStatus[l] = Pending, result[l] = Pending
    PROVE  Settled
<1>1. UNCHANGED <<config, ocspReply, crlReply, crlStatus>>
  BY DEF CompleteOcsp, given, net
<1>2. /\ ocspStatus'[l] = s
      /\ \A m \in Level : m # l => /\ ocspStatus'[m] = ocspStatus[m]
                                   /\ result'[m] = result[m]
  BY CompleteOcspEffect
<1>3. result'[l] = Pending \/ result'[l] = Outcome(ocspStatus'[l], crlStatus'[l])
  BY <1>1, <1>2 DEF CompleteOcsp, Decide, TypeOK
<1> QED BY <1>1, <1>2, <1>3 DEF Settled, Progress

\* A first report of run_crl_check is progress.
LEMMA CompleteCrlSettled ==
    ASSUME TypeOK, NEW l \in Level, NEW s \in Statuses, CompleteCrl(l, s),
           phase[l] \in {"crl", "crl_timer"},
           crlStatus[l] = Pending, result[l] = Pending
    PROVE  Settled
<1>1. UNCHANGED <<config, ocspReply, crlReply, ocspStatus>>
  BY DEF CompleteCrl, given, net
<1>2. /\ crlStatus'[l] = s
      /\ \A m \in Level : m # l => /\ crlStatus'[m] = crlStatus[m]
                                   /\ result'[m] = result[m]
  BY CompleteCrlEffect
<1>3. result'[l] = Pending \/ result'[l] = Outcome(ocspStatus'[l], crlStatus'[l])
  BY <1>1, <1>2 DEF CompleteCrl, Decide, TypeOK
<1> QED BY <1>1, <1>2, <1>3 DEF Settled, Progress

\* Every step is progress, at one level, or a stutter.
LEMMA NextSettled == TypeOK /\ Safe /\ [Next]_vars => Settled
<1> SUFFICES ASSUME TypeOK, Safe, [Next]_vars PROVE Settled
  OBVIOUS
<1> USE DEF given, net, timers
<1>0. 0 \in Level
  BY MaxDepthAssumption DEF Level
<1>1. ASSUME UNCHANGED <<config, ocspReply, crlReply, ocspStatus, crlStatus, result>>
      PROVE  Settled
  BY <1>0, <1>1 DEF Settled, Progress
<1>2. ASSUME NEW l \in Level, Step(l) PROVE Settled
  <2>1. ASSUME NEW s \in Statuses, CompleteOcsp(l, s),
               phase[l] # "done", ocsp[l] # "complete"
        PROVE  Settled
    BY <2>1, CompleteOcspSettled DEF Safe, Bookkeeping
  <2>2. ASSUME NEW s \in Statuses, CompleteCrl(l, s),
               phase[l] \in {"crl", "crl_timer"}, crl[l] # "complete"
        PROVE  Settled
    BY <2>2, CompleteCrlSettled DEF Safe, Bookkeeping
  <2>3. ASSUME NEW p, Goto(l, p) PROVE Settled
    BY <1>1, <2>3 DEF Goto
  <2>4. CASE RunOcspCheck(l)
    <3>1. CASE \E s \in {"Invalid", "Unknown"} : CompleteOcsp(l, s)
      BY <2>1, <2>4, <3>1, StatusesTyped DEF RunOcspCheck
    <3> QED BY <1>1, <2>4, <3>1 DEF RunOcspCheck
  <2>5. CASE OcspReplied(l)
    <3>1. CASE CheckDelegatedResponderRevocation(l)
      BY <1>1, <3>1 DEF CheckDelegatedResponderRevocation
    <3>2. CASE \E s \in Statuses : CompleteOcsp(l, s)
      BY <2>1, <2>5, <3>2 DEF OcspReplied
    <3> QED BY <2>5, <3>1, <3>2, StatusesTyped DEF OcspReplied
  <2>6. CASE ResponderChecked(l)
    <3>1. PICK s \in Statuses : CompleteOcsp(l, s)
      BY <2>6, StatusesTyped DEF ResponderChecked
    <3> QED BY <2>1, <2>6, <3>1 DEF ResponderChecked
  <2>7. CASE OcspTimer(l)
    <3>1. phase[l] # "done" /\ ocsp[l] # "complete"
      BY <2>7 DEF OcspTimer, Safe, Bookkeeping
    <3> QED BY <2>1, <2>3, <2>7, <3>1, StatusesTyped DEF OcspTimer
  <2>8. CASE RunCrlCheck(l)
    BY <1>1, <2>2, <2>8, StatusesTyped DEF RunCrlCheck
  <2>9. CASE CrlReplied(l)
    BY <2>2, <2>9, StatusesTyped DEF CrlReplied
  <2>10. CASE CrlTimer(l)
    <3>1. phase[l] = "crl_timer" /\ crl[l] # "complete"
      BY <2>10 DEF CrlTimer, Safe, Bookkeeping
    <3> QED BY <2>2, <2>3, <2>10, <3>1, StatusesTyped DEF CrlTimer
  <2>11. CASE Deadline(l)
    <3>1. CASE /\ Decide(l, ocspStatus[l], crlStatus[l])
               /\ UNCHANGED <<given, net, timers, ocsp, crl, ocspStatus, crlStatus>>
      <4>1. result[l] = Pending
        BY <2>11 DEF Deadline, Safe, Bookkeeping
      <4>2. /\ result'[l] = Outcome(ocspStatus'[l], crlStatus'[l])
            /\ \A m \in Level : m # l => result'[m] = result[m]
        BY <3>1 DEF Decide, TypeOK
      <4> QED BY <3>1, <4>1, <4>2 DEF Settled, Progress
    <3> QED BY <2>3, <2>11, <3>1 DEF Deadline
  <2>12. CASE OcspPending(l) \/ CrlPending(l)
    BY <2>3, <2>12 DEF OcspPending, CrlPending
  <2> QED BY <1>2, <2>4, <2>5, <2>6, <2>7, <2>8, <2>9, <2>10, <2>11, <2>12
          DEF Step
<1>3. CASE UNCHANGED vars \/ Tick \/ Poll \/ Returned
  BY <1>1, <1>3 DEF vars, Tick, Poll, Returned
<1>4. ASSUME NEW l \in Level, OcspArrives(l) PROVE Settled
  <2>1. /\ ocspReply[l].error = Pending
        /\ \A k \in Level : k # l => ocspReply'[k] = ocspReply[k]
    BY <1>4 DEF OcspArrives, TypeOK
  <2> QED BY <1>4, <2>1 DEF OcspArrives, Settled, Progress, Pending
<1>5. ASSUME NEW l \in Level, CrlArrives(l) PROVE Settled
  <2>1. /\ crlReply[l] = Pending
        /\ \A k \in Level : k # l => crlReply'[k] = crlReply[k]
    BY <1>5 DEF CrlArrives, TypeOK
  <2> QED BY <1>5, <2>1 DEF CrlArrives, Settled, Progress
<1> QED BY <1>2, <1>3, <1>4, <1>5 DEF Next, Executor

-----------------------------------------------------------------------------
(* The theorems.                                                           *)

\* Evidence that supports a level keeps supporting it.
LEMMA EvidenceIsStable ==
    ASSUME Settled, NEW k \in Level, NEW s \in {"Valid", "Revoked"}
    PROVE  /\ Direct(k, s) => Direct(k, s)'
           /\ Delegated(k, s) => Delegated(k, s)'
<1>1. Progress(k)
  BY DEF Settled
<1>2. ocspStatus[k] = s => ocspStatus'[k] = s
  BY <1>1 DEF Progress, Pending
<1>3. crlStatus[k] = s => crlStatus'[k] = s
  BY <1>1 DEF Progress, Pending
<1>4. crlReply[k] = s => crlReply'[k] = s
  BY DEF Settled, Pending
<1>5. ocspReply[k].error = "none" => ocspReply'[k] = ocspReply[k]
  BY DEF Settled
<1> QED BY <1>2, <1>3, <1>4, <1>5 DEF Direct, Delegated

\* A grounded level stays grounded.
LEMMA GroundedIsStable ==
    ASSUME Settled, NEW l \in Level, NEW s \in {"Valid", "Revoked"}, Grounded(l, s)
    PROVE  Grounded(l, s)'
<1>1. \A k \in Level : \A t \in {"Valid", "Revoked"} :
          /\ Direct(k, t) => Direct(k, t)'
          /\ Delegated(k, t) => Delegated(k, t)'
  BY EvidenceIsStable
<1> QED BY <1>1 DEF Grounded

\* The grounding is preserved: a level is decided on the ground of the level
\* below, which was decided, and grounded, in an earlier step.
LEMMA NextGrounded ==
    ASSUME TypeOK, Safe, Safe', StrictAnswerIsGrounded, Settled,
           TypeOK'
    PROVE  StrictAnswerIsGrounded'
<1> SUFFICES ASSUME config.require_revocation_check, NEW l \in Level,
                    NEW s \in {"Valid", "Revoked"}, result'[l] = s
             PROVE  Grounded(l, s)'
  BY DEF StrictAnswerIsGrounded, Settled, Progress
<1>0. config' = config /\ Level \subseteq Int
  <2>1. Level \subseteq Int
    BY DEF Level
  <2>2. Progress(l)
    BY DEF Settled
  <2> QED BY <2>1, <2>2 DEF Progress
<1>1. CASE result[l] = s
  BY <1>1, GroundedIsStable DEF StrictAnswerIsGrounded
<1>2. CASE result[l] # s
  <2>1. \A m \in Level : m # l => result'[m] = result[m]
    BY <1>2 DEF Settled
  <2>2. crlStatus'[l] = s \/ ocspStatus'[l] = s
    BY DEF Safe, Evidence
  <2>3. CASE crlStatus'[l] = s
    BY <2>3 DEF Safe, Evidence, Grounded, Direct
  <2>4. CASE ocspStatus'[l] = s
    <3>1. ocspReply'[l].error = "none" /\ ocspReply'[l].status = s
      BY <2>4 DEF Safe, Evidence
    <3>2. CASE ~ocspReply'[l].delegated
      BY <2>4, <3>1, <3>2 DEF Grounded, Direct
    <3>3. CASE ocspReply'[l].delegated
      <4>1. Delegated(l, s)'
        BY <2>4, <3>1, <3>3 DEF Delegated
      <4>2. /\ l + 1 \in Level
            /\ result'[l + 1] \notin {"Revoked", "Invalid", Pending, "Unknown"}
        BY <1>0, <2>4, <3>3 DEF Safe, ResponderConfirmedFirst, Evidence
      <4>3. result[l + 1] = "Valid"
        BY <1>0, <2>1, <4>2 DEF TypeOK, Statuses
      <4>4. Grounded(l + 1, "Valid")'
        BY <4>2, <4>3, GroundedIsStable DEF StrictAnswerIsGrounded
      <4>5. CASE Direct(l + 1, "Valid")'
        BY <1>0, <4>1, <4>2, <4>5 DEF Grounded
      <4>6. CASE ~Direct(l + 1, "Valid")'
        <5>1. Delegated(l + 1, "Valid")'
          BY <4>4, <4>6 DEF Grounded
        <5>2. PICK k \in Level :
                /\ k > l + 1 /\ Direct(k, "Valid")'
                /\ \A j \in Level : l + 1 < j /\ j < k => Delegated(j, "Valid")'
          BY <4>4, <4>6 DEF Grounded
        <5>3. \A j \in Level : l < j /\ j < k => Delegated(j, "Valid")'
          BY <1>0, <5>1, <5>2
        <5> QED BY <1>0, <4>1, <5>2, <5>3 DEF Grounded
      <4> QED BY <4>5, <4>6
    <3> QED BY <3>2, <3>3
  <2> QED BY <2>2, <2>3, <2>4
<1> QED BY <1>1, <1>2

\* Nothing is decided at first.
LEMMA InitGrounded == Init => StrictAnswerIsGrounded
BY DEF Init, StrictAnswerIsGrounded, Pending

\* IInv is an inductive invariant of the orchestrator.
THEOREM Invariance == Spec => []IInv
<1>1. Init => IInv
  BY InitTyped, InitSafe, InitGrounded DEF IInv, Safe
<1>2. IInv /\ [Next]_vars => IInv'
  <2> SUFFICES ASSUME IInv, [Next]_vars PROVE IInv'
    OBVIOUS
  <2>1. TypeOK /\ Safe /\ StrictAnswerIsGrounded
    BY DEF IInv, Safe
  <2>2. TypeOK' /\ Safe' /\ Settled
    BY <2>1, NextTyped, NextSafe, NextSettled
  <2>3. StrictAnswerIsGrounded'
    BY <2>1, <2>2, NextGrounded
  <2> QED BY <2>2, <2>3 DEF IInv, Safe
<1> QED BY <1>1, <1>2, PTL DEF Spec

\* Under the strict policy Valid and Revoked rest on verified evidence, at
\* every level of nesting and for every depth of delegation.
THEOREM Grounding == Spec => []StrictAnswerIsGrounded
<1>1. IInv => StrictAnswerIsGrounded
  BY DEF IInv
<1> QED BY <1>1, Invariance, PTL

\* A delegated response counts only after its responder was confirmed.
THEOREM Confirmation == Spec => []ResponderConfirmedFirst
<1>1. IInv => ResponderConfirmedFirst
  BY DEF IInv
<1> QED BY <1>1, Invariance, PTL

\* No chain of delegated responders is longer than max_ocsp_recursion.
THEOREM BoundedRecursion == Spec => []RecursionIsBounded
<1>1. IInv => RecursionIsBounded
  <2> SUFFICES ASSUME IInv, NEW l \in Level, phase[l] # "idle"
               PROVE  l <= config.max_ocsp_recursion
    BY DEF RecursionIsBounded
  <2>1. budget[l] \in Nat /\ config.max_ocsp_recursion \in Nat /\ l \in Nat
    BY ConstantsTyped DEF IInv, TypeOK
  <2>2. budget[l] + l = config.max_ocsp_recursion
    BY DEF IInv, Nesting
  <2> QED BY <2>1, <2>2
<1> QED BY <1>1, Invariance, PTL

-----------------------------------------------------------------------------
(* The orchestrator implements the contract.                               *)

\* Level l as an instance of the contract.
LevelContract(l) == INSTANCE RevocationContract WITH
    policy <- config, ocspReport <- ocspStatus[l], crlReport <- crlStatus[l],
    answer <- result[l]

\* What a level computes from its two statuses is what the contract owes.
LEMMA OutcomeIsOwed ==
    ASSUME NEW l \in Level,
           NEW o \in Statuses \cup {Pending}, NEW c \in Statuses \cup {Pending}
    PROVE  LevelContract(l)!Owed(Outcome(o, c), o, c)
BY DEF LevelContract!Owed, LevelContract!Rank, LevelContract!Missing, LevelContract!Priority,
       Outcome, OrUnknown, EnforceRevocationPolicy, MergePreferred,
       ResolvePriority, Priority, Statuses, Pending

\* The initial states are initial states of the contract, at every level.
LEMMA LevelInit ==
    ASSUME NEW l \in Level, Init
    PROVE  LevelContract(l)!ContractInit
BY DEF Init, LevelContract!ContractInit, LevelContract!Missing, Pending

\* Every step is a step of the contract or a stutter, at every level.
LEMMA LevelStep ==
    ASSUME NEW l \in Level, IInv, IInv', [Next]_vars
    PROVE  [LevelContract(l)!ContractNext]_(LevelContract(l)!contractVars)
<1>1. Progress(l)
  BY NextSettled DEF IInv, Safe, Settled
<1>2. /\ ocspStatus'[l] \in Statuses \cup {Pending}
      /\ crlStatus'[l] \in Statuses \cup {Pending}
  BY DEF IInv, TypeOK
<1> DEFINE owed == Outcome(ocspStatus'[l], crlStatus'[l])
<1>3. owed \in Statuses /\ LevelContract(l)!Owed(owed, ocspStatus'[l], crlStatus'[l])
  BY <1>2, OutcomeFacts, OutcomeIsOwed
<1> HIDE DEF owed
<1>4. \/ UNCHANGED <<config, ocspStatus[l], crlStatus[l], result[l]>>
      \/ /\ result[l] = Pending /\ config' = config
         /\ \/ /\ ocspStatus[l] = Pending /\ ocspStatus'[l] \in Statuses
               /\ crlStatus'[l] = crlStatus[l]
            \/ /\ crlStatus[l] = Pending /\ crlStatus'[l] \in Statuses
               /\ ocspStatus'[l] = ocspStatus[l]
            \/ UNCHANGED <<ocspStatus[l], crlStatus[l]>>
         /\ result'[l] = Pending \/ result'[l] = owed
  BY <1>1 DEF Progress, owed
<1> QED BY <1>3, <1>4 DEF LevelContract!ContractNext, LevelContract!contractVars,
          LevelContract!Collect, LevelContract!Return, LevelContract!ReportOcsp,
          LevelContract!ReportCrl, LevelContract!NoReport, LevelContract!Missing,
          LevelContract!Statuses, Statuses, Pending

\* The check of a certificate, and of every delegated responder on the way,
\* refines RevocationContract: the statuses of its level are the reports,
\* the result of its level is the answer.
THEOREM LevelRefinement == \A l \in Level : Spec => LevelContract(l)!ContractSpec
<1> SUFFICES ASSUME NEW l \in Level
             PROVE  Spec => LevelContract(l)!ContractSpec
  OBVIOUS
<1>1. Init => LevelContract(l)!ContractInit
  BY LevelInit
<1>2. IInv /\ IInv' /\ [Next]_vars
          => [LevelContract(l)!ContractNext]_(LevelContract(l)!contractVars)
  BY LevelStep
<1> QED BY <1>1, <1>2, Invariance, PTL DEF Spec, LevelContract!ContractSpec

\* The check of the certificate itself implements the contract.
THEOREM ContractRefinement == Spec => ImplementsContract
<1>0. 0 \in Level
  BY MaxDepthAssumption DEF Level
<1>1. Init => Contract!ContractInit
  BY <1>0, LevelInit DEF LevelContract!ContractInit, LevelContract!Missing,
     Contract!ContractInit, Contract!Missing
<1>2. IInv /\ IInv' /\ [Next]_vars => [Contract!ContractNext]_(Contract!contractVars)
  <2> SUFFICES ASSUME IInv, IInv', [Next]_vars
               PROVE  [Contract!ContractNext]_(Contract!contractVars)
    OBVIOUS
  <2>1. [LevelContract(0)!ContractNext]_(LevelContract(0)!contractVars)
    BY <1>0, LevelStep
  <2> QED BY <2>1 DEF LevelContract!ContractNext, LevelContract!contractVars,
       LevelContract!Collect, LevelContract!Return, LevelContract!ReportOcsp,
       LevelContract!ReportCrl, LevelContract!NoReport, LevelContract!Missing,
       LevelContract!Statuses, LevelContract!Owed, LevelContract!Rank,
       LevelContract!Priority, Contract!Owed, Contract!Rank, Contract!Priority,
       Contract!ContractNext, Contract!contractVars, Contract!Collect,
       Contract!Return, Contract!ReportOcsp, Contract!ReportCrl,
       Contract!NoReport, Contract!Missing, Contract!Statuses
<1> QED BY <1>1, <1>2, Invariance, PTL
        DEF Spec, ImplementsContract, Contract!ContractSpec

\* So does the check of a delegated responder.
THEOREM NestedRefinement == Spec => NestedImplementsContract
<1>1. CASE 1 \in Level
  <2>1. Init => NestedContract!ContractInit
    BY <1>1, LevelInit DEF LevelContract!ContractInit, LevelContract!Missing,
       NestedContract!ContractInit, NestedContract!Missing
  <2>2. IInv /\ IInv' /\ [Next]_vars
          => [NestedContract!ContractNext]_(NestedContract!contractVars)
    <3> SUFFICES ASSUME IInv, IInv', [Next]_vars
                 PROVE  [NestedContract!ContractNext]_(NestedContract!contractVars)
      OBVIOUS
    <3>1. [LevelContract(1)!ContractNext]_(LevelContract(1)!contractVars)
      BY <1>1, LevelStep
    <3> QED BY <3>1 DEF LevelContract!ContractNext, LevelContract!contractVars,
         LevelContract!Collect, LevelContract!Return, LevelContract!ReportOcsp,
         LevelContract!ReportCrl, LevelContract!NoReport, LevelContract!Missing,
         LevelContract!Statuses, LevelContract!Owed, LevelContract!Rank,
         LevelContract!Priority, NestedContract!Owed, NestedContract!Rank,
         NestedContract!Priority, NestedContract!ContractNext,
         NestedContract!contractVars, NestedContract!Collect,
         NestedContract!Return, NestedContract!ReportOcsp,
         NestedContract!ReportCrl, NestedContract!NoReport,
         NestedContract!Missing, NestedContract!Statuses
  <2> QED BY <2>1, <2>2, Invariance, PTL
          DEF Spec, NestedImplementsContract, NestedContract!ContractSpec
<1>2. CASE 1 \notin Level
  \* Then there is no configuration to start with.
  <2>1. ~Init
    BY <1>2, MaxDepthAssumption, ConfigsAssumption DEF Init, Level, RevocationConfig
  <2> QED BY <2>1, PTL DEF Spec
<1> QED BY <1>1, <1>2

-----------------------------------------------------------------------------
(* Evidence that was there when a poll began.                              *)

\* A level that takes part no more, and one that waits for the next poll.
Over == {"idle", "done", "dropped"}
Resting == Over \cup {"suspended"}

\* The walk of a poll: a level is started by the one above it; what completes
\* leaves nothing running below; a level goes on to its timers and to its
\* other branches only when everything below it rests.
Walking ==
    \A l \in Level :
        /\ phase[l] = "idle" => ocsp[l] = "unstarted"
        /\ \A k \in Level : k > l =>
             /\ ocsp[l] \in {"unstarted", "fetching"} => phase[k] = "idle"
             /\ phase[l] \in {"done", "dropped"} \/ ocsp[l] = "complete" => phase[k] \in Over
             /\ phase[l] \notin Over \cup {"ocsp"} => phase[k] \in Resting

\* A reply that came while the task was suspended is read before the branch
\* of its source looks at a timer.
Waiting ==
    \A l \in Level :
        /\ <<l, "crl">> \in timely =>
             /\ crlReply[l] # Pending /\ crl[l] # "unstarted"
             /\ crl[l] = "fetching" =>
                    phase[l] \in {"ocsp", "ocsp_timer", "crl", "suspended", "dropped"}
             /\ crl[l] = "complete" => crlStatus[l] = CrlVerdict(crlReply[l])
        /\ <<l, "ocsp">> \in timely =>
             /\ ocspReply[l].error # Pending /\ ocsp[l] # "unstarted"
             /\ ocsp[l] = "fetching" => phase[l] \in {"ocsp", "suspended", "dropped"}
             /\ ocsp[l] = "complete" /\ ocspReply[l].error = "none" /\ ~ocspReply[l].delegated =>
                    ocspStatus[l] = ocspReply[l].status

\* A revocation that either source has reported decides.
RevocationDecides ==
    \A l \in Level :
        phase[l] = "done" /\ (crlStatus[l] = "Revoked" \/ ocspStatus[l] = "Revoked") =>
            result[l] = "Revoked"

\* What ends a level does to the phases: those below are dropped.
LEMMA EndingPhases ==
    ASSUME TypeOK, NEW l \in Level, NEW p, phase' = [DroppedBelow(l) EXCEPT ![l] = p]
    PROVE  /\ phase'[l] = p
           /\ \A k \in Level : k < l => phase'[k] = phase[k]
           /\ \A k \in Level : k > l =>
                phase'[k] = IF phase[k] \in {"idle", "done"} THEN phase[k] ELSE "dropped"
BY DEF DroppedBelow, Level

\* Polling a level again changes no phase above it and none that is over.
LEMMA PolledPhases ==
    ASSUME TypeOK, NEW l \in Level, phase' = PolledFrom(l)
    PROVE  /\ \A k \in Level : k < l \/ phase[k] \in Over => phase'[k] = phase[k]
           /\ \A k \in Level : k >= l /\ phase[k] \notin Over =>
                phase'[k] = IF ocspStatus[k] = Pending THEN "ocsp" ELSE "crl"
BY DEF PolledFrom, Level, Over

\* A level ends, or its OCSP future does.
LEMMA EndingWalks ==
    ASSUME TypeOK, Walking, NEW l \in Level, NEW p \in {"crl", "done"},
           phase[l] \notin Resting,
           phase' = [DroppedBelow(l) EXCEPT ![l] = p],
           \A k \in Level : k # l => ocsp'[k] = ocsp[k],
           p = "crl" => ocsp'[l] = "complete",
           ocsp'[l] \in {ocsp[l], "complete"}
    PROVE  Walking'
<1> SUFFICES ASSUME NEW m \in Level
             PROVE  /\ phase'[m] = "idle" => ocsp'[m] = "unstarted"
                    /\ \A k \in Level : k > m =>
                         /\ ocsp'[m] \in {"unstarted", "fetching"} => phase'[k] = "idle"
                         /\ phase'[m] \in {"done", "dropped"} \/ ocsp'[m] = "complete"
                                => phase'[k] \in Over
                         /\ phase'[m] \notin Over \cup {"ocsp"} => phase'[k] \in Resting
  BY DEF Walking
<1>0. Level \subseteq Int
  BY DEF Level
<1>1. /\ phase'[l] = p
      /\ \A k \in Level : k < l => phase'[k] = phase[k]
      /\ \A k \in Level : k > l =>
           phase'[k] = IF phase[k] \in {"idle", "done"} THEN phase[k] ELSE "dropped"
  BY EndingPhases
<1>2. CASE m < l
  <2>1. /\ phase[m] \notin {"done", "dropped"} /\ ocsp[m] # "complete"
        /\ phase[m] \in Over \cup {"ocsp"} /\ ocsp[m] \notin {"unstarted", "fetching"}
    BY <1>0, <1>2 DEF Walking, Over, Resting
  <2> QED BY <1>0, <1>1, <1>2, <2>1 DEF Walking, Over
<1>3. CASE m = l
  <2>1. \A k \in Level : k > l => phase'[k] \in Over
    BY <1>1 DEF Over
  <2>2. ocsp[l] \in {"unstarted", "fetching"} => \A k \in Level : k > l => phase'[k] = "idle"
    BY <1>1 DEF Walking
  <2> QED BY <1>1, <1>3, <2>1, <2>2 DEF Walking, Over, Resting
<1>4. CASE m > l
  <2>1. \A k \in Level : k > l => phase'[k] \in Over
    BY <1>1 DEF Over
  <2>2. \A k \in Level : k > m => k > l
    BY <1>0, <1>4
  <2>3. phase'[m] = "idle" => phase[m] = "idle"
    BY <1>1, <1>4
  <2>4. \A k \in Level : k > m /\ phase[k] = "idle" => phase'[k] = "idle"
    BY <1>1, <2>2
  <2> QED BY <1>4, <2>1, <2>2, <2>3, <2>4 DEF Walking, Over, Resting
<1> QED BY <1>0, <1>2, <1>3, <1>4

\* The levels from l on are polled again.
LEMMA PollingWalks ==
    ASSUME TypeOK, Safe, Walking, NEW l \in Level,
           phase[l] \notin Over \cup {"ocsp"}, ocspStatus[l] = Pending \/ l = 0,
           phase[l] = "suspended" => l = 0,
           phase' = PolledFrom(l), ocsp' = ocsp
    PROVE  Walking'
<1> SUFFICES ASSUME NEW m \in Level
             PROVE  /\ phase'[m] = "idle" => ocsp'[m] = "unstarted"
                    /\ \A k \in Level : k > m =>
                         /\ ocsp'[m] \in {"unstarted", "fetching"} => phase'[k] = "idle"
                         /\ phase'[m] \in {"done", "dropped"} \/ ocsp'[m] = "complete"
                                => phase'[k] \in Over
                         /\ phase'[m] \notin Over \cup {"ocsp"} => phase'[k] \in Resting
  BY DEF Walking
<1>0. Level \subseteq Nat
  BY DEF Level
<1>1. /\ \A k \in Level : k < l \/ phase[k] \in Over => phase'[k] = phase[k]
      /\ \A k \in Level : k >= l /\ phase[k] \notin Over =>
           phase'[k] = IF ocspStatus[k] = Pending THEN "ocsp" ELSE "crl"
  BY PolledPhases
<1>2. /\ phase'[m] = "idle" => phase[m] = "idle"
      /\ phase'[m] \in {"done", "dropped"} => phase[m] \in {"done", "dropped"}
      /\ \A k \in Level : phase[k] \in Over => phase'[k] = phase[k]
  BY <1>0, <1>1 DEF Over
<1>3. ASSUME NEW k \in Level, k > m, phase'[m] \notin Over \cup {"ocsp"}
      PROVE  phase'[k] \in Resting
  <2>1. CASE m < l
    <3>1. phase[l] \notin Resting
      BY <1>0, <2>1 DEF Over, Resting
    <3>2. phase'[m] = phase[m]
      BY <1>1, <2>1
    <3> QED BY <1>3, <2>1, <3>1, <3>2 DEF Walking
  <2>2. CASE ~(m < l)
    <3>1. phase[m] \notin Over /\ m >= l
      BY <1>0, <1>1, <1>3, <2>2
    <3>2. ocspStatus[m] # Pending
      BY <1>1, <1>3, <3>1
    <3>3. ocsp[m] = "complete"
      BY <3>2 DEF Safe, Bookkeeping
    <3> QED BY <1>2, <1>3, <3>3 DEF Walking, Resting
  <2> QED BY <2>1, <2>2
<1> QED BY <1>2, <1>3 DEF Walking, Over

\* The poll moves on within a level.
LEMMA GotoWalks ==
    ASSUME TypeOK, Safe, Walking, NEW l \in Level,
           NEW p \in {"ocsp_timer", "crl", "crl_timer", "deadline", "suspended"},
           phase[l] \notin Resting,
           phase[l] = "ocsp" => \A k \in Level : k > l => phase[k] \in Resting,
           Goto(l, p)
    PROVE  Walking'
<1>0. Level \subseteq Int
  BY DEF Level
<1>1. phase'[l] = p /\ ocsp' = ocsp /\ \A k \in Level : k # l => phase'[k] = phase[k]
  BY DEF Goto, TypeOK
<1> SUFFICES ASSUME NEW m \in Level
             PROVE  /\ phase'[m] = "idle" => ocsp'[m] = "unstarted"
                    /\ \A k \in Level : k > m =>
                         /\ ocsp'[m] \in {"unstarted", "fetching"} => phase'[k] = "idle"
                         /\ phase'[m] \in {"done", "dropped"} \/ ocsp'[m] = "complete"
                                => phase'[k] \in Over
                         /\ phase'[m] \notin Over \cup {"ocsp"} => phase'[k] \in Resting
  BY DEF Walking
<1>2. CASE m < l
  <2>1. /\ phase[m] \notin {"done", "dropped"} /\ ocsp[m] # "complete"
        /\ phase[m] \in Over \cup {"ocsp"} /\ ocsp[m] \notin {"unstarted", "fetching"}
    BY <1>0, <1>2 DEF Walking, Over, Resting
  <2> QED BY <1>0, <1>1, <1>2, <2>1 DEF Walking, Over
<1>3. CASE m = l
  BY <1>0, <1>1, <1>3 DEF Walking, Over, Resting
<1>4. CASE m > l
  BY <1>0, <1>1, <1>4 DEF Walking
<1> QED BY <1>0, <1>2, <1>3, <1>4

\* A level below is started.
LEMMA StartingWalks ==
    ASSUME TypeOK, Safe, Walking, NEW l \in Level, phase[l] = "ocsp", ocsp[l] = "fetching",
           CheckDelegatedResponderRevocation(l)
    PROVE  Walking'
<1>0. Level \subseteq Int /\ l + 1 \in Level
  BY DEF Level, CheckDelegatedResponderRevocation
<1>1. /\ ocsp'[l] = "responder" /\ \A k \in Level : k # l => ocsp'[k] = ocsp[k]
      /\ phase'[l + 1] = "ocsp" /\ \A k \in Level : k # l + 1 => phase'[k] = phase[k]
  BY <1>0 DEF CheckDelegatedResponderRevocation, TypeOK
<1> SUFFICES ASSUME NEW m \in Level
             PROVE  /\ phase'[m] = "idle" => ocsp'[m] = "unstarted"
                    /\ \A k \in Level : k > m =>
                         /\ ocsp'[m] \in {"unstarted", "fetching"} => phase'[k] = "idle"
                         /\ phase'[m] \in {"done", "dropped"} \/ ocsp'[m] = "complete"
                                => phase'[k] \in Over
                         /\ phase'[m] \notin Over \cup {"ocsp"} => phase'[k] \in Resting
  BY DEF Walking
<1>2. CASE m < l
  <2>1. /\ phase[m] \notin {"done", "dropped"} /\ ocsp[m] # "complete"
        /\ phase[m] \in Over \cup {"ocsp"} /\ ocsp[m] \notin {"unstarted", "fetching"}
    BY <1>0, <1>2 DEF Walking, Over, Resting
  <2> QED BY <1>0, <1>1, <1>2, <2>1 DEF Walking, Over
<1>3. CASE m = l
  BY <1>0, <1>1, <1>3 DEF Over
<1>4. CASE m > l
  <2>1. phase[m] = "idle" /\ ocsp[m] = "unstarted" /\ ocsp'[m] = "unstarted"
    BY <1>0, <1>1, <1>4 DEF Walking
  <2>2. \A k \in Level : k > m => phase'[k] = "idle"
    BY <1>0, <1>1, <1>4, <2>1 DEF Walking
  <2>3. phase'[m] \in {"idle", "ocsp"}
    BY <1>1, <2>1
  <2> QED BY <2>1, <2>2, <2>3 DEF Over
<1> QED BY <1>0, <1>2, <1>3, <1>4

\* A future below that is done or at rest lets the poll of its level go on.
LEMMA RestBelow ==
    ASSUME TypeOK, Walking, NEW l \in Level, OcspPending(l)
    PROVE  \A k \in Level : k > l => phase[k] \in Resting
<1>0. Level \subseteq Int
  BY DEF Level
<1>1. CASE ocsp[l] = "fetching"
  BY <1>1 DEF Walking, Resting, Over
<1>2. CASE ocsp[l] = "responder" /\ phase[l + 1] = "suspended"
  <2>1. \A k \in Level : k > l + 1 => l + 1 \in Level
    BY MaxDepthAssumption DEF Level
  <2>2. \A k \in Level : k > l + 1 => phase[k] \in Resting
    BY <1>2, <2>1 DEF Walking, Over
  <2>3. \A k \in Level : k > l => k = l + 1 \/ k > l + 1
    BY <1>0
  <2> QED BY <1>2, <2>2, <2>3 DEF Resting
<1> QED BY <1>1, <1>2 DEF OcspPending

\* Every step keeps the order of the walk.
LEMMA NextWalks == TypeOK /\ Safe /\ Walking /\ [Next]_vars => Walking'
<1> SUFFICES ASSUME TypeOK, Safe, Walking, [Next]_vars PROVE Walking'
  OBVIOUS
<1> USE DEF given, net, timers
<1>0. 0 \in Level
  BY MaxDepthAssumption DEF Level
<1>1. ASSUME UNCHANGED <<phase, ocsp>> PROVE Walking'
  BY <1>1 DEF Walking
<1>2. ASSUME NEW l \in Level, Step(l) PROVE Walking'
  <2>1. ASSUME NEW s, CompleteOcsp(l, s), phase[l] \in {"ocsp", "ocsp_timer"}
        PROVE  Walking'
    <3>1. /\ \A k \in Level : k # l => ocsp'[k] = ocsp[k]
          /\ ocsp'[l] = "complete"
      BY <2>1 DEF CompleteOcsp, TypeOK
    <3>2. \E p \in {"crl", "done"} : phase' = [DroppedBelow(l) EXCEPT ![l] = p]
      BY <2>1 DEF CompleteOcsp, Decide
    <3> QED BY <2>1, <3>1, <3>2, EndingWalks DEF Resting, Over
  <2>2. ASSUME NEW s, CompleteCrl(l, s), phase[l] \in {"crl", "crl_timer"}
        PROVE  Walking'
    <3>1. CASE ocspStatus[l] # Pending
      BY <2>2, <3>1, EndingWalks DEF CompleteCrl, Decide, Resting, Over
    <3>2. CASE ocspStatus[l] = Pending
      BY <2>2, <3>2, PollingWalks DEF CompleteCrl, Over
    <3> QED BY <3>1, <3>2
  <2>3. CASE RunOcspCheck(l)
    <3>1. CASE \E s \in {"Invalid", "Unknown"} : CompleteOcsp(l, s)
      BY <2>1, <2>3, <3>1 DEF RunOcspCheck
    <3>2. CASE ocsp' = [ocsp EXCEPT ![l] = "fetching"] /\ UNCHANGED phase
      <4>1. /\ phase[l] = "ocsp" /\ ocsp[l] = "unstarted" /\ ocsp'[l] = "fetching"
            /\ \A k \in Level : k # l => ocsp'[k] = ocsp[k]
        BY <2>3, <3>2 DEF RunOcspCheck, TypeOK
      <4> QED BY <3>2, <4>1 DEF Walking
    <3> QED BY <2>3, <3>1, <3>2 DEF RunOcspCheck
  <2>4. CASE OcspReplied(l)
    <3>1. phase[l] = "ocsp" /\ ocsp[l] = "fetching"
      BY <2>4 DEF OcspReplied
    <3>2. CASE CheckDelegatedResponderRevocation(l)
      BY <3>1, <3>2, StartingWalks
    <3>3. CASE \E s : CompleteOcsp(l, s)
      BY <2>1, <3>1, <3>3
    <3> QED BY <2>4, <3>2, <3>3 DEF OcspReplied
  <2>5. CASE ResponderChecked(l)
    BY <2>1, <2>5 DEF ResponderChecked
  <2>6. CASE OcspPending(l)
    BY <2>6, RestBelow, GotoWalks DEF OcspPending, Resting, Over
  <2>7. CASE OcspTimer(l)
    BY <2>1, <2>7, GotoWalks DEF OcspTimer, Resting, Over
  <2>8. CASE RunCrlCheck(l)
    BY <1>1, <2>2, <2>8 DEF RunCrlCheck
  <2>9. CASE CrlReplied(l)
    BY <2>2, <2>9 DEF CrlReplied
  <2>10. CASE CrlPending(l)
    BY <2>10, GotoWalks DEF CrlPending, Resting, Over
  <2>11. CASE CrlTimer(l)
    BY <2>2, <2>11, GotoWalks DEF CrlTimer, Resting, Over
  <2>12. CASE Deadline(l)
    <3>1. CASE Goto(l, "suspended")
      BY <2>12, <3>1, GotoWalks DEF Deadline, Resting, Over
    <3>2. CASE Decide(l, ocspStatus[l], crlStatus[l]) /\ ocsp' = ocsp
      BY <2>12, <3>2, EndingWalks DEF Deadline, Decide, Resting, Over
    <3> QED BY <2>12, <3>1, <3>2 DEF Deadline
  <2> QED BY <1>2, <2>3, <2>4, <2>5, <2>6, <2>7, <2>8, <2>9, <2>10, <2>11, <2>12
          DEF Step
<1>3. CASE Poll
  BY <1>0, <1>3, PollingWalks DEF Poll, Over
<1>4. CASE \/ UNCHANGED vars \/ Tick \/ Returned
           \/ \E l \in Level : OcspArrives(l) \/ CrlArrives(l)
  BY <1>1, <1>4 DEF vars, Tick, Returned, OcspArrives, CrlArrives
<1> QED BY <1>2, <1>3, <1>4 DEF Next, Executor

\* A reply is read before its source looks at a timer: run_ocsp_check returns.
LEMMA CompleteOcspWaits ==
    ASSUME TypeOK, Safe, Waiting, NEW l \in Level, NEW s \in Statuses,
           CompleteOcsp(l, s), phase[l] \in {"ocsp", "ocsp_timer"},
           /\ <<l, "ocsp">> \in timely /\ ocspReply[l].error = "none"
           /\ ~ocspReply[l].delegated
           => s = ocspReply[l].status
    PROVE  Waiting'
<1>1. UNCHANGED <<ocspReply, crlReply, timely, crl, crlStatus>>
  BY DEF CompleteOcsp, net
<1>2. /\ ocsp'[l] = "complete" /\ ocspStatus'[l] = s
      /\ \A k \in Level : k # l =>
             /\ ocsp'[k] = ocsp[k] /\ ocspStatus'[k] = ocspStatus[k]
             /\ phase'[k] = phase[k] \/ phase'[k] = "dropped"
      /\ phase'[l] \in {"done", "crl"}
  BY CompleteOcspEffect
<1>3. phase'[l] = "done" => crl[l] = "complete"
  <2>1. CASE crlStatus[l] = Pending
    <3>1. phase' = [DroppedBelow(l) EXCEPT ![l] = "crl"]
      BY <2>1 DEF CompleteOcsp
    <3> QED BY <3>1, EndingPhases
  <2>2. CASE crlStatus[l] # Pending
    BY <2>2 DEF Safe, Bookkeeping
  <2> QED BY <2>1, <2>2
<1> SUFFICES ASSUME NEW k \in Level
             PROVE  /\ <<k, "crl">> \in timely =>
                         /\ crlReply[k] # Pending /\ crl[k] # "unstarted"
                         /\ crl[k] = "fetching" =>
                              phase'[k] \in {"ocsp", "ocsp_timer", "crl", "suspended", "dropped"}
                         /\ crl[k] = "complete" => crlStatus[k] = CrlVerdict(crlReply[k])
                    /\ <<k, "ocsp">> \in timely =>
                         /\ ocspReply[k].error # Pending /\ ocsp'[k] # "unstarted"
                         /\ ocsp'[k] = "fetching" => phase'[k] \in {"ocsp", "suspended", "dropped"}
                         /\ ocsp'[k] = "complete" /\ ocspReply[k].error = "none"
                              /\ ~ocspReply[k].delegated => ocspStatus'[k] = ocspReply[k].status
  BY <1>1 DEF Waiting, CrlVerdict
<1>4. CASE k = l
  BY <1>2, <1>3, <1>4 DEF Waiting
<1>5. CASE k # l
  BY <1>2, <1>5 DEF Waiting
<1> QED BY <1>4, <1>5

\* run_crl_check returns.
LEMMA CompleteCrlWaits ==
    ASSUME TypeOK, Safe, Waiting, NEW l \in Level, NEW s \in Statuses,
           CompleteCrl(l, s), phase[l] \in {"crl", "crl_timer"},
           <<l, "crl">> \in timely => s = CrlVerdict(crlReply[l])
    PROVE  Waiting'
<1>1. UNCHANGED <<ocspReply, crlReply, timely, ocsp, ocspStatus>>
  BY DEF CompleteCrl, net
<1>2. /\ crl'[l] = "complete" /\ crlStatus'[l] = s
      /\ \A k \in Level : k # l => crl'[k] = crl[k] /\ crlStatus'[k] = crlStatus[k]
  BY CompleteCrlEffect
<1>3. ASSUME NEW k \in Level, k # l
      PROVE  \/ phase'[k] = phase[k] \/ phase'[k] = "dropped"
             \/ phase'[k] = IF ocspStatus[k] = Pending THEN "ocsp" ELSE "crl"
  <2>1. CASE ocspStatus[l] # Pending
    BY <1>3, <2>1 DEF CompleteCrl, Decide, DroppedBelow
  <2>2. CASE ocspStatus[l] = Pending
    BY <2>2 DEF CompleteCrl, PolledFrom
  <2> QED BY <2>1, <2>2
<1>4. ocsp[l] = "fetching" => <<l, "ocsp">> \notin timely
  BY DEF Waiting
<1> SUFFICES ASSUME NEW k \in Level
             PROVE  /\ <<k, "crl">> \in timely =>
                         /\ crlReply[k] # Pending /\ crl'[k] # "unstarted"
                         /\ crl'[k] = "fetching" =>
                              phase'[k] \in {"ocsp", "ocsp_timer", "crl", "suspended", "dropped"}
                         /\ crl'[k] = "complete" => crlStatus'[k] = CrlVerdict(crlReply[k])
                    /\ <<k, "ocsp">> \in timely =>
                         /\ ocspReply[k].error # Pending /\ ocsp[k] # "unstarted"
                         /\ ocsp[k] = "fetching" => phase'[k] \in {"ocsp", "suspended", "dropped"}
                         /\ ocsp[k] = "complete" /\ ocspReply[k].error = "none"
                              /\ ~ocspReply[k].delegated => ocspStatus[k] = ocspReply[k].status
  BY <1>1 DEF Waiting, CrlVerdict
<1>5. CASE k = l
  BY <1>2, <1>4, <1>5 DEF Waiting
<1>6. CASE k # l
  <2>1. ocsp[k] = "fetching" => ocspStatus[k] = Pending
    BY DEF Safe, Bookkeeping
  <2> QED BY <1>2, <1>3, <1>6, <2>1 DEF Waiting
<1> QED BY <1>5, <1>6
\* The branches a waiting CRL, and a waiting OCSP response, may still be
\* before.
BeforeCrl == {"ocsp", "ocsp_timer", "crl", "suspended", "dropped"}
BeforeOcsp == {"ocsp", "suspended", "dropped"}

\* Only the phases change, and where a reply waits they stay before its branch.
LEMMA PhasesWait ==
    ASSUME Waiting,
           UNCHANGED <<ocspReply, crlReply, timely, ocsp, crl, ocspStatus, crlStatus>>,
           \A k \in Level :
              /\ crl[k] = "fetching" /\ crlReply[k] # Pending /\ phase[k] \in BeforeCrl
                    => phase'[k] \in BeforeCrl
              /\ ocsp[k] = "fetching" /\ ocspReply[k].error # Pending /\ phase[k] \in BeforeOcsp
                    => phase'[k] \in BeforeOcsp
    PROVE  Waiting'
<1> SUFFICES ASSUME NEW k \in Level
             PROVE  /\ <<k, "crl">> \in timely /\ crl[k] = "fetching" =>
                         phase'[k] \in BeforeCrl
                    /\ <<k, "ocsp">> \in timely /\ ocsp[k] = "fetching" =>
                         phase'[k] \in BeforeOcsp
  BY DEF Waiting, CrlVerdict, BeforeCrl, BeforeOcsp
<1> QED BY DEF Waiting, BeforeCrl, BeforeOcsp

\* A poll moves to another branch of one level.
LEMMA GotoWaits ==
    ASSUME TypeOK, Waiting, NEW l \in Level, NEW p, Goto(l, p),
           crl[l] = "fetching" /\ crlReply[l] # Pending /\ phase[l] \in BeforeCrl
               => p \in BeforeCrl,
           ocsp[l] = "fetching" /\ ocspReply[l].error # Pending /\ phase[l] \in BeforeOcsp
               => p \in BeforeOcsp
    PROVE  Waiting'
<1>1. UNCHANGED <<ocspReply, crlReply, timely, ocsp, crl, ocspStatus, crlStatus>>
  BY DEF Goto, net
<1>2. phase'[l] = p /\ \A k \in Level : k # l => phase'[k] = phase[k]
  BY DEF Goto, TypeOK
<1> QED BY <1>1, <1>2, PhasesWait

\* Every step of the executor reads what waits before it gives up on it, and
\* what arrives meanwhile finds its level at rest.
LEMMA NextWaits == TypeOK /\ Safe /\ Walking /\ Waiting /\ [Next]_vars => Waiting'
<1> SUFFICES ASSUME TypeOK, Safe, Walking, Waiting, [Next]_vars PROVE Waiting'
  OBVIOUS
<1>0. 0 \in Level /\ Level \subseteq Nat
  BY MaxDepthAssumption DEF Level
<1>1. ASSUME UNCHANGED <<ocspReply, crlReply, timely, ocsp, crl, ocspStatus, crlStatus, phase>>
      PROVE  Waiting'
  BY <1>1, PhasesWait
<1>2. ASSUME NEW l \in Level, Step(l) PROVE Waiting'
  <2>1. CASE RunOcspCheck(l)
    <3>0. phase[l] = "ocsp" /\ ocsp[l] = "unstarted" /\ <<l, "ocsp">> \notin timely
      BY <2>1 DEF RunOcspCheck, Waiting
    <3>1. CASE \E s \in {"Invalid", "Unknown"} : CompleteOcsp(l, s)
      BY <3>0, <3>1, StatusesTyped, CompleteOcspWaits
    <3>2. CASE /\ ocsp' = [ocsp EXCEPT ![l] = "fetching"]
               /\ UNCHANGED <<net, phase, crl, ocspStatus, crlStatus>>
      <4>1. ocsp'[l] = "fetching" /\ \A k \in Level : k # l => ocsp'[k] = ocsp[k]
        BY <3>2 DEF TypeOK
      <4> QED BY <3>0, <3>2, <4>1 DEF Waiting, net, CrlVerdict
    <3> QED BY <2>1, <3>1, <3>2 DEF RunOcspCheck
  <2>2. CASE OcspReplied(l)
    <3>0. phase[l] = "ocsp" /\ ocsp[l] = "fetching"
      BY <2>2 DEF OcspReplied
    <3>1. CASE CheckDelegatedResponderRevocation(l)
      <4>1. /\ UNCHANGED <<ocspReply, crlReply, timely, crl, ocspStatus, crlStatus>>
            /\ ocsp'[l] = "responder" /\ \A k \in Level : k # l => ocsp'[k] = ocsp[k]
            /\ \A k \in Level : phase'[k] = phase[k] \/ phase'[k] = "ocsp"
        BY <3>1 DEF CheckDelegatedResponderRevocation, net, TypeOK
      <4> QED BY <3>0, <4>1 DEF Waiting, CrlVerdict
    <3>2. CASE \E s \in Statuses : /\ CompleteOcsp(l, s)
                                   /\ ocspReply[l].error = "none" /\ ~ocspReply[l].delegated
                                        => s = ocspReply[l].status
      BY <3>0, <3>2, CompleteOcspWaits
    <3> QED BY <2>2, <3>1, <3>2, StatusesTyped DEF OcspReplied
  <2>3. CASE ResponderChecked(l)
    <3>1. ocspReply[l].delegated
      BY <2>3 DEF ResponderChecked, Safe, Nesting
    <3>2. \E s \in Statuses : CompleteOcsp(l, s)
      BY <2>3, StatusesTyped DEF ResponderChecked
    <3> QED BY <2>3, <3>1, <3>2, CompleteOcspWaits DEF ResponderChecked
  <2>4. CASE OcspPending(l)
    BY <2>4, GotoWaits DEF OcspPending, BeforeCrl, BeforeOcsp
  <2>5. CASE OcspTimer(l)
    <3>0. /\ phase[l] = "ocsp_timer" /\ ocsp[l] # "complete"
          /\ <<l, "ocsp">> \in timely => ocsp[l] = "responder" /\ ocspReply[l].delegated
      BY <2>5 DEF OcspTimer, Waiting, Safe, Bookkeeping, Nesting, TypeOK
    <3>1. CASE CompleteOcsp(l, "Unknown")
      BY <3>0, <3>1, StatusesTyped, CompleteOcspWaits
    <3>2. CASE Goto(l, IF crlStatus[l] = Pending THEN "crl" ELSE "deadline")
      <4>1. crl[l] = "fetching" => crlStatus[l] = Pending
        BY DEF Safe, Bookkeeping
      <4> QED BY <3>0, <3>2, <4>1, GotoWaits DEF BeforeCrl, BeforeOcsp
    <3> QED BY <2>5, <3>1, <3>2 DEF OcspTimer
  <2>6. CASE RunCrlCheck(l)
    <3>0. phase[l] = "crl" /\ crl[l] = "unstarted" /\ <<l, "crl">> \notin timely
      BY <2>6 DEF RunCrlCheck, Waiting
    <3>1. CASE CompleteCrl(l, "Unknown")
      BY <3>0, <3>1, StatusesTyped, CompleteCrlWaits
    <3>2. CASE /\ crl' = [crl EXCEPT ![l] = "fetching"]
               /\ UNCHANGED <<net, phase, ocsp, ocspStatus, crlStatus>>
      <4>1. crl'[l] = "fetching" /\ \A k \in Level : k # l => crl'[k] = crl[k]
        BY <3>2 DEF TypeOK
      <4> QED BY <3>0, <3>2, <4>1 DEF Waiting, net, CrlVerdict
    <3> QED BY <2>6, <3>1, <3>2 DEF RunCrlCheck
  <2>7. CASE CrlReplied(l)
    BY <2>7, StatusesTyped, CompleteCrlWaits DEF CrlReplied
  <2>8. CASE CrlPending(l)
    BY <2>8, GotoWaits DEF CrlPending, BeforeCrl, BeforeOcsp
  <2>9. CASE CrlTimer(l)
    <3>0. phase[l] = "crl_timer" /\ crl[l] # "complete" /\ <<l, "crl">> \notin timely
      BY <2>9 DEF CrlTimer, Waiting, Safe, Bookkeeping, TypeOK
    <3> QED BY <2>9, <3>0, StatusesTyped, CompleteCrlWaits, GotoWaits
            DEF CrlTimer, BeforeCrl, BeforeOcsp
  <2>10. CASE Deadline(l)
    <3>1. CASE Goto(l, "suspended")
      BY <3>1, GotoWaits DEF BeforeCrl, BeforeOcsp
    <3>2. CASE /\ Decide(l, ocspStatus[l], crlStatus[l])
               /\ UNCHANGED <<given, net, timers, ocsp, crl, ocspStatus, crlStatus>>
      <4>1. /\ phase[l] = "deadline"
            /\ \A k \in Level : k # l => phase'[k] = phase[k] \/ phase'[k] = "dropped"
        BY <2>10, <3>2 DEF Deadline, Decide, DroppedBelow
      <4> QED BY <3>2, <4>1, PhasesWait DEF net, BeforeCrl, BeforeOcsp
    <3> QED BY <2>10, <3>1, <3>2 DEF Deadline
  <2> QED BY <1>2, <2>1, <2>2, <2>3, <2>4, <2>5, <2>6, <2>7, <2>8, <2>9, <2>10
          DEF Step
<1>3. CASE Poll
  <2>1. \A k \in Level : \/ phase'[k] = phase[k]
                         \/ phase'[k] = IF ocspStatus[k] = Pending THEN "ocsp" ELSE "crl"
    BY <1>3 DEF Poll, PolledFrom
  <2>2. \A k \in Level : ocsp[k] = "fetching" => ocspStatus[k] = Pending
    BY DEF Safe, Bookkeeping
  <2> QED BY <1>3, <2>1, <2>2, PhasesWait DEF Poll, net, BeforeCrl, BeforeOcsp
<1>4. ASSUME NEW l \in Level, OcspArrives(l) PROVE Waiting'
  <2>1. /\ ocspReply'[l].error # Pending
        /\ \A k \in Level : k # l => ocspReply'[k] = ocspReply[k]
    BY <1>4, RepliesAssumption DEF OcspArrives, TypeOK, OcspReply, Pending
  <2>2. phase[0] = "suspended" => phase[l] = "suspended"
    BY <1>0, <1>4 DEF OcspArrives, Live, Walking, Over, Resting
  <2>3. ocsp[l] = "fetching" /\ ocspReply[l].error = Pending /\ <<l, "ocsp">> \notin timely
    BY <1>4 DEF OcspArrives, Waiting
  <2>4. UNCHANGED <<phase, ocsp, crl, crlReply, ocspStatus, crlStatus>>
    BY <1>4 DEF OcspArrives
  <2>5. timely' = IF phase[0] = "suspended" THEN timely \cup {<<l, "ocsp">>} ELSE timely
    BY <1>4 DEF OcspArrives, Arrived
  <2> QED BY <2>1, <2>2, <2>3, <2>4, <2>5 DEF Waiting, CrlVerdict
<1>5. ASSUME NEW l \in Level, CrlArrives(l) PROVE Waiting'
  <2>1. /\ crlReply'[l] # Pending
        /\ \A k \in Level : k # l => crlReply'[k] = crlReply[k]
    BY <1>5, RepliesAssumption DEF CrlArrives, TypeOK, CrlReply, Pending
  <2>2. phase[0] = "suspended" => phase[l] = "suspended"
    BY <1>0, <1>5 DEF CrlArrives, Live, Walking, Over, Resting
  <2>3. crl[l] = "fetching" /\ crlReply[l] = Pending /\ <<l, "crl">> \notin timely
    BY <1>5 DEF CrlArrives, Waiting
  <2>4. UNCHANGED <<phase, ocsp, crl, ocspReply, ocspStatus, crlStatus>>
    BY <1>5 DEF CrlArrives
  <2>5. timely' = IF phase[0] = "suspended" THEN timely \cup {<<l, "crl">>} ELSE timely
    BY <1>5 DEF CrlArrives, Arrived
  <2> QED BY <2>1, <2>2, <2>3, <2>4, <2>5 DEF Waiting, CrlVerdict
<1>6. CASE UNCHANGED vars \/ Tick \/ Returned
  BY <1>1, <1>6 DEF vars, Tick, Returned, net
<1> QED BY <1>2, <1>3, <1>4, <1>5, <1>6 DEF Next, Executor

\* A revocation outranks every other status, under either policy.
LEMMA RevokedOutranks ==
    ASSUME NEW o \in Statuses \cup {Pending}, NEW c \in Statuses \cup {Pending},
           o = "Revoked" \/ c = "Revoked"
    PROVE  Outcome(o, c) = "Revoked"
BY DEF Outcome, OrUnknown, EnforceRevocationPolicy, MergePreferred,
       ResolvePriority, Priority, Statuses, Pending

\* What decided a level stays what it was.
LEMMA NextDecides ==
    ASSUME TypeOK', Safe, Safe', Settled, RevocationDecides
    PROVE  RevocationDecides'
<1> SUFFICES ASSUME NEW l \in Level, phase'[l] = "done",
                    crlStatus'[l] = "Revoked" \/ ocspStatus'[l] = "Revoked"
             PROVE  result'[l] = "Revoked"
  BY DEF RevocationDecides
<1>1. /\ ocspStatus'[l] \in Statuses \cup {Pending}
      /\ crlStatus'[l] \in Statuses \cup {Pending} /\ result'[l] # Pending
  BY DEF TypeOK, Safe, Bookkeeping
<1>2. Progress(l)
  BY DEF Settled
<1>3. CASE result'[l] = Outcome(ocspStatus'[l], crlStatus'[l])
  BY <1>1, <1>3, RevokedOutranks
<1>4. CASE UNCHANGED <<ocspStatus[l], crlStatus[l], result[l]>>
  <2>1. phase[l] = "done"
    BY <1>1, <1>4 DEF Safe, Bookkeeping
  <2> QED BY <1>4, <2>1 DEF RevocationDecides
<1> QED BY <1>1, <1>2, <1>3, <1>4 DEF Progress

\* No reply that was there when a poll began is lost to a timer, at any level,
\* and a revocation in it decides the check.
THEOREM EvidenceDecides == Spec => []TimelyEvidenceDecides
<1> DEFINE J == IInv /\ Walking /\ Waiting /\ RevocationDecides
<1>1. Init => J
  <2> SUFFICES ASSUME Init PROVE Walking /\ Waiting /\ RevocationDecides
    <3>1. Init => IInv
      BY InitTyped, InitSafe, InitGrounded DEF IInv, Safe
    <3> QED BY <3>1
  <2> QED BY DEF Init, Walking, Waiting, RevocationDecides, Over, Resting, Level
<1>2. J /\ [Next]_vars => J'
  <2> SUFFICES ASSUME IInv, Walking, Waiting, RevocationDecides, [Next]_vars
               PROVE  IInv' /\ Walking' /\ Waiting' /\ RevocationDecides'
    OBVIOUS
  <2>1. TypeOK /\ Safe /\ StrictAnswerIsGrounded
    BY DEF IInv, Safe
  <2>2. TypeOK' /\ Safe' /\ Settled
    BY <2>1, NextTyped, NextSafe, NextSettled
  <2>3. IInv'
    BY <2>1, <2>2, NextGrounded DEF IInv, Safe
  <2> QED BY <2>1, <2>2, <2>3, NextWalks, NextWaits, NextDecides
<1>3. J => TimelyEvidenceDecides
  <2> SUFFICES ASSUME IInv, Waiting, RevocationDecides, NEW l \in Level, phase[l] = "done"
               PROVE  /\ <<l, "crl">> \in timely =>
                           /\ crlStatus[l] = CrlVerdict(crlReply[l])
                           /\ crlReply[l] = "Revoked" => result[l] = "Revoked"
                      /\ <<l, "ocsp">> \in timely /\ ~ocspReply[l].delegated =>
                           /\ ocspReply[l].error = "none" =>
                                  ocspStatus[l] = ocspReply[l].status
                           /\ ocspReply[l].status = "Revoked" => result[l] = "Revoked"
    BY DEF TimelyEvidenceDecides
  <2>1. ASSUME <<l, "crl">> \in timely
        PROVE  /\ crlStatus[l] = CrlVerdict(crlReply[l])
               /\ crlReply[l] = "Revoked" => result[l] = "Revoked"
    <3>1. crlStatus[l] = CrlVerdict(crlReply[l])
      BY <2>1 DEF Waiting, IInv, TypeOK
    <3>2. crlReply[l] = "Revoked" => CrlVerdict(crlReply[l]) = "Revoked"
      BY DEF CrlVerdict
    <3> QED BY <3>1, <3>2 DEF RevocationDecides
  <2>2. ASSUME <<l, "ocsp">> \in timely, ~ocspReply[l].delegated
        PROVE  /\ ocspReply[l].error = "none" => ocspStatus[l] = ocspReply[l].status
               /\ ocspReply[l].status = "Revoked" => result[l] = "Revoked"
    <3>1. ocsp[l] = "complete"
      BY <2>2 DEF Waiting, IInv, TypeOK, Nesting
    <3>2. ocspReply[l].error = "none" => ocspStatus[l] = ocspReply[l].status
      BY <2>2, <3>1 DEF Waiting
    <3>3. ocspReply[l].status = "Revoked" => ocspReply[l].error = "none"
      <4>1. ocspReply[l] \in OcspReply \cup {NoOcspReply}
        BY DEF IInv, TypeOK
      <4>2. \A r \in OcspReply : r.status = "Revoked" => r.error = "none"
        BY DEF OcspReply
      <4>3. NoOcspReply.status # "Revoked"
        BY DEF NoOcspReply
      <4> QED BY <4>1, <4>2, <4>3
    <3> QED BY <3>2, <3>3 DEF RevocationDecides
  <2> QED BY <2>1, <2>2
<1> HIDE DEF J
<1> QED BY <1>1, <1>2, <1>3, PTL DEF Spec
=============================================================================
