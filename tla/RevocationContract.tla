------------------------- MODULE RevocationContract -------------------------
(***************************************************************************)
(* What a revocation check promises its caller, without timers, polls,     *)
(* replies or nested checks: each of the two sources reports at most once, *)
(* the check decides once, at any moment, and what it returns is the       *)
(* higher-ranked of the two reports (a missing report ranks as Unknown)    *)
(* after the strict policy has turned Unknown into Invalid.  Nothing moves *)
(* after the decision.                                                     *)
(***************************************************************************)
EXTENDS ValidationStatus

VARIABLES policy, ocspReport, crlReport, answer

Missing == "pending"

contractVars == <<policy, ocspReport, crlReport, answer>>

ContractInit ==
    /\ ocspReport = Missing
    /\ crlReport = Missing
    /\ answer = Missing

\* The rank of a report; a source that did not report ranks with Unknown.
Rank(report) == IF report = Missing THEN 0 ELSE Priority(report)

\* s is what the check owes its caller when it has the reports o and c.
Owed(s, o, c) ==
    LET top == IF Rank(o) >= Rank(c) THEN Rank(o) ELSE Rank(c) IN
    /\ top = 3 => s = "Revoked"
    /\ top = 2 => s = "Valid"
    /\ top = 1 => s = "Invalid"
    /\ top = 0 => s = IF policy.require_revocation_check THEN "Invalid"
                                                        ELSE "Unknown"

ReportOcsp == ocspReport = Missing /\ ocspReport' \in Statuses /\ UNCHANGED crlReport
ReportCrl == crlReport = Missing /\ crlReport' \in Statuses /\ UNCHANGED ocspReport
NoReport == UNCHANGED <<ocspReport, crlReport>>

\* A source reports and the check waits for the other one.
Collect ==
    /\ answer = Missing
    /\ ReportOcsp \/ ReportCrl
    /\ UNCHANGED <<policy, answer>>

\* The check returns, with the last report or without it.
Return ==
    /\ answer = Missing
    /\ ReportOcsp \/ ReportCrl \/ NoReport
    /\ answer' \in Statuses
    /\ Owed(answer', ocspReport', crlReport')
    /\ UNCHANGED policy

ContractNext == Collect \/ Return

ContractSpec == ContractInit /\ [][ContractNext]_contractVars
=============================================================================
