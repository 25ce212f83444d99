--------------------------- MODULE MCAnchorLoading --------------------------
(* Instances of AnchorLoading for TLC.                                     *)
EXTENDS AnchorLoading, PathCerts

AnchorCerts == {Root, Successor, Rollover, Inter}

Block(what, cert) == [what |-> what, cert |-> cert]
Good(c) == Block("certificate", c)
File(form, blocks) == [readable |-> TRUE, bytes |-> [form |-> form, blocks |-> blocks]]

\* A bundle, the same with its second certificate damaged, cut off or under
\* another label, one with a comment in front, a single one as DER, a damaged
\* one, and a file that cannot be read.
Some ==
    {File("pem", <<Good(Root), Good(Inter)>>),
     File("pem", <<Good(Root), Block("corrupt", Inter), Good(Successor)>>),
     File("pem", <<Good(Rollover), Block("cut", Inter)>>),
     File("pem", <<Block("other", Inter), Good(Successor)>>),
     File("commented", <<Good(Successor)>>), File("der", <<Good(Root)>>),
     File("der", <<Block("corrupt", Root)>>),
     [readable |-> FALSE, bytes |-> [form |-> "pem", blocks |-> <<Good(Root)>>]]}

Three == <<"anchors", "more", "notes">>
MCExtension(f) ==
    CASE f = "anchors" -> "pem" [] f = "more" -> "crt" [] f = "notes" -> "txt"
Unrelated == File("commented", <<>>)
MCVersions(f) == IF f = "notes" THEN {Unrelated} ELSE Some \cup {Missing}

AllDirectories ==
    {d \in [{"anchors", "more", "notes"} -> Some \cup {Missing, Unrelated}] :
        /\ \A f \in {"anchors", "more"} : d[f] # Unrelated
        /\ d["notes"] = Unrelated}

AnchorChains ==
    {<<Host, Inter>>, <<Host>>, <<Mail>>, <<Mail, Rollover>>, <<Root>>, <<Inter, Successor>>}
AllAnchorCerts == AnchorCerts \cup {Host, Mail}
=============================================================================
