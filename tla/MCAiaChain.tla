----------------------------- MODULE MCAiaChain -----------------------------
(* Instances of AiaChain for TLC.                                          *)
EXTENDS AiaChain, PathCerts

\* A leaf below a subordinate below an intermediate, one whose URLs must not
\* be fetched, one at the edges of the address blocks, a CA that names itself
\* as its issuer's address, and a namesake of the intermediate.
Leaf == [Deep EXCEPT !.san = {Dns("a")}]
Astray == [Leaf EXCEPT !.der = 60, !.issuer = "T"]
AtTheEdge == [Leaf EXCEPT !.der = 61, !.issuer = "U"]
Circular == Ca(62, "X", "Y", "x", "y")
Namesake == Ca(63, "I", "R", "y", "y")

AiaCerts == {Root, Inter, Subordinate, Cross, Leaf, Astray, AtTheEdge, Circular, Namesake}

Url(scheme, host) == [scheme |-> scheme, host |-> host]
Name(n) == [kind |-> "name", name |-> n]
Ip(a) == [kind |-> "ip", ip |-> a]
NoHost == [kind |-> "none"]

Open == V4(9, 9, 9, 9)
Open6 == V6(<<9734, 1, 0, 0, 0, 0, 0, 1>>)
Metadata == V4(169, 254, 169, 254)
Mapped(a, b, c, d) == V6(<<0, 0, 0, 0, 0, 65535, a * 256 + b, c * 256 + d>>)

MCAiaUrls(c) ==
    CASE c = Leaf -> <<Url("http", Name("fickle")), Url("https", Ip(Open))>>
      [] c = Subordinate -> <<Url("http", Ip(Open6))>>
      [] c = Inter -> <<Url("http", Ip(Open))>>
      [] c = Circular -> <<Url("http", Ip(Open))>>
      [] c = Astray -> <<Url("file", Name("fickle")), Url("http", Ip(Metadata)),
                         Url("http", NoHost), Url("https", Ip(Mapped(127, 0, 0, 1)))>>
      [] c = AtTheEdge -> <<Url("http", Name("edge"))>>
      [] OTHER -> <<>>

\* The first and the last address of a block and their neighbours, and the
\* first address of every overlooked block.
Edges ==
    {V4(0, 255, 255, 255), V4(1, 0, 0, 0), V4(9, 255, 255, 255), V4(10, 0, 0, 0),
     V4(10, 255, 255, 255), V4(11, 0, 0, 0), V4(100, 63, 255, 255), V4(100, 64, 0, 0),
     V4(100, 127, 255, 255), V4(100, 128, 0, 0), V4(126, 255, 255, 255), V4(127, 0, 0, 0),
     V4(127, 255, 255, 255), V4(128, 0, 0, 0), V4(169, 253, 255, 255), V4(169, 254, 0, 0),
     V4(169, 255, 0, 0), V4(172, 15, 255, 255), V4(172, 16, 0, 0), V4(172, 31, 255, 255),
     V4(172, 32, 0, 0), V4(191, 255, 255, 255), V4(192, 0, 0, 0), V4(192, 0, 0, 255),
     V4(192, 0, 1, 0), V4(192, 0, 2, 0), V4(192, 0, 3, 0), V4(192, 167, 255, 255),
     V4(192, 168, 0, 0), V4(192, 169, 0, 0), V4(198, 17, 255, 255), V4(198, 18, 0, 0),
     V4(198, 19, 255, 255), V4(198, 20, 0, 0), V4(198, 51, 100, 0), V4(198, 51, 101, 0),
     V4(203, 0, 113, 255), V4(203, 0, 114, 0), V4(223, 255, 255, 255), V4(224, 0, 0, 0),
     V4(239, 255, 255, 255), V4(240, 0, 0, 0), V4(255, 255, 255, 255),
     Mapped(10, 0, 0, 1), Mapped(11, 0, 0, 1), Mapped(100, 64, 0, 0), Mapped(255, 255, 255, 255),
     V6(<<0, 0, 0, 0, 0, 0, 0, 0>>), V6(<<0, 0, 0, 0, 0, 0, 0, 1>>), V6(<<0, 0, 0, 0, 0, 0, 0, 2>>),
     V6(<<256, 0, 0, 0, 1, 0, 0, 0>>), V6(<<256, 0, 0, 1, 0, 0, 0, 0>>),
     V6(<<8193, 3511, 65535, 0, 0, 0, 0, 0>>), V6(<<8193, 3512, 65535, 0, 0, 0, 0, 0>>),
     V6(<<8193, 3513, 0, 0, 0, 0, 0, 0>>), V6(<<16383, 4095, 0, 0, 0, 0, 0, 0>>),
     V6(<<16383, 4096, 0, 0, 0, 0, 0, 0>>), V6(<<64511, 65535, 0, 0, 0, 0, 0, 0>>),
     V6(<<64512, 0, 0, 0, 0, 0, 0, 0>>), V6(<<65023, 65535, 0, 0, 0, 0, 0, 0>>),
     V6(<<65024, 0, 0, 0, 0, 0, 0, 0>>), V6(<<65151, 65535, 0, 0, 0, 0, 0, 0>>),
     V6(<<65152, 0, 0, 0, 0, 0, 0, 0>>), V6(<<65216, 0, 0, 0, 0, 0, 0, 0>>),
     V6(<<65279, 65535, 0, 0, 0, 0, 0, 0>>), V6(<<65280, 0, 0, 0, 0, 0, 0, 0>>)}
       \cup {b[1] : b \in OverlookedBlocks}

MCResolutions(name) ==
    IF name = "edge" THEN {{a} : a \in Edges}
    ELSE {{}, {Open}, {Metadata}, {Open, V4(10, 0, 0, 1)}, {Open6}}

AllTargets ==
    {Url("http", Name("fickle")), Url("https", Ip(Open6)), Url("http", Ip(Metadata)),
     Url("http", Ip(Mapped(10, 0, 0, 1))), Url("ftp", Ip(Open))}

\* Every certificate but the leaves is served by somebody, one of them as PEM
\* in a body as long as allowed; then too long, announced or not, and garbage.
AllDocuments ==
    {Document("der", c, 1, TRUE) : c \in {Inter, Cross, Circular, Namesake}}
      \cup {Document("pem", Subordinate, 2, FALSE), Document("der", Inter, 3, TRUE),
            Document("der", Inter, 3, FALSE), Document("garbage", Root, 1, FALSE)}

AllStores == {<<Root>>, <<Subordinate>>, <<>>}
AllLeaves == {Leaf, Astray, AtTheEdge, Circular, Root}
AllPools == Arrangements({Inter, Subordinate, Cross, Namesake}, 4)
=============================================================================
