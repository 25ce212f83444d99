----------------------------- MODULE FetchGuard -----------------------------
(***************************************************************************)
(* One download from a URL that a certificate names (net.rs and the fetch  *)
(* part of ltv/chain.rs): the check of the URL, the connection of the      *)
(* hardened client, its redirects, and the body with its limit.  Every     *)
(* resolution of a name may have another answer and every server may send  *)
(* what it likes.                                                          *)
(*                                                                         *)
(* An address is its version and its words: four octets or eight segments. *)
(* A URL is a scheme and a host: a name, a literal address, or none.       *)
(***************************************************************************)
EXTENDS Naturals, Sequences, FiniteSets

CONSTANTS
    Resolutions(_),     \* of a host name: the sets of addresses it may resolve to
    Targets,            \* URLs a server may redirect to
    Documents,          \* what a server may send: see Document
    MaxRedirects,       \* MAX_REDIRECTS
    MaxBodySize         \* max_body_size

ASSUME LimitsAssumption == MaxRedirects \in Nat \ {0} /\ MaxBodySize \in Nat

V4(a, b, c, d) == [version |-> 4, words |-> <<a, b, c, d>>]
V6(s) == [version |-> 6, words |-> s]
Octet == 0 .. 255
Segment == 0 .. 65535
Addresses == [version : {4}, words : [1 .. 4 -> Octet]]
               \cup [version : {6}, words : [1 .. 8 -> Segment]]

-----------------------------------------------------------------------------
(* Addresses.                                                              *)

\* is_disallowed_ipv4: loopback, private, link-local, documentation and
\* multicast addresses, "this network", shared addresses, protocol
\* assignments, benchmarking, and all from 240 on.
IsDisallowedIpv4(o) ==
    \/ o[1] \in {0, 10, 127}
    \/ o[1] = 172 /\ o[2] \in 16 .. 31
    \/ o[1] = 192 /\ o[2] = 168
    \/ o[1] = 169 /\ o[2] = 254
    \/ <<o[1], o[2], o[3]>> \in {<<192, 0, 2>>, <<198, 51, 100>>, <<203, 0, 113>>}
    \/ o[1] \in 224 .. 239
    \/ o[1] = 100 /\ o[2] \div 64 = 1
    \/ <<o[1], o[2], o[3]>> = <<192, 0, 0>>
    \/ o[1] = 198 /\ o[2] \in {18, 19}
    \/ o[1] >= 240

\* to_ipv4_mapped.
IsMapped(s) == s[6] = 65535 /\ \A i \in 1 .. 5 : s[i] = 0
Unmapped(s) == <<s[7] \div 256, s[7] % 256, s[8] \div 256, s[8] % 256>>

\* is_disallowed_ip.
IsDisallowedIp(a) ==
    LET s == a.words IN
    IF a.version = 4 THEN IsDisallowedIpv4(s)
    ELSE IF IsMapped(s) THEN IsDisallowedIpv4(Unmapped(s))
    ELSE \/ (\A i \in 1 .. 7 : s[i] = 0) /\ s[8] \in {0, 1}
         \/ s[1] \div 256 = 255
         \/ s[1] \div 512 = 126
         \/ s[1] \div 64 \in {1018, 1019}
         \/ s[1] = 8193 /\ s[2] = 3512
         \/ s[1] = 16383 /\ s[2] \div 4096 = 0
         \/ s[1] = 256 /\ s[2] = 0 /\ s[3] = 0 /\ s[4] = 0

\* validate_resolved_addresses; no address stands for a failed resolution too.
ValidateResolvedAddresses(addrs) ==
    addrs # {} /\ \A a \in addrs : ~IsDisallowedIp(a)

\* The addresses a host may stand for at some moment.
Answers(u) ==
    CASE u.host.kind = "name" -> Resolutions(u.host.name)
      [] u.host.kind = "ip" -> {{u.host.ip}}
      [] OTHER -> {{}}

\* validate_fetch_url, when the host stands for `addrs`.
ValidateFetchUrl(u, addrs) ==
    u.scheme \in {"http", "https"} /\ ValidateResolvedAddresses(addrs)

-----------------------------------------------------------------------------
(* One download.                                                           *)

VARIABLE
    fetch       \* the download: where it is, its URL, how many URLs it has
                \* requested, whom it is connected to, the document under way
                \* and the bytes of it so far

\* A document: whether it is DER, PEM or neither, the certificate in it, its
\* size, and whether Content-Length tells.
Document(form, cert, size, announced) ==
    [form |-> form, cert |-> cert, size |-> size, announced |-> announced]

Idle == [at |-> "idle"]
Failed == [at |-> "failed"]
Fetching(u) == [at |-> "validate", url |-> u, requested |-> 1]

\* Mutant: resolving the name is not under the timeout.
Timed_NotValidation == fetch.at \in {"connect", "exchange", "body"}

\* The check of the URL and the request each run under the timeout.
Timed == fetch.at \in {"validate", "connect", "exchange", "body"}

\* The check before anything is sent.
Validate ==
    /\ fetch.at = "validate"
    /\ \E addrs \in Answers(fetch.url) :
         fetch' = IF ValidateFetchUrl(fetch.url, addrs)
                  THEN [fetch EXCEPT !.at = "connect"] ELSE Failed

\* Mutant: the connector resolves names by itself.
Connectable_Unchecked(u, addrs) == addrs # {}

\* PublicDnsResolver: the addresses the connector gets for a name.  It is not
\* asked when the host is an address.
Connectable(u, addrs) ==
    u.host.kind = "name" => ValidateResolvedAddresses(addrs)

\* The client connects to one of them, and never through a proxy.
Connect ==
    /\ fetch.at = "connect" /\ fetch.url.scheme \in {"http", "https"}
    /\ \E addrs \in Answers(fetch.url) :
         /\ Connectable(fetch.url, addrs)
         /\ \E a \in addrs :
              fetch' = [at |-> "exchange", url |-> fetch.url, requested |-> fetch.requested,
                        peer |-> a]

\* The redirect policy: previous() counts the first URL too.  A stopped
\* redirect is a status that is no success.
Follows(u) ==
    /\ fetch.requested < MaxRedirects
    /\ u.host.kind = "ip" => ~IsDisallowedIp(u.host.ip)

Redirected ==
    /\ fetch.at = "exchange"
    /\ \E u \in Targets :
         fetch' = IF Follows(u)
                  THEN [at |-> "connect", url |-> u, requested |-> fetch.requested + 1]
                  ELSE Failed

\* A success; a body that is announced as too long is not read.
Responds ==
    /\ fetch.at = "exchange"
    /\ \E d \in Documents :
         fetch' = IF d.announced /\ d.size > MaxBodySize THEN Failed
                  ELSE [at |-> "body", document |-> d, buffered |-> 0]

\* Mutant: the limit is compared before the chunk is added.
Fits_Before(n) == fetch.buffered <= MaxBodySize

Fits(n) == fetch.buffered + n <= MaxBodySize

\* The next chunk, as long as the server makes it.
Chunk ==
    /\ fetch.at = "body"
    /\ \E n \in 1 .. fetch.document.size - fetch.buffered :
         fetch' = IF Fits(n) THEN [fetch EXCEPT !.buffered = @ + n] ELSE Failed

\* The end of the body: DER, or else PEM.
Parse ==
    /\ fetch.at = "body" /\ fetch.buffered = fetch.document.size
    /\ fetch' = IF fetch.document.form \in {"der", "pem"}
                THEN [at |-> "fetched", cert |-> fetch.document.cert] ELSE Failed

\* Both timeouts, a failed resolution or connection, an HTTP error, a body
\* that breaks off.
Breaks ==
    /\ Timed
    /\ fetch' = Failed

FetchStep == Validate \/ Connect \/ Redirected \/ Responds \/ Chunk \/ Parse

-----------------------------------------------------------------------------
(* Properties of a download.                                               *)

\* The address blocks the comments of net.rs name, written as the registries
\* do: a prefix and how many bits of it count.
NamedBlocks ==
    {<<V4(0, 0, 0, 0), 8>>, <<V4(10, 0, 0, 0), 8>>, <<V4(100, 64, 0, 0), 10>>,
     <<V4(127, 0, 0, 0), 8>>, <<V4(169, 254, 0, 0), 16>>, <<V4(172, 16, 0, 0), 12>>,
     <<V4(192, 0, 0, 0), 24>>, <<V4(192, 0, 2, 0), 24>>, <<V4(192, 168, 0, 0), 16>>,
     <<V4(198, 18, 0, 0), 15>>, <<V4(198, 51, 100, 0), 24>>, <<V4(203, 0, 113, 0), 24>>,
     <<V4(224, 0, 0, 0), 4>>, <<V4(240, 0, 0, 0), 4>>,
     <<V6(<<0, 0, 0, 0, 0, 0, 0, 0>>), 127>>, <<V6(<<256, 0, 0, 0, 0, 0, 0, 0>>), 64>>,
     <<V6(<<8193, 3512, 0, 0, 0, 0, 0, 0>>), 32>>, <<V6(<<16383, 0, 0, 0, 0, 0, 0, 0>>), 20>>,
     <<V6(<<64512, 0, 0, 0, 0, 0, 0, 0>>), 7>>, <<V6(<<65152, 0, 0, 0, 0, 0, 0, 0>>), 10>>,
     <<V6(<<65216, 0, 0, 0, 0, 0, 0, 0>>), 10>>, <<V6(<<65280, 0, 0, 0, 0, 0, 0, 0>>), 8>>}
\* ... and every IPv4 block once more as mapped addresses.
MappedBlocks ==
    {<<V6(<<0, 0, 0, 0, 0, 65535, b[1].words[1] * 256 + b[1].words[2],
            b[1].words[3] * 256 + b[1].words[4]>>), 96 + b[2]>>
       : b \in {b \in NamedBlocks : b[1].version = 4}}

\* Blocks the registries have as not globally reachable, too, but that net.rs
\* does not name: translation for local use (64:ff9b:1::/48), the dummy prefix
\* (100:0:0:1::/64), protocol assignments (2001::/23), 6to4 (2002::/16) and
\* segment routing (5f00::/16).
OverlookedBlocks ==
    {<<V6(<<100, 65435, 1, 0, 0, 0, 0, 0>>), 48>>, <<V6(<<256, 0, 0, 1, 0, 0, 0, 0>>), 64>>,
     <<V6(<<8193, 0, 0, 0, 0, 0, 0, 0>>), 23>>, <<V6(<<8194, 0, 0, 0, 0, 0, 0, 0>>), 16>>,
     <<V6(<<24320, 0, 0, 0, 0, 0, 0, 0>>), 16>>}

\* What each bit of a word of sixteen stands for.
Weight == <<32768, 16384, 8192, 4096, 2048, 1024, 512, 256, 128, 64, 32, 16, 8, 4, 2, 1>>

Bit(a, i) ==
    LET width == IF a.version = 4 THEN 8 ELSE 16
    IN  (a.words[1 + i \div width] \div Weight[17 - width + (i % width)]) % 2

InBlock(a, b) ==
    b[1].version = a.version /\ \A i \in 0 .. b[2] - 1 : Bit(a, i) = Bit(b[1], i)

NonPublicBlocks == NamedBlocks \cup MappedBlocks \cup OverlookedBlocks

\* No address of a block that net.rs names is ever connected to, although the
\* certificate names the URL, the name may resolve to something else when it
\* is connected to than when it was checked, and the server redirects (net.rs,
\* validate_fetch_url and PublicDnsResolver).  The comment on
\* validate_fetch_url promises more: it refuses what is "otherwise non-public",
\* but is_disallowed_ip lets the overlooked blocks through.
OnlyPublicOrOverlooked ==
    fetch.at = "exchange" =>
        \A b \in NonPublicBlocks : InBlock(fetch.peer, b) => b \in OverlookedBlocks
=============================================================================
