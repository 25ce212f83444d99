--------------------------- MODULE AiaChainProofs ---------------------------
(* Theorems about AiaChain and the downloads of FetchGuard, for every set  *)
(* of certificates, every network and every bound.                         *)
EXTENDS AiaChain, FiniteSetTheorems, SequenceTheorems, TLAPS

-----------------------------------------------------------------------------
(* Addresses: what is_disallowed_ip lets through is outside every block.   *)

\* What a word is worth down to its i-th bit.
Upper(x, i) == x \div Weight[i]

\* One bit more doubles it, give or take that bit.
LEMMA UpperHalves ==
    ASSUME NEW x \in Nat
    PROVE  /\ \A i \in 1 .. 16 : Upper(x, i) \in Nat
           /\ \A i \in 1 .. 15 : Upper(x, i) = Upper(x, i + 1) \div 2
<1>0. /\ Weight[1] = 32768 /\ Weight[2] = 16384 /\ Weight[3] = 8192 /\ Weight[4] = 4096
      /\ Weight[5] = 2048 /\ Weight[6] = 1024 /\ Weight[7] = 512 /\ Weight[8] = 256
      /\ Weight[9] = 128 /\ Weight[10] = 64 /\ Weight[11] = 32 /\ Weight[12] = 16
      /\ Weight[13] = 8 /\ Weight[14] = 4 /\ Weight[15] = 2 /\ Weight[16] = 1
  BY DEF Weight
<1>1. \A i \in 1 .. 16 : Weight[i] \in Nat \ {0}
  BY <1>0
<1>2. \A i \in 1 .. 16 : Upper(x, i) \in Nat
  BY <1>1 DEF Upper
<1>3. /\ x \div 32768 = (x \div 16384) \div 2 /\ x \div 16384 = (x \div 8192) \div 2
      /\ x \div 8192 = (x \div 4096) \div 2 /\ x \div 4096 = (x \div 2048) \div 2
      /\ x \div 2048 = (x \div 1024) \div 2 /\ x \div 1024 = (x \div 512) \div 2
      /\ x \div 512 = (x \div 256) \div 2 /\ x \div 256 = (x \div 128) \div 2
      /\ x \div 128 = (x \div 64) \div 2 /\ x \div 64 = (x \div 32) \div 2
      /\ x \div 32 = (x \div 16) \div 2 /\ x \div 16 = (x \div 8) \div 2
      /\ x \div 8 = (x \div 4) \div 2 /\ x \div 4 = (x \div 2) \div 2
      /\ x \div 2 = (x \div 1) \div 2
  OBVIOUS
<1>4. \A i \in 1 .. 15 : Upper(x, i) = Upper(x, i + 1) \div 2
  <2> TAKE i \in 1 .. 15
  <2>1. \/ i = 1 \/ i = 2 \/ i = 3 \/ i = 4 \/ i = 5 \/ i = 6 \/ i = 7 \/ i = 8
        \/ i = 9 \/ i = 10 \/ i = 11 \/ i = 12 \/ i = 13 \/ i = 14 \/ i = 15
    OBVIOUS
  <2> QED BY <2>1, <1>0, <1>3 DEF Upper
<1> QED BY <1>2, <1>4

\* The first j bits of two words agree.
Agree(x, y, j) == \A i \in 1 .. j : Upper(x, i) % 2 = Upper(y, i) % 2

\* Then what they are worth down to the last of these is the same.
LEMMA PrefixOfWord ==
    ASSUME NEW x \in Nat, NEW y \in Nat, x < 65536, y < 65536,
           NEW j \in 1 .. 16, Agree(x, y, j)
    PROVE  Upper(x, j) = Upper(y, j)
<1> DEFINE P(n) == n \in 1 .. j => Upper(x, n) = Upper(y, n)
<1>0. /\ \A i \in 1 .. 16 : Upper(x, i) \in Nat /\ Upper(y, i) \in Nat
      /\ \A i \in 1 .. 15 : Upper(x, i) = Upper(x, i + 1) \div 2
      /\ \A i \in 1 .. 15 : Upper(y, i) = Upper(y, i + 1) \div 2
  BY UpperHalves
<1>1. P(1)
  <2>1. Upper(x, 1) \in 0 .. 1 /\ Upper(y, 1) \in 0 .. 1
    BY DEF Upper, Weight
  <2>2. Upper(x, 1) % 2 = Upper(y, 1) % 2
    BY DEF Agree
  <2> QED BY <2>1, <2>2
<1>2. ASSUME NEW n \in 1 .. 15, P(n) PROVE P(n + 1)
  <2> SUFFICES ASSUME n + 1 \in 1 .. j PROVE Upper(x, n + 1) = Upper(y, n + 1)
    OBVIOUS
  <2>1. Upper(x, n + 1) \in Nat /\ Upper(y, n + 1) \in Nat
    BY <1>0
  <2>2. Upper(x, n + 1) \div 2 = Upper(y, n + 1) \div 2
    BY <1>2, <1>0
  <2>3. Upper(x, n + 1) % 2 = Upper(y, n + 1) % 2
    BY DEF Agree
  <2> QED BY <2>1, <2>2, <2>3
<1> HIDE DEF P
<1>3. P(2) /\ P(3) /\ P(4) /\ P(5)
  BY <1>1, <1>2
<1>4. P(6) /\ P(7) /\ P(8) /\ P(9) /\ P(10)
  BY <1>3, <1>2
<1>5. P(11) /\ P(12) /\ P(13) /\ P(14) /\ P(15) /\ P(16)
  BY <1>4, <1>2
<1>6. \/ j = 1 \/ j = 2 \/ j = 3 \/ j = 4 \/ j = 5 \/ j = 6 \/ j = 7 \/ j = 8
      \/ j = 9 \/ j = 10 \/ j = 11 \/ j = 12 \/ j = 13 \/ j = 14 \/ j = 15 \/ j = 16
  OBVIOUS
<1> QED BY <1>1, <1>3, <1>4, <1>5, <1>6 DEF P
\* The words of the addresses of each version.
LEMMA AddressWords ==
    ASSUME NEW a \in Addresses
    PROVE  \/ /\ a.version = 4
              /\ \A k \in 1 .. 4 : a.words[k] \in Nat /\ a.words[k] < 256
           \/ /\ a.version = 6
              /\ \A k \in 1 .. 8 : a.words[k] \in Nat /\ a.words[k] < 65536
<1>1. \A x \in Octet : x \in Nat /\ x < 256
  BY DEF Octet
<1>2. \A x \in Segment : x \in Nat /\ x < 65536
  BY DEF Segment
<1> QED BY <1>1, <1>2 DEF Addresses

\* The first n bits of two addresses are the same.
Within(a, p, n) == \A i \in 0 .. n - 1 : Bit(a, i) = Bit(p, i)

\* Then so are those of each octet ...
LEMMA PrefixV4 ==
    ASSUME NEW a, a.version = 4, \A k \in 1 .. 4 : a.words[k] \in Nat /\ a.words[k] < 256,
           NEW p, p.version = 4, \A k \in 1 .. 4 : p.words[k] \in Nat /\ p.words[k] < 256,
           NEW n \in Nat, Within(a, p, n)
    PROVE  \A k \in 1 .. 4, j \in 1 .. 8 :
               8 * (k - 1) + j <= n => Upper(a.words[k], 8 + j) = Upper(p.words[k], 8 + j)
<1> TAKE k \in 1 .. 4, j \in 1 .. 8
<1> HAVE 8 * (k - 1) + j <= n
<1> DEFINE x == a.words[k]
           y == p.words[k]
<1>1. x \in Nat /\ x < 256 /\ y \in Nat /\ y < 256
  OBVIOUS
<1>2. ASSUME NEW m \in 1 .. j PROVE Upper(x, 8 + m) % 2 = Upper(y, 8 + m) % 2
  <2> DEFINE i == 8 * (k - 1) + m - 1
  <2>1. i \in 0 .. n - 1 /\ i \div 8 = k - 1 /\ i % 8 = m - 1
    OBVIOUS
  <2>2. Bit(a, i) = Bit(p, i)
    BY <2>1 DEF Within
  <2>3. 1 + i \div 8 = k /\ 17 - 8 + (i % 8) = 8 + m
    BY <2>1
  <2> HIDE DEF i
  <2>4. Bit(a, i) = Upper(x, 8 + m) % 2 /\ Bit(p, i) = Upper(y, 8 + m) % 2
    BY <2>3 DEF Bit, Upper
  <2> QED BY <2>2, <2>4
<1>3. ASSUME NEW z \in Nat, z < 256, NEW m \in 1 .. 8 PROVE Upper(z, m) = 0
  <2>1. \/ m = 1 \/ m = 2 \/ m = 3 \/ m = 4 \/ m = 5 \/ m = 6 \/ m = 7 \/ m = 8
    OBVIOUS
  <2>2. /\ Weight[1] = 32768 /\ Weight[2] = 16384 /\ Weight[3] = 8192 /\ Weight[4] = 4096
        /\ Weight[5] = 2048 /\ Weight[6] = 1024 /\ Weight[7] = 512 /\ Weight[8] = 256
    BY DEF Weight
  <2> QED BY <1>3, <2>1, <2>2 DEF Upper
<1> HIDE DEF x, y
<1>4. Agree(x, y, 8 + j)
  <2> SUFFICES ASSUME NEW i \in 1 .. 8 + j PROVE Upper(x, i) % 2 = Upper(y, i) % 2
    BY DEF Agree
  <2>1. CASE i <= 8
    BY <1>1, <1>3, <2>1
  <2>2. CASE i > 8
    <3>1. i - 8 \in 1 .. j /\ 8 + (i - 8) = i
      BY <2>2
    <3> QED BY <1>2, <3>1
  <2> QED BY <2>1, <2>2
<1>5. Upper(x, 8 + j) = Upper(y, 8 + j)
  <2>1. 8 + j \in 1 .. 16 /\ x < 65536 /\ y < 65536
    BY <1>1
  <2> QED BY <1>1, <1>4, <2>1, PrefixOfWord
<1> QED BY <1>5 DEF x, y

\* The bits of a segment.
LEMMA BitV6 ==
    ASSUME NEW a, a.version = 6, NEW k \in 1 .. 8, NEW m \in 1 .. 16
    PROVE  Bit(a, 16 * (k - 1) + m - 1) = Upper(a.words[k], m) % 2
<1> DEFINE i == 16 * (k - 1) + m - 1
<1>1. i \div 16 = k - 1 /\ i % 16 = m - 1
  OBVIOUS
<1>2. 1 + i \div 16 = k /\ 17 - 16 + (i % 16) = m
  BY <1>1
<1> HIDE DEF i
<1>3. Bit(a, i) = Upper(a.words[k], m) % 2
  BY <1>2 DEF Bit, Upper
<1> QED BY <1>3 DEF i

\* ... and of each segment.
LEMMA PrefixV6 ==
    ASSUME NEW a, a.version = 6, \A k \in 1 .. 8 : a.words[k] \in Nat /\ a.words[k] < 65536,
           NEW p, p.version = 6, \A k \in 1 .. 8 : p.words[k] \in Nat /\ p.words[k] < 65536,
           NEW n \in Nat, Within(a, p, n)
    PROVE  \A k \in 1 .. 8, j \in 1 .. 16 :
               16 * (k - 1) + j <= n => Upper(a.words[k], j) = Upper(p.words[k], j)
<1> TAKE k \in 1 .. 8, j \in 1 .. 16
<1> HAVE 16 * (k - 1) + j <= n
<1>1. ASSUME NEW m \in 1 .. j
      PROVE  Upper(a.words[k], m) % 2 = Upper(p.words[k], m) % 2
  <2>1. m \in 1 .. 16 /\ 16 * (k - 1) + m - 1 \in 0 .. n - 1
    OBVIOUS
  <2>2. Bit(a, 16 * (k - 1) + m - 1) = Bit(p, 16 * (k - 1) + m - 1)
    BY <2>1 DEF Within
  <2>3. Bit(a, 16 * (k - 1) + m - 1) = Upper(a.words[k], m) % 2
    BY <2>1, BitV6
  <2>4. Bit(p, 16 * (k - 1) + m - 1) = Upper(p.words[k], m) % 2
    BY <2>1, BitV6
  <2> QED BY <2>2, <2>3, <2>4
<1>2. Agree(a.words[k], p.words[k], j)
  BY <1>1 DEF Agree
<1> QED BY <1>2, PrefixOfWord
-----------------------------------------------------------------------------
(* One block after the other.                                              *)

\* What a word is worth down to the bits where some block ends.
LEMMA UpperAt ==
    ASSUME NEW x \in Nat
    PROVE  /\ Upper(x, 16) = x /\ Upper(x, 15) = x \div 2 /\ Upper(x, 12) = x \div 16
           /\ Upper(x, 10) = x \div 64 /\ Upper(x, 8) = x \div 256 /\ Upper(x, 7) = x \div 512
           /\ Upper(x, 4) = x \div 4096
BY DEF Upper, Weight

\* An IPv4 address whose first n bits are those of p agrees with it octet by
\* octet.
LEMMA OctetsWithin ==
    ASSUME NEW a \in Addresses, a.version = 4,
           NEW p, p.version = 4, \A k \in 1 .. 4 : p.words[k] \in Nat /\ p.words[k] < 256,
           NEW n \in Nat, Within(a, p, n)
    PROVE  \A k \in 1 .. 4 :
             /\ 8 * k <= n => a.words[k] = p.words[k]
             /\ 8 * k <= n + 1 => a.words[k] \div 2 = p.words[k] \div 2
             /\ 8 * k <= n + 4 => a.words[k] \div 16 = p.words[k] \div 16
             /\ 8 * k <= n + 6 => a.words[k] \div 64 = p.words[k] \div 64
<1>1. \A k \in 1 .. 4 : a.words[k] \in Nat /\ a.words[k] < 256
  BY AddressWords
<1>2. \A k \in 1 .. 4, j \in 1 .. 8 :
         8 * (k - 1) + j <= n => Upper(a.words[k], 8 + j) = Upper(p.words[k], 8 + j)
  BY <1>1, PrefixV4
<1> TAKE k \in 1 .. 4
<1> DEFINE x == a.words[k]
           y == p.words[k]
<1>3. /\ 8 * k <= n => Upper(x, 16) = Upper(y, 16)
      /\ 8 * k <= n + 1 => Upper(x, 15) = Upper(y, 15)
      /\ 8 * k <= n + 4 => Upper(x, 12) = Upper(y, 12)
      /\ 8 * k <= n + 6 => Upper(x, 10) = Upper(y, 10)
  <2>1. \A j \in 1 .. 8 : 8 * (k - 1) + j <= n => Upper(x, 8 + j) = Upper(y, 8 + j)
    BY <1>2
  <2> HIDE DEF x, y
  <2>2. /\ 8 * (k - 1) + 8 <= n => Upper(x, 8 + 8) = Upper(y, 8 + 8)
        /\ 8 * (k - 1) + 7 <= n => Upper(x, 8 + 7) = Upper(y, 8 + 7)
        /\ 8 * (k - 1) + 4 <= n => Upper(x, 8 + 4) = Upper(y, 8 + 4)
        /\ 8 * (k - 1) + 2 <= n => Upper(x, 8 + 2) = Upper(y, 8 + 2)
    BY <2>1
  <2> QED BY <2>2
<1>4. x \in Nat /\ y \in Nat
  BY <1>1
<1> HIDE DEF x, y
<1>5. /\ Upper(x, 16) = x /\ Upper(x, 15) = x \div 2 /\ Upper(x, 12) = x \div 16
      /\ Upper(x, 10) = x \div 64
      /\ Upper(y, 16) = y /\ Upper(y, 15) = y \div 2 /\ Upper(y, 12) = y \div 16
      /\ Upper(y, 10) = y \div 64
  BY <1>4, UpperAt
<1>6. /\ 8 * k <= n => x = y
      /\ 8 * k <= n + 1 => x \div 2 = y \div 2
      /\ 8 * k <= n + 4 => x \div 16 = y \div 16
      /\ 8 * k <= n + 6 => x \div 64 = y \div 64
  BY <1>3, <1>5
<1> QED BY <1>6 DEF x, y

\* An IPv6 address whose first n bits are those of p agrees with it segment by
\* segment.
LEMMA SegmentsWithin ==
    ASSUME NEW a \in Addresses, a.version = 6,
           NEW p, p.version = 6, \A k \in 1 .. 8 : p.words[k] \in Nat /\ p.words[k] < 65536,
           NEW n \in Nat, Within(a, p, n)
    PROVE  \A k \in 1 .. 8 :
             /\ 16 * k <= n => a.words[k] = p.words[k]
             /\ 16 * k <= n + 1 => a.words[k] \div 2 = p.words[k] \div 2
             /\ 16 * k <= n + 4 => a.words[k] \div 16 = p.words[k] \div 16
             /\ 16 * k <= n + 6 => a.words[k] \div 64 = p.words[k] \div 64
             /\ 16 * k <= n + 8 => a.words[k] \div 256 = p.words[k] \div 256
             /\ 16 * k <= n + 9 => a.words[k] \div 512 = p.words[k] \div 512
             /\ 16 * k <= n + 12 => a.words[k] \div 4096 = p.words[k] \div 4096
<1>1. \A k \in 1 .. 8 : a.words[k] \in Nat /\ a.words[k] < 65536
  BY AddressWords
<1>2. \A k \in 1 .. 8, j \in 1 .. 16 :
         16 * (k - 1) + j <= n => Upper(a.words[k], j) = Upper(p.words[k], j)
  BY <1>1, PrefixV6
<1> TAKE k \in 1 .. 8
<1> DEFINE x == a.words[k]
           y == p.words[k]
<1>3. /\ 16 * k <= n => Upper(x, 16) = Upper(y, 16)
      /\ 16 * k <= n + 1 => Upper(x, 15) = Upper(y, 15)
      /\ 16 * k <= n + 4 => Upper(x, 12) = Upper(y, 12)
      /\ 16 * k <= n + 6 => Upper(x, 10) = Upper(y, 10)
      /\ 16 * k <= n + 8 => Upper(x, 8) = Upper(y, 8)
      /\ 16 * k <= n + 9 => Upper(x, 7) = Upper(y, 7)
      /\ 16 * k <= n + 12 => Upper(x, 4) = Upper(y, 4)
  <2>1. \A j \in 1 .. 16 : 16 * (k - 1) + j <= n => Upper(x, j) = Upper(y, j)
    BY <1>2
  <2> HIDE DEF x, y
  <2> QED BY <2>1
<1>4. x \in Nat /\ y \in Nat
  BY <1>1
<1> HIDE DEF x, y
<1>5. /\ 16 * k <= n => x = y
      /\ 16 * k <= n + 1 => x \div 2 = y \div 2
      /\ 16 * k <= n + 4 => x \div 16 = y \div 16
      /\ 16 * k <= n + 6 => x \div 64 = y \div 64
      /\ 16 * k <= n + 8 => x \div 256 = y \div 256
      /\ 16 * k <= n + 9 => x \div 512 = y \div 512
      /\ 16 * k <= n + 12 => x \div 4096 = y \div 4096
  BY <1>3, <1>4, UpperAt
<1> QED BY <1>5 DEF x, y
\* What the first three octets of an IPv4 address, or of a mapped one, are in
\* each block.
OctetBlock(p, q, r) ==
    \/ p = 0 \/ p = 10 \/ p = 127
    \/ p = 100 /\ q \div 64 = 1
    \/ p = 169 /\ q = 254
    \/ p = 172 /\ q \div 16 = 1
    \/ p = 192 /\ q = 0 /\ r = 0
    \/ p = 192 /\ q = 0 /\ r = 2
    \/ p = 192 /\ q = 168
    \/ p = 198 /\ q \div 2 = 9
    \/ p = 198 /\ q = 51 /\ r = 100
    \/ p = 203 /\ q = 0 /\ r = 113
    \/ p \div 16 = 14 \/ p \div 16 = 15

\* is_disallowed_ipv4 refuses them all.
LEMMA OctetBlockDisallowed ==
    ASSUME NEW p \in Nat, NEW q \in Nat, NEW r \in Nat, OctetBlock(p, q, r),
           NEW o, o[1] = p, o[2] = q, o[3] = r
    PROVE  IsDisallowedIpv4(o)
<1>1. /\ q \div 16 = 1 => q \in 16 .. 31
      /\ q \div 2 = 9 => q \in {18, 19}
      /\ p \div 16 = 14 => p \in 224 .. 239
      /\ p \div 16 = 15 => p >= 240
  OBVIOUS
<1>2. CASE p = 0 \/ p = 10 \/ p = 127 \/ (p = 100 /\ q \div 64 = 1)
  BY <1>2 DEF IsDisallowedIpv4
<1>3. CASE (p = 169 /\ q = 254) \/ (p = 172 /\ q \div 16 = 1)
  BY <1>1, <1>3 DEF IsDisallowedIpv4
<1>4. CASE p = 192 /\ q = 0 /\ (r = 0 \/ r = 2)
  BY <1>4 DEF IsDisallowedIpv4
<1>5. CASE (p = 192 /\ q = 168) \/ (p = 198 /\ q \div 2 = 9)
  BY <1>1, <1>5 DEF IsDisallowedIpv4
<1>6. CASE (p = 198 /\ q = 51 /\ r = 100) \/ (p = 203 /\ q = 0 /\ r = 113)
  BY <1>6 DEF IsDisallowedIpv4
<1>7. CASE p \div 16 = 14 \/ p \div 16 = 15
  BY <1>1, <1>7 DEF IsDisallowedIpv4
<1> QED BY <1>2, <1>3, <1>4, <1>5, <1>6, <1>7 DEF OctetBlock

\* The first n bits of three octets are those of b, c and d, as far as the
\* blocks tell them apart.
SameOctets(p, q, r, b, c, d, n) ==
    /\ 8 <= n => p = b
    /\ 16 <= n => q = c
    /\ 24 <= n => r = d
    /\ 8 <= n + 4 => p \div 16 = b \div 16
    /\ 16 <= n + 1 => q \div 2 = c \div 2
    /\ 16 <= n + 4 => q \div 16 = c \div 16
    /\ 16 <= n + 6 => q \div 64 = c \div 64

\* The octets and the length of each IPv4 block.
OctetPrefix(b, c, d, n) ==
    \/ b = 0 /\ c = 0 /\ d = 0 /\ n = 8
    \/ b = 10 /\ c = 0 /\ d = 0 /\ n = 8
    \/ b = 100 /\ c = 64 /\ d = 0 /\ n = 10
    \/ b = 127 /\ c = 0 /\ d = 0 /\ n = 8
    \/ b = 169 /\ c = 254 /\ d = 0 /\ n = 16
    \/ b = 172 /\ c = 16 /\ d = 0 /\ n = 12
    \/ b = 192 /\ c = 0 /\ d = 0 /\ n = 24
    \/ b = 192 /\ c = 0 /\ d = 2 /\ n = 24
    \/ b = 192 /\ c = 168 /\ d = 0 /\ n = 16
    \/ b = 198 /\ c = 18 /\ d = 0 /\ n = 15
    \/ b = 198 /\ c = 51 /\ d = 100 /\ n = 24
    \/ b = 203 /\ c = 0 /\ d = 113 /\ n = 24
    \/ b = 224 /\ c = 0 /\ d = 0 /\ n = 4
    \/ b = 240 /\ c = 0 /\ d = 0 /\ n = 4

\* Three octets whose first bits are a block's are in it.
LEMMA OctetBlocks ==
    ASSUME NEW p \in Nat, NEW q \in Nat, NEW r \in Nat, NEW b, NEW c, NEW d, NEW n,
           OctetPrefix(b, c, d, n), SameOctets(p, q, r, b, c, d, n)
    PROVE  OctetBlock(p, q, r)
<1>1. CASE b = 0 /\ c = 0 /\ d = 0 /\ n = 8
  <2>1. p = 0
    BY <1>1 DEF SameOctets
  <2> QED BY <2>1 DEF OctetBlock
<1>2. CASE b = 10 /\ c = 0 /\ d = 0 /\ n = 8
  <2>1. p = 10
    BY <1>2 DEF SameOctets
  <2> QED BY <2>1 DEF OctetBlock
<1>3. CASE b = 100 /\ c = 64 /\ d = 0 /\ n = 10
  <2>1. p = 100 /\ q \div 64 = 1
    BY <1>3 DEF SameOctets
  <2> QED BY <2>1 DEF OctetBlock
<1>4. CASE b = 127 /\ c = 0 /\ d = 0 /\ n = 8
  <2>1. p = 127
    BY <1>4 DEF SameOctets
  <2> QED BY <2>1 DEF OctetBlock
<1>5. CASE b = 169 /\ c = 254 /\ d = 0 /\ n = 16
  <2>1. p = 169 /\ q = 254
    BY <1>5 DEF SameOctets
  <2> QED BY <2>1 DEF OctetBlock
<1>6. CASE b = 172 /\ c = 16 /\ d = 0 /\ n = 12
  <2>1. p = 172 /\ q \div 16 = 1
    BY <1>6 DEF SameOctets
  <2> QED BY <2>1 DEF OctetBlock
<1>7. CASE b = 192 /\ c = 0 /\ d = 0 /\ n = 24
  <2>1. p = 192 /\ q = 0 /\ r = 0
    BY <1>7 DEF SameOctets
  <2> QED BY <2>1 DEF OctetBlock
<1>8. CASE b = 192 /\ c = 0 /\ d = 2 /\ n = 24
  <2>1. p = 192 /\ q = 0 /\ r = 2
    BY <1>8 DEF SameOctets
  <2> QED BY <2>1 DEF OctetBlock
<1>9. CASE b = 192 /\ c = 168 /\ d = 0 /\ n = 16
  <2>1. p = 192 /\ q = 168
    BY <1>9 DEF SameOctets
  <2> QED BY <2>1 DEF OctetBlock
<1>10. CASE b = 198 /\ c = 18 /\ d = 0 /\ n = 15
  <2>1. p = 198 /\ q \div 2 = 9
    BY <1>10 DEF SameOctets
  <2> QED BY <2>1 DEF OctetBlock
<1>11. CASE b = 198 /\ c = 51 /\ d = 100 /\ n = 24
  <2>1. p = 198 /\ q = 51 /\ r = 100
    BY <1>11 DEF SameOctets
  <2> QED BY <2>1 DEF OctetBlock
<1>12. CASE b = 203 /\ c = 0 /\ d = 113 /\ n = 24
  <2>1. p = 203 /\ q = 0 /\ r = 113
    BY <1>12 DEF SameOctets
  <2> QED BY <2>1 DEF OctetBlock
<1>13. CASE b = 224 /\ c = 0 /\ d = 0 /\ n = 4
  <2>1. p \div 16 = 14
    BY <1>13 DEF SameOctets
  <2> QED BY <2>1 DEF OctetBlock
<1>14. CASE b = 240 /\ c = 0 /\ d = 0 /\ n = 4
  <2>1. p \div 16 = 15
    BY <1>14 DEF SameOctets
  <2> QED BY <2>1 DEF OctetBlock
<1> QED BY <1>1, <1>2, <1>3, <1>4, <1>5, <1>6, <1>7, <1>8, <1>9,
           <1>10, <1>11, <1>12, <1>13, <1>14 DEF OctetPrefix

\* The octets of an IPv4 address within a prefix.
LEMMA WithinV4 ==
    ASSUME NEW a \in Addresses, a.version = 4,
           NEW b \in Nat, NEW c \in Nat, NEW d \in Nat, NEW e \in Nat,
           b < 256, c < 256, d < 256, e < 256, NEW n \in Nat, Within(a, V4(b, c, d, e), n)
    PROVE  SameOctets(a.words[1], a.words[2], a.words[3], b, c, d, n)
<1> DEFINE p == V4(b, c, d, e)
<1>1. /\ p.version = 4 /\ p.words[1] = b /\ p.words[2] = c /\ p.words[3] = d
      /\ p.words[4] = e
  BY DEF V4
<1> HIDE DEF p
<1>2. \A k \in 1 .. 4 : p.words[k] \in Nat /\ p.words[k] < 256
  BY <1>1
<1>3. \A k \in 1 .. 4 :
        /\ 8 * k <= n => a.words[k] = p.words[k]
        /\ 8 * k <= n + 1 => a.words[k] \div 2 = p.words[k] \div 2
        /\ 8 * k <= n + 4 => a.words[k] \div 16 = p.words[k] \div 16
        /\ 8 * k <= n + 6 => a.words[k] \div 64 = p.words[k] \div 64
  <2>1. Within(a, p, n)
    BY DEF p
  <2> QED BY <1>1, <1>2, <2>1, OctetsWithin
<1> QED BY <1>1, <1>3 DEF SameOctets
\* Two lists of segments agree in their first n bits, as far as the blocks
\* tell them apart.
SameSegments(s, w, n) ==
    \A k \in 1 .. 8 :
        /\ 16 * k <= n => s[k] = w[k]
        /\ 16 * k <= n + 1 => s[k] \div 2 = w[k] \div 2
        /\ 16 * k <= n + 4 => s[k] \div 16 = w[k] \div 16
        /\ 16 * k <= n + 6 => s[k] \div 64 = w[k] \div 64
        /\ 16 * k <= n + 8 => s[k] \div 256 = w[k] \div 256
        /\ 16 * k <= n + 9 => s[k] \div 512 = w[k] \div 512
        /\ 16 * k <= n + 12 => s[k] \div 4096 = w[k] \div 4096

\* Eight segments.
Segments(w) == \A k \in 1 .. 8 : w[k] \in Nat /\ w[k] < 65536

\* The segments of an IPv6 address within a prefix.
LEMMA WithinV6 ==
    ASSUME NEW a \in Addresses, a.version = 6, NEW w, Segments(w),
           NEW n \in Nat, Within(a, V6(w), n)
    PROVE  SameSegments(a.words, w, n)
<1> DEFINE p == V6(w)
<1>1. p.version = 6 /\ p.words = w
  BY DEF V6
<1> HIDE DEF p
<1>2. \A k \in 1 .. 8 : p.words[k] \in Nat /\ p.words[k] < 65536
  BY <1>1 DEF Segments
<1>3. Within(a, p, n)
  BY DEF p
<1> QED BY <1>1, <1>2, <1>3, SegmentsWithin DEF SameSegments

\* An IPv6 address that is not mapped, in one of the blocks, is disallowed.
LEMMA SegmentBlocks ==
    ASSUME NEW s, Segments(s)
    PROVE
      /\ SameSegments(s, <<0, 0, 0, 0, 0, 0, 0, 0>>, 127) => IsDisallowedIp(V6(s))
      /\ SameSegments(s, <<256, 0, 0, 0, 0, 0, 0, 0>>, 64) => IsDisallowedIp(V6(s))
      /\ SameSegments(s, <<8193, 3512, 0, 0, 0, 0, 0, 0>>, 32) => IsDisallowedIp(V6(s))
      /\ SameSegments(s, <<16383, 0, 0, 0, 0, 0, 0, 0>>, 20) => IsDisallowedIp(V6(s))
      /\ SameSegments(s, <<64512, 0, 0, 0, 0, 0, 0, 0>>, 7) => IsDisallowedIp(V6(s))
      /\ SameSegments(s, <<65152, 0, 0, 0, 0, 0, 0, 0>>, 10) => IsDisallowedIp(V6(s))
      /\ SameSegments(s, <<65216, 0, 0, 0, 0, 0, 0, 0>>, 10) => IsDisallowedIp(V6(s))
      /\ SameSegments(s, <<65280, 0, 0, 0, 0, 0, 0, 0>>, 8) => IsDisallowedIp(V6(s))
<1>0. \A k \in 1 .. 8 : s[k] \in Nat
  BY DEF Segments
<1>1. SameSegments(s, <<0, 0, 0, 0, 0, 0, 0, 0>>, 127) => IsDisallowedIp(V6(s))
  <2> HAVE SameSegments(s, <<0, 0, 0, 0, 0, 0, 0, 0>>, 127)
  <2>1. (\A i \in 1 .. 7 : s[i] = 0) /\ s[8] \div 2 = 0
    BY DEF SameSegments
  <2>2. s[8] = 0 \/ s[8] = 1
    <3> DEFINE x == s[8]
    <3>1. x \in Nat /\ x \div 2 = 0
      BY <1>0, <2>1
    <3> HIDE DEF x
    <3>2. x = 0 \/ x = 1
      BY <3>1
    <3> QED BY <3>2 DEF x
  <2>3. s[6] = 0
    BY <2>1
  <2> QED BY <2>1, <2>2, <2>3 DEF IsDisallowedIp, V6, IsMapped
<1>2. ASSUME s[1] # 0 PROVE ~IsMapped(s)
  BY <1>2 DEF IsMapped
<1>3. SameSegments(s, <<256, 0, 0, 0, 0, 0, 0, 0>>, 64) => IsDisallowedIp(V6(s))
  <2> HAVE SameSegments(s, <<256, 0, 0, 0, 0, 0, 0, 0>>, 64)
  <2>1. s[1] = 256 /\ s[2] = 0 /\ s[3] = 0 /\ s[4] = 0
    BY DEF SameSegments
  <2> QED BY <1>2, <2>1 DEF IsDisallowedIp, V6
<1>4. SameSegments(s, <<8193, 3512, 0, 0, 0, 0, 0, 0>>, 32) => IsDisallowedIp(V6(s))
  <2> HAVE SameSegments(s, <<8193, 3512, 0, 0, 0, 0, 0, 0>>, 32)
  <2>1. s[1] = 8193 /\ s[2] = 3512
    BY DEF SameSegments
  <2> QED BY <1>2, <2>1 DEF IsDisallowedIp, V6
<1>5. SameSegments(s, <<16383, 0, 0, 0, 0, 0, 0, 0>>, 20) => IsDisallowedIp(V6(s))
  <2> HAVE SameSegments(s, <<16383, 0, 0, 0, 0, 0, 0, 0>>, 20)
  <2>1. s[1] = 16383 /\ s[2] \div 4096 = 0
    BY DEF SameSegments
  <2> QED BY <1>2, <2>1 DEF IsDisallowedIp, V6
<1>6. s[1] \div 512 = 126 \/ s[1] \div 64 = 1018 \/ s[1] \div 64 = 1019 \/ s[1] \div 256 = 255
        => IsDisallowedIp(V6(s))
  <2> DEFINE x == s[1]
  <2>1. x \in Nat
    BY <1>0
  <2> HIDE DEF x
  <2>2. x \div 512 = 126 \/ x \div 64 = 1018 \/ x \div 64 = 1019 \/ x \div 256 = 255 => x # 0
    BY <2>1
  <2> QED BY <1>2, <2>2 DEF x, IsDisallowedIp, V6
<1>7. SameSegments(s, <<64512, 0, 0, 0, 0, 0, 0, 0>>, 7) => IsDisallowedIp(V6(s))
  <2>1. SameSegments(s, <<64512, 0, 0, 0, 0, 0, 0, 0>>, 7) => s[1] \div 512 = 126
    BY DEF SameSegments
  <2> QED BY <1>6, <2>1
<1>8. SameSegments(s, <<65152, 0, 0, 0, 0, 0, 0, 0>>, 10) => IsDisallowedIp(V6(s))
  <2>1. SameSegments(s, <<65152, 0, 0, 0, 0, 0, 0, 0>>, 10) => s[1] \div 64 = 1018
    BY DEF SameSegments
  <2> QED BY <1>6, <2>1
<1>9. SameSegments(s, <<65216, 0, 0, 0, 0, 0, 0, 0>>, 10) => IsDisallowedIp(V6(s))
  <2>1. SameSegments(s, <<65216, 0, 0, 0, 0, 0, 0, 0>>, 10) => s[1] \div 64 = 1019
    BY DEF SameSegments
  <2> QED BY <1>6, <2>1
<1>10. SameSegments(s, <<65280, 0, 0, 0, 0, 0, 0, 0>>, 8) => IsDisallowedIp(V6(s))
  <2>1. SameSegments(s, <<65280, 0, 0, 0, 0, 0, 0, 0>>, 8) => s[1] \div 256 = 255
    BY DEF SameSegments
  <2> QED BY <1>6, <2>1
<1> QED BY <1>1, <1>3, <1>4, <1>5, <1>7, <1>8, <1>9, <1>10

\* The segments of a mapped address.
MappedWords(b, c, d, e) == <<0, 0, 0, 0, 0, 65535, b * 256 + c, d * 256 + e>>

\* s is mapped, and its first octets are those of b, c and d.
MappedWithin(s, b, c, d, m) ==
    /\ IsMapped(s)
    /\ SameOctets(s[7] \div 256, s[7] % 256, s[8] \div 256, b, c, d, m)

\* The octets of a mapped address within a mapped prefix.
LEMMA MappedOctets ==
    ASSUME NEW s, Segments(s),
           NEW b \in Nat, NEW c \in Nat, NEW d \in Nat, NEW e \in Nat,
           b < 256, c < 256, d < 256, e < 256, NEW m \in Nat,
           SameSegments(s, MappedWords(b, c, d, e), 96 + m)
    PROVE  MappedWithin(s, b, c, d, m)
<1> DEFINE x == s[7]
           y == s[8]
           h == b * 256 + c
           l == d * 256 + e
<1>1. x \in Nat /\ y \in Nat
  BY DEF Segments
<1>2. IsMapped(s)
  BY DEF SameSegments, IsMapped, MappedWords
<1>3. /\ 112 <= 96 + m => x = h
      /\ 112 <= 96 + m + 1 => x \div 2 = h \div 2
      /\ 112 <= 96 + m + 4 => x \div 16 = h \div 16
      /\ 112 <= 96 + m + 6 => x \div 64 = h \div 64
      /\ 112 <= 96 + m + 8 => x \div 256 = h \div 256
      /\ 112 <= 96 + m + 12 => x \div 4096 = h \div 4096
      /\ 128 <= 96 + m + 8 => y \div 256 = l \div 256
  BY DEF SameSegments, MappedWords
<1>4. h \in Nat /\ l \in Nat
  OBVIOUS
<1>5. /\ h \div 256 = b /\ h % 256 = c /\ l \div 256 = d
      /\ h \div 4096 = b \div 16
  OBVIOUS
<1>6. /\ (h % 256) \div 2 = c \div 2 /\ (h % 256) \div 16 = c \div 16
      /\ (h % 256) \div 64 = c \div 64
  BY <1>5
<1> HIDE DEF x, y, h, l
<1>7. /\ x \div 2 = h \div 2 => (x % 256) \div 2 = (h % 256) \div 2
      /\ x \div 16 = h \div 16 => (x % 256) \div 16 = (h % 256) \div 16
      /\ x \div 64 = h \div 64 => (x % 256) \div 64 = (h % 256) \div 64
      /\ (x \div 256) \div 16 = x \div 4096
  BY <1>1, <1>4
<1>8. SameOctets(x \div 256, x % 256, y \div 256, b, c, d, m)
  BY <1>3, <1>5, <1>6, <1>7 DEF SameOctets
<1> QED BY <1>2, <1>8 DEF x, y, MappedWithin
\* The blocks once more: the octets and the length of each IPv4 block, ...
Prefixes ==
    {<<0, 0, 0, 0, 8>>, <<10, 0, 0, 0, 8>>, <<100, 64, 0, 0, 10>>,
     <<127, 0, 0, 0, 8>>, <<169, 254, 0, 0, 16>>, <<172, 16, 0, 0, 12>>,
     <<192, 0, 0, 0, 24>>, <<192, 0, 2, 0, 24>>, <<192, 168, 0, 0, 16>>,
     <<198, 18, 0, 0, 15>>, <<198, 51, 100, 0, 24>>, <<203, 0, 113, 0, 24>>,
     <<224, 0, 0, 0, 4>>, <<240, 0, 0, 0, 4>>}
\* ... and the segments and the length of each IPv6 block.
Prefixes6 ==
    {<<<<0, 0, 0, 0, 0, 0, 0, 0>>, 127>>, <<<<256, 0, 0, 0, 0, 0, 0, 0>>, 64>>,
     <<<<8193, 3512, 0, 0, 0, 0, 0, 0>>, 32>>, <<<<16383, 0, 0, 0, 0, 0, 0, 0>>, 20>>,
     <<<<64512, 0, 0, 0, 0, 0, 0, 0>>, 7>>, <<<<65152, 0, 0, 0, 0, 0, 0, 0>>, 10>>,
     <<<<65216, 0, 0, 0, 0, 0, 0, 0>>, 10>>, <<<<65280, 0, 0, 0, 0, 0, 0, 0>>, 8>>}

\* They have the form of addresses.
LEMMA PrefixesTyped ==
    /\ \A t \in Prefixes : /\ \A i \in 1 .. 4 : t[i] \in Nat /\ t[i] < 256
                           /\ t[5] \in Nat
    /\ \A t \in Prefixes6 : Segments(t[1]) /\ t[2] \in Nat
<1>1. \A t \in Prefixes : t[1] \in Nat /\ t[1] < 256 /\ t[2] \in Nat /\ t[2] < 256
  BY DEF Prefixes
<1>2. \A t \in Prefixes : t[3] \in Nat /\ t[3] < 256 /\ t[4] \in Nat /\ t[4] < 256
  BY DEF Prefixes
<1>3. \A t \in Prefixes : t[5] \in Nat
  BY DEF Prefixes
<1>4. \A t \in Prefixes6 : t[2] \in Nat
  BY DEF Prefixes6
<1>5. \A t \in Prefixes6 : Segments(t[1])
  <2>1. \A x \in Nat : x < 65536 => Segments(<<x, 0, 0, 0, 0, 0, 0, 0>>)
    BY DEF Segments
  <2>2. Segments(<<8193, 3512, 0, 0, 0, 0, 0, 0>>)
    BY DEF Segments
  <2>3. \A t \in Prefixes6 :
           \/ t[1] = <<8193, 3512, 0, 0, 0, 0, 0, 0>>
           \/ \E x \in Nat : x < 65536 /\ t[1] = <<x, 0, 0, 0, 0, 0, 0, 0>>
    BY DEF Prefixes6
  <2> QED BY <2>1, <2>2, <2>3
<1> QED BY <1>1, <1>2, <1>3, <1>4, <1>5

\* Every block of the property is one of them.
LEMMA BlockForms ==
    /\ \A b \in NamedBlocks :
         \/ \E t \in Prefixes : b = <<V4(t[1], t[2], t[3], t[4]), t[5]>>
         \/ \E t \in Prefixes6 : b = <<V6(t[1]), t[2]>>
    /\ \A b \in MappedBlocks : \E t \in Prefixes :
         b = <<V6(MappedWords(t[1], t[2], t[3], t[4])), 96 + t[5]>>
<1>1. ASSUME NEW b \in NamedBlocks
      PROVE  \/ \E t \in Prefixes : b = <<V4(t[1], t[2], t[3], t[4]), t[5]>>
             \/ \E t \in Prefixes6 : b = <<V6(t[1]), t[2]>>
  <2>1. CASE b = <<V4(0, 0, 0, 0), 8>>
    <3>1. <<0, 0, 0, 0, 8>> \in Prefixes
      BY DEF Prefixes
    <3> QED BY <2>1, <3>1
  <2>2. CASE b = <<V4(10, 0, 0, 0), 8>>
    <3>1. <<10, 0, 0, 0, 8>> \in Prefixes
      BY DEF Prefixes
    <3> QED BY <2>2, <3>1
  <2>3. CASE b = <<V4(100, 64, 0, 0), 10>>
    <3>1. <<100, 64, 0, 0, 10>> \in Prefixes
      BY DEF Prefixes
    <3> QED BY <2>3, <3>1
  <2>4. CASE b = <<V4(127, 0, 0, 0), 8>>
    <3>1. <<127, 0, 0, 0, 8>> \in Prefixes
      BY DEF Prefixes
    <3> QED BY <2>4, <3>1
  <2>5. CASE b = <<V4(169, 254, 0, 0), 16>>
    <3>1. <<169, 254, 0, 0, 16>> \in Prefixes
      BY DEF Prefixes
    <3> QED BY <2>5, <3>1
  <2>6. CASE b = <<V4(172, 16, 0, 0), 12>>
    <3>1. <<172, 16, 0, 0, 12>> \in Prefixes
      BY DEF Prefixes
    <3> QED BY <2>6, <3>1
  <2>7. CASE b = <<V4(192, 0, 0, 0), 24>>
    <3>1. <<192, 0, 0, 0, 24>> \in Prefixes
      BY DEF Prefixes
    <3> QED BY <2>7, <3>1
  <2>8. CASE b = <<V4(192, 0, 2, 0), 24>>
    <3>1. <<192, 0, 2, 0, 24>> \in Prefixes
      BY DEF Prefixes
    <3> QED BY <2>8, <3>1
  <2>9. CASE b = <<V4(192, 168, 0, 0), 16>>
    <3>1. <<192, 168, 0, 0, 16>> \in Prefixes
      BY DEF Prefixes
    <3> QED BY <2>9, <3>1
  <2>10. CASE b = <<V4(198, 18, 0, 0), 15>>
    <3>1. <<198, 18, 0, 0, 15>> \in Prefixes
      BY DEF Prefixes
    <3> QED BY <2>10, <3>1
  <2>11. CASE b = <<V4(198, 51, 100, 0), 24>>
    <3>1. <<198, 51, 100, 0, 24>> \in Prefixes
      BY DEF Prefixes
    <3> QED BY <2>11, <3>1
  <2>12. CASE b = <<V4(203, 0, 113, 0), 24>>
    <3>1. <<203, 0, 113, 0, 24>> \in Prefixes
      BY DEF Prefixes
    <3> QED BY <2>12, <3>1
  <2>13. CASE b = <<V4(224, 0, 0, 0), 4>>
    <3>1. <<224, 0, 0, 0, 4>> \in Prefixes
      BY DEF Prefixes
    <3> QED BY <2>13, <3>1
  <2>14. CASE b = <<V4(240, 0, 0, 0), 4>>
    <3>1. <<240, 0, 0, 0, 4>> \in Prefixes
      BY DEF Prefixes
    <3> QED BY <2>14, <3>1
  <2>15. CASE b = <<V6(<<0, 0, 0, 0, 0, 0, 0, 0>>), 127>>
    <3>1. <<<<0, 0, 0, 0, 0, 0, 0, 0>>, 127>> \in Prefixes6
      BY DEF Prefixes6
    <3> QED BY <2>15, <3>1
  <2>16. CASE b = <<V6(<<256, 0, 0, 0, 0, 0, 0, 0>>), 64>>
    <3>1. <<<<256, 0, 0, 0, 0, 0, 0, 0>>, 64>> \in Prefixes6
      BY DEF Prefixes6
    <3> QED BY <2>16, <3>1
  <2>17. CASE b = <<V6(<<8193, 3512, 0, 0, 0, 0, 0, 0>>), 32>>
    <3>1. <<<<8193, 3512, 0, 0, 0, 0, 0, 0>>, 32>> \in Prefixes6
      BY DEF Prefixes6
    <3> QED BY <2>17, <3>1
  <2>18. CASE b = <<V6(<<16383, 0, 0, 0, 0, 0, 0, 0>>), 20>>
    <3>1. <<<<16383, 0, 0, 0, 0, 0, 0, 0>>, 20>> \in Prefixes6
      BY DEF Prefixes6
    <3> QED BY <2>18, <3>1
  <2>19. CASE b = <<V6(<<64512, 0, 0, 0, 0, 0, 0, 0>>), 7>>
    <3>1. <<<<64512, 0, 0, 0, 0, 0, 0, 0>>, 7>> \in Prefixes6
      BY DEF Prefixes6
    <3> QED BY <2>19, <3>1
  <2>20. CASE b = <<V6(<<65152, 0, 0, 0, 0, 0, 0, 0>>), 10>>
    <3>1. <<<<65152, 0, 0, 0, 0, 0, 0, 0>>, 10>> \in Prefixes6
      BY DEF Prefixes6
    <3> QED BY <2>20, <3>1
  <2>21. CASE b = <<V6(<<65216, 0, 0, 0, 0, 0, 0, 0>>), 10>>
    <3>1. <<<<65216, 0, 0, 0, 0, 0, 0, 0>>, 10>> \in Prefixes6
      BY DEF Prefixes6
    <3> QED BY <2>21, <3>1
  <2>22. CASE b = <<V6(<<65280, 0, 0, 0, 0, 0, 0, 0>>), 8>>
    <3>1. <<<<65280, 0, 0, 0, 0, 0, 0, 0>>, 8>> \in Prefixes6
      BY DEF Prefixes6
    <3> QED BY <2>22, <3>1
  <2> QED
    BY <2>1, <2>2, <2>3, <2>4, <2>5, <2>6, <2>7, <2>8, <2>9, <2>10,
       <2>11, <2>12, <2>13, <2>14, <2>15, <2>16, <2>17, <2>18, <2>19, <2>20,
       <2>21, <2>22
    DEF NamedBlocks
<1>2. ASSUME NEW b \in NamedBlocks, b[1].version = 4
      PROVE  \E t \in Prefixes : b = <<V4(t[1], t[2], t[3], t[4]), t[5]>>
  BY <1>1, <1>2 DEF V6
<1>3. ASSUME NEW b \in MappedBlocks
      PROVE  \E t \in Prefixes :
               b = <<V6(MappedWords(t[1], t[2], t[3], t[4])), 96 + t[5]>>
  <2>1. PICK x \in NamedBlocks : x[1].version = 4
           /\ b = <<V6(MappedWords(x[1].words[1], x[1].words[2], x[1].words[3],
                                   x[1].words[4])), 96 + x[2]>>
    BY DEF MappedBlocks, MappedWords
  <2>2. PICK t \in Prefixes : x = <<V4(t[1], t[2], t[3], t[4]), t[5]>>
    BY <1>2, <2>1
  <2>3. /\ x[1].words[1] = t[1] /\ x[1].words[2] = t[2] /\ x[1].words[3] = t[3]
        /\ x[1].words[4] = t[4] /\ x[2] = t[5]
    BY <2>2 DEF V4
  <2> QED BY <2>1, <2>3
<1> QED BY <1>1, <1>3
\* Octets within a prefix of the list are in its block.
LEMMA PrefixesBlock ==
    ASSUME NEW t \in Prefixes, NEW p \in Nat, NEW q \in Nat, NEW r \in Nat,
           SameOctets(p, q, r, t[1], t[2], t[3], t[5])
    PROVE  OctetBlock(p, q, r)
<1>1. OctetPrefix(t[1], t[2], t[3], t[5])
  BY DEF Prefixes, OctetPrefix
<1> QED BY <1>1, OctetBlocks

\* is_disallowed_ip refuses every address of every block that is named.
LEMMA AllowedIsUnnamed ==
    ASSUME NEW a \in Addresses, ~IsDisallowedIp(a),
           NEW b \in NamedBlocks \cup MappedBlocks
    PROVE  ~InBlock(a, b)
<1> SUFFICES ASSUME b[1].version = a.version, Within(a, b[1], b[2])
             PROVE  FALSE
  BY DEF InBlock, Within
<1>1. ASSUME NEW t \in Prefixes, b = <<V4(t[1], t[2], t[3], t[4]), t[5]>> PROVE FALSE
  <2>1. a.version = 4 /\ Within(a, V4(t[1], t[2], t[3], t[4]), t[5])
    BY <1>1 DEF V4
  <2>2. SameOctets(a.words[1], a.words[2], a.words[3], t[1], t[2], t[3], t[5])
    BY <2>1, PrefixesTyped, WithinV4
  <2>3. a.words[1] \in Nat /\ a.words[2] \in Nat /\ a.words[3] \in Nat
    BY <2>1, AddressWords
  <2>4. OctetBlock(a.words[1], a.words[2], a.words[3])
    BY <2>2, <2>3, PrefixesBlock
  <2>5. IsDisallowedIpv4(a.words)
    BY <2>3, <2>4, OctetBlockDisallowed
  <2> QED BY <2>1, <2>5 DEF IsDisallowedIp
<1>2. ASSUME a.version = 6 PROVE Segments(a.words) /\ V6(a.words) = a
  <2>1. Segments(a.words)
    BY <1>2, AddressWords DEF Segments
  <2>2. V6(a.words) = a
    BY <1>2 DEF Addresses, V6
  <2> QED BY <2>1, <2>2
<1>3. ASSUME NEW t \in Prefixes6, b = <<V6(t[1]), t[2]>> PROVE FALSE
  <2>1. a.version = 6 /\ Within(a, V6(t[1]), t[2])
    BY <1>3 DEF V6
  <2>2. SameSegments(a.words, t[1], t[2])
    BY <2>1, PrefixesTyped, WithinV6
  <2>3. IsDisallowedIp(V6(a.words))
    BY <1>2, <2>1, <2>2, SegmentBlocks DEF Prefixes6
  <2> QED BY <1>2, <2>1, <2>3
<1>4. ASSUME NEW t \in Prefixes,
             b = <<V6(MappedWords(t[1], t[2], t[3], t[4])), 96 + t[5]>>
      PROVE  FALSE
  <2> DEFINE w == MappedWords(t[1], t[2], t[3], t[4])
             s == a.words
  <2>0. /\ t[1] \in Nat /\ t[2] \in Nat /\ t[3] \in Nat /\ t[4] \in Nat /\ t[5] \in Nat
        /\ t[1] < 256 /\ t[2] < 256 /\ t[3] < 256 /\ t[4] < 256
    BY PrefixesTyped
  <2>1. a.version = 6 /\ Within(a, V6(w), 96 + t[5])
    BY <1>4 DEF V6
  <2>2. Segments(w)
    BY <2>0 DEF Segments, MappedWords
  <2>3. SameSegments(s, w, 96 + t[5])
    <3> HIDE DEF w
    <3> QED BY <2>0, <2>1, <2>2, WithinV6
  <2>4. Segments(s) /\ V6(s) = a
    BY <1>2, <2>1
  <2>5. /\ IsMapped(s)
        /\ SameOctets(s[7] \div 256, s[7] % 256, s[8] \div 256, t[1], t[2], t[3], t[5])
    <3> HIDE DEF s
    <3>1. MappedWithin(s, t[1], t[2], t[3], t[5])
      BY <2>0, <2>3, <2>4, MappedOctets
    <3> QED BY <3>1 DEF MappedWithin
  <2>6. s[7] \div 256 \in Nat /\ s[7] % 256 \in Nat /\ s[8] \div 256 \in Nat
    <3>1. s[7] \in Nat /\ s[8] \in Nat
      BY <2>4 DEF Segments
    <3> HIDE DEF s
    <3> QED BY <3>1
  <2>7. OctetBlock(s[7] \div 256, s[7] % 256, s[8] \div 256)
    <3> HIDE DEF s
    <3> QED BY <2>5, <2>6, PrefixesBlock
  <2>8. IsDisallowedIpv4(Unmapped(s))
    <3> DEFINE u == Unmapped(s)
    <3>1. u[1] = s[7] \div 256 /\ u[2] = s[7] % 256 /\ u[3] = s[8] \div 256
      BY DEF Unmapped
    <3> HIDE DEF u, s
    <3>2. IsDisallowedIpv4(u)
      BY <2>6, <2>7, <3>1, OctetBlockDisallowed
    <3> QED BY <3>2 DEF u
  <2> QED BY <2>1, <2>5, <2>8 DEF IsDisallowedIp
<1>5. CASE b \in NamedBlocks
  BY <1>1, <1>3, <1>5, BlockForms
<1>6. CASE b \in MappedBlocks
  BY <1>4, <1>6, BlockForms
<1> QED BY <1>5, <1>6
-----------------------------------------------------------------------------
(* Induction over numbers, and the numbers it finds.                       *)

\* A set of numbers with 0 and all successors has every number.
LEMMA NatSetInduction ==
    ASSUME NEW X, 0 \in X, \A n \in Nat : n \in X => n + 1 \in X
    PROVE  \A n \in Nat : n \in X
<1> SUFFICES ASSUME NEW n \in Nat, n \notin X PROVE FALSE
  OBVIOUS
<1> DEFINE T == {S \in SUBSET (0 .. n) : \E k \in 0 .. n : S = 0 .. k /\ k \notin X}
<1>1. IsFiniteSet(0 .. n)
  BY FS_Interval
<1>2. 0 .. n \in T
  OBVIOUS
<1>3. PICK S \in T : \A U \in T : ~(<<U, S>> \in StrictSubsetOrdering(0 .. n))
  <2> DEFINE R == StrictSubsetOrdering(0 .. n)
             F == SUBSET (0 .. n)
  <2>1. IsWellFoundedOn(R, F)
    BY <1>1, FS_StrictSubsetOrderingWellFounded, FS_FiniteSubsetsOfFinite
  <2>2. T \subseteq F /\ T # {}
    BY <1>2
  <2> HIDE DEF T, R, F
  <2>3. \E x \in T : \A y \in T : ~(<<y, x>> \in R)
    BY <2>1, <2>2, WFMin
  <2> QED BY <2>3 DEF R
<1>4. PICK k \in 0 .. n : S = 0 .. k /\ k \notin X
  OBVIOUS
<1>5. k # 0 /\ k - 1 \notin X
  BY <1>4
<1>6. 0 .. (k - 1) \in T
  BY <1>5
<1>7. <<0 .. (k - 1), 0 .. k>> \in StrictSubsetOrdering(0 .. n)
  BY <1>5 DEF StrictSubsetOrdering
<1> QED BY <1>3, <1>4, <1>6, <1>7

\* A set of numbers has a least one.
LEMMA LeastIn ==
    ASSUME NEW S \in SUBSET Nat, S # {}
    PROVE  Min(S) \in S /\ \A y \in S : Min(S) <= y
<1> DEFINE X == {n \in Nat : (\E y \in S : y <= n) => \E x \in S : \A y \in S : x <= y}
<1>1. 0 \in X
  OBVIOUS
<1>2. ASSUME NEW n \in Nat, n \in X PROVE n + 1 \in X
  <2> SUFFICES ASSUME NEW z \in S, z <= n + 1 PROVE \E x \in S : \A y \in S : x <= y
    OBVIOUS
  <2>1. CASE \E y \in S : y <= n
    BY <1>2, <2>1
  <2>2. CASE ~\E y \in S : y <= n
    <3>1. \A y \in S : z <= y
      BY <2>2
    <3> QED BY <3>1
  <2> QED BY <2>1, <2>2
<1>3. \A n \in Nat : n \in X
  <2> HIDE DEF X
  <2> QED BY <1>1, <1>2, NatSetInduction
<1>4. PICK z \in S : TRUE
  OBVIOUS
<1>5. z \in X /\ z <= z
  BY <1>3
<1>6. \E x \in S : \A y \in S : x <= y
  BY <1>5
<1> QED BY <1>6 DEF Min

\* A finite set of numbers has a greatest one.
LEMMA GreatestIn ==
    ASSUME NEW S \in SUBSET Nat, S # {}, IsFiniteSet(S)
    PROVE  Max(S) \in S /\ \A y \in S : Max(S) >= y
<1> DEFINE great(U) == \E x \in U : \A y \in U : x >= y
           X == {n \in Nat : \A U \in SUBSET S : Cardinality(U) = n => U = {} \/ great(U)}
<1>1. \A U \in SUBSET S : IsFiniteSet(U) /\ Cardinality(U) \in Nat
                           /\ (Cardinality(U) = 0 => U = {})
  BY FS_Subset, FS_CardinalityType, FS_EmptySet
<1>2. 0 \in X
  BY <1>1
<1>3. ASSUME NEW n \in Nat, n \in X PROVE n + 1 \in X
  <2> SUFFICES ASSUME NEW U \in SUBSET S, Cardinality(U) = n + 1, NEW u \in U
               PROVE  great(U)
    OBVIOUS
  <2>1. U \ {u} \in SUBSET S /\ Cardinality(U \ {u}) = n
    <3>1. IsFiniteSet(U)
      BY <1>1
    <3>2. Cardinality(U \ {u}) = Cardinality(U) - 1
      BY <3>1, FS_RemoveElement
    <3> QED BY <3>2
  <2>2. U \ {u} = {} \/ great(U \ {u})
    BY <1>3, <2>1
  <2>3. CASE U \ {u} = {}
    <3>1. \A y \in U : u >= y
      BY <2>3
    <3> QED BY <3>1
  <2>4. CASE great(U \ {u})
    <3>1. PICK x \in U \ {u} : \A y \in U \ {u} : x >= y
      BY <2>4
    <3>2. CASE x >= u
      <4>1. \A y \in U : x >= y
        BY <3>1, <3>2
      <4> QED BY <4>1
    <3>3. CASE u >= x
      <4>1. \A y \in U : u >= y
        BY <3>1, <3>3
      <4> QED BY <4>1
    <3> QED BY <3>2, <3>3
  <2> QED BY <2>2, <2>3, <2>4
<1>4. \A n \in Nat : n \in X
  <2> HIDE DEF X
  <2> QED BY <1>2, <1>3, NatSetInduction
<1>5. great(S)
  BY <1>1, <1>4
<1> QED BY <1>5 DEF Max

\* MaxUrls bounds the URLs of every certificate.
LEMMA MaxUrlsBounds == MaxUrls \in Nat /\ \A c \in Certs : Len(AiaUrls(c)) <= MaxUrls
<1> DEFINE S == {Len(AiaUrls(c)) : c \in Certs}
<1>1. \A c \in Certs : Len(AiaUrls(c)) \in Nat
  BY StartAssumption, LenProperties
<1>2. S \in SUBSET Nat /\ S # {}
  BY <1>1, StartAssumption
<1>3. IsFiniteSet(S)
  <2> DEFINE f == [c \in Certs |-> Len(AiaUrls(c))]
  <2>1. f \in Surjection(Certs, S)
    BY DEF Surjection
  <2> HIDE DEF f, S
  <2> QED BY <2>1, StartAssumption, FS_Surjection
<1>4. MaxUrls \in S /\ \A y \in S : MaxUrls >= y
  <2>1. MaxUrls = Max(S)
    BY DEF MaxUrls
  <2> HIDE DEF S
  <2> QED BY <1>2, <1>3, <2>1, GreatestIn
<1>5. \A c \in Certs : MaxUrls >= Len(AiaUrls(c))
  BY <1>4
<1>6. MaxUrls \in Nat
  BY <1>2, <1>4
<1> QED BY <1>1, <1>5, <1>6
-----------------------------------------------------------------------------
(* build_chain_from_certs.                                                 *)

\* A certificate ends a chain by its names.
Ends(c, store) == FindIssuer(c, store) \/ IsSelfIssued(c)

\* One round of the loop.
Collect(before, n, certs, store) ==
    IF Len(before) < n - 1 \/ Ends(LastOf(before), store) \/ Named(LastOf(before), certs) = {}
    THEN before ELSE Append(before, InPool(LastOf(before), certs))

\* The function that BuildChainFromCerts chooses for its rounds.
IsCollected(g, leaf, certs, store) ==
    g = [n \in 1 .. MaxChainDepth |->
           IF n = 1 THEN <<leaf>> ELSE Collect(g[n - 1], n, certs, store)]

\* There is one.
LEMMA CollectedExists ==
    ASSUME NEW leaf, NEW certs, NEW store
    PROVE  \E g : IsCollected(g, leaf, certs, store)
<1> DEFINE D == 1 .. MaxChainDepth
           val(h, n) == IF n = 1 THEN <<leaf>> ELSE Collect(h[n - 1], n, certs, store)
           X == {m \in Nat : \E h : h = [n \in D |-> h[n]]
                                  /\ \A n \in D : n <= m => h[n] = val(h, n)}
<1>1. 0 \in X
  <2> DEFINE h == [n \in D |-> <<>>]
  <2>1. h = [n \in D |-> h[n]] /\ \A n \in D : n <= 0 => h[n] = val(h, n)
    BY DepthAssumption
  <2> HIDE DEF h, val
  <2> QED BY <2>1
<1>2. ASSUME NEW m \in Nat, m \in X PROVE m + 1 \in X
  <2>1. PICK h : h = [n \in D |-> h[n]] /\ \A n \in D : n <= m => h[n] = val(h, n)
    BY <1>2
  <2> DEFINE g == [n \in D |-> val(h, n)]
  <2>2. \A n \in D : n <= m => g[n] = h[n]
    BY <2>1
  <2>3. ASSUME NEW n \in D, n <= m + 1 PROVE g[n] = val(g, n)
    <3>1. CASE n = 1
      BY <3>1
    <3>2. CASE n # 1
      <4>1. n - 1 \in D /\ n - 1 <= m
        BY <2>3, <3>2, DepthAssumption
      <4>2. g[n - 1] = h[n - 1]
        BY <2>2, <4>1
      <4>3. g[n] = Collect(h[n - 1], n, certs, store)
        BY <3>2
      <4> HIDE DEF g
      <4> QED BY <3>2, <4>2, <4>3
    <3> QED BY <3>1, <3>2
  <2>4. g = [n \in D |-> g[n]]
    OBVIOUS
  <2> HIDE DEF g, val, D
  <2>5. g = [n \in D |-> g[n]] /\ \A n \in D : n <= m + 1 => g[n] = val(g, n)
    BY <2>3, <2>4
  <2>6. \E k : k = [n \in D |-> k[n]] /\ \A n \in D : n <= m + 1 => k[n] = val(k, n)
    BY <2>5
  <2> QED BY <2>6
<1>3. \A m \in Nat : m \in X
  <2> HIDE DEF X
  <2> QED BY <1>1, <1>2, NatSetInduction
<1>4. PICK h : h = [n \in D |-> h[n]] /\ \A n \in D : n <= MaxChainDepth => h[n] = val(h, n)
  BY <1>3, DepthAssumption
<1>5. h = [n \in D |-> val(h, n)]
  <2> HIDE DEF val
  <2>1. \A n \in D : h[n] = val(h, n)
    BY <1>4, DepthAssumption
  <2> QED BY <1>4, <2>1
<1> QED BY <1>5 DEF IsCollected

\* The certificate taken from the list is one of the list.
LEMMA InPoolTyped ==
    ASSUME NEW certs \in Seq(Certs), NEW c, Named(c, certs) # {}
    PROVE  InPool(c, certs) \in Certs
<1>1. Named(c, certs) \in SUBSET Nat /\ \A i \in Named(c, certs) : i \in 1 .. Len(certs)
  BY LenProperties DEF Named
<1>2. Min(Named(c, certs)) \in 1 .. Len(certs)
  BY <1>1, LeastIn
<1> QED BY <1>2, ElementOfSeq DEF InPool

\* What the rounds have collected: from the leaf on, each certificate the first
\* of the list that has the name of the issuer of the one before, and as many
\* as the rounds or the list allow.
Ordered(c, n, leaf, certs, store) ==
    /\ c \in Seq(Certs) /\ Len(c) \in 1 .. n /\ c[1] = leaf
    /\ \A i \in 1 .. Len(c) - 1 :
         ~Ends(c[i], store) /\ Named(c[i], certs) # {} /\ c[i + 1] = InPool(c[i], certs)
    /\ Len(c) = n \/ Ends(LastOf(c), store) \/ Named(LastOf(c), certs) = {}

\* One round keeps that.
LEMMA CollectOrdered ==
    ASSUME NEW n \in Nat \ {0}, NEW before, NEW leaf, NEW certs \in Seq(Certs), NEW store,
           Ordered(before, n, leaf, certs, store)
    PROVE  Ordered(Collect(before, n + 1, certs, store), n + 1, leaf, certs, store)
<1> DEFINE last == LastOf(before)
           x == InPool(last, certs)
<1>1. /\ before \in Seq(Certs) /\ Len(before) \in 1 .. n /\ before[1] = leaf
      /\ \A i \in 1 .. Len(before) - 1 : /\ ~Ends(before[i], store)
                                         /\ Named(before[i], certs) # {}
                                         /\ before[i + 1] = InPool(before[i], certs)
      /\ Len(before) = n \/ Ends(last, store) \/ Named(last, certs) = {}
  BY DEF Ordered
<1>2. CASE Len(before) < n \/ Ends(last, store) \/ Named(last, certs) = {}
  <2>1. Collect(before, n + 1, certs, store) = before
    BY <1>2 DEF Collect
  <2>2. Ends(last, store) \/ Named(last, certs) = {}
    BY <1>1, <1>2
  <2> QED BY <1>1, <2>1, <2>2 DEF Ordered
<1>3. CASE Len(before) = n /\ ~Ends(last, store) /\ Named(last, certs) # {}
  <2>1. Collect(before, n + 1, certs, store) = Append(before, x)
    BY <1>3 DEF Collect
  <2>2. x \in Certs
    BY <1>3, InPoolTyped
  <2> HIDE DEF x
  <2>3. /\ Append(before, x) \in Seq(Certs) /\ Len(Append(before, x)) = n + 1
        /\ Append(before, x)[n + 1] = x
        /\ \A i \in 1 .. n : Append(before, x)[i] = before[i]
    BY <1>1, <1>3, <2>2, AppendProperties
  <2> DEFINE c == Append(before, x)
  <2> HIDE DEF c
  <2>4. ASSUME NEW i \in 1 .. n
        PROVE  ~Ends(c[i], store) /\ Named(c[i], certs) # {} /\ c[i + 1] = InPool(c[i], certs)
    <3>1. c[i] = before[i]
      BY <2>3 DEF c
    <3>2. CASE i < n
      <4>1. i \in 1 .. Len(before) - 1 /\ i + 1 \in 1 .. n
        BY <1>3, <3>2
      <4>2. c[i + 1] = before[i + 1]
        BY <2>3, <4>1 DEF c
      <4> QED BY <1>1, <3>1, <4>1, <4>2
    <3>3. CASE i = n
      <4>1. before[i] = last
        BY <1>3, <3>3 DEF LastOf
      <4>2. c[i + 1] = x
        BY <2>3, <3>3 DEF c
      <4> QED BY <1>3, <3>1, <4>1, <4>2 DEF x
    <3> QED BY <3>2, <3>3
  <2>5. Ordered(c, n + 1, leaf, certs, store)
    <3>1. c \in Seq(Certs) /\ Len(c) = n + 1 /\ c[1] = leaf
      BY <1>1, <2>3 DEF c
    <3>2. Len(c) \in 1 .. n + 1 /\ Len(c) - 1 = n
      BY <3>1
    <3>3. \A i \in 1 .. Len(c) - 1 :
             ~Ends(c[i], store) /\ Named(c[i], certs) # {} /\ c[i + 1] = InPool(c[i], certs)
      BY <2>4, <3>2
    <3> QED BY <3>1, <3>2, <3>3 DEF Ordered
  <2> QED BY <2>1, <2>5 DEF c
<1> QED BY <1>1, <1>2, <1>3

\* So build_chain_from_certs returns a chain in order.
LEMMA BuildOrdered ==
    ASSUME NEW leaf \in Certs, NEW certs \in Seq(Certs), NEW store
    PROVE  Ordered(BuildChainFromCerts(leaf, certs, store), MaxChainDepth, leaf, certs, store)
<1> DEFINE g == CHOOSE g : IsCollected(g, leaf, certs, store)
           X == {m \in Nat : m + 1 \in 1 .. MaxChainDepth
                               => Ordered(g[m + 1], m + 1, leaf, certs, store)}
<1>1. IsCollected(g, leaf, certs, store)
  BY CollectedExists
<1>2. BuildChainFromCerts(leaf, certs, store) = g[MaxChainDepth]
  BY DEF BuildChainFromCerts, IsCollected, Collect, Ends
<1> HIDE DEF g
<1>3. /\ g[1] = <<leaf>>
      /\ \A n \in 1 .. MaxChainDepth :
           n # 1 => g[n] = Collect(g[n - 1], n, certs, store)
  BY <1>1, DepthAssumption DEF IsCollected
<1>4. 0 \in X
  <2>1. Ordered(<<leaf>>, 1, leaf, certs, store)
    <3>1. <<leaf>> \in Seq(Certs) /\ Len(<<leaf>>) = 1 /\ <<leaf>>[1] = leaf
      OBVIOUS
    <3> QED BY <3>1 DEF Ordered
  <2> QED BY <1>3, <2>1
<1>5. ASSUME NEW m \in Nat, m \in X PROVE m + 1 \in X
  <2> SUFFICES ASSUME m + 2 \in 1 .. MaxChainDepth
               PROVE  Ordered(g[m + 2], m + 2, leaf, certs, store)
    OBVIOUS
  <2>1. m + 1 \in 1 .. MaxChainDepth /\ m + 1 \in Nat \ {0} /\ (m + 2) - 1 = m + 1
        /\ (m + 1) + 1 = m + 2 /\ m + 2 # 1
    BY DepthAssumption
  <2>2. Ordered(g[m + 1], m + 1, leaf, certs, store)
    BY <1>5, <2>1
  <2>3. g[m + 2] = Collect(g[m + 1], m + 2, certs, store)
    BY <1>3, <2>1
  <2> QED BY <2>1, <2>2, <2>3, CollectOrdered
<1>6. MaxChainDepth - 1 \in X
  <2>1. \A m \in Nat : m \in X
    <3> HIDE DEF X
    <3> QED BY <1>4, <1>5, NatSetInduction
  <2> QED BY <2>1, DepthAssumption
<1> QED BY <1>2, <1>6, DepthAssumption
-----------------------------------------------------------------------------
(* A path that nothing leads away from is the chain.                       *)

\* Two walks from the same certificate that go on the same way, as long as no
\* certificate ends them, are the same.
LEMMA SameWalk ==
    ASSUME NEW c \in Seq(Certs), NEW p \in Seq(Certs), NEW store,
           Len(c) \in 1 .. MaxChainDepth, Len(p) \in 1 .. MaxChainDepth, c[1] = p[1],
           \A i \in 1 .. Len(c) - 1 : ~Ends(c[i], store),
           \A i \in 1 .. Len(p) - 1 : ~Ends(p[i], store),
           Ends(LastOf(p), store),
           \A i \in 1 .. Len(c) - 1 : i < Len(p) /\ c[i] = p[i] => c[i + 1] = p[i + 1],
           \/ Len(c) = MaxChainDepth \/ Ends(LastOf(c), store)
           \/ Len(c) < Len(p) => c[Len(c)] # p[Len(c)]
    PROVE  c = p
<1> DEFINE X == {n \in Nat : n + 1 <= Len(c) /\ n + 1 <= Len(p) => c[n + 1] = p[n + 1]}
<1>0. Len(c) \in Nat /\ Len(p) \in Nat /\ Len(c) <= MaxChainDepth /\ Len(p) <= MaxChainDepth
      /\ 1 <= Len(c) /\ 1 <= Len(p)
  BY LenProperties, DepthAssumption
<1>1. 0 \in X
  OBVIOUS
<1>2. ASSUME NEW n \in Nat, n \in X PROVE n + 1 \in X
  <2> SUFFICES ASSUME n + 2 <= Len(c), n + 2 <= Len(p) PROVE c[n + 2] = p[n + 2]
    BY <1>0
  <2>1. c[n + 1] = p[n + 1]
    BY <1>0, <1>2
  <2>2. n + 1 \in 1 .. Len(c) - 1 /\ n + 1 < Len(p) /\ (n + 1) + 1 = n + 2
    BY <1>0
  <2> QED BY <2>1, <2>2
<1>3. \A n \in Nat : n \in X
  <2> HIDE DEF X
  <2> QED BY <1>1, <1>2, NatSetInduction
<1>4. ASSUME NEW i \in Nat, 1 <= i, i <= Len(c), i <= Len(p) PROVE c[i] = p[i]
  <2>0. i - 1 \in Nat /\ (i - 1) + 1 = i
    BY <1>4
  <2>1. i - 1 \in X
    <3> HIDE DEF X
    <3> QED BY <1>3, <2>0
  <2> QED BY <2>0, <2>1, <1>4
<1>5. ~(Len(c) > Len(p))
  <2> SUFFICES ASSUME Len(c) > Len(p) PROVE FALSE
    OBVIOUS
  <2>1. Len(p) \in 1 .. Len(c) - 1
    BY <1>0
  <2>2. c[Len(p)] = p[Len(p)]
    BY <1>0, <1>4
  <2> QED BY <2>1, <2>2 DEF LastOf
<1>6. ~(Len(c) < Len(p))
  <2> SUFFICES ASSUME Len(c) < Len(p) PROVE FALSE
    OBVIOUS
  <2>1. Len(c) \in 1 .. Len(p) - 1 /\ Len(c) # MaxChainDepth
    BY <1>0, DepthAssumption
  <2>2. c[Len(c)] = p[Len(c)]
    BY <1>0, <1>4
  <2> QED BY <2>1, <2>2 DEF LastOf
<1>7. Len(c) = Len(p)
  BY <1>0, <1>5, <1>6
<1>8. \A i \in 1 .. Len(c) : c[i] = p[i]
  BY <1>0, <1>4, <1>7
<1> QED BY <1>7, <1>8, SeqEqual

\* The last certificate of a chain that verifies has an anchor's name for
\* issuer.
LEMMA VerifiableEnds ==
    ASSUME NEW p \in Seq(Certs), NEW store, Verifiable(p, store, NoTime, FALSE, AnyPurpose)
    PROVE  Ends(LastOf(p), store)
<1>1. CASE IsSelfIssued(LastOf(p)) /\ IsIn(LastOf(p), store)
  BY <1>1 DEF Ends
<1>2. CASE ~(IsSelfIssued(LastOf(p)) /\ IsIn(LastOf(p), store))
  <2>1. p # <<>> /\ \E i \in 1 .. Len(store) :
           IsPath(Append(p, store[i]), store, NoTime, FALSE, AnyPurpose)
    BY <1>2 DEF Verifiable
  <2>2. PICK i \in 1 .. Len(store) :
           IsPath(Append(p, store[i]), store, NoTime, FALSE, AnyPurpose)
    BY <2>1
  <2> DEFINE x == store[i]
             q == Append(p, x)
  <2>3. Len(p) \in Nat \ {0}
    BY <2>1, LenProperties, EmptySeq
  <2>4. Len(q) = Len(p) + 1 /\ q[Len(p)] = p[Len(p)] /\ q[Len(p) + 1] = x
    <3> DEFINE S == Certs \cup {x}
    <3>1. p \in Seq(S) /\ x \in S
      OBVIOUS
    <3> HIDE DEF x, S
    <3> QED BY <2>3, <3>1, AppendProperties
  <2>5. \A k \in 1 .. Len(q) - 1 : q[k].issuer = q[k + 1].subject
    BY <2>2 DEF IsPath
  <2>6. p[Len(p)].issuer = x.subject
    <3> HIDE DEF q, x
    <3>1. Len(p) \in 1 .. Len(q) - 1
      BY <2>3, <2>4
    <3> QED BY <2>4, <2>5, <3>1
  <2> QED BY <2>6 DEF Ends, FindIssuer, LastOf
<1> QED BY <1>1, <1>2
-----------------------------------------------------------------------------
(* The inductive invariant.                                                *)

\* What a download may be, from its URL to its certificate.
Downloads ==
    {Idle, Failed}
      \cup [at : {"validate", "connect"}, url : Urls, requested : Nat \ {0}]
      \cup [at : {"exchange"}, url : Urls, requested : Nat \ {0}, peer : Addresses]
      \cup [at : {"body"}, document : Documents, buffered : Nat]
      \cup [at : {"fetched"}, cert : Certs]

\* The state is well formed.
TypeOK ==
    /\ fetch \in Downloads
    /\ chain \in Seq(Certs) /\ current \in Certs /\ urls \in Seq(Urls)
    /\ pool \in Seq(Certs) /\ pc \in {"push", "fetch", "done", "ordered"}
    /\ connections \in Nat /\ trace \in [straight : BOOLEAN, stuck : BOOLEAN]

\* The download keeps its limits, and neither an address about to be connected
\* to nor the peer is one that is_disallowed_ip refuses.
FetchInv ==
    /\ fetch.at \in {"validate", "connect", "exchange"} => fetch.requested <= MaxRedirects
    /\ fetch.at = "body" => fetch.buffered <= MaxBodySize
    /\ fetch.at = "connect" /\ fetch.url.host.kind = "ip" => ~IsDisallowedIp(fetch.url.host.ip)
    /\ fetch.at = "exchange" => ~IsDisallowedIp(fetch.peer)

\* The links of the chain that build_chain has walked so far.
Walked ==
    \A i \in 1 .. Len(chain) - 1 :
        ~Ends(chain[i], roots) /\ (trace.straight => Issued(chain[i + 1], chain[i]))

\* Where the walk of build_chain is.
WalkInv ==
    /\ pc # "fetch" => fetch = Idle
    /\ pc # "ordered" => Walked
    /\ pc = "push" =>
         /\ Len(chain) < MaxChainDepth
         /\ chain # <<>> => ~Ends(LastOf(chain), roots)
                            /\ (trace.straight => Issued(current, LastOf(chain)))
    /\ pc = "fetch" => /\ chain # <<>> /\ Len(chain) <= MaxChainDepth
                       /\ current = LastOf(chain) /\ ~Ends(current, roots)
    /\ pc = "done" => /\ chain # <<>> /\ Len(chain) <= MaxChainDepth
                      /\ \/ trace.stuck \/ Len(chain) = MaxChainDepth
                         \/ Ends(LastOf(chain), roots) \/ AiaUrls(LastOf(chain)) = <<>>
    /\ pc = "ordered" => Ordered(chain, MaxChainDepth, chain[1], pool, roots)

\* The connections that a download may still make.
Left ==
    CASE fetch.at \in {"validate", "connect"} -> MaxRedirects - fetch.requested + 1
      [] fetch.at = "exchange" -> MaxRedirects - fetch.requested
      [] OTHER -> 0

\* The connections that one certificate may cost.
PerCert == MaxUrls * MaxRedirects

\* The connections made and to be made are paid for by the URLs tried.
EffortInv ==
    IF pc = "fetch"
    THEN /\ Len(urls) <= Len(AiaUrls(current))
         /\ connections + Left <= (Len(chain) - 1) * PerCert
                                    + (Len(AiaUrls(current)) - Len(urls)) * MaxRedirects
    ELSE connections <= Len(chain) * PerCert

\* The inductive invariant.
Inv == TypeOK /\ FetchInv /\ WalkInv /\ EffortInv

\* The first states satisfy it.
LEMMA InitInv == Init => Inv
<1> SUFFICES ASSUME Init PROVE Inv
  OBVIOUS
<1>1. TypeOK
  BY StartAssumption DEF Init, TypeOK, Downloads
<1>2. FetchInv
  BY DEF Init, FetchInv, Idle
<1>3. WalkInv
  BY DepthAssumption DEF Init, WalkInv, Walked
<1>4. EffortInv
  <2>1. PerCert \in Nat
    BY MaxUrlsBounds, LimitsAssumption DEF PerCert
  <2>2. Len(chain) = 0 /\ connections = 0 /\ pc = "push"
    BY DEF Init
  <2> QED BY <2>1, <2>2 DEF EffortInv
<1> QED BY <1>1, <1>2, <1>3, <1>4 DEF Inv

\* A step of a download is one of a download, and keeps the limits and the
\* addresses.
LEMMA FetchStepOk ==
    ASSUME TypeOK, FetchInv, FetchStep
    PROVE  fetch' \in Downloads /\ FetchInv'
<1>0. fetch \in Downloads
  BY DEF TypeOK
<1>1. CASE Validate
  <2>1. PICK addrs \in Answers(fetch.url) :
           fetch' = IF ValidateFetchUrl(fetch.url, addrs)
                    THEN [fetch EXCEPT !.at = "connect"] ELSE Failed
    BY <1>1 DEF Validate
  <2>2. /\ fetch \in [at : {"validate", "connect"}, url : Urls, requested : Nat \ {0}]
        /\ fetch.at = "validate"
    BY <1>0, <1>1 DEF Validate, Downloads, Idle, Failed
  <2>3. CASE ValidateFetchUrl(fetch.url, addrs)
    <3>1. fetch' = [fetch EXCEPT !.at = "connect"]
      BY <2>1, <2>3
    <3>2. /\ fetch' \in [at : {"validate", "connect"}, url : Urls, requested : Nat \ {0}]
          /\ fetch'.at = "connect" /\ fetch'.url = fetch.url
          /\ fetch'.requested = fetch.requested
      BY <2>2, <3>1
    <3>3. fetch.url.host.kind = "ip" => ~IsDisallowedIp(fetch.url.host.ip)
      BY <2>1, <2>3 DEF Answers, ValidateFetchUrl, ValidateResolvedAddresses
    <3> QED BY <2>2, <3>2, <3>3 DEF Downloads, FetchInv
  <2>4. CASE ~ValidateFetchUrl(fetch.url, addrs)
    BY <2>1, <2>4 DEF Downloads, FetchInv, Failed
  <2> QED BY <2>3, <2>4
<1>2. CASE Connect
  <2>0. PICK addrs \in Answers(fetch.url) :
           /\ Connectable(fetch.url, addrs)
           /\ \E a \in addrs :
                fetch' = [at |-> "exchange", url |-> fetch.url, requested |-> fetch.requested,
                          peer |-> a]
    BY <1>2 DEF Connect
  <2>1. PICK a \in addrs :
           /\ Connectable(fetch.url, addrs)
           /\ fetch' = [at |-> "exchange", url |-> fetch.url, requested |-> fetch.requested,
                        peer |-> a]
    BY <2>0
  <2>2. /\ fetch \in [at : {"validate", "connect"}, url : Urls, requested : Nat \ {0}]
        /\ fetch.at = "connect"
    BY <1>0, <1>2 DEF Connect, Downloads, Idle, Failed
  <2>3. a \in Addresses
    BY <2>1, <2>2, NetworkAssumption
  <2>4. ~IsDisallowedIp(a)
    <3>1. CASE fetch.url.host.kind = "name"
      BY <2>1, <3>1 DEF Connectable, ValidateResolvedAddresses
    <3>2. CASE fetch.url.host.kind = "ip"
      <4>1. a = fetch.url.host.ip
        BY <2>1, <3>2 DEF Answers
      <4> QED BY <2>2, <3>2, <4>1 DEF FetchInv
    <3>3. CASE fetch.url.host.kind \notin {"name", "ip"}
      BY <2>1, <3>3 DEF Answers
    <3> QED BY <3>1, <3>2, <3>3
  <2> QED BY <2>1, <2>2, <2>3, <2>4 DEF Downloads, FetchInv
<1>3. CASE Redirected
  <2>1. PICK u \in Targets :
           fetch' = IF Follows(u)
                    THEN [at |-> "connect", url |-> u, requested |-> fetch.requested + 1]
                    ELSE Failed
    BY <1>3 DEF Redirected
  <2>2. fetch.requested \in Nat \ {0}
    BY <1>0, <1>3 DEF Redirected, Downloads, Idle, Failed
  <2>3. u \in Urls
    BY DEF Urls
  <2>4. CASE Follows(u)
    <3>1. fetch' = [at |-> "connect", url |-> u, requested |-> fetch.requested + 1]
      BY <2>1, <2>4
    <3>2. fetch.requested + 1 <= MaxRedirects
          /\ (u.host.kind = "ip" => ~IsDisallowedIp(u.host.ip))
      BY <2>2, <2>4, LimitsAssumption DEF Follows
    <3> QED BY <2>2, <2>3, <3>1, <3>2 DEF Downloads, FetchInv
  <2>5. CASE ~Follows(u)
    BY <2>1, <2>5 DEF Downloads, FetchInv, Failed
  <2> QED BY <2>4, <2>5
<1>4. CASE Responds
  <2>1. PICK d \in Documents :
           fetch' = IF d.announced /\ d.size > MaxBodySize THEN Failed
                    ELSE [at |-> "body", document |-> d, buffered |-> 0]
    BY <1>4 DEF Responds
  <2>2. CASE fetch' = Failed
    BY <2>2 DEF Downloads, FetchInv, Failed
  <2>3. CASE fetch' = [at |-> "body", document |-> d, buffered |-> 0]
    BY <2>3, LimitsAssumption DEF Downloads, FetchInv
  <2> QED BY <2>1, <2>2, <2>3
<1>5. CASE Chunk
  <2>1. /\ fetch \in [at : {"body"}, document : Documents, buffered : Nat]
    BY <1>0, <1>5 DEF Chunk, Downloads, Idle, Failed
  <2>2. PICK n \in 1 .. fetch.document.size - fetch.buffered :
           fetch' = IF Fits(n) THEN [fetch EXCEPT !.buffered = @ + n] ELSE Failed
    BY <1>5 DEF Chunk
  <2>3. n \in Nat
    OBVIOUS
  <2>4. CASE Fits(n)
    <3>1. fetch' = [fetch EXCEPT !.buffered = fetch.buffered + n]
      BY <2>2, <2>4
    <3>2. /\ fetch' \in [at : {"body"}, document : Documents, buffered : Nat]
          /\ fetch'.at = "body" /\ fetch'.buffered = fetch.buffered + n
      BY <2>1, <2>3, <3>1
    <3> QED BY <2>4, <3>2 DEF Fits, Downloads, FetchInv
  <2>5. CASE ~Fits(n)
    BY <2>2, <2>5 DEF Downloads, FetchInv, Failed
  <2> QED BY <2>4, <2>5
<1>6. CASE Parse
  <2>1. fetch \in [at : {"body"}, document : Documents, buffered : Nat]
    BY <1>0, <1>6 DEF Parse, Downloads, Idle, Failed
  <2>2. fetch.document.cert \in Certs
    BY <2>1, NetworkAssumption
  <2>3. CASE fetch' = Failed
    BY <2>3 DEF Downloads, FetchInv, Failed
  <2>4. CASE fetch' = [at |-> "fetched", cert |-> fetch.document.cert]
    BY <2>2, <2>4 DEF Downloads, FetchInv
  <2> QED BY <1>6, <2>3, <2>4 DEF Parse
<1> QED BY <1>1, <1>2, <1>3, <1>4, <1>5, <1>6 DEF FetchStep
\* Every step keeps the state well formed and the download within its limits.
LEMMA TypeStep == ASSUME Inv, [Next]_vars PROVE TypeOK' /\ FetchInv'
<1>0. TypeOK /\ FetchInv
  BY DEF Inv
<1>1. CASE Push
  <2>1. chain' \in Seq(Certs) /\ urls' \in Seq(Urls)
    BY <1>0, <1>1, StartAssumption, AppendProperties DEF TypeOK, Push
  <2>2. pc' \in {"push", "fetch", "done", "ordered"}
    BY <1>1 DEF Push
  <2>3. UNCHANGED <<fetch, roots, current, pool, connections, trace>>
    BY <1>1 DEF Push
  <2> QED BY <1>0, <2>1, <2>2, <2>3 DEF TypeOK, FetchInv
<1>2. CASE TryUrl
  <2>1. Head(urls) \in Urls /\ urls' \in Seq(Urls)
    BY <1>0, <1>2, HeadTailProperties DEF TypeOK, TryUrl
  <2>2. fetch' = [at |-> "validate", url |-> Head(urls), requested |-> 1]
    BY <1>2 DEF TryUrl, Fetching
  <2>3. UNCHANGED <<roots, chain, current, pool, pc, connections, trace>>
    BY <1>2 DEF TryUrl
  <2>4. fetch' \in Downloads
    BY <2>1, <2>2 DEF Downloads
  <2>5. FetchInv'
    BY <2>2, LimitsAssumption DEF FetchInv
  <2> QED BY <1>0, <2>1, <2>3, <2>4, <2>5 DEF TypeOK
<1>3. CASE Download
  <2>1. fetch' \in Downloads /\ FetchInv'
    BY <1>0, <1>3, FetchStepOk DEF Download
  <2>2. connections' \in Nat
    BY <1>0, <1>3 DEF TypeOK, Download
  <2>3. UNCHANGED <<roots, chain, current, urls, pool, pc, trace>>
    BY <1>3 DEF Download
  <2> QED BY <1>0, <2>1, <2>2, <2>3 DEF TypeOK
<1>4. CASE DownloadBreaks
  <2>1. fetch' = Failed /\ UNCHANGED <<roots, chain, current, urls, pool, pc, connections, trace>>
    BY <1>4 DEF DownloadBreaks, Breaks
  <2>2. fetch' \in Downloads /\ FetchInv'
    BY <2>1 DEF Downloads, FetchInv, Failed
  <2> QED BY <1>0, <2>1, <2>2 DEF TypeOK
<1>5. CASE Follow
  <2>1. fetch' = Idle /\ UNCHANGED <<roots, chain, urls, pool, connections>>
    BY <1>5 DEF Follow
  <2>2. fetch' \in Downloads /\ FetchInv'
    BY <2>1 DEF Downloads, FetchInv, Idle
  <2>3. current' \in Certs
    BY <1>0, <1>5 DEF Follow, TypeOK, Downloads, Idle, Failed
  <2>4. pc' \in {"push", "fetch", "done", "ordered"}
    BY <1>5 DEF Follow
  <2>5. trace' \in [straight : BOOLEAN, stuck : BOOLEAN]
    BY <1>0, <1>5 DEF Follow, TypeOK, Issued, SignedBy
  <2> QED BY <1>0, <2>1, <2>2, <2>3, <2>4, <2>5 DEF TypeOK
<1>6. CASE GiveUp
  <2>1. /\ fetch' = Idle /\ pc' = "done"
        /\ UNCHANGED <<roots, chain, current, urls, pool, connections>>
    BY <1>6 DEF GiveUp
  <2>2. fetch' \in Downloads /\ FetchInv'
    BY <2>1 DEF Downloads, FetchInv, Idle
  <2>3. trace' \in [straight : BOOLEAN, stuck : BOOLEAN]
    BY <1>0, <1>6 DEF GiveUp, TypeOK
  <2> QED BY <1>0, <2>1, <2>2, <2>3 DEF TypeOK
<1>7. CASE Order
  <2>1. /\ pool' \in Seq(Certs) /\ pc' = "ordered"
        /\ chain' = BuildChainFromCerts(current, pool', roots)
        /\ UNCHANGED <<fetch, roots, current, urls, connections, trace>>
    BY <1>7, StartAssumption DEF Order
  <2>2. current \in Certs
    BY <1>0 DEF TypeOK
  <2>3. chain' \in Seq(Certs)
    BY <2>1, <2>2, BuildOrdered DEF Ordered
  <2> QED BY <1>0, <2>1, <2>3 DEF TypeOK, FetchInv
<1>8. CASE UNCHANGED vars
  BY <1>0, <1>8 DEF vars, TypeOK, FetchInv
<1> QED BY <1>1, <1>2, <1>3, <1>4, <1>5, <1>6, <1>7, <1>8 DEF Next

\* Every step keeps the walk.
LEMMA WalkStep == ASSUME Inv, [Next]_vars PROVE WalkInv'
<1>0. TypeOK /\ WalkInv
  BY DEF Inv
<1>1. CASE Push
  <2>1. /\ pc = "push" /\ chain' = Append(chain, current) /\ urls' = AiaUrls(current)
        /\ UNCHANGED <<fetch, roots, current, pool, connections, trace>>
        /\ pc' = IF Ends(current, roots) \/ urls' = <<>> THEN "done" ELSE "fetch"
    BY <1>1 DEF Push, Ends
  <2>2. /\ Len(chain) \in Nat /\ Len(chain') = Len(chain) + 1 /\ chain' # <<>>
        /\ chain'[Len(chain) + 1] = current
        /\ \A i \in 1 .. Len(chain) : chain'[i] = chain[i]
    <3>1. chain \in Seq(Certs) /\ current \in Certs
      BY <1>0 DEF TypeOK
    <3>2. chain' \in Seq(Certs)
      BY <2>1, <3>1, AppendProperties
    <3> QED BY <2>1, <3>1, <3>2, AppendProperties, LenProperties, EmptySeq
  <2>3. LastOf(chain') = current
    BY <2>2 DEF LastOf
  <2>4. Len(chain') <= MaxChainDepth
    BY <1>0, <2>1, <2>2, DepthAssumption DEF WalkInv
  <2>5. Walked'
    <3> SUFFICES ASSUME NEW i \in 1 .. Len(chain') - 1
                 PROVE  /\ ~Ends(chain'[i], roots)
                        /\ trace.straight => Issued(chain'[i + 1], chain'[i])
      BY <2>1 DEF Walked
    <3>1. i \in 1 .. Len(chain) /\ chain'[i] = chain[i]
      BY <2>2
    <3>2. CASE i < Len(chain)
      <4>1. i \in 1 .. Len(chain) - 1 /\ i + 1 \in 1 .. Len(chain)
        BY <2>2, <3>1, <3>2
      <4> QED BY <1>0, <2>1, <2>2, <3>1, <4>1 DEF WalkInv, Walked
    <3>3. CASE i = Len(chain)
      <4>1. chain # <<>> /\ chain[i] = LastOf(chain) /\ chain'[i + 1] = current
        BY <2>2, <3>1, <3>3 DEF LastOf
      <4> QED BY <1>0, <2>1, <3>1, <4>1 DEF WalkInv
    <3> QED BY <2>2, <3>1, <3>2, <3>3
  <2>6. fetch' = Idle
    BY <1>0, <2>1 DEF WalkInv
  <2>7. pc' \in {"done", "fetch"} /\ (pc' = "fetch" => ~Ends(current, roots))
        /\ (pc' = "done" => Ends(current, roots) \/ AiaUrls(current) = <<>>)
    BY <2>1
  <2> QED BY <2>1, <2>2, <2>3, <2>4, <2>5, <2>6, <2>7 DEF WalkInv
<1>2. CASE TryUrl \/ Download \/ DownloadBreaks
  <2>1. pc = "fetch" /\ UNCHANGED <<roots, chain, current, pool, pc, trace>>
    BY <1>2 DEF TryUrl, Download, DownloadBreaks
  <2> QED BY <1>0, <2>1 DEF WalkInv, Walked
<1>3. CASE Follow
  <2>1. /\ pc = "fetch" /\ current' = fetch.cert /\ fetch' = Idle
        /\ pc' = IF Len(chain) < MaxChainDepth THEN "push" ELSE "done"
        /\ trace' = [trace EXCEPT !.straight = @ /\ Issued(fetch.cert, current)]
        /\ UNCHANGED <<roots, chain, urls, pool, connections>>
    BY <1>3 DEF Follow, Rounds
  <2>2. trace'.straight => trace.straight /\ Issued(current', current)
    BY <1>0, <2>1 DEF TypeOK
  <2>3. /\ chain # <<>> /\ Len(chain) <= MaxChainDepth /\ current = LastOf(chain)
        /\ ~Ends(current, roots) /\ Walked
    BY <1>0, <2>1 DEF WalkInv
  <2>4. Walked'
    BY <2>1, <2>2, <2>3 DEF Walked
  <2>5. Len(chain) \in Nat
    BY <1>0, LenProperties DEF TypeOK
  <2>6. pc' = "done" => Len(chain) = MaxChainDepth
    BY <2>1, <2>3, <2>5, DepthAssumption
  <2>7. pc' = "push" => Len(chain) < MaxChainDepth
    BY <2>1
  <2>8. pc' \in {"push", "done"}
    BY <2>1
  <2> QED BY <2>1, <2>2, <2>3, <2>4, <2>6, <2>7, <2>8 DEF WalkInv
<1>4. CASE GiveUp
  <2>1. /\ pc = "fetch" /\ fetch' = Idle /\ pc' = "done"
        /\ trace' = [trace EXCEPT !.stuck = TRUE]
        /\ UNCHANGED <<roots, chain, current, urls, pool, connections>>
    BY <1>4 DEF GiveUp
  <2>2. trace'.stuck /\ trace'.straight = trace.straight
    BY <1>0, <2>1 DEF TypeOK
  <2> QED BY <1>0, <2>1, <2>2 DEF WalkInv, Walked
<1>5. CASE Order
  <2>1. /\ pool' \in Seq(Certs) /\ pc' = "ordered" /\ pc = "push"
        /\ chain' = BuildChainFromCerts(current, pool', roots)
        /\ UNCHANGED <<fetch, roots, current, urls, connections, trace>>
    BY <1>5, StartAssumption DEF Order
  <2>2. current \in Certs
    BY <1>0 DEF TypeOK
  <2>3. Ordered(chain', MaxChainDepth, current, pool', roots)
    BY <2>1, <2>2, BuildOrdered
  <2>4. chain'[1] = current
    BY <2>3 DEF Ordered
  <2> QED BY <1>0, <2>1, <2>3, <2>4 DEF WalkInv
<1>6. CASE UNCHANGED vars
  BY <1>0, <1>6 DEF vars, WalkInv, Walked
<1> QED BY <1>1, <1>2, <1>3, <1>4, <1>5, <1>6 DEF Next
\* Each connection of a download takes one of those it may still make.
LEMMA DownloadPays ==
    ASSUME TypeOK, FetchInv, FetchStep
    PROVE  /\ Left \in Nat /\ Left' \in Nat
           /\ Left' + (IF fetch'.at = "exchange" THEN 1 ELSE 0) <= Left
<1>0. fetch \in Downloads /\ MaxRedirects \in Nat
  BY LimitsAssumption DEF TypeOK
<1>1. CASE Validate
  <2>1. PICK addrs \in Answers(fetch.url) :
           fetch' = IF ValidateFetchUrl(fetch.url, addrs)
                    THEN [fetch EXCEPT !.at = "connect"] ELSE Failed
    BY <1>1 DEF Validate
  <2>2. /\ fetch \in [at : {"validate", "connect"}, url : Urls, requested : Nat \ {0}]
        /\ fetch.at = "validate" /\ fetch.requested \in Nat /\ fetch.requested <= MaxRedirects
    BY <1>0, <1>1 DEF Validate, Downloads, Idle, Failed, FetchInv
  <2>3. CASE fetch' = Failed
    BY <1>0, <2>2, <2>3 DEF Left, Failed
  <2>4. CASE fetch' = [fetch EXCEPT !.at = "connect"]
    <3>1. fetch'.at = "connect" /\ fetch'.requested = fetch.requested
      BY <2>2, <2>4
    <3> QED BY <1>0, <2>2, <3>1 DEF Left
  <2> QED BY <2>1, <2>3, <2>4
<1>2. CASE Connect
  <2>1. fetch'.at = "exchange" /\ fetch'.requested = fetch.requested
    BY <1>2 DEF Connect
  <2>2. fetch.at = "connect" /\ fetch.requested \in Nat /\ fetch.requested <= MaxRedirects
    BY <1>0, <1>2 DEF Connect, Downloads, Idle, Failed, FetchInv
  <2> QED BY <1>0, <2>1, <2>2 DEF Left
<1>3. CASE Redirected
  <2>1. PICK u \in Targets :
           fetch' = IF Follows(u)
                    THEN [at |-> "connect", url |-> u, requested |-> fetch.requested + 1]
                    ELSE Failed
    BY <1>3 DEF Redirected
  <2>2. fetch.at = "exchange" /\ fetch.requested \in Nat /\ fetch.requested <= MaxRedirects
    BY <1>0, <1>3 DEF Redirected, Downloads, Idle, Failed, FetchInv
  <2>3. CASE fetch' = Failed
    BY <1>0, <2>2, <2>3 DEF Left, Failed
  <2>4. CASE Follows(u)
    <3>1. fetch'.at = "connect" /\ fetch'.requested = fetch.requested + 1
          /\ fetch.requested < MaxRedirects
      BY <2>1, <2>4 DEF Follows
    <3> QED BY <1>0, <2>2, <3>1 DEF Left
  <2> QED BY <2>1, <2>3, <2>4
<1>4. CASE Responds
  <2>1. fetch.at = "exchange" /\ fetch.requested \in Nat /\ fetch.requested <= MaxRedirects
    BY <1>0, <1>4 DEF Responds, Downloads, Idle, Failed, FetchInv
  <2>2. fetch'.at \in {"failed", "body"}
    BY <1>4 DEF Responds, Failed
  <2> QED BY <1>0, <2>1, <2>2 DEF Left
<1>5. CASE Chunk \/ Parse
  <2>1. fetch.at = "body" /\ fetch \in [at : {"body"}, document : Documents, buffered : Nat]
    BY <1>0, <1>5 DEF Chunk, Parse, Downloads, Idle, Failed
  <2>2. fetch'.at \in {"failed", "body", "fetched"}
    BY <1>5, <2>1 DEF Chunk, Parse, Failed
  <2> QED BY <2>1, <2>2 DEF Left
<1> QED BY <1>1, <1>2, <1>3, <1>4, <1>5 DEF FetchStep

\* Every step keeps the account of the connections.
LEMMA EffortStep == ASSUME Inv, [Next]_vars PROVE EffortInv'
<1> DEFINE tried == Len(AiaUrls(current)) - Len(urls)
           n == Len(chain)
<1>0. TypeOK /\ FetchInv /\ WalkInv /\ EffortInv
  BY DEF Inv
<1>1. /\ PerCert \in Nat /\ MaxRedirects \in Nat /\ MaxRedirects >= 1
      /\ MaxUrls \in Nat /\ PerCert = MaxUrls * MaxRedirects
  BY MaxUrlsBounds, LimitsAssumption DEF PerCert
<1>2. /\ Len(AiaUrls(current)) \in Nat /\ Len(AiaUrls(current)) <= MaxUrls
      /\ Len(urls) \in Nat /\ n \in Nat /\ connections \in Nat
  BY <1>0, MaxUrlsBounds, StartAssumption, LenProperties DEF TypeOK
<1>3. ASSUME pc = "fetch"
      PROVE  /\ Len(urls) <= Len(AiaUrls(current)) /\ tried \in Nat /\ tried <= MaxUrls
             /\ connections + Left <= (n - 1) * PerCert + tried * MaxRedirects
             /\ n >= 1
  <2>1. n >= 1
    <3>1. chain # <<>> /\ chain \in Seq(Certs)
      BY <1>0, <1>3 DEF WalkInv, TypeOK
    <3> QED BY <3>1, LenProperties, EmptySeq
  <2>2. /\ Len(urls) <= Len(AiaUrls(current))
        /\ connections + Left <= (n - 1) * PerCert + tried * MaxRedirects
    BY <1>0, <1>3 DEF EffortInv
  <2>3. tried \in Nat /\ tried <= MaxUrls
    BY <1>1, <1>2, <2>2
  <2> QED BY <2>1, <2>2, <2>3
<1>4. tried \in Nat /\ tried <= MaxUrls => tried * MaxRedirects <= PerCert
  <2> HIDE DEF tried
  <2> QED BY <1>1
<1>5. ASSUME pc = "fetch", Left \in Nat PROVE connections <= n * PerCert
  <2> DEFINE t == tried * MaxRedirects
  <2>1. t \in Nat /\ t <= PerCert
    BY <1>1, <1>3, <1>4, <1>5
  <2>2. connections + Left <= (n - 1) * PerCert + t
    BY <1>3, <1>5
  <2>3. n * PerCert = (n - 1) * PerCert + PerCert
    <3> HIDE DEF n
    <3> QED BY <1>1, <1>2
  <2>4. (n - 1) * PerCert \in Nat
    BY <1>1, <1>2, <1>3, <1>5
  <2> HIDE DEF t, n
  <2> DEFINE a == (n - 1) * PerCert
             b == n * PerCert
  <2> HIDE DEF a, b
  <2>5. b = a + PerCert /\ a \in Nat /\ connections + Left <= a + t
    BY <2>2, <2>3, <2>4 DEF a, b
  <2>6. connections <= b
    BY <1>1, <1>2, <1>5, <2>1, <2>5
  <2> QED BY <2>6 DEF b, n
<1>6. fetch.at \notin {"validate", "connect", "exchange"} => Left = 0
  BY DEF Left
<1>7. CASE Push
  <2>1. /\ pc = "push" /\ chain' = Append(chain, current) /\ urls' = AiaUrls(current)
        /\ UNCHANGED <<fetch, roots, current, pool, connections, trace>>
        /\ pc' \in {"done", "fetch"}
    BY <1>7 DEF Push
  <2>2. Len(chain') = n + 1
    BY <1>0, <2>1, AppendProperties DEF TypeOK
  <2>3. connections <= n * PerCert
    BY <1>0, <2>1 DEF EffortInv
  <2>4. Left' = 0
    <3>1. fetch' = Idle
      BY <1>0, <2>1 DEF WalkInv
    <3> QED BY <3>1 DEF Left, Idle
  <2>5. n * PerCert \in Nat /\ (n + 1) * PerCert = n * PerCert + PerCert
        /\ (n + 1) - 1 = n
    <3> HIDE DEF n
    <3> QED BY <1>1, <1>2
  <2> DEFINE a == n * PerCert
             b == (n + 1) * PerCert
  <2>6. b = a + PerCert /\ a \in Nat /\ connections <= a
    BY <2>3, <2>5
  <2>7. connections' = connections /\ Len(urls') = Len(AiaUrls(current'))
    BY <2>1
  <2>8. CASE pc' = "done"
    <3>1. connections <= b
      <4> HIDE DEF a, b
      <4> QED BY <1>1, <1>2, <2>6
    <3> QED BY <2>2, <2>7, <2>8, <3>1 DEF EffortInv
  <2>9. CASE pc' = "fetch"
    <3>1. (Len(AiaUrls(current')) - Len(urls')) * MaxRedirects = 0
      BY <1>1, <1>2, <2>1
    <3>2. (Len(chain') - 1) * PerCert = a
      BY <2>2, <2>5
    <3>3. Len(urls') <= Len(AiaUrls(current'))
      BY <1>2, <2>1
    <3>4. connections' + Left' <= (Len(chain') - 1) * PerCert
             + (Len(AiaUrls(current')) - Len(urls')) * MaxRedirects
      <4> HIDE DEF a, b
      <4> QED BY <1>2, <2>4, <2>6, <2>7, <3>1, <3>2
    <3>5. PerCert' = PerCert
      BY DEF PerCert
    <3> QED BY <2>9, <3>3, <3>4, <3>5 DEF EffortInv
  <2> QED BY <2>1, <2>8, <2>9
<1>8. CASE TryUrl
  <2>1. /\ pc = "fetch" /\ fetch.at \in {"idle", "failed"} /\ urls # <<>>
        /\ fetch' = [at |-> "validate", url |-> Head(urls), requested |-> 1]
        /\ urls' = Tail(urls)
        /\ UNCHANGED <<roots, chain, current, pool, pc, connections, trace>>
    BY <1>8 DEF TryUrl, Fetching
  <2>2. Len(urls') = Len(urls) - 1 /\ Len(urls) >= 1
    BY <1>0, <2>1, HeadTailProperties, LenProperties, EmptySeq DEF TypeOK
  <2>3. Left' = MaxRedirects /\ Left = 0
    BY <1>1, <1>6, <2>1 DEF Left
  <2>4. Len(AiaUrls(current')) - Len(urls') = tried + 1
    BY <1>2, <2>1, <2>2
  <2>5. (tried + 1) * MaxRedirects = tried * MaxRedirects + MaxRedirects
        /\ tried * MaxRedirects \in Nat
    <3>1. tried \in Nat
      BY <1>3, <2>1
    <3> HIDE DEF tried
    <3> QED BY <1>1, <3>1
  <2>6. (n - 1) * PerCert \in Nat
    BY <1>1, <1>2, <1>3, <2>1
  <2>7. connections + Left <= (n - 1) * PerCert + tried * MaxRedirects
    BY <1>3, <2>1
  <2> DEFINE a == (n - 1) * PerCert
             t == tried * MaxRedirects
  <2>8. connections + MaxRedirects <= a + (t + MaxRedirects)
    <3>1. connections <= a + t /\ a \in Nat /\ t \in Nat
      BY <1>2, <2>3, <2>5, <2>6, <2>7
    <3> HIDE DEF a, t
    <3> QED BY <1>1, <1>2, <3>1
  <2>9. connections' + Left' <= (Len(chain') - 1) * PerCert
             + (Len(AiaUrls(current')) - Len(urls')) * MaxRedirects
    BY <2>1, <2>3, <2>4, <2>5, <2>8
  <2>10. Len(urls') <= Len(AiaUrls(current')) /\ PerCert' = PerCert
    BY <1>2, <1>3, <2>1, <2>2 DEF PerCert
  <2> QED BY <2>1, <2>9, <2>10 DEF EffortInv
<1>9. CASE Download \/ DownloadBreaks
  <2>1. pc = "fetch" /\ UNCHANGED <<roots, chain, current, urls, pool, pc, trace>>
    BY <1>9 DEF Download, DownloadBreaks
  <2>2. connections' + Left' <= connections + Left
    <3>1. CASE Download
      <4> DEFINE e == IF fetch'.at = "exchange" THEN 1 ELSE 0
      <4>1. Left \in Nat /\ Left' \in Nat /\ Left' + e <= Left
        BY <1>0, <3>1, DownloadPays DEF Download
      <4>2. connections' = connections + e /\ e \in Nat
        BY <3>1 DEF Download
      <4> DEFINE k == Left
                 m == Left'
                 c == connections
      <4>3. k \in Nat /\ m \in Nat /\ m + e <= k /\ c \in Nat /\ e \in Nat
        BY <1>2, <4>1, <4>2
      <4> HIDE DEF e, k, m, c
      <4>4. (c + e) + m <= c + k
        BY <4>3
      <4> QED BY <4>2, <4>4 DEF c, k, m
    <3>2. CASE DownloadBreaks
      <4>1. connections' = connections /\ Left' = 0
        BY <3>2 DEF DownloadBreaks, Breaks, Left, Failed
      <4>2. Left \in Nat
        BY <1>0, <1>1 DEF TypeOK, Downloads, FetchInv, Left, Idle, Failed
      <4> QED BY <1>2, <4>1, <4>2
    <3> QED BY <1>9, <3>1, <3>2
  <2>3. Left \in Nat /\ Left' \in Nat /\ connections' \in Nat
    <3>1. TypeOK' /\ FetchInv'
      BY TypeStep
    <3>2. Left \in Nat
      BY <1>0, <1>1 DEF TypeOK, Downloads, FetchInv, Left, Idle, Failed
    <3>3. Left' \in Nat
      BY <3>1, <1>1 DEF TypeOK, Downloads, FetchInv, Left, Idle, Failed
    <3> QED BY <3>1, <3>2, <3>3 DEF TypeOK
  <2> DEFINE s == (n - 1) * PerCert + tried * MaxRedirects
  <2>4. connections + Left <= s /\ s \in Nat
    <3>1. (n - 1) * PerCert \in Nat /\ tried * MaxRedirects \in Nat
      BY <1>1, <1>2, <1>3, <2>1
    <3> QED BY <1>3, <2>1, <3>1
  <2>5. connections' + Left' <= s
    <3> DEFINE x == connections' + Left'
               y == connections + Left
    <3> HIDE DEF s, n, tried
    <3>0. x \in Nat /\ y \in Nat
      <4> DEFINE a == connections
                 b == Left
                 c == connections'
                 d == Left'
      <4>1. a \in Nat /\ b \in Nat /\ c \in Nat /\ d \in Nat
        BY <1>2, <2>3
      <4> HIDE DEF a, b, c, d
      <4>2. c + d \in Nat /\ a + b \in Nat
        BY <4>1
      <4> QED BY <4>2 DEF a, b, c, d
    <3>1. x <= y /\ y <= s /\ s \in Nat
      BY <2>2, <2>4
    <3> HIDE DEF x, y
    <3>2. x <= s
      BY <3>0, <3>1
    <3> QED BY <3>2 DEF x
  <2>6. PerCert' = PerCert /\ Len(urls) <= Len(AiaUrls(current))
    BY <1>3, <2>1 DEF PerCert
  <2> QED BY <2>1, <2>5, <2>6 DEF EffortInv
<1>10. CASE Follow \/ GiveUp
  <2>1. /\ pc = "fetch" /\ fetch.at \in {"fetched", "failed"} /\ pc' \in {"push", "done"}
        /\ UNCHANGED <<chain, connections>>
    BY <1>10 DEF Follow, GiveUp
  <2>2. Left = 0
    BY <1>6, <2>1
  <2>3. connections <= n * PerCert
    BY <1>5, <2>1, <2>2
  <2>4. PerCert' = PerCert
    BY DEF PerCert
  <2> QED BY <2>1, <2>3, <2>4 DEF EffortInv
<1>11. CASE Order
  <2>1. /\ pool' \in Seq(Certs) /\ pc' = "ordered" /\ pc = "push" /\ chain = <<>>
        /\ chain' = BuildChainFromCerts(current, pool', roots)
        /\ UNCHANGED <<fetch, roots, current, urls, connections, trace>>
    BY <1>11, StartAssumption DEF Order
  <2>2. connections = 0
    BY <1>0, <1>1, <1>2, <2>1 DEF EffortInv
  <2>3. Len(chain') * PerCert \in Nat
    <3>1. chain' \in Seq(Certs)
      BY TypeStep DEF TypeOK
    <3>2. Len(chain') \in Nat
      BY <3>1, LenProperties
    <3> QED BY <1>1, <3>2
  <2>4. PerCert' = PerCert
    BY DEF PerCert
  <2> QED BY <2>1, <2>2, <2>3, <2>4 DEF EffortInv
<1>12. CASE UNCHANGED vars
  <2>1. /\ UNCHANGED <<fetch, roots, chain, current, urls, pool, pc, connections, trace>>
        /\ PerCert' = PerCert /\ Left' = Left
    BY <1>12 DEF vars, PerCert, Left
  <2> QED BY <1>0, <2>1 DEF EffortInv
<1> QED BY <1>7, <1>8, <1>9, <1>10, <1>11, <1>12 DEF Next
-----------------------------------------------------------------------------
(* The theorems.                                                           *)

\* The invariant holds in every reachable state of build_chain, of
\* build_chain_from_certs and of their downloads.
THEOREM Invariance == Spec => []Inv
<1>1. Inv /\ [Next]_vars => Inv'
  BY TypeStep, WalkStep, EffortStep DEF Inv
<1> QED BY <1>1, InitInv, PTL DEF Spec

\* The state of chain discovery stays well formed.
THEOREM TypeCorrect == Spec => []TypeOK
<1>1. Inv => TypeOK
  BY DEF Inv
<1> QED BY <1>1, Invariance, PTL

\* No address of a block that net.rs names is ever connected to, at any bit of
\* its prefix (net.rs, validate_fetch_url, PublicDnsResolver and the redirect
\* policy).  Blocks that are not public either but that net.rs does not name
\* are the exception the property states.
THEOREM NamedBlocksAvoided == Spec => []OnlyPublicOrOverlooked
<1>1. Inv => OnlyPublicOrOverlooked
  <2> SUFFICES ASSUME Inv, fetch.at = "exchange",
                      NEW b \in NamedBlocks \cup MappedBlocks
               PROVE  ~InBlock(fetch.peer, b)
    BY DEF OnlyPublicOrOverlooked, NonPublicBlocks
  <2>1. ~IsDisallowedIp(fetch.peer) /\ fetch.peer \in Addresses
    BY DEF Inv, TypeOK, FetchInv, Downloads, Idle, Failed
  <2> QED BY <2>1, AllowedIsUnnamed
<1> QED BY <1>1, Invariance, PTL

\* What a call does on the network and holds in memory is bounded by the three
\* limits (net.rs, MAX_REDIRECTS; chain.rs, MAX_CHAIN_DEPTH, max_body_size).
THEOREM EffortStaysBounded == Spec => []EffortBounded
<1>1. Inv => EffortBounded
  <2> SUFFICES ASSUME Inv PROVE EffortBounded
    OBVIOUS
  <2> DEFINE n == Len(chain)
  <2>1. TypeOK /\ FetchInv /\ WalkInv /\ EffortInv
    BY DEF Inv
  <2>2. /\ PerCert \in Nat /\ MaxRedirects \in Nat /\ MaxRedirects >= 1
        /\ MaxUrls \in Nat /\ PerCert = MaxUrls * MaxRedirects /\ MaxChainDepth \in Nat
    BY MaxUrlsBounds, LimitsAssumption, DepthAssumption DEF PerCert
  <2>3. /\ Len(AiaUrls(current)) \in Nat /\ Len(AiaUrls(current)) <= MaxUrls
        /\ Len(urls) \in Nat /\ n \in Nat /\ connections \in Nat /\ Left \in Nat
    <3>1. Left \in Nat
      BY <2>1, <2>2 DEF TypeOK, Downloads, FetchInv, Left, Idle, Failed
    <3> QED BY <2>1, <3>1, MaxUrlsBounds, StartAssumption, LenProperties DEF TypeOK
  <2>4. n <= MaxChainDepth
    <3>1. CASE pc = "ordered"
      BY <2>1, <2>2, <3>1 DEF WalkInv, Ordered
    <3>2. CASE pc = "push"
      <4>1. n < MaxChainDepth
        BY <2>1, <3>2 DEF WalkInv
      <4> HIDE DEF n
      <4> QED BY <2>2, <2>3, <4>1
    <3>3. CASE pc \in {"fetch", "done"}
      BY <2>1, <3>3 DEF WalkInv
    <3> QED BY <2>1, <3>1, <3>2, <3>3 DEF TypeOK
  <2>5. connections <= n * PerCert
    <3>1. CASE pc = "fetch"
      <4> DEFINE tried == Len(AiaUrls(current)) - Len(urls)
                 t == tried * MaxRedirects
                 a == (n - 1) * PerCert
                 k == Left
      <4>1. n >= 1
        <5>1. chain # <<>> /\ chain \in Seq(Certs)
          BY <2>1, <3>1 DEF WalkInv, TypeOK
        <5> QED BY <5>1, LenProperties, EmptySeq
      <4>2. Len(urls) <= Len(AiaUrls(current)) /\ connections + k <= a + t
        BY <2>1, <3>1 DEF EffortInv
      <4>3. tried \in Nat /\ tried <= MaxUrls
        BY <2>2, <2>3, <4>2
      <4> HIDE DEF tried, n
      <4>4. t \in Nat /\ t <= PerCert /\ a \in Nat /\ n * PerCert = a + PerCert
        BY <2>2, <2>3, <4>1, <4>3
      <4> HIDE DEF t, a, k
      <4>5. k \in Nat
        BY <2>3 DEF k
      <4>6. connections <= a + PerCert
        BY <2>2, <2>3, <4>2, <4>4, <4>5
      <4> QED BY <4>4, <4>6
    <3>2. CASE pc # "fetch"
      BY <2>1, <3>2 DEF EffortInv
    <3> QED BY <3>1, <3>2
  <2>6. n * PerCert <= MaxChainDepth * PerCert
        /\ MaxChainDepth * PerCert = MaxChainDepth * MaxUrls * MaxRedirects
    <3> HIDE DEF n
    <3>1. n * PerCert <= MaxChainDepth * PerCert
      BY <2>2, <2>3, <2>4
    <3>2. MaxChainDepth * (MaxUrls * MaxRedirects) = MaxChainDepth * MaxUrls * MaxRedirects
      BY <2>2
    <3> QED BY <2>2, <3>1, <3>2
  <2>7. connections <= MaxChainDepth * MaxUrls * MaxRedirects
    <3> DEFINE x == n * PerCert
               y == MaxChainDepth * MaxUrls * MaxRedirects
    <3>1. x \in Nat /\ y \in Nat /\ connections <= x /\ x <= y
      <4> HIDE DEF n
      <4> QED BY <2>2, <2>3, <2>5, <2>6
    <3> HIDE DEF x, y
    <3>2. connections <= y
      BY <2>3, <3>1
    <3> QED BY <3>2 DEF y
  <2>8. fetch.at = "body" => fetch.buffered <= MaxBodySize
    BY <2>1 DEF FetchInv
  <2> QED BY <2>4, <2>7, <2>8 DEF EffortBounded
<1> QED BY <1>1, Invariance, PTL

\* A member of Paths is a chain from the leaf to an anchor that none of its
\* certificates ends before the last.
LEMMA PathShape ==
    ASSUME NEW leaf \in Certs, NEW S \in SUBSET Certs, NEW n \in 0 .. MaxChainDepth - 1,
           NEW s \in [1 .. n -> S], NEW p, p = <<leaf>> \o s
    PROVE  p \in Seq(Certs) /\ Len(p) \in 1 .. MaxChainDepth /\ p[1] = leaf
<1>1. n \in Nat /\ n + 1 <= MaxChainDepth
  BY DepthAssumption
<1>2. s \in Seq(Certs) /\ Len(s) = n
  <2>1. s \in [1 .. n -> Certs]
    OBVIOUS
  <2> QED BY <1>1, <2>1, IsASeq, LenProperties
<1>3. <<leaf>> \in Seq(Certs) /\ Len(<<leaf>>) = 1 /\ <<leaf>>[1] = leaf
  OBVIOUS
<1> DEFINE l == <<leaf>>
<1> HIDE DEF l
<1>4. p = l \o s /\ l \in Seq(Certs) /\ Len(l) = 1 /\ l[1] = leaf
  BY <1>3 DEF l
<1>5. p \in Seq(Certs) /\ Len(p) = 1 + n /\ p[1] = leaf
  BY <1>1, <1>2, <1>4, ConcatProperties
<1> QED BY <1>1, <1>5

\* A chain that verifies and that nothing leads away from is found (chain.rs,
\* build_chain and build_chain_from_certs).
THEOREM PathsAreFound == Spec => []PathIsFound
<1>1. Inv => PathIsFound
  <2> DEFINE A(c, d) == AiaUrls(c) # <<>> /\ {x \in Certs : Issued(x, c)} = {d}
             L(c, d) == Named(c, pool) # {} /\ pool[Min(Named(c, pool))] = d
             S == {pool[i] : i \in 1 .. Len(pool)}
  <2> SUFFICES ASSUME Inv PROVE PathIsFound
    OBVIOUS
  <2>1. TypeOK /\ WalkInv
    BY DEF Inv
  <2>2. ASSUME pc = "done", trace.straight, ~trace.stuck,
               NEW n \in 0 .. MaxChainDepth - 1, NEW s \in [1 .. n -> Certs],
               NEW p, p = <<chain[1]>> \o s,
               Verifiable(p, roots, NoTime, FALSE, AnyPurpose),
               \A i \in 1 .. Len(p) - 1 :
                  ~FindIssuer(p[i], roots) /\ ~IsSelfIssued(p[i]) /\ A(p[i], p[i + 1])
        PROVE  chain = p
    <3>1. chain \in Seq(Certs) /\ chain # <<>> /\ Len(chain) <= MaxChainDepth /\ Walked
          /\ (\/ Len(chain) = MaxChainDepth \/ Ends(LastOf(chain), roots)
              \/ AiaUrls(LastOf(chain)) = <<>>)
      BY <2>1, <2>2 DEF WalkInv, TypeOK
    <3>2. Len(chain) \in 1 .. MaxChainDepth /\ chain[1] \in Certs
      BY <3>1, LenProperties, EmptySeq, ElementOfSeq, DepthAssumption
    <3>3. p \in Seq(Certs) /\ Len(p) \in 1 .. MaxChainDepth /\ p[1] = chain[1]
      <4>1. Certs \in SUBSET Certs /\ p = <<chain[1]>> \o s /\ chain[1] \in Certs
        BY <2>2, <3>2
      <4> HIDE DEF S, A, L
      <4> QED BY <4>1, PathShape
    <3>4. Ends(LastOf(p), roots)
      BY <2>2, <3>3, VerifiableEnds
    <3>5. \A i \in 1 .. Len(p) - 1 : ~Ends(p[i], roots)
      BY <2>2 DEF Ends
    <3>6. \A i \in 1 .. Len(chain) - 1 : ~Ends(chain[i], roots)
      BY <3>1 DEF Walked
    <3>7. ASSUME NEW i \in 1 .. Len(chain) - 1, i < Len(p), chain[i] = p[i]
          PROVE  chain[i + 1] = p[i + 1]
      <4>1. i \in 1 .. Len(p) - 1 /\ i + 1 \in 1 .. Len(chain)
        BY <3>2, <3>3, <3>7, DepthAssumption
      <4>2. chain[i + 1] \in Certs
        BY <3>1, <4>1, ElementOfSeq
      <4>3. Issued(chain[i + 1], chain[i])
        BY <2>2, <3>1 DEF Walked
      <4>4. {x \in Certs : Issued(x, p[i])} = {p[i + 1]}
        BY <2>2, <4>1
      <4> QED BY <3>7, <4>2, <4>3, <4>4
    <3>8. ASSUME Len(chain) < Len(p), chain[Len(chain)] = p[Len(chain)]
          PROVE  AiaUrls(LastOf(chain)) # <<>>
      <4>1. Len(chain) \in 1 .. Len(p) - 1
        BY <3>2, <3>3, <3>8, DepthAssumption
      <4> QED BY <2>2, <3>8, <4>1 DEF LastOf
    <3>9. \/ Len(chain) = MaxChainDepth \/ Ends(LastOf(chain), roots)
          \/ Len(chain) < Len(p) => chain[Len(chain)] # p[Len(chain)]
      BY <3>1, <3>8
    <3> QED BY <3>1, <3>2, <3>3, <3>4, <3>5, <3>6, <3>7, <3>9, SameWalk
  <2>3. ASSUME pc = "ordered",
               NEW n \in 0 .. MaxChainDepth - 1, NEW s \in [1 .. n -> S],
               NEW p, p = <<chain[1]>> \o s,
               Verifiable(p, roots, NoTime, FALSE, AnyPurpose),
               \A i \in 1 .. Len(p) - 1 :
                  ~FindIssuer(p[i], roots) /\ ~IsSelfIssued(p[i]) /\ L(p[i], p[i + 1])
        PROVE  chain = p
    <3>1. Ordered(chain, MaxChainDepth, chain[1], pool, roots)
      BY <2>1, <2>3 DEF WalkInv
    <3>2. chain \in Seq(Certs) /\ Len(chain) \in 1 .. MaxChainDepth /\ chain[1] \in Certs
      BY <3>1, ElementOfSeq DEF Ordered
    <3>3. p \in Seq(Certs) /\ Len(p) \in 1 .. MaxChainDepth /\ p[1] = chain[1]
      <4>1. S \in SUBSET Certs
        BY <2>1, ElementOfSeq DEF TypeOK
      <4>2. p = <<chain[1]>> \o s /\ chain[1] \in Certs
        BY <2>3, <3>2
      <4> HIDE DEF S, A, L
      <4> QED BY <4>1, <4>2, PathShape
    <3>4. Ends(LastOf(p), roots)
      BY <2>3, <3>3, VerifiableEnds
    <3>5. \A i \in 1 .. Len(p) - 1 : ~Ends(p[i], roots)
      BY <2>3 DEF Ends
    <3>6. \A i \in 1 .. Len(chain) - 1 : ~Ends(chain[i], roots)
      BY <3>1 DEF Ordered
    <3>7. ASSUME NEW i \in 1 .. Len(chain) - 1, i < Len(p), chain[i] = p[i]
          PROVE  chain[i + 1] = p[i + 1]
      <4>1. i \in 1 .. Len(p) - 1
        BY <3>2, <3>3, <3>7, DepthAssumption
      <4>2. chain[i + 1] = InPool(chain[i], pool)
        BY <3>1 DEF Ordered
      <4>3. InPool(p[i], pool) = p[i + 1]
        BY <2>3, <4>1 DEF InPool
      <4> QED BY <3>7, <4>2, <4>3
    <3>8. ASSUME Len(chain) < Len(p), chain[Len(chain)] = p[Len(chain)]
          PROVE  Named(LastOf(chain), pool) # {}
      <4>1. Len(chain) \in 1 .. Len(p) - 1
        BY <3>2, <3>3, <3>8, DepthAssumption
      <4> QED BY <2>3, <3>8, <4>1 DEF LastOf
    <3>9. \/ Len(chain) = MaxChainDepth \/ Ends(LastOf(chain), roots)
          \/ Len(chain) < Len(p) => chain[Len(chain)] # p[Len(chain)]
      BY <3>1, <3>8 DEF Ordered
    <3> QED BY <3>2, <3>3, <3>4, <3>5, <3>6, <3>7, <3>9, SameWalk
  <2>4. ASSUME pc = "done", trace.straight, ~trace.stuck, NEW p \in Paths(chain[1], Certs),
               \A i \in 1 .. Len(p) - 1 : A(p[i], p[i + 1])
        PROVE  Verifiable(chain, roots, NoTime, FALSE, AnyPurpose)
    <3> HIDE DEF A
    <3>1. /\ Verifiable(p, roots, NoTime, FALSE, AnyPurpose)
          /\ \A i \in 1 .. Len(p) - 1 : ~FindIssuer(p[i], roots) /\ ~IsSelfIssued(p[i])
          /\ \E n \in 0 .. MaxChainDepth - 1 : \E s \in [1 .. n -> Certs] : p = <<chain[1]>> \o s
      BY DEF Paths
    <3>2. chain = p
      BY <2>2, <2>4, <3>1
    <3> QED BY <3>1, <3>2
  <2>5. ASSUME pc = "ordered", NEW p \in Paths(chain[1], S),
               \A i \in 1 .. Len(p) - 1 : L(p[i], p[i + 1])
        PROVE  Verifiable(chain, roots, NoTime, FALSE, AnyPurpose)
    <3> HIDE DEF L, S
    <3>1. /\ Verifiable(p, roots, NoTime, FALSE, AnyPurpose)
          /\ \A i \in 1 .. Len(p) - 1 : ~FindIssuer(p[i], roots) /\ ~IsSelfIssued(p[i])
          /\ \E n \in 0 .. MaxChainDepth - 1 : \E s \in [1 .. n -> S] : p = <<chain[1]>> \o s
      BY DEF Paths
    <3>2. chain = p
      BY <2>3, <2>5, <3>1
    <3> QED BY <3>1, <3>2
  <2> QED BY <2>4, <2>5 DEF PathIsFound
<1> QED BY <1>1, Invariance, PTL
============
