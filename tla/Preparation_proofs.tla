------------------------- MODULE Preparation_proofs -------------------------
(***************************************************************************)
(* Proofs about what start makes of the network: the arithmetic of CIDRs   *)
(* for every address and prefix, the bypass policy for any interfaces in   *)
(* any order, the probe for any addresses and any peer, and that the       *)
(* address it returns is the one the policy pins.                          *)
(***************************************************************************)
EXTENDS Preparation, FiniteSetTheorems, SequenceTheorems, TLAPS

-----------------------------------------------------------------------------
(* Bytes *)

Octet == 0..255

LEMMA Powers ==
    /\ 2 ^ 0 = 1 /\ 2 ^ 1 = 2 /\ 2 ^ 2 = 4 /\ 2 ^ 3 = 8 /\ 2 ^ 4 = 16
    /\ 2 ^ 5 = 32 /\ 2 ^ 6 = 64 /\ 2 ^ 7 = 128 /\ 2 ^ 8 = 256
BY SMT

\* The bit that the mask k of a byte selects, counted from its upper end.
BitOf(b, k) == (b \div 2 ^ (7 - k)) % 2

\* The eight bits of a byte, with the exponents evaluated.
LEMMA BitsOf ==
    ASSUME NEW b \in Octet
    PROVE  /\ BitOf(b, 0) = (b \div 128) % 2 /\ BitOf(b, 1) = (b \div 64) % 2
           /\ BitOf(b, 2) = (b \div 32) % 2 /\ BitOf(b, 3) = (b \div 16) % 2
           /\ BitOf(b, 4) = (b \div 8) % 2 /\ BitOf(b, 5) = (b \div 4) % 2
           /\ BitOf(b, 6) = (b \div 2) % 2 /\ BitOf(b, 7) = b % 2
<1>1. 7 - 0 = 7 /\ 7 - 1 = 6 /\ 7 - 2 = 5 /\ 7 - 3 = 4 /\ 7 - 4 = 3 /\ 7 - 5 = 2 /\ 7 - 6 = 1 /\ 7 - 7 = 0
      OBVIOUS
<1>2. b \div 1 = b BY DEF Octet
<1> QED BY <1>1, <1>2, Powers DEF BitOf

\* A byte is determined by its bits.
LEMMA ByteFromBits ==
    ASSUME NEW a \in Octet, NEW b \in Octet, \A k \in 0..7 : BitOf(a, k) = BitOf(b, k)
    PROVE  a = b
<1>1. /\ (a \div 128) % 2 = (b \div 128) % 2 /\ (a \div 64) % 2 = (b \div 64) % 2
      /\ (a \div 32) % 2 = (b \div 32) % 2 /\ (a \div 16) % 2 = (b \div 16) % 2
      /\ (a \div 8) % 2 = (b \div 8) % 2 /\ (a \div 4) % 2 = (b \div 4) % 2
      /\ (a \div 2) % 2 = (b \div 2) % 2 /\ a % 2 = b % 2
      BY BitsOf
<1>2. a \div 128 = b \div 128 BY <1>1 DEF Octet
<1>3. a \div 64 = b \div 64 BY <1>1, <1>2 DEF Octet
<1>4. a \div 32 = b \div 32 BY <1>1, <1>3 DEF Octet
<1>5. a \div 16 = b \div 16 BY <1>1, <1>4 DEF Octet
<1>6. a \div 8 = b \div 8 BY <1>1, <1>5 DEF Octet
<1>7. a \div 4 = b \div 4 BY <1>1, <1>6 DEF Octet
<1>8. a \div 2 = b \div 2 BY <1>1, <1>7 DEF Octet
<1> QED BY <1>1, <1>8 DEF Octet

\* A byte cut to its upper r bits: those stay, the others are zero.
LEMMA CutByte ==
    ASSUME NEW b \in Octet, NEW r \in 1..7
    PROVE  LET c == (b \div 2 ^ (8 - r)) * 2 ^ (8 - r)
           IN  /\ c \in Octet
               /\ \A k \in 0..7 : BitOf(c, k) = IF k < r THEN BitOf(b, k) ELSE 0
<1> DEFINE Kept(u, n) ==
        LET c == (b \div u) * u
        IN  /\ c \in Octet
            /\ \A k \in 0..7 : BitOf(c, k) = IF k < n THEN BitOf(b, k) ELSE 0
<1>1. ASSUME NEW u \in {2, 4, 8, 16, 32, 64, 128} PROVE (b \div u) * u \in Octet
      BY DEF Octet
<1>a. \A k \in 0..7 : k \in {0, 1, 2, 3, 4, 5, 6, 7} OBVIOUS
<1>2. Kept(128, 1)
  <2> DEFINE c == (b \div 128) * 128
  <2>1. c \in Octet BY <1>1
  <2>2. /\ (c \div 128) % 2 = (b \div 128) % 2 /\ (c \div 64) % 2 = 0 /\ (c \div 32) % 2 = 0
        /\ (c \div 16) % 2 = 0 /\ (c \div 8) % 2 = 0 /\ (c \div 4) % 2 = 0
        /\ (c \div 2) % 2 = 0 /\ c % 2 = 0
        BY DEF Octet
  <2> HIDE DEF c
  <2> QED BY <1>a, <2>1, <2>2, BitsOf DEF c
<1>3. Kept(64, 2)
  <2> DEFINE c == (b \div 64) * 64
  <2>1. c \in Octet BY <1>1
  <2>2. /\ (c \div 128) % 2 = (b \div 128) % 2 /\ (c \div 64) % 2 = (b \div 64) % 2 /\ (c \div 32) % 2 = 0
        /\ (c \div 16) % 2 = 0 /\ (c \div 8) % 2 = 0 /\ (c \div 4) % 2 = 0
        /\ (c \div 2) % 2 = 0 /\ c % 2 = 0
        BY DEF Octet
  <2> HIDE DEF c
  <2> QED BY <1>a, <2>1, <2>2, BitsOf DEF c
<1>4. Kept(32, 3)
  <2> DEFINE c == (b \div 32) * 32
  <2>1. c \in Octet BY <1>1
  <2>2. /\ (c \div 128) % 2 = (b \div 128) % 2 /\ (c \div 64) % 2 = (b \div 64) % 2 /\ (c \div 32) % 2 = (b \div 32) % 2
        /\ (c \div 16) % 2 = 0 /\ (c \div 8) % 2 = 0 /\ (c \div 4) % 2 = 0
        /\ (c \div 2) % 2 = 0 /\ c % 2 = 0
        BY DEF Octet
  <2> HIDE DEF c
  <2> QED BY <1>a, <2>1, <2>2, BitsOf DEF c
<1>5. Kept(16, 4)
  <2> DEFINE c == (b \div 16) * 16
  <2>1. c \in Octet BY <1>1
  <2>2. /\ (c \div 128) % 2 = (b \div 128) % 2 /\ (c \div 64) % 2 = (b \div 64) % 2 /\ (c \div 32) % 2 = (b \div 32) % 2
        /\ (c \div 16) % 2 = (b \div 16) % 2 /\ (c \div 8) % 2 = 0 /\ (c \div 4) % 2 = 0
        /\ (c \div 2) % 2 = 0 /\ c % 2 = 0
        BY DEF Octet
  <2> HIDE DEF c
  <2> QED BY <1>a, <2>1, <2>2, BitsOf DEF c
<1>6. Kept(8, 5)
  <2> DEFINE c == (b \div 8) * 8
  <2>1. c \in Octet BY <1>1
  <2>2. /\ (c \div 128) % 2 = (b \div 128) % 2 /\ (c \div 64) % 2 = (b \div 64) % 2 /\ (c \div 32) % 2 = (b \div 32) % 2
        /\ (c \div 16) % 2 = (b \div 16) % 2 /\ (c \div 8) % 2 = (b \div 8) % 2 /\ (c \div 4) % 2 = 0
        /\ (c \div 2) % 2 = 0 /\ c % 2 = 0
        BY DEF Octet
  <2> HIDE DEF c
  <2> QED BY <1>a, <2>1, <2>2, BitsOf DEF c
<1>7. Kept(4, 6)
  <2> DEFINE c == (b \div 4) * 4
  <2>1. c \in Octet BY <1>1
  <2>2. /\ (c \div 128) % 2 = (b \div 128) % 2 /\ (c \div 64) % 2 = (b \div 64) % 2 /\ (c \div 32) % 2 = (b \div 32) % 2
        /\ (c \div 16) % 2 = (b \div 16) % 2 /\ (c \div 8) % 2 = (b \div 8) % 2 /\ (c \div 4) % 2 = (b \div 4) % 2
        /\ (c \div 2) % 2 = 0 /\ c % 2 = 0
        BY DEF Octet
  <2> HIDE DEF c
  <2> QED BY <1>a, <2>1, <2>2, BitsOf DEF c
<1>8. Kept(2, 7)
  <2> DEFINE c == (b \div 2) * 2
  <2>1. c \in Octet BY <1>1
  <2>2. /\ (c \div 128) % 2 = (b \div 128) % 2 /\ (c \div 64) % 2 = (b \div 64) % 2 /\ (c \div 32) % 2 = (b \div 32) % 2
        /\ (c \div 16) % 2 = (b \div 16) % 2 /\ (c \div 8) % 2 = (b \div 8) % 2 /\ (c \div 4) % 2 = (b \div 4) % 2
        /\ (c \div 2) % 2 = (b \div 2) % 2 /\ c % 2 = 0
        BY DEF Octet
  <2> HIDE DEF c
  <2> QED BY <1>a, <2>1, <2>2, BitsOf DEF c
<1> HIDE DEF Kept
<1>9. r \in {1, 2, 3, 4, 5, 6, 7} OBVIOUS
<1>10. 8 - 1 = 7 /\ 8 - 2 = 6 /\ 8 - 3 = 5 /\ 8 - 4 = 4 /\ 8 - 5 = 3 /\ 8 - 6 = 2 /\ 8 - 7 = 1 OBVIOUS
<1>11. Kept(2 ^ (8 - r), r)
  <2>1. CASE r = 1 BY <1>2, <1>10, <2>1, Powers
  <2>2. CASE r = 2 BY <1>3, <1>10, <2>2, Powers
  <2>3. CASE r = 3 BY <1>4, <1>10, <2>3, Powers
  <2>4. CASE r = 4 BY <1>5, <1>10, <2>4, Powers
  <2>5. CASE r = 5 BY <1>6, <1>10, <2>5, Powers
  <2>6. CASE r = 6 BY <1>7, <1>10, <2>6, Powers
  <2>7. CASE r = 7 BY <1>8, <1>10, <2>7, Powers
  <2> QED BY <1>9, <2>1, <2>2, <2>3, <2>4, <2>5, <2>6, <2>7
<1> QED BY <1>11 DEF Kept

-----------------------------------------------------------------------------
(* Addresses *)

\* Where a bit of an address is.
LEMMA Place ==
    ASSUME NEW n \in Nat, NEW bit \in 0..(8 * n - 1)
    PROVE  /\ bit \div 8 + 1 \in 1..n /\ bit % 8 \in 0..7
           /\ bit = 8 * (bit \div 8) + (bit % 8)
OBVIOUS

LEMMA PlaceOf ==
    ASSUME NEW n \in Nat, NEW i \in 1..n, NEW k \in 0..7
    PROVE  /\ 8 * (i - 1) + k \in 0..(8 * n - 1)
           /\ (8 * (i - 1) + k) \div 8 + 1 = i /\ (8 * (i - 1) + k) % 8 = k
OBVIOUS

\* An address is determined by its bits.
LEMMA AddressFromBits ==
    ASSUME NEW n \in Nat, NEW a \in [1..n -> Octet], NEW b \in [1..n -> Octet],
           \A bit \in 0..(8 * n - 1) : Bit(a, bit) = Bit(b, bit)
    PROVE  a = b
<1> SUFFICES ASSUME NEW i \in 1..n PROVE a[i] = b[i] OBVIOUS
<1>1. ASSUME NEW k \in 0..7 PROVE BitOf(a[i], k) = BitOf(b[i], k)
  <2> DEFINE bit == 8 * (i - 1) + k
  <2>1. bit \in 0..(8 * n - 1) /\ bit \div 8 + 1 = i /\ bit % 8 = k BY PlaceOf
  <2> HIDE DEF bit
  <2>2. Bit(a, bit) = Bit(b, bit) BY <2>1
  <2> QED BY <2>1, <2>2 DEF Bit, BitOf
<1> QED BY <1>1, ByteFromBits

\* What parseCidr makes of a byte: it keeps the bits of the prefix, and those alone.
LEMMA MaskedByte ==
    ASSUME NEW n \in Nat, NEW a \in [1..n -> Octet], NEW prefix \in 0..(8 * n),
           NEW i \in 1..n
    PROVE  LET c == Masked(a, prefix)[i]
           IN  /\ c \in Octet
               /\ \A k \in 0..7 : BitOf(c, k) = IF 8 * (i - 1) + k < prefix THEN BitOf(a[i], k) ELSE 0
<1> DEFINE r == prefix % 8
           full == prefix \div 8
           c == Masked(a, prefix)[i]
<1>1. full \in 0..n /\ r \in 0..7 /\ prefix = 8 * full + r OBVIOUS
<1>2. c = CASE i <= full -> a[i]
            [] i = full + 1 /\ r # 0 -> (a[i] \div 2 ^ (8 - r)) * 2 ^ (8 - r)
            [] OTHER -> 0
      BY DEF Masked, Cut
<1>3. a[i] \in Octet OBVIOUS
<1> HIDE DEF r, full, c
<1>4. CASE i <= full
  <2>1. c = a[i] BY <1>1, <1>2, <1>4
  <2>2. \A k \in 0..7 : 8 * (i - 1) + k < prefix BY <1>1, <1>4
  <2> QED BY <1>3, <2>1, <2>2 DEF c
<1>5. CASE i = full + 1 /\ r # 0
  <2>1. c = (a[i] \div 2 ^ (8 - r)) * 2 ^ (8 - r) BY <1>1, <1>2, <1>5
  <2>2. r \in 1..7 BY <1>1, <1>5
  <2>3. \A k \in 0..7 : 8 * (i - 1) + k < prefix <=> k < r BY <1>1, <1>5
  <2>4. c \in Octet /\ \A k \in 0..7 : BitOf(c, k) = IF k < r THEN BitOf(a[i], k) ELSE 0
        BY <1>3, <2>1, <2>2, CutByte
  <2> QED BY <2>3, <2>4 DEF c
<1>6. CASE i > full + 1 \/ (i = full + 1 /\ r = 0)
  <2>1. c = 0 BY <1>1, <1>2, <1>6
  <2>2. \A k \in 0..7 : ~(8 * (i - 1) + k < prefix) BY <1>1, <1>6
  <2>3. 0 \in Octet /\ \A k \in {0, 1, 2, 3, 4, 5, 6, 7} : BitOf(0, k) = 0 BY BitsOf DEF Octet
  <2>4. \A k \in 0..7 : BitOf(0, k) = 0 BY <2>3
  <2> QED BY <2>1, <2>2, <2>3, <2>4 DEF c
<1> QED BY <1>1, <1>4, <1>5, <1>6

LEMMA MaskedIs ==
    ASSUME NEW n \in Nat, NEW a \in [1..n -> Octet], NEW prefix \in 0..(8 * n)
    PROVE  /\ Masked(a, prefix) \in [1..n -> Octet]
           /\ \A bit \in 0..(8 * n - 1) :
                 Bit(Masked(a, prefix), bit) = IF bit < prefix THEN Bit(a, bit) ELSE 0
<1> DEFINE m == Masked(a, prefix)
<1>1. m = [i \in 1..n |-> m[i]] BY DEF Masked, Cut
<1>2. \A i \in 1..n :
          /\ m[i] \in Octet
          /\ \A k \in 0..7 : BitOf(m[i], k) = IF 8 * (i - 1) + k < prefix THEN BitOf(a[i], k) ELSE 0
      BY MaskedByte
<1> HIDE DEF m
<1>3. ASSUME NEW bit \in 0..(8 * n - 1)
      PROVE  Bit(m, bit) = IF bit < prefix THEN Bit(a, bit) ELSE 0
  <2> DEFINE i == (bit \div 8) + 1
             k == bit % 8
  <2>1. i \in 1..n /\ k \in 0..7 /\ bit = 8 * (i - 1) + k BY Place
  <2>2. Bit(m, bit) = BitOf(m[i], k) /\ Bit(a, bit) = BitOf(a[i], k) BY DEF Bit, BitOf
  <2> HIDE DEF i, k
  <2> QED BY <1>2, <2>1, <2>2
<1>4. m \in [1..n -> Octet] BY <1>1, <1>2
<1> QED BY <1>3, <1>4 DEF m

-----------------------------------------------------------------------------
(* CIDRs *)

LEMMA Families ==
    /\ DOMAIN Bytes = {"v4", "v6"}
    /\ \A f \in DOMAIN Bytes : /\ Bytes[f] \in Nat \ {0}
                               /\ Bits(f) = 8 * Bytes[f] /\ Bits(f) \in Nat
                               /\ AddressesOf(f) = [1..Bytes[f] -> Octet]
BY DEF Bytes, Bits, AddressesOf, Octet

\* The entry of a single address is the longest of its family, and parseCidr leaves it as it is.
LEMMA HostIs ==
    ASSUME NEW a, IsAddress(a)
    PROVE  LET h == Host(a.family, a.address)
           IN  /\ IsCidr(h) /\ parseCidr(h) = h
               /\ h.family = a.family /\ h.address = a.address /\ h.prefix = Bits(a.family)
<1> DEFINE h == Host(a.family, a.address)
           n == Bytes[a.family]
<1>1. n \in Nat /\ Bits(a.family) = 8 * n /\ a.address \in [1..n -> Octet] /\ a.family \in DOMAIN Bytes
      BY Families DEF IsAddress
<1>2. h = [family |-> a.family, address |-> a.address, prefix |-> 8 * n] BY <1>1 DEF Host
<1> HIDE DEF h, n
<1>3. IsCidr(h)
  <2>1. 8 * n \in 0..(8 * n) BY <1>1
  <2> QED BY <1>1, <1>2, <2>1 DEF IsCidr, IsAddress, n, AddressesOf, Octet
<1>4. Masked(a.address, 8 * n) = a.address
  <2> DEFINE m == Masked(a.address, 8 * n)
  <2>1. 8 * n \in 0..(8 * n) BY <1>1
  <2>2. m \in [1..n -> Octet] BY <1>1, <2>1, MaskedIs
  <2>3. \A bit \in 0..(8 * n - 1) : Bit(m, bit) = IF bit < 8 * n THEN Bit(a.address, bit) ELSE 0
        BY <1>1, <2>1, MaskedIs
  <2> HIDE DEF m
  <2>4. \A bit \in 0..(8 * n - 1) : Bit(m, bit) = Bit(a.address, bit) BY <1>1, <2>3
  <2>5. m = a.address BY <1>1, <2>2, <2>4, AddressFromBits
  <2> QED BY <2>5 DEF m
<1>5. parseCidr(h) = h BY <1>2, <1>4 DEF parseCidr
<1> QED BY <1>1, <1>2, <1>3, <1>5 DEF h

\* Containment is a partial order as far as it is needed here.
LEMMA ContainsItself ==
    ASSUME NEW c, IsCidr(c)
    PROVE  containsCidr(c, c)
BY Families DEF IsCidr, IsAddress, containsCidr

LEMMA ContainsThrough ==
    ASSUME NEW c, IsCidr(c), NEW d, IsCidr(d), NEW e, IsCidr(e), containsCidr(c, d), containsCidr(d, e)
    PROVE  containsCidr(c, e)
<1>1. c.prefix \in Nat /\ d.prefix \in Nat /\ e.prefix \in Nat
      BY Families DEF IsCidr, IsAddress
<1>2. c.family = e.family /\ c.prefix <= e.prefix BY <1>1 DEF containsCidr
<1>3. ASSUME NEW bit \in 0..(c.prefix - 1) PROVE Bit(c.address, bit) = Bit(e.address, bit)
  <2>1. bit \in 0..(d.prefix - 1) BY <1>1 DEF containsCidr
  <2> QED BY <2>1 DEF containsCidr
<1> QED BY <1>2, <1>3 DEF containsCidr

\* What a single address contains is as long, and contains it back.
LEMMA ContainedBack ==
    ASSUME NEW h, IsCidr(h), h.prefix = Bits(h.family), NEW c, IsCidr(c), containsCidr(h, c)
    PROVE  containsCidr(c, h)
<1>1. c.prefix \in 0..Bits(h.family) /\ Bits(h.family) \in Nat
      BY Families DEF IsCidr, IsAddress, containsCidr
<1>2. c.prefix = h.prefix BY <1>1 DEF containsCidr
<1> QED BY <1>1, <1>2 DEF containsCidr

\* A single address contains no other.
LEMMA HostContains ==
    ASSUME NEW a, IsAddress(a), NEW b, IsAddress(b),
           containsCidr(Host(a.family, a.address), Host(b.family, b.address))
    PROVE  Host(a.family, a.address) = Host(b.family, b.address)
<1> DEFINE n == Bytes[a.family]
<1>1. a.family = b.family BY DEF containsCidr, Host
<1>2. /\ n \in Nat /\ Bits(a.family) = 8 * n
      /\ a.address \in [1..n -> Octet] /\ b.address \in [1..n -> Octet]
      BY <1>1, Families DEF IsAddress
<1>3. \A bit \in 0..(8 * n - 1) : Bit(a.address, bit) = Bit(b.address, bit)
      BY <1>2 DEF containsCidr, Host
<1> HIDE DEF n
<1>4. a.address = b.address BY <1>2, <1>3, AddressFromBits
<1> QED BY <1>1, <1>4

\* Overlap with the TUN address space is containment one way or the other.
LEMMA OverlapIs ==
    ASSUME NEW c, IsCidr(c)
    PROVE  overlapsTunAddressSpace(c) = (containsCidr(c, Tun) \/ containsCidr(Tun, c))
<1>1. c.prefix \in Nat /\ Tun.prefix \in Nat BY BypassAssumption, Families DEF IsCidr, IsAddress
<1>2. CASE c.prefix <= Tun.prefix
  <2>1. (0..(c.prefix - 1)) \cap (0..(Tun.prefix - 1)) = 0..(c.prefix - 1) BY <1>1, <1>2
  <2>2. containsCidr(Tun, c) => containsCidr(c, Tun)
    <3> SUFFICES ASSUME containsCidr(Tun, c) PROVE containsCidr(c, Tun) OBVIOUS
    <3>1. c.prefix = Tun.prefix BY <1>1, <1>2 DEF containsCidr
    <3> QED BY <3>1 DEF containsCidr
  <2>3. overlapsTunAddressSpace(c) <=> containsCidr(c, Tun)
        BY <1>2, <2>1 DEF overlapsTunAddressSpace, containsCidr
  <2> QED BY <2>2, <2>3 DEF overlapsTunAddressSpace, containsCidr
<1>3. CASE Tun.prefix < c.prefix
  <2>1. (0..(c.prefix - 1)) \cap (0..(Tun.prefix - 1)) = 0..(Tun.prefix - 1) BY <1>1, <1>3
  <2>2. ~containsCidr(c, Tun) /\ Tun.prefix <= c.prefix BY <1>1, <1>3 DEF containsCidr
  <2>3. overlapsTunAddressSpace(c) <=> containsCidr(Tun, c)
        BY <2>1, <2>2 DEF overlapsTunAddressSpace, containsCidr
  <2> QED BY <2>2, <2>3 DEF overlapsTunAddressSpace, containsCidr
<1> QED BY <1>1, <1>2, <1>3

\* What ArithmeticAgrees says of one address and one prefix.
LEMMA Arithmetic ==
    ASSUME NEW a, IsAddress(a), NEW prefix \in 0..Bits(a.family)
    PROVE  LET host == Host(a.family, a.address)
               cidr == parseCidr([host EXCEPT !.prefix = prefix])
           IN  /\ \A bit \in 0..(Bits(a.family) - 1) :
                     Bit(cidr.address, bit) = IF bit < prefix THEN Bit(a.address, bit) ELSE 0
               /\ containsCidr(cidr, host)
               /\ overlapsTunAddressSpace(cidr) = (containsCidr(cidr, Tun) \/ containsCidr(Tun, cidr))
<1> DEFINE host == Host(a.family, a.address)
           cidr == parseCidr([host EXCEPT !.prefix = prefix])
           n == Bytes[a.family]
<1>1. /\ n \in Nat /\ Bits(a.family) = 8 * n /\ a.family \in DOMAIN Bytes
      /\ a.address \in [1..n -> Octet] /\ AddressesOf(a.family) = [1..n -> Octet]
      BY Families DEF IsAddress
<1>2. cidr = [family |-> a.family, address |-> Masked(a.address, prefix), prefix |-> prefix]
  <2> DEFINE short == [family |-> a.family, address |-> a.address, prefix |-> prefix]
  <2>1. [host EXCEPT !.prefix = prefix] = short BY DEF Host
  <2>2. parseCidr(short) = [family |-> a.family, address |-> Masked(a.address, prefix), prefix |-> prefix]
        BY DEF parseCidr
  <2> QED BY <2>1, <2>2
<1>3. host = [family |-> a.family, address |-> a.address, prefix |-> 8 * n] BY <1>1 DEF Host
<1> HIDE DEF host, cidr, n
<1>4. prefix \in 0..(8 * n) BY <1>1
<1>5. /\ Masked(a.address, prefix) \in [1..n -> Octet]
      /\ \A bit \in 0..(8 * n - 1) :
            Bit(Masked(a.address, prefix), bit) = IF bit < prefix THEN Bit(a.address, bit) ELSE 0
      BY <1>1, <1>4, MaskedIs
<1>6. \A bit \in 0..(Bits(a.family) - 1) :
          Bit(cidr.address, bit) = IF bit < prefix THEN Bit(a.address, bit) ELSE 0
      BY <1>1, <1>2, <1>5
<1>7. containsCidr(cidr, host)
  <2>1. \A bit \in 0..(prefix - 1) : bit \in 0..(8 * n - 1) /\ bit < prefix BY <1>1, <1>4
  <2>2. cidr.family = host.family /\ cidr.prefix = prefix /\ prefix <= host.prefix
        BY <1>1, <1>2, <1>3, <1>4
  <2>3. host.address = a.address /\ cidr.address = Masked(a.address, prefix) BY <1>2, <1>3
  <2> QED BY <1>5, <2>1, <2>2, <2>3 DEF containsCidr
<1>8. IsCidr(cidr) BY <1>1, <1>2, <1>4, <1>5 DEF IsCidr, IsAddress
<1>9. overlapsTunAddressSpace(cidr) = (containsCidr(cidr, Tun) \/ containsCidr(Tun, cidr))
      BY <1>8, OverlapIs
<1> QED BY <1>6, <1>7, <1>9 DEF cidr, host

-----------------------------------------------------------------------------
(* BypassPolicy: the collection *)

\* The entries that interfaces can make.
Locals == {Host(i.family, i.address) : i \in {j \in Interfaces : Eligible(j)}}

Collecting == {"collect", "too many", "upstream", "no upstream"}
Assembling == {"assemble", "done"}

\* Behind any part of the list, whatever its order, what counts as taken are the fixed
\* ranges and the addresses to be added, and the entries are the latter.
CollectInv ==
    /\ pc \in Collecting \cup Assembling /\ listed \in SUBSET Interfaces
    /\ seen = ToSet(Fixed) \cup Added
    /\ IsFiniteSet(Added) /\ interface_cidrs \in Seq(Locals)
    /\ IF pc = "too many" THEN Cardinality(Added) > Cap
       ELSE /\ ToSet(interface_cidrs) = Added /\ IsInjective(interface_cidrs)
            /\ Len(interface_cidrs) = Cardinality(Added) /\ Cardinality(Added) <= Cap

LEMMA LocalIs ==
    ASSUME NEW h \in Locals
    PROVE  /\ IsCidr(h) /\ parseCidr(h) = h /\ h.prefix = Bits(h.family)
           /\ ~overlapsTunAddressSpace(h)
           /\ \E i \in Interfaces : IsAddress(i) /\ h = Host(i.family, i.address)
<1>1. PICK i \in Interfaces : Eligible(i) /\ h = Host(i.family, i.address) BY DEF Locals
<1>2. IsAddress(i) /\ ~overlapsTunAddressSpace(h)
      BY <1>1, Families, BypassAssumption DEF Eligible, Considered
<1>3. IsCidr(h) /\ parseCidr(h) = h /\ h.family = i.family /\ h.prefix = Bits(i.family)
      BY <1>1, <1>2, HostIs
<1> QED BY <1>1, <1>2, <1>3

LEMMA WantedAreLocal ==
    ASSUME listed \in SUBSET Interfaces
    PROVE  Added \subseteq Wanted /\ Wanted \subseteq Locals
BY DEF Added, Wanted, Locals

\* What a further entry of the list adds.
LEMMA ListedGrows ==
    ASSUME NEW i \in Interfaces, listed \in SUBSET Interfaces, listed' = listed \cup {i}
    PROVE  LET cidr == Host(i.family, i.address) IN
           /\ ~Eligible(i) => Added' = Added
           /\ Eligible(i) => /\ cidr \in Locals
                             /\ Added' = IF \E f \in ToSet(Fixed) : containsCidr(f, cidr) THEN Added
                                         ELSE Added \cup {cidr}
<1> DEFINE cidr == Host(i.family, i.address)
<1>1. Wanted' = {Host(j.family, j.address) : j \in {k \in listed \cup {i} : Eligible(k)}} BY DEF Wanted
<1>2. Added' = {c \in Wanted' : \A f \in ToSet(Fixed) : ~containsCidr(f, c)} BY DEF Added
<1>3. CASE ~Eligible(i)
  <2>1. {k \in listed \cup {i} : Eligible(k)} = {k \in listed : Eligible(k)} BY <1>3
  <2>2. Wanted' = Wanted BY <1>1, <2>1 DEF Wanted
  <2> QED BY <1>2, <1>3, <2>2 DEF Added
<1>4. CASE Eligible(i)
  <2>1. {k \in listed \cup {i} : Eligible(k)} = {k \in listed : Eligible(k)} \cup {i} BY <1>4
  <2>2. Wanted' = Wanted \cup {cidr} BY <1>1, <2>1 DEF Wanted
  <2>3. cidr \in Locals BY <1>4 DEF Locals
  <2> HIDE DEF cidr
  <2>4. Added' = IF \E f \in ToSet(Fixed) : containsCidr(f, cidr) THEN Added ELSE Added \cup {cidr}
        BY <1>2, <2>2 DEF Added
  <2> QED BY <1>4, <2>3, <2>4 DEF cidr
<1> QED BY <1>3, <1>4

\* An address is covered by a fixed range, or it was taken itself.
LEMMA CoveredIs ==
    ASSUME CollectInv, NEW cidr \in Locals
    PROVE  Covered(cidr) <=> (\E f \in ToSet(Fixed) : containsCidr(f, cidr)) \/ cidr \in Added
<1>1. Added \subseteq Locals BY WantedAreLocal DEF CollectInv
<1>2. \A f \in ToSet(Fixed) : parseCidr(f) = f BY BypassAssumption
<1>3. \A e \in Added : parseCidr(e) = e BY <1>1, LocalIs
<1>4. ASSUME NEW e \in Added, containsCidr(e, cidr) PROVE e = cidr
      BY <1>1, <1>4, LocalIs, HostContains
<1>5. containsCidr(cidr, cidr) BY LocalIs, ContainsItself
<1> QED BY <1>2, <1>3, <1>4, <1>5 DEF Covered, CollectInv

\* One entry more at the end.
LEMMA AppendIs ==
    ASSUME NEW S, NEW s \in Seq(S), NEW x \in S, x \notin ToSet(s), IsInjective(s)
    PROVE  /\ Append(s, x) \in Seq(S) /\ Len(Append(s, x)) = Len(s) + 1
           /\ ToSet(Append(s, x)) = ToSet(s) \cup {x} /\ IsInjective(Append(s, x))
<1>1. /\ Append(s, x) \in Seq(S) /\ Len(Append(s, x)) = Len(s) + 1 /\ Len(s) \in Nat
      /\ \A i \in 1..(Len(s) + 1) : Append(s, x)[i] = IF i = Len(s) + 1 THEN x ELSE s[i]
      /\ DOMAIN s = 1..Len(s) /\ DOMAIN Append(s, x) = 1..(Len(s) + 1)
      OBVIOUS
<1> DEFINE t == Append(s, x)
<1> HIDE DEF t
<1>2. ToSet(t) = ToSet(s) \cup {x}
  <2>1. \A i \in 1..Len(s) : t[i] = s[i] /\ i \in 1..(Len(s) + 1) BY <1>1 DEF t
  <2>2. t[Len(s) + 1] = x /\ Len(s) + 1 \in 1..(Len(s) + 1) BY <1>1 DEF t
  <2>3. \A i \in 1..(Len(s) + 1) : i \in 1..Len(s) \/ i = Len(s) + 1 BY <1>1
  <2> QED BY <1>1, <2>1, <2>2, <2>3 DEF ToSet, t
<1>3. IsInjective(t) BY <1>1 DEF IsInjective, ToSet, t
<1> QED BY <1>1, <1>2, <1>3 DEF t

LEMMA AppendInterfaceStep ==
    ASSUME CollectInv, NEW i \in Interfaces, AppendInterface(i)
    PROVE  CollectInv'
<1> DEFINE cidr == Host(i.family, i.address)
<1>a. /\ pc = "collect" /\ listed' = listed \cup {i} /\ listed \in SUBSET Interfaces
      /\ seen = ToSet(Fixed) \cup Added /\ IsFiniteSet(Added) /\ interface_cidrs \in Seq(Locals)
      /\ ToSet(interface_cidrs) = Added /\ IsInjective(interface_cidrs)
      /\ Len(interface_cidrs) = Cardinality(Added) /\ Cardinality(Added) <= Cap
      BY DEF AppendInterface, CollectInv
<1>b. Cap \in Nat /\ Cardinality(Added) \in Nat BY <1>a, BypassAssumption, FS_CardinalityType
<1>1. CASE ~Eligible(i) \/ Covered(cidr)
  <2>1. UNCHANGED <<pc, seen, interface_cidrs>> BY <1>1 DEF AppendInterface
  <2>2. Added' = Added
    <3>1. CASE ~Eligible(i) BY <1>a, <3>1, ListedGrows
    <3>2. CASE Eligible(i)
      <4>1. cidr \in Locals BY <1>a, <3>2, ListedGrows
      <4>2. (\E f \in ToSet(Fixed) : containsCidr(f, cidr)) \/ cidr \in Added
            BY <1>1, <3>2, <4>1, CoveredIs
      <4>3. Added' = IF \E f \in ToSet(Fixed) : containsCidr(f, cidr) THEN Added
                     ELSE Added \cup {cidr}
            BY <1>a, <3>2, ListedGrows
      <4> HIDE DEF cidr
      <4> QED BY <4>2, <4>3
    <3> QED BY <3>1, <3>2
  <2> QED BY <1>a, <2>1, <2>2 DEF CollectInv
<1>2. CASE Eligible(i) /\ ~Covered(cidr)
  <2>1. cidr \in Locals BY <1>a, <1>2, ListedGrows
  <2>2. (\A f \in ToSet(Fixed) : ~containsCidr(f, cidr)) /\ cidr \notin Added
        BY <1>2, <2>1, CoveredIs
  <2>3. Added' = Added \cup {cidr} BY <1>a, <1>2, <2>2, ListedGrows
  <2>4. seen' = seen \cup {cidr} BY <1>2 DEF AppendInterface
  <2>5. IsFiniteSet(Added') /\ Cardinality(Added') = Cardinality(Added) + 1
        BY <1>a, <2>2, <2>3, FS_AddElement
  <2> HIDE DEF cidr
  <2>6. CASE Full
    <3>1. pc' = "too many" /\ UNCHANGED interface_cidrs BY <1>2, <2>6 DEF AppendInterface, cidr
    <3>2. Cardinality(Added') > Cap BY <1>a, <1>b, <2>5, <2>6 DEF Full
    <3> QED BY <1>a, <2>3, <2>4, <2>5, <3>1, <3>2 DEF CollectInv, Collecting
  <2>7. CASE ~Full
    <3>1. interface_cidrs' = Append(interface_cidrs, cidr) /\ UNCHANGED pc
          BY <1>2, <2>7 DEF AppendInterface, cidr
    <3>2. /\ interface_cidrs' \in Seq(Locals) /\ Len(interface_cidrs') = Len(interface_cidrs) + 1
          /\ ToSet(interface_cidrs') = Added \cup {cidr} /\ IsInjective(interface_cidrs')
          BY <1>a, <2>1, <2>2, <3>1, AppendIs
    <3>3. Cardinality(Added') <= Cap BY <1>a, <1>b, <2>5, <2>7 DEF Full
    <3> QED BY <1>a, <2>3, <2>4, <2>5, <3>1, <3>2, <3>3 DEF CollectInv, Collecting
  <2> QED BY <2>6, <2>7
<1> QED BY <1>1, <1>2

\* The other steps of the policy collect nothing.
LEMMA CollectKept ==
    ASSUME CollectInv, UNCHANGED <<listed, seen, interface_cidrs>>,
           pc' \in Collecting \cup Assembling, pc = "too many" <=> pc' = "too many"
    PROVE  CollectInv'
<1>1. Added' = Added BY DEF Added, Wanted
<1> QED BY <1>1 DEF CollectInv

LEMMA CollectStep ==
    ASSUME CollectInv, NEW u, PolicyStep(u)
    PROVE  CollectInv'
<1>1. CASE \E i \in Interfaces : AppendInterface(i) BY <1>1, AppendInterfaceStep
<1>2. CASE EndOfList BY <1>2, CollectKept DEF EndOfList, Collecting
<1>3. CASE SetUpstream(u) BY <1>3, CollectKept DEF SetUpstream, Collecting, Assembling
<1>4. CASE AppendCidr BY <1>4, CollectKept DEF AppendCidr, Collecting, Assembling
<1>5. CASE AllAppended BY <1>5, CollectKept DEF AllAppended, Assembling
<1> QED BY <1>1, <1>2, <1>3, <1>4, <1>5 DEF PolicyStep

LEMMA CollectInit ==
    ASSUME PolicyInit
    PROVE  CollectInv
<1>1. Added = {} BY DEF PolicyInit, Added, Wanted
<1>2. IsFiniteSet(Added) /\ Cardinality(Added) = 0 BY <1>1, FS_EmptySet
<1>3. /\ interface_cidrs = <<>> /\ <<>> \in Seq(Locals) /\ Len(<<>>) = 0
      /\ ToSet(<<>>) = {} /\ IsInjective(<<>>)
      BY DEF PolicyInit, ToSet, IsInjective
<1> QED BY <1>1, <1>2, <1>3, BypassAssumption DEF PolicyInit, CollectInv, Collecting

-----------------------------------------------------------------------------
(* BypassPolicy: the assembly *)

UpstreamCidrs == {Host(u.family, u.address) : u \in Upstreams}
Entries == ToSet(Fixed) \cup Locals \cup UpstreamCidrs

\* What allCidrs has made of the candidates before next: the first is its first, each
\* of them is contained in something it kept, and nothing it kept is contained in
\* something it had kept before.
Joined ==
    /\ upstream_cidr \in {NoAddress} \cup UpstreamCidrs
    /\ next \in 1..(Len(Candidates) + 1) /\ all \in Seq(Entries)
    /\ IF next = 1 THEN all = <<>> ELSE all # <<>> /\ all[1] = Candidates[1]
    /\ pc = "done" => next > Len(Candidates)
    /\ \A j \in 1..(next - 1) : \E e \in ToSet(all) : containsCidr(e, Candidates[j])
    /\ \A k \in DOMAIN all : \/ all[k] \in ToSet(Fixed) \cup Added
                             \/ k = 1 /\ all[k] = upstream_cidr
    /\ \A k, l \in DOMAIN all : k < l => ~containsCidr(all[k], all[l])

AssembleInv ==
    /\ pc \in Collecting => next = 1 /\ all = <<>> /\ upstream_cidr = NoAddress
    /\ pc \in Assembling => Joined

LEMMA EntryIs ==
    ASSUME NEW c \in Entries
    PROVE  IsCidr(c) /\ parseCidr(c) = c
<1>1. CASE c \in ToSet(Fixed) BY <1>1, BypassAssumption
<1>2. CASE c \in Locals BY <1>2, LocalIs
<1>3. CASE c \in UpstreamCidrs BY <1>3, BypassAssumption, HostIs DEF UpstreamCidrs
<1> QED BY <1>1, <1>2, <1>3 DEF Entries

\* The candidates are the upstream, if there is one, the fixed ranges and the interfaces.
Line(up, found) == (IF up = NoAddress THEN <<>> ELSE <<up>>) \o Fixed \o found

LEMMA CandidatesAre ==
    ASSUME NEW up \in {NoAddress} \cup UpstreamCidrs, NEW found \in Seq(Locals)
    PROVE  LET joined == Line(up, found) IN
           /\ joined \in Seq(Entries) /\ Len(joined) \in Nat \ {0}
           /\ joined[1] = IF up = NoAddress THEN Fixed[1] ELSE up
           /\ \A j \in 1..Len(joined) :
                 \/ joined[j] \in ToSet(Fixed) \cup ToSet(found)
                 \/ j = 1 /\ up # NoAddress
           /\ \A c \in ToSet(Fixed) \cup ToSet(found) :
                 \E j \in 1..Len(joined) : joined[j] = c
<1> DEFINE joined == Line(up, found)
           first == IF up = NoAddress THEN <<>> ELSE <<up>>
           head == first \o Fixed
           f == Len(Fixed)
           n == Len(first)
           m == Len(found)
<1>1. first \in Seq(Entries) /\ n \in Nat /\ n = IF up = NoAddress THEN 0 ELSE 1
  <2>1. CASE up = NoAddress BY <2>1
  <2>2. CASE up # NoAddress
    <3>1. up \in Entries BY <2>2 DEF Entries
    <3>2. <<up>> \in Seq(Entries) /\ Len(<<up>>) = 1 BY <3>1
    <3> QED BY <2>2, <3>2
  <2> QED BY <2>1, <2>2
<1>2. Fixed \in Seq(Entries) /\ f \in Nat \ {0} /\ found \in Seq(Entries) /\ m \in Nat
  <2>1. Fixed \in Seq(ToSet(Fixed)) /\ Fixed # <<>> BY BypassAssumption
  <2>2. \A S, T : S \subseteq T => Seq(S) \subseteq Seq(T) OBVIOUS
  <2>3. ToSet(Fixed) \subseteq Entries /\ Locals \subseteq Entries BY DEF Entries
  <2> QED BY <2>1, <2>2, <2>3
<1>3. /\ ToSet(Fixed) = {Fixed[i] : i \in 1..f}
      /\ ToSet(found) = {found[i] : i \in 1..m}
      BY <1>2 DEF ToSet
<1>4. /\ head \in Seq(Entries) /\ Len(head) = n + f
      /\ \A i \in 1..(n + f) : head[i] = IF i <= n THEN first[i] ELSE Fixed[i - n]
      BY <1>1, <1>2, ConcatProperties
<1>5. joined = head \o found BY DEF Line
<1>6. up # NoAddress => first[1] = up OBVIOUS
<1> HIDE DEF first, head, f, n, m
<1>7. /\ joined \in Seq(Entries) /\ Len(joined) = n + f + m
      /\ \A i \in 1..(n + f + m) :
            joined[i] = IF i <= n + f THEN head[i] ELSE found[i - (n + f)]
  <2>1. m = Len(found) BY DEF m
  <2>2. \A t : t = Len(head) + m => /\ Len(head \o found) = t
                                  /\ \A i \in 1..t : (head \o found)[i] =
                                        IF i <= Len(head) THEN head[i] ELSE found[i - Len(head)]
        BY <1>2, <1>4, <2>1, ConcatProperties
  <2>3. head \o found \in Seq(Entries) BY <1>2, <1>4, ConcatProperties
  <2> QED BY <1>4, <1>5, <2>2, <2>3
<1>8. \A i \in 1..n : joined[i] = first[i]
  <2> SUFFICES ASSUME NEW i \in 1..n PROVE joined[i] = first[i] OBVIOUS
  <2>1. i \in 1..(n + f) /\ i \in 1..(n + f + m) /\ i <= n /\ i <= n + f BY <1>1, <1>2
  <2> QED BY <1>4, <1>7, <2>1
<1>9. \A i \in 1..f : n + i \in 1..(n + f + m) /\ joined[n + i] = Fixed[i]
  <2> SUFFICES ASSUME NEW i \in 1..f
               PROVE  n + i \in 1..(n + f + m) /\ joined[n + i] = Fixed[i]
      OBVIOUS
  <2>1. n + i \in 1..(n + f) /\ n + i \in 1..(n + f + m) /\ ~(n + i <= n) /\ (n + i) - n = i
        BY <1>1, <1>2
  <2> QED BY <1>1, <1>2, <1>4, <1>7, <2>1
<1>10. \A i \in 1..m : /\ n + f + i \in 1..(n + f + m)
                       /\ joined[n + f + i] = found[i]
  <2> SUFFICES ASSUME NEW i \in 1..m
               PROVE  n + f + i \in 1..(n + f + m) /\ joined[n + f + i] = found[i]
      OBVIOUS
  <2>1. n + f + i \in 1..(n + f + m) /\ ~(n + f + i <= n + f) /\ (n + f + i) - (n + f) = i
        BY <1>1, <1>2
  <2> QED BY <1>7, <2>1
<1>11. \A j \in 1..Len(joined) : \/ j \in 1..n
                                 \/ \E i \in 1..f : j = n + i
                                 \/ \E i \in 1..m : j = n + f + i
  <2> SUFFICES ASSUME NEW j \in 1..(n + f + m)
               PROVE  \/ j \in 1..n
                      \/ \E i \in 1..f : j = n + i
                      \/ \E i \in 1..m : j = n + f + i
      BY <1>7
  <2>1. j \in Nat /\ (j <= n => j \in 1..n) BY <1>1, <1>2
  <2>2. CASE n < j /\ j <= n + f
    <3>1. j - n \in 1..f /\ j = n + (j - n) BY <1>1, <1>2, <2>2
    <3> QED BY <3>1
  <2>3. CASE n + f < j
    <3>1. j - (n + f) \in 1..m /\ j = n + f + (j - (n + f)) BY <1>1, <1>2, <2>3
    <3> QED BY <3>1
  <2>4. j <= n \/ (n < j /\ j <= n + f) \/ n + f < j BY <1>1, <1>2
  <2> QED BY <2>1, <2>2, <2>3, <2>4
<1>12. joined[1] = IF up = NoAddress THEN Fixed[1] ELSE up
  <2>1. CASE up = NoAddress BY <1>1, <1>2, <1>9, <2>1
  <2>2. CASE up # NoAddress BY <1>1, <1>6, <1>8, <2>2
  <2> QED BY <2>1, <2>2
<1>13. \A j \in 1..Len(joined) : \/ joined[j] \in ToSet(Fixed) \cup ToSet(found)
                                 \/ j = 1 /\ up # NoAddress
       BY <1>1, <1>3, <1>9, <1>10, <1>11
<1>14. \A c \in ToSet(Fixed) \cup ToSet(found) :
           \E j \in 1..Len(joined) : joined[j] = c
       BY <1>3, <1>7, <1>9, <1>10
<1>15. Len(joined) \in Nat \ {0} BY <1>1, <1>2, <1>7
<1> QED BY <1>7, <1>12, <1>13, <1>14, <1>15 DEF joined

LEMMA AssembleInit ==
    ASSUME PolicyInit
    PROVE  AssembleInv
BY DEF PolicyInit, AssembleInv, Collecting, Assembling

\* With nothing appended yet, what was assembled is right.
LEMMA SetUpstreamStep ==
    ASSUME CollectInv, AssembleInv, NEW u \in Upstreams \cup {NoAddress}, SetUpstream(u)
    PROVE  AssembleInv'
<1>1. pc = "upstream" /\ next = 1 /\ all = <<>> /\ upstream_cidr = NoAddress
      BY DEF SetUpstream, AssembleInv, Collecting
<1>2. UNCHANGED <<listed, seen, interface_cidrs, next, all>> BY DEF SetUpstream
<1>3. CASE u # NoAddress /\ isUnspecifiedAddress(u.address)
      BY <1>1, <1>2, <1>3 DEF SetUpstream, AssembleInv, Collecting, Assembling
<1>4. CASE ~(u # NoAddress /\ isUnspecifiedAddress(u.address))
  <2>1. pc' = "assemble" /\ upstream_cidr' = IF u = NoAddress THEN u ELSE Host(u.family, u.address)
        BY <1>4 DEF SetUpstream
  <2>2. upstream_cidr' \in {NoAddress} \cup UpstreamCidrs
        BY <2>1 DEF UpstreamCidrs
  <2>3. interface_cidrs' \in Seq(Locals) BY <1>2 DEF CollectInv
  <2>4. Len(Candidates)' \in Nat \ {0} BY <2>2, <2>3, CandidatesAre DEF Candidates, Line
  <2>5. next' \in 1..(Len(Candidates)' + 1) BY <1>1, <1>2, <2>4
  <2>6. all' = <<>> /\ next' = 1 /\ ToSet(<<>>) = {} /\ <<>> \in Seq(Entries) /\ DOMAIN <<>> = {}
        BY <1>1, <1>2 DEF ToSet
  <2>7. 1..(next' - 1) = {} BY <2>6
  <2>8. Joined' BY <2>1, <2>2, <2>5, <2>6, <2>7 DEF Joined
  <2> QED BY <2>1, <2>8 DEF AssembleInv, Collecting
<1> QED BY <1>3, <1>4

\* One candidate more.
LEMMA AppendCidrStep ==
    ASSUME CollectInv, AssembleInv, AppendCidr
    PROVE  AssembleInv'
<1> DEFINE cidr == Candidates[next]
<1>a. /\ pc = "assemble" /\ pc' = pc /\ next <= Len(Candidates) /\ next' = next + 1
      /\ UNCHANGED <<listed, seen, interface_cidrs, upstream_cidr>>
      /\ all' = IF Superfluous(parseCidr(cidr)) THEN all ELSE Append(all, parseCidr(cidr))
      BY DEF AppendCidr
<1>b. Joined /\ interface_cidrs \in Seq(Locals) /\ ToSet(interface_cidrs) = Added
      BY <1>a DEF AssembleInv, Assembling, CollectInv
<1>c. /\ Candidates \in Seq(Entries) /\ Len(Candidates) \in Nat \ {0}
      /\ \A j \in 1..Len(Candidates) : \/ Candidates[j] \in ToSet(Fixed) \cup Added
                                       \/ j = 1 /\ upstream_cidr # NoAddress
      /\ Candidates[1] = IF upstream_cidr = NoAddress THEN Fixed[1] ELSE upstream_cidr
      BY <1>b, CandidatesAre DEF Joined, Candidates, Line
<1>d. Candidates' = Candidates /\ Added' = Added BY <1>a DEF Candidates, Added, Wanted
<1>e. next \in 1..Len(Candidates) /\ next' \in 1..(Len(Candidates) + 1) /\ next' # 1
      /\ next' - 1 = next /\ 1..next = 1..(next - 1) \cup {next}
      BY <1>a, <1>b, <1>c DEF Joined
<1>f. cidr \in Entries /\ IsCidr(cidr) /\ parseCidr(cidr) = cidr /\ containsCidr(cidr, cidr)
      BY <1>c, <1>e, EntryIs, ContainsItself
<1>g. \A k \in DOMAIN all : all[k] \in Entries BY <1>b DEF Joined
<1> HIDE DEF cidr
<1>1. CASE Superfluous(cidr)
  <2>1. all' = all BY <1>a, <1>f, <1>1
  <2>2. \E e \in ToSet(all) : containsCidr(e, cidr) BY <1>f, <1>1 DEF Superfluous
  <2>3. all # <<>> BY <2>2 DEF ToSet
  <2>4. \A j \in 1..next : \E e \in ToSet(all) : containsCidr(e, Candidates[j])
        BY <1>b, <1>e, <2>2 DEF Joined, cidr
  <2>5. all[1] = Candidates[1] BY <1>b, <2>3 DEF Joined
  <2>6. Joined' BY <1>a, <1>b, <1>d, <1>e, <2>1, <2>3, <2>4, <2>5 DEF Joined
  <2> QED BY <1>a, <2>6 DEF AssembleInv, Collecting
<1>2. CASE ~Superfluous(cidr)
  <2> DEFINE n == Len(all)
  <2>1. all' = Append(all, cidr) BY <1>a, <1>f, <1>2
  <2>2. n \in Nat /\ DOMAIN all = 1..n /\ all \in Seq(Entries) BY <1>b DEF Joined
  <2>3. /\ all' \in Seq(Entries) /\ Len(all') = n + 1 /\ DOMAIN all' = 1..(n + 1)
        /\ \A k \in 1..n : all'[k] = all[k]
        /\ all'[n + 1] = cidr
        BY <1>f, <2>1, <2>2
  <2> HIDE DEF n
  <2>4. ToSet(all') = ToSet(all) \cup {cidr}
    <3>1. \A k \in 1..(n + 1) : k \in 1..n \/ k = n + 1 BY <2>2
    <3>2. n + 1 \in 1..(n + 1) /\ \A k \in 1..n : k \in 1..(n + 1) BY <2>2
    <3> QED BY <2>2, <2>3, <3>1, <3>2 DEF ToSet
  <2>5. \A j \in 1..next : \E e \in ToSet(all') : containsCidr(e, Candidates[j])
        BY <1>b, <1>e, <1>f, <2>4 DEF Joined, cidr
  <2>6. all' # <<>> /\ all'[1] = Candidates[1]
    <3>1. CASE next = 1
      <4>1. n = 0 BY <1>b, <3>1 DEF Joined, n
      <4> QED BY <2>3, <3>1, <4>1 DEF cidr
    <3>2. CASE next # 1
      <4>1. all # <<>> /\ all[1] = Candidates[1] BY <1>b, <3>2 DEF Joined
      <4>2. 1 \in 1..n BY <2>2, <4>1 DEF n
      <4>3. all'[1] = Candidates[1] BY <2>3, <4>1, <4>2
      <4>4. Len(all') # 0 BY <2>2, <2>3
      <4> QED BY <4>3, <4>4
    <3> QED BY <3>1, <3>2
  <2>7. ASSUME NEW k \in DOMAIN all'
        PROVE  \/ all'[k] \in ToSet(Fixed) \cup Added
               \/ k = 1 /\ all'[k] = upstream_cidr
    <3>1. CASE k \in 1..n BY <1>b, <2>2, <2>3, <3>1 DEF Joined
    <3>2. CASE k = n + 1
      <4>1. CASE cidr \in ToSet(Fixed) \cup Added BY <2>3, <3>2, <4>1
      <4>2. CASE next = 1 /\ upstream_cidr # NoAddress
        <5>1. n = 0 BY <1>b, <4>2 DEF Joined, n
        <5>2. cidr = upstream_cidr BY <1>c, <4>2 DEF cidr
        <5> QED BY <2>3, <3>2, <5>1, <5>2
      <4> QED BY <1>c, <1>e, <4>1, <4>2 DEF cidr
    <3> QED BY <2>2, <2>3, <3>1, <3>2
  <2>8. ASSUME NEW k \in DOMAIN all', NEW l \in DOMAIN all', k < l
        PROVE  ~containsCidr(all'[k], all'[l])
    <3>1. k \in 1..n BY <2>2, <2>3, <2>8
    <3>2. CASE l \in 1..n BY <1>b, <2>2, <2>3, <2>8, <3>1, <3>2 DEF Joined
    <3>3. CASE l = n + 1
      <4>1. all # <<>> BY <2>2, <3>1 DEF n
      <4>2. next # 1 BY <1>b, <4>1 DEF Joined
      <4>3. \A e \in ToSet(all) : ~containsCidr(e, cidr) BY <1>2, <4>2 DEF Superfluous, mandatory
      <4> QED BY <2>2, <2>3, <3>1, <3>3, <4>3 DEF ToSet
    <3> QED BY <2>2, <2>3, <3>2, <3>3
  <2>9. Joined'
        BY <1>a, <1>b, <1>d, <1>e, <2>3, <2>5, <2>6, <2>7, <2>8 DEF Joined
  <2> QED BY <1>a, <2>9 DEF AssembleInv, Collecting
<1> QED BY <1>1, <1>2

LEMMA AssembleStep ==
    ASSUME CollectInv, AssembleInv, NEW u \in Upstreams \cup {NoAddress}, PolicyStep(u)
    PROVE  AssembleInv'
<1>1. CASE \E i \in Interfaces : AppendInterface(i)
      BY <1>1 DEF AppendInterface, AssembleInv, Collecting, Assembling
<1>2. CASE EndOfList BY <1>2 DEF EndOfList, AssembleInv, Collecting, Assembling
<1>3. CASE SetUpstream(u) BY <1>3, SetUpstreamStep
<1>4. CASE AppendCidr BY <1>4, AppendCidrStep
<1>5. CASE AllAppended
  <2>1. /\ pc = "assemble" /\ pc' = "done" /\ next > Len(Candidates)
        /\ UNCHANGED <<listed, seen, interface_cidrs, upstream_cidr, next, all>>
        BY <1>5 DEF AllAppended
  <2>2. Candidates' = Candidates /\ Added' = Added BY <2>1 DEF Candidates, Added, Wanted
  <2>3. Joined BY <2>1 DEF AssembleInv, Assembling
  <2>4. Joined' BY <2>1, <2>2, <2>3 DEF Joined
  <2> QED BY <2>1, <2>4 DEF AssembleInv, Collecting
<1> QED BY <1>1, <1>2, <1>3, <1>4, <1>5 DEF PolicyStep

-----------------------------------------------------------------------------
(* BypassPolicy: what follows *)

LEMMA ExactInterfaces ==
    ASSUME CollectInv
    PROVE  InterfacesExact
<1>1. Cap \in Nat /\ Cardinality(Added) \in Nat
      BY BypassAssumption, FS_CardinalityType DEF CollectInv
<1>2. CASE pc = "too many" BY <1>1, <1>2 DEF CollectInv, InterfacesExact
<1>3. CASE pc # "too many"
  <2>1. /\ Cardinality(Added) <= Cap
        /\ ToSet(interface_cidrs) = Added /\ IsInjective(interface_cidrs)
        BY <1>3 DEF CollectInv
  <2>2. ~(Cardinality(Added) > Cap) BY <1>1, <2>1
  <2> QED BY <1>3, <2>1, <2>2 DEF InterfacesExact
<1> QED BY <1>2, <1>3

LEMMA ArithmeticHolds ==
    ASSUME CollectInv
    PROVE  ArithmeticAgrees
<1>1. \A i \in {j \in listed : Considered(j)} : IsAddress(i)
      BY BypassAssumption, Families DEF CollectInv, Considered
<1> QED BY <1>1, Arithmetic DEF ArithmeticAgrees

LEMMA ExactAssembly ==
    ASSUME CollectInv, AssembleInv
    PROVE  AllCidrsExact
<1>1. CASE pc \in Collecting
  <2>1. all = <<>> /\ pc # "done" BY <1>1 DEF AssembleInv, Collecting
  <2>2. DOMAIN <<>> = {} /\ ToSet(<<>>) = {} BY DEF ToSet
  <2> QED BY <2>1, <2>2 DEF AllCidrsExact
<1>2. CASE pc \in Assembling
  <2>a. Joined /\ interface_cidrs \in Seq(Locals) /\ ToSet(interface_cidrs) = Added
        /\ listed \in SUBSET Interfaces
        BY <1>2 DEF AssembleInv, Assembling, CollectInv
  <2>b. Added \subseteq Wanted /\ Wanted \subseteq Locals BY <2>a, WantedAreLocal
  <2>c. ToSet(Fixed) \subseteq Entries /\ Locals \subseteq Entries BY DEF Entries
  <2>d. all \in Seq(Entries) /\ \A e \in ToSet(all) : e \in Entries /\ IsCidr(e)
        BY <2>a, EntryIs DEF Joined, ToSet
  <2>1. ASSUME pc = "done", NEW c \in Wanted \cup ToSet(Fixed)
        PROVE  \E e \in ToSet(all) : containsCidr(e, c)
    <3>1. ASSUME NEW d \in ToSet(Fixed) \cup Added
          PROVE  \E e \in ToSet(all) : containsCidr(e, d)
      <4>1. /\ Len(Candidates) \in Nat
            /\ \E j \in 1..Len(Candidates) : Candidates[j] = d
            BY <2>a, <3>1, CandidatesAre DEF Joined, Candidates, Line
      <4>2. next > Len(Candidates) /\ next \in 1..(Len(Candidates) + 1) BY <2>a, <2>1 DEF Joined
      <4>3. \A j \in 1..Len(Candidates) : j \in 1..(next - 1) BY <4>1, <4>2
      <4> QED BY <2>a, <4>1, <4>3 DEF Joined
    <3>2. CASE c \in ToSet(Fixed) \cup Added BY <3>1, <3>2
    <3>3. CASE c \notin ToSet(Fixed) \cup Added
      <4>1. PICK f \in ToSet(Fixed) : containsCidr(f, c) BY <3>3 DEF Added
      <4>2. PICK e \in ToSet(all) : containsCidr(e, f) BY <3>1
      <4>3. IsCidr(c) /\ IsCidr(f) /\ IsCidr(e) BY <2>b, <2>c, <2>d, <3>3, EntryIs
      <4> QED BY <4>1, <4>2, <4>3, ContainsThrough
    <3> QED BY <3>2, <3>3
  <2>2. ASSUME NEW i \in DOMAIN all, NEW j \in DOMAIN all, i # j, containsCidr(all[i], all[j])
        PROVE  all[j] = upstream_cidr /\ j = 1
    <3>1. DOMAIN all = 1..Len(all) /\ Len(all) \in Nat BY <2>d
    <3>2. j < i BY <2>a, <2>2, <3>1 DEF Joined
    <3>3. all[i] \in ToSet(Fixed) \cup Added BY <2>a, <3>1, <3>2 DEF Joined
    <3>4. ~containsCidr(all[j], all[i]) BY <2>a, <3>2 DEF Joined
    <3>5. IsCidr(all[i]) /\ IsCidr(all[j]) BY <2>d DEF ToSet
    <3>6. ASSUME all[j] \in ToSet(Fixed) \cup Added PROVE FALSE
      <4>1. CASE all[i] \in Added
        <5>1. all[i].prefix = Bits(all[i].family) BY <2>b, <4>1, LocalIs
        <5> QED BY <2>2, <3>4, <3>5, <5>1, ContainedBack
      <4>2. CASE all[i] \in ToSet(Fixed) /\ all[j] \in Added BY <2>2, <4>2 DEF Added
      <4>3. CASE all[i] \in ToSet(Fixed) /\ all[j] \in ToSet(Fixed)
        <5>1. PICK x \in DOMAIN Fixed : Fixed[x] = all[i] BY <4>3 DEF ToSet
        <5>2. PICK y \in DOMAIN Fixed : Fixed[y] = all[j] BY <4>3 DEF ToSet
        <5>3. x # y BY <2>2, <3>4, <5>1, <5>2
        <5> QED BY <2>2, <5>1, <5>2, <5>3, BypassAssumption
      <4> QED BY <3>3, <3>6, <4>1, <4>2, <4>3
    <3> QED BY <2>a, <3>6 DEF Joined
  <2>3. ASSUME NEW e \in ToSet(all), overlapsTunAddressSpace(e) PROVE e = upstream_cidr
    <3>1. e \notin ToSet(Fixed) BY <2>3, BypassAssumption
    <3>2. e \notin Added BY <2>3, <2>b, LocalIs
    <3> QED BY <2>a, <3>1, <3>2 DEF Joined, ToSet
  <2> QED BY <2>1, <2>2, <2>3 DEF AllCidrsExact
<1> QED BY <1>1, <1>2 DEF CollectInv

-----------------------------------------------------------------------------
(* UpstreamProbe *)

Talking == {"connect", "await connect", "greet", "await reply", "receive"}

\* Where the probe of this call is: what it has open, how long it has waited, and that
\* nothing has accepted yet, for the first address that does ends it.
ProbeInv ==
    /\ probing \in {"resolve", "socket", "returned", "unreachable"} \cup Talking
    /\ list \in Seq(Upstreams) /\ IsInjective(list)
    /\ trying \in Nat \ {0} /\ waits \in Nat
    /\ sockets = IF probing \in Talking THEN 1 ELSE 0
    /\ probing = "resolve" => list = <<>> /\ trying = 1 /\ waits = 0
    /\ probing \in {"socket"} \cup Talking => trying <= Len(list) /\ waits <= 3 * (trying - 1)
    /\ probing \in {"greet", "await reply", "receive"} => blocking
    /\ probing # "returned" => accepted = {} /\ answer = NoAddress
    /\ probing = "unreachable" => waits <= 3 * Len(list)
    /\ probing = "returned" =>
          /\ trying <= Len(list) /\ waits <= 3 * Len(list)
          /\ accepted = {list[trying]} /\ answer = list[trying]

LEMMA ProbeStarts ==
    ASSUME Probe!Init
    PROVE  ProbeInv
BY DEF Probe!Init, ProbeInv, Talking, IsInjective

LEMMA ProbeResolve ==
    ASSUME ProbeInv, Probe!Resolve
    PROVE  ProbeInv'
<1>1. /\ probing = "resolve" /\ UNCHANGED <<blocking, waits, accepted, trying, sockets, answer>>
      BY DEF Probe!Resolve, Probe!Goto
<1>2. CASE \E l \in Probe!BoundedSeq(Upstreams, MaxAddresses) :
               l # <<>> /\ Probe!IsInjective(l) /\ list' = l /\ Probe!Goto("socket")
  <2>1. list' \in Probe!BoundedSeq(Upstreams, MaxAddresses) /\ list' # <<>> /\ IsInjective(list')
        /\ probing' = "socket"
        BY <1>2 DEF Probe!Goto, IsInjective, Probe!IsInjective
  <2>2. PICK m \in 0..MaxAddresses : list' \in [1..m -> Upstreams]
        BY <2>1 DEF Probe!BoundedSeq, Probe!SeqOf
  <2>3. m \in Nat BY PreparationAssumption
  <2>4. list' \in Seq(Upstreams) /\ Len(list') = m BY <2>2, <2>3
  <2>5. Len(list') \in Nat /\ 1 <= Len(list') BY <2>1, <2>3, <2>4
  <2> QED BY <1>1, <2>1, <2>4, <2>5 DEF ProbeInv, Talking
<1>3. CASE Probe!Goto("unreachable") /\ UNCHANGED list
  <2>1. probing' = "unreachable" BY <1>3 DEF Probe!Goto
  <2>2. Len(<<>>) = 0 OBVIOUS
  <2> QED BY <1>1, <1>3, <2>1, <2>2 DEF ProbeInv, Talking
<1> QED BY <1>2, <1>3 DEF Probe!Resolve

\* The next address, or the end of the list.
LEMMA ProbeGoesOn ==
    ASSUME ProbeInv, probing \in {"socket"} \cup Talking,
           Probe!TryNext(sockets), UNCHANGED <<list, accepted>>, waits' \in {waits, waits + 1}
    PROVE  ProbeInv'
<1>a. trying <= Len(list) /\ waits <= 3 * (trying - 1) BY DEF ProbeInv
<1>b. /\ list \in Seq(Upstreams) /\ IsInjective(list) /\ trying \in Nat \ {0} /\ waits \in Nat
      /\ sockets = IF probing \in Talking THEN 1 ELSE 0
      BY DEF ProbeInv
<1>0. sockets \in {0, 1} BY <1>b
<1>1. /\ list \in Seq(Upstreams) /\ Len(list) \in Nat /\ trying \in Nat \ {0} /\ waits \in Nat
      /\ trying <= Len(list) /\ waits <= 3 * (trying - 1)
      BY <1>a, <1>b
<1>2. /\ sockets' = 0 /\ trying' = trying + 1 /\ answer' = answer
      /\ probing' = IF trying < Len(list) THEN "socket" ELSE "unreachable"
      BY <1>0 DEF Probe!TryNext
<1>3. waits' \in Nat /\ waits' <= 3 * (trying' - 1) /\ trying' \in Nat \ {0} BY <1>1, <1>2
<1>4. accepted = {} /\ answer = NoAddress BY DEF ProbeInv, Talking
<1>5. CASE trying < Len(list)
  <2>1. trying' <= Len(list) /\ probing' = "socket" BY <1>1, <1>2, <1>5
  <2> QED BY <1>1, <1>2, <1>3, <1>4, <2>1 DEF ProbeInv, Talking
<1>6. CASE ~(trying < Len(list))
  <2>1. waits' <= 3 * Len(list) /\ probing' = "unreachable" BY <1>1, <1>2, <1>3, <1>6
  <2> QED BY <1>1, <1>2, <1>3, <1>4, <2>1 DEF ProbeInv, Talking
<1> QED BY <1>5, <1>6

\* A further call for the same address.
LEMMA ProbeStays ==
    ASSUME ProbeInv, probing \in {"socket"} \cup Talking, probing' \in Talking,
           UNCHANGED <<list, trying, accepted, answer, waits>>, sockets' = 1,
           probing' \in {"greet", "await reply", "receive"} => blocking'
    PROVE  ProbeInv'
BY DEF ProbeInv, Talking

LEMMA ProbeReceive ==
    ASSUME ProbeInv, Probe!Receive
    PROVE  ProbeInv'
<1>1. /\ probing = "receive" /\ UNCHANGED <<list, blocking>> /\ sockets = 1 /\ blocking
      /\ list \in Seq(Upstreams) /\ Len(list) \in Nat /\ trying \in Nat \ {0} /\ waits \in Nat
      /\ trying <= Len(list) /\ waits <= 3 * (trying - 1) /\ accepted = {} /\ IsInjective(list)
      BY DEF Probe!Receive, ProbeInv, Talking
<1>2. PICK sent \in Probe!Replies :
          /\ accepted' = accepted \cup (IF sent = Probe!Accepted THEN {list[trying]} ELSE {})
          /\ waits' \in {waits, waits + 1}
          /\ IF Probe!Valid(sent)
             THEN /\ probing' = "returned" /\ answer' = list[trying] /\ sockets' = sockets - 1
                  /\ UNCHANGED trying
             ELSE Probe!TryNext(1)
  <2>1. waits + 0 = waits BY <1>1
  <2> QED BY <1>1, <2>1 DEF Probe!Receive, Probe!Waited
<1>3. Probe!Valid(sent) <=> sent = Probe!Accepted BY DEF Probe!Valid, Probe!Replies, Probe!Accepted
<1>4. CASE sent = Probe!Accepted
  <2>1. /\ probing' = "returned" /\ answer' = list[trying] /\ sockets' = 0 /\ UNCHANGED trying
        /\ accepted' = {list[trying]}
        BY <1>1, <1>2, <1>3, <1>4
  <2>2. waits' \in Nat /\ waits' <= 3 * Len(list) BY <1>1, <1>2
  <2> QED BY <1>1, <2>1, <2>2 DEF ProbeInv, Talking
<1>5. CASE sent # Probe!Accepted
  <2>1. Probe!TryNext(sockets) /\ accepted' = accepted BY <1>1, <1>2, <1>3, <1>5
  <2> QED BY <1>1, <1>2, <2>1, ProbeGoesOn DEF Talking
<1> QED BY <1>4, <1>5

LEMMA ProbeStep ==
    ASSUME ProbeInv, Probe!Next
    PROVE  ProbeInv'
<1>a. waits \in Nat /\ (probing \in Talking => sockets = 1) BY DEF ProbeInv
<1>b. waits + 0 = waits BY <1>a
<1> USE DEF Probe!At, Probe!Calm, Probe!Waited, Probe!Goto, Probe!GiveUp
<1>1. CASE Probe!Resolve BY <1>1, ProbeResolve
<1>2. CASE Probe!Socket
  <2>1. probing = "socket" /\ sockets = 0 BY <1>2 DEF Probe!Socket, ProbeInv, Talking
  <2>2. CASE Probe!TryNext(0) BY <1>2, <1>b, <2>1, <2>2, ProbeGoesOn DEF Probe!Socket
  <2>3. CASE ~Probe!TryNext(0)
    <3>1. /\ probing' = "connect" /\ sockets' = 1 /\ waits' = waits
          /\ UNCHANGED <<list, trying, accepted, answer>>
          BY <1>2, <1>b, <2>1, <2>3 DEF Probe!Socket
    <3> QED BY <2>1, <3>1, ProbeStays DEF Talking
  <2> QED BY <2>2, <2>3
<1>3. CASE Probe!Connect
  <2>1. probing = "connect" /\ sockets = 1 BY <1>3, <1>a DEF Probe!Connect, Talking
  <2>2. CASE Probe!TryNext(1) BY <1>3, <1>b, <2>1, <2>2, ProbeGoesOn DEF Probe!Connect, Talking
  <2>3. CASE ~Probe!TryNext(1)
        BY <1>3, <1>b, <2>1, <2>3, ProbeStays DEF Probe!Connect, Probe!Connected, Talking
  <2> QED BY <2>2, <2>3
<1>4. CASE Probe!AwaitConnect
  <2>1. probing = "await connect" /\ sockets = 1 BY <1>4, <1>a DEF Probe!AwaitConnect, Talking
  <2>2. CASE Probe!TryNext(1)
        BY <1>4, <1>b, <2>1, <2>2, ProbeGoesOn DEF Probe!AwaitConnect, Probe!Connected, Talking
  <2>3. CASE ~Probe!TryNext(1)
        BY <1>4, <1>b, <2>1, <2>3, ProbeStays DEF Probe!AwaitConnect, Probe!Connected, Talking
  <2> QED BY <2>2, <2>3
<1>5. CASE Probe!Greet
  <2>1. probing = "greet" /\ sockets = 1 /\ blocking
        BY <1>5, <1>a DEF Probe!Greet, ProbeInv, Talking
  <2>2. CASE Probe!TryNext(1) BY <1>5, <1>b, <2>1, <2>2, ProbeGoesOn DEF Probe!Greet, Talking
  <2>3. CASE ~Probe!TryNext(1) BY <1>5, <1>b, <2>1, <2>3, ProbeStays DEF Probe!Greet, Talking
  <2> QED BY <2>2, <2>3
<1>6. CASE Probe!AwaitReply
  <2>1. probing = "await reply" /\ sockets = 1 /\ blocking
        BY <1>6, <1>a DEF Probe!AwaitReply, ProbeInv, Talking
  <2>2. CASE Probe!TryNext(1) BY <1>6, <1>b, <2>1, <2>2, ProbeGoesOn DEF Probe!AwaitReply, Talking
  <2>3. CASE ~Probe!TryNext(1) BY <1>6, <1>b, <2>1, <2>3, ProbeStays DEF Probe!AwaitReply, Talking
  <2> QED BY <2>2, <2>3
<1>7. CASE Probe!Receive BY <1>7, ProbeReceive
<1> QED BY <1>1, <1>2, <1>3, <1>4, <1>5, <1>6, <1>7 DEF Probe!Next

-----------------------------------------------------------------------------
(* Preparation *)

\* While a start probes nothing is collected; behind the probe the locals are gone, and
\* the policy is made with the answer of the call, or without one in a preview.
TaskInv ==
    /\ task \in {"start", "resolved", "failed", "preview"}
    /\ IF task = "start" THEN ProbeInv ELSE list = <<>> /\ waits = 0 /\ sockets = 0
    /\ task \in {"start", "failed"} => pc = "collect"
    /\ task = "preview" => answer = NoAddress
    /\ task = "resolved" => answer \in Upstreams
    /\ pc \in Assembling =>
          upstream_cidr = IF task = "resolved" THEN Host(answer.family, answer.address) ELSE NoAddress

PreparationInv == CollectInv /\ AssembleInv /\ TaskInv

LEMMA PreparationInit ==
    ASSUME Init
    PROVE  PreparationInv
<1>1. CollectInv /\ AssembleInv BY CollectInit, AssembleInit DEF Init
<1>2. TaskInv
      BY ProbeStarts DEF Init, PolicyInit, Probe!Init, TaskInv, Assembling
<1> QED BY <1>1, <1>2 DEF PreparationInv

LEMMA PolicyAlone ==
    ASSUME PreparationInv, UNCHANGED vars
    PROVE  CollectInv' /\ AssembleInv'
<1>1. CollectInv' BY CollectKept DEF PreparationInv, CollectInv, vars
<1>2. UNCHANGED <<pc, next, all, upstream_cidr, Candidates, Added>>
      BY DEF vars, Candidates, Added, Wanted
<1>3. AssembleInv' BY <1>2 DEF PreparationInv, AssembleInv, Joined
<1> QED BY <1>1, <1>3

LEMMA PreparationStep ==
    ASSUME PreparationInv, [Next]_<<task, probe, vars>>
    PROVE  PreparationInv'
<1>a. CollectInv /\ AssembleInv /\ TaskInv BY DEF PreparationInv
<1>1. CASE Resolving
  <2>1. task = "start" /\ Probe!Next /\ UNCHANGED <<task, pc>> /\ UNCHANGED vars
        BY <1>1 DEF Resolving, vars
  <2>2. ProbeInv' BY <1>a, <2>1, ProbeStep DEF TaskInv
  <2>3. TaskInv' BY <1>a, <2>1, <2>2 DEF TaskInv, Assembling
  <2> QED BY <2>1, <2>3, PolicyAlone DEF PreparationInv
<1>2. CASE Resolved
  <2>1. /\ task = "start" /\ Probe!Returned /\ list' = <<>> /\ waits' = 0
        /\ task' = IF probing = "returned" THEN "resolved" ELSE "failed"
        /\ UNCHANGED <<probing, sockets, answer>> /\ UNCHANGED vars /\ UNCHANGED pc
        BY <1>2 DEF Resolved, vars
  <2>2. ProbeInv /\ pc = "collect" BY <1>a, <2>1 DEF TaskInv
  <2>3. sockets = 0 BY <2>1, <2>2 DEF ProbeInv, Talking, Probe!Returned
  <2>4. probing = "returned" => answer \in Upstreams
    <3> SUFFICES ASSUME probing = "returned" PROVE answer \in Upstreams OBVIOUS
    <3>1. list \in Seq(Upstreams) /\ trying \in Nat \ {0} /\ trying <= Len(list) /\ answer = list[trying]
          BY <2>2 DEF ProbeInv
    <3> QED BY <3>1
  <2>5. TaskInv' BY <2>1, <2>2, <2>3, <2>4 DEF TaskInv, Assembling
  <2> QED BY <2>1, <2>5, PolicyAlone DEF PreparationInv
<1>3. CASE Policy
  <2>1. /\ task \in {"preview", "resolved"} /\ PolicyStep(answer)
        /\ UNCHANGED <<task, list, waits, sockets, answer>>
        BY <1>3 DEF Policy, probe
  <2>2. answer \in Upstreams \cup {NoAddress} BY <1>a, <2>1 DEF TaskInv
  <2>3. CollectInv' /\ AssembleInv' BY <1>a, <2>1, <2>2, CollectStep, AssembleStep
  <2>4. pc' \in Assembling =>
            upstream_cidr' = IF task = "resolved" THEN Host(answer.family, answer.address) ELSE NoAddress
    <3>1. CASE SetUpstream(answer)
      <4>1. answer = NoAddress <=> task = "preview" BY <1>a, <2>1, BypassAssumption DEF TaskInv
      <4> QED BY <2>1, <3>1, <4>1 DEF SetUpstream, Assembling
    <3>2. CASE ~SetUpstream(answer)
      <4>1. pc' \in Assembling => pc \in Assembling /\ upstream_cidr' = upstream_cidr
            BY <2>1, <3>2
            DEF PolicyStep, AppendInterface, EndOfList, AppendCidr, AllAppended, Assembling
      <4> QED BY <1>a, <4>1 DEF TaskInv
    <3> QED BY <3>1, <3>2
  <2>5. TaskInv' BY <1>a, <2>1, <2>4 DEF TaskInv
  <2> QED BY <2>3, <2>5 DEF PreparationInv
<1>4. CASE Prepared \/ UNCHANGED <<task, probe, vars>>
  <2>1. UNCHANGED vars /\ UNCHANGED <<task, probing, list, trying, sockets, blocking, waits, accepted>>
        /\ UNCHANGED <<answer, pc, upstream_cidr>>
        BY <1>4 DEF Prepared, vars, probe
  <2>2. TaskInv' BY <1>a, <2>1 DEF TaskInv, ProbeInv
  <2> QED BY <2>1, <2>2, PolicyAlone DEF PreparationInv
<1> QED BY <1>1, <1>2, <1>3, <1>4 DEF Next

\* What start knows of the network, and what it has collected, is invariant.
THEOREM PreparationCorrect == Spec => []PreparationInv
<1>1. Init => PreparationInv BY PreparationInit
<1>2. PreparationInv /\ [Next]_<<task, probe, vars>> => PreparationInv' BY PreparationStep
<1> QED BY <1>1, <1>2, PTL DEF Spec

\* upstream.cpp:22-96: no way out of a probe leaves a socket, and no peer keeps start waiting
\* for more than three timeouts per address, for any list of addresses.
THEOREM ProbeBounded == Spec => []ProbeIsBounded
<1>1. PreparationInv => ProbeIsBounded
  <2> SUFFICES ASSUME PreparationInv PROVE ProbeIsBounded OBVIOUS
  <2>1. CASE task = "start"
    <3>1. ProbeInv BY <2>1 DEF PreparationInv, TaskInv
    <3>2. list \in Seq(Upstreams) /\ trying \in Nat \ {0} /\ waits \in Nat BY <3>1 DEF ProbeInv
    <3>3. waits <= 3 * Len(list)
      <4>1. CASE probing \in {"socket"} \cup Talking
        <5>1. trying <= Len(list) /\ waits <= 3 * (trying - 1) BY <3>1, <4>1 DEF ProbeInv
        <5> QED BY <3>2, <5>1
      <4>2. CASE probing = "resolve"
        <5>1. waits = 0 BY <3>1, <4>2 DEF ProbeInv
        <5> QED BY <3>2, <5>1
      <4>3. CASE probing \in {"returned", "unreachable"} BY <3>1, <4>3 DEF ProbeInv
      <4> QED BY <3>1, <4>1, <4>2, <4>3 DEF ProbeInv
    <3>4. probing \in {"resolve", "socket", "returned", "unreachable"} => sockets = 0
          BY <3>1 DEF ProbeInv, Talking
    <3> QED BY <3>3, <3>4 DEF ProbeIsBounded, Probe!ProbeIsBounded, Probe!Returned
  <2>2. CASE task # "start"
    <3>1. list = <<>> /\ waits = 0 /\ sockets = 0 BY <2>2 DEF PreparationInv, TaskInv
    <3>2. 0 <= 3 * Len(<<>>) OBVIOUS
    <3> QED BY <3>1, <3>2 DEF ProbeIsBounded, Probe!ProbeIsBounded
  <2> QED BY <2>1, <2>2
<1> QED BY <1>1, PreparationCorrect, PTL

\* upstream.cpp:78-123, proxy_manager.cpp:318-326: the pinned address is the first that has
\* accepted in this call, and it comes first in the policy, as a host route; without one start
\* fails, and a preview pins nothing.
THEOREM PinnedFirst == Spec => []UpstreamPinned
<1>1. PreparationInv => UpstreamPinned
  <2> SUFFICES ASSUME PreparationInv PROVE UpstreamPinned OBVIOUS
  <2>1. task = "start" => Probe!FirstThatAccepts
    <3> SUFFICES ASSUME task = "start" PROVE Probe!FirstThatAccepts OBVIOUS
    <3>1. ProbeInv BY DEF PreparationInv, TaskInv
    <3>2. probing = "unreachable" => accepted = {} BY <3>1 DEF ProbeInv
    <3>3. ASSUME probing = "returned", NEW i \in 1..(trying - 1)
          PROVE  list[i] \notin accepted
      <4>1. /\ list \in Seq(Upstreams) /\ IsInjective(list) /\ trying \in Nat \ {0}
            /\ trying <= Len(list) /\ accepted = {list[trying]}
            BY <3>1, <3>3 DEF ProbeInv
      <4>2. i \in DOMAIN list /\ trying \in DOMAIN list /\ i # trying BY <4>1
      <4> QED BY <4>1, <4>2 DEF IsInjective
    <3>4. probing = "returned" => answer \in accepted BY <3>1 DEF ProbeInv
    <3> QED BY <3>2, <3>3, <3>4 DEF Probe!FirstThatAccepts
  <2>2. ASSUME pc = "done"
        PROVE  all[1] = IF task = "resolved" THEN Host(answer.family, answer.address) ELSE Fixed[1]
    <3>1. /\ Joined /\ interface_cidrs \in Seq(Locals)
          /\ upstream_cidr = IF task = "resolved" THEN Host(answer.family, answer.address) ELSE NoAddress
          /\ task = "resolved" => answer \in Upstreams
          BY <2>2 DEF PreparationInv, AssembleInv, TaskInv, CollectInv, Assembling
    <3>2. /\ Len(Candidates) \in Nat \ {0} /\ next > Len(Candidates)
          /\ next \in 1..(Len(Candidates) + 1)
          /\ Candidates[1] = IF upstream_cidr = NoAddress THEN Fixed[1] ELSE upstream_cidr
          BY <2>2, <3>1, CandidatesAre DEF Joined, Candidates, Line
    <3>3. next # 1 BY <3>2
    <3>4. all[1] = Candidates[1] BY <3>1, <3>3 DEF Joined
    <3>5. task = "resolved" => upstream_cidr # NoAddress BY <3>1, BypassAssumption
    <3> QED BY <3>1, <3>2, <3>4, <3>5
  <2> QED BY <2>1, <2>2 DEF UpstreamPinned
<1> QED BY <1>1, PreparationCorrect, PTL

\* bypass_policy.cpp:116-174: in whatever order the addresses come, each address that no fixed
\* range covers is there once, and the policy is refused just when they are too many.
THEOREM InterfacesAreExact == Spec => []InterfacesExact
<1>1. PreparationInv => InterfacesExact BY ExactInterfaces DEF PreparationInv
<1> QED BY <1>1, PreparationCorrect, PTL

\* bypass_policy.cpp:229-266: what allCidrs leaves out is contained in what it keeps, nothing it
\* keeps is contained in another entry or touches the TUN space, but for the upstream.
THEOREM AssemblyIsExact == Spec => []AllCidrsExact
<1>1. PreparationInv => AllCidrsExact BY ExactAssembly DEF PreparationInv
<1> QED BY <1>1, PreparationCorrect, PTL

\* bypass_policy.cpp:58-107: for every address and every prefix the bytes parseCidr keeps are the
\* bits of the prefix, and overlap is containment one way or the other.
THEOREM ArithmeticIsRight == Spec => []ArithmeticAgrees
<1>1. PreparationInv => ArithmeticAgrees BY ArithmeticHolds DEF PreparationInv
<1> QED BY <1>1, PreparationCorrect, PTL
=============================================================================
