---------------------------- MODULE BypassPolicy ----------------------------
(***************************************************************************)
(* The bypass policy (src/src/bypass_policy.cpp): collectBypassPolicy goes *)
(* through the list of getifaddrs, in whatever order it comes, then        *)
(* allCidrs joins the upstream, the fixed ranges and the interfaces.  An   *)
(* address is its bytes.  A CIDR in text is its record: inet_ntop and      *)
(* inet_pton are inverse on the canonical texts formatCidr makes.          *)
(***************************************************************************)
EXTENDS Integers, FiniteSets, Sequences, SequencesExt

CONSTANTS
    Fixed,           \* fixedBypassCidrs(), a sequence
    Tun,             \* kTunAddressSpacePrefix with its bits, a CIDR
    Cap,             \* kMaximumInterfaceCidrs
    Interfaces,      \* what getifaddrs may return
    Upstreams,       \* addresses of the upstream
    NoAddress,       \* no upstream is given (the preview of an OFF proxy)
    MaxInterfaces    \* bound: entries of one list

Bytes == [v4 |-> 4, v6 |-> 16]
Bits(family) == 8 * Bytes[family]

\* The bit that `(address[bit / 8U] >> (7U - bit % 8U)) & 1U` reads.
Bit(address, bit) == (address[bit \div 8 + 1] \div 2 ^ (7 - (bit % 8))) % 2

\* The masking of parseCidr: whole bytes, one byte cut to a multiple of unit, zeros.
Cut(address, prefix, unit) ==
    LET full == prefix \div 8
    IN  [i \in DOMAIN address |->
            CASE i <= full -> address[i]
              [] i = full + 1 /\ prefix % 8 # 0 -> (address[i] \div unit) * unit
              [] OTHER -> 0]
\* Mutant of Masked: a shift by one too few.
MaskedLoosely(address, prefix) == Cut(address, prefix, 2 ^ (7 - (prefix % 8)))
Masked(address, prefix) == Cut(address, prefix, 2 ^ (8 - (prefix % 8)))
parseCidr(cidr) == [cidr EXCEPT !.address = Masked(@, cidr.prefix)]

overlapsTunAddressSpace(cidr) ==
    /\ cidr.family = Tun.family
    /\ \A bit \in (0..(cidr.prefix - 1)) \cap (0..(Tun.prefix - 1)) :
          Bit(cidr.address, bit) = Bit(Tun.address, bit)

containsCidr(outer, inner) ==
    /\ outer.family = inner.family /\ outer.prefix <= inner.prefix
    /\ \A bit \in 0..(outer.prefix - 1) : Bit(outer.address, bit) = Bit(inner.address, bit)

isUnspecifiedAddress(address) == \A i \in DOMAIN address : address[i] = 0

Host(family, address) == [family |-> family, address |-> address, prefix |-> Bits(family)]

\* collectInterfaceAddresses: entries it does not skip, and appendInterfaceAddress those it takes.
Considered(i) == i.up /\ ~i.excluded /\ i.family \in {"v4", "v6"}
Eligible(i) ==
    /\ Considered(i) /\ ~isUnspecifiedAddress(i.address)
    /\ ~overlapsTunAddressSpace(Host(i.family, i.address))

AddressesOf(family) == [1..Bytes[family] -> 0..255]
IsAddress(a) == a.family \in DOMAIN Bytes /\ a.address \in AddressesOf(a.family)
IsCidr(c)    == IsAddress(c) /\ c.prefix \in 0..Bits(c.family)

ASSUME BypassAssumption ==
    /\ Cap \in Nat /\ MaxInterfaces \in Nat
    /\ Fixed \in Seq(ToSet(Fixed)) /\ Fixed # <<>> /\ IsCidr(Tun)
    /\ \A f \in ToSet(Fixed) : IsCidr(f) /\ parseCidr(f) = f /\ ~overlapsTunAddressSpace(f)
    /\ \A i, j \in DOMAIN Fixed : i # j => ~containsCidr(Fixed[i], Fixed[j])
    /\ \A i \in Interfaces : i.family \in DOMAIN Bytes => IsAddress(i)
    /\ \A u \in Upstreams : IsAddress(u) /\ NoAddress \notin {u, Host(u.family, u.address)}

-----------------------------------------------------------------------------
VARIABLES
    pc,         \* "collect", "upstream", "assemble", "done", "too many", "no upstream"
    listed,     \* entries of the list seen so far
    seen,       \* texts that count as taken
    interface_cidrs, upstream_cidr,
    next,       \* allCidrs: position in Candidates
    all         \* its output

vars == <<pc, listed, seen, interface_cidrs, upstream_cidr, next, all>>

PolicyInit ==
    /\ pc = "collect" /\ listed = {} /\ seen = ToSet(Fixed)
    /\ interface_cidrs = <<>> /\ upstream_cidr = NoAddress /\ next = 1 /\ all = <<>>

\* Mutant of Covered: an address is taken unless its very text was.
CoveredTextually(cidr) == cidr \in seen
Covered(cidr) == \E e \in seen : containsCidr(parseCidr(e), cidr)

Full == Len(interface_cidrs) >= Cap

\* One entry of the list.
AppendInterface(i) ==
    /\ pc = "collect" /\ i \notin listed /\ Cardinality(listed) < MaxInterfaces
    /\ listed' = listed \cup {i}
    /\ LET cidr == Host(i.family, i.address) IN
       IF ~Eligible(i) \/ Covered(cidr) THEN UNCHANGED <<pc, seen, interface_cidrs>>
       ELSE /\ seen' = seen \cup {cidr}
            /\ IF Full THEN pc' = "too many" /\ UNCHANGED interface_cidrs
               ELSE interface_cidrs' = Append(interface_cidrs, cidr) /\ UNCHANGED pc
    /\ UNCHANGED <<upstream_cidr, next, all>>

EndOfList ==
    /\ pc = "collect" /\ pc' = "upstream"
    /\ UNCHANGED <<listed, seen, interface_cidrs, upstream_cidr, next, all>>

\* addressHostCidr of the address start has resolved, or no address.
SetUpstream(u) ==
    /\ pc = "upstream"
    /\ IF u # NoAddress /\ isUnspecifiedAddress(u.address)
       THEN pc' = "no upstream" /\ UNCHANGED upstream_cidr
       ELSE /\ pc' = "assemble"
            /\ upstream_cidr' = IF u = NoAddress THEN u ELSE Host(u.family, u.address)
    /\ UNCHANGED <<listed, seen, interface_cidrs, next, all>>

\* What allCidrs appends, in its order.
Candidates ==
    (IF upstream_cidr = NoAddress THEN <<>> ELSE <<upstream_cidr>>) \o Fixed \o interface_cidrs
mandatory == upstream_cidr # NoAddress /\ next = 1

\* Mutant of Superfluous: containment the wrong way round.
SuperfluousIfWider(cidr) == ~mandatory /\ \E e \in ToSet(all) : containsCidr(cidr, e)
Superfluous(cidr) ==
    \/ ~mandatory /\ \E e \in ToSet(all) : containsCidr(e, cidr)
    \/ cidr \in ToSet(all)

AppendCidr ==
    /\ pc = "assemble" /\ next <= Len(Candidates)
    /\ LET cidr == parseCidr(Candidates[next])
       IN  all' = IF Superfluous(cidr) THEN all ELSE Append(all, cidr)
    /\ next' = next + 1
    /\ UNCHANGED <<pc, listed, seen, interface_cidrs, upstream_cidr>>

AllAppended ==
    /\ pc = "assemble" /\ next > Len(Candidates) /\ pc' = "done"
    /\ UNCHANGED <<listed, seen, interface_cidrs, upstream_cidr, next, all>>

PolicyStep(u) ==
    \/ \E i \in Interfaces : AppendInterface(i)
    \/ EndOfList \/ SetUpstream(u) \/ AppendCidr \/ AllAppended

-----------------------------------------------------------------------------
(* Properties *)

\* The addresses README:236 says are added: eligible, and in no fixed range.
Wanted == {Host(i.family, i.address) : i \in {j \in listed : Eligible(j)}}
Added  == {c \in Wanted : \A f \in ToSet(Fixed) : ~containsCidr(f, c)}

\* bypass_policy.cpp:116-174: in whatever order the addresses come, the interface entries are
\* the wanted addresses that no fixed range covers, each once; and the policy is refused just
\* when they are more than Cap, which counts different addresses, not entries of the list.
InterfacesExact ==
    /\ pc = "too many" <=> Cardinality(Added) > Cap
    /\ pc # "too many" => ToSet(interface_cidrs) = Added /\ IsInjective(interface_cidrs)

\* bypass_policy.cpp:79-93, 118, 229-266: allCidrs leaves out only what is contained in what it
\* keeps, keeps nothing inside another entry and nothing twice, although it compares with earlier
\* entries alone, and nothing in the address space of the TUN; the upstream is the exception.
AllCidrsExact ==
    /\ pc = "done" => \A c \in Wanted \cup ToSet(Fixed) : \E e \in ToSet(all) : containsCidr(e, c)
    /\ \A i, j \in DOMAIN all :
          i # j /\ containsCidr(all[i], all[j]) => all[j] = upstream_cidr /\ j = 1
    /\ \A e \in ToSet(all) : overlapsTunAddressSpace(e) => e = upstream_cidr

\* bypass_policy.cpp:58-107: on every prefix length, the bytes parseCidr keeps are the bits of
\* the prefix and nothing else, the result contains the address it was made of, and overlap
\* with the TUN address space is containment one way or the other.
ArithmeticAgrees ==
    pc = "collect" /\ Cardinality(listed) = 1 =>
        \A i \in {j \in listed : Considered(j)} : \A prefix \in 0..Bits(i.family) :
            LET host == Host(i.family, i.address)
                cidr == parseCidr([host EXCEPT !.prefix = prefix])
            IN  /\ \A bit \in 0..(Bits(i.family) - 1) :
                      Bit(cidr.address, bit) = IF bit < prefix THEN Bit(i.address, bit) ELSE 0
                /\ containsCidr(cidr, host)
                /\ overlapsTunAddressSpace(cidr) = (containsCidr(cidr, Tun) \/ containsCidr(Tun, cidr))
=============================================================================
