------------------------------ MODULE IpRanges ------------------------------
(***************************************************************************)
(* Address classification (src/apps/api/src/monitoring/ipRanges.ts).       *)
(*                                                                         *)
(* An address is its sequence of parts: four octets for IPv4, eight        *)
(* groups of sixteen bits for IPv6.  A range is a network address and a    *)
(* prefix length; the bigint masks of the code are replaced by comparing   *)
(* the bits of each part that the prefix keeps, and the labels, which      *)
(* only word the reason, are left out.                                     *)
(***************************************************************************)
EXTENDS Integers, Sequences

IsIPv4(a) == Len(a) = 4
PartBits(a) == IF IsIPv4(a) THEN 8 ELSE 16

Octet       == { o \in Nat : o < 256 }
Group       == { g \in Nat : g < 65536 }
IPv4Address == [1..4 -> Octet]
IPv6Address == [1..8 -> Group]
Address     == IPv4Address \union IPv6Address

\* 2 ^ n for the n bits of a part.
PowersOfTwo == <<1, 2, 4, 8, 16, 32, 64, 128, 256, 512, 1024, 2048, 4096, 8192, 16384, 32768, 65536>>
PowerOfTwo(n) == PowersOfTwo[n + 1]

\* The bits of part i that a prefix of the given length keeps.
KeptBits(a, length, i) ==
    LET inside == length - PartBits(a) * (i - 1)
    IN  IF inside <= 0 THEN 0 ELSE IF inside >= PartBits(a) THEN PartBits(a) ELSE inside

\* (value & range.mask) === range.base
Within(a, range) ==
    \A i \in 1..Len(a) :
        LET dropped == PowerOfTwo(PartBits(a) - KeptBits(a, range[2], i))
        IN  a[i] \div dropped = range[1][i] \div dropped

V6(head, tail) == head \o [i \in 1..(8 - Len(head) - Len(tail)) |-> 0] \o tail

BLOCKED_IPV4 ==
    { <<<<0, 0, 0, 0>>, 8>>,       <<<<10, 0, 0, 0>>, 8>>,      <<<<100, 64, 0, 0>>, 10>>,
      <<<<127, 0, 0, 0>>, 8>>,     <<<<169, 254, 0, 0>>, 16>>,  <<<<172, 16, 0, 0>>, 12>>,
      <<<<192, 0, 0, 0>>, 24>>,    <<<<192, 0, 2, 0>>, 24>>,    <<<<192, 31, 196, 0>>, 24>>,
      <<<<192, 52, 193, 0>>, 24>>, <<<<192, 88, 99, 0>>, 24>>,  <<<<192, 168, 0, 0>>, 16>>,
      <<<<192, 175, 48, 0>>, 24>>, <<<<198, 18, 0, 0>>, 15>>,   <<<<198, 51, 100, 0>>, 24>>,
      <<<<203, 0, 113, 0>>, 24>>,  <<<<224, 0, 0, 0>>, 4>>,     <<<<240, 0, 0, 0>>, 4>>,
      <<<<255, 255, 255, 255>>, 32>> }

BLOCKED_IPV6 ==
    { <<V6(<<>>, <<>>), 128>>,                    \* ::/128
      <<V6(<<>>, <<1>>), 128>>,                   \* ::1/128
      <<V6(<<100, 65435>>, <<>>), 96>>,           \* 64:ff9b::/96
      <<V6(<<100, 65435, 1>>, <<>>), 48>>,        \* 64:ff9b:1::/48
      <<V6(<<256>>, <<>>), 64>>,                  \* 100::/64
      <<V6(<<8193>>, <<>>), 32>>,                 \* 2001::/32
      <<V6(<<8193, 1>>, <<1>>), 128>>,            \* 2001:1::1/128
      <<V6(<<8193, 2>>, <<>>), 48>>,              \* 2001:2::/48
      <<V6(<<8193, 16>>, <<>>), 28>>,             \* 2001:10::/28
      <<V6(<<8193, 32>>, <<>>), 28>>,             \* 2001:20::/28
      <<V6(<<8193, 48>>, <<>>), 28>>,             \* 2001:30::/28
      <<V6(<<8193, 3512>>, <<>>), 32>>,           \* 2001:db8::/32
      <<V6(<<8194>>, <<>>), 16>>,                 \* 2002::/16
      <<V6(<<16383>>, <<>>), 20>>,                \* 3fff::/20
      <<V6(<<24320>>, <<>>), 16>>,                \* 5f00::/16
      <<V6(<<64512>>, <<>>), 7>>,                 \* fc00::/7
      <<V6(<<65152>>, <<>>), 10>>,                \* fe80::/10
      <<V6(<<65280>>, <<>>), 8>> }                \* ff00::/8

IPV4_MAPPED == <<V6(<<>>, <<65535, 0, 0>>), 96>>
SIXTOFOUR   == <<V6(<<8194>>, <<>>), 16>>
NAT64       == <<V6(<<100, 65435>>, <<>>), 96>>

classifyIPv4(a) == IF \E r \in BLOCKED_IPV4 : Within(a, r) THEN "reserved" ELSE "public"

ipv4FromLow32(a) == <<a[7] \div 256, a[7] % 256, a[8] \div 256, a[8] % 256>>

\* Both arms of the IPv4-mapped branch refuse; they differ in the reason.
classifyIPv6(a) ==
    IF Within(a, IPV4_MAPPED)
    THEN IF classifyIPv4(ipv4FromLow32(a)) = "public" THEN "mapped" ELSE "reserved"
    ELSE IF \E r \in {NAT64, SIXTOFOUR} \union BLOCKED_IPV6 : Within(a, r)
         THEN "reserved" ELSE "public"

\* Text that is no address has no parts.
classifyAddress(a) ==
    IF a = <<>> THEN "not-an-address"
    ELSE IF IsIPv4(a) THEN classifyIPv4(a) ELSE classifyIPv6(a)

isPubliclyRoutable(a) == classifyAddress(a) = "public"

-----------------------------------------------------------------------------
(* expandIPv6: a spelling is the groups before and after "::" (elided tells *)
(* whether there is one) and the dotted IPv4 tail, <<>> when there is none. *)

\* What isIPv6 lets through: eight groups, or fewer around one "::".
IPv6Text == [head : Seq(Group), tail : Seq(Group), elided : BOOLEAN,
             dotted : {<<>>} \union IPv4Address]
IsIPv6(text) ==
    LET written == Len(text.head) + Len(text.tail) + IF text.dotted = <<>> THEN 0 ELSE 2
    IN  /\ text \in IPv6Text
        /\ IF text.elided THEN written <= 7 ELSE written = 8 /\ text.tail = <<>>

DottedGroups(octets) ==
    IF octets = <<>> THEN <<>>
    ELSE <<octets[1] * 256 + octets[2], octets[3] * 256 + octets[4]>>

expandIPv6(text) ==
    LET head    == IF text.elided THEN text.head ELSE text.head \o DottedGroups(text.dotted)
        tail    == IF text.elided THEN text.tail \o DottedGroups(text.dotted) ELSE <<>>
        missing == 8 - Len(head) - Len(tail)
    IN  head \o [i \in 1..missing |-> 0] \o tail

-----------------------------------------------------------------------------
(* Reference definitions.                                                   *)

\* The last address of a range: every bit the prefix drops is set.
LastOf(range) ==
    [i \in 1..Len(range[1]) |->
        LET size == PowerOfTwo(PartBits(range[1]) - KeptBits(range[1], range[2], i))
        IN  (range[1][i] \div size) * size + size - 1]

AtMost(a, b) ==
    \/ a = b
    \/ \E i \in 1..Len(a) : a[i] < b[i] /\ \A j \in 1..(i - 1) : a[j] = b[j]

Between(a, range) ==
    Len(a) = Len(range[1]) /\ AtMost(range[1], a) /\ AtMost(a, LastOf(range))

\* Every range that is refused, an IPv4 address inside an IPv6 one included.
ReservedRanges == BLOCKED_IPV4 \union BLOCKED_IPV6 \union {IPV4_MAPPED}

\* Every way to write an IPv6 address: any run of zero groups elided, with or
\* without its last two groups in dotted form.
Spellings(a) ==
    UNION { LET groups == SubSeq(a, 1, 8 - 2 * d)
                dotted == IF d = 1 THEN ipv4FromLow32(a) ELSE <<>>
            IN  { [head |-> groups, tail |-> <<>>, elided |-> FALSE, dotted |-> dotted] }
                \union
                { [head |-> SubSeq(groups, 1, run[1] - 1),
                   tail |-> SubSeq(groups, run[2] + 1, Len(groups)),
                   elided |-> TRUE, dotted |-> dotted] :
                    run \in { r \in (1..Len(groups)) \X (1..Len(groups)) :
                                r[1] <= r[2] /\ \A k \in r[1]..r[2] : groups[k] = 0 } }
            : d \in {0, 1} }
=============================================================================
