--------------------------- MODULE HttpCheckProofs ---------------------------
(***************************************************************************)
(* Proofs about IpRanges and HttpCheck: the table of ranges refuses every  *)
(* address inside one of them, in whatever way it is written, and the      *)
(* socket of a check only reaches what was judged by it.                   *)
(***************************************************************************)
EXTENDS HttpCheck, SequenceTheorems, TLAPS

-----------------------------------------------------------------------------
(* Prefixes.                                                               *)

Power == {1, 2, 4, 8, 16, 32, 64, 128, 256, 512, 1024, 2048, 4096, 8192, 16384, 32768, 65536}

LEMMA Powers ==
  /\ \A n \in 0..16 : PowerOfTwo(n) \in Power
  /\ PowerOfTwo(0) = 1 /\ PowerOfTwo(8) = 256 /\ PowerOfTwo(16) = 65536
  BY DEF PowerOfTwo, PowersOfTwo, Power

\* A value between the first and the last of a block lies in the block.
LEMMA SameBlock ==
  ASSUME NEW d \in Power, NEW b \in Nat, NEW x \in Nat, b <= x, x <= (b \div d) * d + d - 1
  PROVE  x \div d = b \div d
  BY DEF Power

LEMMA BlockEnd ==
  ASSUME NEW d \in Power, NEW b \in Nat
  PROVE  /\ (b \div d) * d + d - 1 \in Nat
         /\ ((b \div d) * d + d - 1) \div d = b \div d
         /\ b <= (b \div d) * d + d - 1
  BY DEF Power

LEMMA PartsOf ==
  ASSUME NEW n \in Nat, NEW S, NEW a \in [1..n -> S]
  PROVE  a \in Seq(S) /\ Len(a) = n
  OBVIOUS

LEMMA WidthOf ==
  /\ \A a \in IPv4Address : Len(a) = 4 /\ IsIPv4(a) /\ PartBits(a) = 8
  /\ \A a \in IPv6Address : Len(a) = 8 /\ ~IsIPv4(a) /\ PartBits(a) = 16
<1>1. \A a \in IPv4Address : Len(a) = 4
  BY PartsOf DEF IPv4Address
<1>2. \A a \in IPv6Address : Len(a) = 8
  BY PartsOf DEF IPv6Address
<1> QED BY <1>1, <1>2 DEF IsIPv4, PartBits

\* A prefix keeps whole parts, at most one in part, and nothing after it.
LEMMA Kept ==
  ASSUME NEW a, NEW w \in {8, 16}, PartBits(a) = w, NEW length \in Nat, NEW i \in Nat
  PROVE  KeptBits(a, length, i) \in 0..w
<1>1. CASE w = 8
  BY <1>1 DEF KeptBits
<1>2. CASE w = 16
  BY <1>2 DEF KeptBits
<1> QED BY <1>1, <1>2

LEMMA KeptBefore ==
  ASSUME NEW a, NEW w \in {8, 16}, PartBits(a) = w, NEW length \in Nat, NEW i \in Nat,
         KeptBits(a, length, i) # 0, NEW j \in Nat, j < i
  PROVE  KeptBits(a, length, j) = w
<1>1. CASE w = 8
  BY <1>1 DEF KeptBits
<1>2. CASE w = 16
  BY <1>2 DEF KeptBits
<1> QED BY <1>1, <1>2

\* The parts the range keeps are compared, the others are free.
Dropped(range, i) == PowerOfTwo(PartBits(range[1]) - KeptBits(range[1], range[2], i))

LEMMA DroppedIs ==
  ASSUME NEW range, NEW w \in {8, 16}, PartBits(range[1]) = w, range[2] \in Nat, NEW i \in Nat
  PROVE  /\ Dropped(range, i) \in Power
         /\ KeptBits(range[1], range[2], i) = w => Dropped(range, i) = 1
         /\ KeptBits(range[1], range[2], i) = 0 => Dropped(range, i) = PowerOfTwo(w)
<1>1. KeptBits(range[1], range[2], i) \in 0..w
  BY Kept
<1>2. w - KeptBits(range[1], range[2], i) \in 0..16
  BY <1>1
<1> QED BY <1>1, <1>2, Powers DEF Dropped

\* A range over n parts of w bits, and an address of the same family.
Fits(range, a, n, w) ==
  /\ range[1] \in [1..n -> Nat] /\ Len(range[1]) = n /\ PartBits(range[1]) = w /\ range[2] \in Nat
  /\ a \in [1..n -> Nat] /\ Len(a) = n /\ PartBits(a) = w
  /\ \A i \in 1..n : a[i] < PowerOfTwo(w) /\ range[1][i] < PowerOfTwo(w)

\* What lies between the first and the last address of a range has its prefix.
LEMMA BetweenIsWithin ==
  ASSUME NEW range, NEW a, NEW n \in Nat, NEW w \in {8, 16}, Fits(range, a, n, w), Between(a, range)
  PROVE  Within(a, range)
<1> DEFINE b == range[1]
           l == LastOf(range)
           d(i) == Dropped(range, i)
<1>1. /\ b \in [1..n -> Nat] /\ a \in [1..n -> Nat] /\ Len(b) = n /\ Len(a) = n
      /\ PartBits(a) = w /\ PartBits(b) = w /\ range[2] \in Nat
      /\ \A i \in 1..n : a[i] < PowerOfTwo(w) /\ b[i] < PowerOfTwo(w)
  BY DEF Fits
<1>2. \A i \in 1..n : l[i] = (b[i] \div d(i)) * d(i) + d(i) - 1
  BY <1>1 DEF LastOf, Dropped
<1>3. \A i \in 1..n : /\ d(i) \in Power
                      /\ KeptBits(b, range[2], i) = w => d(i) = 1
                      /\ KeptBits(b, range[2], i) = 0 => d(i) = PowerOfTwo(w)
  BY <1>1, DroppedIs
<1>4. \A i \in 1..n : l[i] \in Nat /\ (KeptBits(b, range[2], i) = w => l[i] = b[i])
  <2> SUFFICES ASSUME NEW i \in 1..n
               PROVE  l[i] \in Nat /\ (KeptBits(b, range[2], i) = w => l[i] = b[i])
    OBVIOUS
  <2>1. b[i] \in Nat /\ l[i] = (b[i] \div d(i)) * d(i) + d(i) - 1
    BY <1>1, <1>2
  <2>2. l[i] \in Nat
    BY <2>1, <1>3, BlockEnd
  <2> QED BY <2>1, <2>2, <1>3
<1>5. \A i, j \in 1..n : j < i /\ KeptBits(b, range[2], i) # 0 => KeptBits(b, range[2], j) = w
  <2> SUFFICES ASSUME NEW i \in 1..n, NEW j \in 1..n, j < i, KeptBits(b, range[2], i) # 0
               PROVE  KeptBits(b, range[2], j) = w
    OBVIOUS
  <2>1. i \in Nat /\ j \in Nat
    OBVIOUS
  <2>2. range[2] \in Nat /\ PartBits(b) = w
    BY <1>1
  <2> HIDE DEF b
  <2> QED BY <2>1, <2>2, KeptBefore
<1> SUFFICES ASSUME NEW i \in 1..n PROVE a[i] \div d(i) = b[i] \div d(i)
  BY <1>1 DEF Within, Dropped, KeptBits
<1> HIDE DEF l, d
<1>6. CASE KeptBits(b, range[2], i) = 0
  <2>1. d(i) = PowerOfTwo(w)
    BY <1>3, <1>6
  <2>2. a[i] \in Nat /\ b[i] \in Nat /\ a[i] < d(i) /\ b[i] < d(i)
    BY <1>1, <2>1
  <2>3. d(i) \in {256, 65536}
    BY <2>1, Powers
  <2>4. CASE d(i) = 256
    <3>1. a[i] \div 256 = 0 /\ b[i] \div 256 = 0
      BY <2>2, <2>4
    <3> QED BY <2>4, <3>1
  <2>5. CASE d(i) = 65536
    <3>1. a[i] \div 65536 = 0 /\ b[i] \div 65536 = 0
      BY <2>2, <2>5
    <3> QED BY <2>5, <3>1
  <2> QED BY <2>3, <2>4, <2>5
<1>7. CASE KeptBits(b, range[2], i) # 0
  <2>1. \A j \in 1..n : j < i => l[j] = b[j]
    BY <1>4, <1>5, <1>7
  <2>2. AtMost(b, a) /\ AtMost(a, l)
    BY DEF Between, l
  <2>3. CASE a = b
    BY <2>3
  <2>4. CASE a = l
    BY <1>1, <1>2, <1>3, <2>4, BlockEnd
  <2>5. CASE a # b /\ a # l
    <3>1. PICK p \in 1..n : b[p] < a[p] /\ \A j \in 1..(p - 1) : b[j] = a[j]
      BY <1>1, <2>2, <2>5 DEF AtMost
    <3>2. PICK q \in 1..n : a[q] < l[q] /\ \A j \in 1..(q - 1) : a[j] = l[j]
      BY <1>1, <2>2, <2>5 DEF AtMost
    <3>3. \A j \in 1..n : a[j] \in Nat /\ b[j] \in Nat /\ l[j] \in Nat
      BY <1>1, <1>4
    <3>4. p >= i
      BY <2>1, <3>1, <3>2, <3>3
    <3>5. q >= i
      BY <2>1, <3>1, <3>2, <3>3, <3>4
    <3>6. b[i] <= a[i] /\ a[i] <= l[i]
      BY <3>1, <3>2, <3>3, <3>4, <3>5
    <3> QED BY <1>2, <1>3, <3>3, <3>6, SameBlock
  <2> QED BY <2>3, <2>4, <2>5
<1> QED BY <1>6, <1>7

-----------------------------------------------------------------------------
(* The table of ranges.                                                    *)

LEMMA Zeros ==
  ASSUME NEW n \in Nat
  PROVE  /\ [i \in 1..n |-> 0] \in Seq(Group) /\ Len([i \in 1..n |-> 0]) = n
         /\ \A i \in 1..n : [j \in 1..n |-> 0][i] = 0
<1>1. [i \in 1..n |-> 0] \in [1..n -> Group]
  BY DEF Group
<1> QED BY <1>1, PartsOf

\* head, zeros, tail.
Pad(head, n, tail) == head \o [i \in 1..n |-> 0] \o tail

LEMMA PaddedIs ==
  ASSUME NEW head \in Seq(Group), NEW tail \in Seq(Group), NEW n \in Nat
  PROVE  LET a == Pad(head, n, tail)
         IN  /\ a \in Seq(Group) /\ Len(a) = Len(head) + n + Len(tail)
             /\ \A i \in 1..Len(head) : a[i] = head[i]
             /\ \A i \in (Len(head) + 1)..(Len(head) + n) : a[i] = 0
             /\ \A i \in 1..Len(tail) : a[Len(head) + n + i] = tail[i]
<1> DEFINE zeros == [i \in 1..n |-> 0]
           m == head \o zeros
           a == m \o tail
<1>0. Pad(head, n, tail) = a
  BY DEF Pad
<1>1. zeros \in Seq(Group) /\ Len(zeros) = n /\ \A i \in 1..n : zeros[i] = 0
  BY Zeros
<1> HIDE DEF zeros
<1>2. /\ m \in Seq(Group) /\ Len(m) = Len(head) + n
      /\ \A i \in 1..(Len(head) + n) : m[i] = IF i <= Len(head) THEN head[i] ELSE zeros[i - Len(head)]
  BY <1>1, ConcatProperties
<1> HIDE DEF m
<1>3. /\ a \in Seq(Group) /\ Len(a) = Len(m) + Len(tail)
      /\ \A i \in 1..(Len(m) + Len(tail)) : a[i] = IF i <= Len(m) THEN m[i] ELSE tail[i - Len(m)]
  BY <1>2, ConcatProperties
<1> HIDE DEF a
<1>4. Len(head) \in Nat /\ Len(tail) \in Nat
  BY LenProperties
<1>5. \A i \in 1..Len(head) : a[i] = head[i]
  BY <1>2, <1>3, <1>4
<1>6. \A i \in (Len(head) + 1)..(Len(head) + n) : a[i] = 0
  <2> SUFFICES ASSUME NEW i \in (Len(head) + 1)..(Len(head) + n) PROVE a[i] = 0
    OBVIOUS
  <2>1. i \in 1..(Len(head) + n) /\ ~(i <= Len(head)) /\ i - Len(head) \in 1..n
    BY <1>4
  <2>2. a[i] = m[i]
    BY <1>2, <1>3, <1>4, <2>1
  <2> QED BY <1>1, <1>2, <2>1, <2>2
<1>7. \A i \in 1..Len(tail) : a[Len(head) + n + i] = tail[i]
  <2> SUFFICES ASSUME NEW i \in 1..Len(tail) PROVE a[Len(m) + i] = tail[i]
    BY <1>2
  <2>1. Len(m) + i \in 1..(Len(m) + Len(tail)) /\ ~(Len(m) + i <= Len(m)) /\ Len(m) + i - Len(m) = i
    BY <1>2, <1>4
  <2> QED BY <1>3, <2>1
<1> QED BY <1>0, <1>2, <1>3, <1>5, <1>6, <1>7

LEMMA EightGroups ==
  ASSUME NEW a \in Seq(Group), Len(a) = 8
  PROVE  a \in IPv6Address
  BY LenProperties DEF IPv6Address

LEMMA V6IsAddress ==
  ASSUME NEW head \in Seq(Group), NEW tail \in Seq(Group), Len(head) + Len(tail) <= 8
  PROVE  V6(head, tail) \in IPv6Address
<1> DEFINE n == 8 - Len(head) - Len(tail)
<1>1. n \in Nat /\ Len(head) + n + Len(tail) = 8
  BY LenProperties
<1>2. V6(head, tail) = Pad(head, n, tail)
  BY DEF V6, Pad
<1> HIDE DEF n
<1> QED BY <1>1, <1>2, PaddedIs, EightGroups

LEMMA Few ==
  /\ <<>> \in Seq(Group) /\ Len(<<>>) = 0
  /\ \A x \in Group : <<x>> \in Seq(Group) /\ Len(<<x>>) = 1
  /\ \A x, y \in Group : <<x, y>> \in Seq(Group) /\ Len(<<x, y>>) = 2
  /\ \A x, y, z \in Group : <<x, y, z>> \in Seq(Group) /\ Len(<<x, y, z>>) = 3
  OBVIOUS

LEMMA BlockedIPv4 ==
  \A r \in BLOCKED_IPV4 : r[1] \in IPv4Address /\ r[2] \in Nat
  BY DEF BLOCKED_IPV4, IPv4Address, Octet

LEMMA BlockedIPv6 ==
  \A r \in BLOCKED_IPV6 \union {IPV4_MAPPED} : r[1] \in IPv6Address /\ r[2] \in Nat
<1> DEFINE Short == { s \in Seq(Group) : Len(s) <= 4 }
<1>1. \A h, t \in Short : V6(h, t) \in IPv6Address
  <2> SUFFICES ASSUME NEW h \in Short, NEW t \in Short PROVE V6(h, t) \in IPv6Address
    OBVIOUS
  <2>1. Len(h) \in Nat /\ Len(t) \in Nat /\ Len(h) + Len(t) <= 8
    BY LenProperties
  <2> QED BY <2>1, V6IsAddress
<1>2. /\ <<>> \in Short
      /\ \A x \in Group : <<x>> \in Short
      /\ \A x, y \in Group : <<x, y>> \in Short
      /\ \A x, y, z \in Group : <<x, y, z>> \in Short
  BY Few
<1> HIDE DEF Short
<1>3. /\ V6(<<>>, <<>>) \in IPv6Address
      /\ \A x \in Group : V6(<<x>>, <<>>) \in IPv6Address
      /\ \A x \in Group : V6(<<>>, <<x>>) \in IPv6Address
      /\ \A x, y \in Group : V6(<<x, y>>, <<>>) \in IPv6Address
      /\ \A x, y, z \in Group : V6(<<x, y>>, <<z>>) \in IPv6Address
      /\ \A x, y, z \in Group : V6(<<x, y, z>>, <<>>) \in IPv6Address
      /\ \A x, y, z \in Group : V6(<<>>, <<x, y, z>>) \in IPv6Address
  <2>1. V6(<<>>, <<>>) \in IPv6Address
    BY <1>1, <1>2
  <2>2. ASSUME NEW x \in Group PROVE V6(<<x>>, <<>>) \in IPv6Address
    BY <1>1, <1>2
  <2>3. ASSUME NEW x \in Group PROVE V6(<<>>, <<x>>) \in IPv6Address
    BY <1>1, <1>2
  <2>4. ASSUME NEW x \in Group, NEW y \in Group PROVE V6(<<x, y>>, <<>>) \in IPv6Address
    BY <1>1, <1>2
  <2>5. ASSUME NEW x \in Group, NEW y \in Group, NEW z \in Group
        PROVE  /\ V6(<<x, y>>, <<z>>) \in IPv6Address
               /\ V6(<<x, y, z>>, <<>>) \in IPv6Address
               /\ V6(<<>>, <<x, y, z>>) \in IPv6Address
    BY <1>1, <1>2
  <2> QED BY <2>1, <2>2, <2>3, <2>4, <2>5
<1>4. { 0, 1, 2, 16, 32, 48, 100, 256, 3512, 8193, 8194, 16383, 24320, 64512, 65152, 65280,
        65435, 65535 } \subseteq Group
  BY DEF Group
<1>5. /\ V6(<<>>, <<1>>) \in IPv6Address /\ V6(<<>>, <<65535, 0, 0>>) \in IPv6Address
      /\ V6(<<100, 65435>>, <<>>) \in IPv6Address /\ V6(<<100, 65435, 1>>, <<>>) \in IPv6Address
      /\ V6(<<8193, 1>>, <<1>>) \in IPv6Address
  <2>1. {0, 1, 100, 8193, 65435, 65535} \subseteq Group
    BY <1>4
  <2> QED BY <1>3, <2>1
<1>6. /\ V6(<<256>>, <<>>) \in IPv6Address /\ V6(<<8193>>, <<>>) \in IPv6Address
      /\ V6(<<8194>>, <<>>) \in IPv6Address /\ V6(<<16383>>, <<>>) \in IPv6Address
      /\ V6(<<24320>>, <<>>) \in IPv6Address /\ V6(<<64512>>, <<>>) \in IPv6Address
      /\ V6(<<65152>>, <<>>) \in IPv6Address /\ V6(<<65280>>, <<>>) \in IPv6Address
  BY <1>3, <1>4
<1>7. /\ V6(<<8193, 2>>, <<>>) \in IPv6Address /\ V6(<<8193, 16>>, <<>>) \in IPv6Address
      /\ V6(<<8193, 32>>, <<>>) \in IPv6Address /\ V6(<<8193, 48>>, <<>>) \in IPv6Address
      /\ V6(<<8193, 3512>>, <<>>) \in IPv6Address
  BY <1>3, <1>4
<1> QED BY <1>3, <1>5, <1>6, <1>7 DEF BLOCKED_IPV6, IPV4_MAPPED

LEMMA Bounded ==
  /\ \A a \in IPv4Address : a \in [1..4 -> Nat] /\ \A i \in 1..4 : a[i] < PowerOfTwo(8)
  /\ \A a \in IPv6Address : a \in [1..8 -> Nat] /\ \A i \in 1..8 : a[i] < PowerOfTwo(16)
  BY Powers DEF IPv4Address, IPv6Address, Octet, Group

\* A range and an address of one family fit.
LEMMA FamilyFits ==
  ASSUME NEW range, range[2] \in Nat, NEW a
  PROVE  /\ range[1] \in IPv4Address /\ a \in IPv4Address => Fits(range, a, 4, 8)
         /\ range[1] \in IPv6Address /\ a \in IPv6Address => Fits(range, a, 8, 16)
<1>1. ASSUME range[1] \in IPv4Address, a \in IPv4Address
      PROVE  Fits(range, a, 4, 8)
  BY <1>1, Bounded, WidthOf DEF Fits
<1>2. ASSUME range[1] \in IPv6Address, a \in IPv6Address
      PROVE  Fits(range, a, 8, 16)
  BY <1>2, Bounded, WidthOf DEF Fits
<1> QED BY <1>1, <1>2

LEMMA ReservedFits ==
  ASSUME NEW a \in Address, NEW range \in ReservedRanges, Len(a) = Len(range[1])
  PROVE  \/ a \in IPv4Address /\ range \in BLOCKED_IPV4 /\ Fits(range, a, 4, 8)
         \/ a \in IPv6Address /\ range \in BLOCKED_IPV6 \union {IPV4_MAPPED} /\ Fits(range, a, 8, 16)
<1>1. CASE range \in BLOCKED_IPV4
  <2>1. range[1] \in IPv4Address /\ range[2] \in Nat
    BY <1>1, BlockedIPv4
  <2>2. Len(a) = 4
    BY <2>1, WidthOf
  <2>3. a \notin IPv6Address
    BY <2>2, WidthOf
  <2>4. a \in IPv4Address
    BY <2>3 DEF Address
  <2> QED BY <1>1, <2>1, <2>4, FamilyFits
<1>2. CASE range \in BLOCKED_IPV6 \union {IPV4_MAPPED}
  <2>1. range[1] \in IPv6Address /\ range[2] \in Nat
    BY <1>2, BlockedIPv6
  <2>2. Len(a) = 8
    BY <2>1, WidthOf
  <2>3. a \notin IPv4Address
    BY <2>2, WidthOf
  <2>4. a \in IPv6Address
    BY <2>3 DEF Address
  <2> QED BY <1>2, <2>1, <2>4, FamilyFits
<1> QED BY <1>1, <1>2 DEF ReservedRanges

\* An address that passes as publicly routable lies in none of the reserved ranges,
\* not even written as an IPv4 address inside an IPv6 one (ipRanges.ts:188-240): TLC
\* compares the edges of the ranges, this every address there is.
THEOREM PublicIsUnreserved ==
  ASSUME NEW a \in Address, isPubliclyRoutable(a), NEW range \in ReservedRanges
  PROVE  ~Between(a, range)
<1> SUFFICES ASSUME Between(a, range) PROVE FALSE
  OBVIOUS
<1>1. Len(a) = Len(range[1])
  BY DEF Between
<1>2. CASE a \in IPv4Address /\ range \in BLOCKED_IPV4 /\ Fits(range, a, 4, 8)
  <2>1. Within(a, range)
    BY <1>2, BetweenIsWithin
  <2>2. classifyAddress(a) = "reserved"
    BY <1>2, <2>1, WidthOf DEF classifyAddress, classifyIPv4, IsIPv4
  <2> QED BY <2>2 DEF isPubliclyRoutable
<1>3. CASE a \in IPv6Address /\ range \in BLOCKED_IPV6 \union {IPV4_MAPPED} /\ Fits(range, a, 8, 16)
  <2>1. Within(a, range)
    BY <1>3, BetweenIsWithin
  <2>2. classifyIPv6(a) # "public"
    BY <1>3, <2>1 DEF classifyIPv6
  <2>3. a # <<>> /\ ~IsIPv4(a)
    BY <1>3, WidthOf
  <2> QED BY <2>2, <2>3 DEF classifyAddress, isPubliclyRoutable
<1> QED BY <1>1, <1>2, <1>3, ReservedFits

-----------------------------------------------------------------------------
(* The spellings of an IPv6 address.                                       *)

LEMMA SubSeqIs ==
  ASSUME NEW s \in Seq(Group), NEW u \in Seq(Group), NEW m \in Nat, NEW n \in Nat,
         1 <= m, m <= n + 1, n <= Len(s), Len(u) = n - m + 1,
         \A i \in 1..Len(u) : s[m + i - 1] = u[i]
  PROVE  SubSeq(s, m, n) = u
<1>1. /\ SubSeq(s, m, n) \in Seq(Group)
      /\ Len(SubSeq(s, m, n)) = IF m <= n THEN n - m + 1 ELSE 0
      /\ \A i \in 1..(n - m + 1) : SubSeq(s, m, n)[i] = s[m + i - 1]
  <2>1. /\ Len(s) \in Nat /\ m \in 1..(Len(s) + 1) /\ n \in (m - 1)..Len(s)
    BY LenProperties
  <2> QED BY <2>1, SubSeqProperties
<1>2. Len(SubSeq(s, m, n)) = Len(u)
  BY <1>1
<1>3. \A i \in 1..Len(u) : SubSeq(s, m, n)[i] = u[i]
  BY <1>1
<1> HIDE <1>1
<1>4. SubSeq(s, m, n) \in Seq(Group)
  BY <1>1
<1> QED BY <1>2, <1>3, <1>4, SeqEqual

\* The dotted tail is the last two groups.
LEMMA DottedIs ==
  ASSUME NEW o \in IPv4Address
  PROVE  /\ DottedGroups(o) \in Seq(Group) /\ Len(DottedGroups(o)) = 2
         /\ \A a : a[7] = DottedGroups(o)[1] /\ a[8] = DottedGroups(o)[2] => ipv4FromLow32(a) = o
<1>1. /\ o[1] \in Octet /\ o[2] \in Octet /\ o[3] \in Octet /\ o[4] \in Octet
      /\ Len(o) = 4 /\ o \in Seq(Octet) /\ o # <<>>
  <2>1. o \in [1..4 -> Octet]
    BY DEF IPv4Address
  <2>2. o \in Seq(Octet) /\ Len(o) = 4
    BY <2>1, PartsOf
  <2> QED BY <2>1, <2>2
<1>2. DottedGroups(o) = <<o[1] * 256 + o[2], o[3] * 256 + o[4]>>
  BY <1>1 DEF DottedGroups
<1>3. o[1] * 256 + o[2] \in Group /\ o[3] * 256 + o[4] \in Group
  BY <1>1 DEF Octet, Group
<1>4. \A a : a[7] = o[1] * 256 + o[2] /\ a[8] = o[3] * 256 + o[4]
             => ipv4FromLow32(a) = <<o[1], o[2], o[3], o[4]>>
  <2> SUFFICES ASSUME NEW a, a[7] = o[1] * 256 + o[2], a[8] = o[3] * 256 + o[4]
               PROVE  ipv4FromLow32(a) = <<o[1], o[2], o[3], o[4]>>
    OBVIOUS
  <2>1. \A x, y \in Octet : (x * 256 + y) \div 256 = x /\ (x * 256 + y) % 256 = y
    BY DEF Octet
  <2> QED BY <1>1, <2>1 DEF ipv4FromLow32
<1>5. o = <<o[1], o[2], o[3], o[4]>>
  BY <1>1
<1> QED BY <1>2, <1>3, <1>4, <1>5, Few

LowOctets(a, d) == IF d = 1 THEN ipv4FromLow32(a) ELSE <<>>
Groups(a, d) == SubSeq(a, 1, 8 - 2 * d)
Runs(g) == { r \in (1..Len(g)) \X (1..Len(g)) : r[1] <= r[2] /\ \A k \in r[1]..r[2] : g[k] = 0 }
Full(g, o) == [head |-> g, tail |-> <<>>, elided |-> FALSE, dotted |-> o]
Elided(g, o, p, q) == [head |-> SubSeq(g, 1, p - 1), tail |-> SubSeq(g, q + 1, Len(g)),
                       elided |-> TRUE, dotted |-> o]

LEMMA IsSpelling ==
  ASSUME NEW a, NEW d \in {0, 1}
  PROVE  /\ Full(Groups(a, d), LowOctets(a, d)) \in Spellings(a)
         /\ \A p, q : <<p, q>> \in Runs(Groups(a, d))
                     => Elided(Groups(a, d), LowOctets(a, d), p, q) \in Spellings(a)
<1> DEFINE All(e) == { Full(Groups(a, e), LowOctets(a, e)) }
                     \union { Elided(Groups(a, e), LowOctets(a, e), r[1], r[2]) : r \in Runs(Groups(a, e)) }
<1>1. Spellings(a) = UNION { All(e) : e \in {0, 1} }
  BY DEF Spellings, Full, Elided, Runs, Groups, LowOctets
<1>2. All(d) \subseteq Spellings(a)
  <2> HIDE DEF All
  <2> QED BY <1>1
<1>3. ASSUME NEW p, NEW q, <<p, q>> \in Runs(Groups(a, d))
      PROVE  Elided(Groups(a, d), LowOctets(a, d), p, q) \in All(d)
  BY <1>3
<1> QED BY <1>2, <1>3

LEMMA TextParts ==
  ASSUME NEW text, IsIPv6(text)
  PROVE  /\ text.head \in Seq(Group) /\ text.tail \in Seq(Group) /\ text.elided \in BOOLEAN
         /\ text.dotted = <<>> \/ text.dotted \in IPv4Address
         /\ Len(text.head) \in Nat /\ Len(text.tail) \in Nat
  BY LenProperties DEF IsIPv6, IPv6Text

LEMMA TextIs ==
  ASSUME NEW text, IsIPv6(text)
  PROVE  text = [head |-> text.head, tail |-> text.tail, elided |-> text.elided, dotted |-> text.dotted]
  BY DEF IsIPv6, IPv6Text

LEMMA DottedParts ==
  ASSUME NEW o, o = <<>> \/ o \in IPv4Address, NEW d, d = IF o = <<>> THEN 0 ELSE 1
  PROVE  /\ d \in {0, 1} /\ DottedGroups(o) \in Seq(Group) /\ Len(DottedGroups(o)) = 2 * d
         /\ \A a : (d = 1 => a[7] = DottedGroups(o)[1] /\ a[8] = DottedGroups(o)[2])
                   => o = LowOctets(a, d)
<1>1. CASE o = <<>>
  BY <1>1, Few DEF DottedGroups, LowOctets
<1>2. CASE o # <<>>
  BY <1>2, DottedIs DEF LowOctets
<1> QED BY <1>1, <1>2

\* The groups before the dotted tail, in a text without "::".
LEMMA FullSpelling ==
  ASSUME NEW text, IsIPv6(text), ~text.elided
  PROVE  expandIPv6(text) \in IPv6Address /\ text \in Spellings(expandIPv6(text))
<1> DEFINE h == text.head
           o == text.dotted
           d == IF o = <<>> THEN 0 ELSE 1
           g == DottedGroups(o)
           a == expandIPv6(text)
<1>1. /\ h \in Seq(Group) /\ Len(h) \in Nat /\ text.tail = <<>> /\ d \in {0, 1}
      /\ Len(h) + 2 * d = 8 /\ (o = <<>> \/ o \in IPv4Address)
      /\ text = [head |-> h, tail |-> <<>>, elided |-> FALSE, dotted |-> o]
  <2>1. text.elided = FALSE
    BY TextParts
  <2>2. /\ text.tail = <<>>
        /\ Len(text.head) + Len(text.tail) + (IF text.dotted = <<>> THEN 0 ELSE 2) = 8
    BY <2>1 DEF IsIPv6
  <2>3. Len(h) + 2 * d = 8 /\ d \in {0, 1}
    <3>1. Len(text.tail) = 0
      BY <2>2, Few
    <3>2. CASE o = <<>>
      BY <2>2, <3>1, <3>2, TextParts
    <3>3. CASE o # <<>>
      BY <2>2, <3>1, <3>3, TextParts
    <3> QED BY <3>2, <3>3
  <2> QED BY <2>1, <2>2, <2>3, TextParts, TextIs
<1>2. /\ g \in Seq(Group) /\ Len(g) = 2 * d
      /\ \A b : (d = 1 => b[7] = g[1] /\ b[8] = g[2]) => o = LowOctets(b, d)
  <2>1. (o = <<>> \/ o \in IPv4Address) /\ d = IF o = <<>> THEN 0 ELSE 1
    BY <1>1
  <2> HIDE DEF o, d
  <2> QED BY <2>1, DottedParts, Zenon
<1>3. a = (h \o g) \o [i \in 1..(8 - Len(h \o g) - Len(<<>>)) |-> 0] \o <<>>
  BY DEF expandIPv6
<1> HIDE DEF h, o, d, g, a
<1>4. /\ h \o g \in Seq(Group) /\ Len(h \o g) = 8
      /\ \A i \in 1..8 : (h \o g)[i] = IF i <= Len(h) THEN h[i] ELSE g[i - Len(h)]
  BY <1>1, <1>2, ConcatProperties
<1>5. /\ a \in Seq(Group) /\ Len(a) = 8 /\ \A i \in 1..8 : a[i] = (h \o g)[i]
  <2> DEFINE m == h \o g
  <2>1. m \in Seq(Group) /\ Len(m) = 8
    BY <1>4
  <2>2. a = Pad(m, 0, <<>>)
    BY <1>3, <1>4, Few DEF Pad
  <2> HIDE DEF m
  <2>3. 0 \in Nat /\ <<>> \in Seq(Group) /\ Len(<<>>) = 0
    BY Few
  <2>4. LET b == Pad(m, 0, <<>>)
        IN  b \in Seq(Group) /\ Len(b) = Len(m) + 0 + Len(<<>>) /\ \A i \in 1..Len(m) : b[i] = m[i]
    BY <2>1, <2>3, PaddedIs, Zenon
  <2>5. a \in Seq(Group) /\ Len(a) = Len(m) + 0 + Len(<<>>) /\ \A i \in 1..Len(m) : a[i] = m[i]
    BY <2>2, <2>4, Zenon
  <2>6. Len(a) = 8
    BY <2>1, <2>3, <2>5
  <2> QED BY <2>1, <2>5, <2>6, Zenon DEF m
<1>6. a \in IPv6Address
  BY <1>5, EightGroups
<1>7. o = LowOctets(a, d)
  <2>1. d = 1 => a[7] = g[1] /\ a[8] = g[2]
    BY <1>1, <1>4, <1>5
  <2> QED BY <1>2, <2>1
<1>8. h = Groups(a, d)
  <2>1. /\ Len(h) = (8 - 2 * d) - 1 + 1 /\ \A i \in 1..Len(h) : a[1 + i - 1] = h[i]
    BY <1>1, <1>4, <1>5
  <2>2. 1 \in Nat /\ 8 - 2 * d \in Nat /\ 1 <= 8 - 2 * d + 1 /\ 8 - 2 * d <= Len(a)
    BY <1>1, <1>5
  <2> QED BY <1>1, <1>5, <2>1, <2>2, SubSeqIs DEF Groups
<1>9. Full(h, o) \in Spellings(a)
  BY <1>1, <1>7, <1>8, IsSpelling
<1> QED BY <1>1, <1>6, <1>9 DEF a, Full

\* The groups before and after the "::", which stands for one zero group at least.
LEMMA ElidedSpelling ==
  ASSUME NEW text, IsIPv6(text), text.elided
  PROVE  expandIPv6(text) \in IPv6Address /\ text \in Spellings(expandIPv6(text))
<1> DEFINE h == text.head
           t == text.tail
           o == text.dotted
           d == IF o = <<>> THEN 0 ELSE 1
           g == DottedGroups(o)
           a == expandIPv6(text)
           n == 8 - Len(h) - Len(t) - 2 * d
           s == Groups(a, d)
<1>1. /\ h \in Seq(Group) /\ Len(h) \in Nat /\ t \in Seq(Group) /\ Len(t) \in Nat /\ d \in {0, 1}
      /\ Len(h) + Len(t) + 2 * d <= 7 /\ (o = <<>> \/ o \in IPv4Address)
      /\ text = [head |-> h, tail |-> t, elided |-> TRUE, dotted |-> o]
  <2>1. text.elided = TRUE
    BY TextParts
  <2>2. Len(text.head) + Len(text.tail) + (IF text.dotted = <<>> THEN 0 ELSE 2) <= 7
    BY <2>1 DEF IsIPv6
  <2>3. Len(h) + Len(t) + 2 * d <= 7 /\ d \in {0, 1}
    <3>1. d \in {0, 1} /\ (IF text.dotted = <<>> THEN 0 ELSE 2) = 2 * d
      OBVIOUS
    <3>2. Len(h) + Len(t) + (IF text.dotted = <<>> THEN 0 ELSE 2) <= 7
      BY <2>2
    <3> HIDE DEF d, h, t
    <3> QED BY <3>1, <3>2
  <2> QED BY <2>1, <2>3, TextParts, TextIs
<1>2. /\ g \in Seq(Group) /\ Len(g) = 2 * d
      /\ \A b : (d = 1 => b[7] = g[1] /\ b[8] = g[2]) => o = LowOctets(b, d)
  BY <1>1, DottedParts
<1>3. a = h \o [i \in 1..(8 - Len(h) - Len(t \o g)) |-> 0] \o (t \o g)
  BY DEF expandIPv6
<1> HIDE DEF h, t, o, d, g, a
<1>4. /\ t \o g \in Seq(Group) /\ Len(t \o g) = Len(t) + 2 * d
      /\ \A i \in 1..(Len(t) + 2 * d) : (t \o g)[i] = IF i <= Len(t) THEN t[i] ELSE g[i - Len(t)]
  BY <1>1, <1>2, ConcatProperties
<1>5. n \in Nat /\ n >= 1 /\ n = 8 - Len(h) - Len(t \o g) /\ Len(h) + n + Len(t) = 8 - 2 * d
  BY <1>1, <1>4
<1> HIDE DEF n
<1>6. /\ a \in Seq(Group) /\ Len(a) = 8
      /\ \A i \in 1..Len(h) : a[i] = h[i]
      /\ \A i \in (Len(h) + 1)..(Len(h) + n) : a[i] = 0
      /\ \A i \in 1..(Len(t) + 2 * d) : a[Len(h) + n + i] = (t \o g)[i]
  <2> DEFINE m == t \o g
  <2>1. m \in Seq(Group) /\ Len(m) = Len(t) + 2 * d
    BY <1>4
  <2>2. a = Pad(h, n, m)
    BY <1>3, <1>5 DEF Pad
  <2> HIDE DEF m
  <2>3. Len(h) + n + Len(m) = 8
    BY <1>1, <1>5, <2>1
  <2>4. LET b == Pad(h, n, m)
        IN  /\ b \in Seq(Group) /\ Len(b) = Len(h) + n + Len(m)
            /\ \A i \in 1..Len(h) : b[i] = h[i]
            /\ \A i \in (Len(h) + 1)..(Len(h) + n) : b[i] = 0
            /\ \A i \in 1..Len(m) : b[Len(h) + n + i] = m[i]
    <3>1. h \in Seq(Group) /\ m \in Seq(Group) /\ n \in Nat
      BY <1>1, <1>5, <2>1
    <3> QED BY <3>1, PaddedIs, Zenon
  <2> QED BY <2>1, <2>2, <2>3, <2>4 DEF m
<1>7. a \in IPv6Address
  BY <1>6, EightGroups
<1>8. o = LowOctets(a, d)
  <2>1. d = 1 => a[7] = g[1] /\ a[8] = g[2]
    <3> SUFFICES ASSUME d = 1 PROVE a[7] = g[1] /\ a[8] = g[2]
      OBVIOUS
    <3>1. Len(h) + n + (Len(t) + 1) = 7 /\ Len(h) + n + (Len(t) + 2) = 8
      BY <1>1, <1>5
    <3>2. Len(t) + 1 \in 1..(Len(t) + 2 * d) /\ Len(t) + 2 \in 1..(Len(t) + 2 * d)
      BY <1>1
    <3>3. a[7] = (t \o g)[Len(t) + 1] /\ a[8] = (t \o g)[Len(t) + 2]
      BY <1>6, <3>1, <3>2, Zenon
    <3>4. /\ ~(Len(t) + 1 <= Len(t)) /\ Len(t) + 1 - Len(t) = 1
          /\ ~(Len(t) + 2 <= Len(t)) /\ Len(t) + 2 - Len(t) = 2
      BY <1>1
    <3> QED BY <1>4, <3>2, <3>3, <3>4
  <2> QED BY <1>2, <2>1
<1>9. /\ s \in Seq(Group) /\ Len(s) = 8 - 2 * d
      /\ \A i \in 1..(8 - 2 * d) : s[i] = a[i]
  <2>1. 1 \in Int /\ 8 - 2 * d \in Int /\ 1..(8 - 2 * d) \subseteq 1..Len(a)
    BY <1>1, <1>6
  <2>2. \A i \in 1..(8 - 2 * d) : a[i] \in Group
    BY <1>6, <2>1, ElementOfSeq
  <2>3. /\ SubSeq(a, 1, 8 - 2 * d) \in Seq(Group)
        /\ Len(SubSeq(a, 1, 8 - 2 * d)) = IF 1 <= 8 - 2 * d THEN 8 - 2 * d - 1 + 1 ELSE 0
        /\ \A i \in 1..(8 - 2 * d - 1 + 1) : SubSeq(a, 1, 8 - 2 * d)[i] = a[1 + i - 1]
    BY <2>1, <2>2, SubSeqProperties
  <2> QED BY <1>1, <2>3 DEF Groups
<1>10. text \in Spellings(a)
  <2> DEFINE p == Len(h) + 1
             q == Len(h) + n
  <2>1. p \in 1..Len(s) /\ q \in 1..Len(s) /\ p <= q /\ \A k \in p..q : s[k] = 0
    <3> HIDE DEF s
    <3>1. p \in 1..(8 - 2 * d) /\ q \in 1..(8 - 2 * d) /\ p <= q
      BY <1>1, <1>5
    <3>2. ASSUME NEW k \in p..q PROVE s[k] = 0
      <4>1. k \in 1..(8 - 2 * d) /\ k \in (Len(h) + 1)..(Len(h) + n)
        BY <1>1, <3>1
      <4> QED BY <1>6, <1>9, <4>1
    <3> QED BY <1>9, <3>1, <3>2
  <2>2. SubSeq(s, 1, p - 1) = h
    <3>1. /\ p - 1 \in Nat /\ 1 <= (p - 1) + 1 /\ p - 1 <= Len(s) /\ Len(h) = (p - 1) - 1 + 1
          /\ \A i \in 1..Len(h) : s[1 + i - 1] = h[i]
      BY <1>1, <1>5, <1>6, <1>9
    <3> QED BY <1>1, <1>9, <3>1, SubSeqIs
  <2>3. SubSeq(s, q + 1, Len(s)) = t
    <3>1. /\ q + 1 \in Nat /\ Len(s) \in Nat /\ 1 <= q + 1 /\ q + 1 <= Len(s) + 1
          /\ Len(t) = Len(s) - (q + 1) + 1
      BY <1>1, <1>5, <1>9
    <3>2. ASSUME NEW i \in 1..Len(t)
          PROVE  s[(q + 1) + i - 1] = t[i]
      <4>1. /\ (q + 1) + i - 1 = Len(h) + n + i /\ Len(h) + n + i \in 1..(8 - 2 * d)
            /\ i \in 1..(Len(t) + 2 * d) /\ i <= Len(t)
        BY <1>1, <1>5
      <4> HIDE DEF q, s
      <4>2. s[Len(h) + n + i] = a[Len(h) + n + i]
        BY <1>9, <4>1
      <4>3. a[Len(h) + n + i] = (t \o g)[i]
        BY <1>6, <4>1
      <4> QED BY <1>4, <4>1, <4>2, <4>3
    <3> HIDE DEF q, s
    <3> DEFINE m == q + 1
               z == Len(s)
    <3>3. /\ m \in Nat /\ z \in Nat /\ 1 <= m /\ m <= z + 1 /\ z <= Len(s) /\ Len(t) = z - m + 1
          /\ \A i \in 1..Len(t) : s[m + i - 1] = t[i]
      BY <3>1, <3>2
    <3>4. s \in Seq(Group) /\ t \in Seq(Group)
      BY <1>1, <1>9
    <3> HIDE DEF m, z, s
    <3>5. SubSeq(s, m, z) = t
      BY <3>3, <3>4, SubSeqIs
    <3> QED BY <3>5 DEF m, z
  <2>4. Elided(s, o, p, q) \in Spellings(a)
    <3>1. <<p, q>> \in Runs(s)
      BY <2>1 DEF Runs
    <3> HIDE DEF p, q
    <3> QED BY <1>1, <1>8, <3>1, IsSpelling
  <2> QED BY <1>1, <2>2, <2>3, <2>4 DEF Elided
<1> QED BY <1>7, <1>10 DEF a

\* expandIPv6 (ipRanges.ts:96-128) gives eight groups for every text that isIPv6 lets
\* through, and the text is one of the ways to write the address it gives: the
\* address that is judged is the one the socket will be handed.
THEOREM ExpandsToWhatIsWritten ==
  ASSUME NEW text, IsIPv6(text)
  PROVE  expandIPv6(text) \in IPv6Address /\ text \in Spellings(expandIPv6(text))
  BY FullSpelling, ElidedSpelling

-----------------------------------------------------------------------------
(* The invariant of a check.                                               *)

Vetted(addresses) == addresses \subseteq Address /\ \A a \in addresses : isPubliclyRoutable(a)

\* The counters, and the URL once there is one.
CheckTypes ==
  /\ phase \in {"idle", "resolving", "connecting", "waiting", "draining", "done"}
  /\ phase # "idle" => url \in Urls
  /\ dns \subseteq Address
  /\ elapsed \in Nat /\ seen \in Nat
  /\ phase # "done" => seen <= MaxBytes

\* What was approved was judged whole, the peer is one of it, and of a literal host
\* there is nothing else to approve.
PeerIsApproved ==
  /\ Vetted(approved)
  /\ approved # {} => phase \notin {"idle", "resolving"}
                      /\ (IsLiteral(url) => approved = {LiteralAddress(url)})
  /\ peer # NoAddress => peer \in approved
  /\ phase \in {"waiting", "draining"} => peer # NoAddress

\* The timer is armed between the resolution and the return, and never missed.
TimerIsPunctual ==
  /\ phase \in {"idle", "resolving"} => armedAt = -1 /\ elapsed <= MaxResolve
  /\ phase \in {"connecting", "waiting", "draining"} =>
        armedAt \in Nat /\ armedAt <= MaxResolve /\ elapsed <= armedAt + Budget
  /\ phase = "done" => armedAt = -1 /\ elapsed <= MaxResolve + Budget

CheckInvariant ==
  /\ CheckTypes /\ PeerIsApproved /\ TimerIsPunctual
  /\ phase # "done" => verdict = NoVerdict
  /\ VerdictRestsOnAnswer

LEMMA CheckStarts == HcInit => CheckInvariant
  BY BudgetAssumption DEF HcInit, CheckInvariant, CheckTypes, PeerIsApproved, TimerIsPunctual,
     VerdictRestsOnAnswer, Vetted, NoAddress, NoVerdict

\* What a literal host spells is an address, and the text is one of its spellings.
LEMMA LiteralIsSpelled ==
  ASSUME NEW u \in Urls, IsLiteral(u)
  PROVE  /\ LiteralAddress(u) \in Address
         /\ \/ u.literal.octets = LiteralAddress(u)
            \/ ~IsIPv4(LiteralAddress(u)) /\ u.literal.text \in Spellings(LiteralAddress(u))
<1>1. CASE u.literal.octets \in IPv4Address
  <2>1. u.literal.octets # <<>>
    BY <1>1, WidthOf
  <2> QED BY <1>1, <2>1 DEF LiteralAddress, Address
<1>2. CASE u.literal.octets = <<>> /\ IsIPv6(u.literal.text)
  <2>1. LiteralAddress(u) = expandIPv6(u.literal.text)
    BY <1>2 DEF LiteralAddress
  <2>2. LiteralAddress(u) \in IPv6Address /\ u.literal.text \in Spellings(LiteralAddress(u))
    BY <1>2, <2>1, ExpandsToWhatIsWritten
  <2> QED BY <2>2, WidthOf DEF Address
<1> QED BY <1>1, <1>2, AddressAssumption DEF IsLiteral

\* The socket, from the invariant.
LEMMA VettedSocket == CheckInvariant => SocketReachesVettedAddress
<1> SUFFICES ASSUME CheckInvariant, peer # NoAddress
             PROVE  /\ peer \in approved
                    /\ \A a \in approved, range \in ReservedRanges : ~Between(a, range)
                    /\ IsLiteral(url) => \/ url.literal.octets = peer
                                         \/ ~IsIPv4(peer) /\ url.literal.text \in Spellings(peer)
  BY DEF SocketReachesVettedAddress
<1>1. peer \in approved /\ Vetted(approved)
  BY DEF CheckInvariant, PeerIsApproved
<1>2. \A a \in approved, range \in ReservedRanges : ~Between(a, range)
  BY <1>1, PublicIsUnreserved DEF Vetted
<1>3. ASSUME IsLiteral(url)
      PROVE  \/ url.literal.octets = peer
             \/ ~IsIPv4(peer) /\ url.literal.text \in Spellings(peer)
  <2>1. url \in Urls /\ peer = LiteralAddress(url)
    BY <1>1, <1>3 DEF CheckInvariant, CheckTypes, PeerIsApproved
  <2> QED BY <1>3, <2>1, LiteralIsSpelled
<1> QED BY <1>1, <1>2, <1>3

\* Whatever ends a check keeps the invariant, if its verdict, when it has a status,
\* has that of the headers and says of the body whether it went past the cap.
LEMMA Concludes ==
  ASSUME CheckInvariant, phase \in {"resolving", "connecting", "waiting", "draining"},
         NEW v, Conclude(v), v.at = elapsed, seen' \in Nat,
         v.outcome = "UP" \/ v.status # 0 =>
           /\ phase = "draining" /\ v.status = response.status
           /\ seen' > MaxBytes <=> v.kind = "RESPONSE_TOO_LARGE",
         v.outcome = "UP" => response.status \in 200..299
  PROVE  CheckInvariant'
<1>1. /\ phase' = "done" /\ verdict' = v /\ armedAt' = -1
      /\ UNCHANGED <<dns, url, approved, peer, elapsed, response>>
  BY DEF Conclude
<1>2. CheckTypes'
  BY <1>1 DEF CheckInvariant, CheckTypes
<1>3. PeerIsApproved'
  BY <1>1 DEF CheckInvariant, PeerIsApproved, Vetted, IsLiteral, LiteralAddress
<1>4. elapsed <= MaxResolve + Budget
  BY BudgetAssumption DEF CheckInvariant, CheckTypes, TimerIsPunctual
<1>5. TimerIsPunctual'
  BY <1>1, <1>4 DEF TimerIsPunctual
<1>6. VerdictRestsOnAnswer'
  BY <1>1, <1>4 DEF CheckInvariant, CheckTypes, PeerIsApproved, VerdictRestsOnAnswer
<1> QED BY <1>1, <1>2, <1>3, <1>5, <1>6 DEF CheckInvariant

\* The returns that leave the body below the cap.
LEMMA Refuses ==
  ASSUME CheckInvariant, phase \in {"resolving", "connecting", "waiting", "draining"},
         NEW v, Return(v), v.at = elapsed,
         v.outcome = "UP" \/ v.status # 0 =>
           /\ phase = "draining" /\ v.status = response.status
           /\ v.kind # "RESPONSE_TOO_LARGE",
         v.outcome = "UP" => response.status \in 200..299
  PROVE  CheckInvariant'
<1>1. Conclude(v) /\ seen' = seen
  BY DEF Return
<1>2. seen' \in Nat /\ ~(seen' > MaxBytes)
  BY <1>1, BudgetAssumption DEF CheckInvariant, CheckTypes
<1> QED BY <1>1, <1>2, Concludes

LEMMA Verdicts ==
  /\ \A kind, status : LET v == Down(kind, status)
                       IN  v.outcome # "UP" /\ v.kind = kind /\ v.status = status /\ v.at = elapsed
  /\ \A status : LET v == StatusVerdict(status)
                 IN  /\ v.outcome = "UP" => status \in 200..299
                     /\ v.kind # "RESPONSE_TOO_LARGE"
                     /\ v.status = status /\ v.at = elapsed
  BY DEF Down, StatusVerdict

LEMMA CheckSteps ==
  ASSUME CheckInvariant, NEW u \in Urls, Check(u)
  PROVE  CheckInvariant'
<1>1. /\ phase = "idle" /\ url' = u /\ UNCHANGED <<dns, approved, peer, elapsed, armedAt, response, seen>>
      /\ \/ phase' = "resolving" /\ UNCHANGED verdict
         \/ phase' = "done" /\ \E code : verdict' = Down(GUARD_CODE_TO_FAILURE(code), 0)
  BY DEF Check
<1>2. approved = {} /\ peer = NoAddress /\ armedAt = -1 /\ elapsed <= MaxResolve /\ verdict = NoVerdict
  BY <1>1 DEF CheckInvariant, PeerIsApproved, TimerIsPunctual
<1>3. CheckTypes' /\ PeerIsApproved'
  BY <1>1, <1>2 DEF CheckInvariant, CheckTypes, PeerIsApproved, Vetted
<1>4. TimerIsPunctual'
  BY <1>1, <1>2, BudgetAssumption DEF CheckInvariant, CheckTypes, TimerIsPunctual
<1>5. VerdictRestsOnAnswer' /\ (phase' # "done" => verdict' = NoVerdict)
  <2>1. elapsed' <= MaxResolve + Budget
    BY <1>1, <1>2, BudgetAssumption DEF CheckInvariant, CheckTypes
  <2>2. CASE phase' = "resolving" /\ UNCHANGED verdict
    BY <1>2, <2>2 DEF VerdictRestsOnAnswer
  <2>3. CASE phase' = "done" /\ \E code : verdict' = Down(GUARD_CODE_TO_FAILURE(code), 0)
    <3>1. verdict'.outcome # "UP" /\ verdict'.status = 0 /\ verdict'.at = elapsed'
      BY <1>1, <2>3, Verdicts
    <3> QED BY <2>1, <2>3, <3>1 DEF VerdictRestsOnAnswer
  <2> QED BY <1>1, <2>2, <2>3
<1> QED BY <1>3, <1>4, <1>5 DEF CheckInvariant

\* The answer is judged whole: every address of it is an address and public.
LEMMA ResolvedSteps ==
  ASSUME CheckInvariant, Resolved
  PROVE  CheckInvariant'
<1>1. phase = "resolving" /\ url \in Urls /\ verdict = NoVerdict /\ armedAt = -1
      /\ elapsed \in Nat /\ elapsed <= MaxResolve /\ peer = NoAddress
  <2>1. phase = "resolving"
    BY DEF Resolved
  <2> QED BY <2>1 DEF CheckInvariant, CheckTypes, PeerIsApproved, TimerIsPunctual
<1>2. CASE checkAnswers(Answers) = "ok"
  <2>1. /\ phase' = "connecting" /\ approved' = Answers /\ armedAt' = elapsed
        /\ UNCHANGED <<dns, url, peer, elapsed, response, seen, verdict>>
    BY <1>2 DEF Resolved
  <2>2. Answers \subseteq Address
    BY <1>1, LiteralIsSpelled DEF Answers, CheckInvariant, CheckTypes
  <2>3. \A a \in Answers : isPubliclyRoutable(a)
    BY <1>2 DEF checkAnswers
  <2>4. IsLiteral(url)' => approved' = {LiteralAddress(url)}'
    BY <2>1 DEF Answers, IsLiteral, LiteralAddress
  <2>5. Vetted(approved)'
    BY <2>1, <2>2, <2>3 DEF Vetted
  <2>6. PeerIsApproved'
    BY <1>1, <2>1, <2>4, <2>5 DEF PeerIsApproved
  <2>7. CheckTypes'
    BY <1>1, <2>1 DEF CheckInvariant, CheckTypes
  <2>8. TimerIsPunctual'
    BY <1>1, <2>1, BudgetAssumption DEF TimerIsPunctual
  <2> QED BY <1>1, <2>1, <2>6, <2>7, <2>8 DEF CheckInvariant, VerdictRestsOnAnswer
<1>3. CASE checkAnswers(Answers) # "ok"
  <2>1. Return(Down(GUARD_CODE_TO_FAILURE(checkAnswers(Answers)), 0))
    BY <1>3 DEF Resolved
  <2> QED BY <1>1, <2>1, Refuses, Verdicts
<1> QED BY <1>2, <1>3

LEMMA ConnectSteps ==
  ASSUME CheckInvariant, NEW family, Connect(family)
  PROVE  CheckInvariant'
<1>1. /\ phase = "connecting" /\ peer' \in approved /\ phase' = "waiting"
      /\ UNCHANGED <<dns, url, approved, elapsed, armedAt, response, seen, verdict>>
  BY DEF Connect, pinnedLookup
<1>2. peer' \in Address
  BY <1>1 DEF CheckInvariant, PeerIsApproved, Vetted
<1>3. peer' # NoAddress
  BY <1>2, WidthOf DEF Address, NoAddress
<1>4. PeerIsApproved'
  BY <1>1, <1>3 DEF CheckInvariant, PeerIsApproved, Vetted, IsLiteral, LiteralAddress
<1> QED BY <1>1, <1>4 DEF CheckInvariant, CheckTypes, TimerIsPunctual, VerdictRestsOnAnswer

\* Steps that move neither the URL, the approval nor the peer.
LEMMA ApprovalStays ==
  ASSUME PeerIsApproved, UNCHANGED <<url, approved, peer>>,
         phase' \in {"waiting", "draining"} => phase \in {"waiting", "draining"},
         phase' \in {"idle", "resolving"} => phase \in {"idle", "resolving"}
  PROVE  PeerIsApproved'
  BY DEF PeerIsApproved, Vetted, IsLiteral, LiteralAddress

LEMMA HeadersSteps ==
  ASSUME CheckInvariant, NEW status, Headers(status)
  PROVE  CheckInvariant'
<1>1. /\ phase = "waiting" /\ phase' = "draining" /\ verdict = NoVerdict
      /\ UNCHANGED <<dns, url, approved, peer, elapsed, armedAt, seen, verdict>>
  BY DEF Headers, CheckInvariant
<1>2. PeerIsApproved'
  BY <1>1, ApprovalStays DEF CheckInvariant
<1> QED BY <1>1, <1>2 DEF CheckInvariant, CheckTypes, TimerIsPunctual, VerdictRestsOnAnswer

LEMMA ChunkSteps ==
  ASSUME CheckInvariant, NEW n \in Chunks, Chunk(n)
  PROVE  CheckInvariant'
<1>1. CASE TooLarge(n)
  <2>1. phase = "draining" /\ seen' = seen + n
        /\ Conclude(Down("RESPONSE_TOO_LARGE", response.status))
    BY <1>1 DEF Chunk
  <2>2. seen' \in Nat /\ seen' > MaxBytes
    BY <1>1, <2>1, BudgetAssumption DEF TooLarge, CheckInvariant, CheckTypes
  <2> QED BY <2>1, <2>2, Concludes, Verdicts
<1>2. CASE ~TooLarge(n)
  <2>1. /\ phase = "draining" /\ seen' = seen + n
        /\ UNCHANGED <<dns, url, phase, approved, peer, elapsed, armedAt, response, verdict>>
    BY <1>2 DEF Chunk
  <2>2. seen' \in Nat /\ seen' <= MaxBytes
    BY <1>2, <2>1, BudgetAssumption DEF TooLarge, CheckInvariant, CheckTypes
  <2>3. PeerIsApproved'
    BY <2>1, ApprovalStays DEF CheckInvariant
  <2> QED BY <2>1, <2>2, <2>3 DEF CheckInvariant, CheckTypes, TimerIsPunctual, VerdictRestsOnAnswer
<1> QED BY <1>1, <1>2

LEMMA BudgetSteps ==
  ASSUME CheckInvariant, BudgetSpent
  PROVE  CheckInvariant'
<1>1. phase \in {"connecting", "waiting", "draining"}
  BY DEF BudgetSpent, CheckInvariant, CheckTypes, TimerIsPunctual
<1>2. CASE phase = "draining"
  BY <1>2, Refuses, Verdicts DEF BudgetSpent
<1>3. CASE phase # "draining"
  BY <1>1, <1>3, Refuses, Verdicts DEF BudgetSpent
<1> QED BY <1>2, <1>3

LEMMA TimeSteps ==
  ASSUME CheckInvariant, TimePasses
  PROVE  CheckInvariant'
<1>1. /\ phase \in {"resolving", "connecting", "waiting", "draining"} /\ elapsed' = elapsed + 1
      /\ phase = "resolving" => elapsed < MaxResolve
      /\ armedAt # -1 => elapsed < armedAt + Budget
      /\ UNCHANGED <<dns, url, phase, approved, peer, armedAt, response, seen, verdict>>
      /\ verdict = NoVerdict
  BY DEF TimePasses, CheckInvariant, CheckTypes
<1>2. TimerIsPunctual' /\ elapsed' \in Nat
  BY <1>1, BudgetAssumption DEF CheckInvariant, CheckTypes, TimerIsPunctual
<1>3. PeerIsApproved'
  BY <1>1, ApprovalStays DEF CheckInvariant
<1> QED BY <1>1, <1>2, <1>3 DEF CheckInvariant, CheckTypes, VerdictRestsOnAnswer

LEMMA RebindSteps ==
  ASSUME CheckInvariant, Rebind
  PROVE  CheckInvariant'
<1>1. /\ dns' \subseteq Address
      /\ UNCHANGED <<url, phase, approved, peer, elapsed, armedAt, response, seen, verdict>>
  BY AddressAssumption DEF Rebind
<1>2. PeerIsApproved'
  BY <1>1, ApprovalStays DEF CheckInvariant
<1> QED BY <1>1, <1>2 DEF CheckInvariant, CheckTypes, TimerIsPunctual, VerdictRestsOnAnswer

LEMMA StandsStill ==
  ASSUME CheckInvariant, UNCHANGED hcVars
  PROVE  CheckInvariant'
<1>1. PeerIsApproved'
  BY ApprovalStays DEF CheckInvariant, hcVars
<1> QED BY <1>1 DEF CheckInvariant, CheckTypes, TimerIsPunctual, VerdictRestsOnAnswer, hcVars

LEMMA CheckKeepsInvariant == CheckInvariant /\ [HcNext]_hcVars => CheckInvariant'
<1> SUFFICES ASSUME CheckInvariant, [HcNext]_hcVars PROVE CheckInvariant'
  OBVIOUS
<1>1. CASE \E u \in Urls : Check(u)
  BY <1>1, CheckSteps
<1>2. CASE Resolved
  BY <1>2, ResolvedSteps
<1>3. CASE ResolutionFails
  BY <1>3, Refuses, Verdicts DEF ResolutionFails
<1>4. CASE \E family \in {0, 4, 6} : Connect(family)
  BY <1>4, ConnectSteps
<1>5. CASE \E chain \in ErrorChains : RequestFails(chain)
  BY <1>5, Refuses, Verdicts DEF RequestFails
<1>6. CASE \E status \in Statuses : Headers(status)
  BY <1>6, HeadersSteps
<1>7. CASE \E n \in Chunks : Chunk(n)
  BY <1>7, ChunkSteps
<1>8. CASE BodyEnds
  BY <1>8, Refuses, Verdicts DEF BodyEnds
<1>9. CASE BudgetSpent
  BY <1>9, BudgetSteps
<1>10. CASE TimePasses
  BY <1>10, TimeSteps
<1>11. CASE Rebind
  BY <1>11, RebindSteps
<1>12. CASE UNCHANGED hcVars
  BY <1>12, StandsStill
<1> QED BY <1>1, <1>2, <1>3, <1>4, <1>5, <1>6, <1>7, <1>8, <1>9, <1>10, <1>11, <1>12 DEF HcNext

THEOREM CheckInvariantHolds == HcSpec => []CheckInvariant
  BY CheckStarts, CheckKeepsInvariant, PTL DEF HcSpec

\* urlGuard.ts:12-20, for every URL, every answer and every order of the two: the socket
\* only reaches an address that was judged public with its whole answer, which for a
\* literal host is the address its text spells.
THEOREM SocketIsVetted == HcSpec => []SocketReachesVettedAddress
  BY CheckInvariantHolds, VettedSocket, PTL

\* httpCheck.ts:170-250, for every cap, budget and body: a verdict with a status rests on
\* headers of a vetted peer, says of its body whether it went past the cap, and is
\* there in time.
THEOREM VerdictIsFounded == HcSpec => []VerdictRestsOnAnswer
<1>1. CheckInvariant => VerdictRestsOnAnswer
  BY DEF CheckInvariant
<1> QED BY <1>1, CheckInvariantHolds, PTL
=============================================================================
