----------------------------- MODULE TextProofs -----------------------------
(***************************************************************************)
(* Strings of any length, of any code units, and any bytes: the reader     *)
(* stays inside its input and its output, and the two passes of each       *)
(* conversion agree on the size of the buffer.                             *)
(***************************************************************************)
EXTENDS Text, WellFoundedInduction, SequenceTheorems, TLAPS

Octets == 0..MaxByte
Units16 == 0..MaxUnit
CodePoints == 0..MaxCodePoint

-----------------------------------------------------------------------------
(* Induction over data, by the least counterexample *)

LEMMA Least ==
  ASSUME NEW T \in SUBSET Nat, T # {}
  PROVE  \E m \in T : \A k \in T : m <= k
<1>1. PICK m \in T : \A k \in T : <<k, m>> \notin OpToRel(<, Nat)
  BY NatLessThanWellFounded, WFMin
<1>2. ASSUME NEW k \in T PROVE m <= k
  <2>1. <<k, m>> \notin OpToRel(<, Nat)
    BY <1>1
  <2>2. ~(k < m)
    BY <2>1, Zenon DEF OpToRel
  <2> QED
    BY <2>2
<1> QED
  BY <1>2

(* A function that is defined from its last argument down exists: what is   *)
(* left to pay when each position costs something and leads to a later one. *)
IsWay(n, cost, jump) ==
  /\ n \in Nat /\ cost \in [0..(n - 1) -> Nat]
  /\ \A k \in 0..(n - 1) : k + jump[k] \in (k + 1)..n

IsRest(n, cost, jump, rest) ==
  /\ rest \in [0..n -> Nat] /\ rest[n] = 0
  /\ \A k \in 0..(n - 1) : rest[k] = cost[k] + rest[k + jump[k]]

LEMMA Remaining ==
  ASSUME NEW n, NEW cost, NEW jump, IsWay(n, cost, jump)
  PROVE  \E rest : IsRest(n, cost, jump, rest)
<1> USE DEF IsWay, IsRest
<1> DEFINE From(m, rest) ==
             /\ rest \in [m..n -> Nat] /\ rest[n] = 0
             /\ \A k \in m..(n - 1) : rest[k] = cost[k] + rest[k + jump[k]]
           Has(m) == \E rest : From(m, rest)
           bad == {l \in 0..n : ~Has(n - l)}
<1>1. SUFFICES bad = {}
  <2> HIDE DEF Has
  <2>1. n \notin bad
    BY <1>1
  <2>2. Has(n - n) /\ n - n = 0
    BY <2>1
  <2> USE DEF Has
  <2> QED
    BY <2>2
<1>2. SUFFICES ASSUME NEW l \in bad, \A k \in bad : l <= k PROVE FALSE
  BY Least, bad \in SUBSET Nat
<1>3. l \in 0..n /\ ~Has(n - l)
  OBVIOUS
<1>4. l # 0
  <2>1. From(n, [k \in n..n |-> 0])
    OBVIOUS
  <2>2. Has(n)
    BY <2>1
  <2>3. n - 0 = n
    OBVIOUS
  <2> HIDE DEF bad, Has
  <2> QED
    BY <1>3, <2>2, <2>3
<1> DEFINE f == n - l
<1>5. f \in 0..(n - 1) /\ f + 1 = n - (l - 1) /\ l - 1 \in 0..n
  BY <1>3, <1>4
<1>6. Has(f + 1)
  <2> HIDE DEF bad
  <2>1. l - 1 \notin bad
    BY <1>3, <1>2, <1>5
  <2> USE DEF bad
  <2>2. Has(n - (l - 1))
    BY <1>5, <2>1
  <2> QED
    BY <1>5, <2>2
<1>7. ~Has(f)
  BY <1>3
<1> HIDE DEF bad, f, Has
<1>8. PICK rest : From(f + 1, rest)
  BY <1>6 DEF Has
<1>9. f + jump[f] \in (f + 1)..n
  BY <1>5
<1> DEFINE more == [k \in f..n |-> IF k = f THEN cost[f] + rest[f + jump[f]] ELSE rest[k]]
<1>10. rest[f + jump[f]] \in Nat /\ cost[f] \in Nat
  BY <1>5, <1>8, <1>9
<1>11. more \in [f..n -> Nat] /\ more[n] = 0
  <2>1. f \in Nat /\ f < n /\ n \in Nat
    BY <1>5
  <2>2. rest \in [(f + 1)..n -> Nat] /\ rest[n] = 0
    BY <1>8
  <2>3. ASSUME NEW k \in f..n, k # f PROVE rest[k] \in Nat
    <3>1. k \in (f + 1)..n
      BY <2>1, <2>3
    <3> QED
      BY <2>2, <3>1
  <2> QED
    BY <1>10, <2>1, <2>2, <2>3
<1>12. ASSUME NEW k \in f..(n - 1) PROVE more[k] = cost[k] + more[k + jump[k]]
  <2>1. k \in 0..(n - 1) /\ k + jump[k] \in (k + 1)..n
    BY <1>5
  <2>2. k + jump[k] # f /\ k + jump[k] \in f..n /\ k \in f..n
    BY <1>5, <2>1
  <2>3. more[k + jump[k]] = rest[k + jump[k]]
    BY <2>2
  <2>4. CASE k = f
    BY <2>2, <2>3, <2>4
  <2>5. CASE k # f
    <3>1. k \in (f + 1)..(n - 1)
      BY <1>5, <2>5
    <3>2. rest[k] = cost[k] + rest[k + jump[k]]
      BY <1>8, <3>1
    <3> QED
      BY <2>2, <2>3, <2>5, <3>2
  <2> QED
    BY <2>4, <2>5
<1>13. From(f, more)
  BY <1>11, <1>12
<1> QED
  BY <1>7, <1>13 DEF Has

LEMMA FlattenExists ==
  ASSUME NEW ss, NEW n \in Nat
  PROVE  \E g : g = [k \in 1..n |-> IF k = 1 THEN ss[k] ELSE g[k - 1] \o ss[k]]
<1> DEFINE Flat(g, m) == g = [k \in 1..m |-> IF k = 1 THEN ss[k] ELSE g[k - 1] \o ss[k]]
           bad == {m \in Nat : ~ \E g : Flat(g, m)}
<1>1. SUFFICES bad = {}
  BY <1>1
<1>2. SUFFICES ASSUME NEW m \in bad, \A k \in bad : m <= k PROVE FALSE
  BY Least, bad \in SUBSET Nat
<1>3. m # 0
  <2> DEFINE none == [k \in 1..0 |-> 0]
  <2>1. \A g : [k \in 1..0 |-> IF k = 1 THEN ss[k] ELSE g[k - 1] \o ss[k]] = none
    OBVIOUS
  <2>2. Flat(none, 0)
    BY <2>1
  <2> QED
    BY <2>2
<1>4. m - 1 \in Nat /\ m - 1 \notin bad
  <2>1. m \in Nat /\ m - 1 \in Nat
    BY <1>3
  <2> HIDE DEF bad
  <2> QED
    BY <1>2, <2>1
<1>5. PICK g : Flat(g, m - 1)
  BY <1>4
<1> DEFINE h == [k \in 1..m |-> IF k = m THEN (IF m = 1 THEN ss[m] ELSE g[m - 1] \o ss[m]) ELSE g[k]]
<1>6. ASSUME NEW k \in 1..m PROVE h[k] = IF k = 1 THEN ss[k] ELSE h[k - 1] \o ss[k]
  <2>1. CASE k = m
    BY <1>3, <2>1
  <2>2. CASE k # m
    <3>1. k \in 1..(m - 1)
      BY <2>2
    <3>2. g[k] = IF k = 1 THEN ss[k] ELSE g[k - 1] \o ss[k]
      BY <1>5, <3>1
    <3> QED
      BY <3>1, <3>2
  <2> QED
    BY <2>1, <2>2
<1>7. Flat(h, m)
  BY <1>6
<1> QED
  BY <1>2, <1>7

LEMMA FlattenType ==
  ASSUME NEW S, NEW ss \in Seq(Seq(S))
  PROVE  FlattenSeq(ss) \in Seq(S)
<1> DEFINE n == Len(ss)
           Flat(g) == g = [k \in 1..n |-> IF k = 1 THEN ss[k] ELSE g[k - 1] \o ss[k]]
           flatten == CHOOSE g : Flat(g)
<1>1. CASE n = 0
  BY <1>1 DEF FlattenSeq
<1>2. CASE n # 0
  <2>1. FlattenSeq(ss) = flatten[n]
    BY <1>2 DEF FlattenSeq
  <2>2. Flat(flatten)
    <3>1. n \in Nat
      OBVIOUS
    <3>2. \E g : Flat(g)
      BY <3>1, FlattenExists
    <3> QED
      BY <3>2
  <2> HIDE DEF flatten
  <2> DEFINE bad == {k \in 1..n : flatten[k] \notin Seq(S)}
  <2>3. SUFFICES bad = {}
    BY <1>2, <2>1, <2>3
  <2>4. SUFFICES ASSUME NEW m \in bad, \A k \in bad : m <= k PROVE FALSE
    BY Least, bad \in SUBSET Nat
  <2>5. flatten[m] = IF m = 1 THEN ss[m] ELSE flatten[m - 1] \o ss[m]
    BY <2>2
  <2>6. ss[m] \in Seq(S)
    OBVIOUS
  <2>7. m # 1 => flatten[m - 1] \in Seq(S)
    BY <2>4
  <2>8. m # 1 => flatten[m - 1] \o ss[m] \in Seq(S)
    BY <2>6, <2>7, ConcatProperties
  <2>9. flatten[m] \in Seq(S)
    BY <2>5, <2>6, <2>8
  <2> QED
    BY <2>9
<1> QED
  BY <1>1, <1>2

-----------------------------------------------------------------------------
(* Coding *)

(* The numbers behind names, and by their order only: the prover takes a    *)
(* range between two known numbers apart into its elements.                 *)
LEMMA Sizes ==
  /\ MaxByte \in Nat /\ MaxByte >= 255 /\ MaxByte < 256
  /\ MaxUnit \in Nat /\ MaxUnit >= 65535 /\ MaxUnit < 65536
  /\ MaxCodePoint \in Nat /\ MaxCodePoint >= 17 * 65536 - 1 /\ MaxCodePoint < 17 * 65536
  BY DEF MaxByte, MaxUnit, MaxCodePoint

LEMMA TrailType ==
  ASSUME NEW bits \in Nat
  PROVE  Trail(bits) \in Octets
<1>1. bits % 64 \in Nat /\ bits % 64 < 64
  OBVIOUS
<1> QED
  BY <1>1, Sizes DEF Trail, Octets

LEMMA Utf8Written ==
  ASSUME NEW cp \in CodePoints
  PROVE  write_utf8(cp) \in Seq(Octets) /\ Len(write_utf8(cp)) = utf8_len(cp)
<1>1. cp \in Nat /\ cp < 17 * 65536
  BY Sizes DEF CodePoints
<1>2. cp \div 64 \in Nat /\ cp \div 4096 \in Nat
  BY <1>1
<1>3. Trail(cp) \in Octets /\ Trail(cp \div 64) \in Octets /\ Trail(cp \div 4096) \in Octets
  BY <1>1, <1>2, TrailType
<1>4. CASE cp <= 127
  BY <1>1, <1>4, Sizes DEF write_utf8, utf8_len, Octets
<1>5. CASE cp > 127 /\ cp <= 2047
  <2>1. 192 + (cp \div 64) \in Octets
    BY <1>1, <1>5, Sizes DEF Octets
  <2>2. write_utf8(cp) = <<192 + (cp \div 64), Trail(cp)>> /\ utf8_len(cp) = 2
    BY <1>1, <1>5 DEF write_utf8, utf8_len
  <2> QED
    BY <1>3, <2>1, <2>2
<1>6. CASE cp > 2047 /\ cp <= 65535
  <2>1. 224 + (cp \div 4096) \in Octets
    BY <1>1, <1>6, Sizes DEF Octets
  <2>2. /\ write_utf8(cp) = <<224 + (cp \div 4096), Trail(cp \div 64), Trail(cp)>>
        /\ utf8_len(cp) = 3
    BY <1>1, <1>6 DEF write_utf8, utf8_len
  <2> QED
    BY <1>3, <2>1, <2>2
<1>7. CASE cp > 65535
  <2> DEFINE first == 240 + ((cp \div 4096) \div 64)
  <2>1. first \in Octets
    BY <1>1, <1>7, Sizes DEF Octets
  <2>2. /\ write_utf8(cp) = <<first, Trail(cp \div 4096), Trail(cp \div 64), Trail(cp)>>
        /\ utf8_len(cp) = 4
    BY <1>1, <1>7 DEF write_utf8, utf8_len
  <2> HIDE DEF first
  <2> QED
    BY <1>3, <2>1, <2>2
<1> QED
  BY <1>1, <1>4, <1>5, <1>6, <1>7

LEMMA CodePointType ==
  ASSUME NEW s \in Seq(Units16), NEW k \in 0..(Len(s) - 1)
  PROVE  /\ CodePoint(s, k) \in CodePoints
         /\ UnitsAt(s, k) \in Nat /\ k + UnitsAt(s, k) \in (k + 1)..Len(s)
<1>1. s[k + 1] \in Units16 /\ k + 1 \in (k + 1)..Len(s)
  OBVIOUS
<1>2. CASE PairAt(s, k)
  <2>1. k + 2 \in (k + 1)..Len(s) /\ IsHigh(s[k + 1]) /\ IsLow(s[k + 2])
    BY <1>2 DEF PairAt
  <2>2. s[k + 2] \in Units16
    BY <2>1
  <2>3. CodePoint(s, k) = 65536 + (s[k + 1] - 55296) * 1024 + (s[k + 2] - 56320)
    BY <1>2 DEF CodePoint
  <2>4. UnitsAt(s, k) = 2
    BY <1>2 DEF UnitsAt
  <2> DEFINE high == s[k + 1]
             low == s[k + 2]
  <2>5. high \in Nat /\ low \in Nat
    BY <1>1, <2>2, Sizes DEF Units16
  <2> HIDE DEF high, low
  <2>6. 65536 + (high - 55296) * 1024 + (low - 56320) \in CodePoints
    <3>1. high >= 55296 /\ high <= 56319 /\ low >= 56320 /\ low <= 57343
      BY <2>1 DEF IsHigh, IsLow, high, low
    <3> QED
      BY <2>5, <3>1, Sizes DEF CodePoints
  <2>7. CodePoint(s, k) \in CodePoints
    BY <2>3, <2>6 DEF high, low
  <2> QED
    BY <2>1, <2>4, <2>7
<1>3. CASE ~PairAt(s, k)
  <2>1. CodePoint(s, k) \in {replacement_codepoint, s[k + 1]}
    BY <1>3 DEF CodePoint
  <2>2. replacement_codepoint \in CodePoints
    BY Sizes DEF CodePoints, replacement_codepoint
  <2>3. \A u \in Units16 : u \in CodePoints
    BY Sizes DEF CodePoints, Units16
  <2>4. UnitsAt(s, k) = 1
    BY <1>3 DEF UnitsAt
  <2> QED
    BY <1>1, <2>1, <2>2, <2>3, <2>4
<1> QED
  BY <1>2, <1>3

LEMMA CStringType ==
  ASSUME NEW s \in Seq(Units16)
  PROVE  JS_ToCStringLen(s) \in Seq(Octets)
<1> DEFINE part == [k \in 1..Len(s) |->
              IF PairAt(s, k - 1) THEN write_utf8(CodePoint(s, k - 1))
              ELSE IF k > 1 /\ PairAt(s, k - 2) THEN << >> ELSE write_utf8(s[k])]
<1>1. ASSUME NEW k \in 1..Len(s) PROVE part[k] \in Seq(Octets)
  <2>1. k - 1 \in 0..(Len(s) - 1)
    BY <1>1
  <2>2. CodePoint(s, k - 1) \in CodePoints
    BY <2>1, CodePointType
  <2>3. s[k] \in CodePoints
    BY <1>1, Sizes DEF Units16, CodePoints
  <2>4. write_utf8(CodePoint(s, k - 1)) \in Seq(Octets) /\ write_utf8(s[k]) \in Seq(Octets)
    BY <2>2, <2>3, Utf8Written
  <2> QED
    BY <1>1, <2>4
<1>2. part \in Seq(Seq(Octets))
  <2> HIDE DEF part
  <2>1. part = [k \in 1..Len(s) |-> part[k]] /\ Len(s) \in Nat
    BY DEF part
  <2> QED
    BY <1>1, <2>1
<1>3. FlattenSeq(part) \in Seq(Octets)
  BY <1>2, FlattenType
<1> QED
  BY <1>3 DEF JS_ToCStringLen

LEMMA JCharsType ==
  ASSUME NEW cp \in CodePoints
  PROVE  /\ JChars(cp) \in Seq(Units16)
         /\ Len(JChars(cp)) = IF cp <= 65535 THEN 1 ELSE 2
<1>1. CASE cp <= 65535
  BY <1>1, Sizes DEF JChars, CodePoints, Units16
<1>2. CASE cp > 65535
  <2>1. /\ 55296 + ((cp - 65536) \div 1024) \in Units16
        /\ 56320 + ((cp - 65536) % 1024) \in Units16
    BY <1>2, Sizes DEF CodePoints, Units16
  <2> QED
    BY <1>2, <2>1, Sizes DEF JChars, CodePoints
<1> QED
  BY <1>1, <1>2, Sizes DEF CodePoints

(* read_utf8 moves on, stays inside len bytes, and takes two of them or     *)
(* more for what will be two code units.                                    *)
LEMMA ReadMoves ==
  ASSUME bytes \in Seq(Octets), i \in Nat, NEW len \in Nat, i < len
  PROVE  /\ read_utf8(len).cp \in CodePoints
         /\ read_utf8(len).index \in (i + 1)..len
         /\ read_utf8(len).cp > 65535 => read_utf8(len).index >= i + 2
<1> DEFINE c == ByteAt(i + 1)
           j == i + 1
           bad == {k \in 1..Lead(c).extra : ~IsTrail(ByteAt(j + k))}
           first == CHOOSE k \in bad : \A l \in bad : k <= l
<1>1. \A k \in Nat \ {0} : ByteAt(k) \in Octets
  BY Sizes DEF ByteAt, Octets
<1>0. c \in Nat
  BY <1>1, Sizes DEF Octets
<1>2. replacement_codepoint \in CodePoints /\ replacement_codepoint <= 65535
  BY Sizes DEF replacement_codepoint, CodePoints
<1>3. CASE c < 128
  BY <1>1, <1>3, Sizes DEF read_utf8, Read, Octets, CodePoints
<1>4. CASE ~(c < 128) /\ (c < 192 \/ c > 247 \/ Truncated(j, Lead(c).extra, len))
  <2>1. read_utf8(len) = Read(replacement_codepoint, j)
    BY <1>0, <1>4 DEF read_utf8
  <2> QED
    BY <1>2, <2>1, Sizes DEF Read, CodePoints
<1>5. CASE ~(c < 128) /\ c >= 192 /\ c <= 247 /\ ~Truncated(j, Lead(c).extra, len)
  <2>1. /\ Lead(c).extra \in 1..3 /\ Lead(c).bits \in Nat
        /\ Lead(c).min_cp \in Nat
    BY <1>0, <1>5 DEF Lead
  <2>2. j + Lead(c).extra <= len
    BY <1>5, <2>1 DEF Truncated
  <2>3. CASE bad = {}
    <3>1. read_utf8(len) = Read(Decoded(Lead(c), j), j + Lead(c).extra)
      BY <1>0, <1>5, <2>3 DEF read_utf8
    <3>2. Decoded(Lead(c), j) \in CodePoints
      <4> DEFINE Add(cp, k) == cp * 64 + (ByteAt(j + k) % 64)
                 one == Add(Lead(c).bits, 1)
                 two == IF Lead(c).extra = 1 THEN one ELSE Add(one, 2)
                 cp == IF Lead(c).extra = 3 THEN Add(two, 3) ELSE two
      <4>1. ASSUME NEW x \in Nat, NEW k \in 1..3 PROVE Add(x, k) \in Nat
        BY <1>1, Sizes DEF Octets
      <4>2. cp \in Nat
        <5>1. one \in Nat
          BY <2>1, <4>1
        <5>2. two \in Nat
          BY <4>1, <5>1
        <5> HIDE DEF two
        <5>3. Add(two, 3) \in Nat
          BY <4>1, <5>2
        <5> QED
          BY <5>2, <5>3
      <4>3. Decoded(Lead(c), j) = IF Accepted(cp, Lead(c).min_cp) THEN cp ELSE replacement_codepoint
        BY DEF Decoded
      <4> HIDE DEF cp
      <4> QED
        BY <1>2, <4>2, <4>3, Sizes DEF Accepted, CodePoints
    <3> QED
      BY <2>1, <2>2, <3>1, <3>2 DEF Read
  <2>4. CASE bad # {}
    <3>1. read_utf8(len) = Read(replacement_codepoint, j + first)
      <4>1. read_utf8(len) =
              IF c < 128 THEN Read(c, j)
              ELSE IF c < 192 \/ c > 247 \/ Truncated(j, Lead(c).extra, len)
              THEN Read(replacement_codepoint, j)
              ELSE IF bad = {} THEN Read(Decoded(Lead(c), j), j + Lead(c).extra)
              ELSE Read(replacement_codepoint, j + first)
        BY Zenon DEF read_utf8
      <4>2. ~(c < 128) /\ ~(c < 192 \/ c > 247)
        BY <1>0, <1>5
      <4>3. ~Truncated(j, Lead(c).extra, len)
        BY <1>5
      <4> HIDE DEF first, bad, c, j
      <4> QED
        BY <2>4, <4>1, <4>2, <4>3
    <3>2. bad \subseteq 1..3 /\ bad \in SUBSET Nat
      BY <2>1
    <3>3. \E k \in bad : \A l \in bad : k <= l
      BY <2>4, <3>2, Least
    <3>4. first \in bad
      BY <3>3
    <3>5. first \in 1..Lead(c).extra
      BY <3>4
    <3> HIDE DEF first, bad
    <3> QED
      BY <1>2, <2>1, <2>2, <3>1, <3>5 DEF Read
  <2> QED
    BY <2>3, <2>4
<1> QED
  BY <1>0, <1>3, <1>4, <1>5

LEMMA SeqOfType ==
  ASSUME NEW S, NEW T, S \subseteq T, NEW n \in Nat, NEW s \in SeqOf(S, n)
  PROVE  s \in Seq(T)
<1>1. PICK m \in 0..n : s \in [1..m -> S]
  BY DEF SeqOf
<1>2. m \in Nat /\ s = [k \in 1..m |-> s[k]] /\ \A k \in 1..m : s[k] \in T
  BY <1>1
<1> QED
  BY <1>2

LEMMA TextsType == Texts \subseteq Seq(Units16)
  BY SeqOfType, TextAssumption DEF Texts, Units16

-----------------------------------------------------------------------------
(* The reader stays inside *)

TextInv ==
  /\ route \in {"none", "java", "script", "memory", "console"}
  /\ stage \in {"idle", "measure", "write", "count", "format", "read", "done"}
  /\ i \in Nat /\ byte_len \in Nat /\ bytes \in Seq(Octets) /\ out \in Seq(Units16)
  /\ stage \notin {"read", "done"} => out = << >>
  /\ stage \in {"idle", "measure", "count"} => bytes = << >>
  /\ stage = "idle" => i = 0 /\ byte_len = 0
  /\ stage \in {"measure", "write"} => source \in Seq(Units16) /\ i <= Len(source)
  /\ stage \in {"count", "format"} => source \in Seq(Seq(Units16)) /\ i <= Len(source)
  /\ ReadsInside

LEMMA TextInitInv == TextInit => TextInv
<1> SUFFICES ASSUME TextInit PROVE TextInv
  OBVIOUS
<1>1. << >> \in Seq(Octets) /\ << >> \in Seq(Units16)
  OBVIOUS
<1> QED
  BY <1>1 DEF TextInit, TextInv, ReadsInside

LEMMA TextNextInv == TextInv /\ [TextNext]_textVars => TextInv'
<1> SUFFICES ASSUME TextInv, [TextNext]_textVars PROVE TextInv'
  OBVIOUS
<1> USE DEF TextInv, ReadsInside
<1>1. CASE FromJava
  <2>1. PICK s \in SeqOf(Units, MaxUnits) : source' = s
    BY <1>1 DEF FromJava
  <2>2. s \in Seq(Units16)
    BY <2>1, SeqOfType, TextAssumption DEF Units16
  <2>3. Len(s) \in Nat
    BY <2>2
  <2> QED
    BY <1>1, <2>1, <2>2, <2>3 DEF FromJava
<1>2. CASE Measure
  <2>1. CASE i < Len(source)
    <3>1. i \in 0..(Len(source) - 1)
      BY <1>2, <2>1 DEF Measure
    <3>2. CodePoint(source, i) \in CodePoints /\ i + UnitsAt(source, i) \in (i + 1)..Len(source)
      BY <1>2, <3>1, CodePointType DEF Measure
    <3>3. utf8_len(CodePoint(source, i)) \in Nat
      BY DEF utf8_len
    <3> QED
      BY <1>2, <2>1, <3>2, <3>3 DEF Measure
  <2>2. CASE ~(i < Len(source))
    BY <1>2, <2>2 DEF Measure
  <2> QED
    BY <2>1, <2>2
<1>3. CASE Write
  <2>1. CASE i < Len(source)
    <3>1. i \in 0..(Len(source) - 1)
      BY <1>3, <2>1 DEF Write
    <3>2. CodePoint(source, i) \in CodePoints /\ i + UnitsAt(source, i) \in (i + 1)..Len(source)
      BY <1>3, <3>1, CodePointType DEF Write
    <3>3. write_utf8(CodePoint(source, i)) \in Seq(Octets)
      BY <3>2, Utf8Written
    <3>4. bytes' \in Seq(Octets)
      <4>1. bytes' = bytes \o write_utf8(CodePoint(source, i)) /\ bytes \in Seq(Octets)
        BY <1>3, <2>1 DEF Write
      <4> QED
        BY <3>3, <4>1, ConcatProperties
    <3> QED
      BY <1>3, <2>1, <3>2, <3>4 DEF Write
  <2>2. CASE ~(i < Len(source))
    BY <1>3, <2>2 DEF Write
  <2> QED
    BY <2>1, <2>2
<1>4. CASE FromScript
  <2>1. PICK s \in SeqOf(Units, MaxUnits) :
          bytes' = JS_ToCStringLen(s) /\ byte_len' = Len(bytes')
    BY <1>4 DEF FromScript
  <2>2. s \in Seq(Units16)
    BY <2>1, SeqOfType, TextAssumption DEF Units16
  <2>3. bytes' \in Seq(Octets)
    BY <2>1, <2>2, CStringType
  <2>4. byte_len' \in Nat
    BY <2>1, <2>3
  <2> QED
    BY <1>4, <2>3, <2>4 DEF FromScript
<1>5. CASE FromMemory
  <2>1. PICK b \in SeqOf(Bytes, MaxBytes) : bytes' = b /\ byte_len' = Len(b)
    BY <1>5 DEF FromMemory
  <2>2. b \in Seq(Octets)
    BY <2>1, SeqOfType, TextAssumption DEF Octets
  <2>3. byte_len' \in Nat
    BY <2>1, <2>2
  <2> QED
    BY <1>5, <2>1, <2>2, <2>3 DEF FromMemory
<1>6. CASE FromConsole
  <2>1. PICK a \in SeqOf(Texts, MaxArgs) : source' = a
    BY <1>6 DEF FromConsole
  <2>2. a \in Seq(Seq(Units16))
    BY <2>1, SeqOfType, TextsType, TextAssumption
  <2>3. Len(a) \in Nat
    BY <2>2
  <2> QED
    BY <1>6, <2>1, <2>2, <2>3 DEF FromConsole
<1>7. CASE CountArg
  <2>1. CASE i < Len(source)
    <3>1. source[i + 1] \in Seq(Units16)
      BY <1>7, <2>1 DEF CountArg
    <3>2. JS_ToCStringLen(source[i + 1]) \in Seq(Octets)
      BY <3>1, CStringType
    <3>3. Len(JS_ToCStringLen(source[i + 1])) \in Nat
      BY <3>2
    <3> QED
      BY <1>7, <2>1, <3>3 DEF CountArg
  <2>2. CASE ~(i < Len(source))
    BY <1>7, <2>2 DEF CountArg
  <2> QED
    BY <2>1, <2>2
<1>8. CASE FormatArg
  <2>1. CASE i < Len(source)
    <3>1. PICK s \in Again(source[i + 1]) :
            bytes' = bytes \o (IF i > 0 THEN <<32>> ELSE << >>) \o JS_ToCStringLen(s)
      BY <1>8, <2>1 DEF FormatArg
    <3>2. s \in Seq(Units16)
      <4>1. source[i + 1] \in Seq(Units16)
        BY <1>8, <2>1 DEF FormatArg
      <4> QED
        BY <3>1, <4>1, TextsType DEF Again
    <3>3. JS_ToCStringLen(s) \in Seq(Octets)
      BY <3>2, CStringType
    <3>4. (IF i > 0 THEN <<32>> ELSE << >>) \in Seq(Octets)
      <4>1. 32 \in Octets
        BY Sizes DEF Octets
      <4> QED
        BY <4>1
    <3>5. bytes' \in Seq(Octets)
      BY <3>1, <3>3, <3>4, ConcatProperties
    <3> QED
      BY <1>8, <2>1, <3>5 DEF FormatArg
  <2>2. CASE ~(i < Len(source))
    BY <1>8, <2>2 DEF FormatArg
  <2> QED
    BY <2>1, <2>2
<1>9. CASE ReadPoint
  <2>1. CASE i < byte_len
    <3> DEFINE r == read_utf8(byte_len)
    <3>1. /\ r.cp \in CodePoints /\ r.index \in (i + 1)..byte_len
          /\ r.cp > 65535 => r.index >= i + 2
      BY <2>1, ReadMoves
    <3> HIDE DEF r
    <3>2. JChars(r.cp) \in Seq(Units16) /\ Len(JChars(r.cp)) = IF r.cp <= 65535 THEN 1 ELSE 2
      <4>1. PICK cp \in CodePoints : cp = r.cp
        BY <3>1
      <4>2. /\ JChars(cp) \in Seq(Units16)
            /\ Len(JChars(cp)) = IF cp <= 65535 THEN 1 ELSE 2
        BY JCharsType
      <4> QED
        BY <4>1, <4>2
    <3>3. out' = out \o JChars(r.cp) /\ i' = r.index
      BY <1>9, <2>1 DEF ReadPoint, r
    <3>4. out' \in Seq(Units16) /\ Len(out') = Len(out) + Len(JChars(r.cp))
      BY <3>2, <3>3, ConcatProperties
    <3>5. Len(out) <= i /\ Len(out) \in Nat
      BY <1>9 DEF ReadPoint
    <3>6. r.cp \in Nat
      BY <3>1, Sizes DEF CodePoints
    <3>7. i' \in Nat /\ i' <= byte_len /\ Len(out') <= i'
      <4>1. i \in Nat /\ byte_len \in Nat
        OBVIOUS
      <4>2. i' \in Nat /\ i' <= byte_len
        BY <3>1, <3>3, <4>1
      <4>3. Len(out') <= i'
        BY <3>1, <3>2, <3>3, <3>4, <3>5, <3>6, <4>1
      <4> QED
        BY <4>2, <4>3
    <3> QED
      BY <1>9, <2>1, <3>4, <3>7 DEF ReadPoint
  <2>2. CASE ~(i < byte_len)
    BY <1>9, <2>2 DEF ReadPoint
  <2> QED
    BY <2>1, <2>2
<1>10. CASE Done
  <2>1. << >> \in Seq(Octets) /\ << >> \in Seq(Units16)
    OBVIOUS
  <2> QED
    BY <1>10, <2>1 DEF Done
<1>11. CASE UNCHANGED textVars
  BY <1>11 DEF textVars
<1> QED
  BY <1>1, <1>2, <1>3, <1>4, <1>5, <1>6, <1>7, <1>8, <1>9, <1>10, <1>11 DEF TextNext

(* The inductive invariant, for every route a text can take                 *)
(* (qjs_util.c:69-197, qjs_console.c:41-84).                                *)
THEOREM TextInvariance == TextSpec => []TextInv
  BY TextInitInv, TextNextInv, PTL DEF TextSpec

(* Whatever is converted, each byte and each code unit fits its array       *)
(* (qjs_util.c:52-64, 189-193).                                             *)
THEOREM TextTypeCorrect == TextSpec => []TextTypeOK
<1>1. ASSUME TextInv PROVE TextTypeOK
  <2>1. \A k \in 1..Len(bytes) : bytes[k] \in 0..MaxByte
    <3>1. bytes \in Seq(Octets)
      BY <1>1 DEF TextInv
    <3>2. \A k \in 1..Len(bytes) : bytes[k] \in Octets
      BY <3>1
    <3> QED
      BY <3>2 DEF Octets
  <2>2. \A k \in 1..Len(out) : out[k] \in 0..MaxUnit
    <3>1. out \in Seq(Units16)
      BY <1>1 DEF TextInv
    <3>2. \A k \in 1..Len(out) : out[k] \in Units16
      BY <3>1
    <3> QED
      BY <3>2 DEF Units16
  <2> QED
    BY <1>1, <2>1, <2>2 DEF TextInv, TextTypeOK
<1> QED
  BY <1>1, TextInvariance, PTL

(* utf8_to_jstring reads and writes inside its two buffers for any bytes at *)
(* all, of any number (qjs_util.c:156, 183).                                *)
THEOREM ReaderStaysInside == TextSpec => []ReadsInside
<1>1. TextInv => ReadsInside
  BY DEF TextInv
<1> QED
  BY <1>1, TextInvariance, PTL

-----------------------------------------------------------------------------
(* The passes agree *)

(* What is left to write of a string from each of its positions, that of   *)
(* its arguments for a message.                                             *)
IsStringCost(s, rest) ==
  /\ rest \in [0..Len(s) -> Nat] /\ rest[Len(s)] = 0
  /\ \A k \in 0..(Len(s) - 1) :
       rest[k] = utf8_len(CodePoint(s, k)) + rest[k + UnitsAt(s, k)]

StringCost(s) == CHOOSE rest : IsStringCost(s, rest)

ArgCost(a, k) == Len(JS_ToCStringLen(a[k + 1])) + (IF k > 0 THEN 1 ELSE 0)

IsArgsCost(a, rest) ==
  /\ rest \in [0..Len(a) -> Nat] /\ rest[Len(a)] = 0
  /\ \A k \in 0..(Len(a) - 1) : rest[k] = ArgCost(a, k) + rest[k + 1]

ArgsCost(a) == CHOOSE rest : IsArgsCost(a, rest)

LEMMA StringCostExists ==
  ASSUME NEW s \in Seq(Units16)
  PROVE  IsStringCost(s, StringCost(s))
<1> DEFINE n == Len(s)
           cost == [k \in 0..(n - 1) |-> utf8_len(CodePoint(s, k))]
           jump == [k \in 0..(n - 1) |-> UnitsAt(s, k)]
<1>1. n \in Nat
  OBVIOUS
<1>2. cost \in [0..(n - 1) -> Nat]
  BY DEF utf8_len
<1>3. \A k \in 0..(n - 1) : k + jump[k] \in (k + 1)..n
  BY CodePointType
<1>4. PICK rest : IsRest(n, cost, jump, rest)
  <2> HIDE DEF n, cost, jump
  <2>1. IsWay(n, cost, jump)
    BY <1>1, <1>2, <1>3 DEF IsWay
  <2> QED
    BY <2>1, Remaining
<1>5. IsStringCost(s, rest)
  BY <1>4 DEF IsRest, IsStringCost
<1> QED
  BY <1>5 DEF StringCost

LEMMA ArgCostType ==
  ASSUME NEW a \in Seq(Seq(Units16)), NEW k \in 0..(Len(a) - 1)
  PROVE  Len(JS_ToCStringLen(a[k + 1])) \in Nat /\ ArgCost(a, k) \in Nat
<1>1. a[k + 1] \in Seq(Units16)
  OBVIOUS
<1>2. JS_ToCStringLen(a[k + 1]) \in Seq(Octets)
  BY <1>1, CStringType
<1>3. Len(JS_ToCStringLen(a[k + 1])) \in Nat
  BY <1>2
<1> QED
  BY <1>3 DEF ArgCost

LEMMA ArgsCostExists ==
  ASSUME NEW a \in Seq(Seq(Units16))
  PROVE  IsArgsCost(a, ArgsCost(a))
<1> DEFINE n == Len(a)
           cost == [k \in 0..(n - 1) |-> ArgCost(a, k)]
           jump == [k \in 0..(n - 1) |-> 1]
<1>1. n \in Nat
  OBVIOUS
<1>2. cost \in [0..(n - 1) -> Nat]
  BY ArgCostType
<1>3. \A k \in 0..(n - 1) : k + jump[k] \in (k + 1)..n
  BY <1>1
<1>4. PICK rest : IsRest(n, cost, jump, rest)
  <2> HIDE DEF n, cost, jump
  <2>1. IsWay(n, cost, jump)
    BY <1>1, <1>2, <1>3 DEF IsWay
  <2> QED
    BY <2>1, Remaining
<1>5. IsArgsCost(a, rest)
  BY <1>4 DEF IsRest, IsArgsCost
<1> QED
  BY <1>5 DEF ArgsCost

CountInv ==
  /\ stage = "measure" => byte_len + StringCost(source)[i] = StringCost(source)[0]
  /\ stage = "write" => /\ byte_len = StringCost(source)[0]
                        /\ Len(bytes) + StringCost(source)[i] = byte_len
  /\ stage = "count" => byte_len + ArgsCost(source)[i] = ArgsCost(source)[0]
  /\ stage = "format" => /\ byte_len = ArgsCost(source)[0]
                         /\ Len(bytes) + ArgsCost(source)[i] = byte_len
  /\ stage \in {"read", "done"} => Len(bytes) = byte_len

LEMMA CountNextInv ==
  ASSUME Steady, TextInv, CountInv, [TextNext]_textVars
  PROVE  CountInv'
<1>s. stage \in {"measure", "write"} =>
        /\ source \in Seq(Units16) /\ i \in 0..Len(source)
        /\ IsStringCost(source, StringCost(source))
        /\ StringCost(source)[i] \in Nat /\ StringCost(source)[0] \in Nat
  <2> SUFFICES ASSUME stage \in {"measure", "write"}
               PROVE  /\ source \in Seq(Units16) /\ i \in 0..Len(source)
                      /\ IsStringCost(source, StringCost(source))
                      /\ StringCost(source)[i] \in Nat /\ StringCost(source)[0] \in Nat
    OBVIOUS
  <2>1. source \in Seq(Units16) /\ i \in 0..Len(source) /\ 0 \in 0..Len(source)
    BY DEF TextInv
  <2>2. IsStringCost(source, StringCost(source))
    BY <2>1, StringCostExists
  <2>3. StringCost(source) \in [0..Len(source) -> Nat]
    BY <2>2 DEF IsStringCost
  <2> QED
    BY <2>1, <2>2, <2>3
<1>a. stage \in {"count", "format"} =>
        /\ source \in Seq(Seq(Units16)) /\ i \in 0..Len(source)
        /\ IsArgsCost(source, ArgsCost(source))
        /\ ArgsCost(source)[i] \in Nat /\ ArgsCost(source)[0] \in Nat
  <2> SUFFICES ASSUME stage \in {"count", "format"}
               PROVE  /\ source \in Seq(Seq(Units16)) /\ i \in 0..Len(source)
                      /\ IsArgsCost(source, ArgsCost(source))
                      /\ ArgsCost(source)[i] \in Nat /\ ArgsCost(source)[0] \in Nat
    OBVIOUS
  <2>1. source \in Seq(Seq(Units16)) /\ i \in 0..Len(source) /\ 0 \in 0..Len(source)
    BY DEF TextInv
  <2>2. IsArgsCost(source, ArgsCost(source))
    BY <2>1, ArgsCostExists
  <2>3. ArgsCost(source) \in [0..Len(source) -> Nat]
    BY <2>2 DEF IsArgsCost
  <2> QED
    BY <2>1, <2>2, <2>3
<1>b. byte_len \in Nat /\ Len(bytes) \in Nat /\ bytes \in Seq(Octets)
  BY DEF TextInv
<1>1. CASE FromJava
  <2>1. PICK s \in SeqOf(Units, MaxUnits) : source' = s
    BY <1>1 DEF FromJava
  <2>2. s \in Seq(Units16)
    BY <2>1, SeqOfType, TextAssumption DEF Units16
  <2>3. StringCost(s)[0] \in Nat
    BY <2>2, StringCostExists DEF IsStringCost
  <2> QED
    BY <1>1, <2>1, <2>3 DEF FromJava, CountInv, TextInv
<1>2. CASE Measure
  <2>1. CASE i < Len(source)
    <3>1. stage = "measure" /\ i \in 0..(Len(source) - 1)
      BY <1>2, <1>s, <2>1 DEF Measure
    <3>2. /\ i + UnitsAt(source, i) \in (i + 1)..Len(source)
          /\ CodePoint(source, i) \in CodePoints
      BY <1>s, <3>1, CodePointType
    <3>3. StringCost(source)[i] =
            utf8_len(CodePoint(source, i)) + StringCost(source)[i + UnitsAt(source, i)]
      BY <1>s, <3>1 DEF IsStringCost
    <3>4. StringCost(source)[i + UnitsAt(source, i)] \in Nat
      BY <1>s, <3>1, <3>2 DEF IsStringCost
    <3>5. utf8_len(CodePoint(source, i)) \in Nat
      BY DEF utf8_len
    <3> QED
      BY <1>2, <1>b, <2>1, <3>1, <3>3, <3>4, <3>5 DEF Measure, CountInv
  <2>2. CASE ~(i < Len(source))
    <3>1. i = Len(source) /\ StringCost(source)[i] = 0
      BY <1>2, <1>s, <2>2 DEF Measure, IsStringCost
    <3> QED
      BY <1>2, <1>b, <1>s, <2>2, <3>1 DEF Measure, CountInv, TextInv
  <2> QED
    BY <2>1, <2>2
<1>3. CASE Write
  <2>1. CASE i < Len(source)
    <3>1. stage = "write" /\ i \in 0..(Len(source) - 1)
      BY <1>3, <1>s, <2>1 DEF Write
    <3>2. /\ i + UnitsAt(source, i) \in (i + 1)..Len(source)
          /\ CodePoint(source, i) \in CodePoints
      BY <1>s, <3>1, CodePointType
    <3>3. StringCost(source)[i] =
            utf8_len(CodePoint(source, i)) + StringCost(source)[i + UnitsAt(source, i)]
      BY <1>s, <3>1 DEF IsStringCost
    <3>4. StringCost(source)[i + UnitsAt(source, i)] \in Nat
      BY <1>s, <3>1, <3>2 DEF IsStringCost
    <3>5. utf8_len(CodePoint(source, i)) \in Nat
      BY DEF utf8_len
    <3>6. Len(bytes') = Len(bytes) + utf8_len(CodePoint(source, i))
      BY <1>3, <1>b, <2>1, <3>2, Utf8Written, ConcatProperties DEF Write
    <3> QED
      BY <1>3, <1>b, <2>1, <3>1, <3>3, <3>4, <3>5, <3>6 DEF Write, CountInv
  <2>2. CASE ~(i < Len(source))
    <3>1. i = Len(source) /\ StringCost(source)[i] = 0
      BY <1>3, <1>s, <2>2 DEF Write, IsStringCost
    <3> QED
      BY <1>3, <1>b, <1>s, <2>2, <3>1 DEF Write, CountInv
  <2> QED
    BY <2>1, <2>2
<1>4. CASE FromScript
  BY <1>4 DEF FromScript, CountInv
<1>5. CASE FromMemory
  BY <1>5 DEF FromMemory, CountInv
<1>6. CASE FromConsole
  <2>1. PICK a \in SeqOf(Texts, MaxArgs) : source' = a
    BY <1>6 DEF FromConsole
  <2>2. a \in Seq(Seq(Units16))
    BY <2>1, SeqOfType, TextsType, TextAssumption
  <2>3. ArgsCost(a)[0] \in Nat
    BY <2>2, ArgsCostExists DEF IsArgsCost
  <2> QED
    BY <1>6, <2>1, <2>3 DEF FromConsole, CountInv, TextInv
<1>7. CASE CountArg
  <2>1. CASE i < Len(source)
    <3>1. stage = "count" /\ i \in 0..(Len(source) - 1) /\ i + 1 \in 0..Len(source)
      BY <1>7, <1>a, <2>1 DEF CountArg
    <3>2. ArgsCost(source)[i] = ArgCost(source, i) + ArgsCost(source)[i + 1]
      BY <1>a, <3>1 DEF IsArgsCost
    <3>3. ArgsCost(source)[i + 1] \in Nat
      BY <1>a, <3>1 DEF IsArgsCost
    <3>4. ArgCost(source, i) \in Nat /\ byte_len' = byte_len + ArgCost(source, i)
      <4>1. Len(JS_ToCStringLen(source[i + 1])) \in Nat /\ ArgCost(source, i) \in Nat
        BY <1>a, <3>1, ArgCostType
      <4>2. byte_len' = byte_len + Len(JS_ToCStringLen(source[i + 1])) + (IF i > 0 THEN 1 ELSE 0)
        BY <1>7, <2>1 DEF CountArg
      <4> QED
        BY <1>b, <4>1, <4>2 DEF ArgCost
    <3> QED
      BY <1>7, <1>b, <2>1, <3>1, <3>2, <3>3, <3>4 DEF CountArg, CountInv
  <2>2. CASE ~(i < Len(source))
    <3>1. i = Len(source) /\ ArgsCost(source)[i] = 0
      BY <1>7, <1>a, <2>2 DEF CountArg, IsArgsCost
    <3> QED
      BY <1>7, <1>b, <1>a, <2>2, <3>1 DEF CountArg, CountInv, TextInv
  <2> QED
    BY <2>1, <2>2
<1>8. CASE FormatArg
  <2>1. CASE i < Len(source)
    <3>1. stage = "format" /\ i \in 0..(Len(source) - 1) /\ i + 1 \in 0..Len(source)
      BY <1>8, <1>a, <2>1 DEF FormatArg
    <3>2. ArgsCost(source)[i] = ArgCost(source, i) + ArgsCost(source)[i + 1]
      BY <1>a, <3>1 DEF IsArgsCost
    <3>3. ArgsCost(source)[i + 1] \in Nat
      BY <1>a, <3>1 DEF IsArgsCost
    <3> DEFINE text == JS_ToCStringLen(source[i + 1])
               space == IF i > 0 THEN <<32>> ELSE << >>
    <3>4. bytes' = (bytes \o space) \o text
      BY <1>8, <2>1 DEF FormatArg, Again
    <3>5. text \in Seq(Octets)
      BY <1>a, <3>1, CStringType
    <3>6. space \in Seq(Octets) /\ Len(space) = IF i > 0 THEN 1 ELSE 0
      <4>1. 32 \in Octets
        BY Sizes DEF Octets
      <4> QED
        BY <4>1
    <3>7. ArgCost(source, i) = Len(text) + Len(space)
      BY <3>6 DEF ArgCost
    <3> HIDE DEF text, space
    <3>8. Len(bytes') = Len(bytes) + Len(space) + Len(text)
      <4>1. /\ bytes \o space \in Seq(Octets)
            /\ Len(bytes \o space) = Len(bytes) + Len(space)
        BY <1>b, <3>6, ConcatProperties
      <4> QED
        BY <3>4, <3>5, <4>1, ConcatProperties
    <3>9. Len(text) \in Nat /\ Len(space) \in Nat
      BY <3>5, <3>6
    <3> QED
      BY <1>8, <1>b, <2>1, <3>1, <3>2, <3>3, <3>7, <3>8, <3>9 DEF FormatArg, CountInv
  <2>2. CASE ~(i < Len(source))
    <3>1. i = Len(source) /\ ArgsCost(source)[i] = 0
      BY <1>8, <1>a, <2>2 DEF FormatArg, IsArgsCost
    <3> QED
      BY <1>8, <1>b, <1>a, <2>2, <3>1 DEF FormatArg, CountInv
  <2> QED
    BY <2>1, <2>2
<1>9. CASE ReadPoint
  BY <1>9 DEF ReadPoint, CountInv
<1>10. CASE Done
  BY <1>10 DEF Done, CountInv
<1>11. CASE UNCHANGED textVars
  BY <1>11 DEF textVars, CountInv
<1> QED
  BY <1>1, <1>2, <1>3, <1>4, <1>5, <1>6, <1>7, <1>8, <1>9, <1>10, <1>11 DEF TextNext

(* Strings and messages of any length: the pass that writes stays inside   *)
(* the buffer that the counting pass has sized, and fills it, if arguments *)
(* convert to the same text twice (qjs_util.c:93, 118; qjs_console.c:57).  *)
THEOREM PassesAgree ==
  ASSUME Steady
  PROVE  TextSpec => []WritesFit
<1>1. TextInit => CountInv
  BY DEF TextInit, CountInv
<1>2. TextInv /\ CountInv /\ [TextNext]_textVars => CountInv'
  BY CountNextInv
<1>3. TextInv /\ CountInv => WritesFit
  <2> SUFFICES ASSUME TextInv, CountInv PROVE WritesFit
    OBVIOUS
  <2>1. Len(bytes) \in Nat /\ byte_len \in Nat
    BY DEF TextInv
  <2>2. stage = "write" => StringCost(source)[i] \in Nat
    BY StringCostExists DEF TextInv, IsStringCost
  <2>3. stage = "format" => ArgsCost(source)[i] \in Nat
    <3> SUFFICES ASSUME stage = "format" PROVE ArgsCost(source)[i] \in Nat
      OBVIOUS
    <3>1. source \in Seq(Seq(Units16)) /\ i \in 0..Len(source)
      BY DEF TextInv
    <3> QED
      BY <3>1, ArgsCostExists DEF IsArgsCost
  <2> QED
    BY <2>1, <2>2, <2>3 DEF CountInv, WritesFit
<1> QED
  BY <1>1, <1>2, <1>3, TextInitInv, TextNextInv, PTL DEF TextSpec

=============================================================================
