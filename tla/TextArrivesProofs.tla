-------------------------- MODULE TextArrivesProofs --------------------------
(***************************************************************************)
(* Text of any length arrives as it was sent, and nothing but text is read *)
(* as text: the reader inverts the writer on every code point, and what    *)
(* has been read is at every moment a prefix of what was sent.             *)
(***************************************************************************)
EXTENDS TextProofs

-----------------------------------------------------------------------------
(* Sequences that are put together piece by piece *)

(* Induction over an initial part of Nat, by a set that is closed under it. *)
LEMMA Climb ==
  ASSUME NEW n \in Nat, NEW T, 0 \in T, \A k \in 0..(n - 1) : k \in T => k + 1 \in T
  PROVE  \A k \in 0..n : k \in T
<1> DEFINE bad == {k \in 0..n : k \notin T}
<1>1. SUFFICES bad = {}
  OBVIOUS
<1>2. SUFFICES ASSUME NEW m \in bad, \A k \in bad : m <= k PROVE FALSE
  BY Least, bad \in SUBSET Nat
<1>3. m \in 1..n /\ m \notin T
  OBVIOUS
<1>4. m - 1 \in 0..(n - 1) /\ (m - 1) + 1 = m
  BY <1>3
<1>5. m - 1 \in T
  BY <1>2, <1>4
<1> QED
  BY <1>3, <1>4, <1>5

(* Concatenation is associative, as a predicate the provers can instantiate. *)
Grouped(a, b, c) == (a \o b) \o c = a \o (b \o c)

LEMMA Grouping ==
  ASSUME NEW S, NEW a, NEW b, NEW c, a \in Seq(S), b \in Seq(S), c \in Seq(S)
  PROVE  Grouped(a, b, c)
BY ConcatAssociative DEF Grouped

(* What the first k of the sequences ss flatten to. *)
FlatTo(ss, k) ==
  IF k = 0 THEN << >>
  ELSE LET flatten[j \in 1..Len(ss)] == IF j = 1 THEN ss[j] ELSE flatten[j - 1] \o ss[j]
       IN  flatten[k]

LEMMA FlattenSteps ==
  ASSUME NEW S, NEW ss \in Seq(Seq(S))
  PROVE  /\ FlatTo(ss, 0) = << >>
         /\ FlattenSeq(ss) = FlatTo(ss, Len(ss))
         /\ \A k \in 0..Len(ss) : FlatTo(ss, k) \in Seq(S)
         /\ \A k \in 0..(Len(ss) - 1) : FlatTo(ss, k + 1) = FlatTo(ss, k) \o ss[k + 1]
<1> DEFINE n == Len(ss)
           Flat(g) == g = [j \in 1..n |-> IF j = 1 THEN ss[j] ELSE g[j - 1] \o ss[j]]
           flatten == CHOOSE g : Flat(g)
<1>1. n \in Nat
  OBVIOUS
<1>2. Flat(flatten)
  <2>1. \E g : Flat(g)
    BY <1>1, FlattenExists
  <2> QED
    BY <2>1
<1>3. FlatTo(ss, 0) = << >>
  BY DEF FlatTo
<1>4. \A k \in 1..n : FlatTo(ss, k) = flatten[k]
  BY DEF FlatTo
<1>5. FlattenSeq(ss) = FlatTo(ss, n)
  <2>1. CASE n = 0
    BY <1>3, <2>1 DEF FlattenSeq
  <2>2. CASE n # 0
    BY <2>2 DEF FlattenSeq, FlatTo
  <2> QED
    BY <2>1, <2>2
<1> HIDE DEF flatten
<1>6. ASSUME NEW k \in 0..(n - 1) PROVE FlatTo(ss, k + 1) = FlatTo(ss, k) \o ss[k + 1]
  <2>1. k + 1 \in 1..n /\ ss[k + 1] \in Seq(S)
    BY <1>1
  <2>2. flatten[k + 1] = IF k + 1 = 1 THEN ss[k + 1] ELSE flatten[k] \o ss[k + 1]
    <3>1. \A j \in 1..n : flatten[j] = IF j = 1 THEN ss[j] ELSE flatten[j - 1] \o ss[j]
      <4>1. flatten = [j \in 1..n |-> IF j = 1 THEN ss[j] ELSE flatten[j - 1] \o ss[j]]
        BY <1>2
      <4> QED
        BY <4>1, Zenon
    <3>2. (k + 1) - 1 = k
      BY <1>1
    <3> HIDE DEF n
    <3> QED
      BY <2>1, <3>1, <3>2
  <2>3. FlatTo(ss, k + 1) = flatten[k + 1]
    BY <1>4, <2>1
  <2>4. CASE k = 0
    BY <1>3, <2>1, <2>2, <2>3, <2>4, ConcatEmptySeq
  <2>5. CASE k # 0
    <3>1. k \in 1..n /\ k + 1 # 1
      BY <1>1, <2>5
    <3>2. FlatTo(ss, k) = flatten[k]
      BY <1>4, <3>1
    <3> QED
      BY <2>2, <2>3, <3>1, <3>2
  <2> QED
    BY <2>4, <2>5
<1>7. \A k \in 0..n : FlatTo(ss, k) \in Seq(S)
  <2> DEFINE T == {k \in 0..n : FlatTo(ss, k) \in Seq(S)}
  <2>1. 0 \in T
    <3>1. FlatTo(ss, 0) \in Seq(S)
      BY <1>3, EmptySeq
    <3>2. 0 \in 0..n
      BY <1>1
    <3> QED
      BY <3>1, <3>2
  <2>2. ASSUME NEW k \in 0..(n - 1), k \in T PROVE k + 1 \in T
    <3>1. ss[k + 1] \in Seq(S) /\ k + 1 \in 0..n
      BY <1>1
    <3>2. FlatTo(ss, k) \o ss[k + 1] \in Seq(S)
      BY <2>2, <3>1, ConcatProperties
    <3> QED
      BY <1>6, <3>1, <3>2
  <2> HIDE DEF T
  <2>3. \A k \in 0..n : k \in T
    BY <1>1, <2>1, <2>2, Climb
  <2> QED
    BY <2>3 DEF T
<1> QED
  BY <1>3, <1>5, <1>6, <1>7

(* t begins with s. *)
Begins(t, s) == Len(s) <= Len(t) /\ \A l \in 1..Len(s) : t[l] = s[l]

LEMMA FlattenBegins ==
  ASSUME NEW S, NEW ss \in Seq(Seq(S)), NEW k \in 0..Len(ss)
  PROVE  Begins(FlattenSeq(ss), FlatTo(ss, k))
<1> DEFINE n == Len(ss)
           T == {d \in 0..(n - k) : Begins(FlatTo(ss, k + d), FlatTo(ss, k))}
<1>1. n \in Nat /\ k \in Nat /\ n - k \in Nat
  OBVIOUS
<1>2. \A m \in 0..n : FlatTo(ss, m) \in Seq(S)
  BY FlattenSteps
<1>3. 0 \in T
  BY <1>1 DEF Begins
<1>4. ASSUME NEW d \in 0..(n - k - 1), d \in T PROVE d + 1 \in T
  <2> DEFINE a == FlatTo(ss, k + d)
             b == ss[k + d + 1]
  <2>1. k + d \in 0..(n - 1) /\ k + (d + 1) = (k + d) + 1 /\ d + 1 \in 0..(n - k) /\ k + d \in 0..n
    BY <1>1
  <2>2. FlatTo(ss, k + (d + 1)) = a \o b
    BY <2>1, FlattenSteps
  <2>3. a \in Seq(S) /\ b \in Seq(S) /\ FlatTo(ss, k) \in Seq(S)
    BY <1>1, <1>2, <2>1
  <2>4. Begins(a, FlatTo(ss, k))
    BY <1>4
  <2> HIDE DEF a, b
  <2>5. Begins(a \o b, FlatTo(ss, k))
    <3>1. /\ Len(a \o b) = Len(a) + Len(b)
          /\ \A l \in 1..(Len(a) + Len(b)) :
               (a \o b)[l] = IF l <= Len(a) THEN a[l] ELSE b[l - Len(a)]
      BY <2>3, ConcatProperties
    <3>2. Len(a) \in Nat /\ Len(b) \in Nat /\ Len(FlatTo(ss, k)) \in Nat
      BY <2>3
    <3> QED
      BY <2>4, <3>1, <3>2 DEF Begins
  <2> QED
    BY <2>1, <2>2, <2>5
<1> HIDE DEF T
<1>5. n - k \in T
  <2>1. \A d \in 0..(n - k) : d \in T
    BY <1>1, <1>3, <1>4, Climb
  <2>2. n - k \in 0..(n - k)
    BY <1>1
  <2> QED
    BY <2>1, <2>2
<1>6. k + (n - k) = n
  BY <1>1
<1> QED
  BY <1>5, <1>6, FlattenSteps DEF T

(* Flattening sequences one after the other. *)
LEMMA FlattenConcat ==
  ASSUME NEW S, NEW ss \in Seq(Seq(S)), NEW s1 \in Seq(Seq(S)), NEW s2 \in Seq(Seq(S)),
         Len(ss) = Len(s1) + Len(s2),
         \A k \in 1..Len(s1) : ss[k] = s1[k],
         \A k \in 1..Len(s2) : ss[Len(s1) + k] = s2[k]
  PROVE  FlattenSeq(ss) = FlattenSeq(s1) \o FlattenSeq(s2)
<1> DEFINE n == Len(s1)
           m == Len(s2)
<1>1. n \in Nat /\ m \in Nat /\ Len(ss) = n + m
  OBVIOUS
<1>2. FlatTo(ss, n) = FlatTo(s1, n)
  <2> DEFINE T == {k \in 0..n : FlatTo(ss, k) = FlatTo(s1, k)}
  <2>1. 0 \in T
    BY <1>1, FlattenSteps
  <2>2. ASSUME NEW k \in 0..(n - 1), k \in T PROVE k + 1 \in T
    <3>1. k \in 0..(Len(ss) - 1) /\ k + 1 \in 1..n /\ k + 1 \in 0..n
      BY <1>1
    <3>2. /\ FlatTo(ss, k + 1) = FlatTo(ss, k) \o ss[k + 1]
          /\ FlatTo(s1, k + 1) = FlatTo(s1, k) \o s1[k + 1]
      BY <3>1, FlattenSteps
    <3> QED
      BY <2>2, <3>1, <3>2
  <2> HIDE DEF T
  <2>3. \A k \in 0..n : k \in T
    BY <1>1, <2>1, <2>2, Climb
  <2> QED
    BY <1>1, <2>3 DEF T
<1>3. FlatTo(ss, n + m) = FlatTo(s1, n) \o FlatTo(s2, m)
  <2> DEFINE T == {k \in 0..m : FlatTo(ss, n + k) = FlatTo(s1, n) \o FlatTo(s2, k)}
  <2>0. FlatTo(s1, n) \in Seq(S) /\ \A k \in 0..m : FlatTo(s2, k) \in Seq(S)
    BY <1>1, FlattenSteps
  <2>1. 0 \in T
    <3>1. FlatTo(s2, 0) = << >>
      BY FlattenSteps
    <3>2. FlatTo(s1, n) \o << >> = FlatTo(s1, n)
      BY <2>0, ConcatEmptySeq
    <3>3. n + 0 = n /\ 0 \in 0..m
      BY <1>1
    <3> QED
      BY <1>2, <3>1, <3>2, <3>3
  <2>2. ASSUME NEW k \in 0..(m - 1), k \in T PROVE k + 1 \in T
    <3>1. n + k \in 0..(Len(ss) - 1) /\ k + 1 \in 1..m /\ k + 1 \in 0..m /\ k \in 0..m
      BY <1>1
    <3>2. /\ FlatTo(ss, (n + k) + 1) = FlatTo(ss, n + k) \o ss[(n + k) + 1]
          /\ FlatTo(s2, k + 1) = FlatTo(s2, k) \o s2[k + 1]
      BY <3>1, FlattenSteps
    <3>3. (n + k) + 1 = n + (k + 1)
      BY <1>1
    <3>8. ss[n + (k + 1)] = s2[k + 1]
      BY <3>1
    <3>4. FlatTo(s1, n) \in Seq(S) /\ FlatTo(s2, k) \in Seq(S) /\ s2[k + 1] \in Seq(S)
      BY <2>0, <3>1
    <3>5. (FlatTo(s1, n) \o FlatTo(s2, k)) \o s2[k + 1]
          = FlatTo(s1, n) \o (FlatTo(s2, k) \o s2[k + 1])
      <4>1. Grouped(FlatTo(s1, n), FlatTo(s2, k), s2[k + 1])
        BY <3>4, Grouping, Zenon
      <4> QED
        BY <4>1, Zenon DEF Grouped
    <3>6. FlatTo(ss, n + k) = FlatTo(s1, n) \o FlatTo(s2, k)
      BY <2>2
    <3>7. FlatTo(ss, n + (k + 1)) = FlatTo(s1, n) \o FlatTo(s2, k + 1)
      BY <3>2, <3>3, <3>5, <3>6, <3>8
    <3> QED
      BY <3>1, <3>7
  <2> HIDE DEF T
  <2>3. \A k \in 0..m : k \in T
    BY <1>1, <2>1, <2>2, Climb
  <2> QED
    BY <1>1, <2>3 DEF T
<1> QED
  BY <1>1, <1>3, FlattenSteps

-----------------------------------------------------------------------------
(* The bytes of a string, one code point after the other *)

(* What each code unit adds to the bytes of the string: the low half of a   *)
(* pair adds nothing.                                                       *)
Parts(s) ==
  [k \in 1..Len(s) |->
    IF PairAt(s, k - 1) THEN write_utf8(CodePoint(s, k - 1))
    ELSE IF k > 1 /\ PairAt(s, k - 2) THEN << >> ELSE write_utf8(s[k])]

Upto(s, k) == FlatTo(Parts(s), k)

(* Position k is between the halves of a pair. *)
Inside(s, k) == k > 0 /\ PairAt(s, k - 1)

(* The next code point, an unpaired surrogate included. *)
Raw(s, k) == IF PairAt(s, k) THEN CodePoint(s, k) ELSE s[k + 1]

IsSurrogate(u) == IsHigh(u) \/ IsLow(u)

(* What the reader makes of a code point. *)
Readable(cp) == IF IsSurrogate(cp) THEN replacement_codepoint ELSE cp

LEMMA RawType ==
  ASSUME NEW s \in Seq(Units16), NEW k \in 0..(Len(s) - 1)
  PROVE  Raw(s, k) \in CodePoints
<1>1. s[k + 1] \in Units16
  OBVIOUS
<1>2. s[k + 1] \in CodePoints
  BY <1>1, Sizes DEF Units16, CodePoints
<1>3. CodePoint(s, k) \in CodePoints
  BY CodePointType
<1> QED
  BY <1>2, <1>3 DEF Raw

LEMMA PartsType ==
  ASSUME NEW s \in Seq(Units16)
  PROVE  /\ Parts(s) \in Seq(Seq(Octets)) /\ Len(Parts(s)) = Len(s)
         /\ JS_ToCStringLen(s) = FlattenSeq(Parts(s))
<1>1. ASSUME NEW k \in 1..Len(s) PROVE Parts(s)[k] \in Seq(Octets)
  <2>1. k - 1 \in 0..(Len(s) - 1) /\ s[k] \in Units16
    BY <1>1
  <2>2. CodePoint(s, k - 1) \in CodePoints
    BY <2>1, CodePointType
  <2>3. s[k] \in CodePoints
    BY <2>1, Sizes DEF Units16, CodePoints
  <2>4. write_utf8(CodePoint(s, k - 1)) \in Seq(Octets) /\ write_utf8(s[k]) \in Seq(Octets)
    BY <2>2, <2>3, Utf8Written
  <2>5. << >> \in Seq(Octets)
    OBVIOUS
  <2> QED
    BY <1>1, <2>4, <2>5 DEF Parts
<1>2. Parts(s) = [k \in 1..Len(s) |-> Parts(s)[k]] /\ Len(s) \in Nat
  BY DEF Parts
<1>3. Parts(s) \in Seq(Seq(Octets)) /\ Len(Parts(s)) = Len(s)
  BY <1>1, <1>2
<1> QED
  BY <1>3, Zenon DEF JS_ToCStringLen, Parts

(* Whoever reads code points starts none inside a pair. *)
LEMMA NotInside ==
  ASSUME NEW s \in Seq(Units16), NEW k \in 0..(Len(s) - 1), ~Inside(s, k)
  PROVE  ~Inside(s, k + UnitsAt(s, k)) /\ k + UnitsAt(s, k) \in (k + 1)..Len(s)
<1>1. k + UnitsAt(s, k) \in (k + 1)..Len(s)
  BY CodePointType
<1>2. CASE PairAt(s, k)
  <2>1. UnitsAt(s, k) = 2 /\ (k + 2) - 1 = k + 1 /\ (k + 1) + 1 = k + 2
    BY <1>2 DEF UnitsAt
  <2>2. k + 2 \in 1..Len(s) /\ IsLow(s[k + 2])
    BY <1>2 DEF PairAt
  <2>3. s[k + 2] \in Nat
    BY <2>2, Sizes DEF Units16
  <2>4. ~IsHigh(s[k + 2])
    BY <2>2, <2>3 DEF IsHigh, IsLow
  <2>5. ~PairAt(s, k + 1)
    BY <2>1, <2>4 DEF PairAt
  <2> QED
    BY <1>1, <2>1, <2>5 DEF Inside
<1>3. CASE ~PairAt(s, k)
  <2>1. UnitsAt(s, k) = 1 /\ (k + 1) - 1 = k
    BY <1>3 DEF UnitsAt
  <2> QED
    BY <1>1, <1>3, <2>1 DEF Inside
<1> QED
  BY <1>2, <1>3

LEMMA NextPart ==
  ASSUME NEW s \in Seq(Units16), NEW k \in 0..(Len(s) - 1), ~Inside(s, k)
  PROVE  Upto(s, k + UnitsAt(s, k)) = Upto(s, k) \o write_utf8(Raw(s, k))
<1>1. Parts(s) \in Seq(Seq(Octets)) /\ Len(Parts(s)) = Len(s)
  BY PartsType
<1>2. k + 1 \in 1..Len(s) /\ (k + 1) - 1 = k /\ (k + 1) - 2 = k - 1 /\ Len(s) \in Nat
  OBVIOUS
<1>3. Parts(s)[k + 1] = write_utf8(Raw(s, k))
  <2>1. Parts(s)[k + 1] =
          IF PairAt(s, (k + 1) - 1) THEN write_utf8(CodePoint(s, (k + 1) - 1))
          ELSE IF k + 1 > 1 /\ PairAt(s, (k + 1) - 2) THEN << >> ELSE write_utf8(s[k + 1])
    BY <1>2, Zenon DEF Parts
  <2>2. ~(k + 1 > 1 /\ PairAt(s, k - 1))
    BY DEF Inside
  <2> QED
    BY <1>2, <2>1, <2>2 DEF Raw
<1>4. Upto(s, k + 1) = Upto(s, k) \o write_utf8(Raw(s, k))
  <2>1. \A l \in 0..(Len(Parts(s)) - 1) :
          FlatTo(Parts(s), l + 1) = FlatTo(Parts(s), l) \o Parts(s)[l + 1]
    BY <1>1, FlattenSteps
  <2> QED
    BY <1>1, <1>3, <2>1 DEF Upto
<1>5. CASE PairAt(s, k)
  <2>1. UnitsAt(s, k) = 2 /\ (k + 1) + 1 = k + 2 /\ k + 1 \in 0..(Len(s) - 1) /\ k + 2 \in 1..Len(s)
    BY <1>2, <1>5 DEF UnitsAt, PairAt
  <2>2. ~PairAt(s, k + 1)
    <3>1. ~Inside(s, k + 2)
      BY <2>1, NotInside
    <3>2. (k + 2) - 1 = k + 1 /\ k + 2 > 0
      OBVIOUS
    <3> QED
      BY <3>1, <3>2 DEF Inside
  <2>3. Parts(s)[k + 2] = << >>
    <3>1. Parts(s)[k + 2] =
            IF PairAt(s, (k + 2) - 1) THEN write_utf8(CodePoint(s, (k + 2) - 1))
            ELSE IF k + 2 > 1 /\ PairAt(s, (k + 2) - 2) THEN << >> ELSE write_utf8(s[k + 2])
      BY <2>1, Zenon DEF Parts
    <3>2. (k + 2) - 1 = k + 1 /\ (k + 2) - 2 = k /\ k + 2 > 1
      OBVIOUS
    <3> QED
      BY <1>5, <2>2, <3>1, <3>2
  <2>4. Upto(s, k + 2) = Upto(s, k + 1) \o << >>
    <3>1. \A l \in 0..(Len(Parts(s)) - 1) :
            FlatTo(Parts(s), l + 1) = FlatTo(Parts(s), l) \o Parts(s)[l + 1]
      BY <1>1, FlattenSteps
    <3> QED
      BY <1>1, <2>1, <2>3, <3>1 DEF Upto
  <2>5. Upto(s, k + 1) \in Seq(Octets)
    <3>1. \A l \in 0..Len(Parts(s)) : FlatTo(Parts(s), l) \in Seq(Octets)
      BY <1>1, FlattenSteps
    <3> QED
      BY <1>1, <1>2, <3>1 DEF Upto
  <2>6. Upto(s, k + 1) \o << >> = Upto(s, k + 1)
    BY <2>5, ConcatEmptySeq
  <2> QED
    BY <1>4, <2>1, <2>4, <2>6
<1>6. CASE ~PairAt(s, k)
  BY <1>4, <1>6 DEF UnitsAt
<1> QED
  BY <1>5, <1>6

LEMMA UptoEnds ==
  ASSUME NEW s \in Seq(Units16)
  PROVE  /\ Upto(s, 0) = << >> /\ Upto(s, Len(s)) = JS_ToCStringLen(s)
         /\ \A k \in 0..Len(s) :
              Upto(s, k) \in Seq(Octets) /\ Begins(JS_ToCStringLen(s), Upto(s, k))
<1>1. /\ Parts(s) \in Seq(Seq(Octets)) /\ Len(Parts(s)) = Len(s)
      /\ JS_ToCStringLen(s) = FlattenSeq(Parts(s))
  BY PartsType
<1>2. /\ FlatTo(Parts(s), 0) = << >>
      /\ FlattenSeq(Parts(s)) = FlatTo(Parts(s), Len(Parts(s)))
      /\ \A k \in 0..Len(Parts(s)) : FlatTo(Parts(s), k) \in Seq(Octets)
  BY <1>1, FlattenSteps
<1>3. \A k \in 0..Len(Parts(s)) : Begins(FlattenSeq(Parts(s)), FlatTo(Parts(s), k))
  BY <1>1, FlattenBegins
<1> QED
  BY <1>1, <1>2, <1>3 DEF Upto

-----------------------------------------------------------------------------
(* The bytes of two strings one after the other *)

(* No pair has its high half in s1 and its low half in s2. *)
NoSpan(s1, s2) ==
  Len(s1) = 0 \/ Len(s2) = 0 \/ ~IsHigh(s1[Len(s1)]) \/ ~IsLow(s2[1])

(* s is s1 and then s2, and so are its pairs. *)
Splits(s, s1, s2) ==
  /\ Len(s) = Len(s1) + Len(s2)
  /\ \A k \in 1..Len(s1) : s[k] = s1[k]
  /\ \A k \in 1..Len(s2) : s[Len(s1) + k] = s2[k]
  /\ \A k \in 0..(Len(s1) - 1) : PairAt(s, k) <=> PairAt(s1, k)
  /\ \A k \in 0..(Len(s2) - 1) : PairAt(s, Len(s1) + k) <=> PairAt(s2, k)

LEMMA PairConcat ==
  ASSUME NEW s1 \in Seq(Units16), NEW s2 \in Seq(Units16), NoSpan(s1, s2),
         NEW s \in Seq(Units16), s = s1 \o s2
  PROVE  Splits(s, s1, s2)
<1> DEFINE n == Len(s1)
           m == Len(s2)
<1>1. n \in Nat /\ m \in Nat
  OBVIOUS
<1>2. /\ Len(s) = n + m
      /\ \A k \in 1..(n + m) : s[k] = IF k <= n THEN s1[k] ELSE s2[k - n]
  BY ConcatProperties
<1>3. \A k \in 1..n : s[k] = s1[k]
  BY <1>1, <1>2
<1>4. ASSUME NEW k \in 1..m PROVE s[n + k] = s2[k]
  <2>1. n + k \in 1..(n + m) /\ ~(n + k <= n) /\ (n + k) - n = k
    BY <1>1
  <2> QED
    BY <1>2, <2>1
<1>5. ASSUME NEW k \in 0..(n - 1) PROVE PairAt(s, k) <=> PairAt(s1, k)
  <2>1. k + 1 \in 1..n /\ s[k + 1] = s1[k + 1]
    BY <1>1, <1>3
  <2>2. CASE k + 1 < n
    <3>1. k + 2 \in 1..n /\ s[k + 2] = s1[k + 2]
      BY <1>1, <1>3, <2>2
    <3>2. k + 1 < n + m
      BY <1>1, <2>2
    <3> HIDE DEF n, m
    <3> QED
      BY <1>2, <2>1, <2>2, <3>1, <3>2 DEF PairAt, n
  <2>3. CASE ~(k + 1 < n)
    <3>1. k + 1 = n /\ ~PairAt(s1, k)
      BY <1>1, <2>3 DEF PairAt
    <3>2. ~PairAt(s, k)
      <4>1. SUFFICES ASSUME PairAt(s, k) PROVE FALSE
        OBVIOUS
      <4>2. k + 1 < n + m /\ IsHigh(s[k + 1]) /\ IsLow(s[k + 2])
        BY <1>2, <4>1 DEF PairAt
      <4>3. m # 0 /\ n # 0 /\ k + 2 = n + 1 /\ 1 \in 1..m
        BY <1>1, <3>1, <4>2
      <4>4. IsHigh(s1[n]) /\ IsLow(s2[1])
        BY <1>4, <2>1, <3>1, <4>2, <4>3
      <4> QED
        BY <4>3, <4>4 DEF NoSpan
    <3> QED
      BY <3>1, <3>2
  <2> QED
    BY <2>2, <2>3
<1>6. ASSUME NEW k \in 0..(m - 1) PROVE PairAt(s, n + k) <=> PairAt(s2, k)
  <2>1. k + 1 \in 1..m /\ (n + k) + 1 = n + (k + 1) /\ (n + k) + 2 = n + (k + 2)
    BY <1>1
  <2>2. s[(n + k) + 1] = s2[k + 1]
    BY <1>4, <2>1
  <2>3. (n + k) + 1 < n + m <=> k + 1 < m
    BY <1>1
  <2>4. k + 1 < m => s[(n + k) + 2] = s2[k + 2]
    <3>1. SUFFICES ASSUME k + 1 < m PROVE s[n + (k + 2)] = s2[k + 2]
      BY <2>1
    <3>2. k + 2 \in 1..m
      BY <1>1, <3>1
    <3> QED
      BY <1>4, <3>2
  <2> HIDE DEF n, m
  <2> QED
    BY <1>2, <2>2, <2>3, <2>4 DEF PairAt, m
<1> QED
  BY <1>2, <1>3, <1>4, <1>5, <1>6 DEF Splits

LEMMA CStringConcat ==
  ASSUME NEW s1 \in Seq(Units16), NEW s2 \in Seq(Units16), NoSpan(s1, s2)
  PROVE  JS_ToCStringLen(s1 \o s2) = JS_ToCStringLen(s1) \o JS_ToCStringLen(s2)
<1>1. PICK s \in Seq(Units16) : s = s1 \o s2
  BY ConcatProperties
<1> DEFINE n == Len(s1)
           m == Len(s2)
<1>2. /\ Len(s) = n + m
      /\ \A k \in 1..n : s[k] = s1[k]
      /\ \A k \in 1..m : s[n + k] = s2[k]
      /\ \A k \in 0..(n - 1) : PairAt(s, k) <=> PairAt(s1, k)
      /\ \A k \in 0..(m - 1) : PairAt(s, n + k) <=> PairAt(s2, k)
  <2>1. Splits(s, s1, s2)
    BY <1>1, PairConcat
  <2> QED
    BY <2>1 DEF Splits
<1>3. n \in Nat /\ m \in Nat
  OBVIOUS
<1>4. ASSUME NEW k \in 1..n PROVE Parts(s)[k] = Parts(s1)[k]
  <2>1. k \in 1..Len(s) /\ k - 1 \in 0..(n - 1) /\ s[k] = s1[k]
    BY <1>2, <1>3
  <2>2. PairAt(s, k - 1) <=> PairAt(s1, k - 1)
    BY <1>2, <2>1
  <2>3. k > 1 => (PairAt(s, k - 2) <=> PairAt(s1, k - 2))
    <3>1. k > 1 => k - 2 \in 0..(n - 1)
      BY <1>3
    <3> QED
      BY <1>2, <3>1
  <2>4. PairAt(s, k - 1) => CodePoint(s, k - 1) = CodePoint(s1, k - 1)
    <3>1. SUFFICES ASSUME PairAt(s1, k - 1), PairAt(s, k - 1)
                   PROVE  CodePoint(s, k - 1) = CodePoint(s1, k - 1)
      BY <2>2
    <3>2. (k - 1) + 1 = k /\ (k - 1) + 2 = k + 1 /\ k + 1 \in 1..n
      BY <1>3, <3>1 DEF PairAt
    <3>3. s[k + 1] = s1[k + 1]
      BY <1>2, <3>2
    <3> QED
      BY <2>1, <3>1, <3>2, <3>3 DEF CodePoint
  <2>5. Parts(s)[k] = IF PairAt(s, k - 1) THEN write_utf8(CodePoint(s, k - 1))
                      ELSE IF k > 1 /\ PairAt(s, k - 2) THEN << >> ELSE write_utf8(s[k])
    BY <2>1 DEF Parts
  <2>6. Parts(s1)[k] = IF PairAt(s1, k - 1) THEN write_utf8(CodePoint(s1, k - 1))
                       ELSE IF k > 1 /\ PairAt(s1, k - 2) THEN << >> ELSE write_utf8(s1[k])
    BY DEF Parts
  <2> QED
    BY <2>1, <2>2, <2>3, <2>4, <2>5, <2>6
<1>5. ASSUME NEW k \in 1..m PROVE Parts(s)[n + k] = Parts(s2)[k]
  <2>1. /\ n + k \in 1..Len(s) /\ k - 1 \in 0..(m - 1) /\ s[n + k] = s2[k]
        /\ (n + k) - 1 = n + (k - 1) /\ (n + k) - 2 = n + (k - 2)
    BY <1>2, <1>3
  <2>2. PairAt(s, n + (k - 1)) <=> PairAt(s2, k - 1)
    BY <1>2, <2>1
  <2>3. (n + k > 1 /\ PairAt(s, (n + k) - 2)) <=> (k > 1 /\ PairAt(s2, k - 2))
    <3>1. CASE k > 1
      <4>1. k - 2 \in 0..(m - 1) /\ n + k > 1
        BY <1>3, <3>1
      <4> QED
        BY <1>2, <2>1, <3>1, <4>1
    <3>2. CASE ~(k > 1)
      <4>1. k = 1 /\ (n + k) - 2 = n - 1
        BY <1>3, <3>2
      <4>2. CASE n = 0
        BY <3>2, <4>1, <4>2
      <4>3. CASE n # 0
        <5>1. n - 1 \in 0..(n - 1) /\ ~((n - 1) + 1 < n)
          BY <1>3, <4>3
        <5>2. ~PairAt(s1, n - 1)
          BY <5>1 DEF PairAt
        <5> QED
          BY <1>2, <3>2, <4>1, <5>1, <5>2
      <4> QED
        BY <4>2, <4>3
    <3> QED
      BY <3>1, <3>2
  <2>4. PairAt(s2, k - 1) => CodePoint(s, n + (k - 1)) = CodePoint(s2, k - 1)
    <3>1. SUFFICES ASSUME PairAt(s2, k - 1), PairAt(s, n + (k - 1))
                   PROVE  CodePoint(s, n + (k - 1)) = CodePoint(s2, k - 1)
      BY <2>2
    <3>2. /\ (k - 1) + 1 = k /\ (k - 1) + 2 = k + 1 /\ k + 1 \in 1..m
          /\ (n + (k - 1)) + 1 = n + k /\ (n + (k - 1)) + 2 = n + (k + 1)
      BY <1>3, <3>1 DEF PairAt
    <3>3. s[n + (k + 1)] = s2[k + 1]
      BY <1>2, <3>2
    <3>4. CodePoint(s, n + (k - 1)) = 65536 + (s[n + k] - 55296) * 1024 + (s[n + (k + 1)] - 56320)
      BY <3>1, <3>2 DEF CodePoint
    <3>5. CodePoint(s2, k - 1) = 65536 + (s2[k] - 55296) * 1024 + (s2[k + 1] - 56320)
      BY <3>1, <3>2 DEF CodePoint
    <3> QED
      BY <2>1, <3>3, <3>4, <3>5
  <2>5. Parts(s)[n + k] =
          IF PairAt(s, (n + k) - 1) THEN write_utf8(CodePoint(s, (n + k) - 1))
          ELSE IF n + k > 1 /\ PairAt(s, (n + k) - 2) THEN << >> ELSE write_utf8(s[n + k])
    BY <2>1 DEF Parts
  <2>6. Parts(s2)[k] = IF PairAt(s2, k - 1) THEN write_utf8(CodePoint(s2, k - 1))
                       ELSE IF k > 1 /\ PairAt(s2, k - 2) THEN << >> ELSE write_utf8(s2[k])
    BY DEF Parts
  <2> QED
    BY <2>1, <2>2, <2>3, <2>4, <2>5, <2>6
<1>6. /\ Parts(s) \in Seq(Seq(Octets)) /\ Len(Parts(s)) = Len(s)
      /\ JS_ToCStringLen(s) = FlattenSeq(Parts(s))
  BY PartsType
<1>7. /\ Parts(s1) \in Seq(Seq(Octets)) /\ Len(Parts(s1)) = n
      /\ JS_ToCStringLen(s1) = FlattenSeq(Parts(s1))
  BY PartsType
<1>8. /\ Parts(s2) \in Seq(Seq(Octets)) /\ Len(Parts(s2)) = m
      /\ JS_ToCStringLen(s2) = FlattenSeq(Parts(s2))
  BY PartsType
<1> HIDE DEF n, m
<1>9. FlattenSeq(Parts(s)) = FlattenSeq(Parts(s1)) \o FlattenSeq(Parts(s2))
  <2>1. PICK p, p1, p2 : p = Parts(s) /\ p1 = Parts(s1) /\ p2 = Parts(s2)
    OBVIOUS
  <2>2. p \in Seq(Seq(Octets)) /\ p1 \in Seq(Seq(Octets)) /\ p2 \in Seq(Seq(Octets))
    BY <1>6, <1>7, <1>8, <2>1
  <2>3. Len(p) = Len(p1) + Len(p2)
    BY <1>2, <1>6, <1>7, <1>8, <2>1, Zenon
  <2>4. \A k \in 1..Len(p1) : p[k] = p1[k]
    BY <1>4, <1>7, <2>1
  <2>5. \A k \in 1..Len(p2) : p[Len(p1) + k] = p2[k]
    BY <1>5, <1>7, <1>8, <2>1
  <2>6. FlattenSeq(p) = FlattenSeq(p1) \o FlattenSeq(p2)
    BY <2>2, <2>3, <2>4, <2>5, FlattenConcat
  <2> QED
    BY <2>1, <2>6
<1> QED
  BY <1>1, <1>6, <1>7, <1>8, <1>9

LEMMA CStringEmpty == JS_ToCStringLen(<< >>) = << >>
<1>1. << >> \in Seq(Units16) /\ Len(<< >>) = 0
  OBVIOUS
<1> QED
  BY <1>1, UptoEnds

(* A string of one code point, an unpaired surrogate included. *)
LEMMA CStringOfPoint ==
  ASSUME NEW s \in Seq(Units16), Len(s) # 0, UnitsAt(s, 0) = Len(s)
  PROVE  JS_ToCStringLen(s) = write_utf8(Raw(s, 0))
<1>1. 0 \in 0..(Len(s) - 1) /\ ~Inside(s, 0) /\ 0 + UnitsAt(s, 0) = Len(s)
  BY DEF Inside
<1>2. Upto(s, Len(s)) = Upto(s, 0) \o write_utf8(Raw(s, 0))
  BY <1>1, NextPart
<1>3. Upto(s, 0) = << >> /\ Upto(s, Len(s)) = JS_ToCStringLen(s)
  BY UptoEnds
<1>4. write_utf8(Raw(s, 0)) \in Seq(Octets)
  BY <1>1, RawType, Utf8Written
<1>5. << >> \o write_utf8(Raw(s, 0)) = write_utf8(Raw(s, 0))
  BY <1>4, ConcatEmptySeq
<1> QED
  BY <1>2, <1>3, <1>5

LEMMA CStringOfUnit ==
  ASSUME NEW u \in Units16
  PROVE  JS_ToCStringLen(<<u>>) = write_utf8(u)
<1>1. <<u>> \in Seq(Units16) /\ Len(<<u>>) = 1 /\ <<u>>[0 + 1] = u
  OBVIOUS
<1>2. ~PairAt(<<u>>, 0)
  BY <1>1 DEF PairAt
<1>3. UnitsAt(<<u>>, 0) = 1 /\ Raw(<<u>>, 0) = u
  BY <1>1, <1>2 DEF UnitsAt, Raw
<1>4. Len(<<u>>) # 0 /\ UnitsAt(<<u>>, 0) = Len(<<u>>)
  BY <1>1, <1>3
<1>5. JS_ToCStringLen(<<u>>) = write_utf8(Raw(<<u>>, 0))
  BY <1>1, <1>4, CStringOfPoint, Zenon
<1> QED
  BY <1>3, <1>5

(* The two code units of a code point beyond the first plane. *)
LEMMA PairOf ==
  ASSUME NEW cp \in CodePoints, cp > 65535
  PROVE  \E high \in Units16, low \in Units16 :
            /\ JChars(cp) = <<high, low>> /\ IsHigh(high) /\ IsLow(low)
            /\ cp = 65536 + (high - 55296) * 1024 + (low - 56320)
<1> DEFINE q == cp - 65536
<1>1. q \in Nat /\ q < 16 * 65536 /\ cp = 65536 + q
  BY Sizes DEF CodePoints
<1>2. q \div 1024 \in Nat /\ q \div 1024 < 1024 /\ q % 1024 \in Nat /\ q % 1024 < 1024
  BY <1>1
<1>3. q = (q \div 1024) * 1024 + (q % 1024)
  BY <1>1
<1>4. JChars(cp) = <<55296 + (q \div 1024), 56320 + (q % 1024)>>
  BY <1>1 DEF JChars
<1> HIDE DEF q
<1>5. PICK high, low : high = 55296 + (q \div 1024) /\ low = 56320 + (q % 1024)
  OBVIOUS
<1>6. high \in Units16 /\ low \in Units16
  BY <1>2, <1>5, Sizes DEF Units16
<1>7. IsHigh(high) /\ IsLow(low)
  BY <1>2, <1>5 DEF IsHigh, IsLow
<1>8. high - 55296 = q \div 1024 /\ low - 56320 = q % 1024
  BY <1>2, <1>5
<1>9. cp = 65536 + (high - 55296) * 1024 + (low - 56320)
  BY <1>1, <1>2, <1>3, <1>8
<1>10. JChars(cp) = <<high, low>>
  BY <1>4, <1>5
<1> QED
  BY <1>6, <1>7, <1>9, <1>10

(* The code units that a code point was read as spell that code point.      *)
LEMMA CStringOfChars ==
  ASSUME NEW cp \in CodePoints
  PROVE  JS_ToCStringLen(JChars(cp)) = write_utf8(cp)
<1>0. cp \in Nat
  BY Sizes DEF CodePoints
<1>1. CASE cp <= 65535
  <2>1. cp \in Units16 /\ JChars(cp) = <<cp>>
    BY <1>0, <1>1, Sizes DEF JChars, Units16
  <2> QED
    BY <2>1, CStringOfUnit
<1>2. CASE ~(cp <= 65535)
  <2>1. PICK high \in Units16, low \in Units16 :
            /\ JChars(cp) = <<high, low>> /\ IsHigh(high) /\ IsLow(low)
            /\ cp = 65536 + (high - 55296) * 1024 + (low - 56320)
    BY <1>0, <1>2, PairOf
  <2>2. /\ <<high, low>> \in Seq(Units16) /\ Len(<<high, low>>) = 2
        /\ <<high, low>>[0 + 1] = high /\ <<high, low>>[0 + 2] = low
    OBVIOUS
  <2>3. PICK s \in Seq(Units16) : s = <<high, low>>
    BY <2>2
  <2>4. Len(s) = 2 /\ s[0 + 1] = high /\ s[0 + 2] = low
    BY <2>2, <2>3
  <2>5. PairAt(s, 0)
    BY <2>1, <2>4 DEF PairAt
  <2>6. UnitsAt(s, 0) = 2 /\ Raw(s, 0) = cp
    BY <2>1, <2>4, <2>5 DEF UnitsAt, Raw, CodePoint
  <2>7. JS_ToCStringLen(s) = write_utf8(cp)
    <3>1. Len(s) # 0 /\ UnitsAt(s, 0) = Len(s)
      BY <2>4, <2>6
    <3>2. JS_ToCStringLen(s) = write_utf8(Raw(s, 0))
      BY <3>1, CStringOfPoint, Zenon
    <3> QED
      BY <2>6, <3>2
  <2> QED
    BY <2>1, <2>3, <2>7
<1> QED
  BY <1>1, <1>2

-----------------------------------------------------------------------------
(* The reader inverts the writer *)

LEMMA TrailBits ==
  ASSUME NEW bits \in Nat
  PROVE  IsTrail(Trail(bits)) /\ Trail(bits) % 64 = bits % 64
BY DEF IsTrail, Trail

LEMMA TrailBack ==
  ASSUME NEW b \in Nat, IsTrail(b)
  PROVE  b % 64 \in Nat /\ b % 64 < 64 /\ b = 128 + (b % 64)
BY DEF IsTrail

LEMMA ReadOne ==
  ASSUME NEW len, ByteAt(i + 1) < 128
  PROVE  read_utf8(len) = Read(ByteAt(i + 1), i + 1)
BY DEF read_utf8

(* A lead byte c at i and its continuation bytes. *)
Multibyte(c, len) ==
  /\ c = ByteAt(i + 1) /\ c \in Nat /\ c >= 192 /\ c <= 247
  /\ Lead(c).extra \in Nat /\ i + 1 + Lead(c).extra <= len
  /\ \A k \in 1..Lead(c).extra : IsTrail(ByteAt(i + 1 + k))

ReadWhole(c, len) ==
  read_utf8(len) = Read(Decoded(Lead(c), i + 1), i + 1 + Lead(c).extra)

LEMMA ReadMany ==
  ASSUME NEW len \in Nat, NEW c, i \in Nat, Multibyte(c, len)
  PROVE  ReadWhole(c, len)
<1> USE DEF Multibyte
<1> DEFINE j == i + 1
           bad == {k \in 1..Lead(c).extra : ~IsTrail(ByteAt(j + k))}
           first == CHOOSE k \in bad : \A l \in bad : k <= l
<1>1. read_utf8(len) =
        IF c < 128 THEN Read(c, j)
        ELSE IF c < 192 \/ c > 247 \/ Truncated(j, Lead(c).extra, len)
        THEN Read(replacement_codepoint, j)
        ELSE IF bad = {} THEN Read(Decoded(Lead(c), j), j + Lead(c).extra)
        ELSE Read(replacement_codepoint, j + first)
  BY ZenonT(30) DEF read_utf8
<1>2. ~(c < 128) /\ ~(c < 192 \/ c > 247) /\ ~Truncated(j, Lead(c).extra, len)
  BY DEF Truncated
<1>3. bad = {}
  OBVIOUS
<1> HIDE DEF bad, first, j
<1>4. read_utf8(len) = Read(Decoded(Lead(c), j), j + Lead(c).extra)
  BY <1>1, <1>2, <1>3, Zenon
<1> QED
  BY <1>4 DEF j, ReadWhole

(* What two, three and four bytes spell. *)
Kept(cp, min_cp) == IF Accepted(cp, min_cp) THEN cp ELSE replacement_codepoint

LEMMA DecodedTwo ==
  ASSUME NEW lead, NEW j, lead.extra = 1
  PROVE  Decoded(lead, j) = Kept(lead.bits * 64 + (ByteAt(j + 1) % 64), lead.min_cp)
BY DEF Decoded, Kept

LEMMA DecodedThree ==
  ASSUME NEW lead, NEW j, lead.extra = 2
  PROVE  Decoded(lead, j) =
           Kept((lead.bits * 64 + (ByteAt(j + 1) % 64)) * 64 + (ByteAt(j + 2) % 64), lead.min_cp)
BY DEF Decoded, Kept

LEMMA DecodedFour ==
  ASSUME NEW lead, NEW j, lead.extra = 3
  PROVE  Decoded(lead, j) =
           Kept(((lead.bits * 64 + (ByteAt(j + 1) % 64)) * 64 + (ByteAt(j + 2) % 64)) * 64
                  + (ByteAt(j + 3) % 64), lead.min_cp)
BY DEF Decoded, Kept

(* The bytes at i spell cp. *)
Spelt(cp) ==
  /\ i + utf8_len(cp) <= Len(bytes)
  /\ \A k \in 1..utf8_len(cp) : bytes[i + k] = write_utf8(cp)[k]

(* The reader takes them for cp, or for U+FFFD when cp is a surrogate.      *)
LEMMA ReadBack ==
  ASSUME bytes \in Seq(Octets), i \in Nat, NEW cp \in CodePoints, Spelt(cp)
  PROVE  read_utf8(Len(bytes)) = Read(Readable(cp), i + utf8_len(cp))
<1> DEFINE len == Len(bytes)
           c == ByteAt(i + 1)
<1>0. cp \in Nat /\ cp <= MaxCodePoint /\ cp < 17 * 65536
  BY Sizes DEF CodePoints
<1>b. len \in Nat
  OBVIOUS
<1>1. ASSUME NEW k \in 1..utf8_len(cp), utf8_len(cp) \in Nat
      PROVE  ByteAt(i + k) = write_utf8(cp)[k]
  BY <1>b, <1>1 DEF ByteAt, Spelt
<1>2. \A min_cp \in Nat : min_cp <= cp => Kept(cp, min_cp) = Readable(cp)
  BY <1>0 DEF Kept, Accepted, Readable, IsSurrogate
<1>a. cp \div 64 \in Nat /\ cp \div 4096 \in Nat /\ cp % 64 \in Nat
  BY <1>0
<1>3. CASE cp <= 127
  <2>1. utf8_len(cp) = 1 /\ write_utf8(cp)[1] = cp
    BY <1>3 DEF utf8_len, write_utf8
  <2>2. c = cp
    BY <1>1, <2>1
  <2>3. Readable(cp) = cp
    BY <1>0, <1>3 DEF Readable, IsSurrogate, IsHigh, IsLow
  <2> QED
    BY <1>0, <1>3, <2>1, <2>2, <2>3, ReadOne
<1>4. CASE cp > 127 /\ cp <= 2047
  <2> DEFINE q == cp \div 64
  <2>1. write_utf8(cp) = <<192 + q, Trail(cp)>> /\ utf8_len(cp) = 2
    BY <1>0, <1>4 DEF write_utf8, utf8_len
  <2> HIDE DEF q
  <2>2. c = 192 + q /\ ByteAt(i + 2) = Trail(cp)
    BY <1>1, <2>1
  <2>3. q \in Nat /\ q < 32 /\ cp = q * 64 + (cp % 64) /\ q >= 2
    BY <1>0, <1>4 DEF q
  <2>4. c \in Nat /\ c >= 192 /\ c <= 223 /\ c % 32 = q
    BY <2>2, <2>3
  <2>5. Lead(c) = [bits |-> q, extra |-> 1, min_cp |-> 128]
    BY <2>4 DEF Lead
  <2>6. IsTrail(ByteAt(i + 2)) /\ ByteAt(i + 2) % 64 = cp % 64
    BY <1>0, <2>2, TrailBits
  <2> HIDE DEF c
  <2>7. Decoded(Lead(c), i + 1) = Readable(cp)
    <3>1. (i + 1) + 1 = i + 2
      OBVIOUS
    <3>2. Decoded(Lead(c), i + 1) = Kept(q * 64 + (cp % 64), 128)
      BY <2>5, <2>6, <3>1, DecodedTwo
    <3>3. Kept(cp, 128) = Readable(cp)
      BY <1>0, <1>2, <1>4
    <3> QED
      BY <2>3, <3>2, <3>3
  <2>8. read_utf8(len) = Read(Decoded(Lead(c), i + 1), i + 1 + Lead(c).extra)
    <3>1. i + 1 + 1 = i + 2 /\ i + 2 <= len
      BY <2>1 DEF Spelt
    <3>2. \A k \in 1..1 : IsTrail(ByteAt(i + 1 + k))
      BY <2>6, <3>1
    <3>3. c = ByteAt(i + 1) /\ c <= 247
      BY <2>4 DEF c
    <3>4. Lead(c).extra = 1
      BY <2>5
    <3>5. i + 1 + Lead(c).extra <= len /\ Lead(c).extra \in Nat /\ c >= 192
      BY <2>4, <3>1, <3>4
    <3>6. \A k \in 1..Lead(c).extra : IsTrail(ByteAt(i + 1 + k))
      BY <3>2, <3>4
    <3>7. Multibyte(c, len)
      BY <2>4, <3>3, <3>5, <3>6 DEF Multibyte
    <3> HIDE DEF len
    <3>8. ReadWhole(c, len)
      BY <1>b, <3>7, ReadMany, Zenon
    <3> QED
      BY <3>8 DEF ReadWhole
  <2> QED
    BY <2>1, <2>5, <2>7, <2>8
<1>5. CASE cp > 2047 /\ cp <= 65535
  <2> DEFINE p == cp \div 4096
             q == cp \div 64
  <2>1. write_utf8(cp) = <<224 + p, Trail(q), Trail(cp)>> /\ utf8_len(cp) = 3
    BY <1>0, <1>5 DEF write_utf8, utf8_len
  <2>3. /\ p \in Nat /\ q \in Nat /\ p < 16
        /\ q = p * 64 + (q % 64) /\ cp = q * 64 + (cp % 64)
    BY <1>0, <1>5
  <2> HIDE DEF p, q
  <2>2. c = 224 + p /\ ByteAt(i + 2) = Trail(q) /\ ByteAt(i + 3) = Trail(cp)
    BY <1>1, <2>1
  <2>4. c \in Nat /\ c >= 224 /\ c <= 239 /\ c % 16 = p
    BY <2>2, <2>3
  <2>5. Lead(c) = [bits |-> p, extra |-> 2, min_cp |-> 2048]
    BY <2>4 DEF Lead
  <2>6. /\ IsTrail(ByteAt(i + 2)) /\ ByteAt(i + 2) % 64 = q % 64
        /\ IsTrail(ByteAt(i + 3)) /\ ByteAt(i + 3) % 64 = cp % 64
    <3>1. IsTrail(Trail(q)) /\ Trail(q) % 64 = q % 64
      BY <2>3, TrailBits
    <3>2. IsTrail(Trail(cp)) /\ Trail(cp) % 64 = cp % 64
      BY <1>0, TrailBits
    <3> QED
      BY <2>2, <3>1, <3>2
  <2> HIDE DEF c
  <2>7. Decoded(Lead(c), i + 1) = Readable(cp)
    <3>1. (i + 1) + 1 = i + 2 /\ (i + 1) + 2 = i + 3
      OBVIOUS
    <3>2. Decoded(Lead(c), i + 1) = Kept((p * 64 + (q % 64)) * 64 + (cp % 64), 2048)
      BY <2>5, <2>6, <3>1, DecodedThree
    <3>3. Kept(cp, 2048) = Readable(cp)
      BY <1>0, <1>2, <1>5
    <3> QED
      BY <2>3, <3>2, <3>3
  <2>8. read_utf8(len) = Read(Decoded(Lead(c), i + 1), i + 1 + Lead(c).extra)
    <3>1. i + 1 + 1 = i + 2 /\ i + 1 + 2 = i + 3 /\ i + 3 <= len
      BY <2>1 DEF Spelt
    <3>2. \A k \in 1..2 : IsTrail(ByteAt(i + 1 + k))
      BY <2>6, <3>1
    <3>3. c = ByteAt(i + 1) /\ c <= 247 /\ c >= 192
      BY <2>4 DEF c
    <3>4. Lead(c).extra = 2
      BY <2>5
    <3>5. i + 1 + Lead(c).extra <= len /\ Lead(c).extra \in Nat /\ c >= 192
      BY <2>4, <3>1, <3>4
    <3>6. \A k \in 1..Lead(c).extra : IsTrail(ByteAt(i + 1 + k))
      BY <3>2, <3>4
    <3>7. Multibyte(c, len)
      BY <2>4, <3>3, <3>5, <3>6 DEF Multibyte
    <3> HIDE DEF len
    <3>8. ReadWhole(c, len)
      BY <1>b, <3>7, ReadMany, Zenon
    <3> QED
      BY <3>8 DEF ReadWhole
  <2> QED
    BY <2>1, <2>5, <2>7, <2>8
<1>6. CASE cp > 65535
  <2> DEFINE o == (cp \div 4096) \div 64
             p == cp \div 4096
             q == cp \div 64
  <2>1. write_utf8(cp) = <<240 + o, Trail(p), Trail(q), Trail(cp)>> /\ utf8_len(cp) = 4
    BY <1>0, <1>6 DEF write_utf8, utf8_len
  <2>3. /\ o \in Nat /\ p \in Nat /\ q \in Nat /\ o < 8
        /\ p = o * 64 + (p % 64) /\ q = p * 64 + (q % 64) /\ cp = q * 64 + (cp % 64)
    BY <1>0, <1>6
  <2> HIDE DEF o, p, q
  <2>2. /\ c = 240 + o /\ ByteAt(i + 2) = Trail(p)
        /\ ByteAt(i + 3) = Trail(q) /\ ByteAt(i + 4) = Trail(cp)
    BY <1>1, <2>1
  <2>4. c \in Nat /\ c >= 240 /\ c <= 247 /\ c % 8 = o
    <3>1. o \in Nat /\ o < 8 /\ c = 240 + o
      BY <2>2, <2>3
    <3> HIDE DEF c
    <3> QED
      BY <3>1
  <2>5. Lead(c) = [bits |-> o, extra |-> 3, min_cp |-> 65536]
    BY <2>4 DEF Lead
  <2>6. /\ IsTrail(ByteAt(i + 2)) /\ ByteAt(i + 2) % 64 = p % 64
        /\ IsTrail(ByteAt(i + 3)) /\ ByteAt(i + 3) % 64 = q % 64
        /\ IsTrail(ByteAt(i + 4)) /\ ByteAt(i + 4) % 64 = cp % 64
    <3>1. IsTrail(Trail(p)) /\ Trail(p) % 64 = p % 64
      BY <2>3, TrailBits
    <3>2. IsTrail(Trail(q)) /\ Trail(q) % 64 = q % 64
      BY <2>3, TrailBits
    <3>3. IsTrail(Trail(cp)) /\ Trail(cp) % 64 = cp % 64
      BY <1>0, TrailBits
    <3> QED
      BY <2>2, <3>1, <3>2, <3>3
  <2> HIDE DEF c
  <2>7. Decoded(Lead(c), i + 1) = Readable(cp)
    <3>1. (i + 1) + 1 = i + 2 /\ (i + 1) + 2 = i + 3 /\ (i + 1) + 3 = i + 4
      OBVIOUS
    <3>2. Decoded(Lead(c), i + 1) =
            Kept(((o * 64 + (p % 64)) * 64 + (q % 64)) * 64 + (cp % 64), 65536)
      BY <2>5, <2>6, <3>1, DecodedFour
    <3>3. cp = ((o * 64 + (p % 64)) * 64 + (q % 64)) * 64 + (cp % 64)
      BY <2>3
    <3> QED
      BY <1>0, <1>2, <1>6, <3>2, <3>3
  <2>8. read_utf8(len) = Read(Decoded(Lead(c), i + 1), i + 1 + Lead(c).extra)
    <3>1. i + 1 + 1 = i + 2 /\ i + 1 + 2 = i + 3 /\ i + 1 + 3 = i + 4 /\ i + 4 <= len
      BY <2>1 DEF Spelt
    <3>2. \A k \in 1..3 : IsTrail(ByteAt(i + 1 + k))
      BY <2>6, <3>1
    <3>3. c = ByteAt(i + 1) /\ c <= 247 /\ c >= 192
      BY <2>4 DEF c
    <3>4. Lead(c).extra = 3
      BY <2>5
    <3>5. i + 1 + Lead(c).extra <= len /\ Lead(c).extra \in Nat /\ c >= 192
      BY <2>4, <3>1, <3>4
    <3>6. \A k \in 1..Lead(c).extra : IsTrail(ByteAt(i + 1 + k))
      BY <3>2, <3>4
    <3>7. Multibyte(c, len)
      BY <2>4, <3>3, <3>5, <3>6 DEF Multibyte
    <3> HIDE DEF len
    <3>8. ReadWhole(c, len)
      BY <1>b, <3>7, ReadMany, Zenon
    <3> QED
      BY <3>8 DEF ReadWhole
  <2> QED
    BY <2>1, <2>5, <2>7, <2>8
<1> QED
  BY <1>0, <1>3, <1>4, <1>5, <1>6

LEMMA KeptIs ==
  ASSUME NEW v, NEW min_cp, Kept(v, min_cp) # replacement_codepoint
  PROVE  Kept(v, min_cp) = v /\ v >= min_cp /\ v <= MaxCodePoint /\ ~IsSurrogate(v)
BY DEF Kept, Accepted, IsSurrogate

(* A code point that is read as itself was spelt there by the bytes that    *)
(* are taken for it, and is no surrogate.                                   *)
ReadsExactly(r) ==
  Spelt(r.cp) /\ r.index = i + utf8_len(r.cp) /\ ~IsSurrogate(r.cp)

LEMMA ReadExact ==
  ASSUME bytes \in Seq(Octets), i \in Nat, i < Len(bytes),
         read_utf8(Len(bytes)).cp # replacement_codepoint
  PROVE  ReadsExactly(read_utf8(Len(bytes)))
<1> DEFINE len == Len(bytes)
           j == i + 1
           c == ByteAt(i + 1)
<1>1. c = ByteAt(i + 1)
  OBVIOUS
<1>2. len \in Nat /\ i + 1 <= len
  OBVIOUS
<1>3. \A k \in Nat \ {0} : ByteAt(k) \in Nat /\ ByteAt(k) < 256
  BY Sizes DEF ByteAt, Octets
<1>4. c \in Nat /\ c < 256
  BY <1>1, <1>3
<1>5. \A k \in Nat : k + i <= len /\ k # 0 => bytes[i + k] = ByteAt(i + k)
  BY <1>2 DEF ByteAt
<1>6. CASE c < 128
  <2>1. read_utf8(len) = Read(c, i + 1)
    BY <1>6, ReadOne
  <2> HIDE DEF c
  <2>2. utf8_len(c) = 1 /\ write_utf8(c) = <<c>>
    BY <1>4, <1>6 DEF utf8_len, write_utf8
  <2>3. bytes[i + 1] = c
    BY <1>1, <1>2, <1>5
  <2>4. Spelt(c)
    BY <1>2, <2>2, <2>3 DEF Spelt
  <2>5. ~IsSurrogate(c)
    BY <1>4, <1>6 DEF IsSurrogate, IsHigh, IsLow
  <2> QED
    BY <2>1, <2>2, <2>4, <2>5 DEF Read, ReadsExactly
<1>7. CASE ~(c < 128)
  <2> DEFINE bad == {k \in 1..Lead(c).extra : ~IsTrail(ByteAt(j + k))}
             first == CHOOSE k \in bad : \A l \in bad : k <= l
  <2>1. read_utf8(len) =
          IF c < 128 THEN Read(c, j)
          ELSE IF c < 192 \/ c > 247 \/ Truncated(j, Lead(c).extra, len)
          THEN Read(replacement_codepoint, j)
          ELSE IF bad = {} THEN Read(Decoded(Lead(c), j), j + Lead(c).extra)
          ELSE Read(replacement_codepoint, j + first)
    BY Zenon DEF read_utf8
  <2> HIDE DEF c
  <2>2. \A x : Read(replacement_codepoint, x).cp = replacement_codepoint
    BY DEF Read
  <2> HIDE DEF first
  <2>3. ~(c < 192 \/ c > 247 \/ Truncated(j, Lead(c).extra, len)) /\ bad = {}
    <3> HIDE DEF bad, j
    <3> QED
      BY <1>7, <2>1, <2>2
  <2>4. read_utf8(len) = Read(Decoded(Lead(c), j), j + Lead(c).extra)
    <3> HIDE DEF bad, j
    <3> QED
      BY <1>7, <2>1, <2>3
  <2>5. c >= 192 /\ c <= 247 /\ Lead(c).extra \in 1..3 /\ j + Lead(c).extra <= len
    <3>1. c >= 192 /\ c <= 247
      BY <1>4, <2>3
    <3>2. Lead(c).extra \in 1..3
      BY DEF Lead
    <3>3. j + Lead(c).extra <= len
      BY <1>2, <2>3, <3>2 DEF Truncated
    <3> QED
      BY <3>1, <3>2, <3>3
  <2>6. \A k \in 1..Lead(c).extra : IsTrail(ByteAt(j + k))
    BY <2>3
  <2>7. Decoded(Lead(c), j) # replacement_codepoint
    BY <2>4 DEF Read
  <2> HIDE DEF bad
  <2>8. CASE c <= 223
    <3> DEFINE q == c - 192
    <3>1. Lead(c) = [bits |-> q, extra |-> 1, min_cp |-> 128] /\ q \in Nat /\ q < 32
      BY <1>4, <2>5, <2>8 DEF Lead
    <3>2. PICK b : b = ByteAt(i + 2)
      OBVIOUS
    <3> DEFINE d == b % 64
               v == q * 64 + d
    <3>3. j + 1 = i + 2 /\ i + 2 <= len
      BY <2>5, <3>1
    <3>4. d \in Nat /\ d < 64 /\ b = 128 + d
      <4>1. b \in Nat /\ IsTrail(b)
        BY <1>3, <2>6, <3>1, <3>2, <3>3
      <4> QED
        BY <4>1, TrailBack
    <3>5. Decoded(Lead(c), j) = Kept(v, 128)
      BY <3>1, <3>2, <3>3, DecodedTwo
    <3>6. Decoded(Lead(c), j) = v /\ v >= 128 /\ ~IsSurrogate(v)
      BY <2>7, <3>5, KeptIs
    <3> HIDE DEF q, d
    <3>7. v \in Nat /\ v <= 2047 /\ v \div 64 = q /\ v % 64 = d
      BY <3>1, <3>4
    <3>8. utf8_len(v) = 2 /\ write_utf8(v) = <<192 + q, 128 + d>>
      <4> HIDE DEF v
      <4> QED
        BY <3>6, <3>7 DEF utf8_len, write_utf8, Trail
    <3>9. bytes[i + 1] = c /\ bytes[i + 2] = b
      BY <1>1, <1>2, <1>5, <3>2, <3>3
    <3>10. c = 192 + q
      BY <1>4 DEF q
    <3> HIDE DEF v
    <3>11. Spelt(v)
      BY <3>3, <3>4, <3>8, <3>9, <3>10 DEF Spelt
    <3>12. read_utf8(len) = Read(v, i + 2)
      BY <2>4, <3>1, <3>3, <3>6
    <3> QED
      BY <3>6, <3>8, <3>11, <3>12 DEF Read, ReadsExactly
  <2>9. CASE c > 223 /\ c <= 239
    <3> DEFINE q == c - 224
    <3>1. Lead(c) = [bits |-> q, extra |-> 2, min_cp |-> 2048] /\ q \in Nat /\ q < 16
      <4>1. q \in Nat /\ q < 16 /\ c % 16 = q
        BY <1>4, <2>5, <2>9
      <4> HIDE DEF q
      <4> QED
        BY <1>4, <2>9, <4>1 DEF Lead
    <3>2. PICK b1, b2 : b1 = ByteAt(i + 2) /\ b2 = ByteAt(i + 3)
      OBVIOUS
    <3> DEFINE d1 == b1 % 64
               d2 == b2 % 64
               w == q * 64 + d1
               v == w * 64 + d2
    <3>3. j + 1 = i + 2 /\ j + 2 = i + 3 /\ i + 3 <= len
      BY <2>5, <3>1
    <3>4. /\ d1 \in Nat /\ d1 < 64 /\ b1 = 128 + d1
          /\ d2 \in Nat /\ d2 < 64 /\ b2 = 128 + d2
      <4>0. \A k \in 1..2 : IsTrail(ByteAt(j + k))
        <5>1. Lead(c).extra = 2
          BY <3>1
        <5> QED
          BY <2>6, <5>1, Zenon
      <4>1. b1 \in Nat /\ IsTrail(b1)
        BY <1>3, <3>2, <3>3, <4>0
      <4>2. b2 \in Nat /\ IsTrail(b2)
        BY <1>3, <3>2, <3>3, <4>0
      <4> QED
        BY <4>1, <4>2, TrailBack
    <3>5. Decoded(Lead(c), j) = Kept(v, 2048)
      BY <3>1, <3>2, <3>3, DecodedThree
    <3>6. Decoded(Lead(c), j) = v /\ v >= 2048 /\ ~IsSurrogate(v)
      BY <2>7, <3>5, KeptIs
    <3> HIDE DEF q, d1, d2
    <3>7. w \in Nat /\ w < 1024 /\ w \div 64 = q /\ w % 64 = d1
      BY <3>1, <3>4
    <3> HIDE DEF w
    <3>8. v \in Nat /\ v <= 65535 /\ v \div 64 = w /\ v % 64 = d2
      BY <3>4, <3>7
    <3> HIDE DEF v
    <3>9. v \div 4096 = q
      <4>1. v \div 4096 = (v \div 64) \div 64
        BY <3>8
      <4> QED
        BY <3>7, <3>8, <4>1
    <3>10. utf8_len(v) = 3 /\ write_utf8(v) = <<224 + q, 128 + d1, 128 + d2>>
      <4>1. ~(v <= 127) /\ ~(v <= 2047) /\ v <= 65535
        BY <3>6, <3>8
      <4>2. Trail(v \div 64) = 128 + d1 /\ Trail(v) = 128 + d2
        BY <3>7, <3>8 DEF Trail
      <4> QED
        BY <3>9, <4>1, <4>2 DEF utf8_len, write_utf8
    <3>11. bytes[i + 1] = c /\ bytes[i + 2] = b1 /\ bytes[i + 3] = b2
      BY <1>1, <1>2, <1>5, <3>2, <3>3
    <3>12. c = 224 + q
      BY <1>4 DEF q
    <3>13. Spelt(v)
      BY <3>3, <3>4, <3>10, <3>11, <3>12 DEF Spelt
    <3>14. read_utf8(len) = Read(v, i + 3)
      BY <2>4, <3>1, <3>3, <3>6
    <3> QED
      BY <3>6, <3>10, <3>13, <3>14 DEF Read, ReadsExactly
  <2>10. CASE c > 239
    <3> DEFINE q == c - 240
    <3>1. Lead(c) = [bits |-> q, extra |-> 3, min_cp |-> 65536] /\ q \in Nat /\ q < 8
      <4>1. q \in Nat /\ q < 8 /\ c % 8 = q
        BY <1>4, <2>5, <2>10
      <4> HIDE DEF q
      <4> QED
        BY <1>4, <2>10, <4>1 DEF Lead
    <3>2. PICK b1, b2, b3 : b1 = ByteAt(i + 2) /\ b2 = ByteAt(i + 3) /\ b3 = ByteAt(i + 4)
      OBVIOUS
    <3> DEFINE d1 == b1 % 64
               d2 == b2 % 64
               d3 == b3 % 64
               u == q * 64 + d1
               w == u * 64 + d2
               v == w * 64 + d3
    <3>3. j + 1 = i + 2 /\ j + 2 = i + 3 /\ j + 3 = i + 4 /\ i + 4 <= len
      BY <2>5, <3>1
    <3>4. /\ d1 \in Nat /\ d1 < 64 /\ b1 = 128 + d1
          /\ d2 \in Nat /\ d2 < 64 /\ b2 = 128 + d2
          /\ d3 \in Nat /\ d3 < 64 /\ b3 = 128 + d3
      <4>0. \A k \in 1..3 : IsTrail(ByteAt(j + k))
        <5>1. Lead(c).extra = 3
          BY <3>1
        <5> QED
          BY <2>6, <5>1, Zenon
      <4>1. b1 \in Nat /\ IsTrail(b1)
        BY <1>3, <3>2, <3>3, <4>0
      <4>2. b2 \in Nat /\ IsTrail(b2)
        BY <1>3, <3>2, <3>3, <4>0
      <4>3. b3 \in Nat /\ IsTrail(b3)
        BY <1>3, <3>2, <3>3, <4>0
      <4> QED
        BY <4>1, <4>2, <4>3, TrailBack
    <3>5. Decoded(Lead(c), j) = Kept(v, 65536)
      BY <3>1, <3>2, <3>3, DecodedFour
    <3>6. Decoded(Lead(c), j) = v /\ v >= 65536 /\ ~IsSurrogate(v)
      BY <2>7, <3>5, KeptIs
    <3> HIDE DEF q, d1, d2, d3
    <3>7. u \in Nat /\ u \div 64 = q /\ u % 64 = d1
      BY <3>1, <3>4
    <3> HIDE DEF u
    <3>8. w \in Nat /\ w \div 64 = u /\ w % 64 = d2
      BY <3>4, <3>7
    <3> HIDE DEF w
    <3>9. v \in Nat /\ v \div 64 = w /\ v % 64 = d3
      BY <3>4, <3>8
    <3> HIDE DEF v
    <3>10. v \div 4096 = u
      <4>1. v \div 4096 = (v \div 64) \div 64
        BY <3>9
      <4> QED
        BY <3>8, <3>9, <4>1
    <3>11. utf8_len(v) = 4 /\ write_utf8(v) = <<240 + q, 128 + d1, 128 + d2, 128 + d3>>
      <4>1. ~(v <= 127) /\ ~(v <= 2047) /\ ~(v <= 65535)
        BY <3>6, <3>9
      <4>2. (v \div 4096) \div 64 = q
        BY <3>7, <3>10
      <4>3. Trail(v \div 4096) = 128 + d1 /\ Trail(v \div 64) = 128 + d2 /\ Trail(v) = 128 + d3
        BY <3>7, <3>8, <3>9, <3>10 DEF Trail
      <4> QED
        BY <4>1, <4>2, <4>3 DEF utf8_len, write_utf8
    <3>12. bytes[i + 1] = c /\ bytes[i + 2] = b1 /\ bytes[i + 3] = b2 /\ bytes[i + 4] = b3
      BY <1>1, <1>2, <1>5, <3>2, <3>3
    <3>13. c = 240 + q
      BY <1>4 DEF q
    <3>14. Spelt(v)
      BY <3>3, <3>4, <3>11, <3>12, <3>13 DEF Spelt
    <3>15. read_utf8(len) = Read(v, i + 4)
      BY <2>4, <3>1, <3>3, <3>6
    <3> QED
      BY <3>6, <3>11, <3>14, <3>15 DEF Read, ReadsExactly
  <2> QED
    BY <1>4, <2>8, <2>9, <2>10
<1> QED
  BY <1>6, <1>7

(* What is read is never a surrogate.                                       *)
LEMMA ReadNoSurrogate ==
  ASSUME bytes \in Seq(Octets), i \in Nat, i < Len(bytes)
  PROVE  ~IsSurrogate(read_utf8(Len(bytes)).cp)
<1>1. CASE read_utf8(Len(bytes)).cp = replacement_codepoint
  BY <1>1 DEF replacement_codepoint, IsSurrogate, IsHigh, IsLow
<1>2. CASE read_utf8(Len(bytes)).cp # replacement_codepoint
  BY <1>2, ReadExact DEF ReadsExactly
<1> QED
  BY <1>1, <1>2

-----------------------------------------------------------------------------
(* Text without unpaired surrogates *)

LEMMA ReplacementIsText ==
  /\ replacement_codepoint \in Units16 /\ replacement_codepoint \in CodePoints
  /\ ~IsSurrogate(replacement_codepoint) /\ ~IsHigh(replacement_codepoint)
  /\ ~IsLow(replacement_codepoint)
<1>1. ~IsHigh(replacement_codepoint) /\ ~IsLow(replacement_codepoint)
  BY DEF replacement_codepoint, IsHigh, IsLow
<1>2. replacement_codepoint \in Units16 /\ replacement_codepoint \in CodePoints
  BY Sizes DEF replacement_codepoint, Units16, CodePoints
<1> QED
  BY <1>1, <1>2 DEF IsSurrogate

LEMMA CleanType ==
  ASSUME NEW s \in Seq(Units16)
  PROVE  Clean(s) \in Seq(Units16) /\ Len(Clean(s)) = Len(s)
<1>1. \A k \in 1..Len(s) : Clean(s)[k] \in Units16
  <2>1. \A k \in 1..Len(s) : Clean(s)[k] \in {replacement_codepoint, s[k]}
    BY DEF Clean
  <2> QED
    BY <2>1, ReplacementIsText
<1>2. Clean(s) = [k \in 1..Len(s) |-> Clean(s)[k]] /\ Len(s) \in Nat
  BY DEF Clean
<1> QED
  BY <1>1, <1>2

LEMMA HighOrLow ==
  ASSUME NEW u \in Units16
  PROVE  ~(IsHigh(u) /\ IsLow(u))
<1>1. u \in Nat
  BY Sizes DEF Units16
<1> QED
  BY <1>1 DEF IsHigh, IsLow

LEMMA PairedAt ==
  ASSUME NEW s \in Seq(Units16), NEW k \in 1..Len(s)
  PROVE  Paired(s, k) <=> PairAt(s, k - 1) \/ (k > 1 /\ PairAt(s, k - 2))
<1>1. /\ (k - 1) + 1 = k /\ (k - 1) + 2 = k + 1 /\ (k - 2) + 1 = k - 1 /\ (k - 2) + 2 = k
      /\ k - 1 < Len(s)
  OBVIOUS
<1> QED
  BY <1>1 DEF Paired, PairAt

(* A code point as the reader writes it: what Clean has there. *)
LEMMA CleanAt ==
  ASSUME NEW s \in Seq(Units16), NEW k \in 0..(Len(s) - 1), ~Inside(s, k)
  PROVE  /\ CodePoint(s, k) = Readable(Raw(s, k))
         /\ Len(JChars(CodePoint(s, k))) = UnitsAt(s, k)
         /\ \A l \in 1..UnitsAt(s, k) : JChars(CodePoint(s, k))[l] = Clean(s)[k + l]
<1>1. k + 1 \in 1..Len(s) /\ s[k + 1] \in Units16 /\ (k + 1) - 1 = k /\ (k + 1) - 2 = k - 1
  OBVIOUS
<1>2. CASE PairAt(s, k)
  <2>1. /\ k + 2 \in 1..Len(s) /\ s[k + 2] \in Units16
        /\ (k + 2) - 1 = k + 1 /\ (k + 2) - 2 = k /\ k + 2 > 1
    BY <1>2 DEF PairAt
  <2>2. Paired(s, k + 1) /\ Paired(s, k + 2)
    <3>1. Paired(s, k + 1)
      BY <1>1, <1>2, PairedAt
    <3>2. Paired(s, k + 2)
      BY <1>2, <2>1, PairedAt
    <3> QED
      BY <3>1, <3>2
  <2>3. Clean(s)[k + 1] = s[k + 1] /\ Clean(s)[k + 2] = s[k + 2]
    BY <1>1, <2>1, <2>2 DEF Clean
  <2>4. PICK high \in Nat, low \in Nat : high = s[k + 1] /\ low = s[k + 2]
    BY <1>1, <2>1, Sizes DEF Units16
  <2>5. high >= 55296 /\ high <= 56319 /\ low >= 56320 /\ low <= 57343
    BY <1>2, <2>4 DEF PairAt, IsHigh, IsLow
  <2> DEFINE Paired16(h, l) == 65536 + (h - 55296) * 1024 + (l - 56320)
  <2>6. PICK cp : cp = Paired16(high, low)
    OBVIOUS
  <2>7. CodePoint(s, k) = cp
    <3>1. CodePoint(s, k) = Paired16(s[k + 1], s[k + 2])
      BY <1>2 DEF CodePoint
    <3> HIDE DEF Paired16
    <3> QED
      BY <2>4, <2>6, <3>1
  <2>8. PICK a \in Nat, b \in Nat : a = high - 55296 /\ b = low - 56320 /\ b < 1024
    <3> HIDE DEF Paired16
    <3>1. high - 55296 \in Nat /\ low - 56320 \in Nat /\ low - 56320 < 1024
      BY <2>4, <2>5
    <3> QED
      BY <3>1
  <2>9. /\ cp \in Nat /\ cp > 65535
        /\ (cp - 65536) \div 1024 = high - 55296 /\ (cp - 65536) % 1024 = low - 56320
    <3>1. (a * 1024 + b) \div 1024 = a /\ (a * 1024 + b) % 1024 = b
      BY <2>8
    <3>2. cp = 65536 + a * 1024 + b
      BY <2>6, <2>8
    <3>3. cp \in Nat /\ cp > 65535 /\ cp - 65536 = a * 1024 + b
      BY <3>2
    <3> QED
      BY <2>8, <3>1, <3>3
  <2>10. JChars(cp) = <<high, low>>
    <3>1. 55296 + (high - 55296) = high /\ 56320 + (low - 56320) = low
      BY <2>4
    <3>2. ~(cp <= 65535)
      BY <2>9
    <3>3. JChars(cp) = <<55296 + ((cp - 65536) \div 1024), 56320 + ((cp - 65536) % 1024)>>
      BY <3>2 DEF JChars
    <3> QED
      BY <2>9, <3>1, <3>3
  <2>11. ~IsSurrogate(cp)
    BY <2>9 DEF IsSurrogate, IsHigh, IsLow
  <2>12. Raw(s, k) = cp /\ Readable(cp) = cp /\ UnitsAt(s, k) = 2
    BY <1>2, <2>7, <2>11 DEF Raw, Readable, UnitsAt
  <2>13. Len(<<high, low>>) = 2 /\ <<high, low>>[1] = high /\ <<high, low>>[2] = low
    OBVIOUS
  <2>14. \A l \in 1..2 : JChars(cp)[l] = Clean(s)[k + l]
    BY <2>3, <2>4, <2>10, <2>13
  <2> QED
    BY <2>7, <2>10, <2>12, <2>13, <2>14
<1>3. CASE ~PairAt(s, k)
  <2>1. ~Paired(s, k + 1)
    <3>1. ~((k + 1) > 1 /\ PairAt(s, k - 1))
      BY DEF Inside
    <3> QED
      BY <1>1, <1>3, <3>1, PairedAt
  <2>2. PICK u \in Units16 : u = s[k + 1]
    BY <1>1
  <2>3. Clean(s)[k + 1] = Readable(u)
    BY <1>1, <2>1, <2>2 DEF Clean, Readable, IsSurrogate
  <2>4. CodePoint(s, k) = Readable(u) /\ Raw(s, k) = u /\ UnitsAt(s, k) = 1
    BY <1>3, <2>2 DEF CodePoint, Readable, IsSurrogate, Raw, UnitsAt
  <2>5. JChars(Readable(u)) = <<Readable(u)>>
    <3>1. Readable(u) \in Units16
      BY ReplacementIsText DEF Readable
    <3>2. Readable(u) <= 65535
      BY <3>1, Sizes DEF Units16
    <3> QED
      BY <3>2 DEF JChars
  <2>6. \A x : Len(<<x>>) = 1 /\ <<x>>[1] = x
    OBVIOUS
  <2> QED
    BY <2>3, <2>4, <2>5, <2>6
<1> QED
  BY <1>2, <1>3

LEMMA CleanPairs ==
  ASSUME NEW s \in Seq(Units16), NEW k \in Nat
  PROVE  PairAt(Clean(s), k) <=> PairAt(s, k)
<1>0. Len(Clean(s)) = Len(s)
  BY CleanType
<1>1. SUFFICES ASSUME k + 1 < Len(s) PROVE PairAt(Clean(s), k) <=> PairAt(s, k)
  BY <1>0 DEF PairAt
<1>2. /\ k + 1 \in 1..Len(s) /\ k + 2 \in 1..Len(s)
      /\ (k + 1) - 1 = k /\ (k + 2) - 2 = k /\ k + 2 > 1
  BY <1>1
<1>3. ASSUME PairAt(s, k) PROVE PairAt(Clean(s), k)
  <2>1. Paired(s, k + 1)
    BY <1>2, <1>3, PairedAt
  <2>2. Paired(s, k + 2)
    BY <1>2, <1>3, PairedAt
  <2>3. Clean(s)[k + 1] = s[k + 1] /\ Clean(s)[k + 2] = s[k + 2]
    BY <1>2, <2>1, <2>2 DEF Clean
  <2> QED
    BY <1>0, <1>3, <2>3 DEF PairAt
<1>4. ASSUME PairAt(Clean(s), k) PROVE PairAt(s, k)
  <2>1. IsHigh(Clean(s)[k + 1]) /\ IsLow(Clean(s)[k + 2])
    BY <1>4 DEF PairAt
  <2>2. Clean(s)[k + 1] \in {replacement_codepoint, s[k + 1]}
    BY <1>2 DEF Clean
  <2>3. Clean(s)[k + 2] \in {replacement_codepoint, s[k + 2]}
    BY <1>2 DEF Clean
  <2> QED
    BY <1>1, <2>1, <2>2, <2>3, ReplacementIsText DEF PairAt
<1> QED
  BY <1>3, <1>4

LEMMA CleanPaired ==
  ASSUME NEW s \in Seq(Units16), NEW k \in 1..Len(s)
  PROVE  Paired(Clean(s), k) <=> Paired(s, k)
<1>1. Clean(s) \in Seq(Units16) /\ Len(Clean(s)) = Len(s)
  BY CleanType
<1>2. Paired(s, k) <=> PairAt(s, k - 1) \/ (k > 1 /\ PairAt(s, k - 2))
  BY PairedAt
<1>3. Paired(Clean(s), k) <=> PairAt(Clean(s), k - 1) \/ (k > 1 /\ PairAt(Clean(s), k - 2))
  <2>1. PICK t \in Seq(Units16) : t = Clean(s) /\ k \in 1..Len(t)
    BY <1>1
  <2>2. Paired(t, k) <=> PairAt(t, k - 1) \/ (k > 1 /\ PairAt(t, k - 2))
    BY <2>1, PairedAt
  <2> QED
    BY <2>1, <2>2
<1>4. k - 1 \in Nat /\ (k > 1 => k - 2 \in Nat)
  OBVIOUS
<1>5. PairAt(Clean(s), k - 1) <=> PairAt(s, k - 1)
  BY <1>4, CleanPairs
<1>6. k > 1 => (PairAt(Clean(s), k - 2) <=> PairAt(s, k - 2))
  BY <1>4, CleanPairs
<1> QED
  BY <1>2, <1>3, <1>5, <1>6

(* What is clean: every surrogate is half of a pair. *)
LEMMA CleanIs ==
  ASSUME NEW s \in Seq(Units16)
  PROVE  (s = Clean(s)) <=> \A k \in 1..Len(s) : IsSurrogate(s[k]) => Paired(s, k)
<1>1. ASSUME s = Clean(s), NEW k \in 1..Len(s), IsSurrogate(s[k]) PROVE Paired(s, k)
  <2>1. SUFFICES ASSUME ~Paired(s, k) PROVE FALSE
    OBVIOUS
  <2>2. Clean(s)[k] = replacement_codepoint
    BY <1>1, <2>1 DEF Clean, IsSurrogate
  <2> QED
    BY <1>1, <2>2, ReplacementIsText
<1>2. ASSUME \A k \in 1..Len(s) : IsSurrogate(s[k]) => Paired(s, k) PROVE s = Clean(s)
  <2>1. \A k \in 1..Len(s) : Clean(s)[k] = s[k]
    BY <1>2 DEF Clean, IsSurrogate
  <2>2. Clean(s) \in Seq(Units16) /\ Len(Clean(s)) = Len(s)
    BY CleanType
  <2> QED
    BY <2>1, <2>2, SeqEqual
<1> QED
  BY <1>1, <1>2

LEMMA CleanTwice ==
  ASSUME NEW s \in Seq(Units16)
  PROVE  Clean(Clean(s)) = Clean(s)
<1>1. PICK t \in Seq(Units16) : t = Clean(s) /\ Len(t) = Len(s)
  BY CleanType
<1>2. ASSUME NEW k \in 1..Len(t), IsSurrogate(t[k]) PROVE Paired(t, k)
  <2>1. Paired(s, k)
    BY <1>1, <1>2, ReplacementIsText DEF Clean, IsSurrogate
  <2> QED
    BY <1>1, <2>1, CleanPaired
<1>3. t = Clean(t)
  BY <1>2, CleanIs
<1> QED
  BY <1>1, <1>3

(* The writer of a Java string writes the clean one. *)
LEMMA CleanRaw ==
  ASSUME NEW s \in Seq(Units16), NEW k \in 0..(Len(s) - 1), ~Inside(s, k)
  PROVE  /\ Raw(Clean(s), k) = CodePoint(s, k)
         /\ UnitsAt(Clean(s), k) = UnitsAt(s, k) /\ ~Inside(Clean(s), k)
<1>1. PairAt(Clean(s), k) <=> PairAt(s, k)
  BY CleanPairs
<1>2. UnitsAt(Clean(s), k) = UnitsAt(s, k)
  BY <1>1 DEF UnitsAt
<1>3. ~Inside(Clean(s), k)
  <2>1. k > 0 => k - 1 \in Nat
    OBVIOUS
  <2>2. k > 0 => (PairAt(Clean(s), k - 1) <=> PairAt(s, k - 1))
    BY <2>1, CleanPairs
  <2> QED
    BY <2>2 DEF Inside
<1>4. CASE PairAt(s, k)
  <2>1. Clean(s)[k + 1] = s[k + 1] /\ Clean(s)[k + 2] = s[k + 2]
    <3>1. /\ k + 1 \in 1..Len(s) /\ k + 2 \in 1..Len(s)
          /\ (k + 1) - 1 = k /\ (k + 2) - 2 = k /\ k + 2 > 1
      BY <1>4 DEF PairAt
    <3>2. Paired(s, k + 1)
      BY <1>4, <3>1, PairedAt
    <3>3. Paired(s, k + 2)
      BY <1>4, <3>1, PairedAt
    <3> QED
      BY <3>1, <3>2, <3>3 DEF Clean
  <2> QED
    BY <1>1, <1>2, <1>3, <1>4, <2>1 DEF Raw, CodePoint
<1>5. CASE ~PairAt(s, k)
  <2>1. UnitsAt(s, k) = 1
    BY <1>5 DEF UnitsAt
  <2>2. Len(JChars(CodePoint(s, k))) = 1 /\ JChars(CodePoint(s, k))[1] = Clean(s)[k + 1]
    <3>1. /\ Len(JChars(CodePoint(s, k))) = UnitsAt(s, k)
          /\ \A l \in 1..UnitsAt(s, k) : JChars(CodePoint(s, k))[l] = Clean(s)[k + l]
      BY CleanAt
    <3>2. 1 \in 1..UnitsAt(s, k)
      BY <2>1
    <3> QED
      BY <2>1, <3>1, <3>2
  <2>3. CodePoint(s, k) \in CodePoints
    BY CodePointType
  <2>4. JChars(CodePoint(s, k)) = <<CodePoint(s, k)>>
    <3>1. PICK cp : cp = CodePoint(s, k)
      OBVIOUS
    <3>2. Len(JChars(cp)) = 1
      BY <2>2, <3>1
    <3>3. JChars(cp) = <<cp>>
      BY <3>2 DEF JChars
    <3> QED
      BY <3>1, <3>3
  <2>5. Clean(s)[k + 1] = CodePoint(s, k)
    BY <2>2, <2>4
  <2> QED
    BY <1>1, <1>2, <1>3, <1>5, <2>5 DEF Raw
<1> QED
  BY <1>4, <1>5

LEMMA CleanConcat ==
  ASSUME NEW s1 \in Seq(Units16), NEW s2 \in Seq(Units16), NoSpan(s1, s2),
         s1 = Clean(s1), s2 = Clean(s2)
  PROVE  s1 \o s2 = Clean(s1 \o s2)
<1>1. PICK s \in Seq(Units16) : s = s1 \o s2
  BY ConcatProperties
<1> DEFINE n == Len(s1)
           m == Len(s2)
<1>2. /\ Len(s) = n + m
      /\ \A k \in 1..n : s[k] = s1[k]
      /\ \A k \in 1..m : s[n + k] = s2[k]
      /\ \A k \in 0..(n - 1) : PairAt(s, k) <=> PairAt(s1, k)
      /\ \A k \in 0..(m - 1) : PairAt(s, n + k) <=> PairAt(s2, k)
  <2>1. Splits(s, s1, s2)
    BY <1>1, PairConcat
  <2> QED
    BY <2>1 DEF Splits
<1>3. n \in Nat /\ m \in Nat
  OBVIOUS
<1>4. ASSUME NEW k \in 1..n, IsSurrogate(s[k]) PROVE Paired(s, k)
  <2>1. k \in 1..Len(s) /\ s[k] = s1[k] /\ k - 1 \in 0..(n - 1) /\ (k > 1 => k - 2 \in 0..(n - 1))
    BY <1>2, <1>3
  <2>2. Paired(s1, k)
    BY <1>4, <2>1, CleanIs
  <2>3. PairAt(s1, k - 1) \/ (k > 1 /\ PairAt(s1, k - 2))
    BY <2>2, PairedAt
  <2>4. PairAt(s, k - 1) \/ (k > 1 /\ PairAt(s, k - 2))
    BY <1>2, <2>1, <2>3
  <2> QED
    BY <2>1, <2>4, PairedAt
<1>5. ASSUME NEW k \in 1..m, IsSurrogate(s[n + k]) PROVE Paired(s, n + k)
  <2>1. /\ n + k \in 1..Len(s) /\ s[n + k] = s2[k]
        /\ k - 1 \in 0..(m - 1) /\ (k > 1 => k - 2 \in 0..(m - 1) /\ n + k > 1)
        /\ (n + k) - 1 = n + (k - 1) /\ (n + k) - 2 = n + (k - 2)
    BY <1>2, <1>3
  <2>2. Paired(s2, k)
    BY <1>5, <2>1, CleanIs
  <2>3. PairAt(s2, k - 1) \/ (k > 1 /\ PairAt(s2, k - 2))
    BY <2>2, PairedAt
  <2>4. PairAt(s, (n + k) - 1) \/ (n + k > 1 /\ PairAt(s, (n + k) - 2))
    BY <1>2, <2>1, <2>3
  <2> QED
    BY <2>1, <2>4, PairedAt
<1>6. ASSUME NEW k \in 1..Len(s), IsSurrogate(s[k]) PROVE Paired(s, k)
  <2>1. CASE k <= n
    BY <1>3, <1>4, <1>6, <2>1
  <2>2. CASE ~(k <= n)
    <3>1. k - n \in 1..m /\ n + (k - n) = k
      BY <1>2, <1>3, <2>2
    <3> QED
      BY <1>5, <1>6, <3>1
  <2> QED
    BY <2>1, <2>2
<1> QED
  BY <1>1, <1>6, CleanIs

(* A code point that is no surrogate makes clean text, after any text.      *)
LEMMA CharsClean ==
  ASSUME NEW cp \in CodePoints, ~IsSurrogate(cp)
  PROVE  /\ JChars(cp) \in Seq(Units16) /\ JChars(cp) = Clean(JChars(cp))
         /\ \A s \in Seq(Units16) : NoSpan(s, JChars(cp))
         /\ cp = replacement_codepoint =>
              Len(JChars(cp)) = 1 /\ JChars(cp)[1] = replacement_codepoint
<1>0. cp \in Nat
  BY Sizes DEF CodePoints
<1>1. JChars(cp) \in Seq(Units16)
  BY JCharsType
<1>2. PICK s \in Seq(Units16) : s = JChars(cp)
  BY <1>1
<1>3. CASE cp <= 65535
  <2>1. s = <<cp>>
    BY <1>2, <1>3 DEF JChars
  <2>2. Len(s) = 1 /\ s[1] = cp
    BY <2>1
  <2>3. s = Clean(s)
    BY <2>2, CleanIs
  <2>4. \A t : NoSpan(t, s)
    BY <2>2 DEF NoSpan, IsSurrogate
  <2> QED
    BY <1>2, <2>2, <2>3, <2>4
<1>4. CASE ~(cp <= 65535)
  <2>1. PICK high \in Units16, low \in Units16 :
            JChars(cp) = <<high, low>> /\ IsHigh(high) /\ IsLow(low)
    BY <1>0, <1>4, PairOf
  <2>2. Len(s) = 2 /\ s[1] = high /\ s[2] = low
    BY <1>2, <2>1
  <2>3. Paired(s, 1) /\ Paired(s, 2)
    BY <2>1, <2>2 DEF Paired
  <2>4. s = Clean(s)
    BY <2>2, <2>3, CleanIs
  <2>5. ~IsLow(s[1])
    BY <2>1, <2>2, HighOrLow
  <2>6. \A t : NoSpan(t, s)
    BY <2>5 DEF NoSpan
  <2>7. cp # replacement_codepoint
    BY <1>4, Sizes, ReplacementIsText DEF replacement_codepoint
  <2> QED
    BY <1>2, <2>4, <2>6, <2>7
<1> QED
  BY <1>3, <1>4

LEMMA Prefix ==
  ASSUME NEW S, NEW s \in Seq(S), NEW n \in 0..Len(s)
  PROVE  /\ SubSeq(s, 1, n) \in Seq(S) /\ Len(SubSeq(s, 1, n)) = n
         /\ \A k \in 1..n : SubSeq(s, 1, n)[k] = s[k]
OBVIOUS

LEMMA SpeltNext ==
  ASSUME bytes \in Seq(Octets), i \in Nat, NEW cp \in CodePoints, Spelt(cp)
  PROVE  SubSeq(bytes, 1, i) \o write_utf8(cp) = SubSeq(bytes, 1, i + utf8_len(cp))
<1>1. PICK w \in Seq(Octets) : w = write_utf8(cp) /\ Len(w) = utf8_len(cp)
  BY Utf8Written
<1>2. PICK n \in Nat : n = Len(w)
  OBVIOUS
<1>3. i + n <= Len(bytes) /\ \A k \in 1..n : bytes[i + k] = w[k]
  BY <1>1, <1>2 DEF Spelt
<1>4. PICK a : a = SubSeq(bytes, 1, i)
  OBVIOUS
<1>5. PICK b : b = SubSeq(bytes, 1, i + n)
  OBVIOUS
<1>a. a \in Seq(Octets) /\ Len(a) = i /\ \A k \in 1..i : a[k] = bytes[k]
  <2>1. i \in 0..Len(bytes)
    BY <1>3
  <2> QED
    BY <1>4, <2>1, Prefix
<1>b. b \in Seq(Octets) /\ Len(b) = i + n /\ \A k \in 1..(i + n) : b[k] = bytes[k]
  <2>1. i + n \in 0..Len(bytes)
    BY <1>3
  <2> QED
    BY <1>5, <2>1, Prefix
<1>6. /\ a \o w \in Seq(Octets) /\ Len(a \o w) = i + n
      /\ \A k \in 1..(i + n) : (a \o w)[k] = IF k <= i THEN a[k] ELSE w[k - i]
  <2>1. /\ a \o w \in Seq(Octets) /\ Len(a \o w) = Len(a) + Len(w)
        /\ \A k \in 1..(Len(a) + Len(w)) : (a \o w)[k] = IF k <= Len(a) THEN a[k] ELSE w[k - Len(a)]
    BY <1>a, ConcatProperties
  <2> QED
    BY <1>2, <1>a, <2>1
<1>7. ASSUME NEW k \in 1..(i + n) PROVE (a \o w)[k] = b[k]
  <2>1. CASE k <= i
    BY <1>a, <1>b, <1>6, <2>1
  <2>2. CASE ~(k <= i)
    <3>1. k - i \in 1..n /\ i + (k - i) = k
      BY <2>2
    <3>2. w[k - i] = bytes[k]
      BY <1>3, <3>1
    <3> QED
      BY <1>b, <1>6, <2>2, <3>2
  <2> QED
    BY <2>1, <2>2
<1>8. a \o w = b
  BY <1>b, <1>6, <1>7, SeqEqual
<1> QED
  BY <1>1, <1>2, <1>4, <1>5, <1>8

-----------------------------------------------------------------------------
(* Nothing but text is read as text *)

ExactInv ==
  stage \in {"read", "done"} =>
    /\ out = Clean(out)
    /\ (\A k \in 1..Len(out) : out[k] # replacement_codepoint)
         => JS_ToCStringLen(out) = SubSeq(bytes, 1, i)
    /\ stage = "done" => i = byte_len

(* Nothing has been read yet. *)
LEMMA ExactStarts ==
  ASSUME out' = << >>, i' = 0, bytes' \in Seq(Octets), stage' # "done"
  PROVE  ExactInv'
<1>1. Clean(<< >>) = << >>
  <2>1. << >> \in Seq(Units16) /\ Len(<< >>) = 0
    OBVIOUS
  <2>2. \A k \in 1..0 : FALSE
    OBVIOUS
  <2> QED
    BY <2>1, <2>2, CleanIs
<1>2. SubSeq(bytes', 1, 0) = << >>
  OBVIOUS
<1> QED
  BY <1>1, <1>2, CStringEmpty DEF ExactInv

LEMMA ExactReads ==
  ASSUME TextInv, Len(bytes) = byte_len, ExactInv, ReadPoint
  PROVE  ExactInv'
<1>0. /\ bytes \in Seq(Octets) /\ i \in Nat /\ out \in Seq(Units16) /\ stage = "read"
      /\ bytes' = bytes /\ byte_len' = byte_len /\ byte_len \in Nat /\ i <= byte_len
  BY DEF TextInv, ReadsInside, ReadPoint
<1>1. CASE ~(i < byte_len)
  <2>1. stage' = "done" /\ i' = i /\ out' = out /\ i = byte_len
    BY <1>0, <1>1 DEF ReadPoint
  <2> QED
    BY <1>0, <2>1 DEF ExactInv
<1>2. CASE i < byte_len
  <2>1. PICK r : r = read_utf8(Len(bytes))
    OBVIOUS
  <2>2. out' = out \o JChars(r.cp) /\ i' = r.index /\ stage' = "read"
    BY <1>0, <1>2, <2>1 DEF ReadPoint
  <2>3. r.cp \in CodePoints
    BY <1>0, <1>2, <2>1, ReadMoves
  <2>4. ~IsSurrogate(r.cp)
    BY <1>0, <1>2, <2>1, ReadNoSurrogate
  <2>5. PICK cp \in CodePoints : cp = r.cp
    BY <2>3
  <2>6. PICK t \in Seq(Units16) :
          /\ t = JChars(cp) /\ t = Clean(t) /\ NoSpan(out, t)
          /\ cp = replacement_codepoint => Len(t) = 1 /\ t[1] = replacement_codepoint
    <3>1. /\ JChars(cp) \in Seq(Units16) /\ JChars(cp) = Clean(JChars(cp))
          /\ \A s \in Seq(Units16) : NoSpan(s, JChars(cp))
          /\ cp = replacement_codepoint =>
               Len(JChars(cp)) = 1 /\ JChars(cp)[1] = replacement_codepoint
      BY <2>4, <2>5, CharsClean
    <3> QED
      BY <1>0, <3>1
  <2>7. out = Clean(out)
    BY <1>0 DEF ExactInv
  <2>8. out' = Clean(out')
    <3>1. out \o t = Clean(out \o t)
      BY <1>0, <2>6, <2>7, CleanConcat
    <3> QED
      BY <2>2, <2>5, <2>6, <3>1
  <2>9. ASSUME \A k \in 1..Len(out') : out'[k] # replacement_codepoint
        PROVE  JS_ToCStringLen(out') = SubSeq(bytes, 1, i')
    <3>1. /\ Len(out') = Len(out) + Len(t)
          /\ \A k \in 1..(Len(out) + Len(t)) :
               out'[k] = IF k <= Len(out) THEN out[k] ELSE t[k - Len(out)]
      BY <1>0, <2>2, <2>5, <2>6, ConcatProperties
    <3>2. Len(out) \in Nat /\ Len(t) \in Nat
      BY <1>0
    <3>3. \A k \in 1..Len(out) : out[k] # replacement_codepoint
      BY <2>9, <3>1, <3>2
    <3>4. cp # replacement_codepoint
      <4>1. SUFFICES ASSUME cp = replacement_codepoint PROVE FALSE
        OBVIOUS
      <4>2. Len(t) = 1 /\ t[1] = replacement_codepoint
        BY <2>6, <4>1
      <4>3. Len(out) + 1 \in 1..Len(out') /\ ~(Len(out) + 1 <= Len(out))
            /\ (Len(out) + 1) - Len(out) = 1
        BY <3>1, <3>2, <4>2
      <4>4. out'[Len(out) + 1] = t[1]
        BY <3>1, <4>3
      <4> QED
        BY <2>9, <4>2, <4>3, <4>4
    <3>5. ReadsExactly(r)
      BY <1>0, <1>2, <2>1, <2>5, <3>4, ReadExact
    <3>6. Spelt(cp) /\ i' = i + utf8_len(cp)
      BY <2>2, <2>5, <3>5 DEF ReadsExactly
    <3>7. JS_ToCStringLen(out) = SubSeq(bytes, 1, i)
      BY <1>0, <3>3 DEF ExactInv
    <3>8. JS_ToCStringLen(out \o t) = JS_ToCStringLen(out) \o JS_ToCStringLen(t)
      BY <1>0, <2>6, CStringConcat
    <3>9. JS_ToCStringLen(t) = write_utf8(cp)
      BY <2>6, CStringOfChars
    <3>10. SubSeq(bytes, 1, i) \o write_utf8(cp) = SubSeq(bytes, 1, i + utf8_len(cp))
      BY <1>0, <3>6, SpeltNext
    <3> QED
      BY <2>2, <2>5, <2>6, <3>6, <3>7, <3>8, <3>9, <3>10
  <2> QED
    BY <1>0, <2>2, <2>8, <2>9 DEF ExactInv
<1> QED
  BY <1>1, <1>2

LEMMA ExactNext ==
  ASSUME TextInv, CountInv, ExactInv, TextInv', [TextNext]_textVars
  PROVE  ExactInv'
<1>0. bytes' \in Seq(Octets)
  BY DEF TextInv
<1>1. CASE ReadPoint
  <2>1. Len(bytes) = byte_len
    BY <1>1 DEF ReadPoint, CountInv
  <2> QED
    BY <1>1, <2>1, ExactReads
<1>2. CASE Write
  <2>1. out' = out /\ out = << >>
    BY <1>2 DEF Write, TextInv
  <2>2. CASE i < Len(source)
    BY <1>2, <2>2 DEF Write, ExactInv
  <2>3. CASE ~(i < Len(source))
    <3>1. i' = 0 /\ stage' = "read"
      BY <1>2, <2>3 DEF Write
    <3> QED
      BY <1>0, <2>1, <3>1, ExactStarts
  <2> QED
    BY <2>2, <2>3
<1>3. CASE FormatArg
  <2>1. out' = out /\ out = << >>
    BY <1>3 DEF FormatArg, TextInv
  <2>2. CASE i < Len(source)
    BY <1>3, <2>2 DEF FormatArg, ExactInv
  <2>3. CASE ~(i < Len(source))
    <3>1. i' = 0 /\ stage' = "read"
      BY <1>3, <2>3 DEF FormatArg
    <3> QED
      BY <1>0, <2>1, <3>1, ExactStarts
  <2> QED
    BY <2>2, <2>3
<1>4. CASE FromScript \/ FromMemory
  <2>1. out' = << >> /\ i' = 0 /\ stage' = "read"
    BY <1>4 DEF FromScript, FromMemory, TextInv
  <2> QED
    BY <1>0, <2>1, ExactStarts
<1>5. CASE FromJava \/ Measure \/ FromConsole \/ CountArg \/ Done
  BY <1>5 DEF FromJava, Measure, FromConsole, CountArg, Done, ExactInv
<1>6. CASE UNCHANGED textVars
  BY <1>6 DEF textVars, ExactInv
<1> QED
  BY <1>1, <1>2, <1>3, <1>4, <1>5, <1>6 DEF TextNext

(* Bytes of unknown origin, any number of them: what is read without a      *)
(* U+FFFD is what they spell, all of them, and what is read is always clean *)
(* text.  The condition is that of the buffers: with an argument that       *)
(* converts to two texts the length passed on is not that of the bytes      *)
(* written (qjs_util.c:122-171).                                            *)
THEOREM OnlyTextArrives ==
  ASSUME Steady
  PROVE  TextSpec => []OnlyTextIsRead
<1>1. TextInit => CountInv /\ ExactInv
  BY DEF TextInit, CountInv, ExactInv
<1>2. TextInv /\ CountInv /\ [TextNext]_textVars => CountInv'
  BY CountNextInv
<1>3. TextInv /\ TextInv' /\ CountInv /\ ExactInv /\ [TextNext]_textVars => ExactInv'
  BY ExactNext
<1>4. TextInv /\ CountInv /\ ExactInv => OnlyTextIsRead
  <2> SUFFICES ASSUME TextInv, CountInv, ExactInv, stage = "done"
               PROVE  /\ out = Clean(out)
                      /\ (\A k \in 1..Len(out) : out[k] # replacement_codepoint)
                           => JS_ToCStringLen(out) = bytes
    BY DEF OnlyTextIsRead
  <2>1. bytes \in Seq(Octets) /\ i = Len(bytes)
    BY DEF TextInv, CountInv, ExactInv
  <2>2. SubSeq(bytes, 1, Len(bytes)) = bytes
    BY <2>1, SubSeqFull
  <2> QED
    BY <2>1, <2>2 DEF ExactInv
<1> QED
  BY <1>1, <1>2, <1>3, <1>4, TextInitInv, TextNextInv, PTL DEF TextSpec

-----------------------------------------------------------------------------
(* Text arrives *)

(* The bytes that come next, when those before are the bytes of the first k *)
(* code units of t.                                                         *)
LEMMA SpeltHere ==
  ASSUME NEW t \in Seq(Units16), NEW k \in 0..(Len(t) - 1), ~Inside(t, k),
         bytes = JS_ToCStringLen(t), i = Len(Upto(t, k))
  PROVE  /\ Spelt(Raw(t, k))
         /\ Len(Upto(t, k + UnitsAt(t, k))) = i + utf8_len(Raw(t, k))
<1>1. PICK cp \in CodePoints : cp = Raw(t, k)
  BY RawType
<1>2. PICK w \in Seq(Octets) : w = write_utf8(cp) /\ Len(w) = utf8_len(cp)
  BY Utf8Written
<1>3. k \in 0..Len(t) /\ k + UnitsAt(t, k) \in 0..Len(t)
  <2>1. k + UnitsAt(t, k) \in (k + 1)..Len(t)
    BY NotInside
  <2> QED
    BY <2>1
<1>4. PICK a \in Seq(Octets) : a = Upto(t, k)
  BY <1>3, UptoEnds
<1>5. PICK b \in Seq(Octets) : b = Upto(t, k + UnitsAt(t, k)) /\ Begins(bytes, b)
  BY <1>3, UptoEnds
<1>6. b = a \o w
  BY <1>1, <1>2, <1>4, <1>5, NextPart
<1>7. /\ Len(b) = Len(a) + Len(w)
      /\ \A l \in 1..(Len(a) + Len(w)) : b[l] = IF l <= Len(a) THEN a[l] ELSE w[l - Len(a)]
  BY <1>6, ConcatProperties
<1>8. i = Len(a) /\ Len(a) \in Nat /\ Len(w) \in Nat
  BY <1>4
<1>9. Len(b) <= Len(bytes) /\ \A l \in 1..Len(b) : bytes[l] = b[l]
  BY <1>5 DEF Begins
<1>10. ASSUME NEW l \in 1..Len(w) PROVE bytes[i + l] = w[l]
  <2>1. i + l \in 1..Len(b) /\ ~(i + l <= Len(a)) /\ (i + l) - Len(a) = l
    BY <1>7, <1>8
  <2> QED
    BY <1>7, <1>9, <2>1
<1>11. i + utf8_len(cp) <= Len(bytes) /\ Len(b) = i + utf8_len(cp)
  BY <1>2, <1>7, <1>8, <1>9
<1>12. Spelt(cp)
  BY <1>2, <1>10, <1>11 DEF Spelt
<1> QED
  BY <1>1, <1>5, <1>11, <1>12

(* A console message: its arguments, with a space before each but the first.*)
ArgParts(args) == [k \in 1..Len(args) |-> IF k = 1 THEN args[k] ELSE <<32>> \o args[k]]

LEMMA ArgPartsType ==
  ASSUME NEW a \in Seq(Seq(Units16))
  PROVE  /\ ArgParts(a) \in Seq(Seq(Units16)) /\ Len(ArgParts(a)) = Len(a)
         /\ Joined(a) = FlatTo(ArgParts(a), Len(a)) /\ Joined(a) \in Seq(Units16)
<1>1. <<32>> \in Seq(Units16)
  <2>1. 32 \in Units16
    BY Sizes DEF Units16
  <2> QED
    BY <2>1
<1>2. \A k \in 1..Len(a) : ArgParts(a)[k] \in Seq(Units16)
  BY <1>1, ConcatProperties DEF ArgParts
<1>3. ArgParts(a) = [k \in 1..Len(a) |-> ArgParts(a)[k]] /\ Len(a) \in Nat
  BY DEF ArgParts
<1>4. ArgParts(a) \in Seq(Seq(Units16)) /\ Len(ArgParts(a)) = Len(a)
  BY <1>2, <1>3
<1>5. Joined(a) = FlattenSeq(ArgParts(a))
  BY Zenon DEF Joined, ArgParts
<1>6. FlattenSeq(ArgParts(a)) = FlatTo(ArgParts(a), Len(ArgParts(a)))
  BY <1>4, FlattenSteps
<1>7. FlattenSeq(ArgParts(a)) \in Seq(Units16)
  BY <1>4, FlattenType
<1> QED
  BY <1>4, <1>5, <1>6, <1>7

(* The bytes of the first k + 1 arguments. *)
LEMMA NextArg ==
  ASSUME NEW a \in Seq(Seq(Units16)), NEW k \in 0..(Len(a) - 1)
  PROVE  JS_ToCStringLen(FlatTo(ArgParts(a), k + 1)) =
           (JS_ToCStringLen(FlatTo(ArgParts(a), k)) \o (IF k > 0 THEN <<32>> ELSE << >>))
             \o JS_ToCStringLen(a[k + 1])
<1>1. ArgParts(a) \in Seq(Seq(Units16)) /\ Len(ArgParts(a)) = Len(a)
  BY ArgPartsType
<1>2. /\ FlatTo(ArgParts(a), 0) = << >>
      /\ FlatTo(ArgParts(a), k) \in Seq(Units16)
      /\ FlatTo(ArgParts(a), k + 1) = FlatTo(ArgParts(a), k) \o ArgParts(a)[k + 1]
  <2>1. k \in 0..Len(ArgParts(a)) /\ k \in 0..(Len(ArgParts(a)) - 1)
    BY <1>1
  <2> QED
    BY <1>1, <2>1, FlattenSteps
<1>3. k + 1 \in 1..Len(a) /\ (k + 1 = 1 <=> k = 0)
  OBVIOUS
<1>4. PICK s \in Seq(Units16) : s = a[k + 1]
  BY <1>3
<1>5. ArgParts(a)[k + 1] = IF k = 0 THEN s ELSE <<32>> \o s
  BY <1>3, <1>4 DEF ArgParts
<1>6. PICK f \in Seq(Units16) : f = FlatTo(ArgParts(a), k)
  BY <1>2
<1>7. JS_ToCStringLen(f) \in Seq(Octets) /\ JS_ToCStringLen(s) \in Seq(Octets)
  BY CStringType
<1>8. CASE k = 0
  <2>1. f = << >> /\ FlatTo(ArgParts(a), k + 1) = f \o s
    BY <1>2, <1>5, <1>6, <1>8
  <2>2. << >> \o s = s
    BY ConcatEmptySeq
  <2>3. << >> \o JS_ToCStringLen(s) = JS_ToCStringLen(s)
    BY <1>7, ConcatEmptySeq
  <2>4. << >> \o << >> = << >>
    OBVIOUS
  <2>5. (JS_ToCStringLen(f) \o << >>) \o JS_ToCStringLen(s) = JS_ToCStringLen(s)
    BY <2>1, <2>3, <2>4, CStringEmpty
  <2>6. FlatTo(ArgParts(a), k + 1) = s
    BY <2>1, <2>2
  <2>7. (IF k > 0 THEN <<32>> ELSE << >>) = << >>
    BY <1>8
  <2> QED
    BY <1>4, <1>6, <2>5, <2>6, <2>7, Zenon
<1>9. CASE k # 0
  <2>0. PICK blank : blank = <<32>>
    OBVIOUS
  <2>1. blank \in Seq(Units16) /\ blank = <<32>> /\ Len(blank) = 1 /\ blank[1] = 32
    <3>1. 32 \in Units16
      BY Sizes DEF Units16
    <3> QED
      BY <2>0, <3>1
  <2>2. ~IsHigh(32) /\ ~IsLow(32)
    BY DEF IsHigh, IsLow
  <2>3. JS_ToCStringLen(blank) = <<32>> /\ <<32>> \in Seq(Octets)
    <3>1. 32 \in Units16 /\ 32 \in Octets
      BY Sizes DEF Units16, Octets
    <3>2. JS_ToCStringLen(<<32>>) = write_utf8(32)
      BY <3>1, CStringOfUnit
    <3>3. write_utf8(32) = <<32>>
      BY DEF write_utf8
    <3> QED
      BY <2>1, <3>1, <3>2, <3>3
  <2>4. PICK t \in Seq(Units16) : t = blank \o s
    BY <2>1, ConcatProperties
  <2>5. JS_ToCStringLen(t) = <<32>> \o JS_ToCStringLen(s)
    <3>1. NoSpan(blank, s)
      BY <2>1, <2>2 DEF NoSpan
    <3>2. JS_ToCStringLen(blank \o s) = JS_ToCStringLen(blank) \o JS_ToCStringLen(s)
      BY <2>1, <3>1, CStringConcat
    <3> QED
      BY <2>3, <2>4, <3>2
  <2>6. JS_ToCStringLen(f \o t) = JS_ToCStringLen(f) \o JS_ToCStringLen(t)
    <3>1. t[1] = 32
      <4>1. \A l \in 1..(Len(blank) + Len(s)) :
              (blank \o s)[l] = IF l <= Len(blank) THEN blank[l] ELSE s[l - Len(blank)]
        BY <2>1, ConcatProperties
      <4>2. Len(s) \in Nat
        OBVIOUS
      <4> QED
        BY <2>1, <2>4, <4>1, <4>2
    <3>2. NoSpan(f, t)
      BY <2>2, <3>1 DEF NoSpan
    <3> QED
      BY <3>2, CStringConcat
  <2>7. Grouped(JS_ToCStringLen(f), <<32>>, JS_ToCStringLen(s))
    BY <1>7, <2>3, Grouping, Zenon
  <2>8. FlatTo(ArgParts(a), k + 1) = f \o t /\ k > 0
    <3>1. ArgParts(a)[k + 1] = <<32>> \o s
      BY <1>5, <1>9, Zenon
    <3>2. <<32>> \o s = t
      BY <2>1, <2>4, Zenon
    <3>3. k > 0
      BY <1>9
    <3> QED
      BY <1>2, <1>6, <3>1, <3>2, <3>3, Zenon
  <2> QED
    BY <1>4, <1>6, <2>5, <2>6, <2>7, <2>8 DEF Grouped
<1> QED
  BY <1>8, <1>9

(* The text that is on its way. *)
Sent ==
  IF route = "java" THEN Clean(source) ELSE IF route = "script" THEN source ELSE Joined(source)

(* The bytes are those of t, and what has been read of them is the clean    *)
(* text of the first Len(out) code units, no half of a pair.                *)
Arriving(t) ==
  /\ t \in Seq(Units16) /\ bytes = JS_ToCStringLen(t)
  /\ Len(out) <= Len(t) /\ ~Inside(t, Len(out)) /\ i = Len(Upto(t, Len(out)))
  /\ \A k \in 1..Len(out) : out[k] = Clean(t)[k]

ArriveInv ==
  /\ route = "java" => source \in Seq(Units16)
  /\ stage \in {"measure", "write"} => route = "java"
  /\ stage \in {"count", "format"} => route = "console"
  /\ stage = "write" => ~Inside(source, i) /\ bytes = Upto(Clean(source), i)
  /\ stage = "format" => bytes = JS_ToCStringLen(FlatTo(ArgParts(source), i))
  /\ stage \in {"read", "done"} /\ route # "memory" => Arriving(Sent)
  /\ stage = "done" => i = byte_len

LEMMA ArriveStarts ==
  ASSUME NEW t \in Seq(Units16), Sent' = t, bytes' = JS_ToCStringLen(t),
         out' = << >>, i' = 0, stage' = "read", route' = "java" => source' \in Seq(Units16)
  PROVE  ArriveInv'
<1>1. Upto(t, 0) = << >>
  BY UptoEnds
<1>2. Len(<< >>) = 0 /\ Len(t) \in Nat
  OBVIOUS
<1>3. ~Inside(t, 0)
  BY DEF Inside
<1>4. Arriving(Sent)'
  BY <1>1, <1>2, <1>3 DEF Arriving
<1> QED
  BY <1>4 DEF ArriveInv

(* One code point is read of a text that is on its way. *)
LEMMA ArriveReads ==
  ASSUME TextInv, Len(bytes) = byte_len, NEW t, Arriving(t), ReadPoint
  PROVE  Arriving(t)'
<1>0. /\ bytes \in Seq(Octets) /\ i \in Nat /\ out \in Seq(Units16) /\ stage = "read"
      /\ bytes' = bytes /\ byte_len \in Nat /\ i <= byte_len /\ t \in Seq(Units16)
  BY DEF TextInv, ReadsInside, ReadPoint, Arriving
<1>1. CASE ~(i < byte_len)
  <2>1. i' = i /\ out' = out
    BY <1>1 DEF ReadPoint
  <2> QED
    BY <1>0, <2>1 DEF Arriving
<1>2. CASE i < byte_len
  <2> DEFINE o == Len(out)
             u == UnitsAt(t, o)
  <2>1. o \in Nat /\ Len(t) \in Nat
    BY <1>0
  <2>2. /\ bytes = JS_ToCStringLen(t) /\ o <= Len(t) /\ ~Inside(t, o) /\ i = Len(Upto(t, o))
        /\ \A k \in 1..o : out[k] = Clean(t)[k]
    BY DEF Arriving
  <2>3. o \in 0..(Len(t) - 1)
    <3>1. o # Len(t)
      <4>1. Upto(t, Len(t)) = bytes
        BY <1>0, <2>2, UptoEnds
      <4> QED
        BY <1>2, <2>2, <4>1
    <3> QED
      BY <2>1, <2>2, <3>1
  <2>4. PICK cp \in CodePoints : cp = Raw(t, o)
    BY <1>0, <2>3, RawType
  <2>5. Spelt(cp) /\ Len(Upto(t, o + u)) = i + utf8_len(cp)
    BY <1>0, <2>2, <2>3, <2>4, SpeltHere
  <2>6. read_utf8(Len(bytes)) = Read(Readable(cp), i + utf8_len(cp))
    BY <1>0, <2>5, ReadBack
  <2>7. out' = out \o JChars(Readable(cp)) /\ i' = i + utf8_len(cp)
    BY <1>0, <1>2, <2>6 DEF ReadPoint, Read
  <2>8. ~Inside(t, o + u) /\ o + u \in (o + 1)..Len(t) /\ u \in {1, 2}
    <3>1. ~Inside(t, o + u) /\ o + u \in (o + 1)..Len(t)
      BY <1>0, <2>2, <2>3, NotInside
    <3>2. u \in {1, 2}
      BY DEF UnitsAt
    <3> QED
      BY <3>1, <3>2
  <2>9. PICK w \in Seq(Units16) :
          w = JChars(Readable(cp)) /\ Len(w) = u /\ \A l \in 1..u : w[l] = Clean(t)[o + l]
    <3>1. /\ CodePoint(t, o) = Readable(cp)
          /\ Len(JChars(CodePoint(t, o))) = u
          /\ \A l \in 1..u : JChars(CodePoint(t, o))[l] = Clean(t)[o + l]
      BY <1>0, <2>2, <2>3, <2>4, CleanAt
    <3>2. CodePoint(t, o) \in CodePoints
      BY <1>0, <2>3, CodePointType
    <3>3. JChars(CodePoint(t, o)) \in Seq(Units16)
      BY <3>2, JCharsType
    <3> QED
      BY <3>1, <3>3
  <2> HIDE DEF u, o
  <2>10. /\ Len(out') = o + u
         /\ \A k \in 1..(o + u) : out'[k] = IF k <= o THEN out[k] ELSE w[k - o]
    BY <1>0, <2>7, <2>9, ConcatProperties DEF o
  <2>11. ASSUME NEW k \in 1..(o + u) PROVE out'[k] = Clean(t)[k]
    <3>1. CASE k <= o
      BY <2>1, <2>2, <2>10, <3>1
    <3>2. CASE ~(k <= o)
      <4>1. k - o \in 1..u /\ o + (k - o) = k
        BY <2>1, <2>8, <3>2
      <4> QED
        BY <2>9, <2>10, <3>2, <4>1
    <3> QED
      BY <3>1, <3>2
  <2>12. o + u <= Len(t) /\ i' = Len(Upto(t, o + u))
    BY <2>1, <2>5, <2>7, <2>8
  <2> QED
    BY <1>0, <2>2, <2>8, <2>10, <2>11, <2>12 DEF Arriving
<1> QED
  BY <1>1, <1>2

LEMMA ArriveWrites ==
  ASSUME TextInv, ArriveInv, Write
  PROVE  ArriveInv'
<1>0. /\ stage = "write" /\ route = "java" /\ route' = route /\ source' = source /\ out' = << >>
      /\ source \in Seq(Units16) /\ i \in Nat /\ i <= Len(source)
      /\ ~Inside(source, i) /\ bytes = Upto(Clean(source), i)
  BY DEF Write, TextInv, ArriveInv
<1>1. PICK t \in Seq(Units16) : t = Clean(source) /\ Len(t) = Len(source)
  BY <1>0, CleanType
<1>2. CASE i < Len(source)
  <2>1. i \in 0..(Len(source) - 1) /\ i \in 0..(Len(t) - 1)
    BY <1>0, <1>1, <1>2
  <2>2. Raw(t, i) = CodePoint(source, i) /\ UnitsAt(t, i) = UnitsAt(source, i) /\ ~Inside(t, i)
    BY <1>0, <1>1, <2>1, CleanRaw
  <2>3. Upto(t, i + UnitsAt(t, i)) = Upto(t, i) \o write_utf8(Raw(t, i))
    BY <2>1, <2>2, NextPart
  <2>4. ~Inside(source, i + UnitsAt(source, i))
    BY <1>0, <2>1, NotInside
  <2>5. /\ bytes' = bytes \o write_utf8(CodePoint(source, i))
        /\ i' = i + UnitsAt(source, i) /\ stage' = stage
    BY <1>2 DEF Write
  <2>6. bytes' = Upto(t, i') /\ ~Inside(source, i')
    BY <1>0, <1>1, <2>2, <2>3, <2>4, <2>5
  <2> QED
    BY <1>0, <1>1, <2>5, <2>6 DEF ArriveInv
<1>3. CASE ~(i < Len(source))
  <2>1. i' = 0 /\ stage' = "read" /\ bytes' = bytes
    BY <1>3 DEF Write
  <2>2. i = Len(t)
    BY <1>0, <1>1, <1>3
  <2>3. bytes' = JS_ToCStringLen(t)
    BY <1>0, <1>1, <2>1, <2>2, UptoEnds
  <2>4. Sent' = t
    BY <1>0, <1>1 DEF Sent
  <2> QED
    BY <1>0, <2>1, <2>3, <2>4, ArriveStarts
<1> QED
  BY <1>2, <1>3

LEMMA ArriveFormats ==
  ASSUME Steady, TextInv, ArriveInv, FormatArg
  PROVE  ArriveInv'
<1>0. /\ stage = "format" /\ route = "console" /\ route' = route /\ source' = source
      /\ out' = << >> /\ source \in Seq(Seq(Units16)) /\ i \in Nat /\ i <= Len(source)
      /\ bytes = JS_ToCStringLen(FlatTo(ArgParts(source), i))
  BY DEF FormatArg, TextInv, ArriveInv
<1>1. CASE i < Len(source)
  <2>1. i \in 0..(Len(source) - 1)
    BY <1>0, <1>1
  <2>2. /\ bytes' = (bytes \o (IF i > 0 THEN <<32>> ELSE << >>)) \o JS_ToCStringLen(source[i + 1])
        /\ i' = i + 1 /\ stage' = stage
    BY <1>1 DEF FormatArg, Again
  <2>3. bytes' = JS_ToCStringLen(FlatTo(ArgParts(source), i + 1))
    <3>1. JS_ToCStringLen(FlatTo(ArgParts(source), i + 1)) =
           (JS_ToCStringLen(FlatTo(ArgParts(source), i)) \o (IF i > 0 THEN <<32>> ELSE << >>))
             \o JS_ToCStringLen(source[i + 1])
      BY <1>0, <2>1, NextArg
    <3> QED
      BY <1>0, <2>2, <3>1, Zenon
  <2> QED
    BY <1>0, <2>2, <2>3 DEF ArriveInv
<1>2. CASE ~(i < Len(source))
  <2>1. i' = 0 /\ stage' = "read" /\ bytes' = bytes
    BY <1>2 DEF FormatArg
  <2>2. i = Len(source)
    BY <1>0, <1>2
  <2>3. PICK t \in Seq(Units16) : t = Joined(source) /\ t = FlatTo(ArgParts(source), Len(source))
    BY <1>0, ArgPartsType
  <2>4. bytes' = JS_ToCStringLen(t)
    BY <1>0, <2>1, <2>2, <2>3
  <2>5. Sent' = t
    BY <1>0, <2>3 DEF Sent
  <2> QED
    BY <1>0, <2>1, <2>4, <2>5, ArriveStarts
<1> QED
  BY <1>1, <1>2

LEMMA ArriveNext ==
  ASSUME Steady, TextInv, CountInv, ArriveInv, [TextNext]_textVars
  PROVE  ArriveInv'
<1>1. CASE FromJava
  <2>1. PICK s \in SeqOf(Units, MaxUnits) : source' = s
    BY <1>1 DEF FromJava
  <2>2. s \in Seq(Units16)
    BY <2>1, SeqOfType, TextAssumption DEF Units16
  <2> QED
    BY <1>1, <2>1, <2>2 DEF FromJava, ArriveInv
<1>2. CASE Measure
  <2>1. CASE i < Len(source)
    BY <1>2, <2>1 DEF Measure, ArriveInv
  <2>2. CASE ~(i < Len(source))
    <3>1. /\ stage = "measure" /\ route = "java" /\ source \in Seq(Units16) /\ bytes = << >>
          /\ stage' = "write" /\ i' = 0 /\ bytes' = bytes /\ source' = source /\ route' = route
      BY <1>2, <2>2 DEF Measure, TextInv, ArriveInv
    <3>2. Upto(Clean(source), 0) = << >>
      <4>1. Clean(source) \in Seq(Units16)
        BY <3>1, CleanType
      <4> QED
        BY <4>1, UptoEnds
    <3>3. ~Inside(source, 0)
      BY DEF Inside
    <3> QED
      BY <3>1, <3>2, <3>3 DEF ArriveInv
  <2> QED
    BY <2>1, <2>2
<1>3. CASE Write
  BY <1>3, ArriveWrites
<1>4. CASE FromScript
  <2>1. PICK s \in SeqOf(Units, MaxUnits) : source' = s /\ bytes' = JS_ToCStringLen(s)
    BY <1>4 DEF FromScript
  <2>2. s \in Seq(Units16)
    BY <2>1, SeqOfType, TextAssumption DEF Units16
  <2>3. route' = "script" /\ stage' = "read" /\ i' = 0 /\ out' = << >>
    BY <1>4 DEF FromScript, TextInv
  <2>4. Sent' = s
    BY <2>1, <2>3 DEF Sent
  <2> QED
    BY <2>1, <2>2, <2>3, <2>4, ArriveStarts
<1>5. CASE FromMemory
  BY <1>5 DEF FromMemory, ArriveInv
<1>6. CASE FromConsole
  BY <1>6 DEF FromConsole, ArriveInv
<1>7. CASE CountArg
  <2>1. CASE i < Len(source)
    BY <1>7, <2>1 DEF CountArg, ArriveInv
  <2>2. CASE ~(i < Len(source))
    <3>1. /\ stage = "count" /\ route = "console" /\ source \in Seq(Seq(Units16)) /\ bytes = << >>
          /\ stage' = "format" /\ i' = 0 /\ bytes' = bytes /\ source' = source /\ route' = route
      BY <1>7, <2>2 DEF CountArg, TextInv, ArriveInv
    <3>2. JS_ToCStringLen(FlatTo(ArgParts(source), 0)) = << >>
      BY CStringEmpty DEF FlatTo
    <3> QED
      BY <3>1, <3>2 DEF ArriveInv
  <2> QED
    BY <2>1, <2>2
<1>8. CASE FormatArg
  BY <1>8, ArriveFormats
<1>9. CASE ReadPoint
  <2>1. stage = "read" /\ Len(bytes) = byte_len /\ i <= byte_len /\ i \in Nat /\ byte_len \in Nat
    BY <1>9 DEF ReadPoint, CountInv, TextInv, ReadsInside
  <2>2. route' = route /\ source' = source /\ byte_len' = byte_len /\ stage' \in {"read", "done"}
    BY <1>9, <2>1 DEF ReadPoint
  <2>3. route # "memory" => Arriving(Sent)'
    <3>1. SUFFICES ASSUME route # "memory" PROVE Arriving(Sent)'
      OBVIOUS
    <3>2. PICK t : t = Sent
      OBVIOUS
    <3>3. Sent' = t
      BY <2>2, <3>2 DEF Sent
    <3>4. Arriving(t)
      BY <2>1, <3>1, <3>2 DEF ArriveInv
    <3>5. Arriving(t)'
      BY <1>9, <2>1, <3>4, ArriveReads
    <3> QED
      BY <3>3, <3>5 DEF Arriving
  <2>4. stage' = "done" => i' = byte_len'
    BY <1>9, <2>1 DEF ReadPoint
  <2> QED
    BY <2>1, <2>2, <2>3, <2>4 DEF ArriveInv
<1>10. CASE Done
  BY <1>10 DEF Done, ArriveInv
<1>11. CASE UNCHANGED textVars
  BY <1>11 DEF textVars, ArriveInv, Arriving, Sent
<1> QED
  BY <1>1, <1>2, <1>3, <1>4, <1>5, <1>6, <1>7, <1>8, <1>9, <1>10, <1>11 DEF TextNext

(* Who has read all bytes has read all of the text. *)
LEMMA AllArrived ==
  ASSUME TextInv, NEW t, Arriving(t), i = Len(bytes)
  PROVE  out = Clean(t)
<1>0. /\ t \in Seq(Units16) /\ out \in Seq(Units16) /\ bytes = JS_ToCStringLen(t)
      /\ Len(out) \in Nat /\ Len(t) \in Nat /\ i \in Nat
      /\ Len(out) <= Len(t) /\ ~Inside(t, Len(out)) /\ i = Len(Upto(t, Len(out)))
      /\ \A k \in 1..Len(out) : out[k] = Clean(t)[k]
  BY DEF Arriving, TextInv
<1>1. Len(out) = Len(t)
  <2>1. SUFFICES ASSUME Len(out) # Len(t) PROVE FALSE
    OBVIOUS
  <2>2. Len(out) \in 0..(Len(t) - 1)
    BY <1>0, <2>1
  <2>3. Spelt(Raw(t, Len(out)))
    BY <1>0, <2>2, SpeltHere
  <2>4. i + utf8_len(Raw(t, Len(out))) <= Len(bytes)
    BY <2>3 DEF Spelt
  <2>5. utf8_len(Raw(t, Len(out))) \in Nat \ {0}
    BY DEF utf8_len
  <2> QED
    BY <1>0, <2>4, <2>5
<1>2. Clean(t) \in Seq(Units16) /\ Len(Clean(t)) = Len(t)
  BY <1>0, CleanType
<1> QED
  BY <1>0, <1>1, <1>2, SeqEqual

(* A text of any length arrives as it was sent: a Java string that the      *)
(* engine returns, a string from JavaScript, a console message of any       *)
(* number of arguments, if these convert to the same text twice             *)
(* (qjs_util.c:96-112, 173-197; qjs_console.c:60-68).                       *)
THEOREM EveryTextArrives ==
  ASSUME Steady
  PROVE  TextSpec => []TextArrives
<1>1. TextInit => CountInv /\ ArriveInv
  BY DEF TextInit, CountInv, ArriveInv
<1>2. TextInv /\ CountInv /\ [TextNext]_textVars => CountInv'
  BY CountNextInv
<1>3. TextInv /\ CountInv /\ ArriveInv /\ [TextNext]_textVars => ArriveInv'
  BY ArriveNext
<1>4. TextInv /\ CountInv /\ ArriveInv => TextArrives
  <2> SUFFICES ASSUME TextInv, CountInv, ArriveInv, stage = "done",
                      route \in {"java", "script", "console"}
               PROVE  out = IF route = "console" THEN Clean(Joined(source)) ELSE Clean(source)
    BY DEF TextArrives
  <2>1. PICK t : t = Sent /\ Arriving(t) /\ i = Len(bytes)
    BY DEF ArriveInv, CountInv
  <2>2. out = Clean(t)
    BY <2>1, AllArrived
  <2>3. CASE route = "java"
    <3>1. source \in Seq(Units16) /\ t = Clean(source)
      BY <2>1, <2>3 DEF ArriveInv, Sent
    <3>2. Clean(t) = Clean(source)
      BY <3>1, CleanTwice
    <3> QED
      BY <2>2, <2>3, <3>2
  <2>4. CASE route # "java"
    BY <2>1, <2>2, <2>4 DEF Sent
  <2> QED
    BY <2>3, <2>4
<1> QED
  BY <1>1, <1>2, <1>3, <1>4, TextInitInv, TextNextInv, PTL DEF TextSpec

=============================================================================
