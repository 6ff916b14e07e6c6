--------------------------- MODULE AckRanges_proofs ---------------------------
(***************************************************************************)
(* What AckRanges does, for any number of slots and of ACK ranges: the     *)
(* array of ranges stays sorted and merged and holds numbers that have     *)
(* arrived, the largest among them; the ACK frame says of it what AckedBy  *)
(* says of a set; and the decoder recovers every number near the expected  *)
(* one.                                                                    *)
(***************************************************************************)
EXTENDS AckRanges, Common_proofs, SequenceTheorems

------------------------------------------------------------------------------
(* The number on the wire.                                                 *)

\* Window is even, positive, and twice its half.
LEMMA WindowHalves ==
  Window \in Nat /\ HalfWindow \in Nat \ {0} /\ Window = 2 * HalfWindow
BY WindowAssumption DEF HalfWindow

\* A number is a multiple of the window plus its low bytes.
LEMMA Split ==
  ASSUME NEW x \in Nat
  PROVE  /\ x \div Window \in Nat
         /\ x % Window \in 0 .. Window - 1
         /\ x - (x % Window) = Window * (x \div Window)
<1>1. Window \in Nat /\ Window > 0
  BY WindowHalves
<1> QED
  BY <1>1

\* Two multiples of the window that are less than two windows apart are equal
\* or neighbours.
LEMMA Neighbours ==
  ASSUME NEW p \in Int, NEW q \in Int,
         Window * p - Window * q < 2 * Window,
         Window * q - Window * p < 2 * Window
  PROVE  \/ Window * p = Window * q
         \/ Window * p = Window * q + Window
         \/ Window * p = Window * q - Window
<1>1. p - q < 2 /\ q - p < 2
  BY WindowHalves
<1>2. p = q \/ p = q + 1 \/ p = q - 1
  BY <1>1
<1>3. Window * (q + 1) = Window * q + Window /\ Window * (q - 1) = Window * q - Window
  BY WindowHalves
<1> QED
  BY <1>2, <1>3

\* Every packet number that is nearer to the one expected next than to any other
\* with the same bytes is decoded to itself (ai_quic_decode_packet_number_value).
THEOREM NearestIsDecoded ==
  ASSUME NEW largest \in Nat \cup {NonePn}, NEW n \in Nat,
         n < PnLimit, Nearest(largest, n)
  PROVE  Decode(largest, Truncated(n)) = n
<1> DEFINE expected == largest + 1
           low  == n % Window
           base == n - low
           from == expected - (expected % Window)
<1>1. expected \in Nat
  BY DEF NonePn
<1>2. /\ low \in 0 .. Window - 1 /\ expected % Window \in 0 .. Window - 1
      /\ base = Window * (n \div Window) /\ n \div Window \in Nat
      /\ from = Window * (expected \div Window) /\ expected \div Window \in Nat
  <2>1. \A x \in Nat : /\ x \div Window \in Nat /\ x % Window \in 0 .. Window - 1
                       /\ x - (x % Window) = Window * (x \div Window)
    BY Split
  <2>2. /\ low \in 0 .. Window - 1 /\ n \div Window \in Nat
        /\ base = Window * (n \div Window)
    BY <2>1
  <2>3. /\ expected % Window \in 0 .. Window - 1 /\ expected \div Window \in Nat
        /\ from = Window * (expected \div Window)
    BY <1>1, <2>1
  <2> QED
    BY <2>2, <2>3
<1>3. /\ expected - HalfWindow < n /\ n <= expected + HalfWindow
      /\ base \in Int /\ from \in Int
  BY <1>1, <1>2, WindowHalves DEF Nearest
<1>4. base - from < 2 * Window /\ from - base < 2 * Window
  <2> HIDE DEF base, from
  <2>1. base + low = n /\ from + (expected % Window) = expected
    BY <1>1, <1>2, WindowHalves DEF base, from
  <2> QED
    BY <1>1, <1>2, <1>3, <2>1, WindowHalves
<1>5. base = from \/ base = from + Window \/ base = from - Window
  BY <1>2, <1>4, Neighbours
<1>6. Candidate(largest, low) = from + low /\ n = base + low
  BY <1>1, <1>2, WindowHalves DEF Candidate
<1>a. Decode(largest, Truncated(n)) =
         IF /\ Candidate(largest, low) + HalfWindow <= expected
            /\ Candidate(largest, low) < PnLimit - Window
         THEN Candidate(largest, low) + Window
         ELSE IF /\ Candidate(largest, low) > expected + HalfWindow
                 /\ Candidate(largest, low) >= Window
         THEN Candidate(largest, low) - Window
         ELSE Candidate(largest, low)
  BY Zenon DEF Decode, Truncated
<1> HIDE DEF base, from, expected, low
<1>7. CASE base = from
  <2>1. Candidate(largest, low) = n
    BY <1>6, <1>7
  <2>2. ~(n + HalfWindow <= expected) /\ ~(n > expected + HalfWindow)
    BY <1>1, <1>3, WindowHalves
  <2> QED
    BY <2>1, <2>2, <1>a
<1>8. CASE base = from + Window
  <2>1. Candidate(largest, low) = n - Window
    BY <1>2, <1>3, <1>6, <1>8, WindowHalves
  <2>2. (n - Window) + HalfWindow <= expected /\ n - Window < PnLimit - Window
    BY <1>1, <1>3, WindowHalves, PnLimitAssumption
  <2>3. (n - Window) + Window = n
    BY WindowHalves
  <2> QED
    BY <2>1, <2>2, <2>3, <1>a
<1>9. CASE base = from - Window
  <2>1. Candidate(largest, low) = n + Window
    BY <1>2, <1>3, <1>6, <1>9, WindowHalves
  <2>2. /\ ~((n + Window) + HalfWindow <= expected)
        /\ n + Window > expected + HalfWindow /\ n + Window >= Window
    BY <1>1, <1>3, WindowHalves
  <2>3. (n + Window) - Window = n
    BY WindowHalves
  <2> QED
    BY <2>1, <2>2, <2>3, <1>a
<1> QED
  BY <1>5, <1>7, <1>8, <1>9

------------------------------------------------------------------------------
(* The array.                                                              *)

NumberRange == [start : Nat, end : Nat]

\* A sorted array of ranges that do not overlap, and one whose ranges do not
\* even touch.
Sorted(set) ==
  /\ set \in Seq(NumberRange)
  /\ \A i \in DOMAIN set : set[i].start <= set[i].end
  /\ \A i \in 1 .. Len(set) - 1 : set[i + 1].end < set[i].start

Merged(set) ==
  /\ Sorted(set)
  /\ \A i \in 1 .. Len(set) - 1 : set[i + 1].end + 1 < set[i].start

\* A function over 1 .. m is a sequence.
LEMMA FunctionIsSeq ==
  ASSUME NEW S, NEW m \in Nat, NEW f \in [1 .. m -> S]
  PROVE  f \in Seq(S) /\ Len(f) = m
OBVIOUS

LEMMA SortedIs ==
  ASSUME NEW set, Sorted(set)
  PROVE  /\ set \in Seq(NumberRange) /\ Len(set) \in Nat /\ DOMAIN set = 1 .. Len(set)
         /\ \A k \in 1 .. Len(set) : set[k].start \in Nat /\ set[k].end \in Nat
         /\ \A k \in 1 .. Len(set) : set[k] \in NumberRange /\ set[k].start <= set[k].end
         /\ \A k \in 1 .. Len(set) - 1 : set[k + 1].end < set[k].start
<1>1. set \in Seq(NumberRange)
  BY DEF Sorted
<1>2. /\ Len(set) \in Nat /\ DOMAIN set = 1 .. Len(set)
      /\ \A k \in 1 .. Len(set) : set[k] \in NumberRange
  BY <1>1
<1>3. \A r \in NumberRange : r.start \in Nat /\ r.end \in Nat
  BY DEF NumberRange
<1> QED
  BY <1>1, <1>2, <1>3 DEF Sorted

LEMMA Chain ==
  \A x, y, z, w \in Nat : x < y /\ y <= z /\ z < w => x < w
OBVIOUS

\* Neighbours that are in order make an array that is in order.
LEMMA SortedPairs ==
  ASSUME NEW set, Sorted(set), NEW i \in DOMAIN set, NEW j \in DOMAIN set, i < j
  PROVE  set[j].end < set[i].start
<1> DEFINE n == Len(set) - i - 1
           S == {d \in 0 .. n : set[i + d + 1].end < set[i].start}
<1>0. /\ Len(set) \in Nat /\ DOMAIN set = 1 .. Len(set)
      /\ \A k \in 1 .. Len(set) : set[k].start \in Nat /\ set[k].end \in Nat
  BY SortedIs
<1>1. n \in Nat
  BY <1>0
<1>2. 0 \in S
  <2>1. i \in 1 .. Len(set) - 1 /\ i + 0 + 1 = i + 1 /\ 0 \in 0 .. n
    BY <1>0, <1>1
  <2>2. set[i + 1].end < set[i].start
    BY <2>1 DEF Sorted
  <2> QED
    BY <2>1, <2>2
<1>3. \A d \in 1 .. n : d - 1 \in S => d \in S
  <2> SUFFICES ASSUME NEW d \in 1 .. n, d - 1 \in S PROVE d \in S
    OBVIOUS
  <2>0. PICK k : k = i + d
    OBVIOUS
  <2>1. /\ k \in 1 .. Len(set) - 1 /\ k \in 1 .. Len(set) /\ k + 1 \in 1 .. Len(set)
        /\ i + (d - 1) + 1 = k /\ i + d + 1 = k + 1
    BY <1>0, <2>0
  <2>2. set[k].end < set[i].start
    BY <2>1
  <2>3. set[k + 1].end < set[k].start /\ set[k].start <= set[k].end
    BY <1>0, <2>1 DEF Sorted
  <2>4. /\ set[k].end \in Nat /\ set[k].start \in Nat
        /\ set[k + 1].end \in Nat /\ set[i].start \in Nat
    BY <1>0, <2>1
  <2>5. set[k + 1].end < set[i].start
    BY ONLY <2>2, <2>3, <2>4, Chain
  <2> QED
    BY <2>1, <2>5
<1> HIDE DEF S
<1>4. 0 .. n \subseteq S
  BY <1>1, <1>2, <1>3, InductionUpTo
<1>5. j - i - 1 \in 0 .. n /\ i + (j - i - 1) + 1 = j
  BY <1>0
<1> QED
  BY <1>4, <1>5 DEF S

\* The slots above which a new number comes to stand.
LEMMA PlaceOf ==
  ASSUME NEW set, Sorted(set), NEW n \in Nat, NEW above,
         above = Cardinality({i \in DOMAIN set : set[i].start >= n})
  PROVE  /\ above \in 0 .. Len(set)
         /\ \A i \in DOMAIN set : i <= above <=> set[i].start >= n
<1> DEFINE A == {i \in DOMAIN set : set[i].start >= n}
           L == {i \in 1 .. Len(set) + 1 : i = Len(set) + 1 \/ set[i].start < n}
<1>0. /\ Len(set) \in Nat /\ DOMAIN set = 1 .. Len(set)
      /\ \A k \in 1 .. Len(set) : set[k].start \in Nat /\ set[k].end \in Nat
  BY SortedIs
<1>1. L \subseteq Nat /\ L # {}
  <2>1. Len(set) + 1 \in L
    BY <1>0
  <2> QED
    BY <1>0, <2>1
<1> HIDE DEF L
<1>2. PICK m \in L : \A i \in L : m <= i
  BY <1>1, LeastElement
<1>3. m \in 1 .. Len(set) + 1 /\ (m = Len(set) + 1 \/ set[m].start < n)
  BY <1>2 DEF L
<1>4. A = 1 .. m - 1
  <2>1. ASSUME NEW i \in 1 .. Len(set), i < m PROVE set[i].start >= n
    <3>1. i \notin L
      BY <1>0, <1>2, <1>3, <2>1
    <3> QED
      BY <1>0, <3>1 DEF L
  <2>2. ASSUME NEW i \in 1 .. Len(set), i >= m PROVE set[i].start < n
    <3>1. CASE i = m
      BY <1>0, <1>3, <3>1
    <3>2. CASE i # m
      <4>1. m \in DOMAIN set /\ m < i /\ set[m].start < n
        BY <1>0, <1>3, <2>2, <3>2
      <4>2. set[i].end < set[m].start /\ set[i].start <= set[i].end
        BY <1>0, <4>1, SortedPairs DEF Sorted
      <4> QED
        BY <1>0, <4>1, <4>2
    <3> QED
      BY <3>1, <3>2
  <2> QED
    BY <1>0, <1>3, <2>1, <2>2
<1>5. Cardinality(A) = m - 1
  <2>1. Cardinality(1 .. m - 1) = m - 1
    BY <1>0, <1>3, FS_Interval
  <2> QED
    BY <1>4, <2>1
<1>6. above = m - 1
  BY <1>5
<1>7. \A i \in DOMAIN set : i \in A <=> set[i].start >= n
  OBVIOUS
<1>8. \A i \in DOMAIN set : i \in A <=> i <= above
  BY <1>0, <1>3, <1>4, <1>6
<1> QED
  BY <1>0, <1>3, <1>6, <1>7, <1>8

\* A sequence with one more element among its own is an array of the next length.
LEMMA OneMore ==
  ASSUME NEW S, NEW s \in Seq(S), NEW x \in S, NEW k \in 0 .. Len(s), NEW r,
         r = [i \in 1 .. Len(s) + 1 |->
                IF i <= k THEN s[i] ELSE IF i = k + 1 THEN x ELSE s[i - 1]]
  PROVE  r \in [1 .. Len(s) + 1 -> S]
<1>1. ASSUME NEW i \in 1 .. Len(s) + 1
      PROVE  (IF i <= k THEN s[i] ELSE IF i = k + 1 THEN x ELSE s[i - 1]) \in S
  <2>1. CASE i <= k
    BY <2>1
  <2>2. CASE i > k /\ i = k + 1
    BY <2>2
  <2>3. CASE i > k /\ i # k + 1
    <3>1. i - 1 \in 1 .. Len(s)
      BY <2>3
    <3>2. s[i - 1] \in S
      BY <3>1
    <3> QED
      BY <2>3, <3>2
  <2> QED
    BY <2>1, <2>2, <2>3
<1> QED
  BY <1>1

\* A new number goes between the ranges above and below it.
LEMMA InsertSorts ==
  ASSUME NEW set, Sorted(set), NEW n \in Nat, n \notin NumbersIn(set),
         NEW r, r = InsertNumber(set, n)
  PROVE  /\ Sorted(r) /\ Len(r) = Len(set) + 1
         /\ NumbersIn(r) = NumbersIn(set) \cup {n}
<1>0. /\ Len(set) \in Nat /\ DOMAIN set = 1 .. Len(set) /\ set \in Seq(NumberRange)
      /\ \A k \in 1 .. Len(set) : set[k].start \in Nat /\ set[k].end \in Nat
  BY SortedIs
<1>1. PICK k : k = Cardinality({i \in DOMAIN set : set[i].start >= n})
  OBVIOUS
<1>2. k \in 0 .. Len(set) /\ \A i \in DOMAIN set : i <= k <=> set[i].start >= n
  BY <1>1, PlaceOf
<1>3. PICK new \in NumberRange : new = [start |-> n, end |-> n]
  BY DEF NumberRange
<1>4. r = [i \in 1 .. Len(set) + 1 |->
             IF i <= k THEN set[i] ELSE IF i = k + 1 THEN new ELSE set[i - 1]]
  BY <1>1, <1>3 DEF InsertNumber
<1>5. /\ r \in Seq(NumberRange) /\ Len(r) = Len(set) + 1
      /\ \A i \in 1 .. k : r[i] = set[i]
      /\ r[k + 1] = new
      /\ \A i \in k + 2 .. Len(set) + 1 : r[i] = set[i - 1]
  <2>1. r \in [1 .. Len(set) + 1 -> NumberRange]
    <3>1. set \in Seq(NumberRange) /\ k \in 0 .. Len(set)
      BY <1>0, <1>2
    <3> QED
      BY ONLY <1>4, <3>1, new \in NumberRange, OneMore
  <2>2. r \in Seq(NumberRange) /\ Len(r) = Len(set) + 1
    BY <1>0, <2>1, FunctionIsSeq
  <2>3. \A i \in 1 .. k : r[i] = set[i]
    BY <1>0, <1>2, <1>4
  <2>4. r[k + 1] = new
    BY <1>0, <1>2, <1>4
  <2>5. ASSUME NEW i \in k + 2 .. Len(set) + 1 PROVE r[i] = set[i - 1]
    BY <1>0, <1>2, <1>4
  <2> QED
    BY <2>2, <2>3, <2>4, <2>5
<1>6. DOMAIN r = 1 .. Len(set) + 1
  BY <1>5
\* Every slot of r holds a slot of set, or the new range.
<1>7. ASSUME NEW i \in DOMAIN r
      PROVE  \/ i <= k /\ i \in DOMAIN set /\ r[i] = set[i]
             \/ i = k + 1 /\ r[i] = new
             \/ i > k + 1 /\ i - 1 \in DOMAIN set /\ r[i] = set[i - 1]
  <2>1. CASE i <= k
    BY <1>0, <1>2, <1>5, <1>6, <2>1
  <2>2. CASE i = k + 1
    BY <1>5, <2>2
  <2>3. CASE i > k + 1
    <3>1. i \in k + 2 .. Len(set) + 1 /\ i - 1 \in 1 .. Len(set)
      BY <1>0, <1>2, <1>6, <2>3
    <3> QED
      BY <1>0, <1>5, <2>3, <3>1
  <2> QED
    BY <1>2, <1>6, <2>1, <2>2, <2>3
<1>8. ASSUME NEW i \in DOMAIN set
      PROVE  \/ i <= k /\ i \in DOMAIN r /\ r[i] = set[i]
             \/ i > k /\ i + 1 \in DOMAIN r /\ r[i + 1] = set[i]
  <2>1. CASE i <= k
    BY <1>0, <1>2, <1>5, <1>6, <2>1
  <2>2. CASE i > k
    <3>1. i + 1 \in k + 2 .. Len(set) + 1 /\ (i + 1) - 1 = i
      BY <1>0, <1>2, <2>2
    <3>2. r[i + 1] = set[(i + 1) - 1]
      BY <1>5, <3>1
    <3>3. i + 1 \in DOMAIN r
      BY <1>0, <1>2, <1>6, <3>1
    <3> QED
      BY <2>2, <3>1, <3>2, <3>3
  <2> QED
    BY <1>0, <1>2, <2>1, <2>2
<1>9. \A i \in DOMAIN set : n < set[i].start \/ n > set[i].end
  BY <1>0 DEF NumbersIn, Numbers
<1>10. Sorted(r)
  <2>1. \A i \in DOMAIN r : r[i].start <= r[i].end
    BY <1>3, <1>7 DEF Sorted
  <2>2. ASSUME NEW i \in 1 .. Len(r) - 1 PROVE r[i + 1].end < r[i].start
    <3>1. i \in DOMAIN r /\ i + 1 \in DOMAIN r
      BY <1>0, <1>5, <1>6
    <3>2. CASE i < k
      <4>1. r[i] = set[i] /\ r[i + 1] = set[i + 1] /\ i \in 1 .. Len(set) - 1
        BY <1>0, <1>2, <1>5, <3>2
      <4> QED
        BY <4>1 DEF Sorted
    <3>3. CASE i = k
      <4>1. r[i] = set[i] /\ r[i + 1] = new /\ i \in DOMAIN set /\ set[i].start >= n
        BY <1>0, <1>2, <1>5, <3>3
      <4>2. set[i].start # n
        BY <1>0, <1>9, <4>1 DEF Sorted
      <4> QED
        BY <1>0, <1>3, <4>1, <4>2
    <3>4. CASE i = k + 1
      <4>1. r[i] = new /\ r[i + 1] = set[i] /\ i \in DOMAIN set
        BY <1>0, <1>2, <1>5, <1>7, <3>1, <3>4
      <4>2. set[i].start < n
        <5>1. ~(i <= k) /\ set[i].start \in Nat
          BY <1>0, <1>2, <3>4, <4>1
        <5>2. ~(set[i].start >= n)
          BY <1>2, <4>1, <5>1
        <5> QED
          BY <5>1, <5>2
      <4> QED
        BY <1>0, <1>3, <1>9, <4>1, <4>2
    <3>5. CASE i > k + 1
      <4>1. r[i] = set[i - 1] /\ r[i + 1] = set[i] /\ i - 1 \in 1 .. Len(set) - 1
            /\ (i - 1) + 1 = i
        BY <1>0, <1>2, <1>5, <1>7, <3>1, <3>5
      <4>2. set[(i - 1) + 1].end < set[i - 1].start
        BY <4>1 DEF Sorted
      <4> QED
        BY <4>1, <4>2
    <3> QED
      BY <1>2, <3>1, <1>6, <3>2, <3>3, <3>4, <3>5
  <2> QED
    BY <1>5, <2>1, <2>2 DEF Sorted
<1>11. NumbersIn(r) = NumbersIn(set) \cup {n}
  <2>1. Numbers(new) = {n}
    BY <1>3 DEF Numbers
  <2>2. k + 1 \in DOMAIN r /\ r[k + 1] = new
    BY <1>0, <1>2, <1>5, <1>6
  <2>3. NumbersIn(r) \subseteq NumbersIn(set) \cup {n}
    BY <1>7, <2>1 DEF NumbersIn
  <2>4. NumbersIn(set) \subseteq NumbersIn(r)
    BY <1>8 DEF NumbersIn
  <2>5. n \in NumbersIn(r)
    BY <2>1, <2>2 DEF NumbersIn
  <2> QED
    BY <2>3, <2>4, <2>5
<1> QED
  BY <1>5, <1>10, <1>11

\* e is s with one more range.
Extends(e, s, x) ==
  /\ e \in Seq(NumberRange) /\ Len(e) = Len(s) + 1
  /\ \A i \in 1 .. Len(s) : e[i] = s[i]
  /\ e[Len(s) + 1] = x

LEMMA AppendExtends ==
  ASSUME NEW s \in Seq(NumberRange), NEW x \in NumberRange
  PROVE  Extends(Append(s, x), s, x)
BY AppendProperties DEF Extends

LEMMA ConcatExtends ==
  ASSUME NEW s \in Seq(NumberRange), NEW x \in NumberRange
  PROVE  Extends(s \o <<x>>, s, x)
<1>1. s \o <<x>> = Append(s, x)
  BY AppendIsConcat
<1> QED
  BY <1>1, AppendExtends

\* All ranges but the last one.
LEMMA FrontIs ==
  ASSUME NEW set \in Seq(NumberRange), set # <<>>, NEW s, s = Front(set)
  PROVE  /\ s \in Seq(NumberRange) /\ Len(s) = Len(set) - 1
         /\ \A i \in 1 .. Len(set) - 1 : s[i] = set[i]
<1>1. PICK m : m = Len(set) - 1
  OBVIOUS
<1>2. s = SubSeq(set, 1, m) /\ m \in Nat
  BY <1>1 DEF Front
<1>3. \A i \in 1 .. m : set[i] \in NumberRange
  BY <1>1
<1>4. /\ s \in Seq(NumberRange) /\ Len(s) = (IF 1 <= m THEN m - 1 + 1 ELSE 0)
      /\ \A i \in 1 .. m - 1 + 1 : s[i] = set[1 + i - 1]
  BY <1>2, <1>3, SubSeqProperties
<1>5. \A i \in 1 .. m : s[i] = set[i]
  BY <1>2, <1>4
<1> QED
  BY <1>1, <1>2, <1>4, <1>5

\* What a list covers when a range is added at its end.
LEMMA ExtendsCovers ==
  ASSUME NEW s \in Seq(NumberRange), NEW x, NEW e, Extends(e, s, x)
  PROVE  NumbersIn(e) = NumbersIn(s) \cup Numbers(x)
<1>1. /\ Len(s) \in Nat /\ DOMAIN s = 1 .. Len(s) /\ DOMAIN e = 1 .. Len(s) + 1
      /\ \A i \in 1 .. Len(s) : e[i] = s[i]
      /\ e[Len(s) + 1] = x
  BY DEF Extends
<1>2. \A i \in DOMAIN e : (i \in DOMAIN s /\ e[i] = s[i]) \/ e[i] = x
  BY <1>1
<1>3. \A i \in DOMAIN s : i \in DOMAIN e /\ e[i] = s[i]
  BY <1>1
<1>4. Len(s) + 1 \in DOMAIN e
  BY <1>1
<1>5. NumbersIn(e) \subseteq NumbersIn(s) \cup Numbers(x)
  BY <1>2 DEF NumbersIn
<1>6. NumbersIn(s) \subseteq NumbersIn(e)
  BY <1>3 DEF NumbersIn
<1>7. Numbers(x) \subseteq NumbersIn(e)
  BY <1>1, <1>4 DEF NumbersIn
<1> QED
  BY <1>5, <1>6, <1>7

\* A range below a merged array, and a merged array extended by it.
LEMMA ExtendsMerges ==
  ASSUME NEW s, Merged(s), NEW x \in NumberRange, x.start <= x.end,
         NEW e, Extends(e, s, x), Len(s) > 0 => x.end + 1 < s[Len(s)].start
  PROVE  Merged(e)
<1>1. /\ s \in Seq(NumberRange) /\ Len(s) \in Nat /\ DOMAIN s = 1 .. Len(s)
      /\ \A k \in 1 .. Len(s) : s[k].start \in Nat /\ s[k].end \in Nat
      /\ \A k \in 1 .. Len(s) : s[k].start <= s[k].end
  BY SortedIs DEF Merged
<1>2. /\ e \in Seq(NumberRange) /\ Len(e) = Len(s) + 1 /\ DOMAIN e = 1 .. Len(s) + 1
      /\ \A i \in 1 .. Len(s) : e[i] = s[i]
      /\ e[Len(s) + 1] = x
  BY <1>1 DEF Extends
<1>3. x.start \in Nat /\ x.end \in Nat
  BY DEF NumberRange
<1>4. \A i \in DOMAIN e : e[i].start <= e[i].end
  BY <1>1, <1>2
<1>5. ASSUME NEW i \in 1 .. Len(e) - 1
      PROVE  e[i + 1].end + 1 < e[i].start /\ e[i + 1].end < e[i].start
  <2>1. CASE i < Len(s)
    <3>1. /\ i \in 1 .. Len(s) - 1 /\ i \in 1 .. Len(s) /\ i + 1 \in 1 .. Len(s)
          /\ e[i] = s[i] /\ e[i + 1] = s[i + 1]
      BY <1>1, <1>2, <2>1
    <3>2. s[i + 1].end + 1 < s[i].start /\ s[i + 1].end < s[i].start
      BY <3>1 DEF Merged, Sorted
    <3> QED
      BY <3>1, <3>2
  <2>2. CASE i = Len(s)
    <3>1. e[i] = s[i] /\ e[i + 1] = x /\ Len(s) > 0 /\ s[i].start \in Nat
      BY <1>1, <1>2, <2>2
    <3>2. x.end + 1 < s[i].start
      BY <2>2, <3>1
    <3>3. x.end + 1 < e[i].start /\ e[i].start \in Nat /\ e[i + 1].end = x.end
      BY <3>1, <3>2
    <3> QED
      BY <1>3, <3>3
  <2>3. i < Len(s) \/ i = Len(s)
    <3>1. Len(e) = Len(s) + 1 /\ Len(s) \in Nat
      BY <1>1, <1>2
    <3> QED
      BY ONLY <3>1, i \in 1 .. Len(e) - 1
  <2> QED
    BY <2>1, <2>2, <2>3
<1> QED
  BY <1>2, <1>4, <1>5 DEF Merged, Sorted

LEMMA PrefixMerged ==
  ASSUME NEW set, Merged(set), NEW s \in Seq(NumberRange), Len(s) <= Len(set),
         \A i \in 1 .. Len(s) : s[i] = set[i]
  PROVE  Merged(s)
<1>1. /\ Len(s) \in Nat /\ DOMAIN s = 1 .. Len(s) /\ Len(set) \in Nat
      /\ DOMAIN set = 1 .. Len(set)
  BY SortedIs DEF Merged
<1>2. \A i \in DOMAIN s : s[i].start <= s[i].end
  BY <1>1 DEF Merged, Sorted
<1>3. ASSUME NEW i \in 1 .. Len(s) - 1
      PROVE  s[i + 1].end + 1 < s[i].start /\ s[i + 1].end < s[i].start
  <2>1. /\ i \in 1 .. Len(set) - 1 /\ i \in 1 .. Len(s) /\ i + 1 \in 1 .. Len(s)
    BY <1>1
  <2>2. s[i] = set[i] /\ s[i + 1] = set[i + 1]
    BY <2>1
  <2> QED
    BY <2>1, <2>2 DEF Merged, Sorted
<1> QED
  BY <1>2, <1>3 DEF Merged, Sorted

\* One range more is merged.
LEMMA AbsorbMerges ==
  ASSUME NEW done, Merged(done), NEW low \in NumberRange, low.start <= low.end,
         Len(done) > 0 => low.end < done[Len(done)].start,
         NEW e, e = Absorb(done, low)
  PROVE  /\ Merged(e) /\ Len(e) > 0 /\ Len(e) <= Len(done) + 1
         /\ e[Len(e)].start = low.start
         /\ NumbersIn(e) = NumbersIn(done) \cup Numbers(low)
<1>1. /\ done \in Seq(NumberRange) /\ Len(done) \in Nat /\ DOMAIN done = 1 .. Len(done)
      /\ \A k \in 1 .. Len(done) : done[k].start \in Nat /\ done[k].end \in Nat
      /\ \A k \in 1 .. Len(done) : done[k].start <= done[k].end
  BY SortedIs DEF Merged
<1>2. low.start \in Nat /\ low.end \in Nat
  BY DEF NumberRange
<1>3. Last(done) = done[Len(done)]
  BY DEF Last
<1>4. done = <<>> <=> Len(done) = 0
  BY <1>1
<1>5. CASE done = <<>> \/ low.end + 1 < Last(done).start
  <2>1. e = Append(done, low)
    BY <1>5 DEF Absorb
  <2>2. Extends(e, done, low)
    BY <1>1, <2>1, AppendExtends
  <2>3. Len(done) > 0 => low.end + 1 < done[Len(done)].start
    BY <1>3, <1>4, <1>5
  <2>4. Merged(e)
    BY <2>2, <2>3, ExtendsMerges
  <2>5. NumbersIn(e) = NumbersIn(done) \cup Numbers(low)
    BY <1>1, <2>2, ExtendsCovers
  <2> QED
    BY <1>1, <2>2, <2>4, <2>5 DEF Extends
<1>6. CASE ~(done = <<>> \/ low.end + 1 < Last(done).start)
  <2>1. PICK m : m = Len(done)
    OBVIOUS
  <2>2. /\ m \in 1 .. Len(done) /\ m \in Nat /\ done # <<>> /\ done[m].start \in Nat
        /\ done[m].end \in Nat /\ done[m].start <= done[m].end
        /\ low.end < done[m].start /\ ~(low.end + 1 < done[m].start)
    BY <1>1, <1>3, <1>4, <1>6, <2>1
  <2>3. low.end + 1 = done[m].start /\ low.start < done[m].start /\ ~(low.end > done[m].end)
    BY <1>2, <2>2
  <2>4. PICK x \in NumberRange : x = [start |-> low.start, end |-> done[m].end]
    BY <1>2, <2>2 DEF NumberRange
  <2>5. PICK s : s = Front(done)
    OBVIOUS
  <2>6. e = s \o <<x>>
    BY <1>3, <1>6, <2>1, <2>3, <2>4, <2>5 DEF Absorb
  <2>7. /\ s \in Seq(NumberRange) /\ Len(s) = m - 1 /\ \A i \in 1 .. m - 1 : s[i] = done[i]
    BY <1>1, <2>1, <2>2, <2>5, FrontIs
  <2>8. Extends(e, s, x)
    BY <2>6, <2>7, ConcatExtends
  <2>9. Extends(done, s, done[m])
    BY <1>1, <2>1, <2>2, <2>7 DEF Extends
  <2>10. Merged(s)
    BY <2>1, <2>2, <2>7, PrefixMerged
  <2>11. Len(s) > 0 => x.end + 1 < s[Len(s)].start
    <3> SUFFICES ASSUME m > 1 PROVE x.end + 1 < s[m - 1].start
      BY <2>2, <2>7
    <3>1. m - 1 \in 1 .. Len(done) - 1 /\ (m - 1) + 1 = m /\ s[m - 1] = done[m - 1]
      BY <2>1, <2>2, <2>7
    <3>2. done[(m - 1) + 1].end + 1 < done[m - 1].start
      BY <3>1 DEF Merged
    <3> QED
      BY <2>4, <3>1, <3>2
  <2>12. x.start <= x.end /\ x.start = low.start
    BY <1>2, <2>2, <2>3, <2>4
  <2>13. Merged(e)
    BY <2>8, <2>10, <2>11, <2>12, ExtendsMerges
  <2>14. Numbers(x) = Numbers(low) \cup Numbers(done[m])
    BY <1>2, <2>2, <2>3, <2>4 DEF Numbers
  <2>15. NumbersIn(e) = NumbersIn(s) \cup Numbers(x)
    BY <2>7, <2>8, ExtendsCovers
  <2>16. NumbersIn(done) = NumbersIn(s) \cup Numbers(done[m])
    BY <2>7, <2>9, ExtendsCovers
  <2>17. Len(e) = m /\ e[m] = x
    BY <2>2, <2>7, <2>8 DEF Extends
  <2> QED
    BY <2>1, <2>2, <2>12, <2>13, <2>14, <2>15, <2>16, <2>17
<1> QED
  BY <1>5, <1>6

\* What ai_quic_pn_space_merge_ranges has after the first i ranges.
MergedUpTo(set, i) ==
  {done \in Seq(NumberRange) :
     /\ Merged(done) /\ Len(done) <= i /\ NumbersIn(done) = NumbersIn(SubSeq(set, 1, i))
     /\ Len(done) > 0 => i > 0 /\ done[Len(done)].start = set[i].start}

LEMMA NothingMerged == Merged(<<>>) /\ NumbersIn(<<>>) = {}
BY DEF Merged, Sorted, NumbersIn

\* One iteration.
LEMMA MergeStep ==
  ASSUME NEW set, Sorted(set), NEW i \in 1 .. Len(set), NEW done \in MergedUpTo(set, i - 1)
  PROVE  Absorb(done, set[i]) \in MergedUpTo(set, i)
<1>1. /\ set \in Seq(NumberRange) /\ Len(set) \in Nat /\ DOMAIN set = 1 .. Len(set)
      /\ set[i] \in NumberRange /\ set[i].start <= set[i].end
      /\ \A k \in 1 .. Len(set) - 1 : set[k + 1].end < set[k].start
  BY SortedIs
<1>2. /\ Merged(done) /\ done \in Seq(NumberRange) /\ Len(done) \in Nat /\ Len(done) <= i - 1
      /\ NumbersIn(done) = NumbersIn(SubSeq(set, 1, i - 1))
      /\ Len(done) > 0 => i - 1 > 0 /\ done[Len(done)].start = set[i - 1].start
  BY DEF MergedUpTo
<1>3. Len(done) > 0 => set[i].end < done[Len(done)].start
  <2> SUFFICES ASSUME Len(done) > 0 PROVE set[i].end < done[Len(done)].start
    OBVIOUS
  <2>1. i - 1 \in 1 .. Len(set) - 1 /\ (i - 1) + 1 = i
    BY <1>1, <1>2
  <2>2. set[(i - 1) + 1].end < set[i - 1].start
    BY <1>1, <2>1
  <2> QED
    BY <1>2, <2>1, <2>2
<1>4. PICK e : e = Absorb(done, set[i])
  OBVIOUS
<1>5. /\ Merged(e) /\ Len(e) > 0 /\ Len(e) <= Len(done) + 1
      /\ e[Len(e)].start = set[i].start
      /\ NumbersIn(e) = NumbersIn(done) \cup Numbers(set[i])
  BY <1>1, <1>2, <1>3, <1>4, AbsorbMerges
<1>6. NumbersIn(SubSeq(set, 1, i)) = NumbersIn(SubSeq(set, 1, i - 1)) \cup Numbers(set[i])
  <2>1. PICK s : s = SubSeq(set, 1, i - 1)
    OBVIOUS
  <2>2. PICK u : u = SubSeq(set, 1, i)
    OBVIOUS
  <2>3. \A k \in 1 .. i : set[k] \in NumberRange
    BY <1>1
  <2>4. /\ s \in Seq(NumberRange) /\ Len(s) = i - 1 /\ \A k \in 1 .. i - 1 : s[k] = set[k]
    <3>1. PICK m : m = i - 1
      OBVIOUS
    <3>2. m \in Nat /\ m <= i
      BY <3>1
    <3>3. /\ s \in Seq(NumberRange) /\ Len(s) = (IF 1 <= m THEN m - 1 + 1 ELSE 0)
          /\ \A k \in 1 .. m - 1 + 1 : s[k] = set[1 + k - 1]
      BY <2>1, <2>3, <3>1, <3>2, SubSeqProperties
    <3>4. \A k \in 1 .. m : s[k] = set[k]
      BY <3>2, <3>3
    <3> QED
      BY <3>1, <3>2, <3>3, <3>4
  <2>5. /\ u \in Seq(NumberRange) /\ Len(u) = i /\ \A k \in 1 .. i : u[k] = set[k]
    <3>1. /\ u \in Seq(NumberRange) /\ Len(u) = (IF 1 <= i THEN i - 1 + 1 ELSE 0)
          /\ \A k \in 1 .. i - 1 + 1 : u[k] = set[1 + k - 1]
      BY <2>2, <2>3, SubSeqProperties
    <3>2. \A k \in 1 .. i : u[k] = set[k]
      BY <3>1
    <3> QED
      BY <3>1, <3>2
  <2>6. Extends(u, s, set[i])
    BY <2>4, <2>5 DEF Extends
  <2> QED
    BY <2>1, <2>2, <2>4, <2>6, ExtendsCovers
<1>7. e \in Seq(NumberRange)
  BY <1>5 DEF Merged, Sorted
<1>8. Len(e) <= i
  BY <1>1, <1>2, <1>5, <1>7
<1> QED
  <2>1. NumbersIn(e) = NumbersIn(SubSeq(set, 1, i))
    BY <1>2, <1>5, <1>6
  <2>2. Len(e) > 0 => i > 0 /\ e[Len(e)].start = set[i].start
    BY <1>1, <1>5
  <2>3. e \in MergedUpTo(set, i)
    BY ONLY <2>1, <2>2, <1>5, <1>7, <1>8 DEF MergedUpTo
  <2> QED
    BY <1>4, <2>3

\* Merging keeps what is covered and never takes more slots.
LEMMA MergeRangesIs ==
  ASSUME NEW set, Sorted(set), NEW m, m = MergeRanges(set)
  PROVE  Merged(m) /\ Len(m) <= Len(set) /\ NumbersIn(m) = NumbersIn(set)
<1> DEFINE n == Len(set)
           T == [i \in 0 .. n |-> MergedUpTo(set, i)]
           Loop(f) == f = [i \in 0 .. n |-> IF i = 0 THEN <<>> ELSE Absorb(f[i - 1], set[i])]
<1>1. set \in Seq(NumberRange) /\ n \in Nat /\ DOMAIN set = 1 .. n
  BY SortedIs
<1>2. \A i \in 0 .. n : T[i] = MergedUpTo(set, i)
  OBVIOUS
<1>3. <<>> \in MergedUpTo(set, 0)
  <2>1. SubSeq(set, 1, 0) = <<>>
    BY SubSeqEmpty
  <2>2. PICK none : none = <<>>
    OBVIOUS
  <2>3. none \in Seq(NumberRange) /\ Len(none) <= 0 /\ ~(Len(none) > 0)
    BY <2>2
  <2>4. Merged(none) /\ NumbersIn(none) = NumbersIn(SubSeq(set, 1, 0))
    BY <2>1, <2>2, NothingMerged
  <2>5. none \in MergedUpTo(set, 0)
    BY ONLY <2>3, <2>4 DEF MergedUpTo
  <2> QED
    BY <2>2, <2>5
<1>4. ASSUME NEW i \in 1 .. n, NEW done \in T[i - 1] PROVE Absorb(done, set[i]) \in T[i]
  <2>1. i - 1 \in 0 .. n /\ i \in 0 .. n
    BY <1>1
  <2>2. done \in MergedUpTo(set, i - 1)
    BY <1>2, <2>1
  <2>3. Absorb(done, set[i]) \in MergedUpTo(set, i)
    BY <2>2, MergeStep
  <2> QED
    BY <1>2, <2>1, <2>3
<1> HIDE DEF T, n
<1>5. \E f : Loop(f)
  <2> DEFINE step == [i \in 1 .. n |-> [done \in T[i - 1] |-> Absorb(done, set[i])]]
  <2>1. \A i \in 1 .. n : \A done \in T[i - 1] : step[i][done] = Absorb(done, set[i])
    OBVIOUS
  <2>2. \A i \in 1 .. n : step[i] \in [T[i - 1] -> T[i]]
    BY <1>4
  <2>3. <<>> \in T[0]
    BY <1>1, <1>2, <1>3
  <2> HIDE DEF step
  <2>4. Steps(T, <<>>, n, step)
    BY <1>1, <2>2, <2>3 DEF Steps
  <2>5. PICK f : Follows(f, T, <<>>, n, step)
    BY <2>4, RecursionExists
  <2>6. ASSUME NEW i \in 0 .. n
        PROVE  f[i] = IF i = 0 THEN <<>> ELSE Absorb(f[i - 1], set[i])
    <3>1. CASE i = 0
      BY <2>5, <3>1 DEF Follows
    <3>2. CASE i # 0
      <4>1. i \in 1 .. n /\ i - 1 \in 0 .. n
        BY <1>1, <3>2
      <4>2. f[i - 1] \in T[i - 1]
        BY <2>5, <4>1 DEF Follows
      <4> QED
        BY <2>1, <2>5, <3>2, <4>1, <4>2 DEF Follows
    <3> QED
      BY <3>1, <3>2
  <2>7. Loop(f)
    BY <2>5, <2>6 DEF Follows
  <2> QED
    BY <2>7
<1>6. PICK g : g = (CHOOSE f : Loop(f))
  OBVIOUS
<1>7. Loop(g)
  <2> HIDE DEF Loop
  <2> QED
    BY <1>5, <1>6
<1>8. m = g[n]
  BY <1>6 DEF MergeRanges, n
<1> DEFINE S == {i \in 0 .. n : g[i] \in T[i]}
<1>9. 0 \in S
  BY <1>1, <1>2, <1>3, <1>7
<1>10. \A i \in 1 .. n : i - 1 \in S => i \in S
  <2> SUFFICES ASSUME NEW i \in 1 .. n, i - 1 \in S PROVE i \in S
    OBVIOUS
  <2>1. g[i] = Absorb(g[i - 1], set[i]) /\ i \in 0 .. n
    BY <1>1, <1>7
  <2>2. g[i - 1] \in T[i - 1]
    OBVIOUS
  <2> QED
    BY <1>4, <2>1, <2>2
<1> HIDE DEF S
<1>11. n \in S
  <2>1. 0 .. n \subseteq S
    BY <1>1, <1>9, <1>10, InductionUpTo
  <2> QED
    BY <1>1, <2>1
<1>12. m \in MergedUpTo(set, n)
  <2>1. n \in 0 .. n
    BY <1>1
  <2> QED
    BY <1>2, <1>8, <1>11, <2>1 DEF S
<1>13. SubSeq(set, 1, n) = set
  BY <1>1, SubSeqFull DEF n
<1> QED
  BY <1>12, <1>13 DEF MergedUpTo, n

\* Any two ranges of a merged array have a number missing between them.
LEMMA MergedPairs ==
  ASSUME NEW set, Merged(set), NEW i \in DOMAIN set, NEW j \in DOMAIN set, i < j
  PROVE  set[j].end + 1 < set[i].start
<1>1. /\ Len(set) \in Nat /\ DOMAIN set = 1 .. Len(set) /\ Sorted(set)
      /\ \A k \in 1 .. Len(set) : set[k].start \in Nat /\ set[k].end \in Nat
      /\ \A k \in 1 .. Len(set) : set[k].start <= set[k].end
  BY SortedIs DEF Merged
<1>2. PICK k : k = i + 1
  OBVIOUS
<1>3. k \in DOMAIN set /\ i \in 1 .. Len(set) - 1 /\ (k = j \/ k < j)
  BY <1>1, <1>2
<1>4. set[k].end + 1 < set[i].start
  BY <1>2, <1>3 DEF Merged
<1>5. CASE k = j
  BY <1>4, <1>5
<1>6. CASE k < j
  <2>1. set[j].end < set[k].start
    BY <1>1, <1>3, <1>6, SortedPairs
  <2>2. /\ set[j].end \in Nat /\ set[k].start \in Nat /\ set[k].end \in Nat
        /\ set[i].start \in Nat /\ set[k].start <= set[k].end
    BY <1>1, <1>3
  <2> QED
    BY ONLY <1>4, <2>1, <2>2
<1> QED
  BY <1>3, <1>5, <1>6

\* The numbers of a merged array, by their ranges.
LEMMA CoveredIs ==
  ASSUME NEW set, Merged(set)
  PROVE  /\ NumbersIn(set) \subseteq Nat
         /\ \A x \in NumbersIn(set) :
              \E i \in DOMAIN set : x \in Nat /\ set[i].start <= x /\ x <= set[i].end
         /\ \A i \in DOMAIN set : /\ set[i].start \in NumbersIn(set)
                                  /\ set[i].end \in NumbersIn(set)
         /\ \A i \in DOMAIN set, x \in Nat :
              set[i].start <= x /\ x <= set[i].end => x \in NumbersIn(set)
<1>1. /\ \A k \in DOMAIN set : set[k].start \in Nat /\ set[k].end \in Nat
      /\ \A k \in DOMAIN set : set[k].start <= set[k].end
  BY SortedIs DEF Merged
<1>2. \A x \in NumbersIn(set) : \E i \in DOMAIN set : x \in Numbers(set[i])
  BY DEF NumbersIn
<1>3. \A i \in DOMAIN set : \A x \in Numbers(set[i]) : x \in NumbersIn(set)
  BY DEF NumbersIn
<1>4. \A i \in DOMAIN set : \A x \in Numbers(set[i]) :
        x \in Nat /\ set[i].start <= x /\ x <= set[i].end
  BY <1>1 DEF Numbers
<1>5. \A i \in DOMAIN set, x \in Nat :
        set[i].start <= x /\ x <= set[i].end => x \in Numbers(set[i])
  BY <1>1 DEF Numbers
<1>6. NumbersIn(set) \subseteq Nat
  BY <1>2, <1>4
<1>7. \A x \in NumbersIn(set) :
        \E i \in DOMAIN set : x \in Nat /\ set[i].start <= x /\ x <= set[i].end
  BY <1>2, <1>4
<1>8. \A i \in DOMAIN set, x \in Nat :
        set[i].start <= x /\ x <= set[i].end => x \in NumbersIn(set)
  BY <1>3, <1>5
<1>9. \A i \in DOMAIN set : set[i].start \in NumbersIn(set) /\ set[i].end \in NumbersIn(set)
  BY <1>1, <1>8
<1> QED
  BY <1>6, <1>7, <1>8, <1>9

\* The first range ends with the largest number.
LEMMA FirstIsLargest ==
  ASSUME NEW set, Merged(set), set # <<>>, NEW x \in NumbersIn(set)
  PROVE  x <= set[1].end
<1>1. /\ set \in Seq(NumberRange) /\ Len(set) \in Nat /\ DOMAIN set = 1 .. Len(set)
      /\ \A k \in 1 .. Len(set) : set[k].start \in Nat /\ set[k].end \in Nat
      /\ \A k \in 1 .. Len(set) : set[k].start <= set[k].end
  BY SortedIs DEF Merged
<1>2. 1 \in DOMAIN set
  BY <1>1
<1>3. PICK i \in DOMAIN set : x \in Nat /\ set[i].start <= x /\ x <= set[i].end
  BY CoveredIs
<1>4. CASE i = 1
  BY <1>3, <1>4
<1>5. CASE i # 1
  <2>1. 1 < i
    BY <1>1, <1>5
  <2>2. set[i].end < set[1].start
    BY <1>2, <2>1, SortedPairs DEF Merged
  <2> QED
    BY <1>1, <1>2, <1>3, <2>2
<1> QED
  BY <1>4, <1>5

\* The last range starts with the smallest number.
LEMMA LastIsLowest ==
  ASSUME NEW set, Merged(set), set # <<>>, NEW x \in NumbersIn(set)
  PROVE  Last(set).start <= x
<1>1. /\ set \in Seq(NumberRange) /\ Len(set) \in Nat /\ DOMAIN set = 1 .. Len(set)
      /\ \A k \in 1 .. Len(set) : set[k].start \in Nat /\ set[k].end \in Nat
      /\ \A k \in 1 .. Len(set) : set[k].start <= set[k].end
  BY SortedIs DEF Merged
<1>2. PICK m : m = Len(set)
  OBVIOUS
<1>3. m \in DOMAIN set /\ Last(set) = set[m]
  BY <1>1, <1>2 DEF Last
<1>4. PICK i \in DOMAIN set : x \in Nat /\ set[i].start <= x /\ x <= set[i].end
  BY CoveredIs
<1>5. CASE i = m
  BY <1>3, <1>4, <1>5
<1>6. CASE i # m
  <2>1. i < m
    BY <1>1, <1>2, <1>6
  <2>2. set[m].end < set[i].start
    BY <1>3, <2>1, SortedPairs DEF Merged
  <2> QED
    BY <1>1, <1>3, <1>4, <2>2
<1> QED
  BY <1>5, <1>6

\* What stays of the array when a number comes that it has not.
LEMMA KeptIs ==
  ASSUME NEW set, Merged(set), Len(set) <= MaxReceivedRanges, NEW k, k = KeptRanges(set)
  PROVE  /\ Merged(k) /\ Len(k) < MaxReceivedRanges
         /\ Len(set) < MaxReceivedRanges => k = set
         /\ Len(set) >= MaxReceivedRanges =>
              /\ set # <<>> /\ NumbersIn(set) = NumbersIn(k) \cup Numbers(Last(set))
              /\ \A x \in NumbersIn(k) : x > Last(set).end + 1
<1>0. MaxReceivedRanges \in Nat \ {0}
  BY AckRangesAssumption
<1>1. /\ set \in Seq(NumberRange) /\ Len(set) \in Nat /\ DOMAIN set = 1 .. Len(set)
      /\ \A i \in 1 .. Len(set) : set[i].start \in Nat /\ set[i].end \in Nat
      /\ \A i \in 1 .. Len(set) : set[i].start <= set[i].end
  BY SortedIs DEF Merged
<1>2. CASE Len(set) < MaxReceivedRanges
  <2>1. k = set
    BY <1>2 DEF KeptRanges
  <2> QED
    BY <1>0, <1>1, <1>2, <2>1
<1>3. CASE ~(Len(set) < MaxReceivedRanges)
  <2>1. k = Front(set) /\ set # <<>>
    BY <1>0, <1>1, <1>3 DEF KeptRanges
  <2>2. PICK m : m = Len(set)
    OBVIOUS
  <2>3. m \in 1 .. Len(set) /\ m \in Nat /\ Last(set) = set[m] /\ m = MaxReceivedRanges
    <3>1. m <= MaxReceivedRanges /\ ~(m < MaxReceivedRanges) /\ m \in Nat
      BY <1>1, <1>3, <2>2
    <3>2. Last(set) = set[m]
      BY <2>2 DEF Last
    <3>3. m = MaxReceivedRanges /\ m \in 1 .. m
      BY ONLY <1>0, <3>1
    <3> QED
      BY <2>2, <3>1, <3>2, <3>3
  <2>4. /\ k \in Seq(NumberRange) /\ Len(k) = m - 1 /\ \A i \in 1 .. m - 1 : k[i] = set[i]
    BY <1>1, <2>1, <2>2, FrontIs
  <2>5. Merged(k)
    <3>1. Len(k) <= Len(set) /\ \A i \in 1 .. Len(k) : k[i] = set[i]
      BY <2>2, <2>3, <2>4
    <3> QED
      BY <2>4, <3>1, PrefixMerged
  <2>6. Extends(set, k, set[m])
    BY <1>1, <2>2, <2>3, <2>4 DEF Extends
  <2>7. NumbersIn(set) = NumbersIn(k) \cup Numbers(set[m])
    BY <2>4, <2>6, ExtendsCovers
  <2>8. ASSUME NEW x \in NumbersIn(k) PROVE x > set[m].end + 1
    <3>1. PICK i \in DOMAIN k : x \in Nat /\ k[i].start <= x /\ x <= k[i].end
      BY <2>5, CoveredIs
    <3>2. i \in 1 .. m - 1 /\ i \in DOMAIN set /\ m \in DOMAIN set /\ i < m /\ k[i] = set[i]
      BY <1>1, <2>2, <2>3, <2>4
    <3>3. set[m].end + 1 < set[i].start
      BY <3>2, MergedPairs
    <3>4. set[m].end \in Nat /\ set[i].start \in Nat /\ set[i].start <= x
      BY <1>1, <3>1, <3>2
    <3> QED
      BY ONLY <3>1, <3>3, <3>4
  <2> QED
    BY <1>0, <1>3, <2>1, <2>3, <2>4, <2>5, <2>7, <2>8
<1> QED
  BY <1>2, <1>3

\* What an array is for a packet number that arrives (the invariant, below).
ArrayOK(set, largest, numbers) ==
  /\ Merged(set) /\ Len(set) <= MaxReceivedRanges
  /\ numbers \subseteq PacketNumbers /\ NumbersIn(set) \subseteq numbers
  /\ numbers = {} => set = <<>> /\ largest = NonePn
  /\ numbers # {} => largest \in NumbersIn(set) /\ \A n \in numbers : n <= largest

IndInv == ArrayOK(received_ranges, largest_received, arrived)

\* A number that is recorded enters an array that has room for it.
LEMMA InsertedIs ==
  ASSUME NEW k, Merged(k), Len(k) < MaxReceivedRanges, NEW n \in Nat, n \notin NumbersIn(k),
         NEW r, r = MergeRanges(InsertNumber(k, n))
  PROVE  Merged(r) /\ Len(r) <= MaxReceivedRanges /\ NumbersIn(r) = NumbersIn(k) \cup {n}
<1>1. PICK s : s = InsertNumber(k, n)
  OBVIOUS
<1>2. Sorted(s) /\ Len(s) = Len(k) + 1 /\ NumbersIn(s) = NumbersIn(k) \cup {n}
  BY <1>1, InsertSorts DEF Merged
<1>3. Merged(r) /\ Len(r) <= Len(s) /\ NumbersIn(r) = NumbersIn(s)
  BY <1>1, <1>2, MergeRangesIs
<1>4. Len(k) \in Nat /\ Len(r) \in Nat /\ MaxReceivedRanges \in Nat
  BY <1>3, SortedIs, AckRangesAssumption DEF Merged
<1> QED
  BY <1>2, <1>3, <1>4

\* The handler, in the branch that records and in the one that does not.
Ignored(set, n) ==
  n \in NumbersIn(set) \/ (Len(set) >= MaxReceivedRanges /\ n <= Last(set).start)

LEMMA RecordKeeps ==
  ASSUME NEW set, NEW largest, NEW numbers, ArrayOK(set, largest, numbers),
         NEW n \in PacketNumbers, ~Ignored(set, n),
         NEW r, r = MergeRanges(InsertNumber(KeptRanges(set), n))
  PROVE  /\ Merged(r) /\ Len(r) <= MaxReceivedRanges
         /\ NumbersIn(r) \subseteq NumbersIn(set) \cup {n} /\ n \in NumbersIn(r)
         /\ largest \in NumbersIn(set) => largest \in NumbersIn(r) \/ largest < n
<1>0. /\ Merged(set) /\ Len(set) <= MaxReceivedRanges /\ n \in Nat
      /\ Len(set) \in Nat /\ MaxReceivedRanges \in Nat /\ set \in Seq(NumberRange)
  BY SortedIs, AckRangesAssumption DEF ArrayOK, Merged, PacketNumbers
<1>1. PICK k : k = KeptRanges(set)
  OBVIOUS
<1>2. /\ Merged(k) /\ Len(k) < MaxReceivedRanges
      /\ Len(set) < MaxReceivedRanges => k = set
      /\ Len(set) >= MaxReceivedRanges =>
           /\ set # <<>> /\ NumbersIn(set) = NumbersIn(k) \cup Numbers(Last(set))
           /\ \A x \in NumbersIn(k) : x > Last(set).end + 1
  BY <1>0, <1>1, KeptIs
<1>3. n \notin NumbersIn(k)
  BY <1>0, <1>2 DEF Ignored
<1>4. Merged(r) /\ Len(r) <= MaxReceivedRanges /\ NumbersIn(r) = NumbersIn(k) \cup {n}
  BY <1>0, <1>1, <1>2, <1>3, InsertedIs
<1>5. NumbersIn(k) \subseteq NumbersIn(set)
  BY <1>0, <1>2
<1>6. ASSUME largest \in NumbersIn(set), largest \notin NumbersIn(r) PROVE largest < n
  <2>1. Len(set) >= MaxReceivedRanges /\ largest \in Numbers(Last(set)) /\ set # <<>>
    BY <1>0, <1>2, <1>4, <1>6
  <2>2. PICK m : m = Len(set)
    OBVIOUS
  <2>3. m \in DOMAIN set /\ Last(set) = set[m]
    BY <1>0, <2>1, <2>2 DEF Last
  <2>4. /\ set[m].start \in Nat /\ set[m].end \in Nat /\ largest \in Nat
        /\ largest <= set[m].end
    BY <1>0, <2>1, <2>3, SortedIs DEF Merged, Numbers
  <2>5. ~(n <= set[m].start) /\ n \notin NumbersIn(set)
    BY <2>1, <2>3 DEF Ignored
  <2>6. ~(set[m].start <= n /\ n <= set[m].end)
    BY <1>0, <2>3, <2>5, CoveredIs
  <2> QED
    BY <1>0, <2>4, <2>5, <2>6
<1> QED
  BY <1>4, <1>5, <1>6

LEMMA ReceivedKeeps ==
  ASSUME IndInv, NEW n \in PacketNumbers, OnPacketReceived(n)
  PROVE  IndInv'
<1> DEFINE set == received_ranges
           r == received_ranges'
<1>0. /\ Merged(set) /\ Len(set) <= MaxReceivedRanges /\ n \in Nat
      /\ Len(set) \in Nat /\ MaxReceivedRanges \in Nat /\ set \in Seq(NumberRange)
      /\ arrived \subseteq PacketNumbers /\ NumbersIn(set) \subseteq arrived
      /\ ArrayOK(set, largest_received, arrived)
  BY SortedIs, AckRangesAssumption DEF IndInv, ArrayOK, Merged, PacketNumbers
<1>1. /\ arrived' = arrived \cup {n} /\ n \in arrived'
      /\ largest_received' = IF n > largest_received THEN n ELSE largest_received
  BY DEF OnPacketReceived
<1>2. /\ arrived = {} => set = <<>> /\ largest_received = NonePn /\ NumbersIn(set) = {}
      /\ arrived # {} => /\ largest_received \in NumbersIn(set) /\ largest_received \in Nat
                         /\ \A x \in arrived : x <= largest_received
  <2>1. NumbersIn(<<>>) = {}
    BY NothingMerged
  <2>2. NumbersIn(set) \subseteq Nat
    BY <1>0, CoveredIs
  <2> QED
    BY <2>1, <2>2 DEF IndInv, ArrayOK
<1>3. /\ Merged(r) /\ Len(r) <= MaxReceivedRanges /\ NumbersIn(r) \subseteq NumbersIn(set) \cup {n}
      /\ n > largest_received => n \in NumbersIn(r)
      /\ largest_received \in NumbersIn(set) /\ ~(n > largest_received) =>
           largest_received \in NumbersIn(r)
  <2>1. CASE Ignored(set, n)
    <3>1. r = set
      BY <2>1 DEF OnPacketReceived, Ignored
    <3>2. CASE n \in NumbersIn(set)
      BY <1>0, <3>1, <3>2
    <3>3. CASE Len(set) >= MaxReceivedRanges /\ n <= Last(set).start
      <4>1. set # <<>>
        BY <1>0, <3>3, AckRangesAssumption
      <4>2. arrived # {}
        BY <1>2, <4>1
      <4>3. Last(set).start <= largest_received
        BY <1>0, <1>2, <4>1, <4>2, LastIsLowest
      <4>4. Last(set).start \in Nat
        <5>1. PICK m : m = Len(set)
          OBVIOUS
        <5>2. m \in DOMAIN set /\ Last(set) = set[m]
          BY <1>0, <4>1, <5>1 DEF Last
        <5> QED
          BY <1>0, <5>2, SortedIs DEF Merged
      <4>5. ~(n > largest_received)
        BY <1>0, <1>2, <3>3, <4>2, <4>3, <4>4
      <4> QED
        BY <1>0, <3>1, <4>5
    <3> QED
      BY <2>1, <3>2, <3>3 DEF Ignored
  <2>2. CASE ~Ignored(set, n)
    <3>1. r = MergeRanges(InsertNumber(KeptRanges(set), n))
      BY <2>2 DEF OnPacketReceived, Ignored
    <3>2. /\ Merged(r) /\ Len(r) <= MaxReceivedRanges
          /\ NumbersIn(r) \subseteq NumbersIn(set) \cup {n} /\ n \in NumbersIn(r)
          /\ largest_received \in NumbersIn(set) =>
               largest_received \in NumbersIn(r) \/ largest_received < n
      BY <1>0, <2>2, <3>1, RecordKeeps
    <3>3. largest_received \in NumbersIn(set) => largest_received \in Nat
      BY <1>0, CoveredIs
    <3> QED
      BY <1>0, <3>2, <3>3
  <2> QED
    BY <2>1, <2>2
<1>4. arrived' # {} /\ arrived' \subseteq PacketNumbers /\ NumbersIn(r) \subseteq arrived'
  BY <1>0, <1>1, <1>3
<1>5. largest_received' \in NumbersIn(r) /\ \A x \in arrived' : x <= largest_received'
  <2>1. CASE arrived = {}
    <3>1. n > largest_received
      BY <1>0, <1>2, <2>1 DEF NonePn
    <3> QED
      BY <1>0, <1>1, <1>3, <2>1, <3>1
  <2>2. CASE arrived # {}
    <3>1. \A x \in arrived : x \in Nat
      BY <1>0 DEF PacketNumbers
    <3>2. CASE n > largest_received
      <4>1. largest_received' = n
        BY <1>1, <3>2
      <4>2. \A x \in arrived : x <= n
        BY <1>0, <1>2, <2>2, <3>1, <3>2
      <4> QED
        BY <1>0, <1>1, <1>3, <3>2, <4>1, <4>2
    <3>3. CASE ~(n > largest_received)
      <4>1. largest_received' = largest_received /\ n <= largest_received
        BY <1>0, <1>1, <1>2, <2>2, <3>3
      <4> QED
        BY <1>1, <1>2, <1>3, <2>2, <3>3, <4>1
    <3> QED
      BY <3>2, <3>3
  <2> QED
    BY <2>1, <2>2
<1> QED
  BY <1>3, <1>4, <1>5 DEF IndInv, ArrayOK

LEMMA AlwaysOK == PnSpec => []IndInv
<1>1. PnInit => IndInv
  <2> SUFFICES ASSUME PnInit PROVE IndInv
    OBVIOUS
  <2>1. Len(received_ranges) = 0 /\ 0 <= MaxReceivedRanges
    BY AckRangesAssumption DEF PnInit
  <2> QED
    BY <2>1, NothingMerged DEF PnInit, IndInv, ArrayOK
<1>2. IndInv /\ [PnNext]_ackVars => IndInv'
  <2> SUFFICES ASSUME IndInv, [PnNext]_ackVars PROVE IndInv'
    OBVIOUS
  <2>1. ASSUME NEW n \in PacketNumbers, Arrives(n) PROVE IndInv'
    BY <2>1, ReceivedKeeps DEF Arrives
  <2>2. CASE UNCHANGED ackVars
    BY <2>2 DEF ackVars, IndInv
  <2> QED
    BY <2>1, <2>2 DEF PnNext
<1> QED
  BY <1>1, <1>2, PTL DEF PnSpec

\* The array is sorted and merged in every reachable state, however full.
THEOREM AlwaysWellFormed == PnSpec => []NumbersWF
<1>1. IndInv => NumbersWF
  BY DEF IndInv, ArrayOK, Merged, Sorted, NumbersWF
<1> QED
  BY <1>1, AlwaysOK, PTL

\* The largest number of the ACK frame is the largest that has arrived.
THEOREM LargestAlwaysReported == PnSpec => []LargestIsReported
<1>1. IndInv => LargestIsReported
  <2> SUFFICES ASSUME IndInv, arrived # {} PROVE
        /\ BuildAckFrame.largest_acked = largest_received
        /\ largest_received \in arrived /\ \A n \in arrived : n <= largest_received
    BY DEF LargestIsReported
  <2>1. /\ Merged(received_ranges) /\ largest_received \in NumbersIn(received_ranges)
        /\ NumbersIn(received_ranges) \subseteq arrived /\ \A n \in arrived : n <= largest_received
    BY DEF IndInv, ArrayOK
  <2>2. received_ranges # <<>>
    BY <2>1, NothingMerged
  <2>3. BuildAckFrame.largest_acked = received_ranges[1].end
    BY DEF BuildAckFrame
  <2>4. /\ 1 \in DOMAIN received_ranges /\ received_ranges[1].end \in Nat
        /\ received_ranges \in Seq(NumberRange)
    <3>1. /\ received_ranges \in Seq(NumberRange)
          /\ \A k \in 1 .. Len(received_ranges) : received_ranges[k].end \in Nat
      BY <2>1, SortedIs DEF Merged
    <3>2. 1 \in 1 .. Len(received_ranges) /\ 1 \in DOMAIN received_ranges
      BY <2>2, <3>1
    <3> QED
      BY <3>1, <3>2
  <2>5. largest_received \in Nat
    BY <2>1, CoveredIs
  <2>6. received_ranges[1].end <= largest_received
    BY <2>1, <2>4, CoveredIs
  <2>7. largest_received <= received_ranges[1].end
    BY <2>1, <2>2, FirstIsLargest
  <2> QED
    BY <2>1, <2>3, <2>4, <2>5, <2>6, <2>7
<1> QED
  BY <1>1, AlwaysOK, PTL

------------------------------------------------------------------------------
(* The array and the set it covers.                                        *)

\* The starts of the first k ranges.
Starts(set, k) == {set[i].start : i \in 1 .. k}

LEMMA StartsCount ==
  ASSUME NEW set, Merged(set), NEW k \in 0 .. Len(set)
  PROVE  Cardinality(Starts(set, k)) = k
<1> DEFINE f == [i \in 1 .. k |-> set[i].start]
<1>0. /\ Len(set) \in Nat /\ DOMAIN set = 1 .. Len(set)
      /\ \A i \in 1 .. Len(set) : set[i].start \in Nat /\ set[i].end \in Nat
      /\ \A i \in 1 .. Len(set) : set[i].start <= set[i].end
  BY SortedIs DEF Merged
<1>1. \A i \in 1 .. k : i \in DOMAIN set
  BY <1>0
<1>2. ASSUME NEW i \in 1 .. k, NEW j \in 1 .. k, i < j PROVE set[i].start # set[j].start
  <2>1. set[j].end < set[i].start
    BY <1>1, <1>2, SortedPairs DEF Merged
  <2> QED
    BY <1>0, <1>1, <2>1
<1>3. \A i, j \in 1 .. k : set[i].start = set[j].start => i = j
  <2> SUFFICES ASSUME NEW i \in 1 .. k, NEW j \in 1 .. k, set[i].start = set[j].start
               PROVE  i = j
    OBVIOUS
  <2>1. ~(i < j) /\ ~(j < i)
    BY <1>2
  <2> QED
    BY <2>1
<1>4. f \in Bijection(1 .. k, Starts(set, k))
  <2>1. f \in [1 .. k -> Starts(set, k)]
    BY DEF Starts
  <2>2. \A i, j \in 1 .. k : f[i] = f[j] => i = j
    BY <1>3
  <2>3. \A x \in Starts(set, k) : \E i \in 1 .. k : f[i] = x
    BY DEF Starts
  <2> HIDE DEF f
  <2>4. f \in Injection(1 .. k, Starts(set, k))
    BY <2>1, <2>2 DEF Injection, IsInjective
  <2>5. f \in Surjection(1 .. k, Starts(set, k))
    BY <2>1, <2>3 DEF Surjection
  <2> QED
    BY <2>4, <2>5 DEF Bijection
<1>5. IsFiniteSet(1 .. k) /\ Cardinality(1 .. k) = k
  BY <1>0, FS_Interval
<1> QED
  BY <1>4, <1>5, FS_Bijection DEF ExistsBijection

\* The slots in use are the runs of the set.
LEMMA RunStartsAre ==
  ASSUME NEW set, Merged(set)
  PROVE  /\ RunStarts(NumbersIn(set)) = Starts(set, Len(set))
         /\ RangeCount(NumbersIn(set)) = Len(set)
<1>0. /\ Len(set) \in Nat /\ DOMAIN set = 1 .. Len(set)
      /\ \A i \in 1 .. Len(set) : set[i].start \in Nat /\ set[i].end \in Nat
      /\ \A i \in 1 .. Len(set) : set[i].start <= set[i].end
  BY SortedIs DEF Merged
<1>1. ASSUME NEW i \in DOMAIN set PROVE set[i].start \in RunStarts(NumbersIn(set))
  <2>1. ASSUME NEW y \in NumbersIn(set) PROVE y + 1 # set[i].start
    <3>1. PICK j \in DOMAIN set : y \in Nat /\ set[j].start <= y /\ y <= set[j].end
      BY CoveredIs
    <3>2. CASE i < j
      BY <1>0, <3>1, <3>2, MergedPairs
    <3>3. CASE j < i
      <4>1. set[i].end + 1 < set[j].start
        BY <3>3, MergedPairs
      <4> QED
        BY <1>0, <3>1, <4>1
    <3>4. CASE i = j
      BY <1>0, <3>1, <3>4
    <3> QED
      BY <1>0, <3>2, <3>3, <3>4
  <2>2. set[i].start \in NumbersIn(set)
    BY CoveredIs
  <2> QED
    BY <2>1, <2>2 DEF RunStarts
<1>2. ASSUME NEW x \in RunStarts(NumbersIn(set)) PROVE \E i \in DOMAIN set : x = set[i].start
  <2>1. x \in NumbersIn(set) /\ \A y \in NumbersIn(set) : y + 1 # x
    BY DEF RunStarts
  <2>2. PICK i \in DOMAIN set : x \in Nat /\ set[i].start <= x /\ x <= set[i].end
    BY <2>1, CoveredIs
  <2>3. CASE x # set[i].start
    <3>1. x - 1 \in Nat /\ set[i].start <= x - 1 /\ x - 1 <= set[i].end /\ (x - 1) + 1 = x
      BY <1>0, <2>2, <2>3
    <3>2. x - 1 \in NumbersIn(set)
      BY <3>1, CoveredIs
    <3> QED
      BY <2>1, <3>1, <3>2
  <2> QED
    BY <2>3
<1>3. RunStarts(NumbersIn(set)) = Starts(set, Len(set))
  BY <1>0, <1>1, <1>2 DEF Starts
<1>4. Len(set) \in 0 .. Len(set)
  BY <1>0
<1> QED
  BY <1>3, <1>4, StartsCount DEF RangeCount

\* The last range is the lowest run.
LEMMA LowestRunIs ==
  ASSUME NEW set, Merged(set), set # <<>>
  PROVE  LowestRun(NumbersIn(set)) = Numbers(Last(set))
<1>0. /\ set \in Seq(NumberRange) /\ Len(set) \in Nat /\ DOMAIN set = 1 .. Len(set)
      /\ \A i \in 1 .. Len(set) : set[i].start \in Nat /\ set[i].end \in Nat
      /\ \A i \in 1 .. Len(set) : set[i].start <= set[i].end
  BY SortedIs DEF Merged
<1>1. PICK m : m = Len(set)
  OBVIOUS
<1>2. m \in DOMAIN set /\ Last(set) = set[m]
  BY <1>0, <1>1 DEF Last
<1>3. \A z \in NumbersIn(set) : z \in Nat /\ set[m].start <= z
  BY <1>2, CoveredIs, LastIsLowest
<1>4. ASSUME NEW x \in Numbers(set[m]) PROVE x \in LowestRun(NumbersIn(set))
  <2>1. x \in Nat /\ set[m].start <= x /\ x <= set[m].end
    BY <1>0, <1>2 DEF Numbers
  <2>2. x \in NumbersIn(set)
    BY <1>2, <2>1, CoveredIs
  <2>3. ASSUME NEW y \in 0 .. x, y \notin NumbersIn(set), NEW z \in NumbersIn(set) PROVE y < z
    <3>1. ~(set[m].start <= y /\ y <= set[m].end)
      BY <1>2, <2>3, CoveredIs
    <3> QED
      BY <1>0, <1>2, <1>3, <2>1, <3>1
  <2> QED
    BY <2>2, <2>3 DEF LowestRun
<1>5. ASSUME NEW x \in LowestRun(NumbersIn(set)) PROVE x \in Numbers(set[m])
  <2>1. /\ x \in NumbersIn(set) /\ x \in Nat
        /\ \A y \in 0 .. x : y \in NumbersIn(set) \/ \A z \in NumbersIn(set) : y < z
    BY <1>3 DEF LowestRun
  <2>2. PICK i \in DOMAIN set : set[i].start <= x /\ x <= set[i].end
    BY <2>1, CoveredIs
  <2>3. CASE i # m
    <3>1. i < m
      BY <1>0, <1>1, <2>3
    <3>2. set[m].end + 1 < set[i].start
      BY <1>2, <3>1, MergedPairs
    <3>3. PICK y : y = set[i].start - 1
      OBVIOUS
    <3>4. y \in 0 .. x /\ y > set[m].end /\ y + 1 = set[i].start
      BY <1>0, <1>2, <2>1, <2>2, <3>2, <3>3
    <3>5. set[m].end \in NumbersIn(set) /\ set[m].end \in Nat /\ ~(y < set[m].end)
      BY <1>0, <1>2, <3>4, CoveredIs
    <3>6. y \in NumbersIn(set)
      BY <2>1, <3>4, <3>5
    <3>7. set[i].start \in RunStarts(NumbersIn(set))
      BY <1>0, RunStartsAre DEF Starts
    <3> QED
      BY <3>4, <3>6, <3>7 DEF RunStarts
  <2>4. CASE i = m
    BY <1>0, <1>2, <2>1, <2>2, <2>4 DEF Numbers
  <2> QED
    BY <2>3, <2>4
<1> QED
  BY <1>2, <1>4, <1>5

\* A packet does to the set what RecordPn says.
LEMMA RecordsAsSet ==
  ASSUME NEW set, NEW largest, NEW numbers, ArrayOK(set, largest, numbers),
         NEW n \in PacketNumbers, NEW r,
         r = IF Ignored(set, n) THEN set ELSE MergeRanges(InsertNumber(KeptRanges(set), n))
  PROVE  NumbersIn(r) = RecordPn(NumbersIn(set), n, MaxReceivedRanges)
<1>0. /\ Merged(set) /\ Len(set) <= MaxReceivedRanges /\ n \in Nat
      /\ Len(set) \in Nat /\ MaxReceivedRanges \in Nat \ {0} /\ set \in Seq(NumberRange)
  BY SortedIs, AckRangesAssumption DEF ArrayOK, Merged, PacketNumbers
<1>1. RangeCount(NumbersIn(set)) = Len(set)
  BY <1>0, RunStartsAre
<1>2. CASE n \in NumbersIn(set)
  BY <1>2 DEF Ignored, RecordPn
<1>3. CASE n \notin NumbersIn(set) /\ Len(set) < MaxReceivedRanges
  <2>1. r = MergeRanges(InsertNumber(set, n))
    BY <1>0, <1>3 DEF Ignored, KeptRanges
  <2>2. NumbersIn(r) = NumbersIn(set) \cup {n}
    BY <1>0, <1>3, <2>1, InsertedIs
  <2> QED
    BY <1>1, <1>3, <2>2 DEF RecordPn
<1>4. CASE n \notin NumbersIn(set) /\ ~(Len(set) < MaxReceivedRanges)
  <2>0. Len(set) >= MaxReceivedRanges
    BY <1>0, <1>4
  <2>1. PICK k : k = KeptRanges(set)
    OBVIOUS
  <2>2. /\ Merged(k) /\ Len(k) < MaxReceivedRanges /\ set # <<>>
        /\ NumbersIn(set) = NumbersIn(k) \cup Numbers(Last(set))
        /\ \A x \in NumbersIn(k) : x > Last(set).end + 1
    BY <1>0, <2>0, <2>1, KeptIs
  <2>3. PICK m : m = Len(set)
    OBVIOUS
  <2>4. m \in DOMAIN set /\ Last(set) = set[m]
    BY <1>0, <2>2, <2>3 DEF Last
  <2>5. /\ set[m].start \in Nat /\ set[m].end \in Nat /\ set[m].start <= set[m].end
        /\ set[m].start \in NumbersIn(set)
    BY <1>0, <2>4, SortedIs, CoveredIs DEF Merged
  <2>6. CASE n <= set[m].start
    <3>1. r = set
      BY <2>0, <2>4, <2>6 DEF Ignored
    <3>2. ASSUME NEW x \in NumbersIn(set) PROVE n < x
      <4>1. set[m].start <= x /\ x \in Nat
        BY <1>0, <2>2, <2>4, LastIsLowest, CoveredIs
      <4>2. n # set[m].start
        BY <1>4, <2>5
      <4> QED
        BY <1>0, <2>5, <2>6, <4>1, <4>2
    <3> QED
      BY <1>1, <1>4, <3>1, <3>2 DEF RecordPn
  <2>7. CASE ~(n <= set[m].start)
    <3>1. r = MergeRanges(InsertNumber(k, n))
      BY <1>4, <2>1, <2>4, <2>7 DEF Ignored
    <3>2. n \notin NumbersIn(k)
      BY <1>4, <2>2
    <3>3. NumbersIn(r) = NumbersIn(k) \cup {n}
      BY <1>0, <2>2, <3>1, <3>2, InsertedIs
    <3>4. LowestRun(NumbersIn(set)) = Numbers(set[m])
      BY <1>0, <2>2, <2>4, LowestRunIs
    <3>5. NumbersIn(k) \cap Numbers(set[m]) = {}
      <4> SUFFICES ASSUME NEW x \in NumbersIn(k), x \in Numbers(set[m]) PROVE FALSE
        OBVIOUS
      <4>1. x > set[m].end + 1 /\ x \in Nat /\ x <= set[m].end
        BY <2>2, <2>4, <2>5 DEF Numbers
      <4> QED
        BY <2>5, <4>1
    <3>6. NumbersIn(set) \ LowestRun(NumbersIn(set)) = NumbersIn(k)
      BY <2>2, <2>4, <3>4, <3>5
    <3>7. ~(\A x \in NumbersIn(set) : n < x)
      BY <1>0, <2>5, <2>7
    <3> QED
      BY <1>1, <1>4, <3>3, <3>6, <3>7 DEF RecordPn
  <2> QED
    BY <2>6, <2>7
<1> QED
  BY <1>2, <1>3, <1>4

\* The array implements the set of PacketNumberSet.
THEOREM RangesImplementSet == PnSpec => ImplementsPnSet
<1>1. IndInv /\ [PnNext]_ackVars => [RecordsLikeSet]_ackVars
  <2> SUFFICES ASSUME IndInv, NEW n \in PacketNumbers, Arrives(n) PROVE RecordsLikeSet
    BY DEF PnNext
  <2>1. PICK r : r = received_ranges'
    OBVIOUS
  <2>2. r = IF Ignored(received_ranges, n) THEN received_ranges
            ELSE MergeRanges(InsertNumber(KeptRanges(received_ranges), n))
    BY <2>1 DEF Arrives, OnPacketReceived, Ignored
  <2>3. NumbersIn(r) = RecordPn(NumbersIn(received_ranges), n, MaxReceivedRanges)
    BY <2>2, RecordsAsSet DEF IndInv
  <2>4. n \in arrived'
    BY DEF Arrives, OnPacketReceived
  <2>5. NumbersIn(received_ranges') = NumbersIn(r)
    BY <2>1
  <2> QED
    BY <2>3, <2>4, <2>5 DEF RecordsLikeSet
<1> QED
  BY <1>1, AlwaysOK, PTL DEF PnSpec, ImplementsPnSet

------------------------------------------------------------------------------
(* The ACK frame.                                                          *)

Slots(set) == IF Len(set) - 1 < MaxAckRanges THEN Len(set) - 1 ELSE MaxAckRanges

\* The frame has the first ranges of a merged array: "continue" is never taken.
LEMMA FrameIs ==
  ASSUME Merged(received_ranges), received_ranges # <<>>, NEW frame, frame = BuildAckFrame
  PROVE  /\ Slots(received_ranges) \in Nat /\ Slots(received_ranges) < Len(received_ranges)
         /\ frame.largest_acked = received_ranges[1].end
         /\ frame.first_ack_range = received_ranges[1].end - received_ranges[1].start
         /\ Len(frame.ack_ranges) = Slots(received_ranges)
         /\ \A i \in 1 .. Slots(received_ranges) :
              /\ frame.ack_ranges[i].gap =
                   received_ranges[i].start - received_ranges[i + 1].end - 2
              /\ frame.ack_ranges[i].ack_range =
                   received_ranges[i + 1].end - received_ranges[i + 1].start
<1> DEFINE set == received_ranges
           apart(i) == set[i].start > set[i + 1].end + 1
           slot(i) == IF apart(i)
                      THEN [gap |-> set[i].start - set[i + 1].end - 2,
                            ack_range |-> set[i + 1].end - set[i + 1].start]
                      ELSE [gap |-> 0, ack_range |-> 0]
<1>0. /\ Len(set) \in Nat /\ DOMAIN set = 1 .. Len(set) /\ Len(set) # 0
      /\ \A i \in 1 .. Len(set) : set[i].start \in Nat /\ set[i].end \in Nat
      /\ \A i \in 1 .. Len(set) - 1 : set[i + 1].end + 1 < set[i].start
      /\ MaxAckRanges \in Nat
  <2>1. set \in Seq(NumberRange) /\ Len(set) \in Nat /\ DOMAIN set = 1 .. Len(set)
        /\ \A i \in 1 .. Len(set) : set[i].start \in Nat /\ set[i].end \in Nat
    BY SortedIs DEF Merged
  <2>2. Len(set) # 0
    BY <2>1
  <2> QED
    BY <2>1, <2>2, AckRangesAssumption DEF Merged
<1>1. PICK n : n = Slots(set)
  OBVIOUS
<1>2. n \in Nat /\ n <= Len(set) - 1
  <2>1. PICK l : l = Len(set) - 1
    OBVIOUS
  <2>2. l \in Nat /\ MaxAckRanges \in Nat
    BY <1>0, <2>1
  <2>3. n = IF l < MaxAckRanges THEN l ELSE MaxAckRanges
    BY <1>1, <2>1 DEF Slots
  <2>4. n \in Nat /\ n <= l
    BY ONLY <2>2, <2>3
  <2> QED
    BY <2>1, <2>4
<1>3. \A i \in 1 .. n : apart(i)
  <2> SUFFICES ASSUME NEW i \in 1 .. n PROVE apart(i)
    OBVIOUS
  <2>1. i \in 1 .. Len(set) - 1 /\ i \in 1 .. Len(set) /\ i + 1 \in 1 .. Len(set)
    BY <1>0, <1>2
  <2> QED
    BY <1>0, <2>1
<1>4. Cardinality({i \in 1 .. n : apart(i)}) = n
  <2>1. {i \in 1 .. n : apart(i)} = 1 .. n
    BY <1>3
  <2>2. Cardinality(1 .. n) = n
    BY <1>2, FS_Interval
  <2> QED
    BY <2>1, <2>2
<1>5. /\ frame.largest_acked = set[1].end
      /\ frame.first_ack_range = set[1].end - set[1].start
      /\ frame.ack_ranges = [i \in 1 .. Cardinality({i \in 1 .. n : apart(i)}) |-> slot(i)]
  BY <1>1 DEF BuildAckFrame, Slots
<1>6. frame.ack_ranges = [i \in 1 .. n |-> slot(i)]
  BY <1>4, <1>5
<1>7. \A i \in 1 .. n :
        slot(i) = [gap |-> set[i].start - set[i + 1].end - 2,
                   ack_range |-> set[i + 1].end - set[i + 1].start]
  BY <1>3
<1>8. Len(frame.ack_ranges) = n
  <2>1. PICK s : s = frame.ack_ranges
    OBVIOUS
  <2>2. s \in [1 .. n -> {slot(i) : i \in 1 .. n}]
    BY <1>6, <2>1
  <2> QED
    BY <1>2, <2>1, <2>2, FunctionIsSeq
<1>9. \A i \in 1 .. n : frame.ack_ranges[i] = slot(i)
  BY <1>6
<1>10. n < Len(set)
  BY <1>0, <1>2
<1> HIDE DEF slot, apart
<1>11. \A i \in 1 .. n :
         /\ frame.ack_ranges[i].gap = set[i].start - set[i + 1].end - 2
         /\ frame.ack_ranges[i].ack_range = set[i + 1].end - set[i + 1].start
  BY <1>7, <1>9
<1> QED
  BY <1>1, <1>2, <1>5, <1>8, <1>10, <1>11

\* The peer's walk meets exactly these ranges.
LEMMA WalkIs ==
  ASSUME Merged(received_ranges), received_ranges # <<>>, NEW frame, frame = BuildAckFrame
  PROVE  \A i \in 0 .. Slots(received_ranges) :
           AckWalk(frame)[i] = [start |-> received_ranges[i + 1].start,
                                end   |-> received_ranges[i + 1].end]
<1> DEFINE set == received_ranges
           Here(i) == [start |-> set[i + 1].start, end |-> set[i + 1].end]
           Next1(w, i) == LET end == EndBelow(w.start, frame.ack_ranges[i].gap)
                          IN  [start |-> end - frame.ack_ranges[i].ack_range, end |-> end]
           Top == [start |-> frame.largest_acked - frame.first_ack_range,
                   end   |-> frame.largest_acked]
           Loop(f) == f = [i \in 0 .. Len(frame.ack_ranges) |->
                             IF i = 0 THEN Top ELSE Next1(f[i - 1], i)]
<1>0. \A i \in 1 .. Len(set) : set[i].start \in Nat /\ set[i].end \in Nat
  BY SortedIs DEF Merged
<1>1. PICK n : n = Slots(set)
  OBVIOUS
<1>2. /\ n \in Nat /\ n < Len(set) /\ Len(set) \in Nat
      /\ frame.largest_acked = set[1].end
      /\ frame.first_ack_range = set[1].end - set[1].start
      /\ Len(frame.ack_ranges) = n
      /\ \A i \in 1 .. n : /\ frame.ack_ranges[i].gap = set[i].start - set[i + 1].end - 2
                           /\ frame.ack_ranges[i].ack_range = set[i + 1].end - set[i + 1].start
  BY <1>1, FrameIs, SortedIs DEF Merged
<1>3. Top = Here(0)
  <2>1. set[1].end \in Nat /\ set[1].start \in Nat
    BY <1>0, <1>2
  <2>2. set[1].end - (set[1].end - set[1].start) = set[1].start
    BY <2>1
  <2> QED
    BY <1>2, <2>2
<1>4. ASSUME NEW i \in 1 .. n PROVE Next1(Here(i - 1), i) = Here(i)
  <2>1. PICK k : k = i - 1
    OBVIOUS
  <2>2. /\ i \in 1 .. Len(set) /\ i + 1 \in 1 .. Len(set) /\ k + 1 = i
    BY <1>2, <2>1
  <2>3. Here(k).start = set[i].start
    BY <2>2
  <2>4. PICK a, b, c : a = set[i].start /\ b = set[i + 1].end /\ c = set[i + 1].start
    OBVIOUS
  <2>5. a \in Nat /\ b \in Nat /\ c \in Nat
    BY <1>0, <2>2, <2>4
  <2>6. EndBelow(a, a - b - 2) = b /\ b - (b - c) = c
    BY <2>5 DEF EndBelow
  <2>7. Next1(Here(k), i) = [start |-> EndBelow(a, a - b - 2) - (b - c),
                             end   |-> EndBelow(a, a - b - 2)]
    BY <1>2, <2>3, <2>4
  <2> QED
    BY <2>1, <2>4, <2>6, <2>7
<1> HIDE DEF Next1, Top
<1>5. \E f : Loop(f)
  <2> DEFINE f == [i \in 0 .. n |-> Here(i)]
  <2>1. ASSUME NEW i \in 0 .. n PROVE f[i] = IF i = 0 THEN Top ELSE Next1(f[i - 1], i)
    <3>1. CASE i = 0
      BY <1>3, <3>1
    <3>2. CASE i # 0
      <4>1. i \in 1 .. n /\ i - 1 \in 0 .. n
        BY <1>2, <3>2
      <4>2. f[i - 1] = Here(i - 1) /\ f[i] = Here(i)
        BY <4>1
      <4>3. Next1(Here(i - 1), i) = Here(i)
        BY <1>4, <4>1
      <4> QED
        BY <3>2, <4>2, <4>3
    <3> QED
      BY <3>1, <3>2
  <2>2. f = [i \in 0 .. n |-> f[i]]
    OBVIOUS
  <2> HIDE DEF f
  <2>3. Loop(f)
    BY <1>2, <2>1, <2>2
  <2> QED
    BY <2>3
<1>6. PICK g : g = (CHOOSE f : Loop(f))
  OBVIOUS
<1>7. Loop(g)
  <2> HIDE DEF Loop
  <2> QED
    BY <1>5, <1>6
<1>8. AckWalk(frame) = g
  BY <1>6 DEF AckWalk, Top, Next1
<1> HIDE DEF Here
<1> DEFINE S == {i \in 0 .. n : g[i] = Here(i)}
<1>9. 0 \in S
  BY <1>2, <1>3, <1>7
<1>10. \A i \in 1 .. n : i - 1 \in S => i \in S
  <2> SUFFICES ASSUME NEW i \in 1 .. n, i - 1 \in S PROVE i \in S
    OBVIOUS
  <2>1. g[i] = Next1(g[i - 1], i) /\ i \in 0 .. n
    BY <1>2, <1>7
  <2>2. g[i - 1] = Here(i - 1)
    OBVIOUS
  <2> QED
    BY <1>4, <2>1, <2>2
<1> HIDE DEF S
<1>11. 0 .. n \subseteq S
  BY <1>2, <1>9, <1>10, InductionUpTo
<1>12. \A i \in 0 .. n : g[i] = Here(i)
  BY <1>11 DEF S
<1> QED
  BY <1>1, <1>8, <1>12 DEF Here

\* What the peer reads out of the frame.
LEMMA FrameContains ==
  ASSUME Merged(received_ranges), received_ranges # <<>>, NEW n \in Nat
  PROVE  AckFrameContains(BuildAckFrame, n) <=>
           \E i \in 0 .. Slots(received_ranges) : n \in Numbers(received_ranges[i + 1])
<1>0. \A i \in 1 .. Len(received_ranges) :
        received_ranges[i].start \in Nat /\ received_ranges[i].end \in Nat
  BY SortedIs DEF Merged
<1>1. PICK frame : frame = BuildAckFrame
  OBVIOUS
<1>2. PICK s : s = Slots(received_ranges)
  OBVIOUS
<1>3. /\ s \in Nat /\ s < Len(received_ranges) /\ Len(received_ranges) \in Nat
      /\ Len(frame.ack_ranges) = s
  BY <1>1, <1>2, FrameIs, SortedIs DEF Merged
<1>4. PICK w : w = AckWalk(frame)
  OBVIOUS
<1>5. \A i \in 0 .. s : w[i] = [start |-> received_ranges[i + 1].start,
                               end   |-> received_ranges[i + 1].end]
  BY <1>1, <1>2, <1>4, WalkIs
<1>6. \A i \in 0 .. s : i + 1 \in 1 .. Len(received_ranges)
  BY <1>3
<1>7. ASSUME NEW i \in 0 .. s
      PROVE  Numbers(w[i]) = Numbers(received_ranges[i + 1]) /\ w[i].start \in Nat
  <2>1. i + 1 \in 1 .. Len(received_ranges) /\ received_ranges[i + 1].start \in Nat
    BY <1>0, <1>6
  <2>2. w[i].start = received_ranges[i + 1].start /\ w[i].end = received_ranges[i + 1].end
    <3>1. w[i] = [start |-> received_ranges[i + 1].start, end |-> received_ranges[i + 1].end]
      BY ONLY <1>5, i \in 0 .. s
    <3> QED
      BY ONLY <3>1
  <2> QED
    BY <2>1, <2>2 DEF Numbers
<1>8. \A i \in 0 .. s : \A j \in 0 .. i : j \in 0 .. s /\ w[j].start >= 0
  BY <1>3, <1>7
<1>9. AckFrameContains(frame, n) <=>
        \E i \in 0 .. s : n \in Numbers(w[i]) /\ \A j \in 0 .. i : w[j].start >= 0
  BY <1>3, <1>4 DEF AckFrameContains
<1> QED
  BY <1>1, <1>2, <1>7, <1>8, <1>9

\* The starts above a number.
LEMMA StartsAbove ==
  ASSUME NEW set, Merged(set), NEW i \in DOMAIN set, NEW x \in Numbers(set[i])
  PROVE  Cardinality({r \in RunStarts(NumbersIn(set)) : x < r}) = i - 1
<1>0. /\ Len(set) \in Nat /\ DOMAIN set = 1 .. Len(set)
      /\ \A k \in 1 .. Len(set) : set[k].start \in Nat /\ set[k].end \in Nat
      /\ \A k \in 1 .. Len(set) : set[k].start <= set[k].end
  BY SortedIs DEF Merged
<1>1. x \in Nat /\ set[i].start <= x /\ x <= set[i].end
  BY <1>0 DEF Numbers
<1>2. \A j \in DOMAIN set : x < set[j].start <=> j < i
  <2> SUFFICES ASSUME NEW j \in DOMAIN set PROVE x < set[j].start <=> j < i
    OBVIOUS
  <2>1. CASE j < i
    <3>1. set[i].end < set[j].start
      BY <2>1, SortedPairs DEF Merged
    <3> QED
      BY <1>0, <1>1, <2>1, <3>1
  <2>2. CASE i < j
    <3>1. set[j].end < set[i].start
      BY <2>2, SortedPairs DEF Merged
    <3> QED
      BY <1>0, <1>1, <2>2, <3>1
  <2>3. CASE i = j
    BY <1>0, <1>1, <2>3
  <2> QED
    BY <1>0, <2>1, <2>2, <2>3
<1>3. {r \in RunStarts(NumbersIn(set)) : x < r} = Starts(set, i - 1)
  <2>1. RunStarts(NumbersIn(set)) = Starts(set, Len(set))
    BY RunStartsAre
  <2>2. \A j \in 1 .. i - 1 : j \in DOMAIN set /\ j < i /\ j \in 1 .. Len(set)
    BY <1>0
  <2>3. \A j \in 1 .. Len(set) : j < i => j \in 1 .. i - 1
    BY <1>0
  <2> QED
    BY <1>0, <1>2, <2>1, <2>2, <2>3 DEF Starts
<1>4. i - 1 \in 0 .. Len(set)
  BY <1>0
<1> QED
  BY <1>3, <1>4, StartsCount

\* The peer reads out of the frame what AckedBy says of the set.
THEOREM AckAlwaysMeansRanges == PnSpec => []AckMeansRanges
<1>1. IndInv => AckMeansRanges
  <2> SUFFICES ASSUME IndInv PROVE Acked = AckedBy(NumbersIn(received_ranges), MaxAckRanges)
    BY DEF AckMeansRanges
  <2>0. /\ Merged(received_ranges) /\ NumbersIn(received_ranges) \subseteq PacketNumbers
        /\ MaxAckRanges \in Nat
    BY AckRangesAssumption DEF IndInv, ArrayOK
  <2>1. CASE received_ranges = <<>>
    BY <2>1, NothingMerged DEF Acked, AckedBy
  <2>2. CASE received_ranges # <<>>
    <3>0. PICK len : len = Len(received_ranges)
      OBVIOUS
    <3>1. PICK s : s = Slots(received_ranges)
      OBVIOUS
    <3>2. /\ len \in Nat /\ DOMAIN received_ranges = 1 .. len
          /\ s \in Nat /\ s < len /\ s = (IF len - 1 < MaxAckRanges THEN len - 1 ELSE MaxAckRanges)
      <4>1. Len(received_ranges) \in Nat /\ DOMAIN received_ranges = 1 .. Len(received_ranges)
        BY <2>0, SortedIs DEF Merged
      <4>2. s \in Nat /\ s < Len(received_ranges)
        BY <2>0, <2>2, <3>1, FrameIs
      <4>3. s = (IF len - 1 < MaxAckRanges THEN len - 1 ELSE MaxAckRanges)
        BY <3>0, <3>1 DEF Slots
      <4> QED
        BY ONLY <3>0, <4>1, <4>2, <4>3
    <3>3. \A i \in 1 .. len : i - 1 \in 0 .. s <=> i - 1 <= MaxAckRanges
      BY ONLY <2>0, <3>2
    <3>4. ASSUME NEW n \in Acked PROVE n \in AckedBy(NumbersIn(received_ranges), MaxAckRanges)
      <4>1. n \in PacketNumbers /\ n \in Nat /\ AckFrameContains(BuildAckFrame, n)
        BY <2>2 DEF Acked, PacketNumbers
      <4>2. PICK j \in 0 .. s : n \in Numbers(received_ranges[j + 1])
        BY <2>0, <2>2, <3>1, <4>1, FrameContains
      <4>3. PICK i : i = j + 1
        OBVIOUS
      <4>4. i \in DOMAIN received_ranges /\ i - 1 <= MaxAckRanges
        <5>1. i \in 1 .. len /\ i - 1 \in 0 .. s
          BY ONLY <3>2, <4>3, j \in 0 .. s
        <5> QED
          BY <3>2, <3>3, <5>1
      <4>5. Cardinality({r \in RunStarts(NumbersIn(received_ranges)) : n < r}) = i - 1
        BY <2>0, <4>2, <4>3, <4>4, StartsAbove
      <4>6. n \in NumbersIn(received_ranges)
        BY <4>2, <4>3, <4>4 DEF NumbersIn
      <4> QED
        BY <4>4, <4>5, <4>6 DEF AckedBy
    <3>5. ASSUME NEW n \in AckedBy(NumbersIn(received_ranges), MaxAckRanges) PROVE n \in Acked
      <4>1. /\ n \in NumbersIn(received_ranges)
            /\ Cardinality({r \in RunStarts(NumbersIn(received_ranges)) : n < r}) <= MaxAckRanges
        BY DEF AckedBy
      <4>2. PICK i \in DOMAIN received_ranges : n \in Numbers(received_ranges[i])
        BY <4>1 DEF NumbersIn
      <4>3. i - 1 <= MaxAckRanges
        BY <2>0, <4>1, <4>2, StartsAbove
      <4>4. PICK j : j = i - 1
        OBVIOUS
      <4>5. j \in 0 .. s /\ j + 1 = i
        <5>1. i \in 1 .. len
          BY <3>2
        <5>2. i - 1 \in 0 .. s
          BY <3>3, <4>3, <5>1
        <5> QED
          BY ONLY <4>4, <5>1, <5>2, <3>2
      <4>6. n \in PacketNumbers /\ n \in Nat
        BY <2>0, <4>1 DEF PacketNumbers
      <4>7. AckFrameContains(BuildAckFrame, n)
        BY <2>0, <2>2, <3>1, <4>2, <4>5, <4>6, FrameContains
      <4> QED
        BY <2>2, <4>6, <4>7 DEF Acked
    <3> QED
      BY <3>4, <3>5
  <2> QED
    BY <2>1, <2>2
<1> QED
  BY <1>1, AlwaysOK, PTL

\* The peer never takes for received what has not arrived.
THEOREM AcksNeverLie == PnSpec => []AckSound
<1>1. IndInv /\ AckMeansRanges => AckSound
  BY DEF IndInv, ArrayOK, AckMeansRanges, AckSound, AckedBy
<1> QED
  BY <1>1, AlwaysOK, AckAlwaysMeansRanges, PTL

\* A packet is never taken for another one as long as its number is within half
\* a window of the next expected number, whatever has arrived before it.
THEOREM NumbersAlwaysRecovered == PnSpec => []NumbersRecovered
<1>1. IndInv => NumbersRecovered
  <2> SUFFICES ASSUME IndInv, NEW n \in 0 .. MaxPn + HalfWindow,
                      Nearest(largest_received, n)
               PROVE  Decode(largest_received, Truncated(n)) = n
    BY DEF NumbersRecovered
  <2>1. n \in Nat /\ n < PnLimit
    BY AckRangesAssumption, WindowHalves, PnLimitAssumption
  <2>2. NumbersIn(received_ranges) \subseteq Nat
    BY CoveredIs DEF IndInv, ArrayOK
  <2>3. largest_received \in Nat \cup {NonePn}
    BY <2>2 DEF IndInv, ArrayOK
  <2> QED
    BY <2>1, <2>3, NearestIsDecoded
<1> QED
  BY <1>1, AlwaysOK, PTL
=============================================================================
