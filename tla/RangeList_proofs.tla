--------------------------- MODULE RangeList_proofs ---------------------------
(***************************************************************************)
(* What the loops over the range arrays of a stream do, for every length   *)
(* of the stream, every number of slots and every chunk: the arrays stay   *)
(* sorted with a gap between any two ranges, no offset is both             *)
(* acknowledged and lost, and every call does to the sets of offsets what  *)
(* StreamRanges says.                                                      *)
(***************************************************************************)
EXTENDS RangeList, Common_proofs, SequenceTheorems

ByteRange == [start : Nat, end : Nat]

\* A sorted array of ranges, none empty, with a gap between any two.
Merged(set) ==
  /\ set \in Seq(ByteRange)
  /\ \A i \in DOMAIN set : set[i].start < set[i].end
  /\ \A i, j \in DOMAIN set : i < j => set[i].end < set[j].start

LEMMA RangeIs ==
  ASSUME NEW a \in Nat, NEW b \in Nat
  PROVE  /\ RangeOf(a, b) \in ByteRange
         /\ RangeOf(a, b).start = a /\ RangeOf(a, b).end = b
BY DEF RangeOf, ByteRange

LEMMA MergedIs ==
  ASSUME NEW set, Merged(set)
  PROVE  /\ set \in Seq(ByteRange) /\ Len(set) \in Nat /\ DOMAIN set = 1 .. Len(set)
         /\ \A k \in 1 .. Len(set) : set[k] \in ByteRange
         /\ \A k \in 1 .. Len(set) : set[k].start \in Nat /\ set[k].end \in Nat
         /\ \A k \in 1 .. Len(set) : set[k].start < set[k].end
         /\ \A i, j \in 1 .. Len(set) : i < j => set[i].end < set[j].start
<1>1. set \in Seq(ByteRange)
  BY DEF Merged
<1>2. /\ Len(set) \in Nat /\ DOMAIN set = 1 .. Len(set)
      /\ \A k \in 1 .. Len(set) : set[k] \in ByteRange
  BY <1>1
<1>3. \A r \in ByteRange : r.start \in Nat /\ r.end \in Nat
  BY DEF ByteRange
<1> QED
  BY <1>1, <1>2, <1>3 DEF Merged

LEMMA NothingMerged == Merged(<<>>) /\ Covered(<<>>) = {} /\ Len(<<>>) = 0
<1>1. PICK none : none = <<>>
  OBVIOUS
<1>2. none \in Seq(ByteRange) /\ Len(none) = 0 /\ DOMAIN none = {}
  BY <1>1
<1>3. Merged(none) /\ Covered(none) = {}
  BY <1>2 DEF Merged, Covered
<1> QED
  BY <1>1, <1>2, <1>3

\* The offsets of a merged array, by their ranges.
LEMMA CoveredIs ==
  ASSUME NEW set, Merged(set)
  PROVE  /\ Covered(set) \subseteq Nat
         /\ \A x \in Covered(set) :
              \E i \in 1 .. Len(set) : x \in Nat /\ set[i].start <= x /\ x < set[i].end
         /\ \A i \in 1 .. Len(set), x \in Nat :
              set[i].start <= x /\ x < set[i].end => x \in Covered(set)
         /\ \A i \in 1 .. Len(set) : set[i].start \in Covered(set)
         /\ \A i \in 1 .. Len(set) : set[i].end \notin Covered(set)
<1>1. /\ DOMAIN set = 1 .. Len(set) /\ Len(set) \in Nat
      /\ \A k \in 1 .. Len(set) : set[k].start \in Nat /\ set[k].end \in Nat
      /\ \A k \in 1 .. Len(set) : set[k].start < set[k].end
      /\ \A i, j \in 1 .. Len(set) : i < j => set[i].end < set[j].start
  BY MergedIs
<1>2. \A x \in Covered(set) : \E i \in 1 .. Len(set) : x \in set[i].start .. (set[i].end - 1)
  BY <1>1 DEF Covered
<1>3. \A i \in 1 .. Len(set) : \A x \in set[i].start .. (set[i].end - 1) : x \in Covered(set)
  BY <1>1 DEF Covered
<1>4. \A i \in 1 .. Len(set) : \A x \in set[i].start .. (set[i].end - 1) :
        x \in Nat /\ set[i].start <= x /\ x < set[i].end
  BY <1>1
<1>5. \A i \in 1 .. Len(set), x \in Nat :
        set[i].start <= x /\ x < set[i].end => x \in set[i].start .. (set[i].end - 1)
  BY <1>1
<1>6. Covered(set) \subseteq Nat
  BY <1>2, <1>4
<1>7. \A x \in Covered(set) :
        \E i \in 1 .. Len(set) : x \in Nat /\ set[i].start <= x /\ x < set[i].end
  BY <1>2, <1>4
<1>8. \A i \in 1 .. Len(set), x \in Nat :
        set[i].start <= x /\ x < set[i].end => x \in Covered(set)
  BY <1>3, <1>5
<1>9. \A i \in 1 .. Len(set) : set[i].start \in Covered(set)
  BY <1>1, <1>8
<1>10. ASSUME NEW i \in 1 .. Len(set), set[i].end \in Covered(set) PROVE FALSE
  <2>1. PICK j \in 1 .. Len(set) : set[j].start <= set[i].end /\ set[i].end < set[j].end
    BY <1>7, <1>10
  <2>2. i < j \/ j < i \/ i = j
    BY <1>1
  <2>3. CASE i < j
    BY <1>1, <2>1, <2>3
  <2>4. CASE j < i
    <3>1. set[j].end < set[i].start /\ set[i].start < set[i].end
      BY <1>1, <2>4
    <3> QED
      BY <1>1, <2>1, <3>1
  <2>5. CASE i = j
    BY <1>1, <2>1, <2>5
  <2> QED
    BY <2>2, <2>3, <2>4, <2>5
<1> QED
  BY <1>6, <1>7, <1>8, <1>9, <1>10

------------------------------------------------------------------------------
(* The slots in use are the runs of the set.                               *)

\* The starts of all ranges.
Starts(set) == {set[i].start : i \in 1 .. Len(set)}

LEMMA StartsCount ==
  ASSUME NEW set, Merged(set)
  PROVE  Cardinality(Starts(set)) = Len(set)
<1>0. /\ Len(set) \in Nat
      /\ \A i \in 1 .. Len(set) : set[i].start \in Nat /\ set[i].end \in Nat
      /\ \A i \in 1 .. Len(set) : set[i].start < set[i].end
      /\ \A i, j \in 1 .. Len(set) : i < j => set[i].end < set[j].start
  BY MergedIs
<1>1. PICK k : k = Len(set)
  OBVIOUS
<1> DEFINE f == [i \in 1 .. k |-> set[i].start]
<1>2. \A i, j \in 1 .. k : i < j => set[i].start # set[j].start
  BY <1>0, <1>1
<1>3. \A i, j \in 1 .. k : set[i].start = set[j].start => i = j
  <2> SUFFICES ASSUME NEW i \in 1 .. k, NEW j \in 1 .. k, set[i].start = set[j].start
               PROVE  i = j
    OBVIOUS
  <2>1. ~(i < j) /\ ~(j < i)
    BY <1>2
  <2> QED
    BY <2>1
<1>4. f \in Bijection(1 .. k, Starts(set))
  <2>1. f \in [1 .. k -> Starts(set)]
    BY <1>1 DEF Starts
  <2>2. \A i, j \in 1 .. k : f[i] = f[j] => i = j
    BY <1>3
  <2>3. \A x \in Starts(set) : \E i \in 1 .. k : f[i] = x
    BY <1>1 DEF Starts
  <2> HIDE DEF f
  <2>4. f \in Injection(1 .. k, Starts(set))
    BY <2>1, <2>2 DEF Injection, IsInjective
  <2>5. f \in Surjection(1 .. k, Starts(set))
    BY <2>1, <2>3 DEF Surjection
  <2> QED
    BY <2>4, <2>5 DEF Bijection
<1>5. IsFiniteSet(1 .. k) /\ Cardinality(1 .. k) = k
  <2>1. k \in Nat
    BY <1>0, <1>1
  <2> HIDE <1>1
  <2> QED
    BY <2>1, FS_Interval
<1> QED
  BY <1>1, <1>4, <1>5, FS_Bijection DEF ExistsBijection

LEMMA RunStartsAre ==
  ASSUME NEW set, Merged(set)
  PROVE  RangeCount(Covered(set)) = Len(set)
<1>0. /\ Len(set) \in Nat
      /\ \A i \in 1 .. Len(set) : set[i].start \in Nat /\ set[i].end \in Nat
      /\ \A i \in 1 .. Len(set) : set[i].start < set[i].end
      /\ \A i, j \in 1 .. Len(set) : i < j => set[i].end < set[j].start
  BY MergedIs
<1>1. ASSUME NEW i \in 1 .. Len(set) PROVE set[i].start \in RunStarts(Covered(set))
  <2>1. ASSUME NEW y \in Covered(set), y + 1 = set[i].start PROVE FALSE
    <3>1. PICK j \in 1 .. Len(set) : y \in Nat /\ set[j].start <= y /\ y < set[j].end
      BY CoveredIs
    <3>2. CASE i < j
      BY <1>0, <2>1, <3>1, <3>2
    <3>3. CASE j < i
      <4>1. set[j].end < set[i].start
        BY <1>0, <3>3
      <4> QED
        BY <1>0, <2>1, <3>1, <4>1
    <3>4. CASE i = j
      BY <1>0, <2>1, <3>1, <3>4
    <3> QED
      BY <1>0, <3>2, <3>3, <3>4
  <2>2. set[i].start \in Covered(set)
    BY CoveredIs
  <2> QED
    BY <2>1, <2>2 DEF RunStarts
<1>2. ASSUME NEW x \in RunStarts(Covered(set)) PROVE \E i \in 1 .. Len(set) : x = set[i].start
  <2>1. x \in Covered(set) /\ \A y \in Covered(set) : y + 1 # x
    BY DEF RunStarts
  <2>2. PICK i \in 1 .. Len(set) : x \in Nat /\ set[i].start <= x /\ x < set[i].end
    BY <2>1, CoveredIs
  <2>3. CASE x # set[i].start
    <3>1. x - 1 \in Nat /\ set[i].start <= x - 1 /\ x - 1 < set[i].end /\ (x - 1) + 1 = x
      BY <1>0, <2>2, <2>3
    <3>2. x - 1 \in Covered(set)
      BY <3>1, CoveredIs
    <3> QED
      BY <2>1, <3>1, <3>2
  <2> QED
    BY <2>3
<1>3. RunStarts(Covered(set)) = Starts(set)
  BY <1>1, <1>2 DEF Starts
<1> QED
  BY <1>3, StartsCount DEF RangeCount

------------------------------------------------------------------------------
(* Insertion.                                                              *)

\* The ranges before the index end before a, the others do not.
LEMMA SkipToIs ==
  ASSUME NEW set, Merged(set), NEW a \in Nat, NEW index, index = SkipTo(set, a)
  PROVE  /\ index \in 1 .. Len(set) + 1
         /\ \A j \in 1 .. Len(set) : j < index <=> set[j].end < a
<1> DEFINE Here(i) == /\ i > Len(set) \/ set[i].end >= a
                      /\ \A j \in 1 .. i - 1 : set[j].end < a
           S == {i \in 1 .. Len(set) + 1 : i > Len(set) \/ set[i].end >= a}
<1>0. /\ Len(set) \in Nat
      /\ \A i \in 1 .. Len(set) : set[i].start \in Nat /\ set[i].end \in Nat
      /\ \A i \in 1 .. Len(set) : set[i].start < set[i].end
      /\ \A i, j \in 1 .. Len(set) : i < j => set[i].end < set[j].start
  BY MergedIs
<1>1. S \subseteq Nat /\ Len(set) + 1 \in S
  BY <1>0
<1>2. PICK i \in S : \A j \in S : i <= j
  <2> HIDE DEF S
  <2> QED
    BY <1>1, LeastElement
<1>3. i \in 1 .. Len(set) + 1 /\ Here(i)
  <2>1. i \in 1 .. Len(set) + 1 /\ (i > Len(set) \/ set[i].end >= a)
    OBVIOUS
  <2>2. ASSUME NEW j \in 1 .. i - 1 PROVE set[j].end < a
    <3>1. j \in 1 .. Len(set) /\ j < i
      BY <1>0, <2>1
    <3>2. j \notin S
      BY <1>0, <1>2, <3>1
    <3> QED
      BY <1>0, <3>1, <3>2
  <2> QED
    BY <2>1, <2>2
<1>4. index \in 1 .. Len(set) + 1 /\ Here(index)
  <2>1. index = CHOOSE k \in 1 .. Len(set) + 1 : Here(k)
    BY DEF SkipTo
  <2> HIDE DEF Here
  <2> QED
    BY <1>3, <2>1
<1>5. ASSUME NEW j \in 1 .. Len(set), j >= index PROVE ~ (set[j].end < a)
  <2>1. index \in 1 .. Len(set) /\ set[index].end >= a
    BY <1>0, <1>4, <1>5
  <2>2. CASE j = index
    BY <1>0, <2>1, <2>2
  <2>3. CASE index < j
    <3>1. set[index].end < set[j].start /\ set[j].start < set[j].end
      BY <1>0, <2>1, <2>3
    <3> QED
      BY <1>0, <2>1, <3>1
  <2> QED
    BY <1>5, <2>1, <2>2, <2>3
<1>6. ASSUME NEW j \in 1 .. Len(set), j < index PROVE set[j].end < a
  BY <1>0, <1>4, <1>6
<1> QED
  BY <1>0, <1>4, <1>5, <1>6

\* The range that has grown over n ranges.
Grown(set, index, a, b, n) ==
  IF n = 0 THEN RangeOf(a, b)
  ELSE RangeOf(Lower(a, set[index].start), Higher(b, set[index + n - 1].end))

LEMMA GrownStep ==
  ASSUME NEW set, Merged(set), NEW a \in Nat, NEW b \in Nat,
         NEW index \in 1 .. Len(set) + 1, NEW n \in 1 .. Len(set) + 1 - index
  PROVE  Grown(set, index, a, b, n) =
           RangeOf(Lower(Grown(set, index, a, b, n - 1).start, set[index + n - 1].start),
                   Higher(Grown(set, index, a, b, n - 1).end, set[index + n - 1].end))
<1>0. /\ Len(set) \in Nat
      /\ \A i \in 1 .. Len(set) : set[i].start \in Nat /\ set[i].end \in Nat
      /\ \A i \in 1 .. Len(set) : set[i].start < set[i].end
      /\ \A i, j \in 1 .. Len(set) : i < j => set[i].end < set[j].start
  BY MergedIs
<1>1. PICK k : k = index + n - 1
  OBVIOUS
<1>2. k \in 1 .. Len(set) /\ index \in 1 .. Len(set) /\ index <= k
  BY <1>0, <1>1
<1>3. CASE n = 1
  <2>1. k = index /\ n - 1 = 0
    BY <1>1, <1>3
  <2>2. Grown(set, index, a, b, n - 1) = RangeOf(a, b)
    BY <2>1 DEF Grown
  <2>3. Grown(set, index, a, b, n) = RangeOf(Lower(a, set[index].start), Higher(b, set[k].end))
    BY <1>1, <1>3 DEF Grown
  <2> QED
    BY <1>1, <2>1, <2>2, <2>3, RangeIs
<1>4. CASE n # 1
  <2>1. PICK h : h = k - 1
    OBVIOUS
  <2>2. h \in 1 .. Len(set) /\ h < k /\ index <= h /\ n - 1 # 0 /\ index + (n - 1) - 1 = h
    BY <1>0, <1>1, <1>2, <1>4, <2>1
  <2>3. PICK s, e, x, y, z : /\ s = set[index].start /\ e = set[h].end
                             /\ x = set[k].start /\ y = set[k].end /\ z = set[index].end
    OBVIOUS
  <2>4. s \in Nat /\ e \in Nat /\ x \in Nat /\ y \in Nat /\ z \in Nat /\ e < x /\ x < y
        /\ s < z /\ z < x
    <3>1. s \in Nat /\ e \in Nat /\ x \in Nat /\ y \in Nat /\ z \in Nat
      BY <1>0, <1>2, <2>2, <2>3
    <3>2. e < x /\ x < y /\ s < z
      BY <1>0, <1>2, <2>2, <2>3
    <3>3. index < k
      BY <1>2, <2>2
    <3>4. z < x
      BY <1>0, <1>2, <2>3, <3>3
    <3> QED
      BY <3>1, <3>2, <3>4
  <2>5. PICK lo, hi : lo = Lower(a, s) /\ hi = Higher(b, e)
    OBVIOUS
  <2>6. /\ lo \in Nat /\ hi \in Nat /\ Lower(lo, x) = lo /\ Higher(hi, y) = Higher(b, y)
    BY <2>4, <2>5 DEF Lower, Higher
  <2>7. Grown(set, index, a, b, n - 1) = RangeOf(lo, hi)
    BY <2>2, <2>3, <2>5 DEF Grown
  <2>8. Grown(set, index, a, b, n) = RangeOf(lo, Higher(b, y))
    BY <1>1, <2>3, <2>5 DEF Grown
  <2>9. RangeOf(lo, hi).start = lo /\ RangeOf(lo, hi).end = hi
    BY <2>6, RangeIs
  <2> QED
    BY <1>1, <2>3, <2>6, <2>7, <2>8, <2>9
<1> QED
  BY <1>3, <1>4

LEMMA AbsorbedIs ==
  ASSUME NEW set, Merged(set), NEW a \in Nat, NEW b \in Nat,
         NEW index \in 1 .. Len(set) + 1, NEW grow, grow = Absorbed(set, index, a, b)
  PROVE  /\ DOMAIN grow = 0 .. Len(set) + 1 - index
         /\ \A n \in 0 .. Len(set) + 1 - index : grow[n] = Grown(set, index, a, b, n)
<1> DEFINE top == Len(set) + 1 - index
           Here(n) == Grown(set, index, a, b, n)
           Next1(r, n) == RangeOf(Lower(r.start, set[index + n - 1].start),
                                  Higher(r.end, set[index + n - 1].end))
           Loop(f) == f = [n \in 0 .. top |-> IF n = 0 THEN RangeOf(a, b) ELSE Next1(f[n - 1], n)]
<1>0. top \in Nat
  BY MergedIs
<1>1. Here(0) = RangeOf(a, b)
  BY DEF Grown
<1>2. ASSUME NEW n \in 1 .. top PROVE Here(n) = Next1(Here(n - 1), n)
  BY GrownStep
<1> HIDE DEF Next1, Here, top
<1>3. \E f : Loop(f)
  <2> DEFINE f == [n \in 0 .. top |-> Here(n)]
  <2>1. ASSUME NEW n \in 0 .. top
        PROVE  f[n] = IF n = 0 THEN RangeOf(a, b) ELSE Next1(f[n - 1], n)
    <3>1. CASE n = 0
      BY <1>1, <3>1
    <3>2. CASE n # 0
      <4>1. n \in 1 .. top /\ n - 1 \in 0 .. top
        BY <1>0, <3>2
      <4>2. f[n - 1] = Here(n - 1) /\ f[n] = Here(n)
        BY <4>1
      <4> QED
        BY <1>2, <3>2, <4>1, <4>2
    <3> QED
      BY <3>1, <3>2
  <2>2. f = [n \in 0 .. top |-> f[n]]
    OBVIOUS
  <2> HIDE DEF f
  <2>3. Loop(f)
    BY <2>1, <2>2
  <2> QED
    BY <2>3
<1>4. PICK g : g = (CHOOSE f : Loop(f))
  OBVIOUS
<1>5. Loop(g)
  <2> HIDE DEF Loop
  <2> QED
    BY <1>3, <1>4
<1>6. grow = g
  BY <1>4 DEF Absorbed, Next1, top
<1> DEFINE S == {n \in 0 .. top : g[n] = Here(n)}
<1>7. 0 \in S
  BY <1>0, <1>1, <1>5
<1>8. \A n \in 1 .. top : n - 1 \in S => n \in S
  <2> SUFFICES ASSUME NEW n \in 1 .. top, n - 1 \in S PROVE n \in S
    OBVIOUS
  <2>1. g[n] = Next1(g[n - 1], n) /\ n \in 0 .. top
    BY <1>0, <1>5
  <2>2. g[n - 1] = Here(n - 1)
    OBVIOUS
  <2> QED
    BY <1>2, <2>1, <2>2
<1> HIDE DEF S
<1>9. 0 .. top \subseteq S
  BY <1>0, <1>7, <1>8, InductionUpTo
<1>10. \A n \in 0 .. top : g[n] = Here(n)
  BY <1>9 DEF S
<1>11. DOMAIN g = 0 .. top
  BY <1>5
<1> QED
  BY <1>6, <1>10, <1>11 DEF Here, top

\* The ranges from the index on that are absorbed start at b or before, the
\* others behind it.
LEMMA RemoveCountIs ==
  ASSUME NEW set, Merged(set), NEW a \in Nat, NEW b \in Nat, a < b,
         NEW index, index = SkipTo(set, a), NEW n, n = RemoveCount(set, index, a, b)
  PROVE  /\ n \in 0 .. Len(set) + 1 - index
         /\ \A j \in 1 .. Len(set) : j < index + n <=> set[j].start <= b
<1>0. /\ Len(set) \in Nat
      /\ \A i \in 1 .. Len(set) : set[i].start \in Nat /\ set[i].end \in Nat
      /\ \A i \in 1 .. Len(set) : set[i].start < set[i].end
      /\ \A i, j \in 1 .. Len(set) : i < j => set[i].end < set[j].start
  BY MergedIs
<1>1. /\ index \in 1 .. Len(set) + 1
      /\ \A j \in 1 .. Len(set) : j < index <=> set[j].end < a
  BY SkipToIs
<1>2. PICK grow : grow = Absorbed(set, index, a, b)
  OBVIOUS
<1>3. PICK top : top = Len(set) + 1 - index
  OBVIOUS
<1>4. top \in Nat /\ index + top = Len(set) + 1
  BY <1>0, <1>1, <1>3
<1>5. DOMAIN grow = 0 .. top /\ \A m \in 0 .. top : grow[m] = Grown(set, index, a, b, m)
  BY ONLY Merged(set), a \in Nat, b \in Nat, <1>1, <1>2, <1>3, AbsorbedIs
\* How far the range reaches after m steps.
<1>6. /\ grow[0].end = b
      /\ \A m \in 1 .. top : grow[m].end = Higher(b, set[index + m - 1].end)
  <2>1. grow[0].end = b
    BY <1>4, <1>5, RangeIs DEF Grown
  <2>2. ASSUME NEW m \in 1 .. top PROVE grow[m].end = Higher(b, set[index + m - 1].end)
    <3>1. PICK k : k = index + m - 1
      OBVIOUS
    <3>2. k \in 1 .. Len(set) /\ index \in 1 .. Len(set) /\ m \in 0 .. top /\ m # 0
      BY <1>0, <1>1, <1>4, <3>1
    <3>3. Lower(a, set[index].start) \in Nat /\ Higher(b, set[k].end) \in Nat
      BY <1>0, <3>2 DEF Lower, Higher
    <3>4. grow[m] = RangeOf(Lower(a, set[index].start), Higher(b, set[k].end))
      BY <1>5, <3>1, <3>2 DEF Grown
    <3> QED
      BY <3>1, <3>3, <3>4, RangeIs
  <2> QED
    BY <2>1, <2>2
<1> DEFINE Beyond(m) == index + m > Len(set) \/ set[index + m].start > grow[m].end
           Here(m) == /\ Beyond(m)
                      /\ \A k \in 0 .. m - 1 : set[index + k].start <= grow[k].end
           S == {m \in 0 .. top : Beyond(m)}
<1>7. S \subseteq Nat /\ top \in S
  BY <1>0, <1>4
<1>8. PICK m \in S : \A k \in S : m <= k
  <2> HIDE DEF S
  <2> QED
    BY <1>7, LeastElement
<1>9. m \in 0 .. top /\ Here(m)
  <2>1. m \in 0 .. top /\ Beyond(m)
    OBVIOUS
  <2>2. ASSUME NEW k \in 0 .. m - 1 PROVE set[index + k].start <= grow[k].end
    <3>1. k \in 0 .. top /\ k < m /\ index + k \in 1 .. Len(set)
      BY <1>1, <1>4, <2>1
    <3>2. ~ Beyond(k)
      BY <1>8, <3>1
    <3>3. set[index + k].start \in Nat /\ grow[k].end \in Nat
      <4>1. CASE k = 0
        BY <1>0, <1>6, <3>1, <4>1
      <4>2. CASE k # 0
        <5>1. k \in 1 .. top /\ index + k - 1 \in 1 .. Len(set)
          BY <1>1, <3>1, <4>2
        <5> QED
          BY <1>0, <1>6, <3>1, <5>1 DEF Higher
      <4> QED
        BY <4>1, <4>2
    <3> QED
      BY <3>2, <3>3
  <2> QED
    BY <2>1, <2>2
<1>10. n \in 0 .. top /\ Here(n)
  <2>1. n = CHOOSE k \in 0 .. top : Here(k)
    BY <1>2, <1>5 DEF RemoveCount
  <2> HIDE DEF Here
  <2> QED
    BY <1>9, <2>1
<1> HIDE DEF S
<1>11. ASSUME NEW j \in 1 .. Len(set), j < index + n PROVE set[j].start <= b
  <2>1. CASE j < index
    BY <1>0, <1>1, <2>1
  <2>2. CASE j >= index
    <3>1. PICK k : k = j - index
      OBVIOUS
    <3>2. k \in 0 .. n - 1 /\ index + k = j /\ k \in 0 .. top
      <4>1. index \in Nat /\ j \in Nat /\ n \in 0 .. top
        BY <1>1, <1>10
      <4> QED
        BY ONLY <1>4, <1>11, <2>2, <3>1, <4>1
    <3>3. set[j].start <= grow[k].end
      BY <1>10, <3>2
    <3>4. CASE k = 0
      BY <1>6, <3>3, <3>4
    <3>5. CASE k # 0
      <4>1. k \in 1 .. top /\ index + k - 1 \in 1 .. Len(set) /\ index + k - 1 < j
        BY <1>1, <3>2, <3>5
      <4>2. PICK e : e = set[index + k - 1].end
        OBVIOUS
      <4>3. e \in Nat /\ set[j].start \in Nat /\ e < set[j].start
        BY <1>0, <4>1, <4>2
      <4>4. set[j].start <= Higher(b, e)
        BY <1>6, <3>3, <4>1, <4>2
      <4> QED
        BY <4>3, <4>4 DEF Higher
    <3> QED
      BY <3>4, <3>5
  <2> QED
    BY <1>1, <2>1, <2>2
<1>12. ASSUME NEW j \in 1 .. Len(set), j >= index + n PROVE ~ (set[j].start <= b)
  <2>1. PICK h : h = index + n
    OBVIOUS
  <2>2. h \in 1 .. Len(set) /\ h <= j
    BY <1>0, <1>1, <1>10, <1>12, <2>1
  <2>3. set[h].start > grow[n].end
    BY <1>10, <2>1, <2>2
  <2>4. set[h].start > b
    <3>1. CASE n = 0
      BY <1>0, <1>6, <2>2, <2>3, <3>1
    <3>2. CASE n # 0
      <4>1. n \in 1 .. top /\ index + n - 1 \in 1 .. Len(set)
        BY <1>1, <1>10, <2>1, <2>2, <3>2
      <4>2. PICK e : e = set[index + n - 1].end
        OBVIOUS
      <4>3. e \in Nat /\ set[h].start > Higher(b, e)
        BY <1>0, <1>6, <2>3, <4>1, <4>2
      <4> QED
        BY <1>0, <2>2, <4>3 DEF Higher
    <3> QED
      BY <3>1, <3>2
  <2>5. CASE h = j
    BY <1>0, <2>2, <2>4, <2>5
  <2>6. CASE h < j
    <3>1. set[h].end < set[j].start /\ set[h].start < set[h].end
      BY <1>0, <2>2, <2>6
    <3>2. /\ set[h].start \in Nat /\ set[h].end \in Nat /\ set[j].start \in Nat
      BY <1>0, <2>2
    <3> QED
      BY <2>4, <3>1, <3>2
  <2> QED
    BY <2>2, <2>5, <2>6
<1>13. \A j \in 1 .. Len(set) : j < index + n <=> set[j].start <= b
  <2> SUFFICES ASSUME NEW j \in 1 .. Len(set) PROVE j < index + n <=> set[j].start <= b
    OBVIOUS
  <2>1. j < index + n \/ j >= index + n
    BY <1>1, <1>4, <1>10
  <2> QED
    BY <2>1, <1>11, <1>12
<1> QED
  BY <1>3, <1>10, <1>13

\* e is set with one range in the place of lo + 1 to hi.
Spliced(e, set, lo, hi, r) ==
  /\ e \in Seq(ByteRange) /\ Len(e) = lo + 1 + (Len(set) - hi)
  /\ \A i \in 1 .. lo : e[i] = set[i]
  /\ e[lo + 1] = r
  /\ \A i \in lo + 2 .. Len(e) : e[i] = set[i - lo - 1 + hi]

LEMMA SpliceIs ==
  ASSUME NEW set \in Seq(ByteRange), NEW lo \in 0 .. Len(set), NEW hi \in 0 .. Len(set), lo <= hi,
         NEW r \in ByteRange,
         NEW e, e = SubSeq(set, 1, lo) \o <<r>> \o SubSeq(set, hi + 1, Len(set))
  PROVE  Spliced(e, set, lo, hi, r)
<1>1. PICK m : m = Len(set)
  OBVIOUS
<1>2. m \in Nat /\ lo \in 0 .. m /\ hi \in 0 .. m /\ \A i \in 1 .. m : set[i] \in ByteRange
  BY <1>1
<1>3. PICK low : low = SubSeq(set, 1, lo)
  OBVIOUS
<1>4. PICK high : high = SubSeq(set, hi + 1, m)
  OBVIOUS
<1>5. /\ low \in Seq(ByteRange) /\ Len(low) = lo
      /\ \A i \in 1 .. lo : low[i] = set[i]
  <2>1. \A i \in 1 .. lo : set[i] \in ByteRange
    BY <1>2
  <2>2. /\ low \in Seq(ByteRange) /\ Len(low) = (IF 1 <= lo THEN lo - 1 + 1 ELSE 0)
        /\ \A i \in 1 .. lo - 1 + 1 : low[i] = set[1 + i - 1]
    BY <1>2, <1>3, <2>1, SubSeqProperties
  <2>3. \A i \in 1 .. lo : low[i] = set[i]
    BY <1>2, <2>2
  <2> QED
    BY <1>2, <2>2, <2>3
<1>6. /\ high \in Seq(ByteRange) /\ Len(high) = m - hi
      /\ \A i \in 1 .. m - hi : high[i] = set[hi + i]
  <2>1. \A i \in hi + 1 .. m : set[i] \in ByteRange
    BY <1>2
  <2>2. /\ high \in Seq(ByteRange)
        /\ Len(high) = (IF hi + 1 <= m THEN m - (hi + 1) + 1 ELSE 0)
        /\ \A i \in 1 .. m - (hi + 1) + 1 : high[i] = set[(hi + 1) + i - 1]
    BY <1>2, <1>4, <2>1, SubSeqProperties
  <2>3. \A i \in 1 .. m - hi : high[i] = set[hi + i]
    <3> SUFFICES ASSUME NEW i \in 1 .. m - hi PROVE high[i] = set[hi + i]
      OBVIOUS
    <3>1. i \in 1 .. m - (hi + 1) + 1 /\ (hi + 1) + i - 1 = hi + i
      BY <1>2
    <3> QED
      BY <2>2, <3>1
  <2> QED
    BY <1>2, <2>2, <2>3
<1>7. PICK one : one = <<r>>
  OBVIOUS
<1>8. one \in Seq(ByteRange) /\ Len(one) = 1 /\ one[1] = r
  BY <1>7
<1>9. PICK front : front = low \o one
  OBVIOUS
<1>10. /\ front \in Seq(ByteRange) /\ Len(front) = lo + 1
       /\ \A i \in 1 .. lo + 1 : front[i] = IF i <= lo THEN low[i] ELSE one[i - lo]
  <2>1. /\ front \in Seq(ByteRange) /\ Len(front) = Len(low) + Len(one)
        /\ \A i \in 1 .. Len(low) + Len(one) :
             front[i] = IF i <= Len(low) THEN low[i] ELSE one[i - Len(low)]
    BY <1>5, <1>8, <1>9, ConcatProperties
  <2> QED
    BY <1>5, <1>8, <2>1
<1>11. /\ e \in Seq(ByteRange) /\ Len(e) = lo + 1 + (m - hi)
       /\ \A i \in 1 .. lo + 1 + (m - hi) :
            e[i] = IF i <= lo + 1 THEN front[i] ELSE high[i - (lo + 1)]
  <2>1. e = front \o high
    BY <1>1, <1>3, <1>4, <1>7, <1>9
  <2>2. /\ e \in Seq(ByteRange) /\ Len(e) = Len(front) + Len(high)
        /\ \A i \in 1 .. Len(front) + Len(high) :
             e[i] = IF i <= Len(front) THEN front[i] ELSE high[i - Len(front)]
    <3>1. front \in Seq(ByteRange) /\ high \in Seq(ByteRange)
      BY <1>6, <1>10
    <3> QED
      BY ONLY <2>1, <3>1, ConcatProperties
  <2> QED
    BY <1>6, <1>10, <2>2
<1>12. ASSUME NEW i \in 1 .. lo PROVE e[i] = set[i]
  <2>1. i \in 1 .. lo + 1 /\ i \in 1 .. lo + 1 + (m - hi) /\ i <= lo /\ i <= lo + 1
    BY <1>2
  <2>2. e[i] = front[i] /\ front[i] = low[i]
    BY <1>10, <1>11, <2>1
  <2> QED
    BY <1>5, <2>2
<1>13. e[lo + 1] = r
  <2>0. PICK p : p = lo + 1
    OBVIOUS
  <2>1. p \in 1 .. lo + 1 + (m - hi) /\ p \in 1 .. lo + 1 /\ p - lo = 1 /\ ~ (p <= lo)
        /\ p <= lo + 1
    BY <1>2, <2>0
  <2> QED
    <3>1. e[p] = front[p]
      BY <1>11, <2>1
    <3>2. front[p] = one[p - lo]
      BY <1>10, <2>1
    <3> QED
      BY <1>8, <2>0, <2>1, <3>1, <3>2
<1>14. ASSUME NEW i \in lo + 2 .. lo + 1 + (m - hi) PROVE e[i] = set[i - lo - 1 + hi]
  <2>1. PICK k : k = i - (lo + 1)
    OBVIOUS
  <2>2. k \in 1 .. m - hi /\ hi + k = i - lo - 1 + hi /\ ~ (i <= lo + 1)
        /\ i \in 1 .. lo + 1 + (m - hi)
    BY <1>2, <2>1
  <2> QED
    BY <1>6, <1>11, <2>1, <2>2
<1> QED
  BY <1>1, <1>11, <1>12, <1>13, <1>14 DEF Spliced

\* What such an array covers: the new range, and the old ranges around it.
CoversSpliced(e, set, lo, hi, r) ==
  \A x \in Nat : x \in Covered(e) <=>
    \/ r.start <= x /\ x < r.end
    \/ \E j \in 1 .. Len(set) : (j <= lo \/ j > hi) /\ set[j].start <= x /\ x < set[j].end

\* With a range that fits between its new neighbours the array stays merged.
LEMMA SpliceMerges ==
  ASSUME NEW set, Merged(set), NEW lo \in 0 .. Len(set), NEW hi \in 0 .. Len(set), lo <= hi,
         NEW r \in ByteRange, r.start < r.end,
         \A j \in 1 .. lo : set[j].end < r.start,
         \A j \in hi + 1 .. Len(set) : r.end < set[j].start,
         NEW e, e = SubSeq(set, 1, lo) \o <<r>> \o SubSeq(set, hi + 1, Len(set))
  PROVE  /\ Merged(e) /\ Len(e) = lo + 1 + (Len(set) - hi)
         /\ CoversSpliced(e, set, lo, hi, r)
<1>0. /\ set \in Seq(ByteRange) /\ Len(set) \in Nat
      /\ \A i \in 1 .. Len(set) : set[i].start \in Nat /\ set[i].end \in Nat
      /\ \A i \in 1 .. Len(set) : set[i].start < set[i].end
      /\ \A i, j \in 1 .. Len(set) : i < j => set[i].end < set[j].start
  BY MergedIs
<1>1. PICK m : m = Len(set)
  OBVIOUS
<1>2. PICK n : n = Len(e)
  OBVIOUS
<1>3. m \in Nat /\ lo \in 0 .. m /\ hi \in 0 .. m /\ n = lo + 1 + (m - hi) /\ n \in Nat
  <2>1. Len(e) = lo + 1 + (Len(set) - hi)
    BY <1>0, SpliceIs DEF Spliced
  <2>2. m \in Nat /\ lo \in 0 .. m /\ hi \in 0 .. m
    BY <1>0, <1>1
  <2>3. n = lo + 1 + (m - hi)
    BY <1>1, <1>2, <2>1
  <2> QED
    BY ONLY <2>2, <2>3, lo <= hi
<1>4. /\ e \in Seq(ByteRange) /\ DOMAIN e = 1 .. n
      /\ \A i \in 1 .. lo : e[i] = set[i]
      /\ e[lo + 1] = r
      /\ \A i \in lo + 2 .. n : e[i] = set[i - lo - 1 + hi]
  <2>1. Spliced(e, set, lo, hi, r)
    BY <1>0, SpliceIs
  <2>2. e \in Seq(ByteRange) /\ DOMAIN e = 1 .. n
    BY <1>2, <2>1 DEF Spliced
  <2> QED
    BY <1>2, <2>1, <2>2 DEF Spliced
<1>5. r.start \in Nat /\ r.end \in Nat
  BY DEF ByteRange
\* Every slot of e holds a slot of set, or the new range.
<1> DEFINE Old(i) == IF i <= lo THEN i ELSE i - lo - 1 + hi
<1>6. ASSUME NEW i \in 1 .. n, i # lo + 1
      PROVE  /\ Old(i) \in 1 .. m /\ e[i] = set[Old(i)]
             /\ i < lo + 1 => Old(i) <= lo /\ Old(i) \in 1 .. lo
             /\ i > lo + 1 => Old(i) > hi /\ Old(i) \in hi + 1 .. m
  <2>1. CASE i <= lo
    <3>1. i \in 1 .. lo /\ i \in 1 .. m /\ ~ (i > lo + 1) /\ i < lo + 1
      BY ONLY <1>3, <2>1, i \in 1 .. n
    <3>2. Old(i) = i /\ e[i] = set[i]
      BY <1>4, <2>1, <3>1
    <3> HIDE DEF Old
    <3> QED
      BY <2>1, <3>1, <3>2
  <2>2. CASE i > lo + 1
    <3>1. /\ i \in lo + 2 .. n /\ i - lo - 1 + hi \in hi + 1 .. m /\ ~(i <= lo)
          /\ i - lo - 1 + hi \in 1 .. m /\ i - lo - 1 + hi > hi
      BY ONLY <1>3, <2>2, i \in 1 .. n
    <3>2. Old(i) = i - lo - 1 + hi /\ e[i] = set[i - lo - 1 + hi]
      BY <1>4, <3>1
    <3>3. ~ (i < lo + 1)
      BY ONLY <1>3, <2>2, i \in 1 .. n
    <3> HIDE DEF Old
    <3> QED
      BY <3>1, <3>2, <3>3
  <2>3. i <= lo \/ i > lo + 1
    BY ONLY <1>3, <1>6, i \in 1 .. n
  <2> HIDE DEF Old
  <2> QED
    BY <2>1, <2>2, <2>3
<1>7. \A i \in 1 .. n : e[i].start < e[i].end
  <2> SUFFICES ASSUME NEW i \in 1 .. n PROVE e[i].start < e[i].end
    OBVIOUS
  <2>1. CASE i = lo + 1
    BY <1>4, <2>1
  <2>2. CASE i # lo + 1
    BY <1>0, <1>1, <1>6, <2>2
  <2> QED
    BY <2>1, <2>2
<1>8. ASSUME NEW i \in 1 .. n, NEW j \in 1 .. n, i < j PROVE e[i].end < e[j].start
  <2>1. CASE i = lo + 1
    <3>1. j > lo + 1 /\ j # lo + 1
      BY <1>3, <1>8, <2>1
    <3>2. Old(j) \in hi + 1 .. m /\ e[j] = set[Old(j)]
      BY <1>6, <3>1
    <3> QED
      BY <1>1, <1>4, <2>1, <3>2
  <2>2. CASE j = lo + 1
    <3>1. i < lo + 1 /\ i # lo + 1
      BY <1>3, <1>8, <2>2
    <3>2. Old(i) \in 1 .. lo /\ e[i] = set[Old(i)]
      BY <1>6, <3>1
    <3> QED
      BY <1>1, <1>4, <2>2, <3>2
  <2>3. CASE i # lo + 1 /\ j # lo + 1
    <3>1. /\ Old(i) \in 1 .. m /\ e[i] = set[Old(i)]
          /\ Old(j) \in 1 .. m /\ e[j] = set[Old(j)]
      BY <1>6, <2>3
    <3>2. Old(i) < Old(j)
      BY ONLY <1>3, <1>8, <2>3, lo <= hi, i \in 1 .. n, j \in 1 .. n
    <3> HIDE DEF Old
    <3> QED
      BY <1>0, <1>1, <3>1, <3>2
  <2> QED
    BY <2>1, <2>2, <2>3
<1>9. Merged(e)
  BY <1>4, <1>7, <1>8 DEF Merged
<1>10. ASSUME NEW x \in Nat, x \in Covered(e)
       PROVE  \/ r.start <= x /\ x < r.end
              \/ \E j \in 1 .. m : (j <= lo \/ j > hi) /\ set[j].start <= x /\ x < set[j].end
  <2>1. PICK i \in 1 .. n : e[i].start <= x /\ x < e[i].end
    BY <1>2, <1>9, <1>10, CoveredIs
  <2>2. CASE i = lo + 1
    BY <1>4, <2>1, <2>2
  <2>3. CASE i # lo + 1
    <3>1. i < lo + 1 \/ i > lo + 1
      BY <1>3, <2>3
    <3>2. /\ Old(i) \in 1 .. m /\ e[i] = set[Old(i)]
          /\ Old(i) <= lo \/ Old(i) > hi
      BY <1>6, <2>3, <3>1
    <3> HIDE DEF Old
    <3> QED
      BY <2>1, <3>2
  <2> QED
    BY <2>2, <2>3
<1>11. ASSUME NEW x \in Nat, r.start <= x, x < r.end PROVE x \in Covered(e)
  <2>1. lo + 1 \in 1 .. n
    BY ONLY <1>3
  <2> QED
    BY <1>2, <1>4, <1>9, <1>11, <2>1, CoveredIs
<1>12. ASSUME NEW x \in Nat, NEW j \in 1 .. m, j <= lo \/ j > hi,
              set[j].start <= x, x < set[j].end
       PROVE  x \in Covered(e)
  <2>1. CASE j <= lo
    <3>1. j \in 1 .. n /\ j \in 1 .. lo
      BY ONLY <1>3, <2>1, j \in 1 .. m
    <3>2. e[j] = set[j]
      BY <1>4, <3>1
    <3> QED
      BY <1>2, <1>9, <1>12, <3>1, <3>2, CoveredIs
  <2>2. CASE j > hi
    <3>1. PICK i : i = j - hi + lo + 1
      OBVIOUS
    <3>2. i \in lo + 2 .. n /\ i \in 1 .. n /\ i - lo - 1 + hi = j
      BY <1>3, <2>2, <3>1
    <3>3. e[i] = set[j]
      BY <1>4, <3>2
    <3> QED
      BY <1>2, <1>9, <1>12, <3>2, <3>3, CoveredIs
  <2> QED
    BY <1>12, <2>1, <2>2
<1> HIDE DEF Old
<1>13. ASSUME NEW x \in Nat
       PROVE  x \in Covered(e) <=>
                \/ r.start <= x /\ x < r.end
                \/ \E j \in 1 .. m : (j <= lo \/ j > hi) /\ set[j].start <= x /\ x < set[j].end
  BY <1>10, <1>11, <1>12
<1> QED
  BY <1>1, <1>2, <1>3, <1>9, <1>13 DEF CoversSpliced

\* The array after an insertion that has found its place, before the slots are
\* counted.
InsertedList(set, a, b) ==
  LET index == SkipTo(set, a)
      n     == RemoveCount(set, index, a, b)
  IN  SubSeq(set, 1, index - 1) \o <<Absorbed(set, index, a, b)[n]>>
        \o SubSeq(set, index + n, Len(set))

\* [a, b) has taken the place of n ranges.
Inserted(e, set, a, b, n) ==
  /\ n \in Nat /\ Merged(e) /\ Len(e) = Len(set) + 1 - n
  /\ Covered(e) = Covered(set) \cup Span(a, b)

LEMMA InsertedIs ==
  ASSUME NEW set, Merged(set), NEW a \in Nat, NEW b \in Nat, a < b
  PROVE  Inserted(InsertedList(set, a, b), set, a, b,
                  RemoveCount(set, SkipTo(set, a), a, b))
<1> PICK n : n = RemoveCount(set, SkipTo(set, a), a, b)
  OBVIOUS
<1> PICK e : e = InsertedList(set, a, b)
  OBVIOUS
<1>0. /\ Len(set) \in Nat
      /\ \A i \in 1 .. Len(set) : set[i].start \in Nat /\ set[i].end \in Nat
      /\ \A i \in 1 .. Len(set) : set[i].start < set[i].end
      /\ \A i, j \in 1 .. Len(set) : i < j => set[i].end < set[j].start
  BY MergedIs
<1>1. PICK m, index : m = Len(set) /\ index = SkipTo(set, a)
  OBVIOUS
<1>2. PICK lo, hi : lo = index - 1 /\ hi = index - 1 + n
  OBVIOUS
<1>3. /\ index \in 1 .. Len(set) + 1
      /\ \A j \in 1 .. Len(set) : j < index <=> set[j].end < a
  BY <1>1, SkipToIs
<1>4. /\ n \in 0 .. Len(set) + 1 - index
      /\ \A j \in 1 .. Len(set) : j < index + n <=> set[j].start <= b
  BY <1>1, RemoveCountIs
<1>5. /\ m \in Nat /\ lo \in 0 .. m /\ hi \in 0 .. m /\ lo <= hi /\ n = hi - lo
      /\ index = lo + 1 /\ index + n = hi + 1
  <2>1. m \in Nat /\ index \in 1 .. m + 1 /\ n \in 0 .. m + 1 - index
    BY <1>0, <1>1, <1>3, <1>4
  <2> QED
    BY ONLY <2>1, <1>2
<1>6. /\ \A j \in 1 .. m : j <= lo <=> set[j].end < a
      /\ \A j \in 1 .. m : j <= hi <=> set[j].start <= b
  BY <1>1, <1>3, <1>4, <1>5
<1>7. PICK r : r = Absorbed(set, index, a, b)[n]
  OBVIOUS
<1>8. r = Grown(set, index, a, b, n)
  BY ONLY Merged(set), a \in Nat, b \in Nat, <1>3, <1>4, <1>7, AbsorbedIs
<1>9. PICK s, t : s = set[lo + 1].start /\ t = set[hi].end
  OBVIOUS
<1>10. /\ r \in ByteRange /\ r.start \in Nat /\ r.end \in Nat
       /\ n = 0 => r.start = a /\ r.end = b
       /\ n # 0 => /\ lo + 1 \in 1 .. m /\ hi \in 1 .. m /\ s \in Nat /\ t \in Nat
                   /\ r.start = Lower(a, s) /\ r.end = Higher(b, t)
  <2>1. CASE n = 0
    BY <1>8, <2>1, RangeIs DEF Grown
  <2>2. CASE n # 0
    <3>1. lo + 1 \in 1 .. m /\ hi \in 1 .. m /\ index + n - 1 = hi
      BY <1>5, <2>2
    <3>2. s \in Nat /\ t \in Nat
      BY <1>0, <1>1, <1>9, <3>1
    <3>3. r = RangeOf(Lower(a, s), Higher(b, t))
      BY <1>5, <1>8, <1>9, <2>2, <3>1 DEF Grown
    <3>4. Lower(a, s) \in Nat /\ Higher(b, t) \in Nat
      BY <3>2 DEF Lower, Higher
    <3> QED
      BY <2>2, <3>1, <3>2, <3>3, <3>4, RangeIs
  <2> QED
    BY <2>1, <2>2
<1>11. r.start <= a /\ b <= r.end /\ r.start < r.end
  BY <1>10 DEF Lower, Higher
<1>12. ASSUME NEW j \in 1 .. lo PROVE set[j].end < r.start
  <2>1. j \in 1 .. m /\ j <= lo
    BY <1>5
  <2>2. set[j].end < a /\ set[j].end \in Nat
    BY <1>0, <1>1, <1>6, <2>1
  <2>3. CASE n = 0
    BY <1>10, <2>2, <2>3
  <2>4. CASE n # 0
    <3>1. j < lo + 1
      BY <1>5, <2>1
    <3>2. set[j].end < s
      BY <1>0, <1>1, <1>9, <1>10, <2>1, <2>4, <3>1
    <3> QED
      BY <1>10, <2>2, <2>4, <3>2 DEF Lower
  <2> QED
    BY <2>3, <2>4
<1>13. ASSUME NEW j \in hi + 1 .. m PROVE r.end < set[j].start
  <2>1. j \in 1 .. m /\ hi < j /\ ~ (j <= hi)
    BY <1>5
  <2>2. set[j].start > b /\ set[j].start \in Nat
    BY <1>0, <1>1, <1>6, <2>1
  <2>3. CASE n = 0
    BY <1>10, <2>2, <2>3
  <2>4. CASE n # 0
    <3>1. t < set[j].start
      BY <1>0, <1>1, <1>9, <1>10, <2>1, <2>4
    <3> QED
      BY <1>10, <2>2, <2>4, <3>1 DEF Higher
  <2> QED
    BY <2>3, <2>4
<1>14. e = SubSeq(set, 1, lo) \o <<r>> \o SubSeq(set, hi + 1, m)
  BY <1>1, <1>2, <1>5, <1>7 DEF InsertedList
<1>15. /\ Merged(e) /\ Len(e) = lo + 1 + (m - hi)
       /\ \A x \in Nat : x \in Covered(e) <=>
            \/ r.start <= x /\ x < r.end
            \/ \E j \in 1 .. m : (j <= lo \/ j > hi) /\ set[j].start <= x /\ x < set[j].end
  <2>1. /\ lo \in 0 .. Len(set) /\ hi \in 0 .. Len(set) /\ lo <= hi
        /\ r \in ByteRange /\ r.start < r.end
        /\ \A j \in 1 .. lo : set[j].end < r.start
        /\ \A j \in hi + 1 .. Len(set) : r.end < set[j].start
        /\ e = SubSeq(set, 1, lo) \o <<r>> \o SubSeq(set, hi + 1, Len(set))
    BY <1>1, <1>5, <1>10, <1>11, <1>12, <1>13, <1>14
  <2>2. Merged(e) /\ Len(e) = lo + 1 + (Len(set) - hi) /\ CoversSpliced(e, set, lo, hi, r)
    BY ONLY Merged(set), <2>1, SpliceMerges
  <2> QED
    BY <1>1, <2>2 DEF CoversSpliced
<1>16. ASSUME NEW x \in Nat, x \in Covered(set) PROVE x \in Covered(e)
  <2>1. PICK j \in 1 .. m : set[j].start <= x /\ x < set[j].end
    BY <1>1, <1>16, CoveredIs
  <2>2. CASE j <= lo \/ j > hi
    BY <1>15, <2>1, <2>2
  <2>3. CASE j > lo /\ j <= hi
    <3>1. n # 0
      BY <1>5, <2>3
    <3>2. s <= set[j].start
      <4>1. CASE j = lo + 1
        BY <1>0, <1>1, <1>9, <2>1, <4>1
      <4>2. CASE lo + 1 < j
        <5>1. set[lo + 1].end < set[j].start /\ set[lo + 1].start < set[lo + 1].end
          BY <1>0, <1>1, <1>10, <3>1, <4>2
        <5>2. set[lo + 1].end \in Nat /\ set[j].start \in Nat
          BY <1>0, <1>1, <1>10, <3>1
        <5> QED
          BY <1>9, <1>10, <3>1, <5>1, <5>2
      <4>3. j = lo + 1 \/ lo + 1 < j
        BY <1>5, <2>3
      <4> QED
        BY <4>1, <4>2, <4>3
    <3>3. set[j].end <= t
      <4>1. CASE j = hi
        BY <1>0, <1>1, <1>9, <2>1, <4>1
      <4>2. CASE j < hi
        <5>1. set[j].end < set[hi].start /\ set[hi].start < set[hi].end
          BY <1>0, <1>1, <1>10, <3>1, <4>2
        <5>2. set[j].end \in Nat /\ set[hi].start \in Nat
          BY <1>0, <1>1, <1>10, <3>1
        <5> QED
          BY <1>9, <1>10, <3>1, <5>1, <5>2
      <4>3. j = hi \/ j < hi
        BY <1>5, <2>3
      <4> QED
        BY <4>1, <4>2, <4>3
    <3>4. set[j].start \in Nat /\ set[j].end \in Nat
      BY <1>0, <1>1
    <3>5. r.start <= x /\ x < r.end
      BY <1>10, <2>1, <3>1, <3>2, <3>3, <3>4 DEF Lower, Higher
    <3> QED
      BY <1>15, <3>5
  <2>4. (j <= lo \/ j > hi) \/ (j > lo /\ j <= hi)
    BY <1>5
  <2> QED
    BY <2>2, <2>3, <2>4
<1>17. ASSUME NEW x \in Nat, a <= x, x < b PROVE x \in Covered(e)
  <2>1. r.start <= x /\ x < r.end
    BY <1>10, <1>11, <1>17
  <2> QED
    BY <1>15, <2>1
<1>18. ASSUME NEW x \in Nat, x \in Covered(e), ~ (a <= x /\ x < b) PROVE x \in Covered(set)
  <2>1. ASSUME NEW j \in 1 .. m, set[j].start <= x, x < set[j].end PROVE x \in Covered(set)
    BY <1>1, <2>1, CoveredIs
  <2>2. CASE r.start <= x /\ x < r.end
    <3>1. n # 0
      BY <1>10, <1>18, <2>2
    <3>2. CASE x < a
      <4>1. s <= x
        BY <1>10, <2>2, <3>1, <3>2 DEF Lower
      <4>2. ~ (lo + 1 <= lo)
        BY <1>5
      <4>3. ~ (set[lo + 1].end < a) /\ set[lo + 1].end \in Nat
        BY <1>0, <1>1, <1>6, <1>10, <3>1, <4>2
      <4> QED
        BY <1>9, <1>10, <2>1, <3>1, <3>2, <4>1, <4>3
    <3>3. CASE x >= b
      <4>1. x < t
        BY <1>10, <2>2, <3>1, <3>3 DEF Higher
      <4>2. hi <= hi
        BY <1>5
      <4>3. set[hi].start <= b /\ set[hi].start \in Nat
        BY <1>0, <1>1, <1>6, <1>10, <3>1, <4>2
      <4>4. set[hi].start <= x
        BY <3>3, <4>3
      <4> QED
        BY <1>9, <1>10, <2>1, <3>1, <4>1, <4>4
    <3> QED
      BY <1>18, <3>2, <3>3
  <2>3. CASE \E j \in 1 .. m : set[j].start <= x /\ x < set[j].end
    BY <2>1, <2>3
  <2> QED
    BY <1>15, <1>18, <2>2, <2>3
<1>19. Covered(e) = Covered(set) \cup Span(a, b)
  <2>1. Covered(e) \subseteq Nat /\ Covered(set) \subseteq Nat
    BY <1>15, CoveredIs
  <2>2. \A x : x \in Span(a, b) <=> x \in Nat /\ a <= x /\ x < b
    BY SpanElements
  <2> QED
    BY <1>16, <1>17, <1>18, <2>1, <2>2
<1>20. n \in Nat /\ Len(e) = Len(set) + 1 - n
  BY <1>1, <1>4, <1>5, <1>15
<1> QED
  BY <1>15, <1>19, <1>20 DEF Inserted

\* An insertion does to the set what RangeInsert says, and fails when it does.
InsertsLikeSet(r, set, a, b) ==
  /\ InsertOk(set, a, b) <=> RangeInsertFits(Covered(set), Span(a, b), MaxRanges)
  /\ Merged(r) /\ Len(r) <= MaxRanges
  /\ InsertOk(set, a, b) => Covered(r) = Covered(set) \cup Span(a, b)
  /\ ~ InsertOk(set, a, b) => r = set

LEMMA InsertIs ==
  ASSUME NEW set, Merged(set), Len(set) <= MaxRanges, NEW a \in Nat, NEW b \in Nat
  PROVE  InsertsLikeSet(InsertRange(set, a, b), set, a, b)
<1> PICK r : r = InsertRange(set, a, b)
  OBVIOUS
<1> SUFFICES InsertsLikeSet(r, set, a, b)
  OBVIOUS
<1>0. Len(set) \in Nat /\ MaxRanges \in Nat
  BY MergedIs, RangeListAssumption
<1>1. CASE a >= b
  <2>1. Span(a, b) = {}
    BY <1>1 DEF Span
  <2>2. InsertOk(set, a, b) /\ r = set
    BY <1>1 DEF InsertOk, InsertRange
  <2>3. Covered(set) \cup Span(a, b) = Covered(set)
    BY <2>1
  <2>4. RangeCount(Covered(set)) = Len(set)
    BY RunStartsAre
  <2> QED
    BY <2>2, <2>3, <2>4 DEF RangeInsertFits, InsertsLikeSet
<1>2. CASE a < b
  <2>1. PICK n : n = RemoveCount(set, SkipTo(set, a), a, b)
    OBVIOUS
  <2>2. PICK e : e = InsertedList(set, a, b)
    OBVIOUS
  <2>3. /\ n \in Nat /\ Merged(e) /\ Len(e) = Len(set) + 1 - n
        /\ Covered(e) = Covered(set) \cup Span(a, b)
    BY <1>2, <2>1, <2>2, InsertedIs DEF Inserted
  <2>4. RangeCount(Covered(set) \cup Span(a, b)) = Len(e)
    BY <2>3, RunStartsAre
  <2>5. InsertOk(set, a, b) <=> n > 0 \/ Len(set) < MaxRanges
    BY <1>2, <2>1 DEF InsertOk
  <2>6. InsertOk(set, a, b) <=> Len(e) <= MaxRanges
    BY <1>0, <2>3, <2>5
  <2>7. r = IF InsertOk(set, a, b) THEN e ELSE set
    BY <1>2, <2>2 DEF InsertRange, InsertedList
  <2> QED
    BY <2>3, <2>4, <2>6, <2>7 DEF RangeInsertFits, InsertsLikeSet
<1> QED
  BY <1>1, <1>2

------------------------------------------------------------------------------
(* Removal.                                                                *)

LEMMA OneRange ==
  ASSUME NEW r \in ByteRange, r.start < r.end, NEW p, p = <<r>>
  PROVE  /\ Merged(p) /\ Len(p) = 1 /\ p[1] = r
         /\ \A x \in Nat : x \in Covered(p) <=> r.start <= x /\ x < r.end
<1>1. p \in Seq(ByteRange) /\ Len(p) = 1 /\ DOMAIN p = 1 .. 1 /\ p[1] = r
  OBVIOUS
<1>2. \A i \in DOMAIN p : i = 1
  BY <1>1
<1>3. Merged(p)
  BY <1>1, <1>2 DEF Merged
<1>4. r.start \in Nat /\ r.end \in Nat
  BY DEF ByteRange
<1>5. Covered(p) = r.start .. (r.end - 1)
  <2>1. \A x \in Covered(p) : \E i \in DOMAIN p : x \in p[i].start .. (p[i].end - 1)
    BY DEF Covered
  <2>2. \A x \in p[1].start .. (p[1].end - 1) : x \in Covered(p)
    <3>1. 1 \in DOMAIN p
      BY <1>1
    <3> QED
      BY <3>1 DEF Covered
  <2> QED
    BY <1>1, <1>2, <2>1, <2>2
<1> QED
  BY <1>1, <1>3, <1>4, <1>5

\* Two merged arrays one behind the other.
Before(s, q) == \A i \in 1 .. Len(s), j \in 1 .. Len(q) : s[i].end < q[j].start

Both(e, s, q) ==
  /\ Merged(e) /\ Len(e) = Len(s) + Len(q)
  /\ Covered(e) = Covered(s) \cup Covered(q)
  /\ \A k \in 1 .. Len(e) : \/ \E i \in 1 .. Len(s) : e[k] = s[i]
                            \/ \E j \in 1 .. Len(q) : e[k] = q[j]

LEMMA ConcatMerges ==
  ASSUME NEW s, Merged(s), NEW q, Merged(q), Before(s, q), NEW e, e = s \o q
  PROVE  Both(e, s, q)
<1>1. PICK m, n : m = Len(s) /\ n = Len(q)
  OBVIOUS
<1>2. /\ s \in Seq(ByteRange) /\ m \in Nat /\ DOMAIN s = 1 .. m
      /\ \A i \in 1 .. m : s[i].start < s[i].end
      /\ \A i, j \in 1 .. m : i < j => s[i].end < s[j].start
  BY <1>1, MergedIs
<1>3. /\ q \in Seq(ByteRange) /\ n \in Nat /\ DOMAIN q = 1 .. n
      /\ \A i \in 1 .. n : q[i].start < q[i].end
      /\ \A i, j \in 1 .. n : i < j => q[i].end < q[j].start
  BY <1>1, MergedIs
<1>4. /\ e \in Seq(ByteRange) /\ Len(e) = m + n
      /\ \A k \in 1 .. m + n : e[k] = IF k <= m THEN s[k] ELSE q[k - m]
  BY <1>1, <1>2, <1>3, ConcatProperties
<1>5. DOMAIN e = 1 .. m + n
  BY <1>2, <1>3, <1>4
<1>6. ASSUME NEW k \in 1 .. m + n
      PROVE  \/ k <= m /\ k \in 1 .. m /\ e[k] = s[k]
             \/ k > m /\ k - m \in 1 .. n /\ e[k] = q[k - m]
  <2>1. CASE k <= m
    <3>1. k \in 1 .. m
      BY <1>2, <2>1
    <3> QED
      BY <1>4, <2>1, <3>1
  <2>2. CASE k > m
    <3>1. k - m \in 1 .. n /\ ~ (k <= m)
      BY <1>2, <1>3, <2>2
    <3> QED
      BY <1>4, <2>2, <3>1
  <2> QED
    BY <1>2, <1>3, <2>1, <2>2
<1>7. \A k \in 1 .. m + n : e[k].start < e[k].end
  BY <1>2, <1>3, <1>6
<1>8. ASSUME NEW k \in 1 .. m + n, NEW l \in 1 .. m + n, k < l PROVE e[k].end < e[l].start
  <2>1. CASE l <= m
    <3>1. k \in 1 .. m /\ l \in 1 .. m /\ ~ (k > m) /\ ~ (l > m)
      BY <1>2, <1>3, <1>8, <2>1
    <3> QED
      BY <1>2, <1>6, <1>8, <3>1
  <2>2. CASE k <= m /\ l > m
    <3>1. ~ (k > m) /\ ~ (l <= m)
      BY <1>2, <1>3, <2>2
    <3>2. /\ k \in 1 .. m /\ e[k] = s[k]
          /\ l - m \in 1 .. n /\ e[l] = q[l - m]
      BY <1>6, <3>1
    <3> QED
      BY <1>1, <3>2 DEF Before
  <2>3. CASE k > m
    <3>1. ~ (k <= m) /\ ~ (l <= m)
      BY <1>2, <1>3, <1>8, <2>3
    <3>2. /\ k - m \in 1 .. n /\ e[k] = q[k - m]
          /\ l - m \in 1 .. n /\ e[l] = q[l - m]
      BY <1>6, <3>1
    <3>3. k - m < l - m
      BY <1>2, <1>3, <1>8
    <3> QED
      BY <1>3, <3>2, <3>3
  <2> QED
    BY <1>2, <1>3, <2>1, <2>2, <2>3
<1>9. Merged(e)
  BY <1>4, <1>5, <1>7, <1>8 DEF Merged
<1>10. Covered(e) \subseteq Covered(s) \cup Covered(q)
  BY <1>2, <1>3, <1>5, <1>6 DEF Covered
<1>11. Covered(s) \subseteq Covered(e)
  <2>1. \A k \in 1 .. m : k \in 1 .. m + n /\ e[k] = s[k]
    BY <1>2, <1>3, <1>4
  <2> QED
    BY <1>2, <1>5, <2>1 DEF Covered
<1>12. Covered(q) \subseteq Covered(e)
  <2>1. ASSUME NEW j \in 1 .. n PROVE j + m \in 1 .. m + n /\ e[j + m] = q[j]
    <3>1. PICK k : k = j + m
      OBVIOUS
    <3>2. k \in 1 .. m + n /\ ~ (k <= m) /\ k - m = j
      BY <1>2, <1>3, <3>1
    <3> QED
      BY <1>4, <3>1, <3>2
  <2> QED
    BY <1>3, <1>5, <2>1 DEF Covered
<1>13. \A k \in 1 .. m + n : \/ \E i \in 1 .. m : e[k] = s[i]
                             \/ \E j \in 1 .. n : e[k] = q[j]
  BY <1>6
<1> QED
  BY <1>1, <1>4, <1>9, <1>10, <1>11, <1>12, <1>13 DEF Both

\* What is left of one range if there is always a slot.
Parts(r, a, b) ==
  LET left  == IF r.start < a THEN <<RangeOf(r.start, a)>> ELSE <<>>
      right == IF b < r.end THEN <<RangeOf(b, r.end)>> ELSE <<>>
  IN  IF b <= r.start \/ a >= r.end THEN <<r>> ELSE left \o right

\* [a, b) lies strictly within r.
Splits(r, a, b) == r.start < a /\ b < r.end

\* p is a merged array of ranges within r.
Within(p, r) ==
  Merged(p) /\ \A k \in 1 .. Len(p) : r.start <= p[k].start /\ p[k].end <= r.end

\* p covers r without [a, b).
Leaves(p, r, a, b) ==
  \A x \in Nat : x \in Covered(p) <=> r.start <= x /\ x < r.end /\ ~ (a <= x /\ x < b)

LEMMA PartsAre ==
  ASSUME NEW r \in ByteRange, r.start < r.end, NEW a \in Nat, NEW b \in Nat, a < b,
         NEW p, p = Parts(r, a, b)
  PROVE  /\ Within(p, r) /\ Leaves(p, r, a, b) /\ Len(p) \in Nat
         /\ Splits(r, a, b) => Len(p) = 2
         /\ ~ Splits(r, a, b) => Len(p) <= 1
         /\ b <= r.start \/ a >= r.end => Len(p) = 1
<1>0. r.start \in Nat /\ r.end \in Nat
  BY DEF ByteRange
<1>1. PICK none : none = <<>>
  OBVIOUS
<1>2. Merged(none) /\ Covered(none) = {} /\ Len(none) = 0 /\ none \in Seq(ByteRange)
  BY <1>1, NothingMerged DEF Merged
<1>3. CASE b <= r.start \/ a >= r.end
  <2>1. p = <<r>>
    BY <1>3 DEF Parts
  <2>2. /\ Merged(p) /\ Len(p) = 1 /\ p[1] = r
        /\ \A x \in Nat : x \in Covered(p) <=> r.start <= x /\ x < r.end
    BY <2>1, OneRange
  <2>3. \A k \in 1 .. Len(p) : k = 1
    BY <2>2
  <2>4. Within(p, r)
    BY <1>0, <2>2, <2>3 DEF Within
  <2>5. Leaves(p, r, a, b)
    BY <1>0, <1>3, <2>2 DEF Leaves
  <2>6. ~ Splits(r, a, b)
    BY <1>0, <1>3 DEF Splits
  <2> QED
    BY <2>2, <2>4, <2>5, <2>6
<1>4. CASE ~ (b <= r.start \/ a >= r.end)
  <2>1. PICK left, right :
          /\ left = (IF r.start < a THEN <<RangeOf(r.start, a)>> ELSE <<>>)
          /\ right = (IF b < r.end THEN <<RangeOf(b, r.end)>> ELSE <<>>)
    OBVIOUS
  <2>2. p = left \o right
    BY <1>4, <2>1 DEF Parts
  <2>3. /\ Merged(left) /\ Len(left) = IF r.start < a THEN 1 ELSE 0
        /\ \A k \in 1 .. Len(left) : left[k].start = r.start /\ left[k].end = a /\ a < r.end
        /\ \A x \in Nat : x \in Covered(left) <=> r.start <= x /\ x < a
    <3>1. CASE r.start < a
      <4>1. PICK q : q = RangeOf(r.start, a)
        OBVIOUS
      <4>2. q \in ByteRange /\ q.start = r.start /\ q.end = a
        BY <1>0, <4>1, RangeIs
      <4>3. left = <<q>>
        BY <2>1, <3>1, <4>1
      <4>4. /\ Merged(left) /\ Len(left) = 1 /\ left[1] = q
            /\ \A x \in Nat : x \in Covered(left) <=> q.start <= x /\ x < q.end
        BY <3>1, <4>2, <4>3, OneRange
      <4>5. \A k \in 1 .. Len(left) : k = 1
        BY <4>4
      <4> QED
        BY <1>0, <1>4, <3>1, <4>2, <4>4, <4>5
    <3>2. CASE ~ (r.start < a)
      <4>1. left = none
        BY <1>1, <2>1, <3>2
      <4> QED
        BY <1>0, <1>2, <3>2, <4>1
    <3> QED
      BY <3>1, <3>2
  <2>4. /\ Merged(right) /\ Len(right) = IF b < r.end THEN 1 ELSE 0
        /\ \A k \in 1 .. Len(right) : right[k].start = b /\ right[k].end = r.end /\ r.start < b
        /\ \A x \in Nat : x \in Covered(right) <=> b <= x /\ x < r.end
    <3>1. CASE b < r.end
      <4>1. PICK q : q = RangeOf(b, r.end)
        OBVIOUS
      <4>2. q \in ByteRange /\ q.start = b /\ q.end = r.end
        BY <1>0, <4>1, RangeIs
      <4>3. right = <<q>>
        BY <2>1, <3>1, <4>1
      <4>4. /\ Merged(right) /\ Len(right) = 1 /\ right[1] = q
            /\ \A x \in Nat : x \in Covered(right) <=> q.start <= x /\ x < q.end
        BY <3>1, <4>2, <4>3, OneRange
      <4>5. \A k \in 1 .. Len(right) : k = 1
        BY <4>4
      <4> QED
        BY <1>0, <1>4, <3>1, <4>2, <4>4, <4>5
    <3>2. CASE ~ (b < r.end)
      <4>1. right = none
        BY <1>1, <2>1, <3>2
      <4> QED
        BY <1>0, <1>2, <3>2, <4>1
    <3> QED
      BY <3>1, <3>2
  <2>5. /\ Merged(p) /\ Len(p) = Len(left) + Len(right)
        /\ Covered(p) = Covered(left) \cup Covered(right)
        /\ \A k \in 1 .. Len(p) : \/ \E i \in 1 .. Len(left) : p[k] = left[i]
                                  \/ \E j \in 1 .. Len(right) : p[k] = right[j]
    <3>1. Before(left, right)
      BY <2>3, <2>4 DEF Before
    <3>2. Merged(left) /\ Merged(right)
      BY <2>3, <2>4
    <3>3. Both(p, left, right)
      BY ONLY <2>2, <3>1, <3>2, ConcatMerges
    <3> QED
      BY <3>3 DEF Both
  <2>6. Within(p, r)
    BY <1>0, <1>4, <2>3, <2>4, <2>5 DEF Within
  <2>7. Leaves(p, r, a, b)
    BY <1>0, <1>4, <2>3, <2>4, <2>5 DEF Leaves
  <2>8. Len(p) \in Nat
    BY <2>5, MergedIs
  <2> QED
    BY <1>0, <1>4, <2>3, <2>4, <2>5, <2>6, <2>7, <2>8 DEF Splits
<1> QED
  BY <1>3, <1>4

\* g puts the arrays p[1], ..., p[n] together, one by one.
Joins(g, p, n) ==
  g = [i \in 0 .. n |-> IF i = 0 THEN <<>> ELSE g[i - 1] \o p[i]]

\* After i of them.
Joined(set, p, i) ==
  {e \in Seq(ByteRange) :
     /\ Merged(e) /\ Covered(e) = UNION {Covered(p[j]) : j \in 1 .. i}
     /\ \A k \in 1 .. Len(e) : \E j \in 1 .. i : e[k].end <= set[j].end}

Pieced(set, p) == \A i \in 1 .. Len(set) : Within(p[i], set[i])

LEMMA JoinStep ==
  ASSUME NEW set, Merged(set), NEW p, Pieced(set, p), NEW i \in 1 .. Len(set),
         NEW s \in Joined(set, p, i - 1)
  PROVE  s \o p[i] \in Joined(set, p, i)
<1>0. /\ Len(set) \in Nat
      /\ \A k \in 1 .. Len(set) : set[k].start \in Nat /\ set[k].end \in Nat
      /\ \A k \in 1 .. Len(set) : set[k].start < set[k].end
      /\ \A k, j \in 1 .. Len(set) : k < j => set[k].end < set[j].start
  BY MergedIs
<1>1. /\ Merged(s) /\ Covered(s) = UNION {Covered(p[j]) : j \in 1 .. i - 1}
      /\ \A k \in 1 .. Len(s) : \E j \in 1 .. i - 1 : s[k].end <= set[j].end
  BY DEF Joined
<1>2. PICK q : q = p[i]
  OBVIOUS
<1>3. Merged(q) /\ \A k \in 1 .. Len(q) : set[i].start <= q[k].start /\ q[k].end <= set[i].end
  BY <1>2 DEF Pieced, Within
<1>4. \A k \in 1 .. Len(s) : s[k].start \in Nat /\ s[k].end \in Nat
  BY <1>1, MergedIs
<1>5. \A k \in 1 .. Len(q) : q[k].start \in Nat /\ q[k].end \in Nat
  BY <1>3, MergedIs
<1>6. Before(s, q)
  <2> SUFFICES ASSUME NEW k \in 1 .. Len(s), NEW l \in 1 .. Len(q)
               PROVE  s[k].end < q[l].start
    BY DEF Before
  <2>1. PICK j \in 1 .. i - 1 : s[k].end <= set[j].end
    BY <1>1
  <2>2. j \in 1 .. Len(set) /\ j < i
    BY <1>0
  <2>3. set[j].end < set[i].start /\ set[j].end \in Nat /\ set[i].start \in Nat
    BY <1>0, <2>2
  <2>4. PICK x, y, u, v : x = s[k].end /\ y = set[j].end /\ u = set[i].start /\ v = q[l].start
    OBVIOUS
  <2>5. x \in Nat /\ y \in Nat /\ u \in Nat /\ v \in Nat /\ x <= y /\ y < u /\ u <= v
    BY <1>3, <1>4, <1>5, <2>1, <2>3, <2>4
  <2>6. x < v
    BY ONLY <2>5
  <2> QED
    BY ONLY <2>4, <2>6
<1>7. PICK e : e = s \o q
  OBVIOUS
<1>8. Both(e, s, q)
  BY ONLY <1>1, <1>3, <1>6, <1>7, ConcatMerges
<1>9. Merged(e) /\ Covered(e) = Covered(s) \cup Covered(q)
  BY <1>8 DEF Both
<1>10. Covered(e) = UNION {Covered(p[j]) : j \in 1 .. i}
  <2>1. 1 .. i = (1 .. i - 1) \cup {i}
    BY <1>0
  <2>2. UNION {Covered(p[j]) : j \in 1 .. i}
          = (UNION {Covered(p[j]) : j \in 1 .. i - 1}) \cup Covered(p[i])
    BY <2>1
  <2> QED
    BY <1>1, <1>2, <1>9, <2>2
<1>11. ASSUME NEW k \in 1 .. Len(e) PROVE \E j \in 1 .. i : e[k].end <= set[j].end
  <2>1. CASE \E l \in 1 .. Len(s) : e[k] = s[l]
    <3>1. PICK l \in 1 .. Len(s) : e[k] = s[l]
      BY <2>1
    <3>2. PICK j \in 1 .. i - 1 : s[l].end <= set[j].end
      BY <1>1
    <3>3. j \in 1 .. i
      BY <1>0
    <3> QED
      BY <3>1, <3>2, <3>3
  <2>2. CASE \E l \in 1 .. Len(q) : e[k] = q[l]
    <3>1. i \in 1 .. i
      BY <1>0
    <3> QED
      BY <1>3, <2>2, <3>1
  <2> QED
    BY <1>8, <2>1, <2>2 DEF Both
<1>12. e \in Seq(ByteRange)
  BY <1>9 DEF Merged
<1>13. e \in Joined(set, p, i)
  BY ONLY <1>9, <1>10, <1>11, <1>12 DEF Joined
<1> QED
  BY <1>2, <1>7, <1>13

LEMMA JoinStart ==
  ASSUME NEW set, NEW p
  PROVE  <<>> \in Joined(set, p, 0)
<1>1. PICK none : none = <<>>
  OBVIOUS
<1>2. Merged(none) /\ Covered(none) = {} /\ Len(none) = 0 /\ none \in Seq(ByteRange)
  BY <1>1, NothingMerged DEF Merged
<1>3. UNION {Covered(p[j]) : j \in 1 .. 0} = {}
  OBVIOUS
<1>4. none \in Joined(set, p, 0)
  BY ONLY <1>2, <1>3 DEF Joined
<1> QED
  BY <1>1, <1>4

LEMMA JoinExists ==
  ASSUME NEW set, Merged(set), NEW p, Pieced(set, p), NEW n, n = Len(set)
  PROVE  \E g : Joins(g, p, n)
<1> DEFINE T == [i \in 0 .. n |-> Joined(set, p, i)]
           step == [i \in 1 .. n |-> [s \in T[i - 1] |-> s \o p[i]]]
<1>1. n \in Nat
  BY MergedIs
<1>2. \A i \in 0 .. n : T[i] = Joined(set, p, i)
  OBVIOUS
<1>3. ASSUME NEW i \in 1 .. n, NEW s \in T[i - 1] PROVE s \o p[i] \in T[i]
  <2>1. i - 1 \in 0 .. n /\ i \in 0 .. n
    BY <1>1
  <2>2. s \in Joined(set, p, i - 1)
    BY <1>2, <2>1
  <2>3. s \o p[i] \in Joined(set, p, i)
    BY <2>2, JoinStep
  <2> QED
    BY <1>2, <2>1, <2>3
<1> HIDE DEF T
<1>4. \A i \in 1 .. n : \A s \in T[i - 1] : step[i][s] = s \o p[i]
  OBVIOUS
<1>5. \A i \in 1 .. n : step[i] \in [T[i - 1] -> T[i]]
  BY <1>3
<1>6. <<>> \in T[0]
  BY <1>1, <1>2, JoinStart
<1> HIDE DEF step
<1>7. Steps(T, <<>>, n, step)
  BY <1>1, <1>5, <1>6 DEF Steps
<1>8. PICK g : Follows(g, T, <<>>, n, step)
  BY <1>7, RecursionExists
<1>9. ASSUME NEW i \in 0 .. n PROVE g[i] = IF i = 0 THEN <<>> ELSE g[i - 1] \o p[i]
  <2>1. CASE i = 0
    BY <1>8, <2>1 DEF Follows
  <2>2. CASE i # 0
    <3>1. i \in 1 .. n /\ i - 1 \in 0 .. n
      BY <1>1, <2>2
    <3>2. g[i - 1] \in T[i - 1]
      BY <1>8, <3>1 DEF Follows
    <3> QED
      BY <1>4, <1>8, <2>2, <3>1, <3>2 DEF Follows
  <2> QED
    BY <2>1, <2>2
<1>10. Joins(g, p, n)
  BY <1>8, <1>9 DEF Follows, Joins
<1> QED
  BY <1>10

\* What has been put together, and how many slots it takes if one of the arrays
\* has two ranges.
LEMMA JoinKeeps ==
  ASSUME NEW set, Merged(set), NEW p, Pieced(set, p), NEW n, n = Len(set),
         NEW g, Joins(g, p, n)
  PROVE  \A i \in 0 .. n : g[i] \in Joined(set, p, i)
<1> DEFINE S == {i \in 0 .. n : g[i] \in Joined(set, p, i)}
<1>1. n \in Nat
  BY MergedIs
<1>2. 0 \in S
  BY <1>1, JoinStart DEF Joins
<1>3. \A i \in 1 .. n : i - 1 \in S => i \in S
  <2> SUFFICES ASSUME NEW i \in 1 .. n, i - 1 \in S PROVE i \in S
    OBVIOUS
  <2>1. g[i] = g[i - 1] \o p[i] /\ i \in 0 .. n
    BY <1>1 DEF Joins
  <2>2. g[i - 1] \in Joined(set, p, i - 1)
    OBVIOUS
  <2>3. g[i - 1] \o p[i] \in Joined(set, p, i)
    BY <2>2, JoinStep
  <2> QED
    BY <2>1, <2>3
<1> HIDE DEF S
<1>4. 0 .. n \subseteq S
  BY <1>1, <1>2, <1>3, InductionUpTo
<1> QED
  BY <1>4 DEF S

LEMMA JoinLengths ==
  ASSUME NEW set, Merged(set), NEW p, Pieced(set, p), NEW n, n = Len(set),
         NEW g, Joins(g, p, n), NEW m \in 1 .. n + 1,
         \A i \in 1 .. n : Len(p[i]) \in Nat /\ Len(p[i]) <= IF i = m THEN 2 ELSE 1
  PROVE  /\ Len(g[n]) \in Nat /\ Len(g[n]) <= IF m <= n THEN n + 1 ELSE n
         /\ (\A i \in 1 .. n : Len(p[i]) = IF i = m THEN 2 ELSE 1)
              => Len(g[n]) = IF m <= n THEN n + 1 ELSE n
<1> DEFINE Bound(i) == IF m <= i THEN i + 1 ELSE i
           all == \A i \in 1 .. n : Len(p[i]) = IF i = m THEN 2 ELSE 1
           S == {i \in 0 .. n : /\ Len(g[i]) \in Nat /\ Len(g[i]) <= Bound(i)
                                /\ all => Len(g[i]) = Bound(i)}
<1>1. n \in Nat
  BY MergedIs
<1>2. \A i \in 0 .. n : g[i] \in Seq(ByteRange)
  <2>1. \A i \in 0 .. n : g[i] \in Joined(set, p, i)
    BY JoinKeeps
  <2> QED
    BY <2>1 DEF Joined
<1>3. \A i \in 1 .. n : p[i] \in Seq(ByteRange)
  BY DEF Pieced, Within, Merged
<1>4. 0 \in S
  <2>1. g[0] = <<>>
    BY <1>1 DEF Joins
  <2>2. Len(g[0]) = 0
    BY <2>1, NothingMerged
  <2>3. Bound(0) = 0
    BY <1>1
  <2> HIDE DEF Bound, all
  <2> QED
    BY <1>1, <2>2, <2>3
<1>5. \A i \in 1 .. n : i - 1 \in S => i \in S
  <2> SUFFICES ASSUME NEW i \in 1 .. n, i - 1 \in S PROVE i \in S
    OBVIOUS
  <2>1. g[i] = g[i - 1] \o p[i] /\ i \in 0 .. n /\ i - 1 \in 0 .. n
    <3>1. i \in 0 .. n /\ i # 0 /\ i - 1 \in 0 .. n
      BY <1>1
    <3>2. g[i] = g[i - 1] \o p[i]
      BY ONLY Joins(g, p, n), <3>1 DEF Joins
    <3> QED
      BY <3>1, <3>2
  <2>2. PICK s, q : s = g[i - 1] /\ q = p[i]
    OBVIOUS
  <2>3. s \in Seq(ByteRange) /\ q \in Seq(ByteRange)
    BY <1>2, <1>3, <2>1, <2>2
  <2>4. Len(s \o q) = Len(s) + Len(q)
    BY ONLY <2>3, ConcatProperties
  <2>5. PICK k, l : k = Len(s) /\ l = Len(q)
    OBVIOUS
  <2>6. Len(g[i]) = k + l
    BY <2>1, <2>2, <2>4, <2>5
  <2>7. k \in Nat /\ k <= Bound(i - 1) /\ (all => k = Bound(i - 1))
    BY <2>2, <2>5
  <2>8. l \in Nat /\ l <= (IF i = m THEN 2 ELSE 1) /\ (all => l = IF i = m THEN 2 ELSE 1)
    BY <2>2, <2>5
  <2> HIDE DEF all
  <2>9. k + l \in Nat /\ k + l <= Bound(i) /\ (all => k + l = Bound(i))
    BY ONLY <1>1, <2>7, <2>8, m \in 1 .. n + 1, i \in 1 .. n DEF Bound
  <2> HIDE DEF Bound
  <2> QED
    BY <2>1, <2>6, <2>9
<1> HIDE DEF S
<1>6. 0 .. n \subseteq S
  BY <1>1, <1>4, <1>5, InductionUpTo
<1>7. n \in S
  BY <1>1, <1>6
<1> QED
  BY <1>7 DEF S

\* The loop of range_remove, with a slot for every part.
LEMMA PartsJoined ==
  ASSUME NEW set, Merged(set), NEW a \in Nat, NEW b \in Nat, a < b,
         NEW n, n = Len(set), NEW p, p = [i \in 1 .. n |-> Parts(set[i], a, b)]
  PROVE  /\ Pieced(set, p)
         /\ \A g : Joins(g, p, n) =>
              /\ Merged(g[n]) /\ Covered(g[n]) = Covered(set) \ Span(a, b)
              /\ (\A i \in 1 .. n : ~ Splits(set[i], a, b)) => Len(g[n]) <= n
              /\ (\E i \in 1 .. n : Splits(set[i], a, b)) => Len(g[n]) = n + 1
<1>0. /\ n \in Nat
      /\ \A i \in 1 .. n : set[i] \in ByteRange
      /\ \A i \in 1 .. n : set[i].start \in Nat /\ set[i].end \in Nat
      /\ \A i \in 1 .. n : set[i].start < set[i].end
      /\ \A i, j \in 1 .. n : i < j => set[i].end < set[j].start
  BY MergedIs
<1>1. ASSUME NEW i \in 1 .. n
      PROVE  /\ Within(p[i], set[i]) /\ Leaves(p[i], set[i], a, b) /\ Len(p[i]) \in Nat
             /\ Splits(set[i], a, b) => Len(p[i]) = 2
             /\ ~ Splits(set[i], a, b) => Len(p[i]) <= 1
             /\ b <= set[i].start \/ a >= set[i].end => Len(p[i]) = 1
  <2>1. p[i] = Parts(set[i], a, b)
    OBVIOUS
  <2>2. set[i] \in ByteRange /\ set[i].start < set[i].end
    BY <1>0
  <2> QED
    BY ONLY a \in Nat, b \in Nat, a < b, <2>1, <2>2, PartsAre
<1>2. Pieced(set, p)
  BY <1>1 DEF Pieced
<1>3. ASSUME NEW g, Joins(g, p, n)
      PROVE  /\ Merged(g[n]) /\ Covered(g[n]) = Covered(set) \ Span(a, b)
             /\ (\A i \in 1 .. n : ~ Splits(set[i], a, b)) => Len(g[n]) <= n
             /\ (\E i \in 1 .. n : Splits(set[i], a, b)) => Len(g[n]) = n + 1
  <2>1. g[n] \in Joined(set, p, n)
    <3>1. \A i \in 0 .. n : g[i] \in Joined(set, p, i)
      BY <1>2, <1>3, JoinKeeps
    <3> QED
      BY <1>0, <3>1
  <2>2. Merged(g[n]) /\ Covered(g[n]) = UNION {Covered(p[j]) : j \in 1 .. n}
    BY <2>1 DEF Joined
  <2>3. Covered(g[n]) = Covered(set) \ Span(a, b)
    <3>1. Covered(g[n]) \subseteq Nat /\ Covered(set) \subseteq Nat
      BY <2>2, CoveredIs
    <3>2. \A x : x \in Span(a, b) <=> x \in Nat /\ a <= x /\ x < b
      BY SpanElements
    <3>3. ASSUME NEW x \in Nat
          PROVE  x \in Covered(g[n]) <=> x \in Covered(set) /\ ~ (a <= x /\ x < b)
      <4>1. x \in Covered(g[n]) <=> \E j \in 1 .. n : x \in Covered(p[j])
        BY <2>2
      <4>2. \A j \in 1 .. n : x \in Covered(p[j]) <=>
              set[j].start <= x /\ x < set[j].end /\ ~ (a <= x /\ x < b)
        BY <1>1 DEF Leaves
      <4>3. x \in Covered(set) <=> \E j \in 1 .. n : set[j].start <= x /\ x < set[j].end
        BY CoveredIs
      <4> QED
        BY <4>1, <4>2, <4>3
    <3> QED
      BY <3>1, <3>2, <3>3
  <2>4. CASE \A i \in 1 .. n : ~ Splits(set[i], a, b)
    <3>1. PICK m : m = n + 1
      OBVIOUS
    <3>2. /\ m \in 1 .. n + 1 /\ ~ (m <= n)
          /\ \A i \in 1 .. n : Len(p[i]) \in Nat /\ Len(p[i]) <= IF i = m THEN 2 ELSE 1
      <4>1. m \in 1 .. n + 1 /\ ~ (m <= n)
        BY ONLY <1>0, <3>1
      <4>2. \A i \in 1 .. n : Len(p[i]) \in Nat /\ Len(p[i]) <= 1 /\ i # m
        BY <1>1, <2>4, <4>1
      <4>3. \A i \in 1 .. n : Len(p[i]) <= IF i = m THEN 2 ELSE 1
        BY <4>2
      <4> QED
        BY <4>1, <4>2, <4>3
    <3>3. Len(g[n]) <= IF m <= n THEN n + 1 ELSE n
      BY ONLY Merged(set), n = Len(set), Joins(g, p, n), <1>2, <1>3, <3>2, JoinLengths
    <3> QED
      BY <2>2, <2>3, <2>4, <3>2, <3>3
  <2>5. CASE \E i \in 1 .. n : Splits(set[i], a, b)
    <3>1. PICK m \in 1 .. n : Splits(set[m], a, b)
      BY <2>5
    <3>2. ASSUME NEW i \in 1 .. n, i # m PROVE Len(p[i]) = 1
      <4>1. CASE i < m
        <5>1. set[i].end < set[m].start
          BY <1>0, <4>1
        <5>2. a >= set[i].end
          BY <1>0, <3>1, <5>1 DEF Splits
        <5> QED
          BY <1>1, <5>2
      <4>2. CASE m < i
        <5>1. set[m].end < set[i].start
          BY <1>0, <4>2
        <5>2. b <= set[i].start
          BY <1>0, <3>1, <5>1 DEF Splits
        <5> QED
          BY <1>1, <5>2
      <4> QED
        BY <3>2, <4>1, <4>2
    <3>3. Len(p[m]) = 2
      BY <1>1, <3>1
    <3>4. /\ m \in 1 .. n + 1 /\ m <= n
          /\ \A i \in 1 .. n : Len(p[i]) \in Nat /\ Len(p[i]) <= IF i = m THEN 2 ELSE 1
          /\ \A i \in 1 .. n : Len(p[i]) = IF i = m THEN 2 ELSE 1
      <4>1. m \in 1 .. n + 1 /\ m <= n
        BY <1>0
      <4>2. ASSUME NEW i \in 1 .. n PROVE Len(p[i]) = IF i = m THEN 2 ELSE 1
        BY <3>2, <3>3
      <4>3. \A i \in 1 .. n : Len(p[i]) \in Nat /\ Len(p[i]) <= IF i = m THEN 2 ELSE 1
        BY <4>2
      <4> QED
        BY <4>1, <4>2, <4>3
    <3>5. Len(g[n]) = IF m <= n THEN n + 1 ELSE n
      BY ONLY Merged(set), n = Len(set), Joins(g, p, n), <1>2, <1>3, <3>4, JoinLengths
    <3> QED
      BY <2>2, <2>3, <2>5, <3>4, <3>5
  <2> QED
    BY <2>4, <2>5
<1> QED
  BY <1>2, <1>3

\* A range is cut in two unless the second part finds no slot.
LEMMA PiecesAre ==
  ASSUME NEW set, NEW r \in ByteRange, NEW a \in Nat, NEW b \in Nat, a < b
  PROVE  Pieces(set, r, a, b) = IF Splits(r, a, b) /\ Len(set) >= MaxRanges
                                THEN <<RangeOf(r.start, a)>> ELSE Parts(r, a, b)
<1>0. r.start \in Nat /\ r.end \in Nat
  BY DEF ByteRange
<1>1. PICK full : full = (Len(set) >= MaxRanges)
  OBVIOUS
<1>2. CASE b <= r.start \/ a >= r.end
  <2>1. ~ Splits(r, a, b)
    BY <1>0, <1>2 DEF Splits
  <2> QED
    BY <1>2, <2>1 DEF Pieces, Parts
<1>3. CASE ~ (b <= r.start \/ a >= r.end)
  <2>1. PICK left, right, one :
          /\ left = (IF r.start < a THEN <<RangeOf(r.start, a)>> ELSE <<>>)
          /\ right = (IF b < r.end THEN <<RangeOf(b, r.end)>> ELSE <<>>)
          /\ one = RangeOf(r.start, a)
    OBVIOUS
  <2>2. Pieces(set, r, a, b) = IF left # <<>> /\ Len(set) >= MaxRanges THEN left ELSE left \o right
    BY <1>3, <2>1 DEF Pieces
  <2>3. Parts(r, a, b) = left \o right
    BY <1>3, <2>1 DEF Parts
  <2>4. <<one>> # <<>>
    OBVIOUS
  <2>5. CASE Splits(r, a, b)
    <3>1. left = <<one>>
      BY <2>1, <2>5 DEF Splits
    <3> QED
      BY <2>1, <2>2, <2>3, <2>4, <2>5, <3>1
  <2>6. CASE ~ Splits(r, a, b) /\ r.start < a
    <3>1. right = <<>> /\ left = <<one>>
      BY <1>0, <2>1, <2>6 DEF Splits
    <3>2. left \in Seq(ByteRange)
      BY <1>0, <2>1, <3>1, RangeIs
    <3>3. left \o right = left
      BY <3>1, <3>2, ConcatEmptySeq
    <3> QED
      BY <2>2, <2>3, <2>6, <3>3
  <2>7. CASE ~ (r.start < a)
    <3>1. left = <<>> /\ ~ Splits(r, a, b)
      BY <2>1, <2>7 DEF Splits
    <3> QED
      BY <2>2, <2>3, <3>1
  <2> QED
    BY <2>5, <2>6, <2>7
<1> QED
  BY <1>2, <1>3

\* The loop of range_remove as the code has it.
LEMMA RemoveLoops ==
  ASSUME NEW set, Merged(set), NEW a \in Nat, NEW b \in Nat, a < b,
         NEW n, n = Len(set), NEW p, Pieced(set, p),
         \A i \in 1 .. n : p[i] = Pieces(set, set[i], a, b)
  PROVE  \E g : Joins(g, p, n) /\ RemoveRange(set, a, b) = g[n]
<1> DEFINE Loop(f) == f = [i \in 0 .. n |-> IF i = 0 THEN <<>>
                                           ELSE f[i - 1] \o Pieces(set, set[i], a, b)]
<1>0. n \in Nat
  BY MergedIs
<1>1. \A f : Loop(f) <=> Joins(f, p, n)
  <2> SUFFICES ASSUME NEW f PROVE Loop(f) <=> Joins(f, p, n)
    OBVIOUS
  <2>1. \A i \in 0 .. n : (IF i = 0 THEN <<>> ELSE f[i - 1] \o Pieces(set, set[i], a, b))
                        = (IF i = 0 THEN <<>> ELSE f[i - 1] \o p[i])
    <3> SUFFICES ASSUME NEW i \in 0 .. n, i # 0
                 PROVE  f[i - 1] \o Pieces(set, set[i], a, b) = f[i - 1] \o p[i]
      OBVIOUS
    <3>1. i \in 1 .. n
      BY <1>0
    <3> QED
      BY <3>1
  <2>2. [i \in 0 .. n |-> IF i = 0 THEN <<>> ELSE f[i - 1] \o Pieces(set, set[i], a, b)]
      = [i \in 0 .. n |-> IF i = 0 THEN <<>> ELSE f[i - 1] \o p[i]]
    BY <2>1
  <2> QED
    BY <2>2 DEF Joins
<1>2. \E f : Loop(f)
  <2>1. PICK f : Joins(f, p, n)
    BY JoinExists
  <2> HIDE DEF Loop
  <2> QED
    BY <1>1, <2>1
<1>3. PICK g : g = (CHOOSE f : Loop(f))
  OBVIOUS
<1>4. Loop(g)
  <2> HIDE DEF Loop
  <2> QED
    BY <1>2, <1>3
<1>5. RemoveRange(set, a, b) = g[n]
  <2>1. ~ (a >= b)
    OBVIOUS
  <2> QED
    BY <1>3, <2>1 DEF RemoveRange
<1> HIDE DEF Loop
<1> QED
  BY <1>1, <1>4, <1>5

\* The loop of range_remove, when a range is cut in two and has no slot for the
\* second part.
LEMMA CutOff ==
  ASSUME NEW set, Merged(set), NEW a \in Nat, NEW b \in Nat, a < b, Len(set) >= MaxRanges,
         NEW m \in 1 .. Len(set), Splits(set[m], a, b),
         NEW r, r = RemoveRange(set, a, b)
  PROVE  /\ Merged(r) /\ Len(r) <= Len(set)
         /\ Covered(r) = (Covered(set) \ Span(a, b)) \ Span(b, set[m].end)
<1>1. PICK n : n = Len(set)
  OBVIOUS
<1>0. /\ n \in Nat
      /\ \A i \in 1 .. n : set[i] \in ByteRange
      /\ \A i \in 1 .. n : set[i].start \in Nat /\ set[i].end \in Nat
      /\ \A i \in 1 .. n : set[i].start < set[i].end
      /\ \A i, j \in 1 .. n : i < j => set[i].end < set[j].start
  BY <1>1, MergedIs
<1>2. PICK p : p = [i \in 1 .. n |-> Pieces(set, set[i], a, b)]
  OBVIOUS
<1>3. m \in 1 .. n /\ set[m].start < a /\ b < set[m].end
  BY <1>1 DEF Splits
\* The other ranges stay, the first part of this one does.
<1>4. ASSUME NEW i \in 1 .. n, i # m PROVE b <= set[i].start \/ a >= set[i].end
  <2>1. CASE i < m
    <3>1. set[i].end < set[m].start
      BY <1>0, <1>3, <2>1
    <3> QED
      BY <1>0, <1>3, <3>1
  <2>2. CASE m < i
    <3>1. set[m].end < set[i].start
      BY <1>0, <1>3, <2>2
    <3> QED
      BY <1>0, <1>3, <3>1
  <2> QED
    BY <1>0, <1>4, <2>1, <2>2
<1>5. ASSUME NEW i \in 1 .. n, i # m
      PROVE  /\ Within(p[i], set[i]) /\ Len(p[i]) = 1
             /\ \A x \in Nat : x \in Covered(p[i]) <=> set[i].start <= x /\ x < set[i].end
  <2>1. ~ Splits(set[i], a, b)
    <3>1. b <= set[i].start \/ a >= set[i].end
      BY <1>4, <1>5
    <3>2. set[i].start \in Nat /\ set[i].end \in Nat
      BY <1>0
    <3> QED
      BY ONLY a \in Nat, b \in Nat, a < b, <3>1, <3>2 DEF Splits
  <2>2. set[i] \in ByteRange /\ set[i].start < set[i].end
    BY <1>0
  <2>3. p[i] = Parts(set[i], a, b)
    BY <1>2, <2>1, <2>2, PiecesAre
  <2>4. Within(p[i], set[i]) /\ Leaves(p[i], set[i], a, b) /\ Len(p[i]) = 1
    BY <1>4, <1>5, <2>2, <2>3, PartsAre
  <2>5. set[i].start \in Nat /\ set[i].end \in Nat /\ (b <= set[i].start \/ a >= set[i].end)
    BY <1>0, <1>4, <1>5
  <2> QED
    BY <2>4, <2>5 DEF Leaves
<1>6. /\ Within(p[m], set[m]) /\ Len(p[m]) = 1
      /\ \A x \in Nat : x \in Covered(p[m]) <=> set[m].start <= x /\ x < a
  <2>1. set[m] \in ByteRange /\ set[m].start \in Nat /\ set[m].end \in Nat
    BY <1>0, <1>3
  <2>2. PICK q : q = RangeOf(set[m].start, a)
    OBVIOUS
  <2>3. q \in ByteRange /\ q.start = set[m].start /\ q.end = a
    BY <2>1, <2>2, RangeIs
  <2>4. p[m] = <<q>>
    BY <1>2, <1>3, <2>1, <2>2, PiecesAre
  <2>5. /\ Merged(p[m]) /\ Len(p[m]) = 1 /\ p[m][1] = q
        /\ \A x \in Nat : x \in Covered(p[m]) <=> q.start <= x /\ x < q.end
    BY <1>3, <2>3, <2>4, OneRange
  <2>6. \A k \in 1 .. Len(p[m]) : k = 1
    BY <2>5
  <2>7. Within(p[m], set[m])
    BY <1>3, <2>1, <2>3, <2>5, <2>6 DEF Within
  <2> QED
    BY <2>3, <2>5, <2>7
<1>7. Pieced(set, p)
  BY <1>1, <1>5, <1>6 DEF Pieced
<1>8. PICK g : Joins(g, p, n) /\ r = g[n]
  <2>1. \A i \in 1 .. n : p[i] = Pieces(set, set[i], a, b)
    BY <1>2
  <2> QED
    BY ONLY Merged(set), a \in Nat, b \in Nat, a < b, r = RemoveRange(set, a, b),
            <1>1, <1>7, <2>1, RemoveLoops
<1>9. r \in Joined(set, p, n)
  <2>1. \A i \in 0 .. n : g[i] \in Joined(set, p, i)
    BY ONLY Merged(set), <1>1, <1>7, <1>8, JoinKeeps
  <2> QED
    BY <1>0, <1>8, <2>1
<1>10. Merged(r) /\ Covered(r) = UNION {Covered(p[j]) : j \in 1 .. n}
  BY <1>9 DEF Joined
<1>11. Len(r) <= n
  <2>1. PICK k : k = n + 1
    OBVIOUS
  <2>2. /\ k \in 1 .. n + 1 /\ ~ (k <= n)
        /\ \A i \in 1 .. n : Len(p[i]) \in Nat /\ Len(p[i]) <= IF i = k THEN 2 ELSE 1
    <3>1. \A i \in 1 .. n : Len(p[i]) = 1
      BY <1>5, <1>6
    <3>2. k \in 1 .. n + 1 /\ ~ (k <= n)
      BY <1>0, <2>1
    <3>3. ASSUME NEW i \in 1 .. n
          PROVE  Len(p[i]) \in Nat /\ Len(p[i]) <= IF i = k THEN 2 ELSE 1
      <4>1. Len(p[i]) = 1
        BY <3>1
      <4>2. 1 \in Nat /\ 1 <= IF i = k THEN 2 ELSE 1
        OBVIOUS
      <4> QED
        BY <4>1, <4>2
    <3> QED
      BY <3>2, <3>3
  <2>3. Len(g[n]) <= IF k <= n THEN n + 1 ELSE n
    BY ONLY Merged(set), <1>1, <1>7, <1>8, <2>2, JoinLengths
  <2> QED
    BY <1>8, <2>2, <2>3
<1>12. Covered(r) = (Covered(set) \ Span(a, b)) \ Span(b, set[m].end)
  <2>1. Covered(r) \subseteq Nat /\ Covered(set) \subseteq Nat
    BY <1>10, CoveredIs
  <2>2. /\ \A x : x \in Span(a, b) <=> x \in Nat /\ a <= x /\ x < b
        /\ \A x : x \in Span(b, set[m].end) <=> x \in Nat /\ b <= x /\ x < set[m].end
    BY <1>0, <1>3, SpanElements
  <2>3. ASSUME NEW x \in Nat, x \in Covered(r)
        PROVE  x \in Covered(set) /\ ~ (a <= x /\ x < set[m].end)
    <3>1. PICK j \in 1 .. n : x \in Covered(p[j])
      BY <1>10, <2>3
    <3>2. CASE j = m
      <4>1. set[m].start <= x /\ x < a /\ x < set[m].end
        BY <1>0, <1>3, <1>6, <3>1, <3>2
      <4> QED
        BY <1>1, <1>3, <4>1, CoveredIs
    <3>3. CASE j # m
      <4>1. set[j].start <= x /\ x < set[j].end
        BY <1>5, <3>1, <3>3
      <4>2. x \in Covered(set)
        BY <1>1, <4>1, CoveredIs
      <4>3. ~ (a <= x /\ x < set[m].end)
        <5>1. CASE j < m
          <6>1. set[j].end < set[m].start
            BY <1>0, <1>3, <5>1
          <6> QED
            BY <1>0, <1>3, <4>1, <6>1
        <5>2. CASE m < j
          <6>1. set[m].end < set[j].start
            BY <1>0, <1>3, <5>2
          <6> QED
            BY <1>0, <1>3, <4>1, <6>1
        <5> QED
          BY <1>0, <1>3, <3>3, <5>1, <5>2
      <4> QED
        BY <4>2, <4>3
    <3> QED
      BY <3>2, <3>3
  <2>4. ASSUME NEW x \in Nat, x \in Covered(set), ~ (a <= x /\ x < set[m].end)
        PROVE  x \in Covered(r)
    <3>1. PICK j \in 1 .. n : set[j].start <= x /\ x < set[j].end
      BY <1>1, <2>4, CoveredIs
    <3>2. x \in Covered(p[j])
      <4>1. CASE j = m
        BY <1>6, <2>4, <3>1, <4>1
      <4>2. CASE j # m
        BY <1>5, <3>1, <4>2
      <4> QED
        BY <4>1, <4>2
    <3> QED
      BY <1>10, <3>2
  <2>5. \A x \in Nat : (a <= x /\ x < set[m].end) <=> (a <= x /\ x < b) \/ (b <= x /\ x < set[m].end)
    BY <1>0, <1>3
  <2> QED
    BY <2>1, <2>2, <2>3, <2>4, <2>5
<1> QED
  BY <1>1, <1>10, <1>11, <1>12

\* A removal does to the set what RangeRemove says.
LEMMA RemoveIs ==
  ASSUME NEW set, Merged(set), Len(set) <= MaxRanges, NEW a \in Nat, NEW b \in Nat,
         NEW r, r = RemoveRange(set, a, b)
  PROVE  /\ Merged(r) /\ Len(r) <= MaxRanges
         /\ Covered(r) = RangeRemove(Covered(set), a, b, MaxRanges)
<1>1. PICK n : n = Len(set)
  OBVIOUS
<1>0. /\ n \in Nat /\ MaxRanges \in Nat /\ n <= MaxRanges
      /\ \A i \in 1 .. n : set[i] \in ByteRange
      /\ \A i \in 1 .. n : set[i].start \in Nat /\ set[i].end \in Nat
      /\ \A i \in 1 .. n : set[i].start < set[i].end
      /\ \A i, j \in 1 .. n : i < j => set[i].end < set[j].start
  BY <1>1, MergedIs, RangeListAssumption
<1>2. PICK S, K : S = Covered(set) /\ K = S \ Span(a, b)
  OBVIOUS
<1>3. RangeCount(S) = n /\ S \subseteq Nat
  BY <1>1, <1>2, RunStartsAre, CoveredIs
<1>4. CASE ~ (a < b)
  <2>1. r = set
    BY <1>4 DEF RemoveRange
  <2>2. Span(a, b) = {}
    BY <1>4 DEF Span
  <2>3. RangeRemove(S, a, b, MaxRanges) = S
    BY <1>4, <2>2 DEF RangeRemove
  <2> QED
    BY <1>2, <2>1, <2>3
<1>5. CASE a < b
  <2>1. PICK p : p = [i \in 1 .. n |-> Parts(set[i], a, b)]
    OBVIOUS
  <2>2. /\ Pieced(set, p)
        /\ \A g : Joins(g, p, n) =>
             /\ Merged(g[n]) /\ Covered(g[n]) = Covered(set) \ Span(a, b)
             /\ (\A i \in 1 .. n : ~ Splits(set[i], a, b)) => Len(g[n]) <= n
             /\ (\E i \in 1 .. n : Splits(set[i], a, b)) => Len(g[n]) = n + 1
    BY <1>1, <1>5, <2>1, PartsJoined
  <2>3. PICK full : Joins(full, p, n)
    BY <1>1, <2>2, JoinExists
  <2>4. /\ Merged(full[n]) /\ Covered(full[n]) = K
        /\ (\A i \in 1 .. n : ~ Splits(set[i], a, b)) => Len(full[n]) <= n
        /\ (\E i \in 1 .. n : Splits(set[i], a, b)) => Len(full[n]) = n + 1
    BY <1>2, <2>2, <2>3
  <2>5. RangeCount(K) = Len(full[n]) /\ Len(full[n]) \in Nat
    BY <2>4, RunStartsAre, MergedIs
  <2>6. CASE \A i \in 1 .. n : ~ (Splits(set[i], a, b) /\ n >= MaxRanges)
    <3>1. \A i \in 1 .. n : p[i] = Pieces(set, set[i], a, b)
      BY <1>0, <1>1, <1>5, <2>1, <2>6, PiecesAre
    <3>2. PICK g : Joins(g, p, n) /\ RemoveRange(set, a, b) = g[n]
      BY <1>1, <1>5, <2>2, <3>1, RemoveLoops
    <3>3. /\ Merged(r) /\ Covered(r) = K
          /\ (\A i \in 1 .. n : ~ Splits(set[i], a, b)) => Len(r) <= n
          /\ (\E i \in 1 .. n : Splits(set[i], a, b)) => Len(r) = n + 1
      BY <1>2, <2>2, <3>2
    <3>4. Len(r) <= MaxRanges
      BY <1>0, <2>6, <3>3, MergedIs
    <3>5. ~ (RangeCount(S) >= MaxRanges /\ RangeCount(K) > RangeCount(S))
      BY <1>0, <1>3, <2>4, <2>5, <2>6
    <3>6. RangeRemove(S, a, b, MaxRanges) = K
      BY <1>2, <3>5 DEF RangeRemove
    <3> QED
      BY <1>2, <3>3, <3>4, <3>6
  <2>7. CASE \E i \in 1 .. n : Splits(set[i], a, b) /\ n >= MaxRanges
    <3>1. PICK m \in 1 .. n : Splits(set[m], a, b)
      BY <2>7
    <3>2. n >= MaxRanges
      BY <2>7
    <3>3. PICK e : e = set[m].end
      OBVIOUS
    <3>4. Merged(r) /\ Len(r) <= n /\ Covered(r) = K \ Span(b, e)
      BY <1>1, <1>2, <1>5, <3>1, <3>2, <3>3, CutOff
    <3>5. Len(r) <= MaxRanges
      BY <1>0, <3>4, MergedIs
    <3>6. RangeCount(S) >= MaxRanges /\ RangeCount(K) > RangeCount(S)
      BY <1>0, <1>3, <2>4, <2>5, <3>1, <3>2
    <3>7. PICK tail : tail = {x \in K : b <= x /\ Span(b, x) \subseteq S}
      OBVIOUS
    <3>8. RangeRemove(S, a, b, MaxRanges) = K \ tail
      BY <1>2, <1>5, <3>6, <3>7 DEF RangeRemove
    <3>9. K \ tail = K \ Span(b, e)
      <4>1. /\ e \in Nat /\ b < e /\ set[m].start < a /\ set[m].start \in Nat
        BY <1>0, <3>1, <3>3 DEF Splits
      <4>2. \A x : x \in Span(b, e) <=> x \in Nat /\ b <= x /\ x < e
        BY <4>1, SpanElements
      <4>3. e \notin S
        BY <1>1, <1>2, <3>1, <3>3, CoveredIs
      <4>4. ASSUME NEW x \in K, x \in Span(b, e) PROVE x \in tail
        <5>1. x \in Nat /\ b <= x /\ x < e
          BY <4>2, <4>4
        <5>2. ASSUME NEW y \in Span(b, x) PROVE y \in S
          <6>1. y \in Nat /\ b <= y /\ y < x
            BY <5>1, SpanElements
          <6>2. set[m].start <= y /\ y < set[m].end
            BY <1>5, <3>3, <4>1, <5>1, <6>1
          <6> QED
            BY <1>1, <1>2, <3>1, <6>1, <6>2, CoveredIs
        <5> QED
          BY <3>7, <5>1, <5>2
      <4>5. ASSUME NEW x \in K, x \in tail PROVE x \in Span(b, e)
        <5>1. x \in S /\ x \in Nat /\ b <= x /\ Span(b, x) \subseteq S
          BY <1>2, <1>3, <3>7, <4>5
        <5>2. CASE e < x
          <6>1. e \in Span(b, x)
            BY <4>1, <5>1, <5>2, SpanElements
          <6> QED
            BY <4>3, <5>1, <6>1
        <5>3. CASE e = x
          BY <4>3, <5>1, <5>3
        <5> QED
          BY <4>1, <4>2, <5>1, <5>2, <5>3
      <4> QED
        BY <4>4, <4>5
    <3> QED
      BY <1>2, <3>4, <3>5, <3>8, <3>9
  <2> QED
    BY <2>6, <2>7
<1> QED
  BY <1>4, <1>5

------------------------------------------------------------------------------
(* The walk of mark_lost over the gaps between the acknowledged ranges.    *)

\* The bytes of [a, b) that are to be recorded.
ToRecord(a, b) == Span(a, b) \ Covered(acked_ranges)

\* The bytes before the cursor are recorded, and found room.
RecordedUpTo(lost, c, a, b) ==
  /\ Merged(lost) /\ Len(lost) <= MaxRanges
  /\ c \in Nat /\ a <= c /\ (c = a \/ c - 1 \in Covered(acked_ranges))
  /\ Covered(lost) = Covered(lost_ranges) \cup {x \in ToRecord(a, b) : x < c}
  /\ \A r \in Misfits(Covered(lost_ranges), ToRecord(a, b), MaxRanges) : c <= r

\* One gap, from the cursor to the next acknowledged range or to b.
LEMMA GapIs ==
  ASSUME NEW a \in Nat, NEW b \in Nat, NEW lost, NEW c,
         Merged(acked_ranges), RecordedUpTo(lost, c, a, b),
         NEW stop \in Nat, c < stop, stop <= b,
         Span(c, stop) \cap Covered(acked_ranges) = {},
         stop = b \/ stop \in Covered(acked_ranges)
  PROVE  /\ InsertOk(lost, c, stop) <=>
              c \notin Misfits(Covered(lost_ranges), ToRecord(a, b), MaxRanges)
         /\ InsertOk(lost, c, stop) =>
              /\ Merged(InsertRange(lost, c, stop)) /\ Len(InsertRange(lost, c, stop)) <= MaxRanges
              /\ Covered(InsertRange(lost, c, stop))
                   = Covered(lost_ranges) \cup {x \in ToRecord(a, b) : x < stop}
              /\ \A r \in Misfits(Covered(lost_ranges), ToRecord(a, b), MaxRanges) : stop <= r
<1>1. PICK S, A, new, bad :
        /\ S = Covered(lost_ranges) /\ A = Covered(acked_ranges) /\ new = ToRecord(a, b)
        /\ bad = Misfits(Covered(lost_ranges), ToRecord(a, b), MaxRanges)
  OBVIOUS
<1>2. /\ Merged(lost) /\ Len(lost) <= MaxRanges
      /\ c \in Nat /\ a <= c /\ (c = a \/ c - 1 \in A)
      /\ Covered(lost) = S \cup {x \in new : x < c}
      /\ \A r \in bad : c <= r
  BY <1>1 DEF RecordedUpTo
<1>3. \A x : x \in new <=> x \in Nat /\ a <= x /\ x < b /\ x \notin A
  BY <1>1, SpanElements DEF ToRecord
<1>4. \A x : x \in Span(c, stop) <=> x \in Nat /\ c <= x /\ x < stop
  BY <1>2, SpanElements
<1>5. \A x \in Span(c, stop) : x \in new
  BY <1>1, <1>2, <1>3, <1>4
<1>6. c \in new /\ stop \notin new
  BY <1>1, <1>2, <1>3, <1>4, <1>5
<1>7. ASSUME NEW y \in new, y + 1 = c PROVE FALSE
  <2>1. y = c - 1 /\ a <= y /\ y \notin A
    BY <1>2, <1>3, <1>7
  <2> QED
    BY <1>2, <2>1
<1>8. c \in RunStarts(new)
  BY <1>6, <1>7 DEF RunStarts
\* The gap is the run that starts at the cursor.
<1>9. {x \in new : x <= c \/ Span(c, x) \subseteq new} = {x \in new : x < c} \cup Span(c, stop)
  <2>1. ASSUME NEW x \in new, x <= c \/ Span(c, x) \subseteq new, ~ (x < c)
        PROVE  x \in Span(c, stop)
    <3>1. x \in Nat /\ c <= x /\ x # stop
      BY <1>2, <1>3, <1>6, <2>1
    <3>2. CASE stop < x
      <4>1. \A z : z \in Span(c, x) <=> z \in Nat /\ c <= z /\ z < x
        BY <1>2, <3>1, SpanElements
      <4>2. stop \in Span(c, x)
        BY <1>2, <3>1, <3>2, <4>1
      <4> QED
        BY <1>2, <1>6, <2>1, <3>1, <3>2, <4>2
    <3> QED
      BY <1>4, <3>1, <3>2
  <2>2. ASSUME NEW x \in Span(c, stop)
        PROVE  x \in new /\ Span(c, x) \subseteq new
    <3>1. x \in Nat /\ c <= x /\ x < stop
      BY <1>4
    <3>2. \A z : z \in Span(c, x) <=> z \in Nat /\ c <= z /\ z < x
      BY <1>2, <3>1, SpanElements
    <3>3. \A z \in Span(c, x) : z \in Span(c, stop)
      BY <1>2, <1>4, <3>1, <3>2
    <3> QED
      BY <1>5, <3>3
  <2>3. \A x \in new : x < c => x <= c
    BY <1>2, <1>3
  <2> QED
    BY <2>1, <2>2, <2>3
<1>10. c \in bad <=> ~ RangeInsertFits(Covered(lost), Span(c, stop), MaxRanges)
  <2>1. c \in bad <=>
          ~ RangeInsertFits(S, {x \in new : x <= c \/ Span(c, x) \subseteq new}, MaxRanges)
    BY <1>1, <1>8 DEF Misfits
  <2>2. S \cup {x \in new : x <= c \/ Span(c, x) \subseteq new} = Covered(lost) \cup Span(c, stop)
    BY <1>2, <1>9
  <2> QED
    BY <2>1, <2>2 DEF RangeInsertFits
<1>11. PICK e : e = InsertRange(lost, c, stop)
  OBVIOUS
<1>12. /\ InsertOk(lost, c, stop) <=> RangeInsertFits(Covered(lost), Span(c, stop), MaxRanges)
       /\ Merged(e) /\ Len(e) <= MaxRanges
       /\ InsertOk(lost, c, stop) => Covered(e) = Covered(lost) \cup Span(c, stop)
  <2>1. InsertsLikeSet(e, lost, c, stop)
    BY ONLY <1>2, <1>11, stop \in Nat, InsertIs
  <2> QED
    BY <2>1 DEF InsertsLikeSet
<1>13. {x \in new : x < c} \cup Span(c, stop) = {x \in new : x < stop}
  <2>1. \A x \in Span(c, stop) : x < stop
    BY <1>4
  <2>2. \A x \in new : x < stop => x < c \/ x \in Span(c, stop)
    BY <1>2, <1>3, <1>4
  <2>3. \A x \in new : x < c => x < stop
    BY <1>2, <1>3
  <2> QED
    BY <1>5, <2>1, <2>2, <2>3
<1>14. ASSUME c \notin bad, NEW r \in bad PROVE stop <= r
  <2>1. r \in RunStarts(new)
    BY <1>1 DEF Misfits
  <2>2. r \in new /\ r \in Nat /\ \A y \in new : y + 1 # r
    BY <1>3, <2>1 DEF RunStarts
  <2>3. c <= r /\ r # c
    BY <1>2, <1>14
  <2>4. CASE r < stop
    <3>1. r - 1 \in Nat /\ c <= r - 1 /\ r - 1 < stop /\ (r - 1) + 1 = r
      BY <1>2, <2>2, <2>3, <2>4
    <3>2. r - 1 \in new
      BY <1>4, <1>5, <3>1
    <3> QED
      BY <2>2, <3>1, <3>2
  <2> QED
    BY <2>2, <2>4
<1>15. InsertOk(lost, c, stop) => Covered(e) = S \cup {x \in new : x < stop}
  BY <1>2, <1>12, <1>13
<1> QED
  BY <1>1, <1>10, <1>11, <1>12, <1>14, <1>15

\* The cursor may move to the end of an acknowledged range that holds it.
LEMMA Advance ==
  ASSUME NEW a \in Nat, NEW b \in Nat, NEW lost, NEW c \in Nat, a <= c,
         Merged(acked_ranges), Merged(lost), Len(lost) <= MaxRanges,
         Covered(lost) = Covered(lost_ranges) \cup {x \in ToRecord(a, b) : x < c},
         \A r \in Misfits(Covered(lost_ranges), ToRecord(a, b), MaxRanges) : c <= r,
         NEW i \in 1 .. Len(acked_ranges),
         acked_ranges[i].start <= c, c <= acked_ranges[i].end
  PROVE  RecordedUpTo(lost, acked_ranges[i].end, a, b)
<1>1. PICK s, e, new : /\ s = acked_ranges[i].start /\ e = acked_ranges[i].end
                       /\ new = ToRecord(a, b)
  OBVIOUS
<1>2. s \in Nat /\ e \in Nat /\ s < e /\ s <= c /\ c <= e
  BY <1>1, MergedIs
<1>3. \A x \in Nat : s <= x /\ x < e => x \in Covered(acked_ranges)
  BY <1>1, CoveredIs
<1>4. \A x \in new : x \in Nat /\ x \notin Covered(acked_ranges)
  BY <1>1, SpanElements DEF ToRecord
<1>5. \A x \in new : x < e <=> x < c
  <2> SUFFICES ASSUME NEW x \in new PROVE x < e <=> x < c
    OBVIOUS
  <2>1. x \in Nat /\ ~ (s <= x /\ x < e)
    BY <1>3, <1>4
  <2> QED
    BY <1>2, <2>1
<1>6. {x \in new : x < c} = {x \in new : x < e}
  BY <1>5
<1>7. \A r \in Misfits(Covered(lost_ranges), new, MaxRanges) : e <= r
  <2> SUFFICES ASSUME NEW r \in Misfits(Covered(lost_ranges), new, MaxRanges) PROVE e <= r
    OBVIOUS
  <2>1. r \in new
    BY DEF Misfits, RunStarts
  <2>2. r \in Nat /\ ~ (r < c)
    BY <1>1, <1>4, <2>1
  <2>3. ~ (r < e)
    BY <1>5, <2>1, <2>2
  <2> QED
    BY <1>2, <2>2, <2>3
<1>8. e - 1 \in Covered(acked_ranges)
  <2>1. e - 1 \in Nat /\ s <= e - 1 /\ e - 1 < e
    BY <1>2
  <2> QED
    BY <1>3, <2>1
<1> QED
  BY <1>1, <1>2, <1>6, <1>7, <1>8 DEF RecordedUpTo

\* The state of the walk after i acknowledged ranges.
Walks(i, a, b) ==
  {w \in [cursor : Nat, lost : Seq(ByteRange), ok : BOOLEAN] :
     /\ RecordedUpTo(w.lost, w.cursor, a, b)
     /\ w.ok => \/ b <= w.cursor
                \/ \A j \in 1 .. i : acked_ranges[j].end <= w.cursor \/ b <= acked_ranges[j].start
     /\ ~ w.ok => w.cursor \in Misfits(Covered(lost_ranges), ToRecord(a, b), MaxRanges)}

\* One iteration.
LostStep(w, i, a, b) ==
  LET r    == acked_ranges[i]
      stop == Lower(r.start, b)
  IN  IF ~ w.ok \/ w.cursor >= b \/ r.end <= w.cursor \/ r.start >= b THEN w
      ELSE IF r.start > w.cursor /\ ~ InsertOk(w.lost, w.cursor, stop)
      THEN [w EXCEPT !.ok = FALSE]
      ELSE [w EXCEPT !.cursor = Higher(@, r.end),
                     !.lost = IF r.start > w.cursor
                              THEN InsertRange(@, w.cursor, stop) ELSE @]

LEMMA LostStepKeeps ==
  ASSUME Merged(acked_ranges), NEW a \in Nat, NEW b \in Nat,
         NEW i \in 1 .. Len(acked_ranges), NEW w \in Walks(i - 1, a, b)
  PROVE  LostStep(w, i, a, b) \in Walks(i, a, b)
<1>0. /\ Len(acked_ranges) \in Nat
      /\ \A k \in 1 .. Len(acked_ranges) :
           acked_ranges[k].start \in Nat /\ acked_ranges[k].end \in Nat
      /\ \A k \in 1 .. Len(acked_ranges) : acked_ranges[k].start < acked_ranges[k].end
      /\ \A k, j \in 1 .. Len(acked_ranges) : k < j => acked_ranges[k].end < acked_ranges[j].start
  BY MergedIs
<1>1. PICK c, lost, bad :
        /\ c = w.cursor /\ lost = w.lost
        /\ bad = Misfits(Covered(lost_ranges), ToRecord(a, b), MaxRanges)
  OBVIOUS
<1>2. /\ w \in [cursor : Nat, lost : Seq(ByteRange), ok : BOOLEAN]
      /\ c \in Nat /\ lost \in Seq(ByteRange) /\ w.ok \in BOOLEAN
      /\ RecordedUpTo(lost, c, a, b)
      /\ w.ok => \/ b <= c
                 \/ \A j \in 1 .. i - 1 : acked_ranges[j].end <= c \/ b <= acked_ranges[j].start
      /\ ~ w.ok => c \in bad
  BY <1>1 DEF Walks
<1>3. PICK s, e : s = acked_ranges[i].start /\ e = acked_ranges[i].end
  OBVIOUS
<1>4. s \in Nat /\ e \in Nat /\ s < e
  BY <1>0, <1>3
<1>5. \A j \in 1 .. i : j \in 1 .. i - 1 \/ j = i
  BY <1>0
<1>6. CASE ~ w.ok \/ c >= b \/ e <= c \/ s >= b
  <2>1. LostStep(w, i, a, b) = w
    BY <1>1, <1>3, <1>6 DEF LostStep
  <2>2. w.ok => \/ b <= c
                \/ \A j \in 1 .. i : acked_ranges[j].end <= c \/ b <= acked_ranges[j].start
    BY <1>2, <1>3, <1>4, <1>5, <1>6
  <2> QED
    BY <1>1, <1>2, <2>1, <2>2 DEF Walks
<1>7. CASE ~ (~ w.ok \/ c >= b \/ e <= c \/ s >= b)
  <2>1. w.ok /\ c < b /\ c < e /\ s < b
    BY <1>2, <1>4, <1>7
  <2>2. \A j \in 1 .. i - 1 : acked_ranges[j].end <= c \/ b <= acked_ranges[j].start
    BY <1>2, <2>1
  <2>3. Lower(s, b) = s /\ Higher(c, e) = e
    BY <1>2, <1>4, <2>1 DEF Lower, Higher
  <2>4. \A j \in 1 .. i : acked_ranges[j].end <= e \/ b <= acked_ranges[j].start
    <3> SUFFICES ASSUME NEW j \in 1 .. i
                 PROVE  acked_ranges[j].end <= e \/ b <= acked_ranges[j].start
      OBVIOUS
    <3>1. CASE j = i
      BY <1>3, <1>4, <3>1
    <3>2. CASE j \in 1 .. i - 1
      <4>1. j \in 1 .. Len(acked_ranges)
        BY <1>0
      <4> QED
        BY <1>0, <1>2, <1>4, <2>1, <2>2, <3>2, <4>1
    <3> QED
      BY <1>5, <3>1, <3>2
  <2>5. /\ Merged(lost) /\ Len(lost) <= MaxRanges /\ a <= c
        /\ Covered(lost) = Covered(lost_ranges) \cup {x \in ToRecord(a, b) : x < c}
        /\ \A r \in bad : c <= r
    BY <1>1, <1>2 DEF RecordedUpTo
  <2>6. CASE c < s
    <3>1. Span(c, s) \cap Covered(acked_ranges) = {}
      <4> SUFFICES ASSUME NEW x \in Span(c, s), x \in Covered(acked_ranges) PROVE FALSE
        OBVIOUS
      <4>1. x \in Nat /\ c <= x /\ x < s
        BY <1>2, <1>4, SpanElements
      <4>2. PICK j \in 1 .. Len(acked_ranges) :
              acked_ranges[j].start <= x /\ x < acked_ranges[j].end
        BY CoveredIs
      <4>3. CASE j < i
        <5>1. j \in 1 .. i - 1
          BY <1>0, <4>3
        <5>2. acked_ranges[j].end <= c \/ b <= acked_ranges[j].start
          BY <2>2, <5>1
        <5> QED
          BY <1>0, <1>2, <1>4, <2>1, <4>1, <4>2, <5>2
      <4>4. CASE i <= j
        <5>1. s <= acked_ranges[j].start
          <6>1. CASE i = j
            BY <1>3, <1>4, <6>1
          <6>2. CASE i < j
            <7>1. acked_ranges[i].end < acked_ranges[j].start
              BY <1>0, <6>2
            <7> QED
              BY <1>0, <1>3, <1>4, <7>1
          <6> QED
            BY <1>0, <4>4, <6>1, <6>2
        <5> QED
          BY <1>0, <1>4, <4>1, <4>2, <5>1
      <4> QED
        BY <1>0, <4>3, <4>4
    <3>2. s \in Covered(acked_ranges) /\ s <= b
      BY <1>3, <1>4, <2>1, CoveredIs
    <3>3. /\ InsertOk(lost, c, s) <=> c \notin bad
          /\ InsertOk(lost, c, s) =>
               /\ Merged(InsertRange(lost, c, s)) /\ Len(InsertRange(lost, c, s)) <= MaxRanges
               /\ Covered(InsertRange(lost, c, s))
                    = Covered(lost_ranges) \cup {x \in ToRecord(a, b) : x < s}
               /\ \A r \in bad : s <= r
      BY <1>1, <1>2, <1>4, <2>6, <3>1, <3>2, GapIs
    <3>4. CASE ~ InsertOk(lost, c, s)
      <4>1. LostStep(w, i, a, b) = [w EXCEPT !.ok = FALSE]
        BY <1>1, <1>3, <1>7, <2>3, <2>6, <3>4 DEF LostStep
      <4>2. PICK v : v = [w EXCEPT !.ok = FALSE]
        OBVIOUS
      <4>3. /\ v \in [cursor : Nat, lost : Seq(ByteRange), ok : BOOLEAN]
            /\ v.cursor = c /\ v.lost = lost /\ v.ok = FALSE
        BY <1>1, <1>2, <4>2
      <4>4. v \in Walks(i, a, b)
        BY ONLY <1>1, <1>2, <3>3, <3>4, <4>3 DEF Walks
      <4> QED
        BY <4>1, <4>2, <4>4
    <3>5. CASE InsertOk(lost, c, s)
      <4>1. PICK ins : ins = InsertRange(lost, c, s)
        OBVIOUS
      <4>2. LostStep(w, i, a, b) = [w EXCEPT !.cursor = e, !.lost = ins]
        BY <1>1, <1>3, <1>7, <2>3, <2>6, <3>5, <4>1 DEF LostStep
      <4>3. /\ Merged(ins) /\ Len(ins) <= MaxRanges
            /\ Covered(ins) = Covered(lost_ranges) \cup {x \in ToRecord(a, b) : x < s}
            /\ \A r \in bad : s <= r
        BY <3>3, <3>5, <4>1
      <4>4. a <= s /\ s <= e /\ s <= s
        BY <1>2, <1>4, <2>5, <2>6
      <4>5. RecordedUpTo(ins, e, a, b)
        BY <1>1, <1>3, <1>4, <4>3, <4>4, Advance
      <4>6. PICK v : v = [w EXCEPT !.cursor = e, !.lost = ins]
        OBVIOUS
      <4>7. ins \in Seq(ByteRange)
        BY <4>3 DEF Merged
      <4>8. /\ v \in [cursor : Nat, lost : Seq(ByteRange), ok : BOOLEAN]
            /\ v.cursor = e /\ v.lost = ins /\ v.ok
        BY <1>2, <1>4, <2>1, <4>6, <4>7
      <4>9. v \in Walks(i, a, b)
        BY ONLY <2>4, <4>5, <4>8 DEF Walks
      <4> QED
        BY <4>2, <4>6, <4>9
    <3> QED
      BY <3>4, <3>5
  <2>7. CASE s <= c
    <3>1. LostStep(w, i, a, b) = [w EXCEPT !.cursor = e, !.lost = lost]
      <4>1. ~ (s > c)
        BY <1>2, <1>4, <2>7
      <4> QED
        BY <1>1, <1>3, <1>7, <2>3, <4>1 DEF LostStep
    <3>2. RecordedUpTo(lost, e, a, b)
      <4>1. c <= e
        BY <1>2, <1>4, <2>1
      <4> QED
        BY <1>1, <1>2, <1>3, <2>5, <2>7, <4>1, Advance
    <3>3. PICK v : v = [w EXCEPT !.cursor = e, !.lost = lost]
      OBVIOUS
    <3>4. /\ v \in [cursor : Nat, lost : Seq(ByteRange), ok : BOOLEAN]
          /\ v.cursor = e /\ v.lost = lost /\ v.ok
      BY <1>2, <1>4, <2>1, <3>3
    <3>5. v \in Walks(i, a, b)
      BY ONLY <2>4, <3>2, <3>4 DEF Walks
    <3> QED
      BY <3>1, <3>3, <3>5
  <2> QED
    BY <1>2, <1>4, <2>6, <2>7
<1> QED
  BY <1>6, <1>7


LEMMA LostStarts ==
  ASSUME Merged(lost_ranges), Len(lost_ranges) <= MaxRanges, NEW a \in Nat, NEW b \in Nat,
         NEW base, base = [cursor |-> a, lost |-> lost_ranges, ok |-> TRUE]
  PROVE  base \in Walks(0, a, b)
<1>1. /\ base.cursor = a /\ base.lost = lost_ranges /\ base.ok
      /\ base \in [cursor : Nat, lost : Seq(ByteRange), ok : BOOLEAN]
  BY DEF Merged
<1>2. \A x \in ToRecord(a, b) : x \in Nat /\ a <= x
  BY SpanElements DEF ToRecord
<1>3. {x \in ToRecord(a, b) : x < a} = {}
  BY <1>2
<1>4. \A r \in Misfits(Covered(lost_ranges), ToRecord(a, b), MaxRanges) : a <= r
  BY <1>2 DEF Misfits, RunStarts
<1>5. RecordedUpTo(lost_ranges, a, a, b)
  BY <1>3, <1>4 DEF RecordedUpTo
<1> QED
  BY <1>1, <1>5 DEF Walks

\* The walk visits every acknowledged range.
LEMMA LostWalks ==
  ASSUME Merged(acked_ranges), Merged(lost_ranges), Len(lost_ranges) <= MaxRanges,
         NEW a \in Nat, NEW b \in Nat
  PROVE  LostAfter(a, b) \in Walks(Len(acked_ranges), a, b)
<1> DEFINE n == Len(acked_ranges)
           T == [i \in 0 .. n |-> Walks(i, a, b)]
           base == [cursor |-> a, lost |-> lost_ranges, ok |-> TRUE]
           Loop(f) == f = [i \in 0 .. n |-> IF i = 0 THEN base ELSE LostStep(f[i - 1], i, a, b)]
<1>1. n \in Nat
  BY MergedIs
<1>2. \A i \in 0 .. n : T[i] = Walks(i, a, b)
  OBVIOUS
<1>3. base \in Walks(0, a, b)
  BY LostStarts
<1>4. ASSUME NEW i \in 1 .. n, NEW w \in T[i - 1] PROVE LostStep(w, i, a, b) \in T[i]
  <2>1. i - 1 \in 0 .. n /\ i \in 0 .. n
    BY <1>1
  <2>2. w \in Walks(i - 1, a, b)
    BY <1>2, <2>1
  <2>3. LostStep(w, i, a, b) \in Walks(i, a, b)
    BY <2>2, LostStepKeeps
  <2> QED
    BY <1>2, <2>1, <2>3
<1>5. PICK first : first = base
  OBVIOUS
<1>6. LostAfter(a, b) = (CHOOSE f : Loop(f))[n]
  BY DEF LostAfter, LostStep
<1> HIDE DEF T, n, base
<1>7. \E f : Loop(f)
  <2> DEFINE step == [i \in 1 .. n |-> [w \in T[i - 1] |-> LostStep(w, i, a, b)]]
  <2>1. \A i \in 1 .. n : \A w \in T[i - 1] : step[i][w] = LostStep(w, i, a, b)
    OBVIOUS
  <2>2. \A i \in 1 .. n : step[i] \in [T[i - 1] -> T[i]]
    BY <1>4
  <2>3. base \in T[0]
    BY <1>1, <1>2, <1>3
  <2> HIDE DEF step
  <2>4. Steps(T, base, n, step)
    BY <1>1, <2>2, <2>3 DEF Steps
  <2>5. PICK f : Follows(f, T, base, n, step)
    BY <2>4, RecursionExists
  <2>6. ASSUME NEW i \in 0 .. n
        PROVE  f[i] = IF i = 0 THEN base ELSE LostStep(f[i - 1], i, a, b)
    <3>1. CASE i = 0
      BY <2>5, <3>1 DEF Follows
    <3>2. CASE i # 0
      <4>1. i \in 1 .. n /\ i - 1 \in 0 .. n
        BY <1>1, <3>2
      <4>2. f[i - 1] \in T[i - 1]
        BY <2>5, <4>1 DEF Follows
      <4> QED
        BY <2>1, <2>5, <3>2, <4>1, <4>2 DEF Follows
    <3> QED
      BY <3>1, <3>2
  <2>7. Loop(f)
    BY <2>5, <2>6 DEF Follows
  <2> QED
    BY <2>7
<1>8. PICK g : g = (CHOOSE f : Loop(f))
  OBVIOUS
<1>9. Loop(g)
  <2> HIDE DEF Loop
  <2> QED
    BY <1>7, <1>8
<1> DEFINE S == {i \in 0 .. n : g[i] \in T[i]}
<1>10. 0 \in S
  BY <1>1, <1>2, <1>3, <1>9
<1>11. \A i \in 1 .. n : i - 1 \in S => i \in S
  <2> SUFFICES ASSUME NEW i \in 1 .. n, i - 1 \in S PROVE i \in S
    OBVIOUS
  <2>1. g[i] = LostStep(g[i - 1], i, a, b) /\ i \in 0 .. n
    BY <1>1, <1>9
  <2>2. g[i - 1] \in T[i - 1]
    OBVIOUS
  <2> QED
    BY <1>4, <2>1, <2>2
<1> HIDE DEF S
<1>12. 0 .. n \subseteq S
  BY <1>1, <1>10, <1>11, InductionUpTo
<1>13. g[n] \in T[n]
  BY <1>1, <1>12 DEF S
<1>14. g[n] \in Walks(n, a, b)
  BY <1>1, <1>2, <1>13
<1> QED
  BY <1>6, <1>8, <1>14 DEF n

\* The bytes of a lost range that were not acknowledged are recorded, up to the
\* first gap that finds no slot.
LEMMA LostIs ==
  ASSUME Merged(acked_ranges), Merged(lost_ranges), Len(lost_ranges) <= MaxRanges,
         NEW a \in Nat, NEW b \in Nat, a <= b, MarkLost(a, b)
  PROVE  /\ Merged(lost_ranges') /\ Len(lost_ranges') <= MaxRanges
         /\ Covered(lost_ranges')
              = RangeInsertRuns(Covered(lost_ranges), ToRecord(a, b), MaxRanges)
<1>1. PICK w, c, lost, S, new, bad, res :
        /\ w = LostAfter(a, b) /\ c = w.cursor /\ lost = w.lost
        /\ S = Covered(lost_ranges) /\ new = ToRecord(a, b) /\ bad = Misfits(S, new, MaxRanges)
        /\ res = lost_ranges'
  OBVIOUS
<1>2. /\ w.ok \in BOOLEAN /\ RecordedUpTo(lost, c, a, b)
      /\ w.ok => \/ b <= c
                 \/ \A j \in 1 .. Len(acked_ranges) :
                      acked_ranges[j].end <= c \/ b <= acked_ranges[j].start
      /\ ~ w.ok => c \in bad
  <2>1. w \in Walks(Len(acked_ranges), a, b)
    BY <1>1, LostWalks
  <2> QED
    BY <1>1, <2>1 DEF Walks
<1>3. /\ Merged(lost) /\ Len(lost) <= MaxRanges /\ c \in Nat /\ a <= c
      /\ Covered(lost) = S \cup {x \in new : x < c}
      /\ \A r \in bad : c <= r
  BY <1>1, <1>2 DEF RecordedUpTo
<1>4. \A x : x \in new <=> x \in Nat /\ a <= x /\ x < b /\ x \notin Covered(acked_ranges)
  BY <1>1, SpanElements DEF ToRecord
<1>5. bad \subseteq new
  BY <1>1 DEF Misfits, RunStarts
<1>6. RangeInsertRuns(S, new, MaxRanges) = S \cup {x \in new : \A r \in bad : x < r}
  BY <1>1 DEF RangeInsertRuns
<1>7. res = IF w.ok THEN InsertRange(lost, c, b) ELSE lost
  BY <1>1 DEF MarkLost
\* A gap found no slot: the cursor is where it starts.
<1>8. ASSUME c \in bad PROVE {x \in new : \A r \in bad : x < r} = {x \in new : x < c}
  <2>1. ASSUME NEW x \in new, x < c, NEW r \in bad PROVE x < r
    <3>1. x \in Nat /\ r \in Nat /\ c <= r
      BY <1>3, <1>4, <1>5
    <3> QED
      BY <1>3, <2>1, <3>1
  <2> QED
    BY <1>8, <2>1
<1>9. CASE ~ w.ok
  <2>1. res = lost /\ c \in bad
    BY <1>2, <1>7, <1>9
  <2> QED
    BY <1>1, <1>3, <1>6, <1>8, <2>1
<1>10. CASE w.ok /\ b <= c
  <2>1. res = lost
    <3>1. res = InsertRange(lost, c, b) /\ c >= b
      BY <1>3, <1>7, <1>10
    <3> QED
      BY <3>1 DEF InsertRange
  <2>2. bad = {}
    <3> SUFFICES ASSUME NEW r \in bad PROVE FALSE
      OBVIOUS
    <3>1. r \in Nat /\ c <= r /\ r < b
      BY <1>3, <1>4, <1>5
    <3> QED
      BY <1>3, <1>10, <3>1
  <2>3. \A x \in new : x < c
    BY <1>3, <1>4, <1>10
  <2>4. {x \in new : \A r \in bad : x < r} = {x \in new : x < c}
    BY <2>2, <2>3
  <2> QED
    BY <1>1, <1>3, <1>6, <2>1, <2>4
\* The last gap runs to b.
<1>11. CASE w.ok /\ ~ (b <= c)
  <2>1. res = InsertRange(lost, c, b) /\ c < b /\ b <= b
    BY <1>3, <1>7, <1>11
  <2>2. \A j \in 1 .. Len(acked_ranges) : acked_ranges[j].end <= c \/ b <= acked_ranges[j].start
    BY <1>2, <1>11
  <2>3. Span(c, b) \cap Covered(acked_ranges) = {}
    <3> SUFFICES ASSUME NEW x \in Span(c, b), x \in Covered(acked_ranges) PROVE FALSE
      OBVIOUS
    <3>1. x \in Nat /\ c <= x /\ x < b
      BY <1>3, SpanElements
    <3>2. PICK j \in 1 .. Len(acked_ranges) : acked_ranges[j].start <= x /\ x < acked_ranges[j].end
      BY CoveredIs
    <3>3. acked_ranges[j].start \in Nat /\ acked_ranges[j].end \in Nat
      BY MergedIs
    <3> QED
      BY <1>3, <2>2, <3>1, <3>2, <3>3
  <2>4. /\ InsertOk(lost, c, b) <=> c \notin bad
        /\ InsertOk(lost, c, b) =>
             /\ Merged(res) /\ Len(res) <= MaxRanges
             /\ Covered(res) = S \cup {x \in new : x < b}
             /\ \A r \in bad : b <= r
    BY <1>1, <1>2, <1>3, <2>1, <2>3, GapIs
  <2>5. CASE InsertOk(lost, c, b)
    <3>1. \A r \in bad : b <= r
      BY <2>4, <2>5
    <3>2. \A x \in new : x < b /\ \A r \in bad : x < r
      <4> SUFFICES ASSUME NEW x \in new PROVE x < b /\ \A r \in bad : x < r
        OBVIOUS
      <4>1. x < b /\ x \in Nat /\ \A r \in bad : r \in Nat
        BY <1>4, <1>5
      <4> QED
        BY <3>1, <4>1
    <3>3. {x \in new : \A r \in bad : x < r} = {x \in new : x < b}
      BY <3>2
    <3> QED
      BY <1>1, <1>6, <2>4, <2>5, <3>3
  <2>6. CASE ~ InsertOk(lost, c, b)
    <3>1. InsertsLikeSet(res, lost, c, b)
      BY ONLY <1>3, <2>1, InsertIs, b \in Nat
    <3>2. res = lost /\ c \in bad
      BY <2>4, <2>6, <3>1 DEF InsertsLikeSet
    <3> QED
      BY <1>1, <1>3, <1>6, <1>8, <3>2
  <2> QED
    BY <2>5, <2>6
<1> QED
  BY <1>2, <1>9, <1>10, <1>11

------------------------------------------------------------------------------
(* The arrays together.                                                    *)

\* An array of merged ranges within the stream that fits its slots.
ArrayOK(set) ==
  Merged(set) /\ Len(set) <= MaxRanges /\ Covered(set) \subseteq Span(0, Length)

IndInv ==
  /\ ArrayOK(acked_ranges)
  /\ ArrayOK(lost_ranges)
  /\ LostNotAcked

LEMMA RemoveBounds ==
  ASSUME NEW S, NEW a, NEW b, NEW cap
  PROVE  RangeRemove(S, a, b, cap) \subseteq S \ Span(a, b)
BY DEF RangeRemove

\* What each call does to the sets.
AckedLikeSet(a, b) ==
  IF RangeInsertFits(Covered(acked_ranges), Span(a, b), MaxRanges)
  THEN /\ Covered(acked_ranges') = Covered(acked_ranges) \cup Span(a, b)
       /\ Covered(lost_ranges') = RangeRemove(Covered(lost_ranges), a, b, MaxRanges)
  ELSE UNCHANGED rangeVars

LostLikeSet(a, b) ==
  /\ Covered(lost_ranges') = RangeInsertRuns(Covered(lost_ranges), ToRecord(a, b), MaxRanges)
  /\ UNCHANGED acked_ranges

PopsLikeSet(a, b) ==
  /\ FrontOf(Covered(lost_ranges), ChunkLen, a, b)
  /\ Covered(lost_ranges') = RangeRemove(Covered(lost_ranges), a, b, MaxRanges)
  /\ UNCHANGED acked_ranges

LEMMA AckedKeeps ==
  ASSUME IndInv, NEW a \in 0 .. Length, NEW b \in a .. Length, MarkAcked(a, b)
  PROVE  IndInv' /\ AckedLikeSet(a, b)
<1>1. /\ Merged(acked_ranges) /\ Len(acked_ranges) <= MaxRanges
      /\ Merged(lost_ranges) /\ Len(lost_ranges) <= MaxRanges
      /\ Covered(acked_ranges) \subseteq Span(0, Length)
      /\ Covered(lost_ranges) \subseteq Span(0, Length)
      /\ Covered(lost_ranges) \cap Covered(acked_ranges) = {}
  BY DEF IndInv, ArrayOK, LostNotAcked
<1>2. a \in Nat /\ b \in Nat /\ Length \in Nat /\ b <= Length
  BY RangeListAssumption
<1>3. PICK A, L : A = acked_ranges' /\ L = lost_ranges'
  OBVIOUS
<1>4. PICK r : r = InsertRange(acked_ranges, a, b)
  OBVIOUS
<1>5. InsertsLikeSet(r, acked_ranges, a, b)
  BY ONLY <1>1, <1>2, <1>4, InsertIs
<1>6. CASE InsertOk(acked_ranges, a, b)
  <2>1. A = r /\ L = RemoveRange(lost_ranges, a, b)
    BY <1>3, <1>4, <1>6 DEF MarkAcked
  <2>2. /\ RangeInsertFits(Covered(acked_ranges), Span(a, b), MaxRanges)
        /\ Merged(A) /\ Len(A) <= MaxRanges
        /\ Covered(A) = Covered(acked_ranges) \cup Span(a, b)
    BY <1>5, <1>6, <2>1 DEF InsertsLikeSet
  <2>3. /\ Merged(L) /\ Len(L) <= MaxRanges
        /\ Covered(L) = RangeRemove(Covered(lost_ranges), a, b, MaxRanges)
    BY ONLY <1>1, <1>2, <2>1, RemoveIs
  <2>4. Covered(L) \subseteq Covered(lost_ranges) \ Span(a, b)
    BY <2>3, RemoveBounds
  <2>5. Span(a, b) \subseteq Span(0, Length)
    <3> SUFFICES ASSUME NEW x \in Span(a, b) PROVE x \in Span(0, Length)
      OBVIOUS
    <3>1. x \in Nat /\ a <= x /\ x < b
      BY <1>2, SpanElements
    <3> QED
      BY <1>2, <3>1, SpanElements
  <2>6. ArrayOK(A) /\ ArrayOK(L) /\ Covered(L) \cap Covered(A) = {}
    BY <1>1, <2>2, <2>3, <2>4, <2>5 DEF ArrayOK
  <2>7. IndInv'
    BY <1>3, <2>6 DEF IndInv, LostNotAcked, ArrayOK
  <2> QED
    BY <1>3, <2>2, <2>3, <2>7 DEF AckedLikeSet
<1>7. CASE ~ InsertOk(acked_ranges, a, b)
  <2>1. UNCHANGED rangeVars
    BY <1>7 DEF MarkAcked
  <2>2. ~ RangeInsertFits(Covered(acked_ranges), Span(a, b), MaxRanges)
    BY <1>5, <1>7 DEF InsertsLikeSet
  <2>3. IndInv'
    BY <2>1 DEF IndInv, ArrayOK, LostNotAcked, rangeVars
  <2> QED
    BY <2>1, <2>2, <2>3 DEF AckedLikeSet
<1> QED
  BY <1>6, <1>7

LEMMA LostKeeps ==
  ASSUME IndInv, NEW a \in 0 .. Length, NEW b \in a .. Length, MarkLost(a, b)
  PROVE  IndInv' /\ LostLikeSet(a, b)
<1>1. /\ Merged(acked_ranges) /\ Len(acked_ranges) <= MaxRanges
      /\ Merged(lost_ranges) /\ Len(lost_ranges) <= MaxRanges
      /\ Covered(acked_ranges) \subseteq Span(0, Length)
      /\ Covered(lost_ranges) \subseteq Span(0, Length)
      /\ Covered(lost_ranges) \cap Covered(acked_ranges) = {}
  BY DEF IndInv, ArrayOK, LostNotAcked
<1>2. a \in Nat /\ b \in Nat /\ a <= b /\ Length \in Nat /\ b <= Length
  BY RangeListAssumption
<1>3. PICK L : L = lost_ranges'
  OBVIOUS
<1>4. /\ Merged(L) /\ Len(L) <= MaxRanges
      /\ Covered(L) = RangeInsertRuns(Covered(lost_ranges), ToRecord(a, b), MaxRanges)
  BY <1>1, <1>2, <1>3, LostIs
<1>5. Covered(L) \subseteq Covered(lost_ranges) \cup ToRecord(a, b)
  BY <1>4, InsertRunsBounds
<1>6. ToRecord(a, b) \subseteq Span(0, Length) \ Covered(acked_ranges)
  <2> SUFFICES ASSUME NEW x \in ToRecord(a, b)
               PROVE  x \in Span(0, Length) /\ x \notin Covered(acked_ranges)
    OBVIOUS
  <2>1. x \in Nat /\ a <= x /\ x < b /\ x \notin Covered(acked_ranges)
    BY <1>2, SpanElements DEF ToRecord
  <2> QED
    BY <1>2, <2>1, SpanElements
<1>7. ArrayOK(L) /\ Covered(L) \cap Covered(acked_ranges) = {}
  BY <1>1, <1>4, <1>5, <1>6 DEF ArrayOK
<1>8. acked_ranges' = acked_ranges
  BY DEF MarkLost
<1>9. IndInv'
  BY <1>3, <1>7, <1>8 DEF IndInv, LostNotAcked, ArrayOK
<1> QED
  BY <1>3, <1>4, <1>8, <1>9 DEF LostLikeSet

LEMMA PopKeeps ==
  ASSUME IndInv, PopLost
  PROVE  IndInv' /\ \E a \in 0 .. Length : \E b \in a .. Length : PopsLikeSet(a, b)
<1>1. /\ Merged(lost_ranges) /\ Len(lost_ranges) <= MaxRanges
      /\ Covered(lost_ranges) \subseteq Span(0, Length)
      /\ Covered(lost_ranges) \cap Covered(acked_ranges) = {}
  BY DEF IndInv, ArrayOK, LostNotAcked
<1>2. PICK S, L, a, e, b :
        /\ S = Covered(lost_ranges) /\ L = lost_ranges'
        /\ a = lost_ranges[1].start /\ e = lost_ranges[1].end /\ b = Lower(a + ChunkLen, e)
  OBVIOUS
<1>3. lost_ranges # <<>> /\ L = RemoveRange(lost_ranges, a, b) /\ acked_ranges' = acked_ranges
  BY <1>2 DEF PopLost
<1>4. Len(lost_ranges) \in Nat /\ 1 \in 1 .. Len(lost_ranges)
  BY <1>1, <1>3, MergedIs
<1>5. a \in Nat /\ e \in Nat /\ a < e /\ Length \in Nat /\ ChunkLen \in Nat /\ ChunkLen > 0
  BY <1>1, <1>2, <1>4, MergedIs, RangeListAssumption
<1>6. /\ b \in Nat /\ a < b /\ b <= e /\ b <= a + ChunkLen
      /\ b = a + ChunkLen \/ b = e
  BY <1>2, <1>5 DEF Lower
<1>7. \A x \in Nat : a <= x /\ x < e => x \in S
  BY <1>1, <1>2, <1>4, CoveredIs
<1>8. a \in S /\ e \notin S
  BY <1>1, <1>2, <1>4, CoveredIs
<1>9. \A x \in S : a <= x
  <2> SUFFICES ASSUME NEW x \in S PROVE a <= x
    OBVIOUS
  <2>1. PICK i \in 1 .. Len(lost_ranges) :
          x \in Nat /\ lost_ranges[i].start <= x /\ x < lost_ranges[i].end
    BY <1>1, <1>2, CoveredIs
  <2>2. lost_ranges[i].start \in Nat /\ (i # 1 => e < lost_ranges[i].start)
    BY <1>1, <1>2, <1>4, MergedIs
  <2> QED
    BY <1>2, <1>5, <2>1, <2>2
<1>10. Span(a, b) \subseteq S
  <2> SUFFICES ASSUME NEW x \in Span(a, b) PROVE x \in S
    OBVIOUS
  <2>1. x \in Nat /\ a <= x /\ x < b
    BY <1>5, <1>6, SpanElements
  <2> QED
    BY <1>5, <1>6, <1>7, <2>1
<1>11. FrontOf(S, ChunkLen, a, b)
  BY <1>6, <1>8, <1>9, <1>10 DEF FrontOf
<1>12. a \in 0 .. Length /\ b \in a .. Length
  <2>1. b - 1 \in Nat /\ a <= b - 1 /\ b - 1 < e
    BY <1>5, <1>6
  <2>2. b - 1 \in Span(0, Length)
    BY <1>1, <1>2, <1>7, <2>1
  <2>3. b - 1 < Length
    BY <1>5, <2>2, SpanElements
  <2> QED
    BY <1>5, <1>6, <2>3
<1>13. /\ Merged(L) /\ Len(L) <= MaxRanges
       /\ Covered(L) = RangeRemove(S, a, b, MaxRanges)
  BY ONLY <1>1, <1>2, <1>3, <1>5, <1>6, RemoveIs
<1>14. Covered(L) \subseteq S
  BY <1>13, RemoveBounds
<1>15. ArrayOK(L) /\ Covered(L) \cap Covered(acked_ranges) = {}
  BY <1>1, <1>2, <1>13, <1>14 DEF ArrayOK
<1>16. IndInv'
  BY <1>2, <1>3, <1>15 DEF IndInv, LostNotAcked, ArrayOK
<1>17. PopsLikeSet(a, b)
  BY <1>2, <1>3, <1>11, <1>13 DEF PopsLikeSet
<1> QED
  BY <1>12, <1>16, <1>17

LEMMA InitIs == Init => IndInv
<1> SUFFICES ASSUME Init PROVE IndInv
  OBVIOUS
<1>1. acked_ranges = <<>> /\ lost_ranges = <<>>
  BY DEF Init
<1>2. PICK none : none = <<>>
  OBVIOUS
<1>3. Merged(none) /\ Covered(none) = {} /\ Len(none) <= MaxRanges
  BY <1>2, NothingMerged, RangeListAssumption
<1>4. ArrayOK(none)
  BY <1>3 DEF ArrayOK
<1> QED
  BY <1>1, <1>2, <1>3, <1>4 DEF IndInv, LostNotAcked

LEMMA NextKeeps == IndInv /\ [Next]_rangeVars => IndInv'
<1> SUFFICES ASSUME IndInv, [Next]_rangeVars PROVE IndInv'
  OBVIOUS
<1>1. ASSUME NEW a \in Offsets, NEW b \in a .. Length, MarkAcked(a, b) PROVE IndInv'
  BY <1>1, AckedKeeps DEF Offsets
<1>2. ASSUME NEW a \in Offsets, NEW b \in a .. Length, MarkLost(a, b) PROVE IndInv'
  BY <1>2, LostKeeps DEF Offsets
<1>3. CASE PopLost
  BY <1>3, PopKeeps
<1>4. CASE UNCHANGED rangeVars
  BY <1>4 DEF IndInv, ArrayOK, LostNotAcked, rangeVars
<1> QED
  BY <1>1, <1>2, <1>3, <1>4 DEF Next

\* The inductive invariant of the two arrays.
THEOREM ArraysOK == Spec => []IndInv
BY InitIs, NextKeeps, PTL DEF Spec

\* The arrays keep within their slots, sorted and with a gap between any two
\* ranges, through insertions that swallow ranges and removals that cut them
\* (ai_quic_stream_range_insert, ai_quic_stream_range_remove).
THEOREM AlwaysMerged == Spec => []RangesWF
<1>1. IndInv => RangesWF
  <2> SUFFICES ASSUME IndInv, NEW set \in {acked_ranges, lost_ranges}
               PROVE  /\ Len(set) <= MaxRanges
                      /\ \A i \in DOMAIN set : set[i].start < set[i].end
                      /\ \A i \in 1 .. Len(set) - 1 : set[i].end < set[i + 1].start
    BY DEF RangesWF
  <2>1. Merged(set) /\ Len(set) <= MaxRanges
    BY DEF IndInv, ArrayOK
  <2>2. /\ Len(set) \in Nat /\ DOMAIN set = 1 .. Len(set)
        /\ \A k \in 1 .. Len(set) : set[k].start < set[k].end
        /\ \A i, j \in 1 .. Len(set) : i < j => set[i].end < set[j].start
    BY <2>1, MergedIs
  <2> QED
    BY <2>1, <2>2
<1> QED
  BY <1>1, ArraysOK, PTL

\* No offset is both acknowledged and waiting to be sent again, whatever the
\* order of acknowledgements and losses and whichever table is full
\* (ai_quic_stream_mark_acked, ai_quic_stream_mark_lost).
THEOREM NeverBoth == Spec => []LostNotAcked
<1>1. IndInv => LostNotAcked
  BY DEF IndInv
<1> QED
  BY <1>1, ArraysOK, PTL

------------------------------------------------------------------------------
(* The abstract specification.                                             *)

LEMMA SameSets ==
  /\ \A a, b : Sets!Span(a, b) = Span(a, b)
  /\ \A S : Sets!RangeCount(S) = RangeCount(S)
  /\ \A S, new, cap : Sets!RangeInsertFits(S, new, cap) = RangeInsertFits(S, new, cap)
  /\ \A S, a, b, cap : Sets!RangeRemove(S, a, b, cap) = RangeRemove(S, a, b, cap)
  /\ \A S, new, cap : Sets!RangeInsertRuns(S, new, cap) = RangeInsertRuns(S, new, cap)
  /\ \A S, len, a, b : Sets!FrontOf(S, len, a, b) = FrontOf(S, len, a, b)
<1>1. \A a, b : Sets!Span(a, b) = Span(a, b)
  BY DEF Sets!Span, Span
<1>2. \A S : Sets!RunStarts(S) = RunStarts(S)
  BY DEF Sets!RunStarts, RunStarts
<1>3. \A S : Sets!RangeCount(S) = RangeCount(S)
  <2>1. \A S : Sets!Cardinality(S) = Cardinality(S)
    BY DEF Sets!Cardinality, Cardinality
  <2> QED
    BY <1>2, <2>1 DEF Sets!RangeCount, RangeCount
<1>4. \A S, new, cap : Sets!RangeInsertFits(S, new, cap) = RangeInsertFits(S, new, cap)
  BY <1>3 DEF Sets!RangeInsertFits, RangeInsertFits
<1>5. \A S, a, b, cap : Sets!RangeRemove(S, a, b, cap) = RangeRemove(S, a, b, cap)
  <2> SUFFICES ASSUME NEW S, NEW a, NEW b, NEW cap
               PROVE  Sets!RangeRemove(S, a, b, cap) = RangeRemove(S, a, b, cap)
    OBVIOUS
  <2>1. /\ Sets!Span(a, b) = Span(a, b) /\ \A x : Sets!Span(b, x) = Span(b, x)
        /\ Sets!RangeCount(S) = RangeCount(S)
        /\ Sets!RangeCount(S \ Span(a, b)) = RangeCount(S \ Span(a, b))
    BY <1>1, <1>3
  <2> QED
    BY <2>1 DEF Sets!RangeRemove, RangeRemove
<1>6. \A S, new, cap : Sets!Misfits(S, new, cap) = Misfits(S, new, cap)
  BY <1>1, <1>2, <1>4 DEF Sets!Misfits, Misfits
<1>7. \A S, new, cap : Sets!RangeInsertRuns(S, new, cap) = RangeInsertRuns(S, new, cap)
  BY <1>6 DEF Sets!RangeInsertRuns, RangeInsertRuns
<1>8. \A S, len, a, b : Sets!FrontOf(S, len, a, b) = FrontOf(S, len, a, b)
  BY <1>1 DEF Sets!FrontOf, FrontOf
<1> QED
  BY <1>1, <1>3, <1>4, <1>5, <1>7, <1>8

\* Every call on the arrays does to the sets of offsets what StreamRanges says:
\* the loops of stream.c, with their early stops and full tables, are the set
\* operations the model of the stream works with.
THEOREM ArraysImplementSets == Spec => ImplementsSets
<1>1. Init => Sets!RangesInit
  <2>1. Covered(<<>>) = {}
    BY NothingMerged
  <2> QED
    BY <2>1 DEF Init, Sets!RangesInit
<1>2. IndInv /\ [Next]_rangeVars => [Sets!RangesNext]_(Sets!setVars)
  <2> SUFFICES ASSUME IndInv, [Next]_rangeVars PROVE [Sets!RangesNext]_(Sets!setVars)
    OBVIOUS
  <2>1. ASSUME NEW a \in 0 .. Length, NEW b \in a .. Length, MarkAcked(a, b)
        PROVE  [Sets!RangesNext]_(Sets!setVars)
    <3>1. AckedLikeSet(a, b)
      BY <2>1, AckedKeeps
    <3>2. Sets!MarkAcked(a, b)
      BY <3>1, SameSets DEF AckedLikeSet, Sets!MarkAcked, Sets!setVars, rangeVars
    <3> QED
      BY <3>2 DEF Sets!RangesNext
  <2>2. ASSUME NEW a \in 0 .. Length, NEW b \in a .. Length, MarkLost(a, b)
        PROVE  [Sets!RangesNext]_(Sets!setVars)
    <3>1. LostLikeSet(a, b)
      BY <2>2, LostKeeps
    <3>2. Sets!MarkLost(a, b)
      BY <3>1, SameSets DEF LostLikeSet, ToRecord, Sets!MarkLost
    <3> QED
      BY <3>2 DEF Sets!RangesNext
  <2>3. CASE PopLost
    <3>1. PICK a \in 0 .. Length : \E b \in a .. Length : PopsLikeSet(a, b)
      BY <2>3, PopKeeps
    <3>2. PICK b \in a .. Length : PopsLikeSet(a, b)
      BY <3>1
    <3>3. Sets!PopLost(a, b)
      BY <3>2, SameSets DEF PopsLikeSet, Sets!PopLost
    <3> QED
      BY <3>3 DEF Sets!RangesNext
  <2>4. CASE UNCHANGED rangeVars
    BY <2>4 DEF rangeVars, Sets!setVars
  <2> QED
    BY <2>1, <2>2, <2>3, <2>4 DEF Next, Offsets
<1> QED
  BY <1>1, <1>2, ArraysOK, PTL DEF Spec, ImplementsSets, Sets!RangesSpec
=============================================================================
