---------------------------- MODULE Varint_proofs ----------------------------
(***************************************************************************)
(* Every number below 2^62 is read back from its encoding, wherever the    *)
(* encoding stands.                                                        *)
(***************************************************************************)
EXTENDS Varint, TLAPS

\* 2^62: no number of the protocol is larger.
Two62 == 4 * Limit4 * Limit4

\* What a shift leaves of v: 256 times the rest, plus the low byte.
ShiftFacts(v) ==
  /\ Shift(v) \in Nat /\ Low(v) \in 0 .. 255
  /\ v = Pair(Shift(v), Low(v))

LEMMA ShiftLow == ASSUME NEW v \in Nat PROVE ShiftFacts(v)
BY DEF ShiftFacts, Shift, Low, Pair

\* The bytes of a sequence keep their places between two others.
LEMMA InTheMiddle ==
  ASSUME NEW S, NEW pre \in Seq(S), NEW e \in Seq(S), NEW rest \in Seq(S)
  PROVE  LET b == pre \o e \o rest IN
         /\ Len(b) = Len(pre) + Len(e) + Len(rest)
         /\ \A i \in 1 .. Len(e) : b[Len(pre) + i] = e[i]
OBVIOUS

\* What four shifts leave of v.
FourFacts(v) ==
  /\ v \in Nat /\ ShiftFacts(v) /\ ShiftFacts(Shift(v))
  /\ ShiftFacts(Shift2(v)) /\ ShiftFacts(Shift(Shift2(v)))
  /\ Shift2(v) = Shift(Shift(v)) /\ Shift4(v) = Shift(Shift(Shift2(v)))

LEMMA FourShifts == ASSUME NEW v \in Nat PROVE FourFacts(v)
<1>1. ShiftFacts(v)
  BY ShiftLow
<1>2. ShiftFacts(Shift(v))
  BY <1>1, ShiftLow DEF ShiftFacts
<1>3. ShiftFacts(Shift2(v))
  BY <1>2, ShiftLow DEF ShiftFacts, Shift2
<1>4. ShiftFacts(Shift(Shift2(v)))
  BY <1>3, ShiftLow DEF ShiftFacts
<1>5. Shift2(v) = Shift(Shift(v)) /\ Shift4(v) = Shift(Shift(Shift2(v)))
  BY DEF Shift2, Shift4
<1> QED
  BY <1>1, <1>2, <1>3, <1>4, <1>5 DEF FourFacts

\* The top byte of a number below 2^30 leaves two bits free.
LEMMA TopBits ==
  ASSUME NEW v, FourFacts(v), v < Limit4
  PROVE  Shift(Shift2(v)) \in 0 .. 63
<1>1. Shift(v) \in Nat /\ Shift(v) < 4194304
  BY SMT DEF FourFacts, ShiftFacts, Pair, Limit4
<1>2. Shift2(v) \in Nat /\ Shift2(v) < 16384
  BY SMT, <1>1 DEF FourFacts, ShiftFacts, Pair
<1> QED
  BY SMT, <1>2 DEF FourFacts, ShiftFacts, Pair

\* What encodings of the four lengths look like: their bytes, and what the first
\* byte says of the length and of the number.
LEMMA OneByteShape ==
  ASSUME NEW v \in Nat, v < Limit1
  PROVE  /\ EncodeVarint(v) = <<v>>
         /\ VarintLen(v) = 1 /\ v % 64 = v
BY DEF EncodeVarint, VarintLen, Limit1

LEMMA TwoByteShape ==
  ASSUME NEW v \in Nat, ~(v < Limit1), v < Limit2
  PROVE  /\ EncodeVarint(v) = <<64 + Shift(v), Low(v)>>
         /\ VarintLen(64 + Shift(v)) = 2 /\ (64 + Shift(v)) % 64 = Shift(v)
<1>1. ShiftFacts(v)
  BY ShiftLow
<1>2. Shift(v) \in 0 .. 63
  BY <1>1 DEF ShiftFacts, Limit2, Pair
<1>5. EncodeVarint(v) = Marked(1, <<Shift(v), Low(v)>>)
  BY DEF EncodeVarint
<1>6. Marked(1, <<Shift(v), Low(v)>>) = <<64 + Shift(v), Low(v)>>
  BY <1>2 DEF Marked
<1>3. VarintLen(64 + Shift(v)) = 2
  BY <1>2 DEF VarintLen
<1>4. (64 + Shift(v)) % 64 = Shift(v)
  BY <1>2
<1> QED
  BY <1>3, <1>4, <1>5, <1>6

LEMMA FourByteShape ==
  ASSUME NEW v \in Nat, ~(v < Limit1), ~(v < Limit2), v < Limit4
  PROVE  LET top == Shift(Shift2(v)) IN
         /\ EncodeVarint(v) = <<128 + top, Low(Shift2(v)), Low(Shift(v)), Low(v)>>
         /\ VarintLen(128 + top) = 4 /\ (128 + top) % 64 = top
<1> DEFINE top == Shift(Shift2(v))
<1>0. FourFacts(v)
  BY FourShifts
<1>1. top \in 0 .. 63
  BY <1>0, TopBits
<1>2. Low(top) = top
  BY <1>1 DEF Low
<1>3. EncodeVarint(v) = Marked(2, Bytes4(v))
  BY DEF EncodeVarint
<1>4. Bytes4(v) = <<top, Low(Shift2(v)), Low(Shift(v)), Low(v)>>
  BY <1>2 DEF Bytes4
<1>5. EncodeVarint(v) = <<128 + top, Low(Shift2(v)), Low(Shift(v)), Low(v)>>
  BY <1>1, <1>3, <1>4 DEF Marked
<1>6. VarintLen(128 + top) = 4
  BY <1>1 DEF VarintLen
<1>7. (128 + top) % 64 = top
  BY <1>1
<1> QED
  BY <1>5, <1>6, <1>7

LEMMA EightByteShape ==
  ASSUME NEW v \in Nat, v < Two62, ~(v < Limit1), ~(v < Limit2), ~(v < Limit4)
  PROVE  LET u == Shift4(v)
             top == Shift(Shift2(u))
         IN
         /\ EncodeVarint(v) =
              <<192 + top, Low(Shift2(u)), Low(Shift(u)), Low(u),
                Low(Shift(Shift2(v))), Low(Shift2(v)), Low(Shift(v)), Low(v)>>
         /\ VarintLen(192 + top) = 8 /\ (192 + top) % 64 = top
<1> DEFINE u == Shift4(v)
           top == Shift(Shift2(u))
<1>1. FourFacts(v) /\ FourFacts(u)
  <2>1. FourFacts(v)
    BY FourShifts
  <2>2. u \in Nat
    BY <2>1 DEF FourFacts, ShiftFacts
  <2> QED
    BY <2>1, <2>2, FourShifts
<1>2. top \in 0 .. 63
  <2>1. Shift(v) \in Nat /\ Shift(v) < 16777216 * Limit4
    BY SMT, <1>1 DEF FourFacts, ShiftFacts, Pair, Limit4, Two62
  <2>2. Shift2(v) \in Nat /\ Shift2(v) < 65536 * Limit4
    BY SMT, <1>1, <2>1 DEF FourFacts, ShiftFacts, Pair, Limit4
  <2>3. Shift(Shift2(v)) \in Nat /\ Shift(Shift2(v)) < 256 * Limit4
    BY SMT, <1>1, <2>2 DEF FourFacts, ShiftFacts, Pair, Limit4
  <2>4. u < Limit4
    BY SMT, <1>1, <2>3 DEF FourFacts, ShiftFacts, Pair, Limit4
  <2> QED
    BY <1>1, <2>4, TopBits
<1>3. Low(top) = top
  BY <1>2 DEF Low
<1>4. EncodeVarint(v) = Marked(3, Bytes8(v))
  BY DEF EncodeVarint
<1>5. Bytes8(v) =
        <<top, Low(Shift2(u)), Low(Shift(u)), Low(u),
          Low(Shift(Shift2(v))), Low(Shift2(v)), Low(Shift(v)), Low(v)>>
  BY <1>3 DEF Bytes8
<1>6. EncodeVarint(v) =
        <<192 + top, Low(Shift2(u)), Low(Shift(u)), Low(u),
          Low(Shift(Shift2(v))), Low(Shift2(v)), Low(Shift(v)), Low(v)>>
  BY <1>2, <1>4, <1>5 DEF Marked
<1>7. VarintLen(192 + top) = 8
  BY <1>2 DEF VarintLen
<1>8. (192 + top) % 64 = top
  BY <1>2
<1> QED
  BY <1>6, <1>7, <1>8

\* The bytes of e stand at position p of b.
StandsAt(e, b, p) ==
  /\ p >= 1 /\ Len(b) >= p - 1 + Len(e)
  /\ \A i \in 1 .. Len(e) : b[p - 1 + i] = e[i]

\* An encoding of each length is read back wherever it stands.
LEMMA ReadOne ==
  ASSUME NEW v \in Nat, v < Limit1, NEW b, Len(b) \in Nat, NEW p \in Nat,
         StandsAt(EncodeVarint(v), b, p)
  PROVE  ReadVarint(b, p) = [next |-> p + Len(EncodeVarint(v)), value |-> v]
<1>1. EncodeVarint(v) = <<v>> /\ VarintLen(v) = 1 /\ v % 64 = v
  BY OneByteShape
<1>2. p >= 1 /\ Len(b) >= p /\ b[p] = v
  BY <1>1 DEF StandsAt
<1> QED
  BY <1>1, <1>2 DEF ReadVarint

LEMMA ReadTwo ==
  ASSUME NEW v \in Nat, ~(v < Limit1), v < Limit2,
         NEW b, Len(b) \in Nat, NEW p \in Nat,
         StandsAt(EncodeVarint(v), b, p)
  PROVE  ReadVarint(b, p) = [next |-> p + Len(EncodeVarint(v)), value |-> v]
<1>1. /\ EncodeVarint(v) = <<64 + Shift(v), Low(v)>>
      /\ VarintLen(64 + Shift(v)) = 2 /\ (64 + Shift(v)) % 64 = Shift(v)
  BY TwoByteShape
<1>2. p >= 1 /\ Len(b) >= p + 1 /\ b[p] = 64 + Shift(v) /\ b[p + 1] = Low(v)
  BY <1>1 DEF StandsAt
<1>3. Pair(Shift(v), b[p + 1]) = v
  BY <1>2, ShiftLow DEF ShiftFacts
<1> QED
  BY <1>1, <1>2, <1>3 DEF ReadVarint

\* Four bytes are folded into the number they were taken from.
LEMMA FourReadBack ==
  ASSUME NEW v, FourFacts(v), NEW b, NEW p \in Nat,
         b[p + 1] = Low(Shift2(v)), b[p + 2] = Low(Shift(v)), b[p + 3] = Low(v)
  PROVE  Four(Shift(Shift2(v)), b, p) = v
<1>1. /\ v = Pair(Shift(v), Low(v)) /\ Shift(v) = Pair(Shift2(v), Low(Shift(v)))
      /\ Shift2(v) = Pair(Shift(Shift2(v)), Low(Shift2(v)))
  BY DEF FourFacts, ShiftFacts
<1> QED
  BY <1>1 DEF Four

LEMMA ReadFour ==
  ASSUME NEW v \in Nat, ~(v < Limit1), ~(v < Limit2), v < Limit4,
         NEW b, Len(b) \in Nat, NEW p \in Nat,
         StandsAt(EncodeVarint(v), b, p)
  PROVE  ReadVarint(b, p) = [next |-> p + Len(EncodeVarint(v)), value |-> v]
<1> DEFINE top == Shift(Shift2(v))
<1>1. /\ EncodeVarint(v) = <<128 + top, Low(Shift2(v)), Low(Shift(v)), Low(v)>>
      /\ VarintLen(128 + top) = 4 /\ (128 + top) % 64 = top
  BY FourByteShape
<1>2. /\ p >= 1 /\ Len(b) >= p + 3 /\ b[p] = 128 + top /\ b[p + 1] = Low(Shift2(v))
      /\ b[p + 2] = Low(Shift(v)) /\ b[p + 3] = Low(v)
  BY <1>1 DEF StandsAt
<1>3. Four(top, b, p) = v
  BY <1>2, FourShifts, FourReadBack
<1> QED
  BY <1>1, <1>2, <1>3 DEF ReadVarint

LEMMA ReadEight ==
  ASSUME NEW v \in Nat, v < Two62, ~(v < Limit1), ~(v < Limit2), ~(v < Limit4),
         NEW b, Len(b) \in Nat, NEW p \in Nat,
         StandsAt(EncodeVarint(v), b, p)
  PROVE  ReadVarint(b, p) = [next |-> p + Len(EncodeVarint(v)), value |-> v]
<1> DEFINE u == Shift4(v)
           top == Shift(Shift2(v))
           utop == Shift(Shift2(u))
<1>1. /\ EncodeVarint(v) =
           <<192 + utop, Low(Shift2(u)), Low(Shift(u)), Low(u),
             Low(top), Low(Shift2(v)), Low(Shift(v)), Low(v)>>
      /\ VarintLen(192 + utop) = 8 /\ (192 + utop) % 64 = utop
  BY EightByteShape
<1>11. Len(EncodeVarint(v)) = 8
  BY <1>1
<1>12. /\ p >= 1 /\ Len(b) >= p + 7
       /\ \A i \in 1 .. 8 : b[p - 1 + i] = EncodeVarint(v)[i]
  BY <1>11 DEF StandsAt
<1>13. /\ b[p] = EncodeVarint(v)[1] /\ b[p + 1] = EncodeVarint(v)[2]
       /\ b[p + 2] = EncodeVarint(v)[3] /\ b[p + 3] = EncodeVarint(v)[4]
       /\ b[p + 4] = EncodeVarint(v)[5] /\ b[p + 5] = EncodeVarint(v)[6]
       /\ b[p + 6] = EncodeVarint(v)[7] /\ b[p + 7] = EncodeVarint(v)[8]
  <2>1. /\ p - 1 + 1 = p /\ p - 1 + 2 = p + 1 /\ p - 1 + 3 = p + 2 /\ p - 1 + 4 = p + 3
        /\ p - 1 + 5 = p + 4 /\ p - 1 + 6 = p + 5 /\ p - 1 + 7 = p + 6 /\ p - 1 + 8 = p + 7
    OBVIOUS
  <2> QED
    BY <1>12, <2>1
<1>2. /\ p >= 1 /\ Len(b) >= p + 7
      /\ b[p] = 192 + utop /\ b[p + 1] = Low(Shift2(u))
      /\ b[p + 2] = Low(Shift(u)) /\ b[p + 3] = Low(u)
  BY <1>1, <1>12, <1>13
<1>3. /\ b[p + 4] = Low(top) /\ b[p + 5] = Low(Shift2(v))
      /\ b[p + 6] = Low(Shift(v)) /\ b[p + 7] = Low(v)
  BY <1>1, <1>13
<1>4. p + 4 + 1 = p + 5 /\ p + 4 + 2 = p + 6 /\ p + 4 + 3 = p + 7 /\ p + 4 \in Nat
  OBVIOUS
<1>5. FourFacts(v)
  BY FourShifts
<1>6. u \in Nat /\ top = Pair(u, Low(top))
  BY <1>5 DEF FourFacts, ShiftFacts
<1>7. FourFacts(u)
  BY <1>6, FourShifts
<1>8. Four(utop, b, p) = u
  BY <1>2, <1>7, FourReadBack
<1>9. Four(top, b, p + 4) = v
  BY <1>3, <1>4, <1>5, FourReadBack
<1>10. Eight(utop, b, p) = v
  BY <1>3, <1>6, <1>8, <1>9 DEF Eight
<1> QED
  BY <1>1, <1>2, <1>10 DEF ReadVarint

\* An encoding is a sequence of bytes.
LEMMA EncodingIsSeq == ASSUME NEW v \in Nat, v < Two62 PROVE EncodeVarint(v) \in Seq(Nat)
<1>1. FourFacts(v)
  BY FourShifts
<1>2. FourFacts(Shift4(v))
  <2>1. Shift4(v) \in Nat
    BY <1>1 DEF FourFacts, ShiftFacts
  <2> QED
    BY <2>1, FourShifts
<1>3. /\ Low(v) \in Nat /\ Low(Shift(v)) \in Nat /\ Low(Shift2(v)) \in Nat
      /\ Low(Shift(Shift2(v))) \in Nat /\ 64 + Shift(v) \in Nat
      /\ 128 + Shift(Shift2(v)) \in Nat
  BY <1>1 DEF FourFacts, ShiftFacts
<1>4. /\ Low(Shift4(v)) \in Nat /\ Low(Shift(Shift4(v))) \in Nat
      /\ Low(Shift2(Shift4(v))) \in Nat /\ 192 + Shift(Shift2(Shift4(v))) \in Nat
  BY <1>2 DEF FourFacts, ShiftFacts
<1>5. CASE v < Limit1
  <2>1. EncodeVarint(v) = <<v>>
    BY <1>5, OneByteShape
  <2> QED
    BY <2>1
<1>6. CASE ~(v < Limit1) /\ v < Limit2
  <2>1. EncodeVarint(v) = <<64 + Shift(v), Low(v)>>
    BY <1>6, TwoByteShape
  <2> QED
    BY <1>3, <2>1
<1>7. CASE ~(v < Limit1) /\ ~(v < Limit2) /\ v < Limit4
  <2>1. EncodeVarint(v) =
          <<128 + Shift(Shift2(v)), Low(Shift2(v)), Low(Shift(v)), Low(v)>>
    BY <1>7, FourByteShape
  <2> QED
    BY <1>3, <2>1
<1>8. CASE ~(v < Limit1) /\ ~(v < Limit2) /\ ~(v < Limit4)
  <2> DEFINE u == Shift4(v)
  <2>1. EncodeVarint(v) =
          <<192 + Shift(Shift2(u)), Low(Shift2(u)), Low(Shift(u)), Low(u),
            Low(Shift(Shift2(v))), Low(Shift2(v)), Low(Shift(v)), Low(v)>>
    BY <1>8, EightByteShape
  <2> QED
    BY <1>3, <1>4, <2>1
<1> QED
  BY <1>5, <1>6, <1>7, <1>8

\* common/buffer.c: whatever stands before and after it, the encoding of a
\* number below 2^62 is read back as that number, and the reader stops right
\* after it.
THEOREM VarintReadBack ==
  ASSUME NEW v \in Nat, v < Two62, NEW pre \in Seq(Nat), NEW rest \in Seq(Nat)
  PROVE  ReadVarint(pre \o EncodeVarint(v) \o rest, Len(pre) + 1) =
           [next |-> Len(pre) + 1 + Len(EncodeVarint(v)), value |-> v]
<1> DEFINE e == EncodeVarint(v)
           b == pre \o e \o rest
           p == Len(pre) + 1
<1>1. e \in Seq(Nat)
  BY EncodingIsSeq
<1> HIDE DEF e
<1>2. /\ Len(b) = Len(pre) + Len(e) + Len(rest)
      /\ \A i \in 1 .. Len(e) : b[Len(pre) + i] = e[i]
  BY <1>1, InTheMiddle
<1>3. Len(pre) \in Nat /\ Len(rest) \in Nat /\ Len(e) \in Nat /\ p \in Nat
  BY <1>1
<1>4. Len(b) \in Nat /\ StandsAt(e, b, p)
  BY <1>2, <1>3 DEF StandsAt
<1> HIDE DEF b, p
<1>5. ReadVarint(b, p) = [next |-> p + Len(e), value |-> v]
  BY <1>3, <1>4, ReadOne, ReadTwo, ReadFour, ReadEight DEF e
<1> QED
  BY <1>5 DEF e, b, p
=============================================================================
