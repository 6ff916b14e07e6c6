-------------------------------- MODULE Varint --------------------------------
(***************************************************************************)
(* Variable-length integers (common/buffer.c): 1, 2, 4 or 8 bytes, most    *)
(* significant first, the length in the two top bits of the first byte.    *)
(***************************************************************************)
EXTENDS Integers, Sequences

Low(v) == v % 256
Shift(v) == v \div 256
Shift2(v) == Shift(Shift(v))
Shift4(v) == Shift2(Shift2(v))

Bytes4(v) == <<Low(Shift(Shift2(v))), Low(Shift2(v)), Low(Shift(v)), Low(v)>>
Bytes8(v) ==
  LET u == Shift4(v) IN
  <<Low(Shift(Shift2(u))), Low(Shift2(u)), Low(Shift(u)), Low(u),
    Low(Shift(Shift2(v))), Low(Shift2(v)), Low(Shift(v)), Low(v)>>

\* The two top bits of the first byte say how long the number is.
Marked(mark, bytes) == [bytes EXCEPT ![1] = 64 * mark + @]

\* The bounds of ai_quic_varint_size: what fits in six, fourteen and thirty bits.
Limit1 == 64
Limit2 == 16384
Limit4 == 1073741824

\* ai_quic_varint_write, for numbers below 2^62.
EncodeVarint(v) ==
  IF v < Limit1 THEN <<v>>
  ELSE IF v < Limit2 THEN Marked(1, <<Shift(v), Low(v)>>)
  ELSE IF v < Limit4 THEN Marked(2, Bytes4(v))
  ELSE Marked(3, Bytes8(v))

\* What a decoder returns: the value, and the position after it, 0 when the
\* bytes cannot be decoded.
Failed == [next |-> 0, value |-> 0]

Pair(x, y) == 256 * x + y
Four(top, b, p) == Pair(Pair(Pair(top, b[p + 1]), b[p + 2]), b[p + 3])
Eight(top, b, p) == Four(Pair(Four(top, b, p), b[p + 4]), b, p + 4)

VarintLen(first) ==
  IF first < 64 THEN 1 ELSE IF first < 128 THEN 2 ELSE IF first < 192 THEN 4 ELSE 8

\* ai_quic_varint_read at position p of b.
ReadVarint(b, p) ==
  IF p \notin 1 .. Len(b) \/ p + VarintLen(b[p]) - 1 > Len(b) THEN Failed
  ELSE LET len == VarintLen(b[p])
           top == b[p] % 64
       IN  [next  |-> p + len,
            value |-> IF len = 1 THEN top
                      ELSE IF len = 2 THEN Pair(top, b[p + 1])
                      ELSE IF len = 4 THEN Four(top, b, p)
                      ELSE Eight(top, b, p)]
=============================================================================
