------------------------------ MODULE FrameCodec ------------------------------
(***************************************************************************)
(* Frames and the bytes they travel as (frame_codec.c).  A frame is        *)
(* [type, nums, fin, data]: the numbers it carries, in the order of their  *)
(* fields, and its FIN bit and bytes where it has them.                    *)
(***************************************************************************)
EXTENDS Varint, SequencesExt, TLC

CONSTANTS
  MaxAckPairs,     \* AI_QUIC_MAX_ACK_RANGES: additional ranges a frame keeps
  MaxFrameData,    \* AI_QUIC_MAX_FRAME_PAYLOAD_LEN
  MaxFrames        \* AI_QUIC_MAX_FRAMES_PER_PACKET

MaxReason == 255     \* one less than the size of connection_close.reason

ASSUME FrameAssumption == MaxAckPairs \in Nat /\ MaxFrameData \in Nat /\ MaxFrames \in Nat

Frame(type, nums, fin, data) == [type |-> type, nums |-> nums, fin |-> fin, data |-> data]

\* The frames that are a type and some numbers: their type byte, and how many.
PlainCode == [padding |-> 0, ping |-> 1, max_data |-> 16, max_stream_data |-> 17,
              data_blocked |-> 20, stream_data_blocked |-> 21, handshake_done |-> 30]
PlainCount == [padding |-> 0, ping |-> 0, max_data |-> 1, max_stream_data |-> 2,
               data_blocked |-> 1, stream_data_blocked |-> 2, handshake_done |-> 0]

EncodeNumbers(nums) == FlattenSeq([i \in DOMAIN nums |-> EncodeVarint(nums[i])])

\* Largest, delay (always 0), number of additional ranges, first range, ranges.
AckFields(f) == <<Head(f.nums), 0, (Len(f.nums) - 2) \div 2>> \o Tail(f.nums)

\* The offset and the length of a STREAM frame are always there.
EncodeStream(f) ==
  <<IF f.fin THEN 15 ELSE 14>> \o EncodeNumbers(Append(f.nums, Len(f.data))) \o f.data

\* ai_quic_frame_encode; PING is one of the types it refuses.
EncodeFrame(f) ==
  CASE f.type \in DOMAIN PlainCode \ {"ping"} -> <<PlainCode[f.type]>> \o EncodeNumbers(f.nums)
    [] f.type = "ack"    -> <<2>> \o EncodeNumbers(AckFields(f))
    [] f.type = "crypto" -> <<6>> \o EncodeNumbers(Append(f.nums, Len(f.data))) \o f.data
    [] f.type = "stream" -> EncodeStream(f)

\* ai_quic_encode_frames.
EncodeFrames(frames) == FlattenSeq([i \in DOMAIN frames |-> EncodeFrame(frames[i])])

\* n numbers from position p on.
ReadNumbers(b, p, n) ==
  LET read[i \in 0 .. n] ==
        IF i = 0 THEN [next |-> p, value |-> <<>>]
        ELSE LET before == read[i - 1]
                 number == ReadVarint(b, before.next)
             IN  [next |-> number.next, value |-> Append(before.value, number.value)]
  IN  read[n]

\* A length and as many bytes, at most limit of them.
ReadBlock(b, p, limit) ==
  LET len == ReadVarint(b, p) IN
  IF len.next = 0 \/ len.value > limit \/ len.next + len.value - 1 > Len(b)
  THEN Failed
  ELSE [next  |-> len.next + len.value,
        value |-> SubSeq(b, len.next, len.next + len.value - 1)]

DecodePlain(b, p, type) ==
  LET nums == ReadNumbers(b, p + 1, PlainCount[type]) IN
  [next |-> nums.next, value |-> Frame(type, nums.value, FALSE, <<>>)]

\* Type 3 is an ACK with three ECN counts at its end.
DecodeAck(b, p) ==
  LET head  == ReadNumbers(b, p + 1, 4)
      pairs == ReadNumbers(b, head.next, 2 * head.value[3])
      end   == ReadNumbers(b, pairs.next, IF b[p] = 3 THEN 3 ELSE 0)
  IN  IF head.next = 0 THEN Failed
      ELSE [next  |-> end.next,
            value |-> Frame("ack",
              <<head.value[1], head.value[4]>>
                \o SubSeq(pairs.value, 1, Min({2 * head.value[3], 2 * MaxAckPairs})),
              FALSE, <<>>)]

DecodeCrypto(b, p) ==
  LET offset == ReadVarint(b, p + 1)
      data   == ReadBlock(b, offset.next, MaxFrameData)
  IN  [next  |-> data.next,
       value |-> Frame("crypto", <<offset.value>>, FALSE, data.value)]

\* The type byte of a STREAM frame: 4 says that an offset is there, 2 that a
\* length is (the data reaches to the end of the packet when it is not), 1 FIN.
DecodeStream(b, p) ==
  LET id      == ReadVarint(b, p + 1)
      offset  == IF (b[p] \div 4) % 2 = 1 THEN ReadVarint(b, id.next)
                 ELSE [next |-> id.next, value |-> 0]
      rest    == [next |-> Len(b) + 1, value |-> SubSeq(b, offset.next, Len(b))]
      data    == IF (b[p] \div 2) % 2 = 1 THEN ReadBlock(b, offset.next, MaxFrameData)
                 ELSE rest
  IN  IF offset.next = 0 \/ (data = rest /\ Len(data.value) > MaxFrameData) THEN Failed
      ELSE [next  |-> data.next,
            value |-> Frame("stream", <<id.value, offset.value>>, b[p] % 2 = 1, data.value)]

\* Frames that are read and ignored: a token of at least one byte; two numbers,
\* a connection id and a reset token of 16 bytes.
DecodeNewToken(b, p) ==
  LET token == ReadBlock(b, p + 1, Len(b)) IN
  IF token.next = 0 \/ token.value = <<>> THEN Failed
  ELSE [next |-> token.next, value |-> Frame("new_token", <<>>, FALSE, <<>>)]

DecodeNewConnectionId(b, p) ==
  LET nums == ReadNumbers(b, p + 1, 2)
      end  == nums.next + b[nums.next] + 16
  IN  IF nums.next \notin 1 .. Len(b) \/ b[nums.next] \notin 1 .. 20 \/ end > Len(b)
      THEN Failed
      ELSE [next |-> end + 1, value |-> Frame("new_connection_id", <<>>, FALSE, <<>>)]

\* CONNECTION_CLOSE: an error, a frame type and a reason.  The code skips the
\* length of the frame type but not that of the error before it reads the length
\* of the reason, which comes out right for an error of one byte, frame type 0 and
\* no reason.
DecodeClose(b, p) ==
  LET error  == ReadVarint(b, p + 1)
      type   == ReadVarint(b, error.next)
      reason == ReadBlock(b, p + 1 + type.next - error.next, MaxReason)
  IN  IF type.next = 0 THEN Failed
      ELSE [next  |-> reason.next,
            value |-> Frame("connection_close", <<error.value, type.value>>, FALSE, reason.value)]

\* ai_quic_frame_decode at position p of b.
DecodeFrame(b, p) ==
  CASE \E type \in DOMAIN PlainCode : PlainCode[type] = b[p] ->
         DecodePlain(b, p, CHOOSE type \in DOMAIN PlainCode : PlainCode[type] = b[p])
    [] b[p] \in {2, 3}   -> DecodeAck(b, p)
    [] b[p] = 6          -> DecodeCrypto(b, p)
    [] b[p] = 7          -> DecodeNewToken(b, p)
    [] b[p] \in 8 .. 15  -> DecodeStream(b, p)
    [] b[p] = 24         -> DecodeNewConnectionId(b, p)
    [] b[p] = 28         -> DecodeClose(b, p)
    [] OTHER             -> Failed

\* One frame and those after it; padding is dropped.
FrameAndRest(first, rest) ==
  IF first.next = 0 \/ rest.next = 0 THEN Failed
  ELSE [next  |-> rest.next,
        value |-> IF first.value.type = "padding" THEN rest.value
                  ELSE <<first.value>> \o rest.value]

LimitFrames(all) == IF all.next = 0 \/ Len(all.value) > MaxFrames THEN Failed ELSE all

\* ai_quic_decode_frames_into: all of the payload, without the padding.
DecodeFrames(b) ==
  LET from[p \in Nat] ==
        IF p > Len(b) THEN [next |-> p, value |-> <<>>]
        ELSE LET first == DecodeFrame(b, p) IN FrameAndRest(first, from[first.next])
  IN  LimitFrames(from[1])
=============================================================================
