----------------------------- MODULE PacketCodec -----------------------------
(***************************************************************************)
(* Packets and the bytes they travel as (packet_codec.c).  Encryption is   *)
(* ideal: byte i of the k-th packet that was sealed is the number          *)
(* SealBase * k + i, no byte anyone else writes, and seals[k] is what has  *)
(* to be presented to open it.  Header protection, which hides four bits   *)
(* of the first byte and the packet number, is undone before anything is   *)
(* read and left out.                                                      *)
(***************************************************************************)
EXTENDS FrameCodec

TagLen == 16
MaxCidLen == 20
MaxTokenLen == 256
SealBase == 4096

Zeros == <<0, 0, 0, 0>>      \* the version field of a Version Negotiation packet
V1 == <<0, 0, 0, 1>>
V2 == <<107, 51, 67, 207>>

\* The type bits of a long header, which QUIC v2 permutes (version.c).
TypeBits(version) ==
  IF version = V2 THEN [initial |-> 1, handshake |-> 3, retry |-> 0]
  ELSE [initial |-> 0, handshake |-> 2, retry |-> 3]

\* ai_quic_version_encode_long_header_first_byte, and the reader of it.
FirstByte(version, type, pnLen) == 192 + 16 * TypeBits(version)[type] + (pnLen - 1)

LongHeaderType(version, first) ==
  LET bits == (first \div 16) % 4
      of   == TypeBits(version)
  IN  IF version \notin {V1, V2} \/ bits = of.initial THEN "initial"
      ELSE IF bits = of.handshake THEN "handshake"
      ELSE IF bits = of.retry THEN "retry"
      ELSE "version_negotiation"

\* A connection as far as the codec reads it: its role, version, both connection
\* ids, the id the Initial keys come from, and whether it has accepted a Retry.
\* A packet holds what its header says; pn and frames are empty where a type has
\* none.
Packet(type, version, dcid, scid, token, pn, frames) ==
  [type |-> type, version |-> version, dcid |-> dcid, scid |-> scid,
   token |-> token, pn |-> pn, frames |-> frames]

\* ai_quic_build_packet_protection: Initial keys come from the version and the
\* client's first destination id, the others from the TLS secret of the level;
\* all of them depend on the version's labels and on who writes.
Key(conn, type, version, is_write) ==
  <<type, version, IF type = "initial" THEN conn.initial_dcid ELSE <<>>,
    conn.is_server = is_write>>

Sealed(k, len) == [i \in 1 .. len |-> SealBase * k + i]

Seal(key, pn, header, plain) == [key |-> key, pn |-> pn, header |-> header, plain |-> plain]

\* AEAD open: the same key, number and header, and every byte of what was sealed.
Opens(seals, key, pn, header, cipher) ==
  \E k \in DOMAIN seals :
    /\ seals[k] = Seal(key, pn, header, seals[k].plain)
    /\ cipher = Sealed(k, Len(seals[k].plain) + TagLen)

PnBytes(pn, pnLen) == SubSeq(Bytes4(pn), 5 - pnLen, 4)

CidField(cid) == <<Len(cid)>> \o cid

LongStart(p, first) == <<first>> \o p.version \o CidField(p.dcid) \o CidField(p.scid)

TokenField(p) ==
  IF p.type = "initial" THEN EncodeVarint(Len(p.token)) \o p.token ELSE <<>>

\* A slip: the Length field leaves the tag out.
LengthWithoutTag(body, pnLen) == pnLen + Len(body)

\* The Length field counts the packet number, the frames and the tag.
PayloadLength(body, pnLen) == pnLen + Len(body) + TagLen

\* The two protected encoders: the packet's bytes when its seal is the k-th, and
\* that seal.  This code always writes packet numbers of four bytes.
EncodeLong(conn, p, body, k, pnLen) ==
  LET header == LongStart(p, FirstByte(p.version, p.type, pnLen)) \o TokenField(p)
                  \o EncodeVarint(PayloadLength(body, pnLen)) \o PnBytes(p.pn, pnLen)
  IN  [bytes |-> header \o Sealed(k, Len(body) + TagLen),
       seal  |-> Seal(Key(conn, p.type, p.version, TRUE), p.pn, header, body)]

EncodeShort(conn, p, body, k, pnLen) ==
  LET header == <<64 + pnLen - 1>> \o p.dcid \o PnBytes(p.pn, pnLen) IN
  [bytes |-> header \o Sealed(k, Len(body) + TagLen),
   seal  |-> Seal(Key(conn, p.type, p.version, TRUE), p.pn, header, body)]

\* Version Negotiation: no number, no seal; its versions take the place of frames.
EncodeVersionNegotiation(p) == LongStart(p, 128) \o FlattenSeq(p.frames)

\* Retry: the tag after the token is a seal over the original destination id and
\* the packet, under a key that only the version determines.
RetrySeal(version, odcid, bytes) ==
  Seal(<<"retry", version>>, 0, CidField(odcid) \o bytes, <<>>)

EncodeRetry(p, odcid, k) ==
  LET bytes == LongStart(p, FirstByte(p.version, "retry", 1)) \o p.token IN
  [bytes |-> bytes \o Sealed(k, TagLen), seal |-> RetrySeal(p.version, odcid, bytes)]

-----------------------------------------------------------------------------
\* What a packet decoder returns, when it fails and otherwise.
NoPacket == [next |-> 0]

\* A length byte and a connection id.
ReadCid(b, p) ==
  IF p \notin 1 .. Len(b) \/ b[p] > MaxCidLen \/ p + b[p] > Len(b) THEN Failed
  ELSE [next |-> p + 1 + b[p], value |-> SubSeq(b, p + 1, p + b[p])]

\* The packet number at position p of b: the first byte says how long it is.
\* Numbers stay far below the window here, so that no bits are to be restored
\* (PacketNumber.tla is about those).
PnLen(b) == (b[1] % 4) + 1
ReadPn(b, p) == FoldLeft(Pair, 0, SubSeq(b, p, p + PnLen(b) - 1))

WithFrames(p, frames, next) ==
  IF frames.next = 0 THEN NoPacket
  ELSE [next |-> next, value |-> [p EXCEPT !.frames = frames.value]]

\* Opens what stands between the packet number at pnAt and the end of b, and
\* decodes its frames into p.
OpenPacket(conn, seals, b, pnAt, p) ==
  LET bodyAt == pnAt + PnLen(b)
      pn     == ReadPn(b, pnAt)
      header == SubSeq(b, 1, bodyAt - 1)
      cipher == SubSeq(b, bodyAt, Len(b))
      seal   == seals[cipher[1] \div SealBase]
  IN  IF \/ Len(cipher) < TagLen
         \/ ~Opens(seals, Key(conn, p.type, p.version, FALSE), pn, header, cipher)
      THEN NoPacket
      ELSE WithFrames([p EXCEPT !.pn = pn], DecodeFrames(seal.plain), Len(b) + 1)

\* What is read of a long header before its type matters.
ReadLongStart(b) ==
  LET dcid == ReadCid(b, 6)
      scid == ReadCid(b, dcid.next)
  IN  [version |-> SubSeq(b, 2, 5), dcid |-> dcid.value, scid |-> scid.value,
       next |-> IF Len(b) < 7 THEN 0 ELSE scid.next]

\* ai_quic_packet_decode_long_protected.
DecodeLong(conn, seals, b) ==
  LET start  == ReadLongStart(b)
      type   == LongHeaderType(start.version, b[1])
      token  == IF type = "initial" THEN ReadBlock(b, start.next, MaxTokenLen)
                ELSE [next |-> start.next, value |-> <<>>]
      length == ReadVarint(b, token.next)
      last   == length.next + length.value - 1
  IN  IF length.next = 0 \/ last > Len(b) \/ length.value < 4 + TagLen THEN NoPacket
      ELSE OpenPacket(conn, seals, SubSeq(b, 1, last), length.next,
             Packet(type, start.version, start.dcid, start.scid, token.value, 0, <<>>))

\* ai_quic_packet_decode_short_protected: the destination id is as long as the
\* connection's own, and the packet takes the rest of the datagram.
DecodeShort(conn, seals, b) ==
  LET pnAt == 2 + Len(conn.local_cid) IN
  IF Len(b) < pnAt - 1 + 4 + TagLen THEN NoPacket
  ELSE OpenPacket(conn, seals, b, pnAt,
         Packet("one_rtt", conn.version, conn.local_cid, <<>>, <<>>, 0, <<>>))

\* ai_quic_packet_decode, the part of it that a connection uses.
DecodeVersionNegotiation(b) ==
  LET start == ReadLongStart(b)
      count == (Len(b) + 1 - start.next) \div 4
      Field(i) == SubSeq(b, start.next + 4 * i - 4, start.next + 4 * i - 1)
  IN  IF start.next = 0 THEN NoPacket
      ELSE [next |-> Len(b) + 1,
            value |-> Packet("version_negotiation", Zeros, start.dcid, start.scid, <<>>, 0,
                             [i \in 1 .. Min({count, 8}) |-> Field(i)])]

DecodeRetry(conn, seals, b) ==
  LET start  == ReadLongStart(b)
      tagAt  == Len(b) + 1 - TagLen
      tag    == SubSeq(b, tagAt, Len(b))
      bytes  == SubSeq(b, 1, tagAt - 1)
  IN  IF \/ start.next \notin 1 .. tagAt \/ tagAt - start.next > MaxTokenLen
         \/ conn.retry_accepted
         \/ \A k \in DOMAIN seals :
              ~(seals[k] = RetrySeal(start.version, conn.initial_dcid, bytes)
                  /\ tag = Sealed(k, TagLen))
      THEN NoPacket
      ELSE [next |-> Len(b) + 1,
            value |-> Packet("retry", start.version, start.dcid, start.scid,
                             SubSeq(b, start.next, tagAt - 1), 0, <<>>)]

\* ai_quic_packet_decode_conn: which decoder the first bytes call for.
Decode(conn, seals, b) ==
  IF b[1] < 128 THEN DecodeShort(conn, seals, b)
  ELSE IF SubSeq(b, 2, 5) = Zeros THEN DecodeVersionNegotiation(b)
  ELSE IF LongHeaderType(SubSeq(b, 2, 5), b[1]) = "retry" THEN DecodeRetry(conn, seals, b)
  ELSE DecodeLong(conn, seals, b)
=============================================================================
