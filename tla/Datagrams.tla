------------------------------ MODULE Datagrams ------------------------------
(***************************************************************************)
(* One datagram from its writer to its reader: the packets that are put    *)
(* into it one after the other, the bytes, and what the reader takes out   *)
(* of them (ai_quic_conn_push_datagram, and the loop over a datagram in    *)
(* ai_quic_endpoint_receive_datagram).  The writer is this program, or     *)
(* another implementation that uses forms this program only reads.         *)
(***************************************************************************)
EXTENDS TransportParams

CONSTANTS
  ClientCid, ServerCid,              \* the connection ids of the two ends
  FirstDcid, RetryCid,               \* the client's guess; the one a Retry names
  TokenBytes,                        \* the token of a Retry
  FramesOf,                          \* packet type -> the frame lists it may carry
  OtherFrames,                       \* the same for another implementation
  Hellos,                            \* transport parameters an endpoint may announce
  Pns, OtherPnLens,                  \* packet numbers; their lengths elsewhere
  MinInitial                         \* AI_QUIC_MIN_INITIAL_DATAGRAM_SIZE

VARIABLES
  writer, reader,   \* the two ends of the connection
  pn_len,           \* how many bytes of packet numbers the writer sends
  other,            \* the writer is another implementation
  hello,            \* the transport parameters in the datagram, <<>> without any
  seals,            \* what has been encrypted
  sent,             \* the packets put into the datagram
  datagram,         \* its bytes; those not read yet once it has been sent
  got,              \* the packets read
  phase             \* "writing", "reading", "done" or "failed"

vars == <<writer, reader, pn_len, other, hello, seals, sent, datagram, got, phase>>
ends == <<writer, reader, pn_len, other>>

Conn(is_server, version, local, peer, initial, token) ==
  [is_server |-> is_server, version |-> version, local_cid |-> local, peer_cid |-> peer,
   initial_dcid |-> initial, token |-> token, retry_accepted |-> token # <<>>]

\* After a Retry the client repeats its token, and the id the server chose with
\* it is the one it goes by and both derive Initial keys from.  Before it has an
\* answer, a client addresses the server by the id the keys come from.
Init ==
  /\ \E version \in {V1, V2}, token \in {<<>>, TokenBytes}, answered \in BOOLEAN :
       LET initial == IF token = <<>> THEN FirstDcid ELSE RetryCid
           own     == IF token = <<>> THEN ServerCid ELSE RetryCid
           client  == Conn(FALSE, version, ClientCid, IF answered THEN own ELSE initial,
                           initial, token)
           server  == Conn(TRUE, version, own, ClientCid, initial, <<>>)
       IN  \/ writer = client /\ reader = server
           \/ answered /\ writer = server /\ reader = client
  /\ other \in BOOLEAN
  /\ pn_len \in IF other THEN OtherPnLens ELSE {4}
  /\ hello = <<>> /\ seals = <<>> /\ sent = <<>> /\ datagram = <<>> /\ got = <<>>
  /\ phase = "writing"

-----------------------------------------------------------------------------
\* How another implementation may write a frame: an ACK with ECN counts, a STREAM
\* frame without an offset of 0 and, when it is the last, without a length; and
\* the frames that this program never sends.
OtherEncodeFrame(f, last) ==
  CASE f.type = "ack" -> <<3>> \o EncodeNumbers(AckFields(f) \o <<0, 70, 0>>)
    [] f.type = "stream" ->
         LET offset == IF f.nums[2] = 0 THEN <<>> ELSE <<f.nums[2]>>
             length == IF last THEN <<>> ELSE <<Len(f.data)>>
         IN  <<8 + 4 * Len(offset) + 2 * Len(length) + (IF f.fin THEN 1 ELSE 0)>>
               \o EncodeNumbers(<<f.nums[1]>> \o offset \o length) \o f.data
    [] f.type = "ping" -> <<1>>
    [] f.type = "new_token" -> <<7, 2, 0, 6>>
    [] f.type = "new_connection_id" -> <<24, 1, 0, 4, 9, 9, 9, 9>> \o [i \in 1 .. 16 |-> 28]
    [] f.type = "connection_close" ->
         <<28>> \o EncodeNumbers(Append(f.nums, Len(f.data))) \o f.data
    [] OTHER -> EncodeFrame(f)

\* It pads its frames in front, to the length that header protection needs.
OtherEncodeFrames(frames) ==
  LET bytes == FlattenSeq([i \in DOMAIN frames |->
                             OtherEncodeFrame(frames[i], i = Len(frames))])
  IN  [i \in 1 .. (3 - Len(bytes)) |-> 0] \o bytes

Encode(p) ==
  LET body == IF other THEN OtherEncodeFrames(p.frames) ELSE EncodeFrames(p.frames)
      k    == Len(seals) + 1
  IN  IF p.type = "one_rtt" THEN EncodeShort(writer, p, body, k, pn_len)
      ELSE EncodeLong(writer, p, body, k, pn_len)

\* The packet ai_quic_packet_init makes, as far as its type sends it.
NewPacket(type, pn, frames) ==
  Packet(type, writer.version, writer.peer_cid,
         IF type = "one_rtt" THEN <<>> ELSE writer.local_cid,
         IF type = "initial" THEN writer.token ELSE <<>>, pn, frames)

Rank == [initial |-> 1, handshake |-> 2, one_rtt |-> 3]

\* One packet per type, in the order of the types, and two at the most; an
\* unanswered client has Initial packets only.  Numbers are at most half a window
\* of their length, so that nothing is left to restore.
AppendPacket(type, frames) ==
  /\ phase = "writing" /\ Len(sent) < 2
  /\ type # "initial" => writer.peer_cid # FirstDcid
  /\ \A i \in DOMAIN sent : Rank[sent[i].type] < Rank[type]
  /\ \E pn \in {n \in Pns : pn_len = 4 \/ n < 128} :
       LET p == NewPacket(type, pn, frames)
           e == Encode(p)
       IN  /\ sent' = Append(sent, p)
           /\ datagram' = datagram \o e.bytes
           /\ seals' = Append(seals, e.seal)
  /\ UNCHANGED <<ends, got, phase>>

AppendFrames ==
  /\ \E type \in DOMAIN Rank :
       \E frames \in IF other THEN OtherFrames[type] ELSE FramesOf[type] :
         AppendPacket(type, frames)
  /\ UNCHANGED hello

\* The first CRYPTO frame that can carry them holds the transport parameters: the
\* ClientHello, or the server's EncryptedExtensions.
AppendHello ==
  /\ hello = <<>>
  /\ \E params \in Hellos :
       /\ hello' = params
       /\ AppendPacket(IF writer.is_server THEN "handshake" ELSE "initial",
                       <<Frame("crypto", <<0>>, FALSE, EncodeParams(params))>>)

\* A client's Initial that travels alone is followed by zeros.
Send ==
  /\ phase = "writing" /\ sent # <<>>
  /\ phase' = "reading"
  /\ datagram' = IF ~writer.is_server /\ Len(sent) = 1 /\ sent[1].type = "initial"
                 THEN datagram \o [i \in 1 .. (MinInitial - Len(datagram)) |-> 0]
                 ELSE datagram
  /\ UNCHANGED <<ends, hello, seals, sent, got>>

\* The endpoint's own answers to a first packet, which travel alone
\* (ai_quic_build_version_negotiation, ai_quic_build_retry).
SendVersionNegotiation ==
  /\ phase = "writing" /\ sent = <<>> /\ writer.is_server /\ ~other
  /\ LET p == Packet("version_negotiation", Zeros, writer.peer_cid, writer.initial_dcid,
                     <<>>, 0, <<V1, V2>>)
     IN  sent' = <<p>> /\ datagram' = EncodeVersionNegotiation(p)
  /\ phase' = "reading"
  /\ UNCHANGED <<ends, hello, seals, got>>

SendRetry ==
  /\ phase = "writing" /\ sent = <<>> /\ writer.is_server /\ ~other
  /\ ~reader.retry_accepted
  /\ LET p == Packet("retry", writer.version, writer.peer_cid, RetryCid, TokenBytes, 0, <<>>)
         e == EncodeRetry(p, writer.initial_dcid, Len(seals) + 1)
     IN  /\ sent' = <<p>> /\ datagram' = e.bytes
         /\ seals' = Append(seals, e.seal)
  /\ phase' = "reading"
  /\ UNCHANGED <<ends, hello, got>>

Take(r) ==
  IF r.next = 0 THEN phase' = "failed" /\ UNCHANGED <<got, datagram>>
  ELSE /\ got' = Append(got, r.value)
       /\ datagram' = SubSeq(datagram, r.next, Len(datagram))
       /\ UNCHANGED phase

\* One round of the receive loop: it stops at the end and where only zeros are
\* left, and gives the whole datagram up when a packet cannot be read.
ReadPacket ==
  /\ phase = "reading"
  /\ \E i \in DOMAIN datagram : datagram[i] # 0
  /\ Take(Decode(reader, seals, datagram))
  /\ UNCHANGED <<ends, hello, seals, sent>>

FinishDatagram ==
  /\ phase = "reading"
  /\ \A i \in DOMAIN datagram : datagram[i] = 0
  /\ phase' = "done"
  /\ UNCHANGED <<ends, hello, seals, sent, datagram, got>>

Next ==
  \/ AppendFrames \/ AppendHello \/ Send
  \/ SendVersionNegotiation \/ SendRetry
  \/ ReadPacket \/ FinishDatagram

Spec == Init /\ [][Next]_vars

-----------------------------------------------------------------------------
\* The exception to what follows: a CONNECTION_CLOSE frame with an error of two
\* bytes or more, a frame type other than 0 or a reason: rfc9000.txt:6656 allows
\* them all, but DecodeClose looks for the length of the reason in the wrong place.
CloseMissed(p) ==
  /\ p.type \in DOMAIN Rank
  /\ \E i \in DOMAIN p.frames :
       LET f == p.frames[i]
       IN  f.type = "connection_close" /\ (f.nums[1] >= 64 \/ f.nums[2] # 0 \/ f.data # <<>>)

\* Every packet of a datagram is read as it was written, in the same order, and
\* nothing else is read (packet_codec.c, frame_codec.c and the receive loop of
\* endpoint.c): where one packet ends and the next starts, whatever the lengths
\* of its numbers and data, in both versions, whoever wrote it.  A packet with a
\* CONNECTION_CLOSE that the reader misses may be refused or read as another, but
\* not the ones before or behind it.
ReadBack ==
  /\ Len(got) <= Len(sent)
  /\ \A i \in DOMAIN got : got[i] = sent[i] \/ CloseMissed(sent[i])
  /\ phase = "done" => Len(got) = Len(sent)
  /\ phase = "failed" => Len(got) < Len(sent) /\ CloseMissed(sent[Len(got) + 1])

\* The transport parameters that an endpoint announced are the ones its peer reads
\* from the CRYPTO data it received (transport_params.c).
ParamsReadBack ==
  phase = "done" /\ hello # <<>> =>
    \E i \in DOMAIN got : \E j \in DOMAIN got[i].frames :
      LET f == got[i].frames[j] IN
      /\ f.type = "crypto" /\ f.nums = <<0>>
      /\ DecodeParams(f.data).next # 0 /\ DecodeParams(f.data).value = hello
=============================================================================
