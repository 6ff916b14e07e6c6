----------------------------- MODULE TransferNet -----------------------------
(***************************************************************************)
(* What the sender and the receiver of a transfer share: the streams and   *)
(* their lengths, 1-RTT packets, the two directions of the network, and    *)
(* the budgets that keep the instance finite.                              *)
(***************************************************************************)
EXTENDS Integers, FiniteSets, RangeSet

CONSTANTS
  NumStreams,      \* response streams in use, in the slots 0 .. NumStreams - 1
  SendLen,         \* [Streams -> Nat]: bytes of the file each stream carries
  ChunkLen,        \* AI_QUIC_MAX_STREAM_SEND_CHUNK_LEN
  MaxAcks,         \* bound: ACK frames in flight at a time
  MaxDrop,         \* bound: datagrams the network may lose
  MaxDup,          \* bound: data packets the network may deliver twice
  MaxEarly,        \* bound: packets' loss or PTO deadlines that pass too early
  MaxPolls,        \* bound: polls of the event loop that find nothing to send
  MaxModes,        \* bound: flushes during a credit or blocked cool-down
  MaxFaults        \* bound: the last four of these together

Streams == 0 .. (NumStreams - 1)

ASSUME NetAssumption ==
  /\ NumStreams \in Nat \ {0}
  /\ SendLen \in [Streams -> Nat]
  /\ ChunkLen \in Nat \ {0} /\ MaxAcks \in Nat
  /\ MaxDrop \in Nat /\ MaxDup \in Nat /\ MaxEarly \in Nat
  /\ MaxPolls \in Nat /\ MaxModes \in Nat /\ MaxFaults \in Nat

VARIABLES
  net,       \* packets from the sender that are in flight
  ack_net,   \* ACK frames in flight: sets of packet numbers
  faults     \* how much of each bound has been used

netVars == <<net, ack_net, faults>>

\* A 1-RTT packet as far as loss recovery sees it: its number and one STREAM
\* frame (ai_quic_conn_flush_app_data appends one per packet).
Packet == [pn : Nat, sid : Streams, start : Nat, end : Nat, fin : BOOLEAN]

StreamPacket(n, s, a, b, f) == [pn |-> n, sid |-> s, start |-> a, end |-> b, fin |-> f]

\* The server's first 1-RTT packet carries HANDSHAKE_DONE and no STREAM frame:
\* it is tracked, and its ACK or loss changes no stream.
DonePn == 0
DonePacket == StreamPacket(DonePn, 0, 0, 0, FALSE)

Bytes(p) == Span(p.start, p.end)

Faults == [drop : Nat, dup : Nat, early : Nat, polls : Nat, modes : Nat]

\* A transfer starts when the client has received HANDSHAKE_DONE: the ACK for it
\* is still in flight, or the server has seen it.
NetInit(done_acked) ==
  /\ net = {}
  /\ ack_net = IF done_acked THEN {} ELSE {{DonePn}}
  /\ faults = [drop |-> 0, dup |-> 0, early |-> 0, polls |-> 0, modes |-> 0]

NetTypeOK ==
  /\ net \subseteq Packet
  /\ ack_net \subseteq SUBSET Nat
  /\ faults \in Faults

\* The bounds leave room for n more.
RoomFor(n) ==
  faults.dup + faults.early + faults.polls + faults.modes + n <= MaxFaults

NetEmpty == net = {} /\ ack_net = {}

\* UDP loses a datagram, in either direction.
DropPacket(p) ==
  /\ p \in net
  /\ faults.drop < MaxDrop
  /\ net' = net \ {p}
  /\ faults' = [faults EXCEPT !.drop = @ + 1]
  /\ UNCHANGED ack_net

DropAck(a) ==
  /\ a \in ack_net
  /\ faults.drop < MaxDrop
  /\ ack_net' = ack_net \ {a}
  /\ faults' = [faults EXCEPT !.drop = @ + 1]
  /\ UNCHANGED net
=============================================================================
