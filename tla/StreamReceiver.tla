--------------------------- MODULE StreamReceiver ---------------------------
(***************************************************************************)
(* The receiving side of 1-RTT streams, the client of the demo: the        *)
(* received packet numbers (pn_space.c), reassembly (stream.c), the write  *)
(* to the download file and the acknowledgement (conn_io.c).  One datagram *)
(* is handled from end to end by one action: the ACK leaves in the flush   *)
(* of the same call of the endpoint.                                       *)
(***************************************************************************)
EXTENDS TransferNet, PacketNumberSet

CONSTANTS
  MaxReceivedRanges,  \* slots of space->received_ranges
  MaxAckRanges        \* AI_QUIC_MAX_ACK_RANGES, beyond the first

ASSUME ReceiverAssumption == MaxReceivedRanges \in Nat /\ MaxAckRanges \in Nat

VARIABLES
  received_pns,       \* what space->received_ranges covers
  recv_map,           \* [Streams -> SUBSET Nat]: bytes in the receive buffer
  final_size,         \* [Streams -> Nat \cup {NoFinalSize}]
  file_written,       \* [Streams -> Nat]: bytes appended to the download file
  download_finished,  \* [Streams -> BOOLEAN]
  receive_error       \* a handler returned AI_QUIC_ERROR: the client gives up

receiverVars == <<received_pns, recv_map, final_size, file_written,
                  download_finished, receive_error>>

NoFinalSize == -1

ReceiverInit ==
  /\ received_pns = {DonePn}
  /\ recv_map = [s \in Streams |-> {}]
  /\ final_size = [s \in Streams |-> NoFinalSize]
  /\ file_written = [s \in Streams |-> 0]
  /\ download_finished = [s \in Streams |-> FALSE]
  /\ receive_error = FALSE

ReceiverTypeOK ==
  /\ received_pns \subseteq Nat
  /\ recv_map \in [Streams -> SUBSET Nat]
  /\ final_size \in [Streams -> Nat \cup {NoFinalSize}]
  /\ file_written \in [Streams -> Nat]
  /\ download_finished \in [Streams -> BOOLEAN]
  /\ receive_error \in BOOLEAN

------------------------------------------------------------------------------
\* A slip: the highest end counts, gaps or not.
IsHighestEnd(n, S) == n \notin S /\ \A x \in S : x < n

\* recv_contiguous_end once the bytes in S are there.
IsContiguousEnd(n, S) == n \notin S /\ Span(0, n) \subseteq S

\* A slip: the first end seen is taken for the final size.
FirstEndIsFinal(p) ==
  IF final_size[p.sid] = NoFinalSize THEN p.end ELSE final_size[p.sid]

\* The checks of ai_quic_stream_on_receive, with "size" the final size known
\* after the frame's own FIN has been noted.
FinalSizeAfter(p) == IF p.fin THEN p.end ELSE final_size[p.sid]

ReceiveFails(p) ==
  \/ p.fin /\ final_size[p.sid] \notin {NoFinalSize, p.end}
  \/ FinalSizeAfter(p) # NoFinalSize /\ p.end > FinalSizeAfter(p)

\* ai_quic_conn_process_client_stream: everything contiguous goes to the file,
\* and the download is finished when the file has reached the final size.
ReceiveStream(p) ==
  LET s    == p.sid
      have == recv_map[s] \cup Bytes(p)
  IN  /\ recv_map' = [recv_map EXCEPT ![s] = have]
      /\ final_size' = [final_size EXCEPT ![s] = FinalSizeAfter(p)]
      /\ \E n \in 0 .. SendLen[s] :
           /\ IsContiguousEnd(n, have)
           /\ file_written' = [file_written EXCEPT ![s] = n]
           /\ download_finished' =
                [download_finished EXCEPT ![s] = @ \/ n = FinalSizeAfter(p)]

\* A data packet arrives: ai_quic_conn_on_packet for the 1-RTT space.
ReceivePacket(p) ==
  /\ ~ receive_error
  /\ received_pns' = RecordPn(received_pns, p.pn, MaxReceivedRanges)
  /\ receive_error' = ReceiveFails(p)
  /\ IF ReceiveFails(p)
     THEN UNCHANGED <<recv_map, final_size, file_written, download_finished>>
     ELSE ReceiveStream(p)
  /\ ack_net' = IF ReceiveFails(p) THEN ack_net
                ELSE ack_net \cup {AckedBy(RecordPn(received_pns, p.pn, MaxReceivedRanges), MaxAckRanges)}

\* The packet leaves the network, or stays to be delivered once more.
Deliver(p) ==
  /\ p \in net
  /\ Cardinality(ack_net) < MaxAcks
  /\ \/ net' = net \ {p} /\ UNCHANGED faults
     \/ /\ faults.dup < MaxDup /\ RoomFor(1)
        /\ faults' = [faults EXCEPT !.dup = @ + 1]
        /\ UNCHANGED net
  /\ ReceivePacket(p)
=============================================================================
