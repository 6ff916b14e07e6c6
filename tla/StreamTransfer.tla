--------------------------- MODULE StreamTransfer ---------------------------
(***************************************************************************)
(* A download: the sender of StreamSender, the receiver of StreamReceiver, *)
(* and a network that loses, reorders and duplicates datagrams.            *)
(*                                                                         *)
(* Sender and receiver are two processes.  A step of the receiver or of    *)
(* the network is taken between two handlers of the sender only: inside a  *)
(* handler the sender reads none of the state they write, so nothing is    *)
(* lost by letting the handler finish first.  A sender that has failed has  *)
(* left; what it sent before may still arrive.                             *)
(***************************************************************************)
EXTENDS StreamSender, StreamReceiver

vars == <<senderVars, receiverVars, netVars>>

Init == \E done_acked \in BOOLEAN :
          NetInit(done_acked) /\ SenderInit(done_acked) /\ ReceiverInit

SenderStep == SenderNext /\ UNCHANGED receiverVars

BetweenHandlers == phase \in {"idle", "failed"}

ReceiverStep ==
  /\ BetweenHandlers
  /\ \E p \in net : Deliver(p)
  /\ UNCHANGED senderVars

NetStep ==
  /\ BetweenHandlers
  /\ (\E p \in net : DropPacket(p)) \/ (\E a \in ack_net : DropAck(a))
  /\ UNCHANGED <<senderVars, receiverVars>>

\* The demo client leaves once every download is finished; without a server it
\* polls for ever.
AllFinished == \A s \in Streams : download_finished[s]

Finished == (AllFinished \/ phase = "failed") /\ UNCHANGED vars

Next == SenderStep \/ ReceiverStep \/ NetStep \/ Finished

\* Both event loops go on forever (select with a timeout of 20 ms), so some step
\* of an endpoint is taken whenever one is possible; losing is never owed.
Fairness == WF_vars(SenderStep \/ ReceiverStep)

Spec == Init /\ [][Next]_vars
LiveSpec == Spec /\ Fairness

------------------------------------------------------------------------------
\* The types of the variables of both sides and the network.
TypeOK == NetTypeOK /\ SenderTypeOK /\ ReceiverTypeOK

\* Bytes of stream s in packets that are still tracked.
Tracked(s) == UNION {Bytes(p) : p \in {q \in sent_packets : q.sid = s}}

\* Every byte has one owner on the sending side: no two tracked packets carry
\* it, and a byte that waits for retransmission is neither in a tracked packet
\* nor acknowledged.  (loss.c moves packets between the table and the range
\* sets; a byte with two owners would be sent again after its ACK.)
SingleOwner ==
  /\ \A p, q \in sent_packets : p # q /\ p.sid = q.sid => Bytes(p) \cap Bytes(q) = {}
  /\ \A s \in Streams : /\ lost_ranges[s] \cap acked_ranges[s] = {}
                        /\ lost_ranges[s] \cap Tracked(s) = {}
                        /\ acked_ranges[s] \cap Tracked(s) = {}

\* A byte that has been sent is at the receiver, tracked, or waits for its
\* retransmission, unless the range table was full when its loss was recorded.
BytesNotForgotten ==
  \A s \in Streams :
    s \in dropped \/ phase = "failed"
    \/ Span(0, send_offset[s]) \subseteq recv_map[s] \cup lost_ranges[s] \cup Tracked(s)

\* The same for the FIN.
FinNotForgotten ==
  \A s \in Streams :
    send_fin_sent[s] =>
      \/ s \in dropped \/ phase = "failed"
      \/ final_size[s] = SendLen[s]
      \/ lost_fin_pending[s]
      \/ \E p \in sent_packets : p.sid = s /\ p.fin

\* What the sender believes acknowledged is at the receiver, through spurious
\* losses, late ACKs, and the receiver's bounded memory of packet numbers.
AckedIsReceived ==
  \A s \in Streams : /\ acked_ranges[s] \subseteq recv_map[s]
                     /\ send_fin_acked[s] => final_size[s] = SendLen[s]

\* The file is the prefix of the stream that has arrived, and the download is
\* finished only with the whole file: fragments, retransmitted in other chunks
\* than they were sent in, never make the receiver fail or finish early.
FileIsPrefix ==
  /\ ~ receive_error
  /\ \A s \in Streams :
       /\ Span(0, file_written[s]) \subseteq recv_map[s]
       /\ file_written[s] \notin recv_map[s]
       /\ download_finished[s] => file_written[s] = SendLen[s]

------------------------------------------------------------------------------
(* The strengthening that makes the invariants above inductive.            *)

PacketsWF ==
  \A p \in sent_packets \cup net :
    /\ p.pn < next_packet_number
    /\ p.start <= p.end /\ p.end <= send_offset[p.sid]
    /\ p.fin => p.end = SendLen[p.sid] /\ send_fin_sent[p.sid]

PnUnique == \A p, q \in sent_packets \cup net : p.pn = q.pn => p = q

\* The packet numbers the receiver holds or an ACK frame names.
Received == received_pns \cup ack_frame \cup UNION ack_net

ReceivedWasSent == \A n \in Received : n < next_packet_number

\* A tracked packet with such a number has been processed by the receiver.
AckSound ==
  \A p \in sent_packets :
    p.pn \in Received => /\ Bytes(p) \subseteq recv_map[p.sid]
                         /\ p.fin => final_size[p.sid] = SendLen[p.sid]

OffsetsOK ==
  \A s \in Streams :
    /\ send_offset[s] <= SendLen[s]
    /\ lost_ranges[s] \cup acked_ranges[s] \cup recv_map[s] \subseteq Span(0, send_offset[s])
    /\ send_fin_sent[s] => send_offset[s] = SendLen[s]
    /\ send_offset[s] = SendLen[s] => send_fin_sent[s] \/ SendLen[s] = 0
    /\ lost_fin_pending[s] => send_fin_sent[s]
    /\ final_size[s] = NoFinalSize \/ (final_size[s] = SendLen[s] /\ send_fin_sent[s])
    /\ download_finished[s] => final_size[s] = SendLen[s]

\* The whole of it: whatever handlers, losses, repetitions and timers do in any
\* order keeps packets, offsets, acknowledgements and received bytes together.
IndInv ==
  /\ TypeOK
  /\ PacketsWF /\ PnUnique /\ ReceivedWasSent /\ AckSound /\ OffsetsOK
  /\ SingleOwner /\ BytesNotForgotten /\ FinNotForgotten
  /\ AckedIsReceived /\ FileIsPrefix

------------------------------------------------------------------------------
\* The packets a step sends carry no byte that has been acknowledged.
SendsUnackedOnly ==
  \A p \in sent_packets' \ sent_packets : Bytes(p) \cap acked_ranges[p.sid] = {}

\* A byte is put into a packet only if its acknowledgement has not been seen.
AckedNeverResent == [][SendsUnackedOnly]_vars

\* What the transfer audit says of loss detection: the byte ranges of every lost
\* packet are written back to lost_ranges.  A range that finds no slot is not.
LossesAlwaysRecorded ==
  phase # "failed" =>
    \A s \in Streams :
      Span(0, send_offset[s]) \subseteq recv_map[s] \cup lost_ranges[s] \cup Tracked(s)

\* A PTO expired with every byte and FIN sent and none of them lost as far as the
\* sender knows: the PING it probes with ended the process.
ProbedInVain ==
  /\ phase = "failed" /\ Cardinality(sent_packets) < MaxSentPackets
  /\ \A s \in Streams : ~ HasLostData(s) /\ ~ CanSendNew(s)

\* Every requested download completes, whatever is lost, late or probed for, or
\* a PTO finds nothing to probe with (ProbeGoesOut): no transfer stays where it
\* is, and none ends in another way.
EventuallyFinished == <> (AllFinished \/ ProbedInVain)

\* What the transfer design says of a PTO: it probes, with new data, with lost
\* data, or with a PING.  So a timer ends no connection; only a full packet
\* table does.
ProbeGoesOut == phase = "failed" => Cardinality(sent_packets) = MaxSentPackets

\* The transfer implements the pipe of ReliableStream: what is pushed is what
\* has been sent once, what is read is what has reached the file.
Pipe == INSTANCE ReliableStream WITH
          Len <- SendLen, sent <- send_offset, closed <- send_fin_sent,
          read <- file_written, finished <- download_finished

ImplementsPipe == Pipe!PipeSpec
=============================================================================
