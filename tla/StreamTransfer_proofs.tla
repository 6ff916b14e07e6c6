------------------------ MODULE StreamTransfer_proofs ------------------------
(***************************************************************************)
(* Theorems about StreamTransfer: its invariants for every number and      *)
(* length of streams, every chunk length, budget, threshold and cap of the *)
(* range tables, and every budget of faults.                               *)
(***************************************************************************)
EXTENDS StreamTransfer, Common_proofs

\* The fields of a packet, and the bytes it carries.
LEMMA PacketFields ==
  ASSUME NEW p \in Packet
  PROVE  /\ p.pn \in Nat /\ p.sid \in Streams
         /\ p.start \in Nat /\ p.end \in Nat /\ p.fin \in BOOLEAN
         /\ Bytes(p) \subseteq Nat
         /\ \A x : x \in Bytes(p) <=> x \in Nat /\ p.start <= x /\ x < p.end
BY SpanElements DEF Packet, Bytes

\* A packet with a STREAM frame carries the bytes of the frame.
LEMMA StreamPacketFields ==
  ASSUME NEW n \in Nat, NEW s \in Streams, NEW a \in Nat, NEW b \in Nat,
         NEW f \in BOOLEAN
  PROVE  /\ StreamPacket(n, s, a, b, f) \in Packet
         /\ StreamPacket(n, s, a, b, f).pn = n
         /\ StreamPacket(n, s, a, b, f).sid = s
         /\ StreamPacket(n, s, a, b, f).start = a
         /\ StreamPacket(n, s, a, b, f).end = b
         /\ StreamPacket(n, s, a, b, f).fin = f
         /\ Bytes(StreamPacket(n, s, a, b, f)) = Span(a, b)
BY DEF StreamPacket, Packet, Bytes

\* The packet with HANDSHAKE_DONE carries no byte and no FIN.
LEMMA DonePacketFields ==
  /\ DonePacket \in Packet
  /\ DonePacket.pn = 0 /\ DonePacket.sid = 0 /\ DonePacket.sid \in Streams
  /\ DonePacket.start = 0 /\ DonePacket.end = 0 /\ ~ DonePacket.fin
  /\ Bytes(DonePacket) = {}
<1>1. 0 \in Streams
  BY NetAssumption DEF Streams
<1>. QED  BY <1>1 DEF DonePacket, DonePn, StreamPacket, Packet, Bytes, Span

\* ai_quic_stream_range_remove adds nothing to a range set.
LEMMA RemoveSubset ==
  ASSUME NEW S, NEW a, NEW b, NEW cap
  PROVE  RangeRemove(S, a, b, cap) \subseteq S
BY DEF RangeRemove

------------------------------------------------------------------------------
(* Type correctness.                                                       *)

\* Both ends of a transfer start well typed.
LEMMA InitTypeOK == Init => TypeOK
<1>. SUFFICES ASSUME Init PROVE TypeOK
  OBVIOUS
<1>0. PICK done_acked \in BOOLEAN :
        NetInit(done_acked) /\ SenderInit(done_acked) /\ ReceiverInit
  BY DEF Init
<1>1. NetTypeOK
  BY <1>0 DEF NetInit, NetTypeOK, Faults, DonePn
<1>2. SenderTypeOK
  <2>1. 0 \in Streams
    BY NetAssumption DEF Streams
  <2>. QED
    BY <1>0, <2>1, DonePacketFields
    DEF SenderInit, SenderTypeOK, Phases, Budget, NoBudget, NoPn, DonePn
<1>3. ReceiverTypeOK
  <2>1. received_pns = {0}
    BY <1>0 DEF ReceiverInit, DonePn
  <2>2. received_pns \subseteq Nat
    BY <2>1
  <2>. QED  BY <1>0, <2>2 DEF ReceiverInit, ReceiverTypeOK
<1>. QED  BY <1>1, <1>2, <1>3 DEF TypeOK

\* The budgets a flush starts with.
LEMMA BudgetTypes ==
  ASSUME NEW probe \in {0, ProbeBudget}, NEW r \in BOOLEAN, NEW t \in BOOLEAN,
         next_packet_number \in Nat
  PROVE  FlushBudget(probe, r, t) \in Budget
BY SenderAssumption DEF FlushBudget, Budget

\* Charging a bound keeps the record of the bounds.
LEMMA ChargeType ==
  ASSUME NEW e \in Nat, NEW m \in Nat, faults \in Faults, Charge(e, m)
  PROVE  faults' \in Faults
<1>1. /\ faults.drop \in Nat /\ faults.dup \in Nat /\ faults.early \in Nat
      /\ faults.polls \in Nat /\ faults.modes \in Nat
  BY DEF Faults
<1>2. faults' = [drop |-> faults.drop, dup |-> faults.dup, early |-> faults.early + e,
                 polls |-> faults.polls, modes |-> faults.modes + m]
  BY DEF Charge, Faults
<1>. QED  BY <1>1, <1>2 DEF Faults

\* A flush step takes one from two of its budgets, which are not zero.
LEMMA SpendType ==
  ASSUME budget \in Budget, budget.packets > 0,
         NEW what \in {"probe", "retransmit", "new"}, budget[what] > 0, Spend(what)
  PROVE  budget' \in Budget
<1>1. /\ budget.first \in Nat /\ budget.packets \in Nat /\ budget.retransmit \in Nat
      /\ budget.new \in Nat /\ budget.probe \in Nat
  BY DEF Budget
<1>2. /\ budget.packets - 1 \in Nat
      /\ budget[what] - 1 \in Nat
  BY <1>1
<1>3. CASE what = "probe"
  <2>1. budget' = [first |-> budget.first, packets |-> budget.packets - 1,
                   retransmit |-> budget.retransmit,
                   new |-> budget.new, probe |-> budget.probe - 1]
    BY <1>3 DEF Spend, Budget
  <2>. QED  BY <1>1, <1>2, <1>3, <2>1 DEF Budget
<1>4. CASE what = "retransmit"
  <2>1. budget' = [first |-> budget.first, packets |-> budget.packets - 1,
                   retransmit |-> budget.retransmit - 1,
                   new |-> budget.new, probe |-> budget.probe]
    BY <1>4 DEF Spend, Budget
  <2>. QED  BY <1>1, <1>2, <1>4, <2>1 DEF Budget
<1>5. CASE what = "new"
  <2>1. budget' = [first |-> budget.first, packets |-> budget.packets - 1,
                   retransmit |-> budget.retransmit,
                   new |-> budget.new - 1, probe |-> budget.probe]
    BY <1>5 DEF Spend, Budget
  <2>. QED  BY <1>1, <1>2, <1>5, <2>1 DEF Budget
<1>. QED  BY <1>3, <1>4, <1>5

\* Every handler of the sender keeps the types, action by action.
LEMMA SenderTypes ==
  ASSUME TypeOK, SenderNext
  PROVE  SenderTypeOK' /\ NetTypeOK'
<1>. USE DEF TypeOK, SenderTypeOK, NetTypeOK
<1>1. CASE AckArrives
  <2>. SUFFICES ASSUME NEW a \in ack_net, NEW cut \in Nat, NEW c \in {0, 1},
                       OnAck(a, cut), Charge(c, 0)
                PROVE  SenderTypeOK' /\ NetTypeOK'
    <3>1. \A p \in sent_packets : p.pn + 1 \in Nat
      BY PacketFields
    <3>. QED  BY <1>1, <3>1 DEF AckArrives
  <2>1. faults' \in Faults
    BY ChargeType
  <2>2. largest_acked_packet' \in Nat \cup {NoPn}
    BY DEF OnAck
  <2>. QED  BY <2>1, <2>2 DEF OnAck, streamVars, Phases
<1>2. ASSUME NEW p \in sent_packets, AckOne(p)
      PROVE  SenderTypeOK' /\ NetTypeOK'
  <2>1. p.sid \in Streams /\ p.fin \in BOOLEAN /\ Bytes(p) \subseteq Nat
    BY PacketFields
  <2>2. /\ acked_ranges' \in [Streams -> SUBSET Nat]
        /\ lost_ranges' \in [Streams -> SUBSET Nat]
        /\ send_fin_acked' \in [Streams -> BOOLEAN]
        /\ lost_fin_pending' \in [Streams -> BOOLEAN]
    <3>1. RangeRemove(lost_ranges[p.sid], p.start, p.end, MaxRanges) \in SUBSET Nat
      BY <2>1, RemoveSubset
    <3>. DEFINE R == RangeRemove(lost_ranges[p.sid], p.start, p.end, MaxRanges)
    <3>. HIDE DEF R
    <3>2. CASE RangeInsertFits(acked_ranges[p.sid], Bytes(p), MaxRanges)
      <4>1. /\ acked_ranges' = [acked_ranges EXCEPT ![p.sid] = @ \cup Bytes(p)]
            /\ lost_ranges' = [lost_ranges EXCEPT ![p.sid] = R]
            /\ send_fin_acked' = [send_fin_acked EXCEPT ![p.sid] = @ \/ p.fin]
            /\ lost_fin_pending' = [lost_fin_pending EXCEPT ![p.sid] = @ /\ ~ p.fin]
        BY <1>2, <3>2 DEF AckOne, MarkAcked, R
      <4>2. R \in SUBSET Nat
        BY <3>1 DEF R
      <4>3. /\ acked_ranges' \in [Streams -> SUBSET Nat]
            /\ lost_ranges' \in [Streams -> SUBSET Nat]
        BY <4>1, <4>2, <2>1
      <4>4. send_fin_acked' \in [Streams -> BOOLEAN]
        BY <4>1, <2>1
      <4>5. lost_fin_pending' \in [Streams -> BOOLEAN]
        BY <4>1, <2>1
      <4>. QED  BY <4>3, <4>4, <4>5
    <3>3. CASE ~ RangeInsertFits(acked_ranges[p.sid], Bytes(p), MaxRanges)
      BY <1>2, <3>3 DEF AckOne, MarkAcked
    <3>. QED  BY <3>2, <3>3
  <2>. QED  BY <1>2, <2>2 DEF AckOne, RemoveSent, jobVars, netVars
<1>3. CASE AckDone
  BY <1>3 DEF AckDone, streamVars, lossVars, netVars, Phases
<1>4. CASE Detect
  <2>. SUFFICES ASSUME NEW p \in sent_packets, DetectOne(p)
                PROVE  SenderTypeOK' /\ NetTypeOK'
    BY <1>4 DEF Detect
  <2>1. p.sid \in Streams /\ p.fin \in BOOLEAN /\ Bytes(p) \subseteq Nat
    BY PacketFields
  <2>2. /\ lost_ranges' \in [Streams -> SUBSET Nat]
        /\ lost_fin_pending' \in [Streams -> BOOLEAN]
        /\ dropped' \subseteq Streams
    <3>. DEFINE L == RangeInsertRuns(lost_ranges[p.sid],
                                     Bytes(p) \ acked_ranges[p.sid], MaxRanges)
    <3>1. L \in SUBSET Nat
      BY <2>1, InsertRunsBounds
    <3>2. lost_ranges' = [lost_ranges EXCEPT ![p.sid] = L]
      BY DEF DetectOne, MarkLost
    <3>3. lost_ranges' \in [Streams -> SUBSET Nat]
      BY <3>1, <3>2
    <3>. QED  BY <2>1, <3>3 DEF DetectOne, MarkLost
  <2>. QED  BY <2>2 DEF DetectOne, RemoveSent, jobVars, netVars
<1>5. CASE AckDetectDone
  BY <1>5 DEF AckDetectDone, streamVars, lossVars, netVars, Phases
<1>6. CASE Timer
  <2>1. ASSUME NEW p \in sent_packets, FireLoss(p)
        PROVE  SenderTypeOK' /\ NetTypeOK'
    <3>1. EarlyCost \in Nat
      BY DEF EarlyCost
    <3>2. faults' \in Faults
      BY <2>1, <3>1, ChargeType DEF FireLoss
    <3>3. p.pn + 1 \in Nat
      BY PacketFields
    <3>. QED  BY <2>1, <3>2, <3>3 DEF FireLoss, streamVars, lossVars, Phases
  <2>2. ASSUME NEW r \in BOOLEAN, NEW t \in BOOLEAN,
               TimerNotDue(r, t) \/ TimerDetectDone(r, t) \/ FirePto(r, t)
        PROVE  SenderTypeOK' /\ NetTypeOK'
    <3>1. EarlyCost \in Nat /\ CoolDownCost(r, t) \in Nat
      BY DEF EarlyCost, CoolDownCost
    <3>2. faults' \in Faults
      BY <2>2, <3>1, ChargeType DEF TimerNotDue, TimerDetectDone, FirePto
    <3>3. PICK probe \in {0, ProbeBudget} : StartFlush(probe, r, t)
      BY <2>2 DEF TimerNotDue, TimerDetectDone, FirePto
    <3>4. budget' \in Budget
      BY <3>3, BudgetTypes DEF StartFlush
    <3>. QED  BY <3>2, <3>3, <3>4 DEF StartFlush, streamVars, lossVars, Phases
  <2>. QED  BY <1>6, <2>1, <2>2 DEF Timer
<1>7. CASE FlushStep
  <2>. DEFINE Sent(p) == /\ p \in Packet /\ SendPacket(p)
                         /\ round_robin_cursor' \in Streams
                         /\ send_offset' \in [Streams -> Nat]
                         /\ send_fin_sent' \in [Streams -> BOOLEAN]
                         /\ lost_ranges' \in [Streams -> SUBSET Nat]
                         /\ lost_fin_pending' \in [Streams -> BOOLEAN]
                         /\ budget' \in Budget
  <2>1. ASSUME NEW p, Sent(p) PROVE SenderTypeOK' /\ NetTypeOK'
    BY <2>1 DEF SendPacket, Fail, Phases
  <2>2. \A s \in Streams : (s + 1) % NumStreams \in Streams
    BY NetAssumption DEF Streams
  <2>3. ASSUME NEW s \in Streams, NEW a \in ChunkEnds(s), NEW b \in ChunkEnds(s),
               ProbeLost(s, a, b) \/ Retransmit(s, a, b)
        PROVE  SenderTypeOK' /\ NetTypeOK'
    <3>. DEFINE fin == IF lost_ranges[s] = {} THEN TRUE
                       ELSE b = SendLen[s] /\ ~ send_fin_acked[s]
    <3>1. /\ a \in Nat /\ b \in Nat
          /\ fin \in BOOLEAN
      <4>1. a \in Nat /\ b \in Nat
        BY NetAssumption DEF ChunkEnds
      <4>2. fin \in BOOLEAN
        OBVIOUS
      <4>. QED  BY <4>1, <4>2
    <3>2. RetransmitFrame(s, a, b)
      BY <2>3 DEF ProbeLost, Retransmit
    <3>3. StreamPacket(next_packet_number, s, a, b, fin) \in Packet
      BY <3>1, StreamPacketFields
    <3>4. budget' \in Budget
      BY <2>3, SpendType DEF ProbeLost, Retransmit, Flushing
    <3>5. RangeRemove(lost_ranges[s], a, b, MaxRanges) \in SUBSET Nat
      BY RemoveSubset
    <3>6. lost_ranges' \in [Streams -> SUBSET Nat]
      BY <3>2, <3>5 DEF RetransmitFrame
    <3>7. Sent(StreamPacket(next_packet_number, s, a, b, fin))
      BY <2>2, <3>1, <3>2, <3>3, <3>4, <3>6 DEF RetransmitFrame
    <3>. QED  BY <2>1, <3>7
  <2>4. ASSUME NEW s \in Streams, NEW b \in ChunkEnds(s), ProbeNew(s, b) \/ SendNew(s, b)
        PROVE  SenderTypeOK' /\ NetTypeOK'
    <3>1. b \in Nat
      BY NetAssumption DEF ChunkEnds
    <3>2. NewFrame(s, b)
      BY <2>4 DEF ProbeNew, SendNew
    <3>3. StreamPacket(next_packet_number, s, send_offset[s], b, b = SendLen[s]) \in Packet
      BY <3>1, StreamPacketFields
    <3>4. budget' \in Budget
      BY <2>4, SpendType DEF ProbeNew, SendNew, Flushing
    <3>5. Sent(StreamPacket(next_packet_number, s, send_offset[s], b, b = SendLen[s]))
      BY <2>2, <3>1, <3>2, <3>3, <3>4 DEF NewFrame
    <3>. QED  BY <2>1, <3>5
  <2>5. CASE ProbePing
    <3>1. budget' \in Budget
      BY <2>5, SpendType DEF ProbePing, Flushing
    <3>. QED  BY <2>5, <3>1 DEF ProbePing, Fail, streamVars, Phases
  <2>6. CASE FlushEnd
    BY <2>6 DEF FlushEnd, streamVars, lossVars, netVars, Phases, Budget, NoBudget
  <2>. QED  BY <1>7, <2>3, <2>4, <2>5, <2>6 DEF FlushStep
<1>8. ASSUME NEW s \in Streams, PrepareSend(s)
      PROVE  SenderTypeOK' /\ NetTypeOK'
  BY <1>8 DEF PrepareSend, lossVars, netVars, Phases
<1>9. CASE Poll
  <2>1. faults' \in Faults
    BY <1>9 DEF Poll, Faults
  <2>. QED  BY <1>9, <2>1 DEF Poll, streamVars, lossVars, Phases
<1>. QED
  BY <1>1, <1>2, <1>3, <1>4, <1>5, <1>6, <1>7, <1>8, <1>9 DEF SenderNext

\* A datagram that arrives at the client keeps the types.
LEMMA DeliverTypes ==
  ASSUME TypeOK, NEW p \in net, Deliver(p), UNCHANGED senderVars
  PROVE  TypeOK'
<1>. USE DEF TypeOK, NetTypeOK, ReceiverTypeOK
<1>1. /\ p \in Packet /\ p.pn \in Nat /\ p.sid \in Streams /\ p.end \in Nat
      /\ p.fin \in BOOLEAN /\ Bytes(p) \subseteq Nat
  BY PacketFields
<1>2. SenderTypeOK'
  BY DEF SenderTypeOK, senderVars, streamVars, lossVars, jobVars
<1>3. net' \subseteq Packet /\ faults' \in Faults
  <2>1. CASE UNCHANGED faults
    BY <2>1 DEF Deliver
  <2>2. CASE faults' = [faults EXCEPT !.dup = @ + 1]
    BY <2>2 DEF Deliver, Faults
  <2>. QED  BY <2>1, <2>2 DEF Deliver
<1>4. RecordPn(received_pns, p.pn, MaxReceivedRanges) \subseteq Nat
  BY <1>1 DEF RecordPn
<1>5. received_pns' \subseteq Nat /\ ack_net' \subseteq SUBSET Nat
  BY <1>4 DEF Deliver, ReceivePacket, AckedBy
<1>6. receive_error' \in BOOLEAN
  BY DEF Deliver, ReceivePacket, ReceiveFails
<1>7. CASE ReceiveFails(p)
  BY <1>2, <1>3, <1>5, <1>6, <1>7 DEF Deliver, ReceivePacket
<1>8. CASE ~ ReceiveFails(p)
  <2>1. ReceiveStream(p)
    BY <1>8 DEF Deliver, ReceivePacket
  <2>2. FinalSizeAfter(p) \in Nat \cup {NoFinalSize}
    BY <1>1 DEF FinalSizeAfter
  <2>3. recv_map' \in [Streams -> SUBSET Nat] /\ final_size' \in [Streams -> Nat \cup {NoFinalSize}]
    BY <1>1, <2>1, <2>2 DEF ReceiveStream
  <2>4. PICK n \in 0 .. SendLen[p.sid] :
          /\ file_written' = [file_written EXCEPT ![p.sid] = n]
          /\ download_finished' =
               [download_finished EXCEPT ![p.sid] = @ \/ n = FinalSizeAfter(p)]
    BY <2>1 DEF ReceiveStream
  <2>5. n \in Nat
    BY <1>1, NetAssumption
  <2>6. file_written' \in [Streams -> Nat]
    BY <2>4, <2>5
  <2>7. download_finished' \in [Streams -> BOOLEAN]
    BY <2>4
  <2>. QED  BY <1>2, <1>3, <1>5, <1>6, <2>3, <2>6, <2>7
<1>. QED  BY <1>7, <1>8

\* A lost datagram keeps the types.
LEMMA DropTypes ==
  ASSUME TypeOK, NetStep
  PROVE  TypeOK'
<1>. USE DEF TypeOK, NetTypeOK
<1>1. SenderTypeOK' /\ ReceiverTypeOK'
  BY DEF NetStep, SenderTypeOK, ReceiverTypeOK, senderVars, streamVars, lossVars,
         jobVars, receiverVars
<1>2. faults' \in Faults
  BY DEF NetStep, DropPacket, DropAck, Faults
<1>. QED  BY <1>1, <1>2 DEF NetStep, DropPacket, DropAck

\* Every step of a transfer keeps the types.
LEMMA NextTypeOK == TypeOK /\ [Next]_vars => TypeOK'
<1>. SUFFICES ASSUME TypeOK, [Next]_vars PROVE TypeOK'
  OBVIOUS
<1>1. CASE SenderStep
  <2>1. ReceiverTypeOK'
    BY <1>1 DEF SenderStep, TypeOK, ReceiverTypeOK, receiverVars
  <2>. QED  BY <1>1, <2>1, SenderTypes DEF SenderStep, TypeOK
<1>2. CASE ReceiverStep
  BY <1>2, DeliverTypes DEF ReceiverStep
<1>3. CASE NetStep
  BY <1>3, DropTypes
<1>4. CASE UNCHANGED vars
  BY <1>4 DEF TypeOK, NetTypeOK, SenderTypeOK, ReceiverTypeOK, vars, senderVars,
              streamVars, lossVars, jobVars, receiverVars, netVars
<1>. QED  BY <1>1, <1>2, <1>3, <1>4 DEF Next, Finished

\* Every variable keeps its type: the flush never spends a budget it does not
\* have, and the range operations only hand out byte offsets.
THEOREM TypeCorrect == Spec => []TypeOK
BY InitTypeOK, NextTypeOK, PTL DEF Spec

------------------------------------------------------------------------------
(* The inductive invariant, one lemma per kind of step.                    *)

\* The inductive invariant holds before anything is sent.
LEMMA InitInd == Init => IndInv
<1>. SUFFICES ASSUME Init PROVE IndInv
  OBVIOUS
<1>1. TypeOK
  BY InitTypeOK
<1>. USE DEF NetInit, SenderInit, ReceiverInit, DonePn
<1>0. PICK done_acked \in BOOLEAN :
        NetInit(done_acked) /\ SenderInit(done_acked) /\ ReceiverInit
  BY DEF Init
<1>. USE <1>0
<1>10. /\ sent_packets \subseteq {DonePacket} /\ net = {} /\ ack_frame = {}
       /\ received_pns = {0} /\ UNION ack_net \subseteq {0} /\ next_packet_number = 1
  OBVIOUS
<1>2. \A s \in Streams : SendLen[s] \in Nat /\ 0 \notin {} /\ Span(0, 0) = {}
  BY NetAssumption DEF Span
<1>3. PacketsWF /\ PnUnique /\ ReceivedWasSent /\ AckSound
  <2>1. Received \subseteq {0}
    BY <1>10 DEF Received
  <2>2. \A p \in sent_packets \cup net : p = DonePacket
    BY <1>10
  <2>3. send_offset[0] = 0
    BY DonePacketFields
  <2>. QED
    BY <1>10, <2>1, <2>2, <2>3, DonePacketFields
    DEF PacketsWF, PnUnique, ReceivedWasSent, AckSound
<1>4. OffsetsOK
  BY <1>2 DEF OffsetsOK
<1>5. SingleOwner
  <2>1. \A p \in sent_packets : Bytes(p) = {}
    BY <1>10, DonePacketFields
  <2>. QED  BY <2>1 DEF SingleOwner, Tracked
<1>6. BytesNotForgotten /\ FinNotForgotten /\ AckedIsReceived
  BY <1>2 DEF BytesNotForgotten, FinNotForgotten, AckedIsReceived
<1>7. FileIsPrefix
  BY <1>2 DEF FileIsPrefix
<1>. QED  BY <1>1, <1>3, <1>4, <1>5, <1>6, <1>7 DEF IndInv

\* Steps that leave the streams, the table and the receiver's buffers alone: the
\* program counter, budgets and timers of the sender, and the loss of datagrams.
LEMMA BookkeepingInd ==
  ASSUME IndInv, TypeOK',
         UNCHANGED <<send_offset, send_fin_sent, send_fin_acked, lost_fin_pending,
                     acked_ranges, lost_ranges, dropped, sent_packets, recv_map,
                     final_size, file_written, download_finished, receive_error>>,
         next_packet_number' >= next_packet_number,
         net' \subseteq net,
         Received' \subseteq Received,
         phase = "failed" => phase' = "failed"
  PROVE  IndInv'
<1>. USE DEF IndInv
<1>1. next_packet_number \in Nat /\ next_packet_number' \in Nat /\ Received \subseteq Nat
  BY DEF TypeOK, SenderTypeOK, NetTypeOK, ReceiverTypeOK, Received
<1>2. \A p \in sent_packets \cup net : p.pn \in Nat
  BY PacketFields DEF TypeOK, SenderTypeOK, NetTypeOK
<1>3. PacketsWF' /\ PnUnique'
  BY <1>1, <1>2 DEF PacketsWF, PnUnique
<1>4. ReceivedWasSent' /\ AckSound'
  <2>1. ReceivedWasSent'
    BY <1>1 DEF ReceivedWasSent
  <2>2. \A p \in sent_packets : p.pn \in Received' => p.pn \in Received
    OBVIOUS
  <2>3. AckSound'
    BY <2>2 DEF AckSound
  <2>. QED  BY <2>1, <2>3
<1>5. OffsetsOK'
  BY DEF OffsetsOK
<1>6. SingleOwner'
  BY DEF SingleOwner, Tracked
<1>7. BytesNotForgotten' /\ FinNotForgotten'
  BY DEF BytesNotForgotten, FinNotForgotten, Tracked
<1>8. AckedIsReceived' /\ FileIsPrefix'
  BY DEF AckedIsReceived, FileIsPrefix
<1>. QED  BY <1>3, <1>4, <1>5, <1>6, <1>7, <1>8

\* A tracked packet that the ACK names has been processed by the receiver: its
\* bytes become acknowledged, and they were nobody else's.
LEMMA AckOneInd ==
  ASSUME IndInv, TypeOK', NEW p \in sent_packets, AckOne(p), UNCHANGED receiverVars
  PROVE  IndInv'
<1>. USE DEF IndInv
<1>. DEFINE s == p.sid
<1>1. /\ p \in Packet /\ s \in Streams /\ p.pn \in Nat /\ p.start \in Nat
      /\ p.end \in Nat /\ p.fin \in BOOLEAN
      /\ \A x : x \in Bytes(p) <=> x \in Nat /\ p.start <= x /\ x < p.end
  BY PacketFields DEF TypeOK, SenderTypeOK
<1>2. /\ Bytes(p) \subseteq recv_map[s]
      /\ p.fin => final_size[s] = SendLen[s]
  BY DEF AckOne, AckFrameContains, AckSound, Received
<1>3. RangeRemove(lost_ranges[s], p.start, p.end, MaxRanges) = lost_ranges[s]
  <2>1. Bytes(p) \subseteq Tracked(s)
    BY DEF Tracked
  <2>2. lost_ranges[s] \cap Span(p.start, p.end) = {}
    BY <1>1, <2>1 DEF SingleOwner, Bytes
  <2>3. lost_ranges[s] \in SUBSET Span(0, send_offset[s]) /\ send_offset[s] \in Nat
    BY <1>1 DEF OffsetsOK, TypeOK, SenderTypeOK
  <2>. QED  BY <2>2, <2>3, RemoveAbsent
<1>4. /\ lost_ranges' = lost_ranges
      /\ \/ acked_ranges' = acked_ranges
         \/ acked_ranges' = [acked_ranges EXCEPT ![s] = @ \cup Bytes(p)]
      /\ \/ send_fin_acked' = send_fin_acked
         \/ p.fin /\ send_fin_acked' = [send_fin_acked EXCEPT ![s] = TRUE]
      /\ \/ lost_fin_pending' = lost_fin_pending
         \/ p.fin /\ lost_fin_pending' = [lost_fin_pending EXCEPT ![s] = FALSE]
  <2>1. lost_ranges = [lost_ranges EXCEPT ![s] = lost_ranges[s]]
    BY DEF TypeOK, SenderTypeOK
  <2>2. CASE RangeInsertFits(acked_ranges[s], Bytes(p), MaxRanges)
    <3>1. /\ acked_ranges' = [acked_ranges EXCEPT ![s] = @ \cup Bytes(p)]
          /\ lost_ranges' = [lost_ranges EXCEPT ![s] = lost_ranges[s]]
          /\ send_fin_acked' = [send_fin_acked EXCEPT ![s] = @ \/ p.fin]
          /\ lost_fin_pending' = [lost_fin_pending EXCEPT ![s] = @ /\ ~ p.fin]
      BY <2>2, <1>3 DEF AckOne, MarkAcked
    <3>2. /\ send_fin_acked \in [Streams -> BOOLEAN]
          /\ lost_fin_pending \in [Streams -> BOOLEAN]
      BY DEF TypeOK, SenderTypeOK
    <3>3. CASE p.fin
      <4>1. send_fin_acked' = [send_fin_acked EXCEPT ![s] = TRUE]
        BY <3>1, <3>2, <3>3
      <4>2. lost_fin_pending' = [lost_fin_pending EXCEPT ![s] = FALSE]
        BY <3>1, <3>2, <3>3
      <4>. QED  BY <2>1, <3>1, <3>3, <4>1, <4>2
    <3>4. CASE ~ p.fin
      <4>1. send_fin_acked' = send_fin_acked
        BY <3>1, <3>2, <3>4
      <4>2. lost_fin_pending' = lost_fin_pending
        BY <3>1, <3>2, <3>4
      <4>. QED  BY <2>1, <3>1, <4>1, <4>2
    <3>. QED  BY <3>3, <3>4
  <2>3. CASE ~ RangeInsertFits(acked_ranges[s], Bytes(p), MaxRanges)
    BY <2>3 DEF AckOne, MarkAcked
  <2>. QED  BY <2>2, <2>3
<1>5. /\ sent_packets' = sent_packets \ {p}
      /\ UNCHANGED <<send_offset, send_fin_sent, dropped, next_packet_number, net,
                     ack_net, ack_frame, phase, received_pns, recv_map, final_size,
                     file_written, download_finished, receive_error>>
  BY DEF AckOne, RemoveSent, jobVars, netVars, receiverVars
<1>6. /\ acked_ranges \in [Streams -> SUBSET Nat]
      /\ \A t \in Streams :
           \/ acked_ranges'[t] = acked_ranges[t]
           \/ t = s /\ acked_ranges'[t] = acked_ranges[t] \cup Bytes(p)
  BY <1>4 DEF TypeOK, SenderTypeOK
<1>7. PacketsWF' /\ PnUnique'
  BY <1>5 DEF PacketsWF, PnUnique
<1>8. ReceivedWasSent' /\ AckSound'
  BY <1>5 DEF ReceivedWasSent, AckSound, Received
<1>9. OffsetsOK'
  <2>1. \A t \in Streams : lost_fin_pending'[t] => lost_fin_pending[t]
    BY <1>4 DEF TypeOK, SenderTypeOK
  <2>2. Bytes(p) \subseteq Span(0, send_offset[s])
    BY <1>1, <1>2 DEF OffsetsOK
  <2>. QED  BY <1>4, <1>5, <1>6, <2>1, <2>2 DEF OffsetsOK
<1>10. SingleOwner'
  <2>1. \A q, r \in sent_packets' : q # r /\ q.sid = r.sid => Bytes(q) \cap Bytes(r) = {}
    BY <1>5 DEF SingleOwner
  <2>2. ASSUME NEW t \in Streams
        PROVE  /\ lost_ranges'[t] \cap acked_ranges'[t] = {}
               /\ lost_ranges'[t] \cap Tracked(t)' = {}
               /\ acked_ranges'[t] \cap Tracked(t)' = {}
    <3>1. Tracked(t)' \subseteq Tracked(t)
      BY <1>5 DEF Tracked
    <3>2. t = s => Bytes(p) \subseteq Tracked(t) /\ Bytes(p) \cap Tracked(t)' = {}
      BY <1>5 DEF Tracked, SingleOwner
    <3>. QED  BY <1>4, <1>6, <3>1, <3>2 DEF SingleOwner
  <2>. QED  BY <2>1, <2>2 DEF SingleOwner
<1>11. BytesNotForgotten'
  <2>1. \A t \in Streams : Tracked(t) \subseteq Tracked(t)' \cup recv_map[t]
    BY <1>2, <1>5 DEF Tracked
  <2>. QED  BY <1>4, <1>5, <2>1 DEF BytesNotForgotten
<1>12. FinNotForgotten'
  <2>1. \A t \in Streams : lost_fin_pending[t] => lost_fin_pending'[t] \/ final_size[t] = SendLen[t]
    BY <1>2, <1>4 DEF TypeOK, SenderTypeOK
  <2>. QED  BY <1>2, <1>5, <2>1 DEF FinNotForgotten
<1>13. AckedIsReceived'
  <2>1. \A t \in Streams : send_fin_acked'[t] => send_fin_acked[t] \/ final_size[t] = SendLen[t]
    BY <1>2, <1>4 DEF TypeOK, SenderTypeOK
  <2>. QED  BY <1>2, <1>5, <1>6, <2>1 DEF AckedIsReceived
<1>14. FileIsPrefix'
  BY <1>5 DEF FileIsPrefix
<1>. QED  BY <1>7, <1>8, <1>9, <1>10, <1>11, <1>12, <1>13, <1>14

\* A packet declared lost hands its bytes to lost_ranges; when the table of
\* ranges is full the stream is noted in "dropped".
LEMMA DetectOneInd ==
  ASSUME IndInv, TypeOK', NEW p \in sent_packets, DetectOne(p), UNCHANGED receiverVars
  PROVE  IndInv'
<1>. USE DEF IndInv
<1>. DEFINE s    == p.sid
            gaps == Bytes(p) \ acked_ranges[s]
            L    == RangeInsertRuns(lost_ranges[s], gaps, MaxRanges)
            fits == Misfits(lost_ranges[s], gaps, MaxRanges) = {}
<1>1. /\ p \in Packet /\ s \in Streams /\ p.pn \in Nat /\ p.start \in Nat
      /\ p.end \in Nat /\ p.fin \in BOOLEAN
      /\ \A x : x \in Bytes(p) <=> x \in Nat /\ p.start <= x /\ x < p.end
  BY PacketFields DEF TypeOK, SenderTypeOK
<1>2. /\ sent_packets' = sent_packets \ {p}
      /\ UNCHANGED <<send_offset, send_fin_sent, send_fin_acked, acked_ranges,
                     next_packet_number, net, ack_net, ack_frame, phase, received_pns,
                     recv_map, final_size, file_written, download_finished, receive_error>>
  BY DEF DetectOne, RemoveSent, jobVars, netVars, receiverVars
<1>3. Bytes(p) \subseteq Tracked(s) /\ gaps = Bytes(p)
  <2>1. Bytes(p) \subseteq Tracked(s)
    BY DEF Tracked
  <2>. QED  BY <1>1, <2>1 DEF SingleOwner
<1>4. /\ lost_ranges[s] \subseteq L
      /\ L \subseteq lost_ranges[s] \cup Bytes(p)
      /\ fits => L = lost_ranges[s] \cup Bytes(p)
  BY <1>3, InsertRunsBounds
<1>. HIDE DEF L, fits
<1>5. /\ lost_ranges' = [lost_ranges EXCEPT ![s] = L]
      /\ lost_fin_pending' = [lost_fin_pending EXCEPT ![s] = @ \/ (fits /\ p.fin /\ ~ send_fin_acked[s])]
      /\ dropped' = IF fits THEN dropped ELSE dropped \cup {s}
  BY DEF DetectOne, MarkLost, L, fits
<1>6. /\ \A t \in Streams : t # s => lost_ranges'[t] = lost_ranges[t]
      /\ lost_ranges'[s] = L
  BY <1>1, <1>5 DEF TypeOK, SenderTypeOK
<1>7. /\ \A t \in Streams : t # s => lost_fin_pending'[t] = lost_fin_pending[t]
      /\ lost_fin_pending'[s] = (lost_fin_pending[s] \/ (fits /\ p.fin /\ ~ send_fin_acked[s]))
  BY <1>1, <1>5 DEF TypeOK, SenderTypeOK
<1>8. PacketsWF' /\ PnUnique'
  BY <1>2 DEF PacketsWF, PnUnique
<1>9. ReceivedWasSent' /\ AckSound'
  BY <1>2 DEF ReceivedWasSent, AckSound, Received
<1>10. OffsetsOK'
  <2>1. Bytes(p) \subseteq Span(0, send_offset[s])
    <3>1. p.end <= send_offset[s] /\ send_offset[s] \in Nat
      BY <1>1 DEF PacketsWF, TypeOK, SenderTypeOK
    <3>2. \A x : x \in Span(0, send_offset[s]) <=> x \in Nat /\ 0 <= x /\ x < send_offset[s]
      BY <3>1, SpanElements
    <3>. QED  BY <1>1, <3>1, <3>2
  <2>2. lost_fin_pending'[s] => send_fin_sent[s]
    BY <1>1, <1>7 DEF OffsetsOK, PacketsWF
  <2>. QED  BY <1>2, <1>4, <1>6, <1>7, <2>1, <2>2 DEF OffsetsOK
<1>11. SingleOwner'
  <2>1. \A q, r \in sent_packets' : q # r /\ q.sid = r.sid => Bytes(q) \cap Bytes(r) = {}
    BY <1>2 DEF SingleOwner
  <2>2. ASSUME NEW t \in Streams
        PROVE  /\ lost_ranges'[t] \cap acked_ranges'[t] = {}
               /\ lost_ranges'[t] \cap Tracked(t)' = {}
               /\ acked_ranges'[t] \cap Tracked(t)' = {}
    <3>1. Tracked(t)' \subseteq Tracked(t)
      BY <1>2 DEF Tracked
    <3>2. t = s => Bytes(p) \cap Tracked(t)' = {}
      BY <1>2 DEF Tracked, SingleOwner
    <3>. QED  BY <1>2, <1>3, <1>4, <1>6, <3>1, <3>2 DEF SingleOwner
  <2>. QED  BY <2>1, <2>2 DEF SingleOwner
<1>12. BytesNotForgotten'
  <2>. SUFFICES ASSUME NEW t \in Streams, t \notin dropped', phase' # "failed"
                PROVE  Span(0, send_offset'[t]) \subseteq
                         recv_map'[t] \cup lost_ranges'[t] \cup Tracked(t)'
    BY DEF BytesNotForgotten
  <2>1. Span(0, send_offset[t]) \subseteq recv_map[t] \cup lost_ranges[t] \cup Tracked(t)
    BY <1>2, <1>5 DEF BytesNotForgotten
  <2>2. CASE t = s
    <3>1. fits
      BY <1>5, <2>2
    <3>2. Tracked(t) \subseteq Tracked(t)' \cup Bytes(p)
      BY <1>2 DEF Tracked
    <3>. QED  BY <1>2, <1>4, <1>6, <2>1, <2>2, <3>1, <3>2
  <2>3. CASE t # s
    <3>1. Tracked(t) \subseteq Tracked(t)'
      BY <1>2, <2>3 DEF Tracked
    <3>. QED  BY <1>2, <1>6, <2>1, <2>3, <3>1
  <2>. QED  BY <2>2, <2>3
<1>13. FinNotForgotten'
  <2>. SUFFICES ASSUME NEW t \in Streams, send_fin_sent'[t], t \notin dropped',
                       phase' # "failed", final_size'[t] # SendLen[t], ~ lost_fin_pending'[t]
                PROVE  \E q \in sent_packets' : q.sid = t /\ q.fin
    BY DEF FinNotForgotten
  <2>1. ~ lost_fin_pending[t]
    BY <1>7
  <2>2. PICK q \in sent_packets : q.sid = t /\ q.fin
    BY <1>2, <1>5, <2>1 DEF FinNotForgotten
  <2>3. q # p
    <3>. SUFFICES ASSUME q = p PROVE FALSE
      OBVIOUS
    <3>1. fits
      BY <1>5, <2>2
    <3>2. ~ send_fin_acked[s]
      BY <1>1, <1>2, <2>2 DEF AckedIsReceived
    <3>. QED  BY <1>7, <2>2, <3>1, <3>2
  <2>. QED  BY <1>2, <2>2, <2>3
<1>14. AckedIsReceived' /\ FileIsPrefix'
  BY <1>2 DEF AckedIsReceived, FileIsPrefix
<1>. QED  BY <1>8, <1>9, <1>10, <1>11, <1>12, <1>13, <1>14

\* A packet that carries bytes nobody owns, taken from the front of lost_ranges or
\* from the unsent rest of the stream.
Carries(p, m, g) ==
  /\ send_offset[p.sid] <= m /\ m <= SendLen[p.sid]
  /\ p.start <= p.end /\ p.end <= m
  /\ send_fin_sent[p.sid] => g
  /\ g => m = SendLen[p.sid]
  /\ m = SendLen[p.sid] => g \/ SendLen[p.sid] = 0
  /\ p.fin => g /\ p.end = SendLen[p.sid]
  /\ g /\ ~ send_fin_sent[p.sid] => p.fin
  /\ Span(send_offset[p.sid], m) \subseteq Bytes(p)
  /\ Bytes(p) \cap acked_ranges[p.sid] = {}
  /\ Bytes(p) \cap Tracked(p.sid) = {}
  /\ send_offset' = [send_offset EXCEPT ![p.sid] = m]
  /\ send_fin_sent' = [send_fin_sent EXCEPT ![p.sid] = g]
  /\ lost_ranges' = [lost_ranges EXCEPT ![p.sid] = @ \ Bytes(p)]
  /\ lost_fin_pending' = [lost_fin_pending EXCEPT ![p.sid] = @ /\ ~ p.fin]

\* A packet with bytes that are owned by nobody else enters the table and the
\* network: what retransmissions, new data and probes have in common.
LEMMA SendInd ==
  ASSUME IndInv, TypeOK', UNCHANGED receiverVars, phase # "failed",
         NEW p \in Packet, SendPacket(p), p.pn = next_packet_number,
         NEW m \in Nat, NEW g \in BOOLEAN, Carries(p, m, g)
  PROVE  IndInv'
<1>. USE DEF IndInv, Carries
<1>. DEFINE s == p.sid
<1>1. /\ s \in Streams /\ p.pn \in Nat /\ p.start \in Nat /\ p.end \in Nat /\ p.fin \in BOOLEAN
      /\ \A x : x \in Bytes(p) <=> x \in Nat /\ p.start <= x /\ x < p.end
  BY PacketFields
<1>2. /\ UNCHANGED <<send_fin_acked, acked_ranges, dropped, ack_frame, ack_net,
                     received_pns, recv_map, final_size, file_written,
                     download_finished, receive_error>>
      /\ next_packet_number' = next_packet_number + 1
      /\ next_packet_number \in Nat
  BY DEF SendPacket, receiverVars, TypeOK, SenderTypeOK
<1>3. /\ \A t \in Streams : t # s => /\ send_offset'[t] = send_offset[t]
                                     /\ send_fin_sent'[t] = send_fin_sent[t]
                                     /\ lost_ranges'[t] = lost_ranges[t]
                                     /\ lost_fin_pending'[t] = lost_fin_pending[t]
      /\ send_offset'[s] = m /\ send_fin_sent'[s] = g
      /\ lost_ranges'[s] = lost_ranges[s] \ Bytes(p)
      /\ lost_fin_pending'[s] = (lost_fin_pending[s] /\ ~ p.fin)
  BY <1>1 DEF TypeOK, SenderTypeOK
<1>4. /\ sent_packets' \subseteq sent_packets \cup {p}
      /\ net' \subseteq net \cup {p}
      /\ sent_packets \subseteq sent_packets'
      /\ phase' # "failed" => p \in sent_packets'
  BY DEF SendPacket, Fail
<1>5. /\ \A q \in sent_packets \cup net : q \in Packet /\ q.pn < next_packet_number
      /\ \A q \in sent_packets : q.pn # p.pn
  BY <1>2, PacketFields DEF PacketsWF, TypeOK, SenderTypeOK, NetTypeOK
<1>6. /\ \A t \in Streams : SendLen[t] \in Nat /\ send_offset[t] \in Nat
      /\ \A t \in Streams : \A x : x \in Span(0, send_offset[t]) <=> x \in Nat /\ x < send_offset[t]
      /\ \A x : x \in Span(0, m) <=> x \in Nat /\ x < m
      /\ \A x : x \in Span(send_offset[s], m) <=> x \in Nat /\ send_offset[s] <= x /\ x < m
  <2>1. \A t \in Streams : SendLen[t] \in Nat /\ send_offset[t] \in Nat
    BY NetAssumption DEF TypeOK, SenderTypeOK
  <2>. QED  BY <1>1, <2>1 DEF Span
<1>7. \A t \in Streams : Span(0, send_offset[t]) \subseteq Span(0, send_offset'[t])
  BY <1>3, <1>6
<1>8. PacketsWF'
  <2>. SUFFICES ASSUME NEW q \in sent_packets' \cup net'
                PROVE  /\ q.pn < next_packet_number + 1
                       /\ q.start <= q.end /\ q.end <= send_offset'[q.sid]
                       /\ q.fin => q.end = SendLen[q.sid] /\ send_fin_sent'[q.sid]
    BY <1>2 DEF PacketsWF
  <2>1. CASE q = p
    BY <1>2, <1>3, <2>1
  <2>2. CASE q \in sent_packets \cup net
    <3>1. q \in Packet /\ q.sid \in Streams /\ q.pn \in Nat /\ q.end \in Nat
      BY <1>5, <2>2, PacketFields
    <3>. QED  BY <1>2, <1>3, <1>6, <2>2, <3>1 DEF PacketsWF
  <2>. QED  BY <1>4, <2>1, <2>2
<1>9. PnUnique'
  <2>1. \A q \in sent_packets \cup net : q.pn # p.pn
    BY <1>2, <1>5, PacketFields
  <2>. QED  BY <1>4, <2>1 DEF PnUnique
<1>10. Received' = Received /\ ReceivedWasSent'
  <2>1. Received' = Received /\ Received \subseteq Nat
    BY <1>2 DEF Received, TypeOK, SenderTypeOK, NetTypeOK, ReceiverTypeOK
  <2>. QED  BY <1>2, <2>1 DEF ReceivedWasSent
<1>11. AckSound'
  <2>1. p.pn \notin Received
    BY <1>2 DEF ReceivedWasSent
  <2>. QED  BY <1>2, <1>4, <1>10, <2>1 DEF AckSound
<1>12. OffsetsOK'
  <2>. SUFFICES ASSUME NEW t \in Streams
                PROVE  /\ send_offset'[t] <= SendLen[t]
                       /\ lost_ranges'[t] \cup acked_ranges'[t] \cup recv_map'[t]
                            \subseteq Span(0, send_offset'[t])
                       /\ send_fin_sent'[t] => send_offset'[t] = SendLen[t]
                       /\ send_offset'[t] = SendLen[t] => send_fin_sent'[t] \/ SendLen[t] = 0
                       /\ lost_fin_pending'[t] => send_fin_sent'[t]
                       /\ \/ final_size'[t] = NoFinalSize
                          \/ final_size'[t] = SendLen[t] /\ send_fin_sent'[t]
                       /\ download_finished'[t] => final_size'[t] = SendLen[t]
    BY DEF OffsetsOK
  <2>1. lost_ranges'[t] \cup acked_ranges'[t] \cup recv_map'[t] \subseteq Span(0, send_offset'[t])
    BY <1>2, <1>3, <1>7 DEF OffsetsOK
  <2>2. /\ send_offset'[t] <= SendLen[t]
        /\ send_fin_sent'[t] => send_offset'[t] = SendLen[t]
        /\ send_offset'[t] = SendLen[t] => send_fin_sent'[t] \/ SendLen[t] = 0
    BY <1>3 DEF OffsetsOK
  <2>3. lost_fin_pending'[t] => send_fin_sent'[t]
    BY <1>3 DEF OffsetsOK
  <2>4. /\ \/ final_size'[t] = NoFinalSize
           \/ final_size'[t] = SendLen[t] /\ send_fin_sent'[t]
        /\ download_finished'[t] => final_size'[t] = SendLen[t]
    BY <1>2, <1>3 DEF OffsetsOK
  <2>. QED  BY <2>1, <2>2, <2>3, <2>4
<1>13. SingleOwner'
  <2>1. \A q \in sent_packets : q.sid = s => Bytes(q) \cap Bytes(p) = {}
    BY DEF Tracked
  <2>2. \A q, r \in sent_packets' : q # r /\ q.sid = r.sid => Bytes(q) \cap Bytes(r) = {}
    BY <1>4, <2>1 DEF SingleOwner
  <2>3. \A t \in Streams : t # s => Tracked(t)' = Tracked(t)
    BY <1>4 DEF Tracked
  <2>4. Tracked(s)' \subseteq Tracked(s) \cup Bytes(p)
    BY <1>4 DEF Tracked
  <2>. QED  BY <1>2, <1>3, <2>2, <2>3, <2>4 DEF SingleOwner
<1>14. BytesNotForgotten'
  <2>. SUFFICES ASSUME NEW t \in Streams, t \notin dropped', phase' # "failed"
                PROVE  Span(0, send_offset'[t]) \subseteq
                         recv_map'[t] \cup lost_ranges'[t] \cup Tracked(t)'
    BY DEF BytesNotForgotten
  <2>1. Span(0, send_offset[t]) \subseteq recv_map[t] \cup lost_ranges[t] \cup Tracked(t)
    BY <1>2 DEF BytesNotForgotten
  <2>2. Tracked(t) \subseteq Tracked(t)'
    BY <1>4 DEF Tracked
  <2>3. CASE t # s
    BY <1>2, <1>3, <2>1, <2>2, <2>3
  <2>4. CASE t = s
    <3>1. Bytes(p) \subseteq Tracked(t)'
      BY <1>4, <2>4 DEF Tracked
    <3>2. Span(0, m) \subseteq Span(0, send_offset[s]) \cup Span(send_offset[s], m)
      BY <1>1, <1>6
    <3>. QED  BY <1>2, <1>3, <2>1, <2>2, <2>4, <3>1, <3>2
  <2>. QED  BY <2>3, <2>4
<1>15. FinNotForgotten'
  <2>. SUFFICES ASSUME NEW t \in Streams, send_fin_sent'[t], t \notin dropped',
                       phase' # "failed", final_size'[t] # SendLen[t], ~ lost_fin_pending'[t]
                PROVE  \E q \in sent_packets' : q.sid = t /\ q.fin
    BY DEF FinNotForgotten
  <2>1. CASE t = s /\ p.fin
    BY <1>4, <2>1
  <2>2. CASE ~ (t = s /\ p.fin)
    <3>1. send_fin_sent[t] /\ ~ lost_fin_pending[t]
      BY <1>1, <1>3, <2>2
    <3>. QED  BY <1>2, <1>4, <3>1 DEF FinNotForgotten
  <2>. QED  BY <2>1, <2>2
<1>16. AckedIsReceived' /\ FileIsPrefix'
  BY <1>2 DEF AckedIsReceived, FileIsPrefix
<1>. QED  BY <1>8, <1>9, <1>10, <1>11, <1>12, <1>13, <1>14, <1>15, <1>16

\* A packet is processed by the receiver: no check fails, the buffer and the file
\* grow, and the ACK frame names only packets that were processed.
LEMMA DeliverInd ==
  ASSUME IndInv, TypeOK', NEW p \in net, Deliver(p), UNCHANGED senderVars
  PROVE  IndInv'
<1>. USE DEF IndInv
<1>. DEFINE s == p.sid
            have == recv_map[s] \cup Bytes(p)
<1>1. /\ p \in Packet /\ s \in Streams /\ p.pn \in Nat /\ p.start \in Nat
      /\ p.end \in Nat /\ p.fin \in BOOLEAN
      /\ \A x : x \in Bytes(p) <=> x \in Nat /\ p.start <= x /\ x < p.end
  BY PacketFields DEF TypeOK, NetTypeOK
<1>2. UNCHANGED <<send_offset, send_fin_sent, send_fin_acked, lost_fin_pending,
                  acked_ranges, lost_ranges, dropped, sent_packets, ack_frame,
                  next_packet_number, phase>>
  BY DEF senderVars, streamVars, lossVars, jobVars
<1>3. net' \subseteq net /\ ~ receive_error
  BY DEF Deliver, ReceivePacket
<1>4. /\ p.pn < next_packet_number
      /\ p.end <= send_offset[s]
      /\ p.fin => p.end = SendLen[s] /\ send_fin_sent[s]
      /\ send_offset[s] <= SendLen[s]
      /\ final_size[s] = NoFinalSize \/ final_size[s] = SendLen[s]
      /\ SendLen[s] \in Nat /\ send_offset[s] \in Nat
      /\ next_packet_number \in Nat
  BY <1>1, NetAssumption DEF PacketsWF, OffsetsOK, TypeOK, SenderTypeOK
<1>5. ~ ReceiveFails(p)
  BY <1>1, <1>4 DEF ReceiveFails, FinalSizeAfter, NoFinalSize
<1>6. /\ received_pns' \subseteq received_pns \cup {p.pn}
      /\ ack_net' \subseteq ack_net \cup {AckedBy(received_pns', MaxAckRanges)}
      /\ ~ receive_error'
  BY <1>3, <1>5 DEF Deliver, ReceivePacket, RecordPn
<1>7. Received' \subseteq Received \cup {p.pn}
  <2>1. AckedBy(received_pns', MaxAckRanges) \subseteq received_pns \cup {p.pn}
    BY <1>6 DEF AckedBy
  <2>. QED  BY <1>2, <1>6, <2>1 DEF Received
<1>8. /\ \A t \in Streams : t # s => recv_map'[t] = recv_map[t] /\ final_size'[t] = final_size[t]
      /\ recv_map'[s] = have /\ final_size'[s] = FinalSizeAfter(p)
  <2>1. ReceiveStream(p)
    BY <1>5 DEF Deliver, ReceivePacket
  <2>. QED  BY <1>1, <2>1 DEF ReceiveStream, TypeOK, ReceiverTypeOK
<1>9. /\ FinalSizeAfter(p) = NoFinalSize \/ FinalSizeAfter(p) = SendLen[s]
      /\ p.fin => FinalSizeAfter(p) = SendLen[s]
      /\ final_size[s] = SendLen[s] => FinalSizeAfter(p) = SendLen[s]
      /\ FinalSizeAfter(p) = SendLen[s] => send_fin_sent[s]
  <2>1. SendLen[s] # NoFinalSize
    BY <1>4 DEF NoFinalSize
  <2>2. final_size[s] = SendLen[s] => send_fin_sent[s]
    BY <1>1, <2>1 DEF OffsetsOK
  <2>3. CASE p.fin
    BY <1>4, <2>3 DEF FinalSizeAfter
  <2>4. CASE ~ p.fin
    BY <1>4, <2>2, <2>4 DEF FinalSizeAfter
  <2>. QED  BY <1>1, <2>3, <2>4
<1>10. /\ \A t \in Streams : recv_map[t] \subseteq recv_map'[t]
       /\ \A t \in Streams : final_size[t] = SendLen[t] => final_size'[t] = SendLen[t]
       /\ recv_map'[s] \subseteq have
  BY <1>8, <1>9
<1>11. /\ \A t \in Streams : t # s => /\ file_written'[t] = file_written[t]
                                      /\ download_finished'[t] = download_finished[t]
       /\ Span(0, file_written'[s]) \subseteq recv_map'[s] /\ file_written'[s] \notin recv_map'[s]
       /\ download_finished'[s] => final_size'[s] = SendLen[s] /\ file_written'[s] = SendLen[s]
  <2>1. /\ Span(0, file_written[s]) \subseteq recv_map[s] /\ file_written[s] \notin recv_map[s]
        /\ download_finished[s] => final_size[s] = SendLen[s] /\ file_written[s] = SendLen[s]
    BY <1>1 DEF FileIsPrefix, OffsetsOK
  <2>2. ReceiveStream(p)
    BY <1>5 DEF Deliver, ReceivePacket
  <2>3. PICK n \in 0 .. SendLen[s] :
          /\ n \notin have /\ Span(0, n) \subseteq have
          /\ file_written' = [file_written EXCEPT ![s] = n]
          /\ download_finished' =
               [download_finished EXCEPT ![s] = @ \/ n = FinalSizeAfter(p)]
    BY <2>2 DEF ReceiveStream, IsContiguousEnd
  <2>4. /\ n \in Nat /\ n <= SendLen[s]
        /\ file_written'[s] = n
        /\ download_finished'[s] = (download_finished[s] \/ n = FinalSizeAfter(p))
    BY <1>1, <1>4, <2>3 DEF TypeOK, ReceiverTypeOK
  <2>5. recv_map'[s] = have /\ final_size'[s] = FinalSizeAfter(p)
    BY <1>8
  <2>6. n = FinalSizeAfter(p) => n = SendLen[s]
    BY <1>9, <2>4 DEF NoFinalSize
  <2>7. download_finished[s] => n = SendLen[s]
    <3>. SUFFICES ASSUME download_finished[s] PROVE n = SendLen[s]
      OBVIOUS
    <3>1. n \notin Span(0, SendLen[s])
      BY <2>1, <2>3
    <3>2. n \notin Span(0, SendLen[s]) => n >= SendLen[s]
      BY <1>4, <2>4, SpanElements
    <3>. QED  BY <1>4, <2>4, <3>1, <3>2
  <2>8. download_finished'[s] => final_size'[s] = SendLen[s]
    BY <1>9, <2>1, <2>4, <2>5, <2>6
  <2>9. \A t \in Streams : t # s => /\ file_written'[t] = file_written[t]
                                    /\ download_finished'[t] = download_finished[t]
    BY <2>3 DEF TypeOK, ReceiverTypeOK
  <2>. QED  BY <2>3, <2>4, <2>5, <2>6, <2>7, <2>8, <2>9
<1>12. PacketsWF' /\ PnUnique'
  BY <1>2, <1>3 DEF PacketsWF, PnUnique
<1>13. ReceivedWasSent'
  BY <1>2, <1>4, <1>7 DEF ReceivedWasSent
<1>14. AckSound'
  <2>. SUFFICES ASSUME NEW q \in sent_packets, q.pn \in Received'
                PROVE  /\ Bytes(q) \subseteq recv_map'[q.sid]
                       /\ q.fin => final_size'[q.sid] = SendLen[q.sid]
    BY <1>2 DEF AckSound
  <2>1. q.sid \in Streams
    BY PacketFields DEF TypeOK, SenderTypeOK
  <2>2. CASE q.pn \in Received
    BY <1>10, <2>1, <2>2 DEF AckSound
  <2>3. CASE q.pn \notin Received
    <3>1. q = p
      BY <1>7, <2>3 DEF PnUnique
    <3>. QED  BY <1>8, <1>9, <3>1
  <2>. QED  BY <2>2, <2>3
<1>15. OffsetsOK'
  <2>1. recv_map'[s] \subseteq Span(0, send_offset[s])
    <3>1. \A x : x \in Span(0, send_offset[s]) <=> x \in Nat /\ x < send_offset[s]
      BY <1>4, SpanElements
    <3>2. Bytes(p) \subseteq Span(0, send_offset[s])
      BY <1>1, <1>4, <3>1
    <3>. QED  BY <1>1, <1>10, <3>2 DEF OffsetsOK
  <2>2. \A t \in Streams : recv_map'[t] \subseteq Span(0, send_offset[t])
    BY <1>8, <2>1 DEF OffsetsOK
  <2>3. \A t \in Streams :
          \/ final_size'[t] = NoFinalSize
          \/ final_size'[t] = SendLen[t] /\ send_fin_sent[t]
    BY <1>1, <1>8, <1>9 DEF OffsetsOK
  <2>4. \A t \in Streams : download_finished'[t] => final_size'[t] = SendLen[t]
    BY <1>1, <1>8, <1>11 DEF OffsetsOK
  <2>. QED  BY <1>2, <2>2, <2>3, <2>4 DEF OffsetsOK
<1>16. SingleOwner'
  BY <1>2 DEF SingleOwner, Tracked
<1>17. BytesNotForgotten'
  BY <1>2, <1>10 DEF BytesNotForgotten, Tracked
<1>18. FinNotForgotten'
  BY <1>2, <1>10 DEF FinNotForgotten
<1>19. AckedIsReceived'
  BY <1>2, <1>10 DEF AckedIsReceived
<1>20. FileIsPrefix'
  BY <1>1, <1>6, <1>8, <1>11 DEF FileIsPrefix
<1>. QED  BY <1>12, <1>13, <1>14, <1>15, <1>16, <1>17, <1>18, <1>19, <1>20

\* What pop_lost_range takes is the front of lost_ranges: sent before, owned by
\* nobody else, and followed by the FIN exactly when it ends the stream.
LEMMA RetransmitInd ==
  ASSUME IndInv, TypeOK', UNCHANGED receiverVars, phase # "failed",
         NEW s \in Streams, NEW a \in Nat, NEW b \in Nat, RetransmitFrame(s, a, b)
  PROVE  IndInv'
<1>0. /\ TypeOK /\ PacketsWF /\ OffsetsOK /\ SingleOwner
  BY DEF IndInv
<1>. USE <1>0
<1>. DEFINE fin == IF lost_ranges[s] = {} THEN TRUE
                   ELSE b = SendLen[s] /\ ~ send_fin_acked[s]
            p   == StreamPacket(next_packet_number, s, a, b, fin)
<1>1. /\ send_offset[s] \in Nat /\ SendLen[s] \in Nat /\ next_packet_number \in Nat
      /\ send_offset[s] <= SendLen[s]
      /\ lost_ranges[s] \in SUBSET Span(0, send_offset[s])
      /\ send_fin_sent[s] \in BOOLEAN /\ fin \in BOOLEAN
  BY NetAssumption DEF TypeOK, SenderTypeOK, OffsetsOK
<1>2. /\ p \in Packet /\ p.pn = next_packet_number /\ p.sid = s /\ p.start = a
      /\ p.end = b /\ p.fin = fin /\ Bytes(p) = Span(a, b)
  <2>1. fin \in BOOLEAN /\ next_packet_number \in Nat
    BY <1>1
  <2>. HIDE DEF fin
  <2>. QED  BY <2>1, StreamPacketFields
<1>3. /\ a <= b /\ b <= send_offset[s]
      /\ Span(a, b) \subseteq lost_ranges[s]
      /\ RangeRemove(lost_ranges[s], a, b, MaxRanges) = lost_ranges[s] \ Span(a, b)
      /\ fin => send_fin_sent[s] /\ b = SendLen[s]
  <2>1. CASE lost_ranges[s] = {}
    <3>1. lost_fin_pending[s] /\ a = SendLen[s] /\ b = a
      BY <2>1 DEF RetransmitFrame, RetransmitPick, HasLostData, LostStart
    <3>2. send_fin_sent[s] /\ send_offset[s] = SendLen[s]
      BY <3>1 DEF OffsetsOK
    <3>3. Span(a, b) = {}
      BY <3>1, SpanElements
    <3>4. RangeRemove(lost_ranges[s], a, b, MaxRanges) = lost_ranges[s]
      BY <1>1, <3>3, RemoveAbsent
    <3>. QED  BY <1>1, <3>1, <3>2, <3>3, <3>4
  <2>2. CASE lost_ranges[s] # {}
    <3>1. FrontOf(lost_ranges[s], ChunkLen, a, b)
      BY <2>2 DEF RetransmitFrame
    <3>2. a < b /\ Span(a, b) \subseteq lost_ranges[s]
      BY <3>1 DEF FrontOf
    <3>3. b - 1 \in Span(0, send_offset[s])
      BY <1>1, <3>2 DEF Span
    <3>4. b <= send_offset[s]
      BY <1>1, <3>3 DEF Span
    <3>5. RangeRemove(lost_ranges[s], a, b, MaxRanges) = lost_ranges[s] \ Span(a, b)
      BY <1>1, <3>1, RemoveFront
    <3>6. fin => b = SendLen[s]
      BY <2>2
    <3>7. fin => send_fin_sent[s]
      BY <1>1, <3>2, <3>4, <3>6 DEF OffsetsOK
    <3>. QED  BY <3>2, <3>4, <3>5, <3>6, <3>7
  <2>. QED  BY <2>1, <2>2
<1>4. Bytes(p) \cap acked_ranges[s] = {} /\ Bytes(p) \cap Tracked(s) = {}
  <2>1. Bytes(p) \subseteq lost_ranges[s]
    BY <1>2, <1>3
  <2>2. /\ lost_ranges[s] \cap acked_ranges[s] = {}
        /\ lost_ranges[s] \cap Tracked(s) = {}
    BY DEF SingleOwner
  <2>. QED  BY <2>1, <2>2
<1>5. Span(send_offset[s], send_offset[s]) = {}
  BY <1>1 DEF Span
<1>6. /\ SendPacket(p)
      /\ lost_ranges' = [lost_ranges EXCEPT ![s] = @ \ Bytes(p)]
      /\ lost_fin_pending' = [lost_fin_pending EXCEPT ![s] = @ /\ ~ p.fin]
  BY <1>2, <1>3 DEF RetransmitFrame
<1>7. /\ send_offset' = [send_offset EXCEPT ![s] = send_offset[s]]
      /\ send_fin_sent' = [send_fin_sent EXCEPT ![s] = send_fin_sent[s]]
  BY DEF RetransmitFrame, TypeOK, SenderTypeOK
<1>8. /\ send_fin_sent[s] => send_offset[s] = SendLen[s]
      /\ send_offset[s] = SendLen[s] => send_fin_sent[s] \/ SendLen[s] = 0
  BY DEF OffsetsOK
<1>. HIDE DEF p, fin
<1>9. Carries(p, send_offset[s], send_fin_sent[s])
  BY <1>1, <1>2, <1>3, <1>4, <1>5, <1>6, <1>7, <1>8 DEF Carries
<1>. QED  BY <1>1, <1>2, <1>6, <1>9, SendInd

\* New data starts where the last new data ended, so its bytes have no owner yet.
LEMMA NewInd ==
  ASSUME IndInv, TypeOK', UNCHANGED receiverVars, phase # "failed",
         NEW s \in Streams, NEW b \in Nat, NewFrame(s, b)
  PROVE  IndInv'
<1>0. /\ TypeOK /\ PacketsWF /\ OffsetsOK /\ SingleOwner
  BY DEF IndInv
<1>. USE <1>0
<1>. DEFINE a   == send_offset[s]
            fin == b = SendLen[s]
            p   == StreamPacket(next_packet_number, s, a, b, fin)
<1>1. /\ a \in Nat /\ SendLen[s] \in Nat /\ next_packet_number \in Nat
      /\ a <= SendLen[s] /\ fin \in BOOLEAN
      /\ lost_ranges[s] \cup acked_ranges[s] \subseteq Span(0, a)
  BY NetAssumption DEF TypeOK, SenderTypeOK, OffsetsOK
<1>2. /\ p \in Packet /\ p.pn = next_packet_number /\ p.sid = s /\ p.start = a
      /\ p.end = b /\ p.fin = fin /\ Bytes(p) = Span(a, b)
  <2>1. fin \in BOOLEAN /\ next_packet_number \in Nat /\ a \in Nat
    BY <1>1
  <2>. HIDE DEF fin, a
  <2>. QED  BY <2>1, StreamPacketFields
<1>3. a <= b /\ b <= SendLen[s]
  BY <1>1, NetAssumption DEF NewFrame
<1>4. ~ send_fin_sent[s]
  BY DEF NewFrame, CanSendNew
<1>5. Span(0, a) \cap Span(a, b) = {}
  BY <1>1, SpanElements
<1>6. Tracked(s) \subseteq Span(0, a)
  <2>. SUFFICES ASSUME NEW q \in sent_packets, q.sid = s, NEW x \in Bytes(q)
                PROVE  x \in Span(0, a)
    BY DEF Tracked
  <2>1. q.end <= a /\ q.end \in Nat /\ x \in Nat /\ x < q.end
    BY PacketFields DEF PacketsWF, TypeOK, SenderTypeOK
  <2>. QED  BY <1>1, <2>1, SpanElements
<1>7. /\ SendPacket(p)
      /\ send_offset' = [send_offset EXCEPT ![s] = b]
      /\ send_fin_sent' = [send_fin_sent EXCEPT ![s] = fin]
  BY DEF NewFrame
<1>8. lost_ranges' = [lost_ranges EXCEPT ![s] = @ \ Bytes(p)]
  <2>1. lost_ranges[s] \ Bytes(p) = lost_ranges[s]
    BY <1>1, <1>2, <1>5
  <2>. QED  BY <2>1 DEF NewFrame, TypeOK, SenderTypeOK
<1>9. lost_fin_pending' = [lost_fin_pending EXCEPT ![s] = @ /\ ~ p.fin]
  <2>1. ~ lost_fin_pending[s]
    BY <1>4 DEF OffsetsOK
  <2>2. lost_fin_pending' = lost_fin_pending /\ lost_fin_pending \in [Streams -> BOOLEAN]
    BY DEF NewFrame, TypeOK, SenderTypeOK
  <2>. QED  BY <2>1, <2>2
<1>10. Bytes(p) \cap acked_ranges[s] = {} /\ Bytes(p) \cap Tracked(s) = {}
  BY <1>1, <1>2, <1>5, <1>6
<1>. HIDE DEF p, fin
<1>11. /\ fin => b = SendLen[s]
       /\ b = SendLen[s] => fin
  BY DEF fin
<1>12. Carries(p, b, fin)
  BY <1>1, <1>2, <1>3, <1>4, <1>7, <1>8, <1>9, <1>10, <1>11 DEF Carries
<1>. QED  BY <1>1, <1>2, <1>7, <1>12, SendInd

\* The actions of the sender that move its program counter only; a PING
\* probe, which is never sent, withdraws what its flush has staged.
LEMMA SenderBookkeepingInd ==
  ASSUME IndInv, TypeOK', UNCHANGED receiverVars,
         AckArrives \/ AckDone \/ AckDetectDone \/ Timer \/ FlushEnd \/ ProbePing
         \/ Poll \/ (\E s \in Streams : PrepareSend(s))
  PROVE  IndInv'
<1>. USE DEF receiverVars, streamVars, lossVars, netVars
<1>1. next_packet_number \in Nat
  BY DEF IndInv, TypeOK, SenderTypeOK
<1>. DEFINE Frame == <<send_offset, send_fin_sent, send_fin_acked, lost_fin_pending,
                       acked_ranges, lost_ranges, dropped, sent_packets, recv_map,
                       final_size, file_written, download_finished, receive_error>>
<1>. DEFINE Quiet == /\ UNCHANGED Frame
                     /\ next_packet_number' >= next_packet_number
                     /\ net' \subseteq net
                     /\ Received' \subseteq Received
                     /\ phase = "failed" => phase' = "failed"
<1>2. CASE AckArrives
  <2>. SUFFICES ASSUME NEW a, NEW cut, OnAck(a, cut) PROVE Quiet
    BY <1>2, BookkeepingInd DEF AckArrives
  <2>. QED  BY <1>1 DEF OnAck, Received
<1>3. CASE AckDone
  <2>1. Quiet
    BY <1>1, <1>3 DEF AckDone, Received
  <2>. QED  BY <2>1, BookkeepingInd
<1>4. CASE AckDetectDone
  <2>1. Quiet
    BY <1>1, <1>4 DEF AckDetectDone, Received
  <2>. QED  BY <2>1, BookkeepingInd
<1>5. CASE Timer
  <2>1. ASSUME NEW p \in sent_packets, FireLoss(p) PROVE Quiet
    BY <1>1, <2>1 DEF FireLoss, TimerMayFire, TimerDue, Received
  <2>2. ASSUME NEW r \in BOOLEAN, NEW t \in BOOLEAN,
               TimerNotDue(r, t) \/ TimerDetectDone(r, t) \/ FirePto(r, t)
        PROVE  Quiet
    <3>1. PICK probe : StartFlush(probe, r, t)
      BY <2>2 DEF TimerNotDue, TimerDetectDone, FirePto
    <3>2. phase # "failed"
      BY <2>2 DEF TimerNotDue, TimerDetectDone, FirePto, TimerMayFire, TimerDue
    <3>. QED  BY <1>1, <3>1, <3>2 DEF StartFlush, Received
  <2>3. Quiet
    BY <1>5, <2>1, <2>2 DEF Timer
  <2>. QED  BY <2>3, BookkeepingInd
<1>6. CASE FlushEnd
  <2>1. Quiet
    BY <1>1, <1>6 DEF FlushEnd, Received
  <2>. QED  BY <2>1, BookkeepingInd
<1>7. CASE Poll
  <2>1. Quiet
    BY <1>1, <1>7 DEF Poll, Received
  <2>. QED  BY <2>1, BookkeepingInd
<1>8. ASSUME NEW s \in Streams, PrepareSend(s) PROVE IndInv'
  <2>1. Quiet
    BY <1>1, <1>8 DEF PrepareSend, Received
  <2>. QED  BY <2>1, BookkeepingInd
<1>9. CASE ProbePing
  <2>1. Quiet
    BY <1>1, <1>9 DEF ProbePing, Fail, Received
  <2>. QED  BY <2>1, BookkeepingInd
<1>. QED  BY <1>2, <1>3, <1>4, <1>5, <1>6, <1>7, <1>8, <1>9

\* Every handler of the sender keeps the inductive invariant.
LEMMA SenderInd ==
  ASSUME IndInv, TypeOK', SenderNext, UNCHANGED receiverVars
  PROVE  IndInv'
<1>1. CASE \E p \in sent_packets : AckOne(p)
  BY <1>1, AckOneInd
<1>2. CASE Detect
  BY <1>2, DetectOneInd DEF Detect
<1>3. CASE FlushStep
  <2>. USE DEF Flushing
  <2>1. \A s \in Streams : ChunkEnds(s) \subseteq Nat
    BY NetAssumption DEF ChunkEnds
  <2>2. ASSUME NEW s \in Streams, NEW a \in ChunkEnds(s), NEW b \in ChunkEnds(s),
               ProbeLost(s, a, b) \/ Retransmit(s, a, b)
        PROVE  IndInv'
    BY <2>1, <2>2, RetransmitInd DEF ProbeLost, Retransmit
  <2>3. ASSUME NEW s \in Streams, NEW b \in ChunkEnds(s), ProbeNew(s, b) \/ SendNew(s, b)
        PROVE  IndInv'
    BY <2>1, <2>3, NewInd DEF ProbeNew, SendNew
  <2>4. CASE ProbePing
    BY <2>4, SenderBookkeepingInd
  <2>5. CASE FlushEnd
    BY <2>5, SenderBookkeepingInd
  <2>. QED  BY <1>3, <2>2, <2>3, <2>4, <2>5 DEF FlushStep
<1>4. CASE AckArrives \/ AckDone \/ AckDetectDone \/ Timer \/ Poll
           \/ (\E s \in Streams : PrepareSend(s))
  BY <1>4, SenderBookkeepingInd
<1>. QED  BY <1>1, <1>2, <1>3, <1>4 DEF SenderNext

\* Every step of a transfer keeps the inductive invariant.
LEMMA NextInd == IndInv /\ [Next]_vars => IndInv'
<1>. SUFFICES ASSUME IndInv, [Next]_vars PROVE IndInv'
  OBVIOUS
<1>1. TypeOK'
  BY NextTypeOK DEF IndInv
<1>2. CASE SenderStep
  BY <1>1, <1>2, SenderInd DEF SenderStep
<1>3. CASE ReceiverStep
  BY <1>1, <1>3, DeliverInd DEF ReceiverStep
<1>4. next_packet_number \in Nat
  BY DEF IndInv, TypeOK, SenderTypeOK
<1>. USE DEF vars, senderVars, streamVars, lossVars, jobVars, receiverVars, netVars
<1>5. CASE NetStep
  <2>1. Received' \subseteq Received /\ net' \subseteq net
    BY <1>5 DEF NetStep, DropPacket, DropAck, Received
  <2>. QED  BY <1>1, <1>4, <1>5, <2>1, BookkeepingInd DEF NetStep
<1>6. CASE UNCHANGED vars
  <2>1. Received' = Received
    BY <1>6 DEF Received
  <2>. QED  BY <1>1, <1>4, <1>6, <2>1, BookkeepingInd
<1>. QED  BY <1>2, <1>3, <1>5, <1>6 DEF Next, Finished

\* The inductive invariant: the safety invariants of a transfer together with
\* what the packets, the acknowledgements and the offsets have to do with one
\* another.
THEOREM Invariance == Spec => []IndInv
BY InitInd, NextInd, PTL DEF Spec

------------------------------------------------------------------------------
\* A byte has one owner at the sender: a packet still tracked by loss.c, the lost
\* ranges, or the acknowledged ranges of stream.c, through any loss and any late,
\* repeated or partial acknowledgement.
THEOREM OneOwner == Spec => []SingleOwner
<1>1. IndInv => SingleOwner
  BY DEF IndInv
<1>. QED  BY <1>1, Invariance, PTL

\* Loss recovery forgets no byte: one that was sent is at the receiver, in flight
\* or due for retransmission, as long as no range table has overflowed
\* (ai_quic_stream_mark_lost, ai_quic_loss_on_ack_received).
THEOREM NoByteForgotten == Spec => []BytesNotForgotten
<1>1. IndInv => BytesNotForgotten
  BY DEF IndInv
<1>. QED  BY <1>1, Invariance, PTL

\* The same of the end of a stream (lost_fin_pending of stream.c).
THEOREM NoFinForgotten == Spec => []FinNotForgotten
<1>1. IndInv => FinNotForgotten
  BY DEF IndInv
<1>. QED  BY <1>1, Invariance, PTL

\* mark_acked is only reached for bytes the receiver has: the eviction of packet
\* numbers and the capped ACK frame lose acknowledgements and never invent one.
THEOREM AcksAreTrue == Spec => []AckedIsReceived
<1>1. IndInv => AckedIsReceived
  BY DEF IndInv
<1>. QED  BY <1>1, Invariance, PTL

\* ai_quic_stream_on_receive never rejects what this sender sends, and the file
\* the client writes is a prefix of the one served until it is the whole of it.
THEOREM FileCorrect == Spec => []FileIsPrefix
<1>1. IndInv => FileIsPrefix
  BY DEF IndInv
<1>. QED  BY <1>1, Invariance, PTL

------------------------------------------------------------------------------
(* What a step may never do.                                               *)

\* No step that adds a packet to the table touches the acknowledged ranges.
LEMMA SendOrAck ==
  [Next]_vars => sent_packets' \subseteq sent_packets \/ UNCHANGED acked_ranges
<1>. SUFFICES ASSUME [Next]_vars
              PROVE  sent_packets' \subseteq sent_packets \/ UNCHANGED acked_ranges
  OBVIOUS
<1>. USE DEF vars, senderVars, streamVars, lossVars, jobVars
<1>1. CASE SenderStep
  <2>1. CASE AckArrives \/ AckDone \/ AckDetectDone \/ Timer \/ Poll
             \/ (\E s \in Streams : PrepareSend(s))
    BY <2>1 DEF AckArrives, OnAck, AckDone, AckDetectDone, Timer, FireLoss, TimerNotDue,
                TimerDetectDone, FirePto, StartFlush, Poll, PrepareSend
  <2>2. CASE \E p \in sent_packets : AckOne(p)
    BY <2>2 DEF AckOne, RemoveSent
  <2>3. CASE Detect
    BY <2>3 DEF Detect, DetectOne
  <2>4. CASE FlushStep
    <3>1. CASE FlushEnd
      BY <3>1 DEF FlushEnd
    <3>2. CASE ProbePing
      BY <3>2 DEF ProbePing, Fail
    <3>3. ASSUME NEW s, NEW a, NEW b, ProbeLost(s, a, b) \/ Retransmit(s, a, b)
          PROVE  UNCHANGED acked_ranges
      BY <3>3 DEF ProbeLost, Retransmit, RetransmitFrame, SendPacket
    <3>4. ASSUME NEW s, NEW b, ProbeNew(s, b) \/ SendNew(s, b)
          PROVE  UNCHANGED acked_ranges
      BY <3>4 DEF ProbeNew, SendNew, NewFrame, SendPacket
    <3>. QED  BY <2>4, <3>1, <3>2, <3>3, <3>4 DEF FlushStep
  <2>. QED  BY <1>1, <2>1, <2>2, <2>3, <2>4 DEF SenderStep, SenderNext
<1>2. CASE ReceiverStep \/ NetStep \/ UNCHANGED vars
  BY <1>2 DEF ReceiverStep, NetStep
<1>. QED  BY <1>1, <1>2 DEF Next, Finished

\* A retransmission never carries a byte whose acknowledgement has been seen.
THEOREM NeverResent == Spec => AckedNeverResent
<1>1. IndInv /\ IndInv' /\ [Next]_vars => [SendsUnackedOnly]_vars
  <2>. SUFFICES ASSUME IndInv', [Next]_vars, NEW p \in sent_packets' \ sent_packets
                PROVE  Bytes(p) \cap acked_ranges[p.sid] = {}
    BY DEF SendsUnackedOnly
  <2>1. p \in Packet /\ p.sid \in Streams
    BY PacketFields DEF IndInv, TypeOK, SenderTypeOK
  <2>2. acked_ranges' = acked_ranges
    BY SendOrAck
  <2>3. Bytes(p) \subseteq Tracked(p.sid)'
    BY DEF Tracked
  <2>4. acked_ranges'[p.sid] \cap Tracked(p.sid)' = {}
    BY <2>1 DEF IndInv, SingleOwner
  <2>. QED  BY <2>2, <2>3, <2>4
<1>. QED  BY <1>1, Invariance, PTL DEF Spec, AckedNeverResent

------------------------------------------------------------------------------
(* The transfer implements the reliable pipe.                              *)

\* Nothing pushed, nothing read.
LEMMA PipeInitial == Init => Pipe!PipeInit
BY DEF Init, NetInit, SenderInit, ReceiverInit, Pipe!PipeInit

\* New data is a push of the pipe: bytes in order, closed with the last one.
LEMMA PushStep ==
  ASSUME IndInv, UNCHANGED receiverVars,
         NEW s \in Streams, NEW b \in Nat, NewFrame(s, b)
  PROVE  Pipe!Push(s)
<1>1. /\ send_offset[s] \in Nat /\ SendLen[s] \in Nat /\ send_offset[s] <= SendLen[s]
  BY NetAssumption DEF IndInv, TypeOK, SenderTypeOK, OffsetsOK
<1>2. b \in send_offset[s] .. SendLen[s]
  BY <1>1, NetAssumption DEF NewFrame
<1>. QED  BY <1>2 DEF NewFrame, CanSendNew, Pipe!Push, receiverVars

\* The client's write is a read of the pipe: it advances over received bytes
\* only, and ends the download at the length the sender closed the stream with.
LEMMA ReadStep ==
  ASSUME IndInv, IndInv', NEW p \in net, Deliver(p), UNCHANGED senderVars
  PROVE  Pipe!PipeNext \/ UNCHANGED Pipe!pipeVars
<1>. DEFINE s == p.sid
<1>1. p \in Packet /\ s \in Streams /\ Bytes(p) \subseteq Nat
  BY PacketFields DEF IndInv, TypeOK, NetTypeOK
<1>2. UNCHANGED <<send_offset, send_fin_sent>>
  BY DEF senderVars, streamVars
<1>3. CASE ReceiveFails(p)
  BY <1>2, <1>3 DEF Deliver, ReceivePacket, Pipe!pipeVars
<1>4. CASE ~ ReceiveFails(p)
  <2>1. ReceiveStream(p)
    BY <1>4 DEF Deliver, ReceivePacket
  <2>2. PICK n \in 0 .. SendLen[s] :
          /\ file_written' = [file_written EXCEPT ![s] = n]
          /\ download_finished' =
               [download_finished EXCEPT ![s] = @ \/ n = FinalSizeAfter(p)]
    BY <2>1 DEF ReceiveStream
  <2>3. /\ file_written[s] \in Nat /\ send_offset[s] \in Nat /\ SendLen[s] \in Nat
        /\ n \in Nat /\ file_written'[s] = n
        /\ download_finished \in [Streams -> BOOLEAN]
        /\ recv_map \in [Streams -> SUBSET Nat]
    <3>1. SendLen[s] \in Nat
      BY <1>1, NetAssumption
    <3>2. /\ file_written \in [Streams -> Nat] /\ send_offset[s] \in Nat
          /\ download_finished \in [Streams -> BOOLEAN]
          /\ recv_map \in [Streams -> SUBSET Nat]
      BY <1>1 DEF IndInv, TypeOK, ReceiverTypeOK, SenderTypeOK
    <3>3. n \in Nat
      BY <2>2, <3>1
    <3>4. file_written'[s] = n
      BY <1>1, <2>2, <3>2
    <3>. QED  BY <1>1, <3>1, <3>2, <3>3, <3>4
  <2>4. recv_map[s] \subseteq recv_map'[s] /\ final_size'[s] = FinalSizeAfter(p)
    BY <1>1, <2>1, <2>3 DEF ReceiveStream, IndInv, TypeOK, ReceiverTypeOK
  <2>5. /\ Span(0, file_written[s]) \subseteq recv_map[s]
        /\ Span(0, n) \subseteq recv_map'[s] /\ n \notin recv_map'[s]
        /\ recv_map'[s] \subseteq Span(0, send_offset[s])
    BY <1>1, <1>2, <2>3 DEF IndInv, FileIsPrefix, OffsetsOK
  <2>6. file_written[s] <= n
    <3>1. n \notin Span(0, file_written[s])
      BY <2>4, <2>5
    <3>. QED  BY <2>3, <3>1, SpanElements
  <2>7. n <= send_offset[s]
    <3>1. send_offset[s] \notin Span(0, n)
      BY <2>3, <2>5, SpanElements
    <3>. QED  BY <2>3, <3>1, SpanElements
  <2>8. n \in file_written[s] .. send_offset[s]
    BY <2>3, <2>6, <2>7
  <2>9. CASE n = FinalSizeAfter(p) /\ ~ download_finished[s]
    <3>1. download_finished' = [download_finished EXCEPT ![s] = TRUE]
      BY <2>2, <2>9
    <3>2. download_finished'[s]
      BY <1>1, <2>3, <3>1
    <3>3. final_size'[s] = SendLen[s] /\ n = SendLen[s] /\ send_fin_sent[s]
      BY <1>1, <1>2, <2>3, <3>2 DEF IndInv, FileIsPrefix, OffsetsOK, NoFinalSize
    <3>4. Pipe!Read(s)
      BY <1>2, <2>2, <2>8, <3>1, <3>3 DEF Pipe!Read
    <3>. QED  BY <1>1, <3>4 DEF Pipe!PipeNext
  <2>10. CASE ~ (n = FinalSizeAfter(p) /\ ~ download_finished[s])
    <3>1. (download_finished[s] \/ n = FinalSizeAfter(p)) = download_finished[s]
      BY <1>1, <2>3, <2>10
    <3>2. download_finished' = download_finished
      BY <2>2, <2>3, <3>1
    <3>3. Pipe!Read(s)
      BY <1>2, <2>2, <2>8, <3>2 DEF Pipe!Read
    <3>. QED  BY <1>1, <3>3 DEF Pipe!PipeNext
  <2>. QED  BY <2>9, <2>10
<1>. QED  BY <1>3, <1>4

\* Every step of a transfer is a push, a read, or invisible to the pipe.
LEMMA PipeStep ==
  IndInv /\ IndInv' /\ [Next]_vars => [Pipe!PipeNext]_(Pipe!pipeVars)
<1>. SUFFICES ASSUME IndInv, IndInv', [Next]_vars
              PROVE  Pipe!PipeNext \/ UNCHANGED Pipe!pipeVars
  OBVIOUS
<1>. USE DEF vars, senderVars, streamVars, receiverVars, Pipe!pipeVars
<1>1. CASE SenderStep
  <2>. USE DEF SenderStep
  <2>1. CASE AckArrives \/ AckDone \/ AckDetectDone \/ Timer \/ Poll
             \/ (\E s \in Streams : PrepareSend(s))
             \/ (\E p \in sent_packets : AckOne(p)) \/ Detect \/ FlushEnd \/ ProbePing
    BY <1>1, <2>1 DEF AckArrives, OnAck, AckDone, AckDetectDone, Timer, FireLoss,
         TimerNotDue, TimerDetectDone, FirePto, StartFlush, Poll, PrepareSend, AckOne,
         Detect, DetectOne, FlushEnd, ProbePing
  <2>2. ASSUME NEW s \in Streams, NEW a \in ChunkEnds(s), NEW b \in ChunkEnds(s),
               ProbeLost(s, a, b) \/ Retransmit(s, a, b)
        PROVE  UNCHANGED Pipe!pipeVars
    BY <1>1, <2>2 DEF ProbeLost, Retransmit, RetransmitFrame
  <2>3. ASSUME NEW s \in Streams, NEW b \in ChunkEnds(s), ProbeNew(s, b) \/ SendNew(s, b)
        PROVE  Pipe!PipeNext
    <3>1. b \in Nat
      BY NetAssumption DEF ChunkEnds
    <3>2. Pipe!Push(s)
      BY <1>1, <2>3, <3>1, PushStep DEF ProbeNew, SendNew
    <3>. QED  BY <3>2 DEF Pipe!PipeNext
  <2>. QED  BY <1>1, <2>1, <2>2, <2>3 DEF SenderNext, FlushStep
<1>2. CASE ReceiverStep
  BY <1>2, ReadStep DEF ReceiverStep
<1>3. CASE NetStep \/ UNCHANGED vars
  BY <1>3 DEF NetStep
<1>. QED  BY <1>1, <1>2, <1>3 DEF Next, Finished

\* Whatever is lost, late, acknowledged twice or retransmitted in other chunks,
\* the application sees a pipe: the file grows by bytes pushed before, in order,
\* and a download finishes only when the sender has closed the stream and the
\* file holds all of it.
THEOREM TransferImplementsPipe == Spec => ImplementsPipe
BY PipeInitial, PipeStep, Invariance, PTL DEF Spec, ImplementsPipe, Pipe!PipeSpec
=============================================================================
