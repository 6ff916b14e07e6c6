---------------------------- MODULE StreamSender ----------------------------
(***************************************************************************)
(* The sending side of 1-RTT streams: the send state of each stream        *)
(* (stream.c), the table of tracked packets (loss.c) and the flush of      *)
(* application data (conn_io.c).                                           *)
(*                                                                         *)
(* The program is a single thread around select(): a handler runs to its   *)
(* end before the next datagram is looked at.  A handler with loops is a   *)
(* sequence of steps here, one per iteration, and "phase" is its program   *)
(* counter: no other handler starts before it is back to "idle".           *)
(*                                                                         *)
(*   OnAck -> AckOne* -> DetectOne* -> [timer] -> Flush*  -> idle          *)
(*   Poll / PrepareSend             -> [timer] -> Flush*  -> idle          *)
(*                                                                         *)
(* Time is not a number: packets are sent in packet-number order, so the   *)
(* packets older than the loss delay are those below a cut.                *)
(***************************************************************************)
EXTENDS TransferNet

CONSTANTS
  MaxRanges,             \* AI_QUIC_MAX_TRACKED_STREAM_RANGES
  MaxSentPackets,        \* slots of loss->sent_packets
  PacketThreshold,       \* AI_QUIC_K_PACKET_THRESHOLD
  PacketBudget,          \* AI_QUIC_APP_DATA_PACKET_BUDGET
  RetransmitBudget,      \* AI_QUIC_APP_DATA_RETRANSMIT_BUDGET
  RetransmitOnlyBudget,  \* AI_QUIC_APP_DATA_RETRANSMIT_ONLY_(PACKET_)BUDGET
  NewDataBudget,         \* AI_QUIC_APP_DATA_NEW_DATA_BUDGET
  ThrottledBudget,       \* AI_QUIC_APP_DATA_THROTTLED_NEW_DATA_BUDGET
  ProbeBudget            \* AI_QUIC_PTO_PROBE_PACKET_BUDGET

ASSUME SenderAssumption ==
  /\ MaxRanges \in Nat /\ MaxSentPackets \in Nat /\ PacketThreshold \in Nat
  /\ PacketBudget \in Nat /\ RetransmitBudget \in Nat /\ RetransmitOnlyBudget \in Nat
  /\ NewDataBudget \in Nat /\ ThrottledBudget \in Nat /\ ProbeBudget \in Nat

VARIABLES
  next_packet_number,    \* of the application packet-number space
  prepared,              \* streams whose send buffer is filled (send_data, send_fin_requested)
  send_offset,           \* [Streams -> Nat]: first byte never sent
  send_fin_sent,         \* [Streams -> BOOLEAN]
  send_fin_acked,        \* [Streams -> BOOLEAN]
  lost_fin_pending,      \* [Streams -> BOOLEAN]
  acked_ranges,          \* [Streams -> SUBSET Nat]
  lost_ranges,           \* [Streams -> SUBSET Nat]
  round_robin_cursor,    \* slot the next new frame is looked for from
  sent_packets,          \* tracked packets: neither acknowledged nor declared lost
  largest_acked_packet,  \* largest acknowledged number, NoPn before the first ACK
  phase,                 \* program counter of the handler that runs
  ack_frame,             \* the ACK frame being processed
  loss_cut,              \* packets below it are older than the loss delay
  budget,                \* what the running flush may still send
  dropped                \* history: streams one of whose losses was not recorded

streamVars == <<prepared, send_offset, send_fin_sent, send_fin_acked,
                lost_fin_pending, acked_ranges, lost_ranges, dropped>>
lossVars == <<sent_packets, largest_acked_packet>>
jobVars == <<phase, ack_frame, loss_cut, budget>>
senderVars == <<streamVars, lossVars, jobVars, next_packet_number, round_robin_cursor>>

NoPn == -1
Phases == {"idle", "ack", "ack_detect", "timer", "timer_detect", "flush", "failed"}
Budget == [first : Nat, packets : Nat, retransmit : Nat, new : Nat, probe : Nat]
NoBudget == [first |-> 0, packets |-> 0, retransmit |-> 0, new |-> 0, probe |-> 0]

SenderInit(done_acked) ==
  /\ next_packet_number = DonePn + 1
  /\ prepared = {}
  /\ send_offset = [s \in Streams |-> 0]
  /\ send_fin_sent = [s \in Streams |-> FALSE]
  /\ send_fin_acked = [s \in Streams |-> FALSE]
  /\ lost_fin_pending = [s \in Streams |-> FALSE]
  /\ acked_ranges = [s \in Streams |-> {}]
  /\ lost_ranges = [s \in Streams |-> {}]
  /\ round_robin_cursor = 0
  /\ sent_packets = IF done_acked THEN {} ELSE {DonePacket}
  /\ largest_acked_packet = IF done_acked THEN DonePn ELSE NoPn
  /\ phase = "idle"
  /\ ack_frame = {}
  /\ loss_cut = 0
  /\ budget = NoBudget
  /\ dropped = {}

SenderTypeOK ==
  /\ next_packet_number \in Nat
  /\ prepared \subseteq Streams
  /\ send_offset \in [Streams -> Nat]
  /\ send_fin_sent \in [Streams -> BOOLEAN]
  /\ send_fin_acked \in [Streams -> BOOLEAN]
  /\ lost_fin_pending \in [Streams -> BOOLEAN]
  /\ acked_ranges \in [Streams -> SUBSET Nat]
  /\ lost_ranges \in [Streams -> SUBSET Nat]
  /\ round_robin_cursor \in Streams
  /\ sent_packets \subseteq Packet
  /\ largest_acked_packet \in Nat \cup {NoPn}
  /\ phase \in Phases
  /\ ack_frame \subseteq Nat
  /\ loss_cut \in Nat
  /\ budget \in Budget
  /\ dropped \subseteq Streams

------------------------------------------------------------------------------
(* The stream's view of a packet that is acknowledged or lost.             *)

\* ai_quic_stream_has_lost_data
HasLostData(s) == lost_fin_pending[s] \/ lost_ranges[s] # {}

\* ai_quic_conn_has_pending_new_stream_data for one stream: bytes or the FIN
\* have not been sent (every prepared stream requests a FIN).
HasNewData(s) == s \in prepared /\ (send_offset[s] < SendLen[s] \/ ~ send_fin_sent[s])

HasLost == \E s \in Streams : HasLostData(s)
HasNew == \E s \in Streams : HasNewData(s)

\* ai_quic_stream_mark_acked: when the range does not fit nothing is updated.
MarkAcked(p) ==
  LET s == p.sid
  IN  IF RangeInsertFits(acked_ranges[s], Bytes(p), MaxRanges)
      THEN /\ acked_ranges' = [acked_ranges EXCEPT ![s] = @ \cup Bytes(p)]
           /\ lost_ranges' =
                [lost_ranges EXCEPT ![s] = RangeRemove(@, p.start, p.end, MaxRanges)]
           /\ send_fin_acked' = [send_fin_acked EXCEPT ![s] = @ \/ p.fin]
           /\ lost_fin_pending' = [lost_fin_pending EXCEPT ![s] = @ /\ ~ p.fin]
      ELSE UNCHANGED <<acked_ranges, lost_ranges, send_fin_acked, lost_fin_pending>>

\* A slip: a lost FIN is not noted.
MarkLostBytesOnly(p) ==
  /\ lost_ranges' = [lost_ranges EXCEPT ![p.sid] = @ \cup Bytes(p)]
  /\ UNCHANGED <<lost_fin_pending, dropped>>

\* ai_quic_stream_mark_lost: the gaps between the acknowledged ranges become
\* lost ranges.  The first one that finds no slot ends the loop: the rest of the
\* packet, and its FIN, are not recorded, and the caller only logs it.
MarkLost(p) ==
  LET s    == p.sid
      gaps == Bytes(p) \ acked_ranges[s]
      fits == Misfits(lost_ranges[s], gaps, MaxRanges) = {}
  IN  /\ lost_ranges' =
           [lost_ranges EXCEPT ![s] = RangeInsertRuns(@, gaps, MaxRanges)]
      /\ lost_fin_pending' =
           [lost_fin_pending EXCEPT ![s] = @ \/ (fits /\ p.fin /\ ~ send_fin_acked[s])]
      /\ dropped' = IF fits THEN dropped ELSE dropped \cup {s}

------------------------------------------------------------------------------
(* An ACK arrives: ai_quic_loss_on_ack_received.                           *)

\* The largest acknowledged number is raised before any packet is looked at.
\* Packets below "cut" have been in flight for longer than the loss delay.
OnAck(a, cut) ==
  /\ phase = "idle"
  /\ a \in ack_net /\ a # {}
  /\ ack_net' = ack_net \ {a}
  /\ ack_frame' = a
  /\ \E m \in a : /\ \A n \in a : n <= m
                  /\ largest_acked_packet' =
                       IF m > largest_acked_packet THEN m ELSE largest_acked_packet
  /\ loss_cut' = cut
  /\ phase' = "ack"
  /\ UNCHANGED <<streamVars, sent_packets, budget, next_packet_number,
                 round_robin_cursor, net>>

\* A slip: everything below the largest number counts as acknowledged.
AckFrameBelow(n) == \E m \in ack_frame : n <= m

\* ai_quic_ack_frame_contains.
AckFrameContains(n) == n \in ack_frame

\* A slip: an entry stays in the table.
KeepSent(p) == UNCHANGED sent_packets

\* ai_quic_loss_remove_sent.
RemoveSent(p) == sent_packets' = sent_packets \ {p}

\* One tracked packet the frame contains.  (Slot order is packet-number order
\* only until the table wraps; any order is allowed here.)
AckOne(p) ==
  /\ phase = "ack"
  /\ p \in sent_packets /\ AckFrameContains(p.pn)
  /\ MarkAcked(p)
  /\ RemoveSent(p)
  /\ UNCHANGED <<prepared, send_offset, send_fin_sent, dropped, largest_acked_packet,
                 jobVars, next_packet_number, round_robin_cursor, netVars>>

AckDone ==
  /\ phase = "ack"
  /\ \A p \in sent_packets : ~ AckFrameContains(p.pn)
  /\ phase' = "ack_detect"
  /\ ack_frame' = {}
  /\ UNCHANGED <<streamVars, lossVars, loss_cut, budget, next_packet_number,
                 round_robin_cursor, netVars>>

------------------------------------------------------------------------------
(* ai_quic_loss_detect_lost_packets, after an ACK and when the loss timer  *)
(* fires.                                                                  *)

IsLost(p) ==
  \/ largest_acked_packet >= p.pn + PacketThreshold
  \/ p.pn < loss_cut

DetectOne(p) ==
  /\ phase \in {"ack_detect", "timer_detect"}
  /\ p \in sent_packets /\ IsLost(p)
  /\ MarkLost(p)
  /\ RemoveSent(p)
  /\ UNCHANGED <<prepared, send_offset, send_fin_sent, send_fin_acked, acked_ranges,
                 largest_acked_packet, jobVars, next_packet_number,
                 round_robin_cursor, netVars>>

\* After an ACK the flush still looks at the timer; the loss timer is looked at
\* by the flush itself.
AckDetectDone ==
  /\ phase = "ack_detect"
  /\ \A p \in sent_packets : ~ IsLost(p)
  /\ phase' = "timer"
  /\ loss_cut' = 0
  /\ UNCHANGED <<streamVars, lossVars, ack_frame, budget, next_packet_number,
                 round_robin_cursor, netVars>>

------------------------------------------------------------------------------
(* ai_quic_conn_flush_app_data: ai_quic_loss_on_timeout, then the budgets. *)

\* The budgets from what is pending and from the two cool-downs (a MAX_DATA or
\* a DATA_BLOCKED frame within the last 250 ms), and the number of the first
\* packet the flush can stage.
FlushBudget(probe, recent_credit, throttled) ==
  LET retransmit_only == ~ HasNew /\ HasLost
      packets == IF retransmit_only THEN RetransmitOnlyBudget ELSE PacketBudget
      base    == IF throttled THEN ThrottledBudget ELSE NewDataBudget
  IN  [first      |-> next_packet_number,
       packets    |-> IF packets < probe THEN probe ELSE packets,
       retransmit |-> IF retransmit_only THEN RetransmitOnlyBudget
                      ELSE IF recent_credit THEN 0 ELSE RetransmitBudget,
       new        |-> IF retransmit_only THEN 0
                      ELSE IF recent_credit /\ base < PacketBudget
                           THEN PacketBudget ELSE base,
       probe      |-> probe]

StartFlush(probe, recent_credit, throttled) ==
  /\ phase' = "flush"
  /\ budget' = FlushBudget(probe, recent_credit, throttled)
  /\ loss_cut' = 0
  /\ UNCHANGED <<streamVars, lossVars, ack_frame, next_packet_number,
                 round_robin_cursor, net, ack_net>>

\* When nothing is left in the network a deadline is the next thing to pass: the
\* poll that finds it fires it.  A deadline that passes during a flush although
\* an answer is under way is charged to MaxEarly, an active cool-down to MaxModes.
TimerDue == phase = "idle" /\ NetEmpty /\ sent_packets # {}
TimerMayFire == TimerDue \/ (phase = "timer" /\ sent_packets # {})

EarlyCost == IF TimerDue THEN 0 ELSE 1
CoolDownCost(recent_credit, throttled) == IF recent_credit \/ throttled THEN 1 ELSE 0

Charge(early, modes) ==
  /\ faults.early + early <= MaxEarly
  /\ faults.modes + modes <= MaxModes
  /\ RoomFor(early + modes)
  /\ faults' = [faults EXCEPT !.early = @ + early, !.modes = @ + modes]

TimerNotDue(recent_credit, throttled) ==
  /\ phase = "timer"
  /\ Charge(0, CoolDownCost(recent_credit, throttled))
  /\ StartFlush(0, recent_credit, throttled)

\* ai_quic_loss_update_timer arms the earlier of two deadlines: the loss delay of
\* the oldest packet, once one has been acknowledged, and the PTO of the newest.
\* Which is earlier depends on the round-trip times measured: either may be.

\* Loss mode: the packets up to p are overdue.
FireLoss(p) ==
  /\ TimerMayFire
  /\ largest_acked_packet # NoPn
  /\ p \in sent_packets
  /\ Charge(EarlyCost, 0)
  /\ phase' = "timer_detect"
  /\ loss_cut' = p.pn + 1
  /\ UNCHANGED <<streamVars, lossVars, ack_frame, budget, next_packet_number,
                 round_robin_cursor, net, ack_net>>

TimerDetectDone(recent_credit, throttled) ==
  /\ phase = "timer_detect"
  /\ \A p \in sent_packets : ~ IsLost(p)
  /\ Charge(0, CoolDownCost(recent_credit, throttled))
  /\ StartFlush(0, recent_credit, throttled)

\* PTO mode: nothing has been acknowledged yet, or the PTO comes before the loss
\* delay (a long round trip that hardly varies).  Nothing is declared lost.
FirePto(recent_credit, throttled) ==
  /\ TimerMayFire
  /\ Charge(EarlyCost, CoolDownCost(recent_credit, throttled))
  /\ StartFlush(ProbeBudget, recent_credit, throttled)

------------------------------------------------------------------------------
(* One iteration of the flush loop per step.                               *)

\* ai_quic_endpoint_drain_conn when the flush returns an error: the datagrams it
\* had staged are freed, the event loop of the demo leaves.
Fail ==
  /\ phase' = "failed"
  /\ net' = {p \in net : p.pn < budget.first}
  /\ UNCHANGED sent_packets

\* ai_quic_conn_push_datagram and ai_quic_loss_on_packet_sent: the packet is
\* tracked and handed to the network; a full table fails the connection after
\* the stream has already advanced.
SendPacket(p) ==
  /\ next_packet_number' = next_packet_number + 1
  /\ IF Cardinality(sent_packets) < MaxSentPackets
     THEN /\ sent_packets' = sent_packets \cup {p}
          /\ net' = net \cup {p}
          /\ UNCHANGED phase
     ELSE Fail
  /\ UNCHANGED <<prepared, send_fin_acked, acked_ranges, dropped, largest_acked_packet,
                 ack_frame, loss_cut, ack_net, faults>>

\* The packet budget and one of the others are used up by one.
Spend(what) == budget' = [budget EXCEPT !.packets = @ - 1, ![what] = @ - 1]

\* ai_quic_conn_append_retransmit_stream_frame picks streams with lost bytes
\* before those that only miss their FIN, then the lowest offset, then the
\* lowest stream id.
LostStart(s, o) ==
  IF lost_ranges[s] = {} THEN o = SendLen[s]
  ELSE o \in lost_ranges[s] /\ \A x \in lost_ranges[s] : o <= x

RetransmitBefore(s, o, t, u) ==
  LET sData == lost_ranges[s] # {}
      tData == lost_ranges[t] # {}
  IN  \/ sData /\ ~ tData
      \/ sData = tData /\ (o < u \/ (o = u /\ s <= t))

RetransmitPick(s, o) ==
  /\ HasLostData(s) /\ LostStart(s, o)
  /\ \A t \in Streams : \A u \in lost_ranges[t] \cup {SendLen[t]} :
       HasLostData(t) /\ LostStart(t, u) => RetransmitBefore(s, o, t, u)

\* ai_quic_stream_pop_lost_range, and the frame that carries what it returns.
\* The FIN rides along when the chunk ends the stream and is not acknowledged.
RetransmitFrame(s, a, b) ==
  LET fin == IF lost_ranges[s] = {} THEN TRUE
             ELSE b = SendLen[s] /\ ~ send_fin_acked[s]
  IN  /\ RetransmitPick(s, a)
      /\ IF lost_ranges[s] = {} THEN b = a ELSE FrontOf(lost_ranges[s], ChunkLen, a, b)
      /\ lost_ranges' = [lost_ranges EXCEPT ![s] = RangeRemove(@, a, b, MaxRanges)]
      /\ lost_fin_pending' = [lost_fin_pending EXCEPT ![s] = @ /\ ~ fin]
      /\ round_robin_cursor' = (s + 1) % NumStreams
      /\ UNCHANGED <<send_offset, send_fin_sent>>
      /\ SendPacket(StreamPacket(next_packet_number, s, a, b, fin))

\* ai_quic_conn_append_new_stream_frame: the first stream from the cursor on
\* that has not sent its FIN; credit suffices (FlowControl.tla models credit).
CanSendNew(s) == s \in prepared /\ ~ send_fin_sent[s]

SlotsFromCursor(s) == (s + NumStreams - round_robin_cursor) % NumStreams

NewFrame(s, b) ==
  LET a   == send_offset[s]
      fin == b = SendLen[s]
  IN  /\ CanSendNew(s)
      /\ \A t \in Streams : CanSendNew(t) => SlotsFromCursor(s) <= SlotsFromCursor(t)
      /\ b = IF SendLen[s] - a > ChunkLen THEN a + ChunkLen ELSE SendLen[s]
      /\ send_offset' = [send_offset EXCEPT ![s] = b]
      /\ send_fin_sent' = [send_fin_sent EXCEPT ![s] = fin]
      /\ round_robin_cursor' = (s + 1) % NumStreams
      /\ UNCHANGED <<lost_ranges, lost_fin_pending>>
      /\ SendPacket(StreamPacket(next_packet_number, s, a, b, fin))

Flushing == phase = "flush" /\ budget.packets > 0

\* A PTO probe: lost data, else new data, else a PING, which ai_quic_frame_encode
\* refuses.
ProbeLost(s, a, b) ==
  /\ Flushing /\ budget.probe > 0
  /\ RetransmitFrame(s, a, b)
  /\ Spend("probe")

ProbeNew(s, b) ==
  /\ Flushing /\ budget.probe > 0 /\ ~ HasLost
  /\ NewFrame(s, b)
  /\ Spend("probe")

ProbePing ==
  /\ Flushing /\ budget.probe > 0 /\ ~ HasLost
  /\ \A s \in Streams : ~ CanSendNew(s)
  /\ next_packet_number' = next_packet_number + 1
  /\ Fail
  /\ Spend("probe")
  /\ UNCHANGED <<streamVars, largest_acked_packet, ack_frame, loss_cut,
                 round_robin_cursor, ack_net, faults>>

\* Without a probe: lost data while its budget lasts, else new data.
Retransmit(s, a, b) ==
  /\ Flushing /\ budget.probe = 0 /\ budget.retransmit > 0
  /\ RetransmitFrame(s, a, b)
  /\ Spend("retransmit")

SendNew(s, b) ==
  /\ Flushing /\ budget.probe = 0 /\ budget.new > 0
  /\ ~ (HasLost /\ budget.retransmit > 0)
  /\ NewFrame(s, b)
  /\ Spend("new")

\* The loop ends with its budget, or at the first packet without a frame, whose
\* number has been taken by then and is never sent.
NothingToAppend ==
  /\ budget.probe = 0
  /\ ~ (HasLost /\ budget.retransmit > 0)
  /\ ~ ((\E s \in Streams : CanSendNew(s)) /\ budget.new > 0)

FlushEnd ==
  /\ phase = "flush"
  /\ \/ budget.packets = 0 /\ UNCHANGED next_packet_number
     \/ /\ budget.packets > 0 /\ NothingToAppend
        /\ next_packet_number' = next_packet_number + 1
  /\ phase' = "idle"
  /\ budget' = NoBudget
  /\ UNCHANGED <<streamVars, lossVars, ack_frame, loss_cut, round_robin_cursor, netVars>>

------------------------------------------------------------------------------
(* The other callers of the flush.                                         *)

\* A request arrives and its response is queued (ai_quic_stream_prepare_send).
PrepareSend(s) ==
  /\ phase = "idle"
  /\ s \notin prepared
  /\ prepared' = prepared \cup {s}
  /\ phase' = "timer"
  /\ UNCHANGED <<send_offset, send_fin_sent, send_fin_acked, lost_fin_pending,
                 acked_ranges, lost_ranges, dropped, lossVars, ack_frame, loss_cut,
                 budget, next_packet_number, round_robin_cursor, netVars>>

\* ai_quic_endpoint_on_timeout after 20 ms of silence.  A poll with nothing to
\* send only takes a packet number; those are charged to MaxPolls.
Poll ==
  /\ phase = "idle"
  /\ \/ (HasNew \/ HasLost) /\ UNCHANGED faults
     \/ /\ ~ (HasNew \/ HasLost) /\ prepared # {}
        /\ faults.polls < MaxPolls /\ RoomFor(1)
        /\ faults' = [faults EXCEPT !.polls = @ + 1]
  /\ phase' = "timer"
  /\ UNCHANGED <<streamVars, lossVars, ack_frame, loss_cut, budget,
                 next_packet_number, round_robin_cursor, net, ack_net>>

------------------------------------------------------------------------------
\* The packets the loss delay may have passed for when an ACK is processed:
\* none, or those up to a tracked packet at the cost of MaxEarly.
AckArrives ==
  \E a \in ack_net :
    \/ OnAck(a, 0) /\ Charge(0, 0)
    \/ \E p \in sent_packets : OnAck(a, p.pn + 1) /\ Charge(1, 0)

Detect == \E p \in sent_packets : DetectOne(p)

Timer ==
  \/ \E p \in sent_packets : FireLoss(p)
  \/ \E recent, throttled \in BOOLEAN :
       \/ TimerNotDue(recent, throttled)
       \/ TimerDetectDone(recent, throttled)
       \/ FirePto(recent, throttled)

\* The chunk ends a flush step can produce.
ChunkEnds(s) == 0 .. SendLen[s]

FlushStep ==
  \/ \E s \in Streams : \E a, b \in ChunkEnds(s) : ProbeLost(s, a, b) \/ Retransmit(s, a, b)
  \/ \E s \in Streams : \E b \in ChunkEnds(s) : ProbeNew(s, b) \/ SendNew(s, b)
  \/ ProbePing
  \/ FlushEnd

SenderNext ==
  \/ AckArrives
  \/ \E p \in sent_packets : AckOne(p)
  \/ AckDone
  \/ Detect
  \/ AckDetectDone
  \/ Timer
  \/ FlushStep
  \/ \E s \in Streams : PrepareSend(s)
  \/ Poll
=============================================================================
