---------------------------- MODULE FlowControl ----------------------------
(***************************************************************************)
(* Flow control of a download: the credit checks of new stream data in     *)
(* conn_io.c, the receive windows of stream.c and conn_io.c, and the       *)
(* MAX_DATA, MAX_STREAM_DATA and BLOCKED frames between them.              *)
(*                                                                         *)
(* Loss recovery is StreamTransfer's matter: a lost data frame is sent     *)
(* again, so here a frame is only late or repeated.  A credit frame is not *)
(* sent again when its packet is lost, so the network may lose it for      *)
(* good.  A sender step is one iteration of the flush loop; the flush's    *)
(* budgets may end it after any iteration, so credit may arrive between    *)
(* any two.                                                                *)
(***************************************************************************)
EXTENDS Integers, FiniteSets, FiniteSetsExt, RangeSet

CONSTANTS
  NumStreams,       \* response streams, in the slots 0 .. NumStreams - 1
  SendLen,          \* [Streams -> Nat]
  ChunkLen,         \* AI_QUIC_MAX_STREAM_SEND_CHUNK_LEN
  ConnWindow,       \* initial_max_data of the receiver
  StreamWindow,     \* initial_max_stream_data_bidi_* of the receiver
  OwnConnWindow,    \* the sender's own initial_max_data
  OwnStreamWindow,  \* the sender's own initial_max_stream_data_bidi_*
  MaxInFlight,      \* bound: data frames in flight at a time
  MaxDup,           \* bound: frames the network may deliver twice
  MaxDrop           \* bound: credit packets the network may lose

Streams == 0 .. (NumStreams - 1)

\* AI_QUIC_STREAM_RECV_LIMIT_RESERVE, AI_QUIC_CONN_RECV_LIMIT_RESERVE
Reserve == 4 * ChunkLen

ASSUME FlowAssumption ==
  /\ NumStreams \in Nat \ {0} /\ SendLen \in [Streams -> Nat]
  /\ ChunkLen \in Nat \ {0}
  /\ ConnWindow \in Nat \ {0} /\ StreamWindow \in Nat \ {0}
  /\ OwnConnWindow \in Nat \ {0} /\ OwnStreamWindow \in Nat \ {0}
  /\ MaxInFlight \in Nat /\ MaxDup \in Nat /\ MaxDrop \in Nat

VARIABLES
  send_offset,         \* [Streams -> Nat]
  send_fin_sent,       \* [Streams -> BOOLEAN]
  round_robin_cursor,
  conn_send_limit,     \* conn_flow.send_limit
  send_limit,          \* [Streams -> Nat]: stream->flow.send_limit
  conn_blocked,        \* conn_flow's [pending, last]: blocked_pending, last_blocked_limit
  blocked,             \* the same of each stream
  recv_map,            \* bytes received: pairs of a stream and an offset
  app_consumed,        \* [Streams -> Nat]: what the client has written to its file
  conn_highest,        \* conn_flow.highest_received
  highest,             \* [Streams -> Nat]: stream->flow.highest_received
  conn_recv_limit,     \* conn_flow.recv_limit
  recv_limit,          \* [Streams -> Nat]: stream->flow.recv_limit
  receive_error,       \* a frame exceeded a receive limit: the connection fails
  data_net,            \* STREAM frames in flight
  credit_net,          \* packets with MAX_DATA or MAX_STREAM_DATA in flight
  faults,              \* how much of MaxDup and MaxDrop has been used
  reported             \* history: limits a DATA_BLOCKED frame has been sent for

senderVars == <<send_offset, send_fin_sent, round_robin_cursor, conn_send_limit,
                send_limit, conn_blocked, blocked, reported>>
receiverVars == <<recv_map, app_consumed, conn_highest, highest, conn_recv_limit,
                  recv_limit, receive_error>>
netVars == <<data_net, credit_net, faults>>
vars == <<senderVars, receiverVars, netVars>>

Higher(x, y) == IF x > y THEN x ELSE y

NotBlocked == [pending |-> FALSE, last |-> 0]

\* flow_controller_init takes the local window for a first send limit, and
\* set_send_limit only raises it to what the peer's parameters say.
FirstSendLimit(own, peer) == Higher(own, peer)

Init ==
  /\ send_offset = [s \in Streams |-> 0]
  /\ send_fin_sent = [s \in Streams |-> FALSE]
  /\ round_robin_cursor = 0
  /\ conn_send_limit = FirstSendLimit(OwnConnWindow, ConnWindow)
  /\ send_limit = [s \in Streams |-> FirstSendLimit(OwnStreamWindow, StreamWindow)]
  /\ conn_blocked = NotBlocked
  /\ blocked = [s \in Streams |-> NotBlocked]
  /\ reported = {}
  /\ recv_map = {}
  /\ app_consumed = [s \in Streams |-> 0]
  /\ conn_highest = 0
  /\ highest = [s \in Streams |-> 0]
  /\ conn_recv_limit = ConnWindow
  /\ recv_limit = [s \in Streams |-> StreamWindow]
  /\ receive_error = FALSE
  /\ data_net = {} /\ credit_net = {}
  /\ faults = [dup |-> 0, drop |-> 0]

------------------------------------------------------------------------------
(* The sender: ai_quic_conn_append_control_frames and                      *)
(* ai_quic_conn_append_new_stream_frame.                                   *)

BytesOf(s, a, b) == {s} \X Span(a, b)

\* ai_quic_conn_total_sent_bytes
TotalSent == Cardinality(UNION {BytesOf(s, 0, send_offset[s]) : s \in Streams})

ConnCredit == Higher(conn_send_limit - TotalSent, 0)

\* A slip: the connection's credit is used for the stream.
StreamCreditOfConn(s) == ConnCredit

StreamCredit(s) == Higher(send_limit[s] - send_offset[s], 0)

\* A stream the loop does not pass over: bytes or its FIN are still to be sent.
HasNewData(s) == ~ send_fin_sent[s]
CanSend(s) == HasNewData(s) /\ ConnCredit > 0 /\ StreamCredit(s) > 0

\* One BLOCKED frame per limit that is run into.
NoteBlocked(flag, limit) ==
  IF flag.last = limit THEN flag ELSE [pending |-> TRUE, last |-> limit]

\* The slots the loop looks at before it reaches s.
SlotsBefore(s) ==
  {t \in Streams : (t - round_robin_cursor) % NumStreams < (s - round_robin_cursor) % NumStreams}

\* What the loop leaves in the flags after it has passed over the streams in S.
PassOver(S) ==
  /\ conn_blocked' = IF ConnCredit = 0 /\ \E s \in S : HasNewData(s)
                     THEN NoteBlocked(conn_blocked, conn_send_limit) ELSE conn_blocked
  /\ blocked' = [s \in Streams |->
                   IF s \in S /\ HasNewData(s) /\ ConnCredit > 0 /\ StreamCredit(s) = 0
                   THEN NoteBlocked(blocked[s], send_limit[s]) ELSE blocked[s]]

AnyBlockedPending == conn_blocked.pending \/ \E s \in Streams : blocked[s].pending

\* A packet of BLOCKED frames.  The receiver only remembers when it came, which
\* throttles the receiver's own new data.
SendBlocked ==
  /\ AnyBlockedPending
  /\ reported' = IF conn_blocked.pending THEN reported \cup {conn_blocked.last} ELSE reported
  /\ conn_blocked' = [conn_blocked EXCEPT !.pending = FALSE]
  /\ blocked' = [s \in Streams |-> [blocked[s] EXCEPT !.pending = FALSE]]
  /\ UNCHANGED <<send_offset, send_fin_sent, round_robin_cursor, conn_send_limit,
                 send_limit, receiverVars, netVars>>

\* A slip: the end of the data is ignored.
ChunkIgnoringEnd(s) == Min({StreamCredit(s), ConnCredit, ChunkLen})

\* chunk_len: no more than is left, than either credit, and than a chunk.
Chunk(s) == Min({SendLen[s] - send_offset[s], StreamCredit(s), ConnCredit, ChunkLen})

SendNew(s) ==
  /\ ~ AnyBlockedPending
  /\ Cardinality(data_net) < MaxInFlight
  /\ CanSend(s)
  /\ \A t \in SlotsBefore(s) : ~ CanSend(t)
  /\ PassOver(SlotsBefore(s))
  /\ LET end == send_offset[s] + Chunk(s)
     IN  /\ send_offset' = [send_offset EXCEPT ![s] = end]
         /\ send_fin_sent' = [send_fin_sent EXCEPT ![s] = end = SendLen[s]]
         /\ data_net' = data_net \cup {[sid |-> s, start |-> send_offset[s], end |-> end]}
  /\ round_robin_cursor' = (s + 1) % NumStreams
  /\ UNCHANGED <<conn_send_limit, send_limit, reported, receiverVars, credit_net, faults>>

\* No stream has credit: the loop has only set the flags, and the flush ends.
FindBlocked ==
  /\ ~ AnyBlockedPending
  /\ \A s \in Streams : ~ CanSend(s)
  /\ PassOver(Streams)
  /\ AnyBlockedPending'
  /\ UNCHANGED <<send_offset, send_fin_sent, round_robin_cursor, conn_send_limit,
                 send_limit, reported, receiverVars, netVars>>

\* A slip: a due BLOCKED frame is not taken back.
ReceiveCreditOnly(c) ==
  /\ conn_send_limit' = Higher(conn_send_limit, c.conn)
  /\ send_limit' = [send_limit EXCEPT ![c.sid] = Higher(@, c.stream)]
  /\ UNCHANGED <<send_offset, send_fin_sent, round_robin_cursor, conn_blocked, blocked,
                 reported>>

\* A slip: credit of one kind takes back every BLOCKED frame.
ReceiveCreditClearsAll(c) ==
  /\ conn_send_limit' = Higher(conn_send_limit, c.conn)
  /\ send_limit' = [send_limit EXCEPT ![c.sid] = Higher(@, c.stream)]
  /\ conn_blocked' = [conn_blocked EXCEPT !.pending = FALSE]
  /\ blocked' = [s \in Streams |-> [blocked[s] EXCEPT !.pending = FALSE]]
  /\ UNCHANGED <<send_offset, send_fin_sent, round_robin_cursor, reported>>

\* MAX_DATA and MAX_STREAM_DATA: a limit is only ever raised, and raising it
\* takes back a BLOCKED frame that is still due.
ReceiveCredit(c) ==
  /\ conn_send_limit' = Higher(conn_send_limit, c.conn)
  /\ send_limit' = [send_limit EXCEPT ![c.sid] = Higher(@, c.stream)]
  /\ conn_blocked' = IF c.conn > conn_send_limit
                     THEN [conn_blocked EXCEPT !.pending = FALSE] ELSE conn_blocked
  /\ blocked' = IF c.stream > send_limit[c.sid]
                THEN [blocked EXCEPT ![c.sid].pending = FALSE] ELSE blocked
  /\ UNCHANGED <<send_offset, send_fin_sent, round_robin_cursor, reported>>

------------------------------------------------------------------------------
(* The receiver: ai_quic_conn_on_stream, and the flush that follows it.    *)

\* ai_quic_stream_maybe_schedule_recv_window, ai_quic_conn_maybe_schedule_max_data
WindowFloor(consumed, received) == Higher(consumed, received)

\* A slip: the window is raised before anything has moved.
ScheduleEarly(limit, floor, window) == limit + window

\* A slip: the window is raised only when it is used up.
ScheduleLate(limit, floor, window) ==
  IF floor < limit + window \div 2 + ChunkLen THEN limit
  ELSE Higher(limit, floor + window + Reserve)

\* The limit moves once no more than half a window and a chunk are left, to a whole
\* window and the reserve past what has been received or consumed.
Schedule(limit, floor, window) ==
  IF floor + window \div 2 + ChunkLen < limit THEN limit
  ELSE Higher(limit, floor + window + Reserve)

\* A slip: repeated bytes are counted again.
AllBytes(f) == Cardinality(BytesOf(f.sid, f.start, f.end))

\* The bytes of the frame that have not been received before.
NewlyReceived(f) == Cardinality(BytesOf(f.sid, f.start, f.end) \ recv_map)

ReceiveFails(f) ==
  \/ conn_highest + NewlyReceived(f) > conn_recv_limit
  \/ f.end > recv_limit[f.sid]

IsContiguousEnd(n, s, have) == <<s, n>> \notin have /\ BytesOf(s, 0, n) \subseteq have

TotalConsumed == Cardinality(UNION {BytesOf(s, 0, app_consumed[s]) : s \in Streams})

NoCredit == 0

\* The limits after the bytes have been noted (receive) and what has become
\* contiguous has been written to the file (consume), and the packet that tells
\* the sender.  Its update_pending flags are cleared when the packet is built.
ReceiveStream(f) ==
  LET s     == f.sid
      have  == recv_map \cup BytesOf(s, f.start, f.end)
      total == conn_highest + NewlyReceived(f)
      high  == Higher(highest[s], f.end)
  IN  \E n \in 0 .. SendLen[s] :
        /\ IsContiguousEnd(n, s, have)
        /\ LET received == Schedule(recv_limit[s], WindowFloor(app_consumed[s], high), StreamWindow)
               connRcvd == Schedule(conn_recv_limit, WindowFloor(TotalConsumed, total), ConnWindow)
               fresh    == n - app_consumed[s]
               limit    == IF fresh = 0 THEN received
                           ELSE Schedule(received, WindowFloor(n, high), StreamWindow)
               connLim  == IF fresh = 0 THEN connRcvd
                           ELSE Schedule(connRcvd, WindowFloor(TotalConsumed + fresh, total),
                                         ConnWindow)
           IN  /\ recv_limit' = [recv_limit EXCEPT ![s] = limit]
               /\ conn_recv_limit' = connLim
               /\ credit_net' =
                    IF limit = recv_limit[s] /\ connLim = conn_recv_limit THEN credit_net
                    ELSE credit_net \cup
                      {[sid    |-> s,
                        stream |-> IF limit = recv_limit[s] THEN NoCredit ELSE limit,
                        conn   |-> IF connLim = conn_recv_limit THEN NoCredit ELSE connLim]}
        /\ app_consumed' = [app_consumed EXCEPT ![s] = n]
        /\ recv_map' = have
        /\ conn_highest' = total
        /\ highest' = [highest EXCEPT ![s] = high]

\* A frame leaves the network, or stays to be delivered once more.
Leave(set, f) ==
  \/ set' = set \ {f} /\ UNCHANGED faults
  \/ /\ faults.dup < MaxDup
     /\ faults' = [faults EXCEPT !.dup = @ + 1]
     /\ UNCHANGED set

DeliverData(f) ==
  /\ ~ receive_error
  /\ f \in data_net
  /\ Leave(data_net, f)
  /\ receive_error' = ReceiveFails(f)
  /\ IF ReceiveFails(f)
     THEN UNCHANGED <<recv_map, app_consumed, conn_highest, highest, conn_recv_limit,
                      recv_limit, credit_net>>
     ELSE ReceiveStream(f)
  /\ UNCHANGED senderVars

DeliverCredit(c) ==
  /\ c \in credit_net
  /\ Leave(credit_net, c)
  /\ ReceiveCredit(c)
  /\ UNCHANGED <<receiverVars, data_net>>

DropCredit(c) ==
  /\ c \in credit_net
  /\ faults.drop < MaxDrop
  /\ credit_net' = credit_net \ {c}
  /\ faults' = [faults EXCEPT !.drop = @ + 1]
  /\ UNCHANGED <<senderVars, receiverVars, data_net>>

AllReceived == \A s \in Streams : send_fin_sent[s] /\ app_consumed[s] = SendLen[s]

\* A poll of the event loop that finds nothing to send.
Poll ==
  /\ data_net = {} /\ credit_net = {} /\ ~ AnyBlockedPending
  /\ \A s \in Streams : ~ CanSend(s)
  /\ UNCHANGED vars

SenderStep == SendBlocked \/ FindBlocked \/ \E s \in Streams : SendNew(s)
DataStep == \E f \in data_net : DeliverData(f)
CreditStep == \E c \in credit_net : DeliverCredit(c)
LossStep == \E c \in credit_net : DropCredit(c)

Next == SenderStep \/ DataStep \/ CreditStep \/ LossStep \/ Poll

Spec == Init /\ [][Next]_vars

\* Both event loops go on for ever; retransmission delivers a data frame in the
\* end, and a credit packet that is not lost arrives.
LiveSpec ==
  /\ Spec
  /\ WF_vars(SenderStep) /\ WF_vars(CreditStep)
  /\ WF_vars(DataStep)

------------------------------------------------------------------------------
\* The types of the variables; no stream is sent beyond its end.
TypeOK ==
  /\ send_offset \in [Streams -> Nat] /\ \A s \in Streams : send_offset[s] <= SendLen[s]
  /\ send_fin_sent \in [Streams -> BOOLEAN]
  /\ round_robin_cursor \in Streams
  /\ conn_send_limit \in Nat /\ send_limit \in [Streams -> Nat]
  /\ conn_blocked \in [pending : BOOLEAN, last : Nat]
  /\ blocked \in [Streams -> [pending : BOOLEAN, last : Nat]]
  /\ reported \subseteq Nat
  /\ recv_map \subseteq Streams \X Nat
  /\ app_consumed \in [Streams -> Nat]
  /\ conn_highest \in Nat /\ highest \in [Streams -> Nat]
  /\ conn_recv_limit \in Nat /\ recv_limit \in [Streams -> Nat]
  /\ receive_error \in BOOLEAN
  /\ data_net \subseteq [sid : Streams, start : Nat, end : Nat]
  /\ credit_net \subseteq [sid : Streams, stream : Nat, conn : Nat]
  /\ faults \in [dup : Nat, drop : Nat]

\* The receiver never fails the connection for data of this sender: its limits
\* are at least those the sender works with, and repeated or overtaken frames
\* do not use up connection credit twice.
NeverOverLimit == ~ receive_error

\* The receive windows: right after a handler a limit leaves the sender more than
\* the update margin above what has arrived, and never more than the window and
\* the reserve.
InWindow(limit, floor, window) ==
  floor + window \div 2 + ChunkLen < limit /\ limit <= floor + window + Reserve

WindowKept ==
  /\ InWindow(conn_recv_limit, conn_highest, ConnWindow)
  /\ \A s \in Streams : InWindow(recv_limit[s], highest[s], StreamWindow)

\* A frame that is repeated or overlaps is counted once, in order or not.
CountedOnce == conn_highest = Cardinality(recv_map)

\* A DATA_BLOCKED frame that goes out names a limit that still stops the sender:
\* credit that arrives in between takes it back.
BlockedIsCurrent ==
  /\ conn_blocked.pending => conn_blocked.last = conn_send_limit
  /\ \A s \in Streams : blocked[s].pending => blocked[s].last = send_limit[s]

\* A sender with data and no connection credit does not stay silent: it says so,
\* or gets more.
Silent ==
  /\ ConnCredit = 0 /\ \E s \in Streams : HasNewData(s)
  /\ conn_send_limit \notin reported
StallIsReported == []<> ~ Silent

\* Unless a credit packet is lost every file arrives: the windows are raised in
\* time for every order of arrival.
ReceivedUnlessLost == <>(faults.drop > 0 \/ AllReceived)

\* The design: flow control grows the windows without a deadlock.
EventuallyReceived == <>AllReceived
=============================================================================
