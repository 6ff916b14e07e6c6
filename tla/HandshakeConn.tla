---------------------------- MODULE HandshakeConn ----------------------------
(***************************************************************************)
(* The handshake half of ai_quic_conn_impl_t: what a connection does with  *)
(* a packet (ai_quic_conn_on_packet) and what it sends afterwards          *)
(* (ai_quic_conn_flush_pending), as functions from connections to          *)
(* connections.  `failed' stands for AI_QUIC_ERROR: the endpoint's status  *)
(* turns to error and the process that owns it exits.                      *)
(***************************************************************************)
EXTENDS Integers, FiniteSets, TlsSession

CONSTANTS
  PaddedLen,       \* AI_QUIC_MIN_INITIAL_DATAGRAM_SIZE, in hundreds of bytes
  ChunkLen         \* a datagram with a full piece of CRYPTO data
ASSUME SizeAssumption == PaddedLen \in Nat \ {0} /\ ChunkLen \in Nat \ {0}

Versions  == {1, 2}
KeyStates == {"none", "installed", "discarded"}
States    == {"absent", "pre_validation", "handshaking", "active"}
Types     == Spaces \cup {"retry"}

\* What a side's transport parameters say, as far as the other side checks it:
\* version_information and the connection ID of the Retry.
Params   == [chosen : 0 .. 2, available : SUBSET Versions, retry : Nat]
NoParams == [chosen |-> 0, available |-> {}, retry |-> 0]

\* A packet: the packet numbers its ACK frame names, the offset of its CRYPTO
\* frame (-1: none) and the parameters TLS put into it, HANDSHAKE_DONE, a
\* request.  `cid' names the connection ID its Initial keys come from: 0 the
\* client's first choice, k that of the k-th Retry; `version' is in the header
\* of a long one and selects the key labels of a 1-RTT packet.
Packet == [type : Types, version : Versions, pn : Nat, cid : Nat, token : Nat,
           acks : SUBSET Nat, crypto : Nat \cup {-1}, params : Params,
           finished : BOOLEAN, done : BOOLEAN, request : BOOLEAN]

Eliciting(p) == p.crypto # -1 \/ p.done \/ p.request

\* `version' stands for version and negotiated_version, which every assignment
\* changes together; `told' is what TLS was given to send to the peer.
Conn == [v2 : BOOLEAN, version : Versions, original : Versions,
         learned : BOOLEAN, checked : BOOLEAN, told : Params,
         state : States, key : [Spaces -> KeyStates],
         received : [Spaces -> SUBSET Nat], ack_needed : [Spaces -> BOOLEAN],
         next_pn : [Spaces -> Nat], tx : [Spaces -> Nat], rx : [Spaces -> Nat],
         events : Seq(TlsEvents), flight : Flights, tls_complete : BOOLEAN,
         completed : BOOLEAN, confirmed : BOOLEAN, can_send : BOOLEAN,
         done_due : BOOLEAN, validated : BOOLEAN,
         saw_initial : BOOLEAN, retry : Nat, token : Nat, asked : BOOLEAN,
         bytes_sent : Nat, bytes_received : Nat, failed : BOOLEAN,
         out : Seq(Seq(Packet))]

InSpaces(x) == [sp \in Spaces |-> x]

\* A connection starts with version 1; `v2' is compatible_v2_enabled.
NewConn(state, flight, v2) ==
  [v2 |-> v2, version |-> 1, original |-> 1, learned |-> FALSE,
   checked |-> FALSE, told |-> NoParams,
   state |-> state, key |-> InSpaces("none"), received |-> InSpaces({}),
   ack_needed |-> InSpaces(FALSE), next_pn |-> InSpaces(0), tx |-> InSpaces(0),
   rx |-> InSpaces(0), events |-> <<>>, flight |-> flight,
   tls_complete |-> FALSE, completed |-> FALSE,
   confirmed |-> FALSE, can_send |-> FALSE, done_due |-> FALSE,
   validated |-> FALSE, saw_initial |-> FALSE, retry |-> 0, token |-> 0,
   asked |-> FALSE,
   bytes_sent |-> 0, bytes_received |-> 0, failed |-> FALSE, out |-> <<>>]

Fail(c) == [c EXCEPT !.failed = TRUE]

Install(c, sp) == [c EXCEPT !.key[sp] = "installed"]

Discard(c, sp) == [c EXCEPT !.key[sp] = "discarded", !.ack_needed[sp] = FALSE,
                            !.received[sp] = {}]

\* A slip: version 2 is offered once it is in use only.
AvailableVersionsInUse(c) ==
  IF c.original = 2 \/ c.version = 2 THEN {1, 2} ELSE {1}

\* ai_quic_conn_seed_version_information.
AvailableVersions(c) ==
  IF c.v2 \/ c.original = 2 \/ c.version = 2 THEN {1, 2} ELSE {1}

ChosenVersion(c, side) ==
  CASE 2 \notin AvailableVersions(c)                -> c.version
    [] 2 \in AvailableVersions(c) /\ side = "client" -> c.original
    [] OTHER -> IF c.checked \/ ~c.v2 THEN c.version ELSE 2

\* TLS encodes the transport parameters as they are when it is started: those
\* of a server do not know the client's yet.
StartTls(c, side) ==
  [Install(c, "initial") EXCEPT
     !.state = "handshaking", !.events = StartEvents(side),
     !.told = [chosen |-> ChosenVersion(c, side),
               available |-> AvailableVersions(c),
               retry |-> IF side = "server" THEN c.retry ELSE 0]]

\* ai_quic_conn_activate_version.
Activate(c, version) == [c EXCEPT !.version = version, !.learned = TRUE]

(***************************************************************************)
(* Sending                                                                 *)
(***************************************************************************)
\* The size ai_quic_conn_push_datagram accounts for: a ServerHello and an ACK
\* are small, a lone Initial of the client is padded.
Size(side, packets) ==
  CASE side = "client" /\ Len(packets) = 1 /\ packets[1].type = "initial" -> PaddedLen
    [] \E i \in DOMAIN packets : packets[i].type = "handshake" /\ packets[i].crypto # -1
         -> ChunkLen
    [] OTHER -> 1

\* A slip: the datagram about to be sent is left out of the account.
OverBudgetAlready(c, side, packets) ==
  side = "server" /\ ~c.validated /\ c.bytes_sent > 3 * c.bytes_received

OverBudget(c, side, packets) ==
  /\ side = "server" /\ ~c.validated
  /\ c.bytes_sent + Size(side, packets) > 3 * c.bytes_received

Push(c, side, packets) ==
  IF OverBudget(c, side, packets) THEN Fail(c)
  ELSE [c EXCEPT !.out = Append(@, packets),
                 !.bytes_sent = @ + Size(side, packets)]

\* A slip: the number before the next one.
NewPacketBefore(c, type, sp) ==
  [type |-> type, version |-> c.version, pn |-> c.next_pn[sp] - 1, cid |-> c.retry,
   token |-> IF type = "initial" THEN c.token ELSE 0, acks |-> {},
   crypto |-> -1, params |-> NoParams, finished |-> FALSE, done |-> FALSE, request |-> FALSE]

\* ai_quic_packet_init: every packet takes the next number of a space.
NewPacket(c, type, sp) ==
  [type |-> type, version |-> c.version, pn |-> c.next_pn[sp], cid |-> c.retry,
   token |-> IF type = "initial" THEN c.token ELSE 0, acks |-> {},
   crypto |-> -1, params |-> NoParams, finished |-> FALSE, done |-> FALSE, request |-> FALSE]

Used(c, sp) == [c EXCEPT !.next_pn[sp] = @ + 1]

AckPacket(c, sp) ==
  [NewPacket(c, sp, sp) EXCEPT !.acks = c.received[sp]]

Acked(c, sp) == [Used(c, sp) EXCEPT !.ack_needed[sp] = FALSE]

\* A slip: the ACK of the Initial space in every packet.
CryptoPacketAckInitial(c, event) ==
  LET sp == Level(event)
  IN  [NewPacket(c, IF sp = "initial" THEN "initial" ELSE "handshake", sp)
     EXCEPT !.crypto = c.tx[sp], !.params = c.told, !.finished = event = "write_finished",
            !.acks = IF c.ack_needed[sp] THEN c.received["initial"] ELSE {}]

\* ai_quic_conn_build_crypto_packet: whatever is not Initial data goes into a
\* Handshake packet, with the number, the offset and the ACK of its own space.
CryptoPacket(c, event) ==
  LET sp == Level(event)
  IN  [NewPacket(c, IF sp = "initial" THEN "initial" ELSE "handshake", sp)
     EXCEPT !.crypto = c.tx[sp], !.params = c.told, !.finished = event = "write_finished",
            !.acks = IF c.ack_needed[sp] THEN c.received[sp] ELSE {}]

WroteCrypto(c, side, sp) ==
  LET acked == c.ack_needed[sp] /\ c.received[sp] # {}
      d == [Used(c, sp) EXCEPT !.tx[sp] = @ + 1,
                               !.ack_needed[sp] = @ /\ ~acked]
  IN  IF side = "client" /\ sp # "initial" /\ c.key["initial"] = "installed"
      THEN Discard(d, "initial") ELSE d

\* A WRITE_CRYPTO event; a server puts an Initial ACK in front of its flight.
WriteCrypto(c, side, event) ==
  LET sp == Level(event)
      withAck == side = "server" /\ sp = "handshake" /\ c.received["initial"] # {}
      d == IF withAck THEN Acked(c, "initial") ELSE c
      ack == IF withAck THEN <<AckPacket(c, "initial")>> ELSE <<>>
  IN  Push(WroteCrypto(d, side, sp), side, ack \o <<CryptoPacket(d, event)>>)

OnEvent(c, side, event) ==
  IF c.failed THEN c
  ELSE CASE event \in Writes            -> WriteCrypto(c, side, event)
         [] event = "install_handshake" -> Install(c, "handshake")
         [] event = "install_one_rtt"   ->
              [Install(c, "app") EXCEPT !.can_send = TRUE, !.state = "active"]
         [] event = "complete"          -> [c EXCEPT !.completed = TRUE]

\* A slip: the key state is not consulted.
AckableSpacesAll(c) ==
  {sp \in Spaces : c.ack_needed[sp] /\ c.received[sp] # {}}

\* The ACK-only datagram of a flush that wrote no CRYPTO data.
AckableSpaces(c) ==
  {sp \in Spaces : /\ c.ack_needed[sp] /\ c.received[sp] # {}
                   /\ c.key[sp] = "installed"}

SendAcks(c, side) ==
  LET due == AckableSpaces(c)
      Ack(sp) == IF sp \in due THEN <<AckPacket(c, sp)>> ELSE <<>>
      acked == [c EXCEPT !.next_pn = [sp \in Spaces |-> IF sp \in due THEN @[sp] + 1 ELSE @[sp]],
                         !.ack_needed = [sp \in Spaces |-> @[sp] /\ sp \notin due]]
  IN  IF c.failed \/ c.out # <<>> \/ due = {} THEN c
      ELSE Push(acked, side, Ack("initial") \o Ack("handshake") \o Ack("app"))

SendDone(c, side) ==
  IF c.failed \/ ~c.done_due THEN c
  ELSE Push([Used(c, "app") EXCEPT !.done_due = FALSE, !.confirmed = TRUE], side,
            <<[NewPacket(c, "app", "app") EXCEPT !.done = TRUE]>>)

\* ai_quic_conn_flush_app_data, as far as the handshake is concerned: a client
\* that may send 1-RTT packets and is confirmed sends its request, once.  The
\* loop takes a number for the packet in which it finds nothing to send, too.
SendRequest(c, side) ==
  LET ended == Used(c, "app")
  IN  IF c.failed \/ ~c.can_send \/ (side = "client" /\ ~c.confirmed) THEN c
      ELSE IF side = "server" \/ c.asked THEN ended
      ELSE Push([Used(ended, "app") EXCEPT !.asked = TRUE], side,
                <<[NewPacket(c, "app", "app") EXCEPT !.request = TRUE]>>)

\* The loop around ai_quic_tls_session_poll_event.
Polled(c, side) ==
  LET after[i \in 0 .. Len(c.events)] ==
        IF i = 0 THEN [c EXCEPT !.events = <<>>]
        ELSE OnEvent(after[i - 1], side, c.events[i])
  IN  after[Len(c.events)]

\* ai_quic_conn_flush_pending.
Flush(c, side) ==
  SendRequest(SendDone(SendAcks(Polled(c, side), side), side), side)

(***************************************************************************)
(* Receiving                                                               *)
(***************************************************************************)
\* ai_quic_packet_decode_conn: the keys must be there, for an Initial come from
\* the same connection ID and for a 1-RTT packet from the same version; a
\* second Retry fails to decode.
CanDecode(c, side, p) ==
  CASE p.type = "retry"   -> c.retry = 0
    [] p.type = "initial" -> c.state = "pre_validation" \/ p.cid = c.retry
    [] OTHER              -> /\ HasReadSecret(c.rx["initial"] > 0, c.tls_complete, p.type)
                             /\ p.type = "app" => p.version = c.version

\* ai_quic_crypto_stream_accept and ai_quic_tls_session_provide_crypto: data
\* ahead of the next offset is an error, data below it is ignored.
Provide(c, side, sp, finished) ==
  LET first == c.rx[sp] = 0
      new == IF side = "server" THEN ServerEvents(sp, first, finished, c.flight)
                                ELSE ClientEvents(sp, first, finished)
  IN  [c EXCEPT !.rx[sp] = @ + 1, !.tls_complete = @ \/ finished,
                !.events = QueueEvents(@, new)]

\* ai_quic_conn_select_negotiated_version; 0: none.
SelectedVersion(c, params) ==
  IF c.v2 /\ 2 \in params.available THEN 2
  ELSE IF c.original \in params.available THEN c.original ELSE 0

\* The server's check of the client's version_information: it must name the
\* version of the packet it came in.
CheckClient(c, p) ==
  LET selected == SelectedVersion(c, p.params)
  IN  IF /\ p.params.chosen \in p.params.available
         /\ p.params.chosen = p.version /\ selected # 0
      THEN [Activate(c, selected) EXCEPT !.checked = TRUE]
      ELSE Fail(c)

\* The client's check of the server's parameters: the Retry the client took
\* and no other, and the version the packets already have.
CheckServer(c, p) ==
  IF /\ p.params.retry = c.retry
     /\ p.params.chosen \in c.told.available
     /\ p.params.chosen = c.version
  THEN [c EXCEPT !.checked = TRUE] ELSE Fail(c)

\* The end of ai_quic_conn_on_crypto.
CheckPeer(c, side, p) ==
  CASE ~c.checked /\ side = "server" /\ p.type = "initial"   -> CheckClient(c, p)
    [] ~c.checked /\ side = "client" /\ p.type = "handshake" -> CheckServer(c, p)
    [] OTHER -> c

\* Slips: repeated data is refused; repeated data is consumed again.
OnCryptoStrict(c, side, p) ==
  CASE p.crypto = -1 -> c
    [] p.crypto # -1 /\ p.crypto # c.rx[p.type] -> Fail(c)
    [] OTHER -> CheckPeer(Provide(c, side, p.type, p.finished), side, p)

OnCryptoTwice(c, side, p) ==
  CASE p.crypto = -1 -> c
    [] p.crypto > c.rx[p.type] -> Fail(c)
    [] OTHER -> CheckPeer(Provide(c, side, p.type, p.finished), side, p)

OnCrypto(c, side, p) ==
  CASE p.crypto = -1 \/ p.crypto < c.rx[p.type] -> c
    [] p.crypto > c.rx[p.type] -> Fail(c)
    [] OTHER -> CheckPeer(Provide(c, side, p.type, p.finished), side, p)

OnDone(c) == Discard([c EXCEPT !.confirmed = TRUE, !.validated = TRUE,
                               !.state = "active"], "handshake")

OnFrames(c, side, p) ==
  LET acked == [c EXCEPT !.ack_needed[p.type] = @ /\ p.acks = {}]
      fed   == OnCrypto(acked, side, p)
      done  == IF p.done THEN OnDone(fed) ELSE fed
  IN  IF fed.failed THEN fed
      ELSE [done EXCEPT !.ack_needed[p.type] = @ \/ Eliciting(p)]

\* Slips: HANDSHAKE_DONE becomes due at once; it depends on a flag that only
\* the poll after the packet sets.
AfterHandshakePacketDone(c, side) ==
  IF side = "server"
  THEN Discard([c EXCEPT !.validated = TRUE, !.can_send = TRUE,
                         !.completed = c.tls_complete, !.done_due = TRUE], "initial")
  ELSE [c EXCEPT !.completed = @ \/ c.tls_complete,
                 !.can_send = @ \/ c.tls_complete]

AfterHandshakePacketLate(c, side) ==
  IF side = "server"
  THEN Discard([c EXCEPT !.validated = TRUE, !.can_send = TRUE,
                         !.done_due = c.completed], "initial")
  ELSE [c EXCEPT !.completed = @ \/ c.tls_complete,
                 !.can_send = @ \/ c.tls_complete]

\* What a Handshake packet proves to the side that processed it.
AfterHandshakePacket(c, side) ==
  IF side = "server"
  THEN Discard([c EXCEPT !.validated = TRUE, !.can_send = TRUE,
                         !.completed = c.tls_complete,
                         !.done_due = c.tls_complete], "initial")
  ELSE [c EXCEPT !.completed = @ \/ c.tls_complete,
                 !.can_send = @ \/ c.tls_complete]

\* A slip: the Initial packet numbers start over.
RestartFromZero(c, p) ==
  [StartTls(NewConn("handshaking", c.flight, c.v2), "client")
     EXCEPT !.retry = p.cid, !.token = p.cid, !.bytes_sent = c.bytes_sent,
            !.bytes_received = c.bytes_received]

\* ai_quic_conn_restart_client_after_retry: a new TLS session and fresh packet
\* number spaces, except that Initial packet numbers go on.  (The version is
\* still the first one: no packet of the server has been seen.)
RestartAfterRetry(c, p) ==
  [StartTls(NewConn("handshaking", c.flight, c.v2), "client")
     EXCEPT !.next_pn["initial"] = c.next_pn["initial"], !.retry = p.cid,
            !.token = p.cid, !.bytes_sent = c.bytes_sent, !.bytes_received = c.bytes_received]

\* The first packet of a server's connection.
SetUp(c, p) ==
  IF c.state # "pre_validation" THEN c
  ELSE StartTls([c EXCEPT !.version = p.version, !.original = p.version,
                          !.retry = p.cid], "server")

Process(c, side, p) ==
  LET known == [SetUp(c, p) EXCEPT !.received[p.type] = @ \cup {p.pn},
                                   !.saw_initial =
                                     @ \/ (side = "client" /\ p.type = "initial")]
      read  == OnFrames(known, side, p)
  IN  IF p.type = "handshake" /\ ~read.failed
      THEN AfterHandshakePacket(read, side) ELSE read

OnRetry(c, side, p) ==
  CASE side = "server" -> c
    [] side = "client" /\ (c.saw_initial \/ p.version # c.version) -> Fail(c)
    [] OTHER -> RestartAfterRetry(c, p)

\* A client takes over the version of the server's long packets, if it offered
\* that one.
FollowVersion(c, side, p) ==
  CASE side = "server" \/ p.type = "app" \/ p.version = c.version -> c
    [] OTHER -> IF p.version \in c.told.available THEN Activate(c, p.version)
                ELSE Fail(c)

\* ai_quic_conn_on_packet, after the packet has been decoded.  A Handshake
\* packet of another version than the negotiated one is dropped.
OnPacket(c, side, p, size) ==
  LET d == [c EXCEPT !.bytes_received = @ + size]
      e == FollowVersion(d, side, p)
  IN  CASE p.type = "retry"                            -> OnRetry(d, side, p)
        [] p.type = "app" /\ ~c.can_send                -> Fail(d)
        [] p.type \in Spaces /\ e.failed                -> e
        [] p.type = "handshake" /\ ~e.failed /\ e.learned /\ p.version # e.version -> e
        [] OTHER                                        -> Process(e, side, p)

\* One turn of the packet loop of ai_quic_endpoint_receive_datagram_from.
ReadPacket(c, side, p, size) ==
  IF c.failed THEN c
  ELSE IF ~CanDecode(c, side, p) THEN Fail(c)
  ELSE OnPacket(c, side, p, size)

\* The packet loop.  The bytes of the datagram are counted once, padding
\* included.
ReadAll(c, side, packets, size) ==
  LET after[i \in 0 .. Len(packets)] ==
        IF i = 0 THEN c
        ELSE ReadPacket(after[i - 1], side, packets[i], IF i = 1 THEN size ELSE 0)
  IN  after[Len(packets)]

\* ... and then whatever the connection wants to send.
ReceiveDatagram(c, side, packets, size) ==
  LET read == ReadAll(c, side, packets, size)
  IN  IF read.failed THEN read ELSE Flush(read, side)
=============================================================================
