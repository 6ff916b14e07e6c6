----------------------------- MODULE TlsSession ------------------------------
(***************************************************************************)
(* The TLS session a connection drives (tls_ctx.c).  A handshake message   *)
(* is a number of WRITE_CRYPTO events, one per 1500-byte piece; a piece is *)
(* one CRYPTO frame, counted as one unit of the CRYPTO offset.  With       *)
(* certificates BoringSSL runs the handshake; without them the built-in    *)
(* three-message exchange does.                                            *)
(***************************************************************************)
EXTENDS Naturals, Sequences, SequencesExt

CONSTANTS
  BoringSSL,       \* ai_quic_tls_should_use_boringssl
  Flights,         \* pieces the server's Handshake flight may come in
  Tickets,         \* pieces the server's TLS writes after the handshake: BoringSSL
                   \* writes session tickets, the built-in exchange nothing
  MaxEvents        \* AI_QUIC_TLS_MAX_EVENTS

Sides  == {"client", "server"}
Spaces == {"initial", "handshake", "app"}

ASSUME TlsAssumption ==
  /\ BoringSSL \in BOOLEAN
  /\ Flights \subseteq Nat \ {0} /\ Flights # {}
  /\ Tickets \in Nat /\ MaxEvents \in Nat \ {0}
  /\ ~BoringSSL => Flights = {1} /\ Tickets = 0

\* "write_finished" is the piece of Handshake data that ends with Finished.
Writes    == {"write_initial", "write_handshake", "write_finished", "write_app"}
TlsEvents == Writes \cup {"install_handshake", "install_one_rtt", "complete"}

Level(event) == CASE event = "write_initial" -> "initial"
                  [] event = "write_app"     -> "app"
                  [] OTHER                   -> "handshake"

Repeat(event, n) == [i \in 1 .. n |-> event]

\* ai_quic_tls_session_start: only a client has something to say.
StartEvents(side) == IF side = "client" THEN <<"write_initial">> ELSE <<>>

\* The server's Handshake flight of n pieces.
Flight(n) == Append(Repeat("write_handshake", n - 1), "write_finished")

\* The events the next piece of CRYPTO data in a space leads to; `finished'
\* says that the piece ends with the peer's Finished.  BoringSSL reports a
\* write secret as soon as it has one: the server's 1-RTT secret with its own
\* flight, before the client has answered.
ServerEvents(space, first, finished, flight) ==
  CASE space = "initial" /\ first ->
         IF BoringSSL
         THEN <<"write_initial", "install_handshake">> \o Flight(flight)
                \o <<"install_one_rtt">>
         ELSE <<"install_handshake">> \o Flight(flight)
    [] space = "handshake" /\ finished ->
         IF BoringSSL THEN Repeat("write_app", Tickets) \o <<"complete">>
         ELSE <<"install_one_rtt", "complete">>
    [] OTHER -> <<>>

ClientEvents(space, first, finished) ==
  CASE space = "initial" /\ first -> <<"install_handshake">>
    [] space = "handshake" /\ finished ->
         (IF BoringSSL THEN <<>> ELSE <<"install_handshake">>)
           \o <<"write_finished", "install_one_rtt", "complete">>
    [] OTHER -> <<>>

\* A slip: the last place of the queue stays free.
QueueEventsOneLess(queue, new) ==
  SubSeq(queue \o new, 1, IF Len(queue \o new) < MaxEvents
                          THEN Len(queue \o new) ELSE MaxEvents - 1)

\* ai_quic_tls_queue_event: an event that finds the queue full is dropped.
QueueEvents(queue, new) ==
  SubSeq(queue \o new, 1, IF Len(queue \o new) <= MaxEvents
                          THEN Len(queue \o new) ELSE MaxEvents)

\* ai_quic_tls_session_get_packet_secret for reading.  Initial secrets come
\* from the connection ID; the built-in exchange derives its secrets from
\* fixed labels and always has them.
HasReadSecret(hello, complete, type) ==
  \/ type = "initial" \/ ~BoringSSL
  \/ type = "handshake" /\ hello
  \/ type = "app" /\ complete
=============================================================================
