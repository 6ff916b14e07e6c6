------------------------------ MODULE Handshake ------------------------------
(***************************************************************************)
(* The handshake between the http09 client and server: two connections     *)
(* (HandshakeConn), the server's stateless dispatcher in front of its own, *)
(* and the UDP network between them.  Each process runs one select loop:   *)
(* it handles a datagram or a timeout to the end before the next.          *)
(***************************************************************************)
EXTENDS HandshakeConn

CONSTANTS
  RetryModes,      \* values of the dispatcher's retry_enabled
  V2Modes,         \* which sides have compatible_v2_enabled: a set of sets
  TokensExpire,    \* whether AI_QUIC_RETRY_TOKEN_LIFETIME_MS may pass
  MaxDrop,         \* bound: datagrams the network may lose
  MaxDup,          \* bound: datagrams the network may deliver twice
  MaxReorder       \* bound: datagrams that overtake an earlier one

ASSUME HandshakeAssumption ==
  /\ RetryModes \subseteq BOOLEAN /\ RetryModes # {}
  /\ V2Modes \subseteq SUBSET Sides /\ V2Modes # {}
  /\ TokensExpire \in BOOLEAN
  /\ MaxDrop \in Nat /\ MaxDup \in Nat /\ MaxReorder \in Nat

VARIABLES
  conn,        \* the connection of each side
  to_client,   \* datagrams on their way to the client, in the order they were sent
  to_server,   \* and to the server
  dispatcher,  \* its retry_enabled, and how many Retry packets it has built,
               \* each with a new connection ID and a token; the first ones
               \* of these tokens have expired
  faults       \* how much of each bound has been used

vars == <<conn, to_client, to_server, dispatcher, faults>>

net == [client |-> to_client, server |-> to_server]

NetBecomes(n) == to_client' = n["client"] /\ to_server' = n["server"]

Peer(side) == CHOOSE other \in Sides : other # side

Datagram == [packets : Seq(Packet), size : Nat]
Faults   == [drop : 0 .. MaxDrop, dup : 0 .. MaxDup, reorder : 0 .. MaxReorder]

(* Every state component has its type; the event queue is never over-full. *)
TypeOK ==
  /\ conn \in [Sides -> Conn]
  /\ \A side \in Sides : Len(conn[side].events) <= MaxEvents
  /\ net \in [Sides -> Seq(Datagram)]
  /\ dispatcher \in [retry_enabled : RetryModes, retries : Nat, expired : Nat]
  /\ faults \in Faults

Init ==
  /\ \E flight \in Flights, v2 \in V2Modes :
       conn = [side \in Sides |-> NewConn("absent", flight, side \in v2)]
  /\ to_client = <<>> /\ to_server = <<>>
  /\ dispatcher \in [retry_enabled : RetryModes, retries : {0}, expired : {0}]
  /\ faults = [drop |-> 0, dup |-> 0, reorder |-> 0]

\* What a connection has staged leaves for the peer, unless the call that
\* staged it failed: then the caller frees it and exits.
Sent(side, c) ==
  IF c.failed THEN <<>>
  ELSE [i \in DOMAIN c.out |->
          [packets |-> c.out[i], size |-> Size(side, c.out[i])]]

Ship(side, c, left) ==
  /\ conn' = [conn EXCEPT ![side] = [c EXCEPT !.out = <<>>]]
  /\ NetBecomes([left EXCEPT ![Peer(side)] = @ \o Sent(side, c)])

\* The network hands over the i-th datagram, and may keep a copy.
Arrives(side, i, keep) ==
  /\ i > 1 => faults.reorder < MaxReorder
  /\ keep  => faults.dup < MaxDup
  /\ faults' = [faults EXCEPT !.reorder = IF i > 1 THEN @ + 1 ELSE @,
                              !.dup = IF keep THEN @ + 1 ELSE @]

Left(side, i, keep) ==
  IF keep THEN net ELSE [net EXCEPT ![side] = RemoveAt(@, i)]

StartClient ==
  /\ conn["client"].state = "absent"
  /\ Ship("client", Flush(StartTls(conn["client"], "client"), "client"), net)
  /\ UNCHANGED <<dispatcher, faults>>

\* ai_quic_dispatcher_route_datagram_from: with Retry on, an Initial without a
\* token is answered by a Retry, whether there is a connection or not.
WantsRetry(d) ==
  dispatcher.retry_enabled /\ d.packets[1].type = "initial" /\ d.packets[1].token = 0

\* A slip: the age of a token is not looked at.
BadTokenForever(d) ==
  /\ dispatcher.retry_enabled /\ d.packets[1].type = "initial" /\ d.packets[1].token # 0
  /\ d.packets[1].token # d.packets[1].cid

\* ... and one whose token ai_quic_retry_token_validate refuses is dropped: too
\* old, or not made for this connection ID.
BadToken(d) ==
  /\ dispatcher.retry_enabled /\ d.packets[1].type = "initial" /\ d.packets[1].token # 0
  /\ d.packets[1].token <= dispatcher.expired \/ d.packets[1].token # d.packets[1].cid

RetryPacket(k, version) ==
  [type |-> "retry", version |-> version, pn |-> 0, cid |-> k, token |-> k, acks |-> {},
   crypto |-> -1, params |-> NoParams, finished |-> FALSE, done |-> FALSE, request |-> FALSE]

SendRetry(i, keep) ==
  LET d == net["server"][i]
  IN  /\ ~conn["server"].failed
      /\ WantsRetry(d)
      /\ Arrives("server", i, keep)
      /\ dispatcher' = [dispatcher EXCEPT !.retries = @ + 1]
      /\ NetBecomes([Left("server", i, keep) EXCEPT !["client"] =
           Append(@, [packets |-> <<RetryPacket(dispatcher.retries + 1,
                                                  d.packets[1].version)>>, size |-> 1])])
      /\ UNCHANGED conn

DropBadToken(i, keep) ==
  /\ ~conn["server"].failed
  /\ BadToken(net["server"][i])
  /\ Arrives("server", i, keep)
  /\ NetBecomes(Left("server", i, keep))
  /\ UNCHANGED <<conn, dispatcher>>

\* The lifetime of the oldest valid token passes.
Expire ==
  /\ TokensExpire /\ dispatcher.expired < dispatcher.retries
  /\ dispatcher' = [dispatcher EXCEPT !.expired = @ + 1]
  /\ UNCHANGED <<conn, to_client, to_server, faults>>

\* The first Initial the dispatcher lets through creates the connection; a
\* valid token validates the client's address.  (Nothing but an Initial reaches
\* a server without a connection.)
CreateConn(i, keep) ==
  LET d == net["server"][i]
      c == [conn["server"] EXCEPT !.state = "pre_validation",
                                  !.validated = d.packets[1].token # 0]
  IN  /\ conn["server"].state = "absent"
      /\ d.packets[1].type = "initial" /\ ~WantsRetry(d) /\ ~BadToken(d)
      /\ Arrives("server", i, keep)
      /\ Ship("server", ReceiveDatagram(c, "server", d.packets, d.size),
              Left("server", i, keep))
      /\ UNCHANGED dispatcher

Receive(side, i, keep) ==
  LET d == net[side][i]
  IN  /\ conn[side].state # "absent" /\ ~conn[side].failed
      /\ side = "server" => ~WantsRetry(d) /\ ~BadToken(d)
      /\ Arrives(side, i, keep)
      /\ Ship(side, ReceiveDatagram(conn[side], side, d.packets, d.size),
              Left(side, i, keep))
      /\ UNCHANGED dispatcher

\* ai_quic_endpoint_on_timeout: 20 ms without a datagram.  Bound: of a poll that
\* sends nothing, the packet number it takes (SendRequest) is not counted.
Poll(side) ==
  LET c == Flush(conn[side], side)
  IN  /\ conn[side].state # "absent" /\ ~conn[side].failed
      /\ IF c.out # <<>> \/ c.failed
         THEN Ship(side, c, net) /\ UNCHANGED <<dispatcher, faults>>
         ELSE UNCHANGED vars

Lose(side, i) ==
  /\ faults.drop < MaxDrop
  /\ NetBecomes([net EXCEPT ![side] = RemoveAt(@, i)])
  /\ faults' = [faults EXCEPT !.drop = @ + 1]
  /\ UNCHANGED <<conn, dispatcher>>

Next ==
  \/ StartClient
  \/ \E side \in Sides : \E i \in DOMAIN net[side] : \E keep \in BOOLEAN :
       \/ side = "server" /\ SendRetry(i, keep)
       \/ side = "server" /\ DropBadToken(i, keep)
       \/ side = "server" /\ CreateConn(i, keep)
       \/ Receive(side, i, keep)
  \/ \E side \in Sides : Poll(side)
  \/ Expire
  \/ \E side \in Sides : \E i \in DOMAIN net[side] : Lose(side, i)

Spec == Init /\ [][Next]_vars

\* The client starts, and the process of each side keeps taking the datagrams
\* the network hands over: the first one to a live process is taken in the end,
\* and for good, without a fault of the network.
ClientTakes ==
  /\ to_client # <<>> /\ ~conn["client"].failed
  /\ to_client' = Tail(to_client) /\ UNCHANGED faults

ServerTakes ==
  /\ to_server # <<>> /\ ~conn["server"].failed
  /\ to_server' = Tail(to_server) /\ UNCHANGED faults

FairSpec ==
  /\ Spec
  /\ WF_vars(StartClient)
  /\ WF_to_client(ClientTakes)
  /\ WF_to_server(ServerTakes)

(***************************************************************************)
(* Properties                                                              *)
(***************************************************************************)
InFlight(side) ==
  UNION {{net[side][i].packets[j] : j \in DOMAIN net[side][i].packets} :
           i \in DOMAIN net[side]}

(* Progress is made in the order of the exchange: the server is complete    *)
(* only after the client is, it confirms only after it is complete, and the *)
(* client is confirmed, and asks, only after the server is                  *)
(* (conn_io.c:2424-2438, the HANDSHAKE_DONE case of on_packet).             *)
StepsInOrder ==
  LET client == conn["client"]  server == conn["server"]
  IN  /\ server.completed => client.completed
      /\ server.confirmed => server.completed
      /\ client.confirmed => server.confirmed
      /\ client.asked => client.confirmed /\ client.completed

(* Until the client's address is validated the server has never sent more   *)
(* than three times what it received, failed flushes included               *)
(* (ai_quic_conn_push_datagram).                                            *)
AmplificationLimit ==
  LET server == conn["server"]
  IN  server.validated \/ server.bytes_sent <= 3 * server.bytes_received

(* The server takes the address for validated only when the client has      *)
(* shown that it receives: it has answered with a Handshake packet, or       *)
(* returns the token of a Retry it was sent, and in time                     *)
(* (ai_quic_retry_token_validate, the end of ai_quic_conn_on_packet).        *)
ValidatedByProof ==
  [][conn'["server"].validated /\ ~conn["server"].validated =>
       \/ conn["client"].rx["handshake"] >= 1
       \/ conn["client"].token \in dispatcher.expired + 1 .. dispatcher.retries]_vars

(* No downgrade: when the client has checked the version the server          *)
(* authenticates, both use the same one, and it is version 2 exactly when    *)
(* both have it enabled, whatever the packets on the way looked like         *)
(* (ai_quic_conn_validate_server_version_information).                       *)
VersionsAgree ==
  LET client == conn["client"]  server == conn["server"]
  IN  client.checked =>
        /\ server.checked /\ client.version = server.version
        /\ client.version = 2 <=> client.v2 /\ server.v2

(* The server's flight gets through the event queue whole: when a ClientHello *)
(* has been read and the queue is empty, the 1-RTT keys that its last event  *)
(* installs are there (AI_QUIC_TLS_MAX_EVENTS, ai_quic_tls_queue_event).     *)
FlightComplete ==
  LET server == conn["server"]
  IN  BoringSSL /\ server.rx["initial"] > 0 /\ ~server.failed /\ server.events = <<>>
        => server.key["app"] = "installed"

\* The exception to what follows: tickets.  A server that is complete sends them
\* in Handshake packets, with the numbers and the offsets of the application
\* space (CryptoPacket).
TicketsOut(c, side) == side = "server" /\ c.tls_complete /\ Tickets > 0

\* The connection c has given out the number n for a packet of that type.
Numbered(c, side, type, n) ==
  \/ n < c.next_pn[type]
  \/ TicketsOut(c, side) /\ type = "handshake" /\ n < c.next_pn["app"]

\* The number n in the ACK frame of p, a packet of the connection c: a ticket carries
\* the ACK of the application space, too.
Acknowledges(p, n, c, o, side) ==
  \/ Numbered(o, Peer(side), p.type, n)
  \/ /\ TicketsOut(c, side) /\ p.type = "handshake" /\ p.crypto # -1
     /\ n < o.next_pn["app"]

(* What an ACK in flight or a connection claims to have received was sent   *)
(* by the other side with that number, across a Retry and discarded keys    *)
(* (ai_quic_pn_space_mark_key_discarded, ai_quic_conn_reset_handshake_state). *)
(* It was sent in that space, but for the tickets: a client acknowledges    *)
(* their numbers in the Handshake space, where the server never sent them.  *)
AcksAreTrue ==
  \A side \in Sides :
    LET peer == conn[Peer(side)]
    IN  /\ \A sp \in Spaces : \A n \in conn[side].received[sp] :
             Numbered(peer, Peer(side), sp, n)
        /\ \A p \in InFlight(Peer(side)) :
             p.type # "retry" =>
               \A n \in p.acks : Acknowledges(p, n, conn[side], peer, side)

(* TLS is never fed a piece of the handshake that the peer's TLS did not    *)
(* write before, and both sides derive Initial keys from the same           *)
(* connection ID while they exchange CRYPTO data.  The client takes tickets *)
(* for repeated Handshake data and passes them over, unless they are longer *)
(* than the server's flight.                                                *)
CryptoInOrder ==
  /\ \A side \in Sides, sp \in {"initial", "handshake"} :
       LET peer == conn[Peer(side)]
       IN  \/ conn[side].rx[sp] <= peer.tx[sp]
           \/ /\ TicketsOut(peer, Peer(side)) /\ sp = "handshake"
              /\ peer.tx["app"] > peer.tx["handshake"]
  /\ conn["server"].state # "absent" => conn["server"].retry = conn["client"].retry

(* Neither process is ended by the network's reordering and repetition.     *)
NobodyFails == \A side \in Sides : ~conn[side].failed

NewPackets(side) == InFlight(Peer(side))' \ InFlight(Peer(side))

\* A packet of the connection c with a number that b, the same connection
\* before, had not given out in the space it is taken from.
FreshNumber(p, b, c, side) ==
  \/ p.pn >= b.next_pn[p.type]
  \/ /\ TicketsOut(c, side) /\ p.type = "handshake" /\ p.crypto # -1
     /\ p.pn >= b.next_pn["app"]

(* No side takes a packet number twice from a number space: a packet that   *)
(* enters the network has a number its side had not given out before, also  *)
(* after a Retry has restarted the client.  Tickets take theirs from the    *)
(* application space, whatever the keys that protect them have seen         *)
(* (EveryNumberIsFresh).                                                    *)
NumbersAreFresh ==
  [][\A side \in Sides : \A p \in NewPackets(side) :
       p.type # "retry" => FreshNumber(p, conn[side], conn'[side], side)]_vars


(* Keys that were discarded protect no further packet.                      *)
DiscardedKeysUnused ==
  [][\A side \in Sides : \A p \in NewPackets(side) :
       p.type # "retry" => conn[side].key[p.type] # "discarded"]_vars

(* Unless a datagram is lost, the handshake is confirmed on both sides and  *)
(* the request leaves, whatever the network repeats or reorders.            *)
HandshakeCompletes ==
  <>(faults.drop > 0 \/ (conn["client"].asked /\ conn["server"].confirmed))

(* What the documents ask for (step03-v2-logic-design.md:350): the version    *)
(* the server authenticates as chosen is the one it takes for the           *)
(* connection.                                                              *)
ChosenIsNegotiated ==
  conn["server"].checked => conn["server"].told.chosen = conn["server"].version

(* What the documents ask for, reliable delivery of CRYPTO data             *)
(* (step01-handshake-doc-index.md:103): as long as the client's handshake   *)
(* is not over there is a datagram on its way, or the next timeout of a     *)
(* side sends one.                                                          *)
CryptoIsReliable ==
  conn["client"].state = "handshaking" /\ ~conn["client"].completed =>
    \E side \in Sides : net[side] # <<>> \/ Flush(conn[side], side).out # <<>>
=============================================================================
