-------------------------- MODULE HandshakeInvariant --------------------------
(***************************************************************************)
(* Why the handshake keeps what it promises: what holds of a connection at *)
(* every point of a handler, what ties it to the other side's, and what a  *)
(* packet says about its sender, inductive together.  `c' is a connection, *)
(* `o' the other side's.                                                   *)
(***************************************************************************)
EXTENDS Handshake

FlightsFit == \A f \in Flights : f + 3 <= MaxEvents

Queued(c) == {c.events[i] : i \in DOMAIN c.events}
Staged(c) == UNION {{c.out[i][j] : j \in DOMAIN c.out[i]} : i \in DOMAIN c.out}

\* TLS has nothing to say before it has completed but this (ClientEvents).
EarlyEvents == {"write_initial", "install_handshake"}

\* A connection by itself.
ConnOK(c, side) ==
  /\ Len(c.events) <= MaxEvents
  /\ "write_app" \in Queued(c) => TicketsOut(c, side)
  /\ c.completed => c.tls_complete
  /\ \A i \in DOMAIN c.out : c.out[i] # <<>>
  /\ side = "client" =>
       /\ Queued(c) \subseteq EarlyEvents \/ c.tls_complete
       /\ c.can_send => c.completed
       /\ c.asked => c.confirmed /\ c.completed
       /\ c.tls_complete => c.rx["handshake"] >= 1
       /\ ~c.done_due /\ c.token = c.retry
  /\ side = "server" =>
       /\ "complete" \in Queued(c) => c.tls_complete
       /\ c.done_due \/ c.confirmed => c.completed
       /\ c.validated \/ c.bytes_sent <= 3 * c.bytes_received

\* ... and when it is not in the middle of a packet.
Settled(c, side) ==
  side = "client" /\ ~c.failed =>
    /\ c.tls_complete => c.completed
    /\ c.received["handshake"] # {} => c.rx["handshake"] >= 1

\* A client that no packet of the server has reached.
Alone(c) ==
  /\ \A sp \in Spaces : c.received[sp] = {} /\ c.rx[sp] = 0
  /\ \A sp \in Spaces \ {"initial"} : c.next_pn[sp] = 0 /\ c.tx[sp] = 0
  /\ Queued(c) \subseteq {"write_initial"} /\ ~c.tls_complete

\* A server's connection before its first packet.
Untouched(c) ==
  /\ \A sp \in Spaces : c.received[sp] = {} /\ c.rx[sp] = 0
  /\ ~c.tls_complete /\ c.events = <<>>

\* The first n pieces a packet of that type has carried, or can be taken for, are
\* pieces that the connection c has written.
Written(c, side, type, n) ==
  \/ n <= c.tx[type]
  \/ TicketsOut(c, side) /\ type = "handshake" /\ n <= c.tx["app"]

\* A connection and the other side's.
PeerOK(c, o, side) ==
  /\ \A sp \in Spaces : \A n \in c.received[sp] : Numbered(o, Peer(side), sp, n)
  /\ \A sp \in {"initial", "handshake"} : Written(o, Peer(side), sp, c.rx[sp])
  /\ side = "client" =>
       /\ c.confirmed => o.confirmed
       /\ o.state = "absent" => Alone(c)
  /\ side = "server" =>
       /\ c.tls_complete => o.completed
       /\ c.received["handshake"] # {} => o.rx["handshake"] >= 1
       /\ c.state \notin {"absent", "pre_validation"} => c.retry = o.retry

\* A packet that has been built by the connection c.
PacketOK(p, c, o, side) ==
  /\ p \in Packet /\ p.type \in Spaces
  /\ Numbered(c, side, p.type, p.pn)
  /\ \A n \in p.acks : Acknowledges(p, n, c, o, side)
  /\ p.crypto # -1 /\ (side = "client" /\ p.type = "initial" => p.cid = c.retry)
       => Written(c, side, p.type, p.crypto + 1)
  /\ p.finished => p.type = "handshake"
  /\ side = "client" =>
       /\ p.finished => c.completed
       /\ ~p.done
       /\ p.type = "initial" => p.token = p.cid /\ p.cid \in {0, c.retry}
       /\ p.type = "handshake" => c.rx["handshake"] >= 1
       /\ p.type # "initial" => o.state # "absent"
  /\ side = "server" =>
       /\ p.done => c.confirmed
       /\ p.type = "handshake" /\ p.crypto = -1 => o.rx["handshake"] >= 1
       /\ c.state # "absent"

RetryOK(p) ==
  /\ p \in Packet /\ p.type = "retry" /\ dispatcher.retry_enabled
  /\ p.token = p.cid /\ p.cid \in 1 .. dispatcher.retries

RetryInv ==
  LET client == conn["client"]  server == conn["server"]
  IN  /\ client.retry \in 0 .. dispatcher.retries
      /\ client.retry # 0 => dispatcher.retry_enabled
      /\ server.state # "absent" /\ dispatcher.retry_enabled => client.retry # 0
      /\ server.state = "absent" => Untouched(server) /\ ~server.validated /\ ~server.failed
      /\ \A side \in Sides : conn[side].state # "pre_validation"

ConnInv ==
  \A side \in Sides :
    LET c == conn[side]
    IN  ConnOK(c, side) /\ Settled(c, side) /\ PeerOK(c, conn[Peer(side)], side) /\ c.out = <<>>

FlightInv ==
  /\ \A side \in Sides : \A i \in DOMAIN net[side] : net[side][i].packets # <<>>
  /\ \A p \in InFlight("server") : PacketOK(p, conn["client"], conn["server"], "client")
  /\ \A p \in InFlight("client") :
       RetryOK(p) \/ PacketOK(p, conn["server"], conn["client"], "server")

(* This much is preserved by itself, and implies that numbers, CRYPTO data,  *)
(* ACKs and the steps of the exchange are in order.                         *)
BaseInv == TypeOK /\ RetryInv /\ ConnInv /\ FlightInv

\* What a client offers, and what the two sides then agree on.
Offered(c) == IF c.v2 THEN {1, 2} ELSE {1}
Agreed(c, s) == IF c.v2 /\ s.v2 THEN 2 ELSE 1

\* The versions and the keys of the client c, s being the server: it follows the
\* server's version, has read the whole flight once its TLS is complete, and only
\* then discards keys.
ClientAgrees(c, s) ==
  /\ c.original = 1
  /\ c.state # "absent" => c.told.chosen = 1 /\ c.told.available = Offered(c)
  /\ c.version = 1 \/ (s.checked /\ c.version = s.version)
  /\ c.checked => s.checked /\ c.version = s.version
  /\ c.tls_complete => /\ c.rx["handshake"] >= s.tx["handshake"]
                       /\ BoringSSL => c.rx["initial"] >= 1
  /\ \A sp \in Spaces : c.key[sp] = "discarded" => c.tls_complete /\ sp # "app"

\* ... and of the server s: the ClientHello settles the version, and until then
\* the server has nothing to say.
ServerAgrees(s, c) ==
  /\ s.original = 1
  /\ s.checked <=> s.rx["initial"] >= 1
  /\ s.checked => s.version = Agreed(c, s)
  /\ ~s.checked /\ ~s.failed => ~s.done_due /\ \A sp \in Spaces : ~s.ack_needed[sp]
  /\ \A sp \in Spaces : s.key[sp] = "discarded" => sp = "initial" /\ s.checked
  /\ BoringSSL /\ FlightsFit /\ s.checked /\ ~s.failed => s.key["app"] = "installed"

\* What a packet of the client says, and one of the server.
FromClient(p, c, s) ==
  /\ p.type = "initial" /\ p.crypto # -1 =>
       p.params.chosen = 1 /\ p.params.available = Offered(c)
  /\ ~s.checked => p.type = "initial" /\ p.version = 1
  /\ p.request => p.type = "app"

FromServer(p, s) ==
  /\ s.checked /\ p.version = s.version
  /\ p.finished => p.crypto = s.tx["handshake"] - 1
  /\ ~BoringSSL /\ p.type = "initial" => p.crypto = -1

\* The versions and keys of both sides; between handlers TLS has nothing left to say.
AgreeInv ==
  LET client == conn["client"]  server == conn["server"]
  IN  /\ ClientAgrees(client, server) /\ ServerAgrees(server, client)
      /\ ~server.checked => Alone(client)
      /\ client.state = "absent" => ~client.tls_complete
      /\ \A side \in Sides : conn[side].failed \/ conn[side].events = <<>>
      /\ \A p \in InFlight("server") : FromClient(p, client, server)
      /\ \A p \in InFlight("client") : p.type = "retry" \/ FromServer(p, server)

(* All of it together is what every handler preserves, and it implies the   *)
(* safety properties of Handshake.                                          *)
IndInv == BaseInv /\ AgreeInv
=============================================================================
