--------------------------- MODULE Handshake_proofs ---------------------------
(***************************************************************************)
(* The handshake keeps its safety properties, for any number of lost,      *)
(* repeated and overtaking datagrams, any length of the server's flight,   *)
(* with and without Retry, and for both TLS implementations.               *)
(*                                                                         *)
(* A handler is taken apart into its calls.  Good(b, c, o, side) holds of  *)
(* the connection c at every point of a handler that started with b, o     *)
(* being the other side's: there is one lemma per call, that it keeps      *)
(* Good.  Loops over events and packets go by Common_proofs.               *)
(***************************************************************************)
EXTENDS HandshakeInvariant, Common_proofs

\* What a side does never takes back; only a Retry lets the client's Initial
\* CRYPTO offset start over, before there is a server.
Evolves(c, d, o, side) ==
  /\ \A sp \in Spaces : c.next_pn[sp] <= d.next_pn[sp] /\ c.rx[sp] <= d.rx[sp]
  /\ \A sp \in Spaces : \/ c.tx[sp] <= d.tx[sp]
                        \/ side = "client" /\ sp = "initial" /\ d.retry # c.retry
  /\ c.tls_complete => d.tls_complete
  /\ c.completed => d.completed
  /\ c.state # "absent" => d.state # "absent"
  /\ side = "client" =>
       \/ d.retry = c.retry
       \/ c.retry = 0 /\ o.state = "absent" /\ Untouched(o)
  /\ side = "server" =>
       /\ c.confirmed => d.confirmed
       /\ d.validated => c.validated \/ o.rx["handshake"] >= 1

\* A staged packet is true, and new since b.
StagedOK(b, c, o, side) ==
  \A p \in Staged(c) : PacketOK(p, c, o, side) /\ FreshNumber(p, b, c, side)

Good(b, c, o, side) ==
  /\ c \in Conn /\ ConnOK(c, side) /\ PeerOK(c, o, side)
  /\ Evolves(b, c, o, side) /\ StagedOK(b, c, o, side)

\* c and d differ at most in what the invariant does not look at, and in that d
\* may have failed.
Same(c, d) ==
  /\ d.state = c.state /\ d.received = c.received /\ d.next_pn = c.next_pn
  /\ d.tx = c.tx /\ d.rx = c.rx /\ d.events = c.events
  /\ d.tls_complete = c.tls_complete /\ d.completed = c.completed
  /\ d.confirmed = c.confirmed /\ d.can_send = c.can_send /\ d.done_due = c.done_due
  /\ d.validated = c.validated /\ d.retry = c.retry /\ d.token = c.token
  /\ d.asked = c.asked /\ d.bytes_sent = c.bytes_sent
  /\ d.bytes_received = c.bytes_received /\ d.out = c.out

(***************************************************************************)
(* What the relations say to each other                                    *)
(***************************************************************************)
LEMMA PeerIs == Peer("client") = "server" /\ Peer("server") = "client"
BY DEF Peer, Sides

LEMMA ConnFields ==
  ASSUME NEW c \in Conn
  PROVE  /\ c.received \in [Spaces -> SUBSET Nat] /\ c.next_pn \in [Spaces -> Nat]
         /\ c.tx \in [Spaces -> Nat] /\ c.rx \in [Spaces -> Nat]
         /\ c.events \in Seq(TlsEvents) /\ c.out \in Seq(Seq(Packet))
         /\ c.retry \in Nat /\ c.token \in Nat
         /\ c.bytes_sent \in Nat /\ c.bytes_received \in Nat
         /\ c.tls_complete \in BOOLEAN /\ c.completed \in BOOLEAN /\ c.confirmed \in BOOLEAN
         /\ c.can_send \in BOOLEAN /\ c.done_due \in BOOLEAN /\ c.validated \in BOOLEAN
         /\ c.asked \in BOOLEAN /\ c.failed \in BOOLEAN /\ c.state \in States
         /\ c.key \in [Spaces -> KeyStates] /\ c.ack_needed \in [Spaces -> BOOLEAN]
         /\ c.told \in Params /\ c.version \in Versions /\ c.flight \in Flights
         /\ c.v2 \in BOOLEAN /\ c.original \in Versions
BY DEF Conn

LEMMA Counters ==
  ASSUME NEW c \in Conn, NEW sp \in Spaces
  PROVE  /\ c.next_pn[sp] \in Nat /\ c.tx[sp] \in Nat /\ c.rx[sp] \in Nat
         /\ c.received[sp] \in SUBSET Nat
BY ConnFields

LEMMA EvolvesRefl ==
  ASSUME NEW c \in Conn, NEW o, NEW side
  PROVE  Evolves(c, c, o, side)
<1>1. \A sp \in Spaces : c.next_pn[sp] \in Nat /\ c.tx[sp] \in Nat /\ c.rx[sp] \in Nat
  BY Counters
<1>2. \A sp \in Spaces : c.next_pn[sp] <= c.next_pn[sp] /\ c.rx[sp] <= c.rx[sp]
  BY <1>1
<1>3. \A sp \in Spaces : c.tx[sp] <= c.tx[sp]
  BY <1>1
<1> QED
  BY <1>2, <1>3, Zenon DEF Evolves

LEMMA EvolvesTrans ==
  ASSUME NEW c \in Conn, NEW d \in Conn, NEW e \in Conn, NEW o, NEW side,
         Evolves(c, d, o, side), Evolves(d, e, o, side)
  PROVE  Evolves(c, e, o, side)
<1>0. \A sp \in Spaces : /\ c.next_pn[sp] \in Nat /\ c.tx[sp] \in Nat /\ c.rx[sp] \in Nat
                         /\ d.next_pn[sp] \in Nat /\ d.tx[sp] \in Nat /\ d.rx[sp] \in Nat
                         /\ e.next_pn[sp] \in Nat /\ e.tx[sp] \in Nat /\ e.rx[sp] \in Nat
  BY Counters
<1>1. \A sp \in Spaces : c.next_pn[sp] <= e.next_pn[sp] /\ c.rx[sp] <= e.rx[sp]
  BY <1>0 DEF Evolves
<1>2. \A sp \in Spaces : \/ c.tx[sp] <= e.tx[sp]
                         \/ side = "client" /\ sp = "initial" /\ e.retry # c.retry
  BY <1>0 DEF Evolves
<1> QED
  BY <1>1, <1>2 DEF Evolves

LEMMA ReadStays ==
  ASSUME NEW c \in Conn, NEW d \in Conn, NEW o, NEW side,
         Evolves(c, d, o, side), c.rx["handshake"] >= 1
  PROVE  d.rx["handshake"] >= 1
<1>1. "handshake" \in Spaces
  BY DEF Spaces
<1>2. c.rx["handshake"] \in Nat /\ d.rx["handshake"] \in Nat
  BY <1>1, Counters
<1>3. c.rx["handshake"] <= d.rx["handshake"]
  BY <1>1 DEF Evolves
<1> QED
  BY <1>2, <1>3

\* Numbers that were given out, and pieces that were written, remain so.
LEMMA NumberedStays ==
  ASSUME NEW c \in Conn, NEW d \in Conn, NEW o, NEW side, NEW type \in Spaces, NEW n \in Nat,
         Evolves(c, d, o, side), Numbered(c, side, type, n)
  PROVE  Numbered(d, side, type, n)
<1>1. \A sp \in Spaces : /\ c.next_pn[sp] \in Nat /\ d.next_pn[sp] \in Nat
                         /\ c.next_pn[sp] <= d.next_pn[sp]
  BY Counters DEF Evolves
<1>2. TicketsOut(c, side) => TicketsOut(d, side)
  BY DEF TicketsOut, Evolves
<1>3. "app" \in Spaces
  BY DEF Spaces
<1>4. n < c.next_pn[type] => n < d.next_pn[type]
  BY <1>1
<1>5. n < c.next_pn["app"] => n < d.next_pn["app"]
  BY <1>1, <1>3
<1> QED
  BY <1>2, <1>4, <1>5 DEF Numbered

LEMMA WrittenStays ==
  ASSUME NEW c \in Conn, NEW d \in Conn, NEW o, NEW side, NEW type \in Spaces, NEW n \in Nat,
         Evolves(c, d, o, side), Written(c, side, type, n),
         side = "client" /\ type = "initial" => d.retry = c.retry
  PROVE  Written(d, side, type, n)
<1>1. \A sp \in Spaces : c.tx[sp] \in Nat /\ d.tx[sp] \in Nat
  BY Counters
<1>2. TicketsOut(c, side) => TicketsOut(d, side) /\ side = "server"
  BY DEF TicketsOut, Evolves
<1>3. "app" \in Spaces
  BY DEF Spaces
<1>4. n <= c.tx[type] => n <= d.tx[type]
  BY <1>1 DEF Evolves
<1>5. side = "server" /\ n <= c.tx["app"] => n <= d.tx["app"]
  BY <1>1, <1>3 DEF Evolves
<1> QED
  BY <1>2, <1>4, <1>5 DEF Written

\* A number that is new since b2 is new since what b2 came from.
LEMMA FreshStays ==
  ASSUME NEW b1 \in Conn, NEW b2 \in Conn, NEW c1, NEW c2, NEW o, NEW side, NEW p,
         p.pn \in Nat, p.type \in Spaces, Evolves(b1, b2, o, side),
         TicketsOut(c1, side) => TicketsOut(c2, side), FreshNumber(p, b2, c1, side)
  PROVE  FreshNumber(p, b1, c2, side)
<1>1. \A sp \in Spaces : /\ b1.next_pn[sp] \in Nat /\ b2.next_pn[sp] \in Nat
                         /\ b1.next_pn[sp] <= b2.next_pn[sp]
  BY Counters DEF Evolves
<1>2. "app" \in Spaces
  BY DEF Spaces
<1>3. p.pn >= b2.next_pn[p.type] => p.pn >= b1.next_pn[p.type]
  BY <1>1
<1>4. p.pn >= b2.next_pn["app"] => p.pn >= b1.next_pn["app"]
  BY <1>1, <1>2
<1> QED
  BY <1>3, <1>4 DEF FreshNumber

\* A packet stays true while its sender goes on,
LEMMA SenderGoesOn ==
  ASSUME NEW c \in Conn, NEW d \in Conn, NEW o \in Conn, NEW side \in Sides, NEW p,
         PacketOK(p, c, o, side), Evolves(c, d, o, side)
  PROVE  PacketOK(p, d, o, side)
<1>1. p.pn \in Nat /\ p.crypto \in Nat \cup {-1} /\ p.type \in Spaces /\ p.cid \in Nat
  BY DEF PacketOK, Packet
<1>2. Numbered(d, side, p.type, p.pn)
  BY <1>1, NumberedStays DEF PacketOK
<1>3. p.crypto # -1 /\ (side = "client" /\ p.type = "initial" => p.cid = d.retry)
        => Written(d, side, p.type, p.crypto + 1)
  <2> SUFFICES ASSUME p.crypto # -1, side = "client" /\ p.type = "initial" => p.cid = d.retry
               PROVE  Written(d, side, p.type, p.crypto + 1)
    OBVIOUS
  <2>1. p.crypto + 1 \in Nat
    BY <1>1
  <2>2. CASE side = "client" /\ p.type = "initial" /\ d.retry # c.retry
    <3>1. p.cid \in {0, c.retry} /\ c.retry = 0
      BY <2>2 DEF PacketOK, Evolves
    <3> QED
      BY <2>2, <3>1
  <2>3. CASE side = "client" /\ p.type = "initial" => d.retry = c.retry
    <3>1. Written(c, side, p.type, p.crypto + 1)
      BY <2>3 DEF PacketOK
    <3> QED
      BY <1>1, <2>1, <2>3, <3>1, WrittenStays
  <2> QED
    BY <2>2, <2>3
<1>4. side = "client" => /\ p.finished => d.completed
                         /\ p.type = "initial" => p.token = p.cid /\ p.cid \in {0, d.retry}
                         /\ p.type = "handshake" => d.rx["handshake"] >= 1
  BY ReadStays DEF PacketOK, Evolves
<1>5. side = "server" => (p.done => d.confirmed) /\ d.state # "absent"
  BY DEF PacketOK, Evolves
<1>6. TicketsOut(c, side) => TicketsOut(d, side)
  BY DEF TicketsOut, Evolves
<1>7. \A n \in p.acks : Acknowledges(p, n, d, o, side)
  BY <1>6 DEF PacketOK, Acknowledges
<1> QED
  BY <1>2, <1>3, <1>4, <1>5, <1>7 DEF PacketOK

\* and while its receiver does.
LEMMA ReceiverGoesOn ==
  ASSUME NEW c \in Conn, NEW d \in Conn, NEW o \in Conn, NEW side \in Sides, NEW p,
         PacketOK(p, o, c, Peer(side)), Evolves(c, d, o, side)
  PROVE  PacketOK(p, o, d, Peer(side))
<1>1. p.type \in Spaces /\ p.acks \in SUBSET Nat
  BY DEF PacketOK, Packet
<1>2. \A n \in p.acks : Acknowledges(p, n, o, d, Peer(side))
  <2> SUFFICES ASSUME NEW n \in p.acks PROVE Acknowledges(p, n, o, d, Peer(side))
    OBVIOUS
  <2>1. n \in Nat /\ Peer(Peer(side)) = side
    BY <1>1, PeerIs DEF Sides
  <2>2. Acknowledges(p, n, o, c, Peer(side))
    BY DEF PacketOK
  <2>3. CASE Numbered(c, side, p.type, n)
    <3>1. Numbered(d, side, p.type, n)
      BY <1>1, <2>1, <2>3, NumberedStays
    <3> QED
      BY <2>1, <3>1 DEF Acknowledges
  <2>4. CASE ~Numbered(c, side, p.type, n)
    <3>1. "app" \in Spaces
      BY DEF Spaces
    <3>2. /\ c.next_pn["app"] \in Nat /\ d.next_pn["app"] \in Nat
          /\ c.next_pn["app"] <= d.next_pn["app"]
      BY <3>1, Counters DEF Evolves
    <3> QED
      BY <2>1, <2>2, <2>4, <3>2 DEF Acknowledges
  <2> QED
    BY <2>3, <2>4
<1>3. c.rx["handshake"] >= 1 => d.rx["handshake"] >= 1
  BY ReadStays
<1>4. c.state # "absent" => d.state # "absent"
  BY DEF Evolves
<1> QED
  BY <1>2, <1>3, <1>4 DEF PacketOK

\* So does what the other side's connection says of this one.
LEMMA PeerGoesOn ==
  ASSUME NEW c \in Conn, NEW d \in Conn, NEW o \in Conn, NEW side \in Sides,
         PeerOK(o, c, Peer(side)), Evolves(c, d, o, side)
  PROVE  PeerOK(o, d, Peer(side))
<1>0. \A sp \in Spaces : /\ c.next_pn[sp] \in Nat /\ c.tx[sp] \in Nat /\ c.rx[sp] \in Nat
                         /\ d.next_pn[sp] \in Nat /\ d.tx[sp] \in Nat /\ d.rx[sp] \in Nat
                         /\ o.received[sp] \in SUBSET Nat /\ o.rx[sp] \in Nat
  BY Counters
<1>p. Peer(Peer(side)) = side
  BY PeerIs DEF Sides
<1>1. \A sp \in Spaces : \A n \in o.received[sp] : Numbered(d, side, sp, n)
  <2> SUFFICES ASSUME NEW sp \in Spaces, NEW n \in o.received[sp]
               PROVE  Numbered(d, side, sp, n)
    OBVIOUS
  <2>1. Numbered(c, side, sp, n) /\ n \in Nat
    BY <1>0, <1>p DEF PeerOK
  <2> QED
    BY <2>1, NumberedStays
<1>2. \A sp \in {"initial", "handshake"} : Written(d, side, sp, o.rx[sp])
  <2> SUFFICES ASSUME NEW sp \in {"initial", "handshake"}
               PROVE  Written(d, side, sp, o.rx[sp])
    OBVIOUS
  <2>0. sp \in Spaces
    BY DEF Spaces
  <2>1. CASE side = "client" /\ d.retry # c.retry
    <3>1. o.rx[sp] = 0
      BY <2>0, <2>1 DEF Evolves, Untouched
    <3>2. o.rx[sp] <= d.tx[sp]
      BY <1>0, <2>0, <3>1
    <3> QED
      BY <3>2 DEF Written
  <2>2. CASE side = "server" \/ d.retry = c.retry
    <3>1. Written(c, side, sp, o.rx[sp]) /\ o.rx[sp] \in Nat
      BY <1>0, <1>p, <2>0 DEF PeerOK
    <3> QED
      BY <2>0, <2>2, <3>1, WrittenStays
  <2> QED
    BY <2>1, <2>2 DEF Sides
<1>3. CASE side = "client"
  <2>1. o.tls_complete => d.completed
    BY <1>3, PeerIs DEF PeerOK, Evolves
  <2>2. o.received["handshake"] # {} => d.rx["handshake"] >= 1
    BY <1>3, PeerIs, ReadStays DEF PeerOK
  <2>3. o.state \notin {"absent", "pre_validation"} => o.retry = d.retry
    BY <1>3, PeerIs DEF PeerOK, Evolves
  <2> QED
    BY <1>1, <1>2, <1>3, <2>1, <2>2, <2>3, PeerIs DEF PeerOK
<1>4. CASE side = "server"
  <2>1. o.confirmed => d.confirmed
    BY <1>4, PeerIs DEF PeerOK, Evolves
  <2>2. d.state = "absent" => Alone(o)
    BY <1>4, PeerIs DEF PeerOK, Evolves
  <2> QED
    BY <1>1, <1>2, <1>4, <2>1, <2>2, PeerIs DEF PeerOK
<1> QED
  BY <1>3, <1>4 DEF Sides

\* A call keeps Good if it keeps the invariant of the connection and what it
\* stages is true and new.
LEMMA Advance ==
  ASSUME NEW b \in Conn, NEW c, NEW d \in Conn, NEW o \in Conn, NEW side \in Sides,
         Good(b, c, o, side), ConnOK(d, side), PeerOK(d, o, side), Evolves(c, d, o, side),
         \A p \in Staged(d) \ Staged(c) : PacketOK(p, d, o, side) /\ FreshNumber(p, c, d, side)
  PROVE  Good(b, d, o, side)
<1>1. c \in Conn /\ Evolves(b, c, o, side)
  BY DEF Good
<1>2. Evolves(b, d, o, side)
  BY <1>1, EvolvesTrans
<1>0. TicketsOut(c, side) => TicketsOut(d, side)
  BY DEF TicketsOut, Evolves
<1>3. ASSUME NEW p \in Staged(d)
      PROVE  PacketOK(p, d, o, side) /\ FreshNumber(p, b, d, side)
  <2>1. CASE p \in Staged(c)
    <3>1. PacketOK(p, c, o, side) /\ FreshNumber(p, b, c, side)
      BY <2>1 DEF Good, StagedOK
    <3>2. p.pn \in Nat /\ p.type \in Spaces
      BY <3>1 DEF PacketOK, Packet
    <3>3. FreshNumber(p, b, d, side)
      BY <1>0, <1>1, <3>1, <3>2, EvolvesRefl, FreshStays
    <3> QED
      BY <1>1, <3>1, <3>3, SenderGoesOn
  <2>2. CASE p \notin Staged(c)
    <3>1. PacketOK(p, d, o, side) /\ FreshNumber(p, c, d, side)
      BY <2>2
    <3>2. p.pn \in Nat /\ p.type \in Spaces
      BY <3>1 DEF PacketOK, Packet
    <3>3. FreshNumber(p, b, d, side)
      BY <1>1, <3>1, <3>2, FreshStays
    <3> QED
      BY <3>1, <3>3
  <2> QED
    BY <2>1, <2>2
<1> QED
  BY <1>2, <1>3 DEF Good, StagedOK

LEMMA SameIsGood ==
  ASSUME NEW b \in Conn, NEW c, NEW d \in Conn, NEW o \in Conn, NEW side \in Sides,
         Good(b, c, o, side), Same(c, d)
  PROVE  Good(b, d, o, side)
<1>1. c \in Conn /\ ConnOK(c, side) /\ PeerOK(c, o, side)
  BY DEF Good
<1>2. ConnOK(d, side)
  BY <1>1 DEF Same, ConnOK, Queued, TicketsOut
<1>3. PeerOK(d, o, side)
  BY <1>1 DEF Same, PeerOK, Alone, Queued
<1>4. Evolves(c, d, o, side)
  BY <1>1, EvolvesRefl DEF Same, Evolves
<1>5. Staged(d) = Staged(c)
  BY DEF Same, Staged
<1> QED
  BY <1>2, <1>3, <1>4, <1>5, Advance

(***************************************************************************)
(* Sending                                                                 *)
(***************************************************************************)
\* A connection that polls its TLS events, or has, after it was b.
Sending(b, c, o, side) ==
  /\ Good(b, c, o, side) /\ Settled(c, side) /\ c.events = <<>>
  /\ c.tls_complete = b.tls_complete /\ c.retry = b.retry
  /\ c.state \notin {"absent", "pre_validation"}

LEMMA FailGood ==
  ASSUME NEW b \in Conn, NEW c, NEW o \in Conn, NEW side \in Sides,
         Good(b, c, o, side)
  PROVE  Good(b, Fail(c), o, side) /\ Same(c, Fail(c)) /\ Fail(c).failed
<1>1. c \in Conn
  BY DEF Good
<1>2. Fail(c) \in Conn /\ Same(c, Fail(c)) /\ Fail(c).failed
  BY <1>1 DEF Fail, Conn, Same
<1> QED
  BY <1>2, SameIsGood

LEMMA SizeType ==
  ASSUME NEW side, NEW packets
  PROVE  Size(side, packets) \in Nat
BY SizeAssumption DEF Size

\* What a datagram adds to the staged ones.
LEMMA StagedAppend ==
  ASSUME NEW c, NEW d, c.out \in Seq(Seq(Packet)), NEW packets \in Seq(Packet),
         d.out = Append(c.out, packets)
  PROVE  \A p \in Staged(d) \ Staged(c) : \E j \in DOMAIN packets : p = packets[j]
<1> SUFFICES ASSUME NEW i \in DOMAIN d.out, NEW j \in DOMAIN d.out[i],
                    d.out[i][j] \notin Staged(c)
             PROVE  \E k \in DOMAIN packets : d.out[i][j] = packets[k]
  BY DEF Staged
<1>1. i \in 1 .. Len(c.out) + 1
  OBVIOUS
<1>2. CASE i = Len(c.out) + 1
  BY <1>2
<1>3. CASE i # Len(c.out) + 1
  <2>1. i \in DOMAIN c.out /\ d.out[i] = c.out[i]
    BY <1>1, <1>3
  <2>2. c.out[i][j] \in Staged(c)
    BY <2>1 DEF Staged
  <2> QED
    BY <2>1, <2>2
<1> QED
  BY <1>2, <1>3

LEMMA AppendType ==
  ASSUME NEW S, NEW s \in Seq(S), NEW x \in S
  PROVE  Append(s, x) \in Seq(S)
OBVIOUS

\* What a push does when the limit allows it.
LEMMA PushIs ==
  ASSUME NEW c \in Conn, NEW side, NEW packets \in Seq(Packet), NEW d,
         ~OverBudget(c, side, packets), d = Push(c, side, packets)
  PROVE  /\ d \in Conn /\ d.out = Append(c.out, packets)
         /\ d.bytes_sent = c.bytes_sent + Size(side, packets)
         /\ d.state = c.state /\ d.received = c.received /\ d.next_pn = c.next_pn
         /\ d.tx = c.tx /\ d.rx = c.rx /\ d.events = c.events
         /\ d.tls_complete = c.tls_complete /\ d.completed = c.completed
         /\ d.confirmed = c.confirmed /\ d.can_send = c.can_send /\ d.done_due = c.done_due
         /\ d.validated = c.validated /\ d.retry = c.retry /\ d.token = c.token
         /\ d.asked = c.asked /\ d.bytes_received = c.bytes_received /\ d.failed = c.failed
<1>1. c.out \in Seq(Seq(Packet)) /\ c.bytes_sent \in Nat /\ Size(side, packets) \in Nat
  BY ConnFields, SizeType
<1>2. PICK out \in Seq(Seq(Packet)) : out = Append(c.out, packets)
  BY <1>1, AppendType
<1>3. PICK sent \in Nat : sent = c.bytes_sent + Size(side, packets)
  BY <1>1
<1>4. d = [c EXCEPT !.out = out, !.bytes_sent = sent]
  BY <1>2, <1>3, Zenon DEF Push
<1>5. /\ d \in Conn /\ d.out = out /\ d.bytes_sent = sent
      /\ d.state = c.state /\ d.received = c.received /\ d.next_pn = c.next_pn
      /\ d.tx = c.tx /\ d.rx = c.rx /\ d.events = c.events
      /\ d.tls_complete = c.tls_complete /\ d.completed = c.completed
      /\ d.confirmed = c.confirmed /\ d.can_send = c.can_send /\ d.done_due = c.done_due
      /\ d.validated = c.validated /\ d.retry = c.retry /\ d.token = c.token
      /\ d.asked = c.asked /\ d.bytes_received = c.bytes_received /\ d.failed = c.failed
  BY ONLY c \in Conn, out \in Seq(Seq(Packet)), sent \in Nat, <1>4 DEF Conn
<1> QED
  BY <1>2, <1>3, <1>5

LEMMA PushGood ==
  ASSUME NEW b \in Conn, NEW c, NEW o \in Conn, NEW side \in Sides,
         Good(b, c, o, side), NEW packets \in Seq(Packet), packets # <<>>,
         \A j \in DOMAIN packets : /\ PacketOK(packets[j], c, o, side)
                                   /\ FreshNumber(packets[j], b, c, side)
  PROVE  Good(b, Push(c, side, packets), o, side)
<1>1. c \in Conn /\ ConnOK(c, side) /\ PeerOK(c, o, side)
  BY DEF Good
<1>2. CASE OverBudget(c, side, packets)
  BY <1>2, FailGood DEF Push
<1>3. CASE ~OverBudget(c, side, packets)
  <2>1. PICK d : d = Push(c, side, packets)
    OBVIOUS
  <2>2. /\ d \in Conn /\ d.out = Append(c.out, packets)
        /\ d.bytes_sent = c.bytes_sent + Size(side, packets)
        /\ d.state = c.state /\ d.received = c.received /\ d.next_pn = c.next_pn
        /\ d.tx = c.tx /\ d.rx = c.rx /\ d.events = c.events
        /\ d.tls_complete = c.tls_complete /\ d.completed = c.completed
        /\ d.confirmed = c.confirmed /\ d.can_send = c.can_send /\ d.done_due = c.done_due
        /\ d.validated = c.validated /\ d.retry = c.retry /\ d.token = c.token
        /\ d.asked = c.asked /\ d.bytes_received = c.bytes_received
    BY <1>1, <1>3, <2>1, PushIs
  <2>3. ConnOK(d, side)
    <3>1. \A i \in DOMAIN d.out : d.out[i] # <<>>
      <4> SUFFICES ASSUME NEW i \in DOMAIN d.out PROVE d.out[i] # <<>>
        OBVIOUS
      <4>1. c.out \in Seq(Seq(Packet)) /\ \A k \in DOMAIN c.out : c.out[k] # <<>>
        BY <1>1, ConnFields DEF ConnOK
      <4>2. i \in 1 .. Len(c.out) + 1
        BY <2>2, <4>1
      <4>3. CASE i = Len(c.out) + 1
        BY <2>2, <4>1, <4>3
      <4>4. CASE i # Len(c.out) + 1
        BY <2>2, <4>1, <4>2, <4>4
      <4> QED
        BY <4>3, <4>4
    <3>2. side = "server" => d.validated \/ d.bytes_sent <= 3 * d.bytes_received
      <4> SUFFICES ASSUME side = "server", ~d.validated
                   PROVE  d.bytes_sent <= 3 * d.bytes_received
        OBVIOUS
      <4>1. ~(c.bytes_sent + Size(side, packets) > 3 * c.bytes_received)
        BY <1>3, <2>2 DEF OverBudget
      <4> QED
        BY <1>1, <2>2, <4>1, ConnFields, SizeType
    <3> QED
      BY <1>1, <2>2, <3>1, <3>2 DEF ConnOK, Queued, TicketsOut
  <2>4. PeerOK(d, o, side)
    <3>1. Queued(d) = Queued(c)
      BY <2>2 DEF Queued
    <3>2. Alone(c) => Alone(d)
      BY <2>2, <3>1 DEF Alone
    <3> QED
      BY <1>1, <2>2, <3>2 DEF PeerOK
  <2>5. Evolves(c, d, o, side)
    BY <1>1, <2>2, EvolvesRefl DEF Evolves
  <2>6. \A p \in Staged(d) \ Staged(c) : \E j \in DOMAIN packets : p = packets[j]
    <3>1. c.out \in Seq(Seq(Packet)) /\ d.out = Append(c.out, packets)
      BY <1>1, <2>2, ConnFields
    <3> QED
      BY <3>1, StagedAppend
  <2>7. ASSUME NEW p \in Staged(d)
        PROVE  PacketOK(p, d, o, side) /\ FreshNumber(p, b, d, side)
    <3>1. PacketOK(p, c, o, side) /\ FreshNumber(p, b, c, side)
      BY <2>6 DEF Good, StagedOK
    <3>2. FreshNumber(p, b, d, side)
      BY <2>2, <3>1 DEF FreshNumber, TicketsOut
    <3> QED
      BY <1>1, <2>2, <2>5, <3>1, <3>2, SenderGoesOn
  <2>8. Evolves(b, d, o, side)
    BY <1>1, <2>2, <2>5, EvolvesTrans DEF Good
  <2> QED
    BY <2>1, <2>2, <2>3, <2>4, <2>7, <2>8 DEF Good, StagedOK
<1> QED
  BY <1>2, <1>3

LEMMA PushFields ==
  ASSUME NEW c \in Conn, NEW side, NEW packets \in Seq(Packet), NEW d,
         d = Push(c, side, packets)
  PROVE  /\ d \in Conn /\ d.state = c.state /\ d.received = c.received /\ d.rx = c.rx
         /\ d.events = c.events /\ d.tls_complete = c.tls_complete
         /\ d.completed = c.completed /\ d.retry = c.retry /\ (c.failed => d.failed)
<1>1. CASE OverBudget(c, side, packets)
  <2>1. d = [c EXCEPT !.failed = TRUE]
    BY <1>1 DEF Push, Fail
  <2> QED
    BY ONLY c \in Conn, <2>1 DEF Conn
<1>2. CASE ~OverBudget(c, side, packets)
  BY <1>2, PushIs
<1> QED
  BY <1>1, <1>2

LEMMA PushSends ==
  ASSUME NEW b \in Conn, NEW c, NEW o \in Conn, NEW side \in Sides,
         Sending(b, c, o, side), NEW packets \in Seq(Packet), packets # <<>>,
         \A j \in DOMAIN packets : /\ PacketOK(packets[j], c, o, side)
                                   /\ FreshNumber(packets[j], b, c, side)
  PROVE  Sending(b, Push(c, side, packets), o, side)
<1>1. c \in Conn
  BY DEF Sending, Good
<1>2. Good(b, Push(c, side, packets), o, side)
  BY PushGood DEF Sending
<1>3. PICK d : d = Push(c, side, packets)
  OBVIOUS
<1>4. /\ d \in Conn /\ d.state = c.state /\ d.received = c.received /\ d.rx = c.rx
      /\ d.events = c.events /\ d.tls_complete = c.tls_complete
      /\ d.completed = c.completed /\ d.retry = c.retry /\ (c.failed => d.failed)
  BY <1>1, <1>3, PushFields
<1> QED
  BY <1>2, <1>3, <1>4 DEF Sending, Settled

\* An event of a connection's queue.
EventOK(e, c, o, side) ==
  /\ e \in TlsEvents /\ (e = "write_app" => TicketsOut(c, side))
  /\ side = "client" => /\ e \in EarlyEvents \/ c.tls_complete
                        /\ o.state = "absent" => e = "write_initial"
  /\ side = "server" => (e = "complete" => c.tls_complete)

\* c and d differ at most in numbers, CRYPTO offsets and received numbers, and
\* in what the invariant does not look at.
Rest(c, d) ==
  /\ d.state = c.state /\ d.rx = c.rx /\ d.events = c.events
  /\ d.tls_complete = c.tls_complete /\ d.completed = c.completed
  /\ d.confirmed = c.confirmed /\ d.can_send = c.can_send /\ d.done_due = c.done_due
  /\ d.validated = c.validated /\ d.retry = c.retry /\ d.token = c.token
  /\ d.asked = c.asked /\ d.bytes_sent = c.bytes_sent
  /\ d.bytes_received = c.bytes_received /\ d.out = c.out /\ d.failed = c.failed

\* From c to d numbers and CRYPTO offsets are taken and received numbers
\* forgotten.
Moved(c, d) ==
  /\ Rest(c, d)
  /\ \A sp \in Spaces : /\ c.next_pn[sp] <= d.next_pn[sp] /\ c.tx[sp] <= d.tx[sp]
                        /\ d.received[sp] \subseteq c.received[sp]

\* A client that no packet of the server has reached takes Initial numbers only.
InitialOnly(c, d, o, side) ==
  side = "client" /\ o.state = "absent" =>
    \A sp \in Spaces \ {"initial"} : d.next_pn[sp] = c.next_pn[sp] /\ d.tx[sp] = c.tx[sp]

LEMMA MovedSends ==
  ASSUME NEW b \in Conn, NEW c, NEW d \in Conn, NEW o \in Conn, NEW side \in Sides,
         Sending(b, c, o, side), Moved(c, d), InitialOnly(c, d, o, side)
  PROVE  Sending(b, d, o, side)
<1>1. /\ c \in Conn /\ ConnOK(c, side) /\ PeerOK(c, o, side)
  BY DEF Sending, Good
<1>2. ConnOK(d, side)
  BY <1>1 DEF Moved, Rest, ConnOK, Queued, TicketsOut
<1>3. PeerOK(d, o, side)
  <2>1. Queued(d) = Queued(c)
    BY DEF Moved, Rest, Queued
  <2>2. side = "client" /\ o.state = "absent" /\ Alone(c) => Alone(d)
    <3> SUFFICES ASSUME side = "client", o.state = "absent", Alone(c) PROVE Alone(d)
      OBVIOUS
    <3>1. \A sp \in Spaces : d.received[sp] = {} /\ d.rx[sp] = 0
      BY DEF Alone, Moved, Rest
    <3>2. \A sp \in Spaces \ {"initial"} : d.next_pn[sp] = 0 /\ d.tx[sp] = 0
      BY DEF Alone, InitialOnly
    <3> QED
      BY <2>1, <3>1, <3>2 DEF Alone, Moved, Rest
  <2>3. /\ \A sp \in Spaces : \A n \in d.received[sp] : Numbered(o, Peer(side), sp, n)
        /\ \A sp \in {"initial", "handshake"} : Written(o, Peer(side), sp, d.rx[sp])
    BY <1>1 DEF PeerOK, Moved, Rest
  <2>4. side = "client" => (d.confirmed => o.confirmed) /\ (o.state = "absent" => Alone(d))
    BY <1>1, <2>2 DEF PeerOK, Moved, Rest
  <2>5. side = "server" =>
          /\ d.tls_complete => o.completed
          /\ d.received["handshake"] # {} => o.rx["handshake"] >= 1
          /\ d.state \notin {"absent", "pre_validation"} => d.retry = o.retry
    BY <1>1 DEF PeerOK, Moved, Rest, Spaces
  <2> QED
    BY <2>3, <2>4, <2>5 DEF PeerOK
<1>4. Evolves(c, d, o, side)
  <2>1. \A sp \in Spaces : c.rx[sp] <= c.rx[sp]
    BY <1>1, Counters
  <2> QED
    BY <2>1 DEF Moved, Rest, Evolves
<1>5. Staged(d) = Staged(c)
  BY DEF Moved, Rest, Staged
<1>6. Good(b, d, o, side)
  BY <1>2, <1>3, <1>4, <1>5, Advance DEF Sending
<1>7. Settled(d, side)
  <2>1. "handshake" \in Spaces
    BY DEF Spaces
  <2> QED
    BY <2>1 DEF Sending, Settled, Moved, Rest
<1> QED
  BY <1>6, <1>7 DEF Sending, Moved, Rest

LEMMA NewPacketIs ==
  ASSUME NEW c \in Conn, NEW type \in Types, NEW sp \in Spaces, NEW p,
         p = NewPacket(c, type, sp)
  PROVE  /\ p \in Packet /\ p.type = type /\ p.pn = c.next_pn[sp] /\ p.cid = c.retry
         /\ p.token = (IF type = "initial" THEN c.token ELSE 0)
         /\ p.crypto = -1 /\ ~p.finished /\ ~p.done /\ p.acks = {}
<1>1. /\ c.next_pn[sp] \in Nat /\ c.version \in Versions /\ c.retry \in Nat
      /\ (IF type = "initial" THEN c.token ELSE 0) \in Nat /\ NoParams \in Params
  BY ConnFields, Counters DEF NoParams, Params
<1> QED
  BY <1>1 DEF NewPacket, Packet

LEMMA AckPacketIs ==
  ASSUME NEW c \in Conn, NEW sp \in Spaces, NEW p, p = AckPacket(c, sp)
  PROVE  /\ p \in Packet /\ p.type = sp /\ p.pn = c.next_pn[sp] /\ p.cid = c.retry
         /\ p.token = (IF sp = "initial" THEN c.token ELSE 0)
         /\ p.acks = c.received[sp] /\ p.crypto = -1
         /\ ~p.finished /\ ~p.done
<1>1. PICK q : q = NewPacket(c, sp, sp)
  OBVIOUS
<1>2. /\ q \in Packet /\ q.type = sp /\ q.pn = c.next_pn[sp] /\ q.cid = c.retry
      /\ q.token = (IF sp = "initial" THEN c.token ELSE 0)
      /\ q.crypto = -1 /\ ~q.finished /\ ~q.done
  <2>1. sp \in Types
    BY DEF Types
  <2> QED
    BY <1>1, <2>1, NewPacketIs
<1>3. p = [q EXCEPT !.acks = c.received[sp]]
  BY <1>1 DEF AckPacket
<1>4. c.received[sp] \in SUBSET Nat
  BY Counters
<1> QED
  BY ONLY <1>2, <1>3, <1>4 DEF Packet

LEMMA CryptoPacketIs ==
  ASSUME NEW c \in Conn, NEW e \in Writes, NEW p, p = CryptoPacket(c, e)
  PROVE  /\ p \in Packet /\ p.type = (IF Level(e) = "initial" THEN "initial" ELSE "handshake")
         /\ p.pn = c.next_pn[Level(e)] /\ p.cid = c.retry
         /\ p.token = (IF Level(e) = "initial" THEN c.token ELSE 0)
         /\ p.acks \subseteq c.received[Level(e)] /\ p.crypto = c.tx[Level(e)]
         /\ (p.finished <=> e = "write_finished") /\ ~p.done
<1>1. Level(e) \in Spaces
  BY DEF Level, Spaces, Writes
<1>2. PICK sp \in Spaces : sp = Level(e)
  BY <1>1
<1>3. PICK acks : acks = IF c.ack_needed[sp] THEN c.received[sp] ELSE {}
  OBVIOUS
<1>4. acks \subseteq c.received[sp] /\ acks \in SUBSET Nat
  BY <1>3, Counters
<1>5. PICK type \in Types : type = IF sp = "initial" THEN "initial" ELSE "handshake"
  BY DEF Types, Spaces
<1>6. PICK q : q = NewPacket(c, type, sp)
  OBVIOUS
<1>7. /\ q \in Packet /\ q.type = type /\ q.pn = c.next_pn[sp] /\ q.cid = c.retry
      /\ q.token = (IF type = "initial" THEN c.token ELSE 0) /\ ~q.done
  BY <1>6, NewPacketIs
<1>8. p = [q EXCEPT !.crypto = c.tx[sp], !.params = c.told,
             !.finished = (e = "write_finished"), !.acks = acks]
  BY <1>2, <1>3, <1>5, <1>6, Zenon DEF CryptoPacket
<1>9. c.tx[sp] \in Nat /\ c.told \in Params
  BY Counters, ConnFields
<1>10. /\ p \in Packet /\ p.type = type /\ p.pn = c.next_pn[sp] /\ p.cid = c.retry
       /\ p.token = (IF type = "initial" THEN c.token ELSE 0)
       /\ p.acks = acks /\ p.crypto = c.tx[sp]
       /\ (p.finished <=> e = "write_finished") /\ ~p.done
  BY ONLY <1>4, <1>7, <1>8, <1>9 DEF Packet
<1> QED
  BY <1>2, <1>4, <1>5, <1>10

\* An ACK of a space is true of the connection that has used its number.
LEMMA AckIsOK ==
  ASSUME NEW b \in Conn, NEW c, NEW d \in Conn, NEW o \in Conn, NEW side \in Sides,
         Sending(b, c, o, side), ~c.failed, Moved(c, d), NEW sp \in Spaces,
         c.next_pn[sp] < d.next_pn[sp], c.received[sp] # {},
         NEW p, p = AckPacket(c, sp)
  PROVE  PacketOK(p, d, o, side) /\ FreshNumber(p, b, d, side)
<1>1. /\ c \in Conn /\ ConnOK(c, side) /\ PeerOK(c, o, side) /\ Evolves(b, c, o, side)
      /\ Settled(c, side)
  BY DEF Sending, Good
<1>2. /\ p \in Packet /\ p.type = sp /\ p.pn = c.next_pn[sp] /\ p.cid = c.retry
      /\ p.token = (IF sp = "initial" THEN c.token ELSE 0)
      /\ p.acks = c.received[sp] /\ p.crypto = -1 /\ ~p.finished /\ ~p.done
  BY <1>1, AckPacketIs
<1>3. \A n \in p.acks : Acknowledges(p, n, d, o, side)
  BY <1>1, <1>2 DEF PeerOK, Acknowledges
<1>4. /\ p.type = "initial" /\ side = "client" => p.token = p.cid /\ p.cid = d.retry
      /\ side = "client" /\ p.type = "handshake" => d.rx["handshake"] >= 1
      /\ side = "client" => o.state # "absent"
      /\ side = "server" /\ p.type = "handshake" => o.rx["handshake"] >= 1
      /\ side = "server" => d.state # "absent"
  BY <1>1, <1>2 DEF ConnOK, PeerOK, Settled, Moved, Rest, Sending, Alone
<1>5. p.pn >= b.next_pn[p.type] /\ p.pn < d.next_pn[p.type]
  BY <1>1, <1>2, Counters DEF Evolves
<1>6. Numbered(d, side, p.type, p.pn) /\ FreshNumber(p, b, d, side)
  BY <1>5 DEF Numbered, FreshNumber
<1> QED
  BY <1>2, <1>3, <1>4, <1>6 DEF PacketOK

\* So is a packet with CRYPTO data; i is the connection as it is when it builds
\* the packet.
LEMMA CryptoIsOK ==
  ASSUME NEW b \in Conn, NEW c, NEW i \in Conn, NEW d \in Conn, NEW o \in Conn, NEW side \in Sides,
         Sending(b, c, o, side), ~c.failed, Moved(c, i), Moved(i, d),
         NEW e \in Writes, EventOK(e, c, o, side),
         i.next_pn[Level(e)] < d.next_pn[Level(e)], i.tx[Level(e)] < d.tx[Level(e)],
         NEW p, p = CryptoPacket(i, e)
  PROVE  PacketOK(p, d, o, side) /\ FreshNumber(p, b, d, side)
<1>1. /\ c \in Conn /\ ConnOK(c, side) /\ PeerOK(c, o, side) /\ Evolves(b, c, o, side)
      /\ Settled(c, side)
  BY DEF Sending, Good
<1> DEFINE sp == Level(e)
<1>2. sp \in Spaces /\ (sp = "app" => TicketsOut(d, side))
  BY DEF Level, Spaces, Writes, EventOK, TicketsOut, Moved, Rest
<1>3. /\ p \in Packet /\ p.type = (IF sp = "initial" THEN "initial" ELSE "handshake")
      /\ p.pn = i.next_pn[sp] /\ p.cid = i.retry
      /\ p.token = (IF sp = "initial" THEN i.token ELSE 0)
      /\ p.acks \subseteq i.received[sp] /\ p.crypto = i.tx[sp]
      /\ (p.finished <=> e = "write_finished") /\ ~p.done
  BY CryptoPacketIs
<1>4. p.finished => p.type = "handshake"
  BY <1>3 DEF Level
<1>5. side = "client" => sp = "initial" \/ c.tls_complete
  BY DEF EventOK, EarlyEvents, Level, Writes
<1>6. side = "client" /\ sp # "initial" => o.state # "absent"
  BY DEF EventOK, Level
<1>7. p.finished => sp # "initial"
  BY <1>3 DEF Level
<1> HIDE DEF sp
<1>8. p.type = sp \/ (sp = "app" /\ p.type = "handshake" /\ TicketsOut(d, side))
  BY <1>2, <1>3 DEF Spaces
<1>10. /\ i.next_pn[sp] \in Nat /\ i.next_pn[sp] >= b.next_pn[sp]
       /\ i.next_pn[sp] < d.next_pn[sp] /\ i.tx[sp] \in Nat /\ i.tx[sp] < d.tx[sp]
  <2>1. /\ i.next_pn[sp] \in Nat /\ c.next_pn[sp] \in Nat /\ b.next_pn[sp] \in Nat
        /\ i.tx[sp] \in Nat
    BY <1>1, <1>2, Counters
  <2>2. b.next_pn[sp] <= c.next_pn[sp] /\ c.next_pn[sp] <= i.next_pn[sp]
    BY <1>1, <1>2 DEF Evolves, Moved
  <2> QED
    BY <2>1, <2>2 DEF sp
<1>9. p.crypto # -1 /\ p.pn \in Nat
  BY <1>3, <1>10
<1>11. Numbered(d, side, p.type, p.pn) /\ FreshNumber(p, b, d, side)
  BY <1>3, <1>8, <1>9, <1>10 DEF Numbered, FreshNumber
<1>15. Written(d, side, p.type, p.crypto + 1)
  <2>1. d.tx[sp] \in Nat /\ p.crypto + 1 <= d.tx[sp]
    BY <1>2, <1>3, <1>10, Counters
  <2> QED
    BY <1>8, <2>1 DEF Written
<1>16. \A n \in p.acks : Acknowledges(p, n, d, o, side)
  <2> SUFFICES ASSUME NEW n \in p.acks PROVE Acknowledges(p, n, d, o, side)
    OBVIOUS
  <2>1. Numbered(o, Peer(side), sp, n)
    BY <1>1, <1>2, <1>3 DEF PeerOK, Moved, Rest
  <2>2. CASE p.type = sp
    BY <2>1, <2>2 DEF Acknowledges
  <2>3. CASE p.type # sp
    BY <1>8, <1>9, <2>1, <2>3 DEF Acknowledges, Numbered
  <2> QED
    BY <2>2, <2>3
<1>12. side = "client" =>
         /\ p.finished => d.completed
         /\ p.type = "initial" => p.token = p.cid /\ p.cid = d.retry
         /\ p.type = "handshake" => d.rx["handshake"] >= 1
         /\ p.type # "initial" => o.state # "absent"
  BY <1>1, <1>3, <1>5, <1>6, <1>7 DEF ConnOK, Settled, Moved, Rest
<1>13. side = "server" => p.crypto # -1 /\ d.state # "absent"
  BY <1>3, <1>10 DEF Sending, Moved, Rest
<1>14. p.type \in Spaces
  BY <1>3 DEF Spaces
<1> QED
  BY <1>3, <1>4, <1>11, <1>12, <1>13, <1>14, <1>15, <1>16 DEF PacketOK

LEMMA UsedIs ==
  ASSUME NEW c \in Conn, NEW sp \in Spaces, NEW d, d = Used(c, sp)
  PROVE  /\ d \in Conn /\ d.next_pn = [c.next_pn EXCEPT ![sp] = c.next_pn[sp] + 1]
         /\ d.tx = c.tx /\ d.received = c.received /\ Rest(c, d)
<1>1. c.next_pn \in [Spaces -> Nat] /\ c.next_pn[sp] + 1 \in Nat
  BY ConnFields, Counters
<1>2. PICK next \in [Spaces -> Nat] : next = [c.next_pn EXCEPT ![sp] = c.next_pn[sp] + 1]
  BY <1>1
<1>3. d = [c EXCEPT !.next_pn = next]
  BY <1>2, Zenon DEF Used
<1>4. /\ d \in Conn /\ d.next_pn = next /\ d.tx = c.tx /\ d.received = c.received
      /\ Rest(c, d)
  BY ONLY c \in Conn, next \in [Spaces -> Nat], <1>3 DEF Conn, Rest
<1> QED
  BY <1>2, <1>4

LEMMA AckedIs ==
  ASSUME NEW c \in Conn, NEW sp \in Spaces, NEW d, d = Acked(c, sp)
  PROVE  /\ d \in Conn /\ Moved(c, d) /\ c.next_pn[sp] < d.next_pn[sp]
<1>1. PICK u : u = Used(c, sp)
  OBVIOUS
<1>2. /\ u \in Conn /\ u.next_pn = [c.next_pn EXCEPT ![sp] = c.next_pn[sp] + 1]
      /\ u.tx = c.tx /\ u.received = c.received /\ Rest(c, u)
  BY <1>1, UsedIs
<1>3. d = [u EXCEPT !.ack_needed[sp] = FALSE]
  BY <1>1 DEF Acked
<1>4. /\ d \in Conn /\ d.next_pn = u.next_pn /\ d.tx = u.tx /\ d.received = u.received
      /\ Rest(u, d)
  <2>1. u \in Conn
    BY <1>2
  <2> QED
    BY ONLY <2>1, sp \in Spaces, <1>3 DEF Conn, Rest
<1>5. /\ \A s \in Spaces : c.next_pn[s] \in Nat /\ c.tx[s] \in Nat
      /\ c.next_pn \in [Spaces -> Nat]
  BY Counters, ConnFields
<1>6. /\ \A s \in Spaces : c.next_pn[s] <= d.next_pn[s] /\ c.tx[s] <= d.tx[s]
      /\ c.next_pn[sp] < d.next_pn[sp]
  BY <1>2, <1>4, <1>5
<1>7. Rest(c, d)
  BY <1>2, <1>4 DEF Rest
<1> QED
  BY <1>2, <1>4, <1>6, <1>7 DEF Moved

LEMMA WroteCryptoIs ==
  ASSUME NEW c \in Conn, NEW side \in Sides, NEW sp \in Spaces, NEW d,
         d = WroteCrypto(c, side, sp)
  PROVE  /\ d \in Conn /\ Moved(c, d)
         /\ c.next_pn[sp] < d.next_pn[sp] /\ c.tx[sp] < d.tx[sp]
         /\ \A s \in Spaces \ {sp} : d.next_pn[s] = c.next_pn[s] /\ d.tx[s] = c.tx[s]
<1>1. PICK u : u = Used(c, sp)
  OBVIOUS
<1>2. /\ u \in Conn /\ u.next_pn = [c.next_pn EXCEPT ![sp] = c.next_pn[sp] + 1]
      /\ u.tx = c.tx /\ u.received = c.received /\ Rest(c, u)
  BY <1>1, UsedIs
<1>3. PICK acked \in BOOLEAN : acked = (c.ack_needed[sp] /\ c.received[sp] # {})
  OBVIOUS
<1>a. u \in Conn /\ u.tx \in [Spaces -> Nat] /\ u.tx[sp] + 1 \in Nat
  BY <1>2, ConnFields, Counters
<1>b. PICK tx \in [Spaces -> Nat] : tx = [u.tx EXCEPT ![sp] = u.tx[sp] + 1]
  BY <1>a
<1>c. u.ack_needed \in [Spaces -> BOOLEAN]
  BY <1>2, ConnFields
<1>d. PICK needed \in [Spaces -> BOOLEAN] :
        needed = [u.ack_needed EXCEPT ![sp] = u.ack_needed[sp] /\ ~acked]
  BY <1>c
<1>4. PICK e : e = [u EXCEPT !.tx = tx, !.ack_needed = needed]
  OBVIOUS
<1>5. d = e \/ d = Discard(e, "initial")
  <2> DEFINE w == [Used(c, sp) EXCEPT !.tx[sp] = @ + 1,
                     !.ack_needed[sp] = @ /\ ~(c.ack_needed[sp] /\ c.received[sp] # {})]
  <2>1. d = w \/ d = Discard(w, "initial")
    BY DEF WroteCrypto
  <2>2. w = [u EXCEPT !.tx = [u.tx EXCEPT ![sp] = u.tx[sp] + 1],
                      !.ack_needed = [u.ack_needed EXCEPT ![sp] = u.ack_needed[sp] /\ ~acked]]
    BY <1>1, <1>3, Zenon
  <2>3. w = e
    BY <1>b, <1>d, <1>4, <2>2, Zenon
  <2> HIDE DEF w
  <2> QED
    BY <2>1, <2>3
<1>6. /\ e \in Conn /\ e.next_pn = u.next_pn /\ e.received = u.received
      /\ e.tx = [u.tx EXCEPT ![sp] = u.tx[sp] + 1] /\ Rest(u, e)
  <2>1. /\ e \in Conn /\ e.next_pn = u.next_pn /\ e.received = u.received
        /\ e.tx = tx /\ Rest(u, e)
    BY ONLY ZenonT(60), <1>a, tx \in [Spaces -> Nat], needed \in [Spaces -> BOOLEAN], <1>4 DEF Conn, Rest
  <2> QED
    BY <1>b, <2>1
<1>7. /\ d \in Conn /\ d.next_pn = e.next_pn /\ d.tx = e.tx /\ Rest(e, d)
      /\ (d.received = e.received \/ d.received = [e.received EXCEPT !["initial"] = {}])
  <2>1. CASE d = e
    BY <1>6, <2>1 DEF Rest
  <2>2. CASE d = Discard(e, "initial")
    <3>1. "initial" \in Spaces
      BY DEF Spaces
    <3>2. e \in Conn
      BY <1>6
    <3> QED
      BY ONLY ZenonT(60), <3>1, <3>2, <2>2 DEF Discard, Conn, KeyStates, Rest
  <2> QED
    BY <1>5, <2>1, <2>2
<1>8. /\ \A s \in Spaces : c.next_pn[s] \in Nat /\ c.tx[s] \in Nat
      /\ c.next_pn \in [Spaces -> Nat] /\ c.tx \in [Spaces -> Nat]
      /\ c.received \in [Spaces -> SUBSET Nat]
  BY Counters, ConnFields
<1>9. /\ \A s \in Spaces : c.next_pn[s] <= d.next_pn[s] /\ c.tx[s] <= d.tx[s]
      /\ c.next_pn[sp] < d.next_pn[sp] /\ c.tx[sp] < d.tx[sp]
      /\ \A s \in Spaces \ {sp} : d.next_pn[s] = c.next_pn[s] /\ d.tx[s] = c.tx[s]
  BY <1>2, <1>6, <1>7, <1>8
<1>10. \A s \in Spaces : d.received[s] \subseteq c.received[s]
  BY <1>2, <1>6, <1>7, <1>8
<1>11. Rest(c, d)
  BY <1>2, <1>6, <1>7 DEF Rest
<1> QED
  BY <1>7, <1>9, <1>10, <1>11 DEF Moved

LEMMA MovedTrans ==
  ASSUME NEW c \in Conn, NEW d \in Conn, NEW e \in Conn, Moved(c, d), Moved(d, e)
  PROVE  Moved(c, e)
<1>1. \A sp \in Spaces : /\ c.next_pn[sp] \in Nat /\ c.tx[sp] \in Nat
                         /\ d.next_pn[sp] \in Nat /\ d.tx[sp] \in Nat
                         /\ e.next_pn[sp] \in Nat /\ e.tx[sp] \in Nat
  BY Counters
<1>2. \A sp \in Spaces : c.next_pn[sp] <= e.next_pn[sp] /\ c.tx[sp] <= e.tx[sp]
  BY <1>1 DEF Moved
<1> QED
  BY <1>2 DEF Moved, Rest

LEMMA MovedRefl ==
  ASSUME NEW c \in Conn
  PROVE  Moved(c, c)
<1>1. \A sp \in Spaces : c.next_pn[sp] \in Nat /\ c.tx[sp] \in Nat
  BY Counters
<1> QED
  BY <1>1 DEF Moved, Rest

\* The datagram of a WRITE_CRYPTO event.
LEMMA WriteCryptoSends ==
  ASSUME NEW b \in Conn, NEW c, NEW o \in Conn, NEW side \in Sides,
         Sending(b, c, o, side), ~c.failed, NEW e \in Writes, EventOK(e, c, o, side)
  PROVE  Sending(b, WriteCrypto(c, side, e), o, side)
<1>1. c \in Conn
  BY DEF Sending, Good
<1> DEFINE sp == Level(e)
           withAck == side = "server" /\ sp = "handshake" /\ c.received["initial"] # {}
           i == IF withAck THEN Acked(c, "initial") ELSE c
           ack == AckPacket(c, "initial")
           p == CryptoPacket(i, e)
           packets == (IF withAck THEN <<ack>> ELSE <<>>) \o <<p>>
           d == WroteCrypto(i, side, sp)
<1>2. sp \in Spaces /\ "initial" \in Spaces
  BY DEF Level, Spaces, Writes
<1>3. /\ i \in Conn /\ Moved(c, i)
      /\ withAck => c.next_pn["initial"] < i.next_pn["initial"]
      /\ ~withAck => i = c
  BY <1>1, <1>2, AckedIs, MovedRefl
<1> HIDE DEF i
<1>4. /\ d \in Conn /\ Moved(i, d) /\ i.next_pn[sp] < d.next_pn[sp] /\ i.tx[sp] < d.tx[sp]
      /\ \A s \in Spaces \ {sp} : d.next_pn[s] = i.next_pn[s] /\ d.tx[s] = i.tx[s]
  BY <1>2, <1>3, WroteCryptoIs
<1>5. WriteCrypto(c, side, e) = Push(d, side, packets)
  BY DEF WriteCrypto, i
<1> HIDE DEF d
<1>6. Moved(c, d)
  BY <1>1, <1>3, <1>4, MovedTrans
<1>7. InitialOnly(c, d, o, side)
  <2> SUFFICES ASSUME side = "client", o.state = "absent"
               PROVE  \A s \in Spaces \ {"initial"} : d.next_pn[s] = c.next_pn[s] /\ d.tx[s] = c.tx[s]
    BY DEF InitialOnly
  <2>1. sp = "initial" /\ i = c
    BY <1>3 DEF EventOK, Level
  <2> QED
    BY <1>4, <2>1
<1>8. Sending(b, d, o, side) /\ Good(b, d, o, side)
  BY <1>4, <1>6, <1>7, MovedSends DEF Sending
<1>9. p \in Packet /\ PacketOK(p, d, o, side) /\ FreshNumber(p, b, d, side)
  <2>1. PacketOK(p, d, o, side) /\ FreshNumber(p, b, d, side)
    BY <1>3, <1>4, CryptoIsOK
  <2> QED
    BY <2>1 DEF PacketOK
<1>10. ASSUME withAck
       PROVE  ack \in Packet /\ PacketOK(ack, d, o, side) /\ FreshNumber(ack, b, d, side)
  <2>1. c.next_pn["initial"] < d.next_pn["initial"]
    <3>1. /\ c.next_pn["initial"] < i.next_pn["initial"] /\ i.next_pn["initial"] <= d.next_pn["initial"]
      BY <1>2, <1>3, <1>4, <1>10 DEF Moved
    <3>2. /\ c.next_pn["initial"] \in Nat /\ i.next_pn["initial"] \in Nat
          /\ d.next_pn["initial"] \in Nat
      BY <1>1, <1>2, <1>3, <1>4, Counters
    <3> QED
      BY <3>1, <3>2
  <2>2. c.received["initial"] # {}
    BY <1>10
  <2>3. PacketOK(ack, d, o, side) /\ FreshNumber(ack, b, d, side)
    BY <1>2, <1>4, <1>6, <2>1, <2>2, AckIsOK
  <2> QED
    BY <2>3 DEF PacketOK
<1> HIDE DEF p, ack
<1>11. /\ packets \in Seq(Packet) /\ packets # <<>>
       /\ \A j \in DOMAIN packets : packets[j] = p \/ (withAck /\ packets[j] = ack)
  <2>1. CASE withAck
    <3>1. packets = <<ack>> \o <<p>>
      BY <2>1
    <3>2. ack \in Packet /\ p \in Packet
      BY <1>9, <1>10, <2>1
    <3> HIDE DEF packets, withAck
    <3> QED
      BY <2>1, <3>1, <3>2
  <2>2. CASE ~withAck
    <3>1. packets = << >> \o <<p>>
      BY <2>2
    <3>2. p \in Packet
      BY <1>9
    <3> HIDE DEF packets, withAck
    <3> QED
      BY <2>2, <3>1, <3>2
  <2> QED
    BY <2>1, <2>2
<1> HIDE DEF packets, withAck
<1>12. \A j \in DOMAIN packets : /\ PacketOK(packets[j], d, o, side)
                                 /\ FreshNumber(packets[j], b, d, side)
  BY <1>9, <1>10, <1>11
<1>13. Sending(b, Push(d, side, packets), o, side)
  BY <1>8, <1>11, <1>12, PushSends
<1> QED
  BY <1>5, <1>6, <1>13 DEF Moved, Rest

\* One TLS event.
LEMMA OnEventSends ==
  ASSUME NEW b \in Conn, NEW c, NEW o \in Conn, NEW side \in Sides,
         Sending(b, c, o, side), NEW e, EventOK(e, c, o, side)
  PROVE  Sending(b, OnEvent(c, side, e), o, side)
<1>0. c \in Conn
  BY DEF Sending, Good
<1>1. /\ c \in Conn /\ ConnOK(c, side) /\ PeerOK(c, o, side) /\ Settled(c, side)
      /\ Good(b, c, o, side) /\ c.events = <<>>
  BY DEF Sending, Good
<1>2. CASE c.failed
  <2>1. OnEvent(c, side, e) = c
    BY <1>2 DEF OnEvent
  <2> QED
    BY <2>1
<1>3. CASE ~c.failed /\ e \in Writes
  <2>1. OnEvent(c, side, e) = WriteCrypto(c, side, e)
    BY <1>3 DEF OnEvent, Writes
  <2> QED
    BY <1>3, <2>1, WriteCryptoSends
<1>4. CASE ~c.failed /\ e = "install_handshake"
  <2>1. PICK d : d = Install(c, "handshake")
    OBVIOUS
  <2>2. OnEvent(c, side, e) = d
    BY <1>4, <2>1 DEF OnEvent, Writes
  <2>3. d \in Conn /\ Same(c, d) /\ d.failed = c.failed
    BY ONLY ZenonT(60), <1>0, <2>1 DEF Install, Conn, Same, Spaces, KeyStates
  <2>4. Good(b, d, o, side)
    BY <1>1, <2>3, SameIsGood
  <2> QED
    BY <2>2, <2>3, <2>4 DEF Sending, Settled, Same
<1>5. CASE ~c.failed /\ e = "install_one_rtt"
  <2>1. PICK d : d = [Install(c, "app") EXCEPT !.can_send = TRUE, !.state = "active"]
    OBVIOUS
  <2>2. OnEvent(c, side, e) = d
    BY <1>5, <2>1 DEF OnEvent, Writes
  <2>3. /\ d \in Conn /\ d.state = "active" /\ d.received = c.received /\ d.next_pn = c.next_pn
        /\ d.tx = c.tx /\ d.rx = c.rx /\ d.events = c.events
        /\ d.tls_complete = c.tls_complete /\ d.completed = c.completed
        /\ d.confirmed = c.confirmed /\ d.done_due = c.done_due
        /\ d.validated = c.validated /\ d.retry = c.retry /\ d.token = c.token
        /\ d.asked = c.asked /\ d.bytes_sent = c.bytes_sent
        /\ d.bytes_received = c.bytes_received /\ d.out = c.out /\ d.failed = c.failed
    <3>1. PICK i : i = Install(c, "app")
      OBVIOUS
    <3>2. i \in Conn /\ Same(c, i) /\ i.failed = c.failed
      BY ONLY ZenonT(60), <1>0, <3>1 DEF Install, Conn, Same, Spaces, KeyStates
    <3>3. i \in Conn /\ d = [i EXCEPT !.can_send = TRUE, !.state = "active"]
      BY <2>1, <3>1, <3>2
    <3>4. /\ d \in Conn /\ d.state = "active" /\ d.received = i.received /\ d.next_pn = i.next_pn
          /\ d.tx = i.tx /\ d.rx = i.rx /\ d.events = i.events
          /\ d.tls_complete = i.tls_complete /\ d.completed = i.completed
          /\ d.confirmed = i.confirmed /\ d.done_due = i.done_due
          /\ d.validated = i.validated /\ d.retry = i.retry /\ d.token = i.token
          /\ d.asked = i.asked /\ d.bytes_sent = i.bytes_sent
          /\ d.bytes_received = i.bytes_received /\ d.out = i.out /\ d.failed = i.failed
      BY ONLY ZenonT(60), <3>3 DEF Conn, States
    <3> QED
      BY <3>2, <3>4 DEF Same
  <2>4. side = "client" => c.completed
    BY <1>1, <1>5 DEF EventOK, EarlyEvents, Settled
  <2>5. ConnOK(d, side)
    BY <1>1, <2>3, <2>4 DEF ConnOK, Queued, TicketsOut
  <2>6. PeerOK(d, o, side)
    <3>1. Queued(d) = Queued(c)
      BY <2>3 DEF Queued
    <3>2. Alone(c) => Alone(d)
      BY <2>3, <3>1 DEF Alone
    <3> QED
      BY <1>1, <2>3, <3>2 DEF PeerOK, Sending
  <2>7. Evolves(c, d, o, side)
    BY <1>1, <2>3, EvolvesRefl DEF Evolves
  <2>8. Staged(d) = Staged(c)
    BY <2>3 DEF Staged
  <2>9. Good(b, d, o, side)
    BY <1>1, <2>3, <2>5, <2>6, <2>7, <2>8, Advance
  <2> QED
    BY <1>1, <2>2, <2>3, <2>9 DEF Sending, Settled
<1>6. CASE ~c.failed /\ e = "complete"
  <2>1. PICK d : d = [c EXCEPT !.completed = TRUE]
    OBVIOUS
  <2>2. OnEvent(c, side, e) = d
    BY <1>6, <2>1 DEF OnEvent, Writes
  <2>3. /\ d \in Conn /\ d.state = c.state /\ d.received = c.received /\ d.next_pn = c.next_pn
        /\ d.tx = c.tx /\ d.rx = c.rx /\ d.events = c.events
        /\ d.tls_complete = c.tls_complete /\ d.completed = TRUE
        /\ d.confirmed = c.confirmed /\ d.done_due = c.done_due /\ d.can_send = c.can_send
        /\ d.validated = c.validated /\ d.retry = c.retry /\ d.token = c.token
        /\ d.asked = c.asked /\ d.bytes_sent = c.bytes_sent
        /\ d.bytes_received = c.bytes_received /\ d.out = c.out /\ d.failed = c.failed
    BY ONLY ZenonT(60), <1>0, <2>1 DEF Conn
  <2>4. c.tls_complete
    BY <1>6 DEF EventOK, EarlyEvents, Sides
  <2>5. ConnOK(d, side)
    BY <1>1, <2>3, <2>4 DEF ConnOK, Queued, TicketsOut
  <2>6. PeerOK(d, o, side)
    <3>1. Queued(d) = Queued(c)
      BY <2>3 DEF Queued
    <3>2. Alone(c) => Alone(d)
      BY <2>3, <3>1 DEF Alone
    <3> QED
      BY <1>1, <2>3, <3>2 DEF PeerOK
  <2>7. Evolves(c, d, o, side)
    BY <1>1, <2>3, EvolvesRefl DEF Evolves
  <2>8. Staged(d) = Staged(c)
    BY <2>3 DEF Staged
  <2>9. Good(b, d, o, side)
    BY <1>1, <2>3, <2>5, <2>6, <2>7, <2>8, Advance
  <2> QED
    BY <1>1, <2>2, <2>3, <2>9 DEF Sending, Settled
<1>7. e \in Writes \/ e \in {"install_handshake", "install_one_rtt", "complete"}
  BY DEF EventOK, TlsEvents
<1> QED
  BY <1>2, <1>3, <1>4, <1>5, <1>6, <1>7

\* The ACK-only datagram of a flush.
LEMMA SendAcksSends ==
  ASSUME NEW b \in Conn, NEW c, NEW o \in Conn, NEW side \in Sides,
         Sending(b, c, o, side)
  PROVE  Sending(b, SendAcks(c, side), o, side)
<1>1. c \in Conn /\ PeerOK(c, o, side)
  BY DEF Sending, Good
<1> DEFINE due == AckableSpaces(c)
           Ack(sp) == IF sp \in due THEN <<AckPacket(c, sp)>> ELSE <<>>
           next == [sp \in Spaces |-> IF sp \in due THEN c.next_pn[sp] + 1 ELSE c.next_pn[sp]]
           needed == [sp \in Spaces |-> c.ack_needed[sp] /\ sp \notin due]
           d == [c EXCEPT !.next_pn = next, !.ack_needed = needed]
           packets == Ack("initial") \o Ack("handshake") \o Ack("app")
<1>2. CASE c.failed \/ c.out # <<>> \/ due = {}
  <2>1. SendAcks(c, side) = c
    BY <1>2 DEF SendAcks
  <2> QED
    BY <2>1
<1>3. CASE ~(c.failed \/ c.out # <<>> \/ due = {})
  <2>0. d = [c EXCEPT !.next_pn = [sp \in Spaces |-> IF sp \in due THEN @[sp] + 1 ELSE @[sp]],
                      !.ack_needed = [sp \in Spaces |-> @[sp] /\ sp \notin due]]
    BY Zenon
  <2>1. SendAcks(c, side) = Push(d, side, packets)
    <3> HIDE DEF d
    <3>1. SendAcks(c, side) =
            Push([c EXCEPT !.next_pn = [sp \in Spaces |-> IF sp \in due THEN @[sp] + 1 ELSE @[sp]],
                           !.ack_needed = [sp \in Spaces |-> @[sp] /\ sp \notin due]], side, packets)
      BY <1>3 DEF SendAcks
    <3> QED
      BY <2>0, <3>1
  <2>2. /\ \A sp \in Spaces : c.next_pn[sp] \in Nat /\ c.ack_needed[sp] \in BOOLEAN /\ c.tx[sp] \in Nat
        /\ next \in [Spaces -> Nat] /\ needed \in [Spaces -> BOOLEAN]
    <3>1. \A sp \in Spaces : c.next_pn[sp] \in Nat /\ c.ack_needed[sp] \in BOOLEAN /\ c.tx[sp] \in Nat
      BY <1>1, ConnFields
    <3> QED
      BY <3>1
  <2>3. PICK n \in [Spaces -> Nat] : n = next
    BY <2>2
  <2>4. PICK m \in [Spaces -> BOOLEAN] : m = needed
    BY <2>2
  <2>5. d = [c EXCEPT !.next_pn = n, !.ack_needed = m]
    BY <2>3, <2>4
  <2> HIDE DEF d
  <2>6. /\ d \in Conn /\ d.next_pn = n /\ d.tx = c.tx /\ d.received = c.received /\ Rest(c, d)
    BY ONLY <1>1, n \in [Spaces -> Nat], m \in [Spaces -> BOOLEAN], <2>5 DEF Conn, Rest
  <2>7. \A sp \in Spaces : c.next_pn[sp] <= d.next_pn[sp] /\ (sp \in due => c.next_pn[sp] < d.next_pn[sp])
    BY <2>2, <2>3, <2>6
  <2>8. Moved(c, d)
    BY <2>2, <2>6, <2>7 DEF Moved
  <2>9. PICK sp \in Spaces : sp \in due
    BY <1>3 DEF AckableSpaces
  <2>10. InitialOnly(c, d, o, side)
    <3>1. c.received[sp] # {}
      BY <2>9 DEF AckableSpaces
    <3>2. ~Alone(c)
      BY <2>9, <3>1 DEF Alone
    <3> QED
      BY <1>1, <3>2 DEF InitialOnly, PeerOK
  <2>11. Sending(b, d, o, side)
    BY <2>6, <2>8, <2>10, MovedSends DEF Rest
  <2> DEFINE OK == {p \in Packet : PacketOK(p, d, o, side) /\ FreshNumber(p, b, d, side)}
  <2>12. ASSUME NEW s \in Spaces
         PROVE  Ack(s) \in Seq(OK) /\ (s \in due => Ack(s) # <<>>)
    <3>1. CASE s \notin due
      BY <3>1
    <3>2. CASE s \in due
      <4>1. c.received[s] # {} /\ c.next_pn[s] < d.next_pn[s]
        BY <2>7, <3>2 DEF AckableSpaces
      <4>2. AckPacket(c, s) \in OK
        <5>1. PICK p : p = AckPacket(c, s)
          OBVIOUS
        <5>2. PacketOK(p, d, o, side) /\ FreshNumber(p, b, d, side)
          BY <1>3, <2>6, <2>8, <4>1, <5>1, AckIsOK
        <5>3. p \in Packet
          BY <5>2 DEF PacketOK
        <5> QED
          BY <5>1, <5>2, <5>3
      <4> HIDE DEF OK
      <4> QED
        BY <3>2, <4>2
    <3> QED
      BY <3>1, <3>2
  <2>13. packets \in Seq(OK) /\ packets # <<>>
    <3>1. /\ Ack("initial") \in Seq(OK) /\ Ack("handshake") \in Seq(OK) /\ Ack("app") \in Seq(OK)
          /\ Ack("initial") # <<>> \/ Ack("handshake") # <<>> \/ Ack("app") # <<>>
      <4> HIDE DEF OK, Ack
      <4> QED
        BY <2>9, <2>12 DEF Spaces
    <3> HIDE DEF OK, Ack
    <3> QED
      BY <3>1
  <2> HIDE DEF packets, Ack
  <2>14. /\ packets \in Seq(Packet)
         /\ \A j \in DOMAIN packets : /\ PacketOK(packets[j], d, o, side)
                                      /\ FreshNumber(packets[j], b, d, side)
    BY <2>13
  <2>15. Sending(b, Push(d, side, packets), o, side)
    BY <2>11, <2>13, <2>14, PushSends
  <2> QED
    BY <2>1, <2>11, <2>15
<1> QED
  BY <1>2, <1>3

\* A 1-RTT packet without CRYPTO data; d is the connection but for its number.
LEMMA AppPacketSends ==
  ASSUME NEW b \in Conn, NEW d \in Conn, NEW o \in Conn, NEW side \in Sides,
         Sending(b, d, o, side), side = "client" => o.state # "absent",
         NEW u \in Conn, Moved(d, u), d.next_pn["app"] < u.next_pn["app"],
         NEW p \in Packet, p.type = "app", p.pn = d.next_pn["app"], p.acks = {},
         p.crypto = -1, ~p.finished, p.done => side = "server" /\ d.confirmed
  PROVE  Sending(b, Push(u, side, <<p>>), o, side)
<1>1. "app" \in Spaces
  BY DEF Spaces
<1>2. Rest(d, u)
  BY DEF Moved
<1>3. b.next_pn["app"] \in Nat /\ d.next_pn["app"] \in Nat
  BY <1>1, Counters
<1>5. Sending(b, u, o, side)
  BY MovedSends DEF InitialOnly
<1>6. p.pn < u.next_pn["app"] /\ p.pn >= b.next_pn["app"]
  BY <1>1, <1>3 DEF Sending, Good, Evolves
<1>7. side = "server" => u.state # "absent" /\ (p.done => u.confirmed)
  BY <1>2, <1>5 DEF Sending, Rest
<1>8. PacketOK(p, u, o, side) /\ FreshNumber(p, b, u, side)
  BY <1>1, <1>6, <1>7 DEF PacketOK, Numbered, FreshNumber
<1>10. Sending(b, Push(u, side, <<p>>), o, side)
  <2>1. PICK s : s = <<p>>
    OBVIOUS
  <2>2. s \in Seq(Packet) /\ s # <<>> /\ \A j \in DOMAIN s : s[j] = p
    BY <2>1
  <2>3. Sending(b, Push(u, side, s), o, side)
    BY <1>5, <1>8, <2>2, PushSends
  <2> QED
    BY <2>1, <2>3
<1> QED
  BY <1>2, <1>10 DEF Rest

\* HANDSHAKE_DONE.
LEMMA SendDoneSends ==
  ASSUME NEW b \in Conn, NEW c, NEW o \in Conn, NEW side \in Sides,
         Sending(b, c, o, side)
  PROVE  Sending(b, SendDone(c, side), o, side)
<1>1. /\ c \in Conn /\ ConnOK(c, side) /\ PeerOK(c, o, side) /\ Good(b, c, o, side)
      /\ Settled(c, side) /\ c.events = <<>>
  BY DEF Sending, Good
<1>2. CASE c.failed \/ ~c.done_due
  BY <1>2 DEF SendDone
<1>3. CASE ~(c.failed \/ ~c.done_due)
  <2>1. side = "server" /\ c.completed
    BY <1>1, <1>3 DEF ConnOK, Sides
  <2>2. PICK d : d = [c EXCEPT !.done_due = FALSE, !.confirmed = TRUE]
    OBVIOUS
  <2>3. c \in Conn
    BY <1>1
  <2>4. /\ d \in Conn /\ d.state = c.state /\ d.received = c.received /\ d.next_pn = c.next_pn
        /\ d.tx = c.tx /\ d.rx = c.rx /\ d.events = c.events
        /\ d.tls_complete = c.tls_complete /\ d.completed = c.completed
        /\ d.confirmed = TRUE /\ d.done_due = FALSE /\ d.can_send = c.can_send
        /\ d.validated = c.validated /\ d.retry = c.retry /\ d.token = c.token
        /\ d.asked = c.asked /\ d.bytes_sent = c.bytes_sent
        /\ d.bytes_received = c.bytes_received /\ d.out = c.out /\ d.failed = c.failed
    BY ONLY ZenonT(60), <2>3, <2>2 DEF Conn
  <2>5. ConnOK(d, side) /\ PeerOK(d, o, side)
    BY <1>1, <2>1, <2>4 DEF ConnOK, Queued, PeerOK, TicketsOut
  <2>6. Evolves(c, d, o, side)
    BY <1>1, <2>4, EvolvesRefl DEF Evolves
  <2>7. Staged(d) = Staged(c)
    BY <2>4 DEF Staged
  <2>8. Good(b, d, o, side)
    BY <1>1, <2>4, <2>5, <2>6, <2>7, Advance
  <2>9. Sending(b, d, o, side)
    BY <1>1, <2>1, <2>4, <2>8 DEF Sending, Settled
  <2>10. PICK v : v = Used(c, "app")
    OBVIOUS
  <2>11. /\ v \in Conn /\ v.next_pn = [c.next_pn EXCEPT !["app"] = c.next_pn["app"] + 1]
         /\ v.tx = c.tx /\ v.received = c.received /\ Rest(c, v)
    <3>1. "app" \in Spaces
      BY DEF Spaces
    <3> QED
      BY <2>3, <2>10, <3>1, UsedIs
  <2>12. PICK u : u = [v EXCEPT !.done_due = FALSE, !.confirmed = TRUE]
    OBVIOUS
  <2>13. /\ u \in Conn /\ u.state = v.state /\ u.received = v.received /\ u.next_pn = v.next_pn
         /\ u.tx = v.tx /\ u.rx = v.rx /\ u.events = v.events
         /\ u.tls_complete = v.tls_complete /\ u.completed = v.completed
         /\ u.confirmed = TRUE /\ u.done_due = FALSE /\ u.can_send = v.can_send
         /\ u.validated = v.validated /\ u.retry = v.retry /\ u.token = v.token
         /\ u.asked = v.asked /\ u.bytes_sent = v.bytes_sent
         /\ u.bytes_received = v.bytes_received /\ u.out = v.out /\ u.failed = v.failed
    <3>1. v \in Conn
      BY <2>11
    <3> QED
      BY ONLY ZenonT(60), <3>1, <2>12 DEF Conn
  <2>14. Rest(d, u)
    <3>1. Rest(c, v)
      BY <2>11
    <3> QED
      BY ONLY ZenonT(60), <2>4, <2>13, <3>1 DEF Rest
  <2>15. Moved(d, u) /\ d.next_pn["app"] < u.next_pn["app"]
    <3>1. /\ \A s \in Spaces : c.next_pn[s] \in Nat /\ c.tx[s] \in Nat
          /\ c.next_pn \in [Spaces -> Nat] /\ "app" \in Spaces
      BY <2>3, Counters, ConnFields DEF Spaces
    <3> QED
      BY <2>4, <2>11, <2>13, <2>14, <3>1 DEF Moved
  <2>16. PICK p : p = [NewPacket(c, "app", "app") EXCEPT !.done = TRUE]
    OBVIOUS
  <2>17. /\ p \in Packet /\ p.type = "app" /\ p.pn = c.next_pn["app"] /\ p.acks = {}
         /\ p.crypto = -1 /\ ~p.finished
    <3>1. PICK q : q = NewPacket(c, "app", "app")
      OBVIOUS
    <3>2. /\ q \in Packet /\ q.type = "app" /\ q.pn = c.next_pn["app"] /\ q.acks = {}
          /\ q.crypto = -1 /\ ~q.finished
      <4>1. "app" \in Spaces /\ "app" \in Types
        BY DEF Spaces, Types
      <4> QED
        BY <2>3, <3>1, <4>1, NewPacketIs
    <3>3. p = [q EXCEPT !.done = TRUE]
      BY <2>16, <3>1
    <3> QED
      BY ONLY <3>2, <3>3 DEF Packet
  <2>18. SendDone(c, side) = Push(u, side, <<p>>)
    BY <1>3, <2>10, <2>12, <2>16, Zenon DEF SendDone
  <2> QED
    BY <2>1, <2>4, <2>9, <2>13, <2>15, <2>17, <2>18, AppPacketSends
<1> QED
  BY <1>2, <1>3

\* The client's request, or no more than a number.
LEMMA SendRequestSends ==
  ASSUME NEW b \in Conn, NEW c, NEW o \in Conn, NEW side \in Sides,
         Sending(b, c, o, side)
  PROVE  Sending(b, SendRequest(c, side), o, side)
<1>1. /\ c \in Conn /\ ConnOK(c, side) /\ PeerOK(c, o, side) /\ Good(b, c, o, side)
      /\ Settled(c, side) /\ c.events = <<>>
  BY DEF Sending, Good
<1>2. CASE c.failed \/ ~c.can_send \/ (side = "client" /\ ~c.confirmed)
  BY <1>2 DEF SendRequest
<1> DEFINE goes == ~(c.failed \/ ~c.can_send \/ (side = "client" /\ ~c.confirmed))
<1>3. CASE goes /\ (side = "server" \/ c.asked)
  <2>1. PICK v : v = Used(c, "app")
    OBVIOUS
  <2>2. "app" \in Spaces
    BY DEF Spaces
  <2>3. /\ v \in Conn /\ v.next_pn = [c.next_pn EXCEPT !["app"] = c.next_pn["app"] + 1]
        /\ v.tx = c.tx /\ v.received = c.received /\ Rest(c, v)
    BY <1>1, <2>1, <2>2, UsedIs
  <2>4. Moved(c, v)
    <3>1. /\ \A s \in Spaces : c.next_pn[s] \in Nat /\ c.tx[s] \in Nat
          /\ c.next_pn \in [Spaces -> Nat]
      BY <1>1, Counters, ConnFields
    <3> QED
      BY <2>3, <3>1 DEF Moved
  <2>5. InitialOnly(c, v, o, side)
    BY <1>1, <1>3 DEF InitialOnly, ConnOK, PeerOK, Alone, Sides
  <2>6. Sending(b, v, o, side)
    BY <2>3, <2>4, <2>5, MovedSends
  <2>7. SendRequest(c, side) = v
    BY <1>3, <2>1 DEF SendRequest
  <2> QED
    BY <2>6, <2>7
<1>4. CASE goes /\ ~(side = "server" \/ c.asked)
  <2>1. side = "client" /\ c.completed /\ c.tls_complete /\ o.state # "absent"
    BY <1>1, <1>4 DEF ConnOK, PeerOK, Alone, Sides
  <2>2. PICK d : d = [c EXCEPT !.asked = TRUE]
    OBVIOUS
  <2>3. c \in Conn
    BY <1>1
  <2>4. /\ d \in Conn /\ d.state = c.state /\ d.received = c.received /\ d.next_pn = c.next_pn
        /\ d.tx = c.tx /\ d.rx = c.rx /\ d.events = c.events
        /\ d.tls_complete = c.tls_complete /\ d.completed = c.completed
        /\ d.confirmed = c.confirmed /\ d.done_due = c.done_due /\ d.can_send = c.can_send
        /\ d.validated = c.validated /\ d.retry = c.retry /\ d.token = c.token
        /\ d.asked = TRUE /\ d.bytes_sent = c.bytes_sent
        /\ d.bytes_received = c.bytes_received /\ d.out = c.out /\ d.failed = c.failed
    BY ONLY ZenonT(60), <2>3, <2>2 DEF Conn
  <2>5. ConnOK(d, side) /\ PeerOK(d, o, side)
    BY <1>1, <1>4, <2>1, <2>4 DEF ConnOK, Queued, PeerOK, TicketsOut
  <2>6. Evolves(c, d, o, side)
    BY <1>1, <2>4, EvolvesRefl DEF Evolves
  <2>7. Staged(d) = Staged(c)
    BY <2>4 DEF Staged
  <2>8. Good(b, d, o, side)
    BY <1>1, <2>4, <2>5, <2>6, <2>7, Advance
  <2>9. Sending(b, d, o, side)
    BY <1>1, <2>1, <2>4, <2>8 DEF Sending, Settled
  <2>10. PICK w : w = Used(c, "app")
    OBVIOUS
  <2>p. "app" \in Spaces
    BY DEF Spaces
  <2>q. /\ w \in Conn /\ w.next_pn = [c.next_pn EXCEPT !["app"] = c.next_pn["app"] + 1]
        /\ w.tx = c.tx /\ w.received = c.received /\ Rest(c, w)
    BY <2>3, <2>10, <2>p, UsedIs
  <2>r. PICK v : v = Used(w, "app")
    OBVIOUS
  <2>11. /\ v \in Conn /\ v.next_pn = [w.next_pn EXCEPT !["app"] = w.next_pn["app"] + 1]
         /\ v.tx = c.tx /\ v.received = c.received /\ Rest(c, v)
    <3>1. w \in Conn
      BY <2>q
    <3>2. /\ v \in Conn /\ v.next_pn = [w.next_pn EXCEPT !["app"] = w.next_pn["app"] + 1]
          /\ v.tx = w.tx /\ v.received = w.received /\ Rest(w, v)
      BY <2>p, <2>r, <3>1, UsedIs
    <3> QED
      BY <2>q, <3>2 DEF Rest
  <2>12. PICK u : u = [v EXCEPT !.asked = TRUE]
    OBVIOUS
  <2>13. /\ u \in Conn /\ u.state = v.state /\ u.received = v.received /\ u.next_pn = v.next_pn
         /\ u.tx = v.tx /\ u.rx = v.rx /\ u.events = v.events
         /\ u.tls_complete = v.tls_complete /\ u.completed = v.completed
         /\ u.confirmed = v.confirmed /\ u.done_due = v.done_due /\ u.can_send = v.can_send
         /\ u.validated = v.validated /\ u.retry = v.retry /\ u.token = v.token
         /\ u.asked = TRUE /\ u.bytes_sent = v.bytes_sent
         /\ u.bytes_received = v.bytes_received /\ u.out = v.out /\ u.failed = v.failed
    <3>1. v \in Conn
      BY <2>11
    <3> QED
      BY ONLY ZenonT(60), <3>1, <2>12 DEF Conn
  <2>14. Rest(d, u)
    <3>1. Rest(c, v)
      BY <2>11
    <3> QED
      BY ONLY ZenonT(60), <2>4, <2>13, <3>1 DEF Rest
  <2>15. Moved(d, u) /\ d.next_pn["app"] < u.next_pn["app"]
    <3>1. /\ \A s \in Spaces : c.next_pn[s] \in Nat /\ c.tx[s] \in Nat
          /\ c.next_pn \in [Spaces -> Nat]
      BY <2>3, Counters, ConnFields
    <3>2. \A s \in Spaces : /\ c.next_pn[s] <= v.next_pn[s]
                            /\ s = "app" => c.next_pn[s] < v.next_pn[s]
      BY <2>p, <2>q, <2>11, <3>1
    <3>3. d.next_pn = c.next_pn /\ d.tx = c.tx /\ d.received = c.received
      BY <2>4
    <3>4. u.next_pn = v.next_pn /\ u.tx = c.tx /\ u.received = c.received
      BY <2>11, <2>13
    <3>5. d.next_pn["app"] < u.next_pn["app"]
      BY <2>p, <3>2, <3>3, <3>4
    <3>6. \A s \in Spaces : /\ d.next_pn[s] <= u.next_pn[s] /\ d.tx[s] <= u.tx[s]
                            /\ u.received[s] \subseteq d.received[s]
      BY <3>1, <3>2, <3>3, <3>4
    <3> QED
      BY <2>14, <3>5, <3>6 DEF Moved
  <2>16. PICK p : p = [NewPacket(c, "app", "app") EXCEPT !.request = TRUE]
    OBVIOUS
  <2>17. /\ p \in Packet /\ p.type = "app" /\ p.pn = c.next_pn["app"] /\ p.acks = {}
         /\ p.crypto = -1 /\ ~p.finished /\ ~p.done
    <3>1. PICK q : q = NewPacket(c, "app", "app")
      OBVIOUS
    <3>2. /\ q \in Packet /\ q.type = "app" /\ q.pn = c.next_pn["app"] /\ q.acks = {}
          /\ q.crypto = -1 /\ ~q.finished /\ ~q.done
      <4>1. "app" \in Types
        BY <2>p DEF Types
      <4> QED
        BY <2>3, <2>p, <3>1, <4>1, NewPacketIs
    <3>3. p = [q EXCEPT !.request = TRUE]
      BY <2>16, <3>1
    <3> QED
      BY ONLY <3>2, <3>3 DEF Packet
  <2>18. SendRequest(c, side) = Push(u, side, <<p>>)
    <3>1. SendRequest(c, side) =
            Push([Used(Used(c, "app"), "app") EXCEPT !.asked = TRUE], side,
                 <<[NewPacket(c, "app", "app") EXCEPT !.request = TRUE]>>)
      BY <1>4, Zenon DEF SendRequest
    <3> QED
      BY <2>10, <2>12, <2>16, <2>r, <3>1, Zenon
  <2>19. d.next_pn = c.next_pn /\ d.tls_complete = c.tls_complete /\ d \in Conn /\ u \in Conn
    BY <2>4, <2>13
  <2>20. /\ p.done => side = "server" /\ d.confirmed
         /\ side = "client" => o.state # "absent"
         /\ p \in Packet /\ p.type = "app" /\ p.pn = d.next_pn["app"] /\ p.acks = {}
         /\ p.crypto = -1 /\ ~p.finished
    BY <2>1, <2>17, <2>19
  <2>21. Sending(b, Push(u, side, <<p>>), o, side)
    BY <2>9, <2>15, <2>19, <2>20, AppPacketSends
  <2> QED
    BY <2>18, <2>19, <2>21
<1> QED
  BY <1>2, <1>3, <1>4

\* The loop over the events.
LEMMA PolledSends ==
  ASSUME NEW c \in Conn, NEW o \in Conn, NEW side \in Sides,
         Good(c, c, o, side), Settled(c, side),
         c.state \notin {"absent", "pre_validation"}
  PROVE  Sending(c, Polled(c, side), o, side)
<1> DEFINE n == Len(c.events)
           base == [c EXCEPT !.events = <<>>]
           T == {d \in Conn : Sending(c, d, o, side)}
           Loop(f) == f = [i \in 0 .. n |-> IF i = 0 THEN base
                                            ELSE OnEvent(f[i - 1], side, c.events[i])]
<1>1. c \in Conn /\ ConnOK(c, side) /\ PeerOK(c, o, side)
  BY DEF Good
<1>2. c.events \in Seq(TlsEvents) /\ n \in Nat
  BY <1>1, ConnFields
<1>3. base \in T
  <2>0. PICK none \in Seq(TlsEvents) : none = <<>>
    <3>1. <<>> \in Seq(TlsEvents)
      OBVIOUS
    <3> QED
      BY <3>1, Zenon
  <2>1. PICK d : d = [c EXCEPT !.events = none]
    OBVIOUS
  <2>2. c \in Conn
    BY <1>1
  <2>3. /\ d \in Conn /\ d.state = c.state /\ d.received = c.received /\ d.next_pn = c.next_pn
        /\ d.tx = c.tx /\ d.rx = c.rx /\ d.events = none
        /\ d.tls_complete = c.tls_complete /\ d.completed = c.completed
        /\ d.confirmed = c.confirmed /\ d.done_due = c.done_due /\ d.can_send = c.can_send
        /\ d.validated = c.validated /\ d.retry = c.retry /\ d.token = c.token
        /\ d.asked = c.asked /\ d.bytes_sent = c.bytes_sent
        /\ d.bytes_received = c.bytes_received /\ d.out = c.out /\ d.failed = c.failed
    BY ONLY ZenonT(60), <2>2, none \in Seq(TlsEvents), <2>1 DEF Conn
  <2>4. Queued(d) = {}
    BY <2>0, <2>3 DEF Queued
  <2>5. Len(d.events) <= MaxEvents
    BY <2>0, <2>3, TlsAssumption
  <2>6. ConnOK(d, side)
    BY <1>1, <2>3, <2>4, <2>5 DEF ConnOK
  <2>7. PeerOK(d, o, side)
    <3>1. Alone(c) => Alone(d)
      BY <2>3, <2>4 DEF Alone
    <3> QED
      BY <1>1, <2>3, <3>1 DEF PeerOK
  <2>8. Evolves(c, d, o, side)
    BY <1>1, <2>3, EvolvesRefl DEF Evolves
  <2>9. Staged(d) = Staged(c)
    BY <2>3 DEF Staged
  <2>10. Good(c, d, o, side)
    BY <2>3, <2>6, <2>7, <2>8, <2>9, Advance
  <2> QED
    BY ZenonT(60), <2>0, <2>1, <2>3, <2>10 DEF Sending, Settled
<1>4. ASSUME NEW d \in T, NEW i \in 1 .. n
      PROVE  OnEvent(d, side, c.events[i]) \in T
  <2>1. Sending(c, d, o, side)
    OBVIOUS
  <2>2. c.events[i] \in TlsEvents /\ c.events[i] \in Queued(c)
    BY <1>2 DEF Queued
  <2>3. EventOK(c.events[i], d, o, side)
    BY <1>1, <2>1, <2>2 DEF EventOK, ConnOK, PeerOK, Alone, Sending, TicketsOut
  <2>4. PICK e : e = OnEvent(d, side, c.events[i])
    OBVIOUS
  <2>5. Sending(c, e, o, side)
    BY <2>1, <2>3, <2>4, OnEventSends
  <2> QED
    BY <2>1, <2>4, <2>5 DEF Sending, Good
<1> HIDE DEF T, base, n
<1>5. \E f : Loop(f)
  <2> DEFINE step == [i \in 1 .. n |-> [d \in T |-> OnEvent(d, side, c.events[i])]]
             Ts == [i \in 0 .. n |-> T]
  <2>1. \A i \in 0 .. n : Ts[i] = T
    OBVIOUS
  <2>2. \A d \in T, i \in 1 .. n : step[i][d] = OnEvent(d, side, c.events[i])
    OBVIOUS
  <2>3. Steps(Ts, base, n, step)
    <3>1. \A i \in 1 .. n : i - 1 \in 0 .. n /\ i \in 0 .. n
      BY <1>2
    <3>2. \A i \in 1 .. n : step[i] \in [T -> T]
      BY <1>4
    <3> HIDE DEF step, Ts
    <3> QED
      BY <1>2, <1>3, <2>1, <3>1, <3>2 DEF Steps
  <2> HIDE DEF step, Ts
  <2>4. PICK f : Follows(f, Ts, base, n, step)
    BY <2>3, RecursionExists
  <2>5. ASSUME NEW i \in 0 .. n
        PROVE  f[i] = IF i = 0 THEN base ELSE OnEvent(f[i - 1], side, c.events[i])
    <3>1. CASE i = 0
      BY <2>4, <3>1 DEF Follows
    <3>2. CASE i # 0
      <4>1. i \in 1 .. n /\ i - 1 \in 0 .. n
        BY <1>2, <3>2
      <4>2. f[i - 1] \in T
        BY <2>1, <2>4, <4>1 DEF Follows
      <4> QED
        BY <2>2, <2>4, <3>2, <4>1, <4>2 DEF Follows
    <3> QED
      BY <3>1, <3>2
  <2>6. Loop(f)
    BY <2>4, <2>5 DEF Follows
  <2> QED
    BY <2>6
<1>6. PICK g : g = (CHOOSE f : Loop(f))
  OBVIOUS
<1>7. Loop(g)
  <2> HIDE DEF Loop
  <2> QED
    BY <1>5, <1>6
<1>8. Polled(c, side) = g[n]
  BY <1>6 DEF Polled, base, n
<1> DEFINE S == {i \in 0 .. n : g[i] \in T}
<1>9. 0 \in S
  BY <1>2, <1>3, <1>7
<1>10. \A i \in 1 .. n : i - 1 \in S => i \in S
  <2> SUFFICES ASSUME NEW i \in 1 .. n, i - 1 \in S PROVE i \in S
    OBVIOUS
  <2>1. g[i] = OnEvent(g[i - 1], side, c.events[i]) /\ i \in 0 .. n
    BY <1>2, <1>7
  <2>2. g[i - 1] \in T
    OBVIOUS
  <2> QED
    BY <1>4, <2>1, <2>2
<1> HIDE DEF S
<1>11. n \in S
  <2>1. n \in Nat
    BY <1>2
  <2>2. 0 .. n \subseteq S
    BY <2>1, <1>9, <1>10, InductionUpTo
  <2> QED
    BY <2>1, <2>2
<1> QED
  BY <1>8, <1>11 DEF S, T

LEMMA FlushSends ==
  ASSUME NEW c \in Conn, NEW o \in Conn, NEW side \in Sides,
         Good(c, c, o, side), Settled(c, side),
         c.state \notin {"absent", "pre_validation"}
  PROVE  Sending(c, Flush(c, side), o, side)
BY PolledSends, SendAcksSends, SendDoneSends, SendRequestSends DEF Flush

(***************************************************************************)
(* Receiving                                                               *)
(***************************************************************************)
\* A connection in the middle of a datagram, after it was b.
Reading(b, c, o, side) == Good(b, c, o, side) /\ c.out = <<>>

\* A packet that a side can be handed.
Incoming(p, c, o, side) ==
  \/ PacketOK(p, o, c, Peer(side))
  \/ /\ side = "client" /\ p \in Packet /\ p.type = "retry"
     /\ p.token = p.cid /\ p.cid # 0
     /\ c.retry = 0 => o.state = "absent" /\ Untouched(o)

LEMMA ReadingStep ==
  ASSUME NEW b \in Conn, NEW c, NEW d \in Conn, NEW o \in Conn, NEW side \in Sides,
         Reading(b, c, o, side), ConnOK(d, side), PeerOK(d, o, side),
         Evolves(c, d, o, side), d.out = <<>>
  PROVE  Reading(b, d, o, side)
<1>1. Staged(d) = {}
  BY DEF Staged
<1> QED
  BY <1>1, Advance DEF Reading

LEMMA ReadingSame ==
  ASSUME NEW b \in Conn, NEW c, NEW d \in Conn, NEW o \in Conn, NEW side \in Sides,
         Reading(b, c, o, side), Same(c, d)
  PROVE  Reading(b, d, o, side)
BY SameIsGood DEF Reading, Same

\* The connection of a failed call.
LEMMA FailReads ==
  ASSUME NEW b \in Conn, NEW c, NEW o \in Conn, NEW side \in Sides,
         Reading(b, c, o, side)
  PROVE  /\ Reading(b, Fail(c), o, side) /\ Settled(Fail(c), side)
         /\ Same(c, Fail(c)) /\ Fail(c).failed
BY FailGood DEF Reading, Same, Settled

LEMMA StartTlsIs ==
  ASSUME NEW c \in Conn, NEW side \in Sides, NEW d, d = StartTls(c, side)
  PROVE  /\ d \in Conn /\ d.state = "handshaking" /\ d.events = StartEvents(side)
         /\ d.received = c.received /\ d.next_pn = c.next_pn /\ d.tx = c.tx /\ d.rx = c.rx
         /\ d.tls_complete = c.tls_complete /\ d.completed = c.completed
         /\ d.confirmed = c.confirmed /\ d.can_send = c.can_send /\ d.done_due = c.done_due
         /\ d.validated = c.validated /\ d.retry = c.retry /\ d.token = c.token
         /\ d.asked = c.asked /\ d.bytes_sent = c.bytes_sent
         /\ d.bytes_received = c.bytes_received /\ d.out = c.out /\ d.failed = c.failed
<1>1. PICK i : i = Install(c, "initial")
  OBVIOUS
<1>2. i \in Conn /\ Same(c, i) /\ i.failed = c.failed
  BY ONLY ZenonT(60), c \in Conn, <1>1 DEF Install, Conn, Same, Spaces, KeyStates
<1>3. PICK told : told = [chosen |-> ChosenVersion(c, side), available |-> AvailableVersions(c),
                          retry |-> IF side = "server" THEN c.retry ELSE 0]
  OBVIOUS
<1>4. told \in Params
  <2>1. c.version \in Versions /\ c.original \in Versions /\ c.retry \in Nat
    BY ConnFields
  <2>2. ChosenVersion(c, side) \in 0 .. 2
    BY <2>1 DEF ChosenVersion, Versions
  <2>3. AvailableVersions(c) \in SUBSET Versions
    BY DEF AvailableVersions, Versions
  <2>4. (IF side = "server" THEN c.retry ELSE 0) \in Nat
    BY <2>1
  <2> QED
    BY ONLY <1>3, <2>2, <2>3, <2>4 DEF Params
<1>5. PICK events \in Seq(TlsEvents) : events = StartEvents(side)
  <2>1. StartEvents(side) \in Seq(TlsEvents)
    <3>1. "write_initial" \in TlsEvents
      BY DEF TlsEvents, Writes
    <3>2. <<"write_initial">> \in Seq(TlsEvents) /\ <<>> \in Seq(TlsEvents)
      BY <3>1
    <3> QED
      BY <3>2 DEF StartEvents
  <2> QED
    BY <2>1
<1>6. d = [i EXCEPT !.state = "handshaking", !.events = events, !.told = told]
  BY <1>1, <1>3, <1>5, Zenon DEF StartTls
<1>7. i \in Conn
  BY <1>2
<1>8. /\ d \in Conn /\ d.state = "handshaking" /\ d.events = events
      /\ d.received = i.received /\ d.next_pn = i.next_pn /\ d.tx = i.tx /\ d.rx = i.rx
      /\ d.tls_complete = i.tls_complete /\ d.completed = i.completed
      /\ d.confirmed = i.confirmed /\ d.can_send = i.can_send /\ d.done_due = i.done_due
      /\ d.validated = i.validated /\ d.retry = i.retry /\ d.token = i.token
      /\ d.asked = i.asked /\ d.bytes_sent = i.bytes_sent
      /\ d.bytes_received = i.bytes_received /\ d.out = i.out /\ d.failed = i.failed
  BY ONLY ZenonT(60), <1>4, events \in Seq(TlsEvents), <1>6, <1>7 DEF Conn, States
<1> QED
  BY <1>2, <1>5, <1>8 DEF Same

LEMMA StartEventsAre ==
  /\ StartEvents("client") = <<"write_initial">> /\ StartEvents("server") = <<>>
  /\ \A side \in Sides : Len(StartEvents(side)) <= MaxEvents
BY TlsAssumption DEF StartEvents, Sides

\* The client's first step.
LEMMA StartTlsReads ==
  ASSUME NEW c \in Conn, NEW o \in Conn, Reading(c, c, o, "client"), Settled(c, "client")
  PROVE  /\ Reading(c, StartTls(c, "client"), o, "client")
         /\ Settled(StartTls(c, "client"), "client")
         /\ StartTls(c, "client").retry = c.retry
<1>1. PICK d : d = StartTls(c, "client")
  OBVIOUS
<1>2. /\ d \in Conn /\ d.state = "handshaking" /\ d.events = <<"write_initial">>
      /\ d.received = c.received /\ d.next_pn = c.next_pn /\ d.tx = c.tx /\ d.rx = c.rx
      /\ d.tls_complete = c.tls_complete /\ d.completed = c.completed
      /\ d.confirmed = c.confirmed /\ d.can_send = c.can_send /\ d.done_due = c.done_due
      /\ d.validated = c.validated /\ d.retry = c.retry /\ d.token = c.token
      /\ d.asked = c.asked /\ d.bytes_sent = c.bytes_sent
      /\ d.bytes_received = c.bytes_received /\ d.out = c.out /\ d.failed = c.failed
  BY <1>1, StartTlsIs, StartEventsAre DEF Sides
<1>3. Queued(d) = {"write_initial"} /\ Len(d.events) <= MaxEvents
  BY <1>2, TlsAssumption DEF Queued
<1>4. ConnOK(c, "client") /\ PeerOK(c, o, "client") /\ c.out = <<>>
  BY DEF Reading, Good
<1>5. ConnOK(d, "client")
  BY <1>2, <1>3, <1>4 DEF ConnOK, EarlyEvents
<1>6. PeerOK(d, o, "client")
  <2>1. Alone(c) => Alone(d)
    BY <1>2, <1>3 DEF Alone
  <2> QED
    BY <1>2, <1>4, <2>1 DEF PeerOK
<1>7. Evolves(c, d, o, "client")
  BY <1>2, EvolvesRefl DEF Evolves
<1> QED
  BY <1>1, <1>2, <1>4, <1>5, <1>6, <1>7, ReadingStep DEF Settled, Sides

\* The server's.
LEMMA SetUpReads ==
  ASSUME NEW b \in Conn, NEW c, NEW o \in Conn, NEW side \in Sides,
         Reading(b, c, o, side), c.state # "absent", NEW p \in Packet,
         c.state = "pre_validation" => side = "server" /\ p.cid = o.retry
  PROVE  /\ Reading(b, SetUp(c, p), o, side)
         /\ SetUp(c, p).state \notin {"absent", "pre_validation"}
         /\ SetUp(c, p).rx = c.rx /\ SetUp(c, p).received = c.received
         /\ SetUp(c, p).next_pn = c.next_pn
         /\ SetUp(c, p).tls_complete = c.tls_complete /\ SetUp(c, p).completed = c.completed
         /\ SetUp(c, p).failed = c.failed
         /\ (side = "client" => SetUp(c, p) = c)
<1>1. c \in Conn /\ ConnOK(c, side) /\ PeerOK(c, o, side) /\ c.out = <<>>
  BY DEF Reading, Good
<1>2. CASE c.state # "pre_validation"
  BY <1>2 DEF SetUp
<1>3. CASE c.state = "pre_validation"
  <2>1. c \in Conn /\ p.version \in Versions /\ p.cid \in Nat
    BY <1>1 DEF Packet
  <2>2. PICK i : i = [c EXCEPT !.version = p.version, !.original = p.version, !.retry = p.cid]
    OBVIOUS
  <2>3. /\ i \in Conn /\ i.retry = p.cid /\ i.state = c.state
        /\ i.received = c.received /\ i.next_pn = c.next_pn /\ i.tx = c.tx /\ i.rx = c.rx
        /\ i.tls_complete = c.tls_complete /\ i.completed = c.completed
        /\ i.confirmed = c.confirmed /\ i.can_send = c.can_send /\ i.done_due = c.done_due
        /\ i.validated = c.validated /\ i.token = c.token
        /\ i.asked = c.asked /\ i.bytes_sent = c.bytes_sent
        /\ i.bytes_received = c.bytes_received /\ i.out = c.out /\ i.failed = c.failed
    BY ONLY ZenonT(60), <2>1, <2>2 DEF Conn
  <2>4. PICK d : d = StartTls(i, "server")
    OBVIOUS
  <2>5. SetUp(c, p) = d
    BY <1>3, <2>2, <2>4 DEF SetUp
  <2>6. /\ d \in Conn /\ d.state = "handshaking" /\ d.events = <<>>
        /\ d.received = i.received /\ d.next_pn = i.next_pn /\ d.tx = i.tx /\ d.rx = i.rx
        /\ d.tls_complete = i.tls_complete /\ d.completed = i.completed
        /\ d.confirmed = i.confirmed /\ d.can_send = i.can_send /\ d.done_due = i.done_due
        /\ d.validated = i.validated /\ d.retry = i.retry /\ d.token = i.token
        /\ d.asked = i.asked /\ d.bytes_sent = i.bytes_sent
        /\ d.bytes_received = i.bytes_received /\ d.out = i.out /\ d.failed = i.failed
    BY <2>3, <2>4, StartTlsIs, StartEventsAre DEF Sides
  <2>7. Queued(d) = {} /\ Len(d.events) <= MaxEvents
    BY <2>6, TlsAssumption DEF Queued
  <2>8. ConnOK(d, side)
    BY <1>1, <1>3, <2>3, <2>6, <2>7 DEF ConnOK
  <2>9. PeerOK(d, o, side)
    BY <1>1, <1>3, <2>3, <2>6 DEF PeerOK
  <2>10. Evolves(c, d, o, side)
    BY <1>1, <1>3, <2>3, <2>6, EvolvesRefl DEF Evolves
  <2>11. Reading(b, d, o, side)
    BY <1>1, <2>3, <2>6, <2>8, <2>9, <2>10, ReadingStep
  <2> QED
    BY <1>3, <2>3, <2>5, <2>6, <2>11
<1> QED
  BY <1>2, <1>3

\* The version.
LEMMA FollowVersionSame ==
  ASSUME NEW c \in Conn, NEW side, NEW p \in Packet, NEW d, d = FollowVersion(c, side, p)
  PROVE  d \in Conn /\ Same(c, d)
<1>1. p.version \in Versions
  BY DEF Packet
<1>2. d = c \/ d = Fail(c) \/ d = [c EXCEPT !.version = p.version, !.learned = TRUE]
  BY DEF FollowVersion, Activate
<1>3. CASE d = c
  BY <1>3 DEF Same
<1>4. CASE d = Fail(c)
  BY ONLY c \in Conn, <1>4 DEF Fail, Conn, Same
<1>5. CASE d = [c EXCEPT !.version = p.version, !.learned = TRUE]
  BY ONLY c \in Conn, <1>1, <1>5 DEF Conn, Same
<1> QED
  BY <1>2, <1>3, <1>4, <1>5

\* The transport parameters.
LEMMA CheckPeerSame ==
  ASSUME NEW c \in Conn, NEW side, NEW p \in Packet, NEW d, d = CheckPeer(c, side, p)
  PROVE  d \in Conn /\ Same(c, d)
<1>0. PICK selected : selected = SelectedVersion(c, p.params)
  OBVIOUS
<1>1. selected \in Versions \/ selected = 0
  <2>1. c.original \in Versions
    BY ConnFields
  <2> QED
    BY <1>0, <2>1 DEF SelectedVersion, Versions
<1>2. \/ d = c \/ d = Fail(c) \/ d = [c EXCEPT !.checked = TRUE]
      \/ selected # 0 /\ d = [[c EXCEPT !.version = selected, !.learned = TRUE]
                               EXCEPT !.checked = TRUE]
  BY <1>0 DEF CheckPeer, CheckClient, CheckServer, Activate
<1>3. CASE d = c
  BY <1>3 DEF Same
<1>4. CASE d = Fail(c)
  BY ONLY c \in Conn, <1>4 DEF Fail, Conn, Same
<1>5. CASE d = [c EXCEPT !.checked = TRUE]
  BY ONLY c \in Conn, <1>5 DEF Conn, Same
<1>6. CASE selected # 0 /\ d = [[c EXCEPT !.version = selected, !.learned = TRUE]
                                  EXCEPT !.checked = TRUE]
  <2>1. selected \in Versions
    BY <1>1, <1>6
  <2>2. PICK i : i = [c EXCEPT !.version = selected, !.learned = TRUE]
    OBVIOUS
  <2>3. i \in Conn /\ Same(c, i)
    BY ONLY c \in Conn, <2>1, <2>2 DEF Conn, Same
  <2>4. d = [i EXCEPT !.checked = TRUE] /\ i \in Conn
    BY <1>6, <2>2, <2>3
  <2>5. d \in Conn /\ Same(i, d)
    BY ONLY <2>4 DEF Conn, Same
  <2> QED
    BY <2>3, <2>5 DEF Same
<1> QED
  BY <1>2, <1>3, <1>4, <1>5, <1>6

\* Every element of q is in R or in the sequence `queue'.
From(q, R, queue) ==
  \A i \in DOMAIN q : q[i] \in R \/ \E j \in DOMAIN queue : q[i] = queue[j]

\* What the event queue holds after new events have come.
LEMMA QueueEventsAre ==
  ASSUME NEW S, NEW R, NEW queue \in Seq(S), NEW new \in Seq(R),
         NEW q, q = QueueEvents(queue, new)
  PROVE  q \in Seq(S \cup R) /\ Len(q) <= MaxEvents /\ From(q, R, queue)
<1> DEFINE all == queue \o new
           n == IF Len(all) <= MaxEvents THEN Len(all) ELSE MaxEvents
<1>1. all \in Seq(S \cup R) /\ Len(all) = Len(queue) + Len(new)
  OBVIOUS
<1>2. n \in Nat /\ n <= Len(all) /\ n <= MaxEvents
  BY <1>1, TlsAssumption
<1>3. q = SubSeq(all, 1, n)
  BY DEF QueueEvents
<1> HIDE DEF n
<1>4. /\ SubSeq(all, 1, n) \in Seq(S \cup R) /\ Len(SubSeq(all, 1, n)) = n
      /\ \A i \in 1 .. n : SubSeq(all, 1, n)[i] = all[i]
  <2> HIDE DEF all
  <2> QED
    BY <1>1, <1>2
<1>5. \A i \in 1 .. n : all[i] \in R \/ \E j \in DOMAIN queue : all[i] = queue[j]
  <2> SUFFICES ASSUME NEW i \in 1 .. n
               PROVE  all[i] \in R \/ \E j \in DOMAIN queue : all[i] = queue[j]
    OBVIOUS
  <2>1. CASE i <= Len(queue)
    <3>1. i \in DOMAIN queue /\ all[i] = queue[i]
      BY <1>1, <1>2, <2>1
    <3> HIDE DEF all
    <3> QED
      BY <3>1
  <2>2. CASE i > Len(queue)
    <3>1. all[i] = new[i - Len(queue)] /\ i - Len(queue) \in 1 .. Len(new)
      BY <1>1, <1>2, <2>2
    <3> HIDE DEF all
    <3> QED
      BY <3>1
  <2>3. i \in Int /\ Len(queue) \in Int
    OBVIOUS
  <2> HIDE DEF all
  <2> QED
    BY <2>1, <2>2, <2>3
<1>6. From(q, R, queue)
  <2> SUFFICES ASSUME NEW i \in DOMAIN q
               PROVE  q[i] \in R \/ \E j \in DOMAIN queue : q[i] = queue[j]
    BY DEF From
  <2>1. i \in 1 .. n /\ q[i] = all[i]
    BY <1>2, <1>3, <1>4
  <2> HIDE DEF all
  <2> QED
    BY <1>5, <2>1
<1> QED
  BY <1>2, <1>3, <1>4, <1>6

LEMMA RepeatType ==
  ASSUME NEW S, NEW event \in S, NEW n \in Nat
  PROVE  Repeat(event, n) \in Seq(S)
BY DEF Repeat

LEMMA RepeatNone ==
  ASSUME NEW S, NEW event
  PROVE  Repeat(event, 0) \in Seq(S)
BY DEF Repeat

\* What TLS has to say to a piece of CRYPTO data.
LEMMA ServerEventsAre ==
  ASSUME NEW space, NEW first, NEW finished \in BOOLEAN, NEW flight \in Flights
  PROVE  ServerEvents(space, first, finished, flight)
           \in Seq({e \in TlsEvents : /\ e = "complete" => finished
                                      /\ e = "write_app" => finished /\ Tickets > 0})
<1> DEFINE R == {e \in TlsEvents : /\ e = "complete" => finished
                                   /\ e = "write_app" => finished /\ Tickets > 0}
<1>1. {"write_initial", "install_handshake", "write_handshake", "write_finished",
       "install_one_rtt"} \subseteq R
  BY DEF TlsEvents, Writes
<1>2. finished => "complete" \in R
  BY DEF TlsEvents
<1>3. finished /\ Tickets > 0 => "write_app" \in R
  BY DEF TlsEvents, Writes
<1> SUFFICES ServerEvents(space, first, finished, flight) \in Seq(R)
  OBVIOUS
<1> HIDE DEF R
<1>4. Flight(flight) \in Seq(R)
  <2>1. flight - 1 \in Nat
    BY TlsAssumption
  <2>2. Repeat("write_handshake", flight - 1) \in Seq(R)
    BY <1>1, <2>1, RepeatType
  <2> QED
    BY <1>1, <2>2 DEF Flight
<1>5. finished => Repeat("write_app", Tickets) \in Seq(R)
  <2>1. CASE Tickets = 0
    BY <2>1, RepeatNone
  <2>2. CASE finished /\ Tickets # 0
    <3>1. Tickets \in Nat
      BY TlsAssumption
    <3>2. "write_app" \in R
      BY <1>3, <2>2, <3>1
    <3> QED
      BY <3>1, <3>2, RepeatType
  <2> QED
    BY <2>1, <2>2
<1>6. CASE space = "initial" /\ first
  <2>1. CASE BoringSSL
    <3>1. ServerEvents(space, first, finished, flight)
            = <<"write_initial", "install_handshake">> \o Flight(flight) \o <<"install_one_rtt">>
      BY <1>6, <2>1 DEF ServerEvents
    <3> QED
      BY <1>1, <1>4, <3>1
  <2>2. CASE ~BoringSSL
    <3>1. ServerEvents(space, first, finished, flight) = <<"install_handshake">> \o Flight(flight)
      BY <1>6, <2>2 DEF ServerEvents
    <3> QED
      BY <1>1, <1>4, <3>1
  <2> QED
    BY <2>1, <2>2
<1>7. CASE ~(space = "initial" /\ first) /\ space = "handshake" /\ finished
  <2>0. "complete" \in R
    BY <1>2, <1>7, Zenon
  <2>1. CASE BoringSSL
    <3>1. ServerEvents(space, first, finished, flight)
            = Repeat("write_app", Tickets) \o <<"complete">>
      BY <1>7, <2>1 DEF ServerEvents
    <3>2. Repeat("write_app", Tickets) \in Seq(R)
      BY <1>5, <1>7, Zenon
    <3> QED
      BY <2>0, <3>1, <3>2
  <2>2. CASE ~BoringSSL
    <3>1. ServerEvents(space, first, finished, flight) = <<"install_one_rtt", "complete">>
      BY <1>7, <2>2 DEF ServerEvents
    <3> QED
      BY <1>1, <2>0, <3>1
  <2> QED
    BY <2>1, <2>2
<1>8. CASE ~(space = "initial" /\ first) /\ ~(space = "handshake" /\ finished)
  <2>1. ServerEvents(space, first, finished, flight) = <<>>
    BY <1>8 DEF ServerEvents
  <2> QED
    BY <2>1
<1> QED
  BY <1>6, <1>7, <1>8

LEMMA ClientEventsAre ==
  ASSUME NEW space, NEW first, NEW finished \in BOOLEAN
  PROVE  ClientEvents(space, first, finished)
           \in Seq({e \in TlsEvents \ {"write_app"} : e \in EarlyEvents \/ finished})
<1> DEFINE R == {e \in TlsEvents \ {"write_app"} : e \in EarlyEvents \/ finished}
<1>1. /\ "install_handshake" \in R
      /\ finished => {"write_finished", "install_one_rtt", "complete"} \subseteq R
  BY DEF TlsEvents, Writes, EarlyEvents
<1> SUFFICES ClientEvents(space, first, finished) \in Seq(R)
  OBVIOUS
<1> HIDE DEF R
<1>2. CASE space = "initial" /\ first
  <2>1. ClientEvents(space, first, finished) = <<"install_handshake">>
    BY <1>2 DEF ClientEvents
  <2> QED
    BY <1>1, <2>1
<1>3. CASE ~(space = "initial" /\ first) /\ space = "handshake" /\ finished
  <2>1. ClientEvents(space, first, finished) =
          (IF BoringSSL THEN <<>> ELSE <<"install_handshake">>)
            \o <<"write_finished", "install_one_rtt", "complete">>
    BY <1>3 DEF ClientEvents
  <2>2. (IF BoringSSL THEN <<>> ELSE <<"install_handshake">>) \in Seq(R)
    BY <1>1
  <2>3. <<"write_finished", "install_one_rtt", "complete">> \in Seq(R)
    BY <1>1, <1>3
  <2> QED
    BY <2>1, <2>2, <2>3
<1>4. CASE ~(space = "initial" /\ first) /\ ~(space = "handshake" /\ finished)
  <2>1. ClientEvents(space, first, finished) = <<>>
    BY <1>4 DEF ClientEvents
  <2> QED
    BY <2>1
<1> QED
  BY <1>2, <1>3, <1>4

\* What reading the frames of p does to a connection.
Fed(c, d, p) ==
  /\ d.retry = c.retry /\ (c.failed => d.failed)
  /\ d.state = c.state \/ d.state \notin {"absent", "pre_validation"}
  /\ d.rx["handshake"] >= c.rx["handshake"] /\ (c.completed => d.completed)
  /\ p.type # "handshake" => d.tls_complete = c.tls_complete
  /\ d.received["handshake"] \subseteq c.received["handshake"]
  /\ ~d.failed /\ p.crypto # -1 => d.rx[p.type] >= 1

LEMMA SeqMonotonic ==
  ASSUME NEW R, NEW S, R \subseteq S, NEW s \in Seq(R)
  PROVE  s \in Seq(S)
OBVIOUS

\* A piece of CRYPTO data is handed to TLS.
LEMMA ProvideReads ==
  ASSUME NEW b \in Conn, NEW c, NEW o \in Conn, NEW side \in Sides,
         Reading(b, c, o, side), NEW p, PacketOK(p, o, c, Peer(side)),
         p.crypto = c.rx[p.type],
         side = "server" /\ p.type = "initial" => p.cid = o.retry
  PROVE  /\ Reading(b, Provide(c, side, p.type, p.finished), o, side)
         /\ Fed(c, Provide(c, side, p.type, p.finished), p)
<1>1. /\ c \in Conn /\ ConnOK(c, side) /\ PeerOK(c, o, side) /\ c.out = <<>>
      /\ p \in Packet /\ p.type \in Spaces /\ (p.finished => p.type = "handshake")
      /\ p.finished \in BOOLEAN /\ "handshake" \in Spaces
  BY DEF Reading, Good, PacketOK, Packet, Spaces
<1> DEFINE sp == p.type
           first == c.rx[sp] = 0
           R == {e \in TlsEvents : /\ e = "write_app" =>
                                         side = "server" /\ p.finished /\ Tickets > 0
                                   /\ side = "client" => e \in EarlyEvents \/ p.finished
                                   /\ side = "server" => (e = "complete" => p.finished)}
<1>2. PICK new : new = IF side = "server" THEN ServerEvents(sp, first, p.finished, c.flight)
                                          ELSE ClientEvents(sp, first, p.finished)
  OBVIOUS
<1>3. new \in Seq(R)
  <2>1. CASE side = "server"
    <3>1. c.flight \in Flights
      BY <1>1, ConnFields
    <3>2. new \in Seq({e \in TlsEvents : /\ e = "complete" => p.finished
                                         /\ e = "write_app" => p.finished /\ Tickets > 0})
      BY <1>1, <1>2, <2>1, <3>1, ServerEventsAre
    <3>3. {e \in TlsEvents : /\ e = "complete" => p.finished
                             /\ e = "write_app" => p.finished /\ Tickets > 0} \subseteq R
      BY <2>1
    <3> HIDE DEF R
    <3> QED
      BY <3>2, <3>3, SeqMonotonic
  <2>2. CASE side # "server"
    <3>1. new \in Seq({e \in TlsEvents \ {"write_app"} : e \in EarlyEvents \/ p.finished})
      BY <1>1, <1>2, <2>2, ClientEventsAre
    <3>2. {e \in TlsEvents \ {"write_app"} : e \in EarlyEvents \/ p.finished} \subseteq R
      BY <2>2
    <3> HIDE DEF R
    <3> QED
      BY <3>1, <3>2, SeqMonotonic
  <2> QED
    BY <2>1, <2>2
<1>4. PICK events : events = QueueEvents(c.events, new)
  OBVIOUS
<1>5. /\ events \in Seq(TlsEvents) /\ Len(events) <= MaxEvents
      /\ \A i \in DOMAIN events : events[i] \in R \/ events[i] \in Queued(c)
  <2>0. TlsEvents \cup R = TlsEvents
    OBVIOUS
  <2>1. c.events \in Seq(TlsEvents)
    BY <1>1, ConnFields
  <2> HIDE DEF R
  <2>2. events \in Seq(TlsEvents \cup R)
    BY <1>3, <1>4, <2>1, QueueEventsAre
  <2>3. Len(events) <= MaxEvents
    BY <1>3, <1>4, <2>1, QueueEventsAre
  <2>4. From(events, R, c.events)
    BY <1>3, <1>4, <2>1, QueueEventsAre
  <2>5. \A i \in DOMAIN events : events[i] \in R \/ events[i] \in Queued(c)
    BY <2>4 DEF Queued, From
  <2> QED
    BY <2>0, <2>2, <2>3, <2>5
<1>6. PICK rx \in [Spaces -> Nat] : rx = [c.rx EXCEPT ![sp] = c.rx[sp] + 1]
  <2>1. c.rx \in [Spaces -> Nat] /\ c.rx[sp] + 1 \in Nat
    BY <1>1, ConnFields, Counters
  <2> QED
    BY <2>1
<1>7. PICK complete \in BOOLEAN : complete = (c.tls_complete \/ p.finished)
  OBVIOUS
<1>8. PICK d : d = [c EXCEPT !.rx = rx, !.tls_complete = complete, !.events = events]
  OBVIOUS
<1>9. Provide(c, side, p.type, p.finished) = d
  BY <1>2, <1>4, <1>6, <1>7, <1>8, Zenon DEF Provide
<1>a. c \in Conn /\ events \in Seq(TlsEvents)
  BY <1>1, <1>5
<1>10. /\ d \in Conn /\ d.rx = rx /\ d.tls_complete = complete /\ d.events = events
       /\ d.state = c.state /\ d.received = c.received /\ d.next_pn = c.next_pn
       /\ d.tx = c.tx /\ d.completed = c.completed
       /\ d.confirmed = c.confirmed /\ d.can_send = c.can_send /\ d.done_due = c.done_due
       /\ d.validated = c.validated /\ d.retry = c.retry /\ d.token = c.token
       /\ d.asked = c.asked /\ d.bytes_sent = c.bytes_sent
       /\ d.bytes_received = c.bytes_received /\ d.out = c.out /\ d.failed = c.failed
  BY ONLY ZenonT(60), <1>8, <1>a, rx \in [Spaces -> Nat], complete \in BOOLEAN DEF Conn
<1>11. /\ d.rx[sp] = c.rx[sp] + 1 /\ \A s \in Spaces : d.rx[s] >= c.rx[s] /\ c.rx[s] \in Nat
       /\ \A s \in Spaces \ {sp} : d.rx[s] = c.rx[s]
  <2>1. c.rx \in [Spaces -> Nat]
    BY <1>1, ConnFields
  <2> QED
    BY <1>1, <1>6, <1>10, <2>1
<1>12. /\ c.tls_complete => d.tls_complete
       /\ p.finished => d.tls_complete
       /\ d.tls_complete => c.tls_complete \/ p.finished
  BY <1>7, <1>10, Zenon
<1>13. \A e \in Queued(d) : e \in R \/ e \in Queued(c)
  BY <1>5, <1>10 DEF Queued
<1>14. side = "client" => o.state # "absent"
  BY PeerIs DEF PacketOK
<1>15. side = "server" => (p.finished => o.completed)
  BY PeerIs DEF PacketOK
<1>16. ConnOK(d, side)
  <2>1. "write_app" \in Queued(d) => TicketsOut(d, side)
    BY <1>1, <1>12, <1>13 DEF ConnOK, TicketsOut
  <2>2. side = "client" => Queued(d) \subseteq EarlyEvents \/ d.tls_complete
    BY <1>1, <1>12, <1>13 DEF ConnOK
  <2>3. side = "client" /\ d.tls_complete => d.rx["handshake"] >= 1
    BY <1>1, <1>11, <1>12 DEF ConnOK
  <2>4. side = "server" /\ "complete" \in Queued(d) => d.tls_complete
    BY <1>1, <1>12, <1>13 DEF ConnOK
  <2>5. Len(d.events) <= MaxEvents /\ (d.completed => d.tls_complete)
    BY <1>1, <1>5, <1>10, <1>12 DEF ConnOK
  <2> HIDE DEF R, sp
  <2> QED
    BY <1>1, <1>10, <2>1, <2>2, <2>3, <2>4, <2>5 DEF ConnOK
<1>17. PeerOK(d, o, side)
  <2>1. \A s \in {"initial", "handshake"} : Written(o, Peer(side), s, d.rx[s])
    <3> SUFFICES ASSUME NEW s \in {"initial", "handshake"}
                 PROVE  Written(o, Peer(side), s, d.rx[s])
      OBVIOUS
    <3>0. s \in Spaces
      BY DEF Spaces
    <3>1. CASE s = sp
      <4>1. p.crypto # -1 /\ (Peer(side) = "client" /\ p.type = "initial" => p.cid = o.retry)
        BY <1>11, <3>0, <3>1, PeerIs DEF Sides
      <4>2. Written(o, Peer(side), p.type, p.crypto + 1)
        BY <4>1 DEF PacketOK
      <4> QED
        BY <1>11, <3>0, <3>1, <4>2
    <3>2. CASE s # sp
      BY <1>1, <1>11, <3>0, <3>2 DEF PeerOK
    <3> QED
      BY <3>1, <3>2
  <2> HIDE DEF R, sp
  <2> QED
    BY <1>1, <1>10, <1>12, <1>14, <1>15, <2>1 DEF PeerOK
<1>18. Evolves(c, d, o, side)
  <2>1. \A s \in Spaces : c.next_pn[s] \in Nat /\ c.tx[s] \in Nat /\ d.rx[s] \in Nat
    BY <1>1, <1>10, Counters
  <2> HIDE DEF R, sp
  <2> QED
    BY <1>10, <1>11, <1>12, <2>1 DEF Evolves
<1>19. Reading(b, d, o, side)
  BY <1>1, <1>10, <1>16, <1>17, <1>18, ReadingStep
<1>20. Fed(c, d, p)
  <2>1. p.type # "handshake" => d.tls_complete = c.tls_complete
    <3>1. c.tls_complete \in BOOLEAN
      BY <1>1, ConnFields
    <3>2. p.type # "handshake" => ~p.finished
      BY <1>1
    <3> QED
      BY <1>7, <1>10, <3>1, <3>2
  <2>2. d.rx["handshake"] >= c.rx["handshake"] /\ d.rx[p.type] >= 1
    BY <1>1, <1>11
  <2> HIDE DEF sp, R
  <2> QED
    BY <1>10, <2>1, <2>2 DEF Fed
<1> QED
  BY <1>9, <1>19, <1>20

LEMMA FedSame ==
  ASSUME NEW c \in Conn, NEW d \in Conn, NEW p, Same(c, d), c.failed => d.failed,
         p.crypto # -1 => d.failed \/ c.rx[p.type] >= 1
  PROVE  Fed(c, d, p)
<1>1. c.rx["handshake"] \in Nat
  BY Counters DEF Spaces
<1>2. c.rx["handshake"] >= c.rx["handshake"]
  BY <1>1
<1> QED
  BY <1>2 DEF Fed, Same

LEMMA FedTrans ==
  ASSUME NEW c \in Conn, NEW d \in Conn, NEW e \in Conn, NEW p,
         Fed(c, d, p), Same(d, e), d.failed => e.failed
  PROVE  Fed(c, e, p)
BY DEF Fed, Same

\* The CRYPTO frame.
LEMMA OnCryptoReads ==
  ASSUME NEW b \in Conn, NEW c, NEW o \in Conn, NEW side \in Sides,
         Reading(b, c, o, side), NEW p, PacketOK(p, o, c, Peer(side)),
         side = "server" /\ p.type = "initial" => p.cid = o.retry
  PROVE  Reading(b, OnCrypto(c, side, p), o, side) /\ Fed(c, OnCrypto(c, side, p), p)
<1>1. /\ c \in Conn /\ p \in Packet /\ p.type \in Spaces /\ p.crypto \in Nat \cup {-1}
  BY DEF Reading, Good, PacketOK, Packet
<1>2. c.rx[p.type] \in Nat
  BY <1>1, Counters
<1>3. CASE p.crypto = -1 \/ p.crypto < c.rx[p.type]
  <2>1. OnCrypto(c, side, p) = c
    BY <1>1, <1>2, <1>3 DEF OnCrypto
  <2>2. p.crypto # -1 => c.rx[p.type] >= 1
    BY <1>1, <1>2, <1>3
  <2>3. Fed(c, c, p)
    BY <1>1, <2>2, FedSame DEF Same
  <2> QED
    BY <2>1, <2>3
<1>4. CASE p.crypto > c.rx[p.type]
  <2>1. OnCrypto(c, side, p) = Fail(c)
    BY <1>1, <1>2, <1>4 DEF OnCrypto
  <2>2. Reading(b, Fail(c), o, side) /\ Same(c, Fail(c)) /\ Fail(c).failed
    BY FailReads
  <2>3. Fail(c) \in Conn
    BY <2>2 DEF Reading, Good
  <2>4. Fed(c, Fail(c), p)
    BY <1>1, <2>2, <2>3, FedSame
  <2> QED
    BY <2>1, <2>2, <2>4
<1>5. CASE p.crypto = c.rx[p.type]
  <2>1. PICK d : d = Provide(c, side, p.type, p.finished)
    OBVIOUS
  <2>2. OnCrypto(c, side, p) = CheckPeer(d, side, p)
    BY <1>1, <1>2, <1>5, <2>1 DEF OnCrypto
  <2>3. Reading(b, d, o, side) /\ Fed(c, d, p)
    BY <1>5, <2>1, ProvideReads
  <2>4. PICK e : e = CheckPeer(d, side, p)
    OBVIOUS
  <2>5. d \in Conn /\ e \in Conn /\ Same(d, e)
    BY <1>1, <2>3, <2>4, CheckPeerSame DEF Reading, Good
  <2>6. d.failed => e.failed
    BY <2>4 DEF CheckPeer, CheckClient, CheckServer, Activate, Fail
  <2>7. Reading(b, e, o, side)
    BY <2>3, <2>5, ReadingSame
  <2>8. Fed(c, e, p)
    BY <1>1, <2>3, <2>5, <2>6, FedTrans
  <2> QED
    BY <2>2, <2>4, <2>7, <2>8
<1> QED
  BY <1>1, <1>2, <1>3, <1>4, <1>5

\* HANDSHAKE_DONE.
LEMMA OnDoneReads ==
  ASSUME NEW b \in Conn, NEW c, NEW o \in Conn, Reading(b, c, o, "client"), NEW p,
         o.confirmed, o.state # "absent"
  PROVE  /\ Reading(b, OnDone(c), o, "client")
         /\ \A x \in Conn : Fed(x, c, p) => Fed(x, OnDone(c), p)
<1>1. /\ c \in Conn /\ ConnOK(c, "client") /\ PeerOK(c, o, "client") /\ c.out = <<>>
  BY DEF Reading, Good
<1>2. PICK i : i = [c EXCEPT !.confirmed = TRUE, !.validated = TRUE, !.state = "active"]
  OBVIOUS
<1>3. c \in Conn
  BY <1>1
<1>4. /\ i \in Conn /\ i.state = "active" /\ i.received = c.received /\ i.next_pn = c.next_pn
      /\ i.tx = c.tx /\ i.rx = c.rx /\ i.events = c.events
      /\ i.tls_complete = c.tls_complete /\ i.completed = c.completed
      /\ i.can_send = c.can_send /\ i.done_due = c.done_due
      /\ i.retry = c.retry /\ i.token = c.token /\ i.asked = c.asked /\ i.out = c.out
      /\ i.failed = c.failed /\ i.confirmed = TRUE
  BY ONLY ZenonT(60), <1>2, <1>3 DEF Conn, States
<1>5. PICK d : d = Discard(i, "handshake")
  OBVIOUS
<1>6. OnDone(c) = d
  BY <1>2, <1>5 DEF OnDone
<1>7. i \in Conn /\ "handshake" \in Spaces
  BY <1>4 DEF Spaces
<1>8. /\ d \in Conn /\ d.state = i.state /\ d.received = [i.received EXCEPT !["handshake"] = {}]
      /\ d.next_pn = i.next_pn
      /\ d.tx = i.tx /\ d.rx = i.rx /\ d.events = i.events
      /\ d.tls_complete = i.tls_complete /\ d.completed = i.completed
      /\ d.can_send = i.can_send /\ d.done_due = i.done_due
      /\ d.retry = i.retry /\ d.token = i.token /\ d.asked = i.asked /\ d.out = i.out
      /\ d.failed = i.failed /\ d.confirmed = i.confirmed
  BY ONLY ZenonT(60), <1>5, <1>7 DEF Discard, Conn, KeyStates
<1>9. \A sp \in Spaces : d.received[sp] \subseteq c.received[sp]
  <2>1. c.received \in [Spaces -> SUBSET Nat]
    BY <1>1, ConnFields
  <2> QED
    BY <1>4, <1>8, <2>1
<1>10. ConnOK(d, "client")
  BY <1>1, <1>4, <1>8 DEF ConnOK, Queued, TicketsOut
<1>11. PeerOK(d, o, "client")
  BY <1>1, <1>4, <1>8, <1>9 DEF PeerOK
<1>12. Evolves(c, d, o, "client")
  BY <1>1, <1>4, <1>8, EvolvesRefl DEF Evolves
<1>13. Reading(b, d, o, "client")
  BY <1>1, <1>4, <1>8, <1>10, <1>11, <1>12, ReadingStep DEF Sides
<1>14. \A x \in Conn : Fed(x, c, p) => Fed(x, d, p)
  BY <1>4, <1>7, <1>8, <1>9 DEF Fed
<1> QED
  BY <1>6, <1>13, <1>14

\* A change of ack_needed alone.
LEMMA AckNeededSame ==
  ASSUME NEW c \in Conn, NEW sp \in Spaces, NEW needed \in BOOLEAN, NEW d,
         d = [c EXCEPT !.ack_needed[sp] = needed]
  PROVE  d \in Conn /\ Same(c, d) /\ d.failed = c.failed
BY ONLY c \in Conn, sp \in Spaces, needed \in BOOLEAN,
        d = [c EXCEPT !.ack_needed[sp] = needed] DEF Conn, Same

\* All frames of a packet.
LEMMA OnFramesReads ==
  ASSUME NEW b \in Conn, NEW c, NEW o \in Conn, NEW side \in Sides,
         Reading(b, c, o, side), NEW p, PacketOK(p, o, c, Peer(side)),
         side = "server" /\ p.type = "initial" => p.cid = o.retry
  PROVE  Reading(b, OnFrames(c, side, p), o, side) /\ Fed(c, OnFrames(c, side, p), p)
<1>1. c \in Conn /\ p \in Packet /\ p.type \in Spaces
  BY DEF Reading, Good, PacketOK, Packet
<1>2. PICK n1 \in BOOLEAN : n1 = (c.ack_needed[p.type] /\ p.acks = {})
  OBVIOUS
<1>3. PICK acked : acked = [c EXCEPT !.ack_needed[p.type] = n1]
  OBVIOUS
<1>4. acked \in Conn /\ Same(c, acked) /\ acked.failed = c.failed
  BY <1>1, <1>3, AckNeededSame
<1>5. Reading(b, acked, o, side)
  BY <1>4, ReadingSame
<1>6. PICK fed : fed = OnCrypto(acked, side, p)
  OBVIOUS
<1>7. PacketOK(p, o, acked, Peer(side))
  BY <1>4 DEF Same, PacketOK, Acknowledges, Numbered, TicketsOut
<1>8. Reading(b, fed, o, side) /\ Fed(acked, fed, p)
  BY <1>5, <1>6, <1>7, OnCryptoReads
<1>9. Fed(c, fed, p)
  BY <1>4, <1>8 DEF Fed, Same
<1>10. PICK done : done = IF p.done THEN OnDone(fed) ELSE fed
  OBVIOUS
<1>11. Reading(b, done, o, side) /\ Fed(c, done, p)
  <2>1. CASE ~p.done
    BY <1>8, <1>9, <1>10, <2>1
  <2>2. CASE p.done
    <3>1. side = "client" /\ o.confirmed /\ o.state # "absent"
      BY <2>2, PeerIs DEF PacketOK, Sides
    <3>2. done = OnDone(fed)
      BY <1>10, <2>2
    <3> QED
      BY <1>1, <1>8, <1>9, <3>1, <3>2, OnDoneReads
  <2> QED
    BY <2>1, <2>2
<1>12. CASE fed.failed
  <2>1. OnFrames(c, side, p) = fed
    BY <1>2, <1>3, <1>6, <1>12, Zenon DEF OnFrames
  <2> QED
    BY <1>8, <1>9, <2>1
<1>13. CASE ~fed.failed
  <2>1. PICK n2 \in BOOLEAN : n2 = (done.ack_needed[p.type] \/ Eliciting(p))
    OBVIOUS
  <2>2. PICK d : d = [done EXCEPT !.ack_needed[p.type] = n2]
    OBVIOUS
  <2>3. OnFrames(c, side, p) = d
    BY <1>2, <1>3, <1>6, <1>10, <1>13, <2>1, <2>2, Zenon DEF OnFrames
  <2>4. done \in Conn
    BY <1>11 DEF Reading, Good
  <2>5. d \in Conn /\ Same(done, d) /\ d.failed = done.failed
    BY <1>1, <2>2, <2>4, AckNeededSame
  <2>6. Reading(b, d, o, side)
    BY <1>11, <2>5, ReadingSame
  <2>7. Fed(c, d, p)
    BY <1>1, <1>11, <2>4, <2>5, FedTrans
  <2> QED
    BY <2>3, <2>6, <2>7
<1> QED
  BY <1>12, <1>13

\* What a Handshake packet proves.
LEMMA AfterHandshakePacketReads ==
  ASSUME NEW b \in Conn, NEW c, NEW o \in Conn, NEW side \in Sides,
         Reading(b, c, o, side), side = "server" => o.rx["handshake"] >= 1
  PROVE  /\ Reading(b, AfterHandshakePacket(c, side), o, side)
         /\ AfterHandshakePacket(c, side).state = c.state
         /\ AfterHandshakePacket(c, side).retry = c.retry
         /\ AfterHandshakePacket(c, side).failed = c.failed
         /\ side = "client" =>
              /\ AfterHandshakePacket(c, side).rx = c.rx
              /\ c.tls_complete => AfterHandshakePacket(c, side).completed
              /\ AfterHandshakePacket(c, side).tls_complete = c.tls_complete
<1>1. c \in Conn /\ ConnOK(c, side) /\ PeerOK(c, o, side) /\ c.out = <<>>
  BY DEF Reading, Good
<1>2. c \in Conn /\ c.tls_complete \in BOOLEAN
  BY <1>1, ConnFields
<1>3. CASE side = "server"
  <2>1. PICK i : i = [c EXCEPT !.validated = TRUE, !.can_send = TRUE,
                               !.completed = c.tls_complete, !.done_due = c.tls_complete]
    OBVIOUS
  <2>2. /\ i \in Conn /\ i.state = c.state /\ i.received = c.received /\ i.next_pn = c.next_pn
        /\ i.tx = c.tx /\ i.rx = c.rx /\ i.events = c.events
        /\ i.tls_complete = c.tls_complete /\ i.completed = c.tls_complete
        /\ i.confirmed = c.confirmed /\ i.done_due = c.tls_complete
        /\ i.validated /\ i.retry = c.retry /\ i.out = c.out /\ i.failed = c.failed
    BY ONLY ZenonT(60), <1>2, <2>1 DEF Conn
  <2>3. PICK d : d = Discard(i, "initial")
    OBVIOUS
  <2>4. AfterHandshakePacket(c, side) = d
    BY <1>3, <2>1, <2>3, Zenon DEF AfterHandshakePacket
  <2>5. i \in Conn /\ "initial" \in Spaces
    BY <2>2 DEF Spaces
  <2>6. /\ d \in Conn /\ d.state = i.state /\ d.received = [i.received EXCEPT !["initial"] = {}]
        /\ d.next_pn = i.next_pn
        /\ d.tx = i.tx /\ d.rx = i.rx /\ d.events = i.events
        /\ d.tls_complete = i.tls_complete /\ d.completed = i.completed
        /\ d.confirmed = i.confirmed /\ d.done_due = i.done_due
        /\ (i.validated => d.validated) /\ d.retry = i.retry /\ d.out = i.out
        /\ d.failed = i.failed
    BY ONLY ZenonT(60), <2>3, <2>5 DEF Discard, Conn, KeyStates
  <2>7. \A sp \in Spaces : d.received[sp] \subseteq c.received[sp]
    <3>1. c.received \in [Spaces -> SUBSET Nat]
      BY <1>1, ConnFields
    <3> QED
      BY <2>2, <2>6, <3>1
  <2>8. ConnOK(d, side)
    BY <1>1, <1>3, <2>2, <2>6 DEF ConnOK, Queued, TicketsOut
  <2>9. PeerOK(d, o, side)
    BY <1>1, <1>3, <2>2, <2>6, <2>7 DEF PeerOK, Spaces
  <2>10. Evolves(c, d, o, side)
    BY <1>1, <1>3, <2>2, <2>6, EvolvesRefl DEF Evolves, ConnOK
  <2>11. Reading(b, d, o, side)
    BY <1>1, <2>2, <2>6, <2>8, <2>9, <2>10, ReadingStep
  <2> QED
    BY <1>3, <2>2, <2>4, <2>6, <2>11
<1>4. CASE side = "client"
  <2>0. c.completed \in BOOLEAN /\ c.can_send \in BOOLEAN
    BY <1>1, ConnFields
  <2>1. PICK completed \in BOOLEAN : completed = (c.completed \/ c.tls_complete)
    OBVIOUS
  <2>2. PICK can_send \in BOOLEAN : can_send = (c.can_send \/ c.tls_complete)
    OBVIOUS
  <2>3. PICK d : d = [c EXCEPT !.completed = completed, !.can_send = can_send]
    OBVIOUS
  <2>4. AfterHandshakePacket(c, side) = d
    <3>1. side # "server"
      BY <1>4
    <3> QED
      BY <3>1, <2>1, <2>2, <2>3, Zenon DEF AfterHandshakePacket
  <2>5. /\ d \in Conn /\ d.state = c.state /\ d.received = c.received /\ d.next_pn = c.next_pn
        /\ d.tx = c.tx /\ d.rx = c.rx /\ d.events = c.events
        /\ d.tls_complete = c.tls_complete /\ d.completed = completed
        /\ d.confirmed = c.confirmed /\ d.done_due = c.done_due /\ d.can_send = can_send
        /\ d.retry = c.retry /\ d.token = c.token
        /\ d.asked = c.asked /\ d.out = c.out /\ d.failed = c.failed
    <3>1. PICK i : i = [c EXCEPT !.completed = completed]
      OBVIOUS
    <3>2. i \in Conn /\ d = [i EXCEPT !.can_send = can_send]
      <4>1. i \in Conn
        BY ONLY <1>2, <3>1, completed \in BOOLEAN DEF Conn
      <4> QED
        BY <2>3, <3>1, <4>1, Zenon
    <3>3. /\ i.state = c.state /\ i.received = c.received /\ i.next_pn = c.next_pn
          /\ i.tx = c.tx /\ i.rx = c.rx /\ i.events = c.events
          /\ i.tls_complete = c.tls_complete /\ i.completed = completed
          /\ i.confirmed = c.confirmed /\ i.done_due = c.done_due
          /\ i.retry = c.retry /\ i.token = c.token
          /\ i.asked = c.asked /\ i.out = c.out /\ i.failed = c.failed
      BY ONLY <1>2, <3>1, completed \in BOOLEAN DEF Conn
    <3>4. /\ d \in Conn /\ d.state = i.state /\ d.received = i.received /\ d.next_pn = i.next_pn
          /\ d.tx = i.tx /\ d.rx = i.rx /\ d.events = i.events
          /\ d.tls_complete = i.tls_complete /\ d.completed = i.completed
          /\ d.confirmed = i.confirmed /\ d.done_due = i.done_due /\ d.can_send = can_send
          /\ d.retry = i.retry /\ d.token = i.token
          /\ d.asked = i.asked /\ d.out = i.out /\ d.failed = i.failed
      BY ONLY ZenonT(60), <3>2, can_send \in BOOLEAN DEF Conn
    <3> QED
      BY <3>3, <3>4
  <2>6. /\ (c.completed => d.completed) /\ (c.tls_complete => d.completed)
        /\ (d.completed => c.tls_complete) /\ (d.can_send => d.completed)
    <3>1. (c.completed => c.tls_complete) /\ (c.can_send => c.completed)
      BY <1>1, <1>4 DEF ConnOK
    <3> QED
      BY <2>0, <1>2, <2>1, <2>2, <2>5, <3>1
  <2>7. ConnOK(d, side)
    BY <1>1, <1>4, <2>5, <2>6 DEF ConnOK, Queued, TicketsOut
  <2>8. PeerOK(d, o, side)
    <3>1. Queued(d) = Queued(c)
      BY <2>5 DEF Queued
    <3>2. Alone(c) => Alone(d)
      BY <2>5, <3>1 DEF Alone
    <3> QED
      BY <1>1, <1>4, <2>5, <3>2 DEF PeerOK
  <2>9. Evolves(c, d, o, side)
    BY <1>1, <1>4, <2>5, <2>6, EvolvesRefl DEF Evolves
  <2>10. Reading(b, d, o, side)
    BY <1>1, <2>5, <2>7, <2>8, <2>9, ReadingStep
  <2> QED
    BY <2>4, <2>5, <2>6, <2>10
<1> QED
  BY <1>3, <1>4 DEF Sides

\* A packet that is not a Retry.
LEMMA ProcessReads ==
  ASSUME NEW b \in Conn, NEW c, NEW o \in Conn, NEW side \in Sides,
         Reading(b, c, o, side), Settled(c, side), c.state # "absent",
         NEW p, PacketOK(p, o, c, Peer(side)),
         side = "server" /\ p.type = "initial" => p.cid = o.retry,
         c.state = "pre_validation" => side = "server" /\ p.cid = o.retry
  PROVE  /\ Reading(b, Process(c, side, p), o, side)
         /\ Settled(Process(c, side, p), side)
         /\ Process(c, side, p).state \notin {"absent", "pre_validation"}
         /\ side = "client" => Process(c, side, p).retry = c.retry
<1>1. c \in Conn /\ p \in Packet /\ p.type \in Spaces /\ p.pn \in Nat
  BY DEF Reading, Good, PacketOK, Packet
<1>2. PICK i : i = SetUp(c, p)
  OBVIOUS
<1>3. /\ Reading(b, i, o, side) /\ i.state \notin {"absent", "pre_validation"}
      /\ i.rx = c.rx /\ i.received = c.received /\ i.next_pn = c.next_pn
      /\ i.tls_complete = c.tls_complete /\ i.completed = c.completed /\ i.failed = c.failed
      /\ (side = "client" => i = c)
  BY <1>1, <1>2, SetUpReads
<1>4. /\ i \in Conn /\ ConnOK(i, side) /\ PeerOK(i, o, side) /\ i.out = <<>>
  BY <1>3 DEF Reading, Good
<1>5. PICK received \in [Spaces -> SUBSET Nat] :
        received = [i.received EXCEPT ![p.type] = i.received[p.type] \cup {p.pn}]
  <2>1. i.received \in [Spaces -> SUBSET Nat] /\ i.received[p.type] \cup {p.pn} \in SUBSET Nat
    BY <1>1, <1>4, ConnFields, Counters
  <2> QED
    BY <2>1
<1>6. PICK saw \in BOOLEAN : saw = (i.saw_initial \/ (side = "client" /\ p.type = "initial"))
  OBVIOUS
<1>7. PICK known : known = [i EXCEPT !.received = received, !.saw_initial = saw]
  OBVIOUS
<1>8. i \in Conn
  BY <1>4
<1>9. /\ known \in Conn /\ known.received = received /\ known.state = i.state
      /\ known.next_pn = i.next_pn /\ known.tx = i.tx /\ known.rx = i.rx
      /\ known.events = i.events /\ known.tls_complete = i.tls_complete
      /\ known.completed = i.completed /\ known.confirmed = i.confirmed
      /\ known.can_send = i.can_send /\ known.done_due = i.done_due
      /\ known.validated = i.validated /\ known.retry = i.retry /\ known.token = i.token
      /\ known.asked = i.asked /\ known.bytes_sent = i.bytes_sent
      /\ known.bytes_received = i.bytes_received /\ known.out = i.out
      /\ known.failed = i.failed
  BY ONLY ZenonT(60), <1>7, <1>8, received \in [Spaces -> SUBSET Nat], saw \in BOOLEAN DEF Conn
<1>10. /\ \A s \in Spaces \ {p.type} : received[s] = i.received[s]
       /\ received[p.type] = i.received[p.type] \cup {p.pn}
  <2>1. i.received \in [Spaces -> SUBSET Nat]
    BY <1>4, ConnFields
  <2> QED
    BY <1>1, <1>5, <2>1
<1>11. ConnOK(known, side)
  BY <1>4, <1>9 DEF ConnOK, Queued, TicketsOut
<1>12. PeerOK(known, o, side)
  <2>1. \A s \in Spaces : \A n \in known.received[s] : Numbered(o, Peer(side), s, n)
    BY <1>4, <1>9, <1>10 DEF PeerOK, PacketOK
  <2>2. side = "client" => o.state # "absent"
    BY PeerIs DEF PacketOK
  <2>3. side = "server" => (known.received["handshake"] # {} => o.rx["handshake"] >= 1)
    <3> SUFFICES ASSUME side = "server", known.received["handshake"] # {}
                 PROVE  o.rx["handshake"] >= 1
      OBVIOUS
    <3>1. CASE p.type = "handshake"
      BY <3>1, PeerIs DEF PacketOK
    <3>2. CASE p.type # "handshake"
      BY <1>4, <1>9, <1>10, <3>2 DEF PeerOK, Spaces
    <3> QED
      BY <3>1, <3>2
  <2> QED
    BY <1>4, <1>9, <2>1, <2>2, <2>3 DEF PeerOK
<1>13. Evolves(i, known, o, side)
  BY <1>4, <1>9, EvolvesRefl DEF Evolves
<1>14. Reading(b, known, o, side)
  BY <1>3, <1>4, <1>9, <1>11, <1>12, <1>13, ReadingStep
<1>15. PacketOK(p, o, known, Peer(side))
  BY <1>3, <1>9 DEF PacketOK, Acknowledges, Numbered, TicketsOut
<1>16. PICK read : read = OnFrames(known, side, p)
  OBVIOUS
<1>17. Reading(b, read, o, side) /\ Fed(known, read, p)
  BY <1>14, <1>15, <1>16, OnFramesReads
<1>18. read.state \notin {"absent", "pre_validation"} /\ read.retry = i.retry
  BY <1>3, <1>9, <1>17 DEF Fed
<1>19. Process(c, side, p) = (IF p.type = "handshake" /\ ~read.failed
                              THEN AfterHandshakePacket(read, side) ELSE read)
  BY <1>2, <1>5, <1>6, <1>7, <1>16, Zenon DEF Process
<1>20. read \in Conn /\ "handshake" \in Spaces
  BY <1>17 DEF Reading, Good, Spaces
<1>21. read.rx["handshake"] \in Nat /\ known.rx["handshake"] \in Nat
  BY <1>9, <1>20, Counters
<1>22. CASE p.type = "handshake" /\ ~read.failed
  <2>1. side = "server" => o.rx["handshake"] >= 1
    BY <1>22, PeerIs DEF PacketOK
  <2>2. PICK d : d = AfterHandshakePacket(read, side)
    OBVIOUS
  <2>3. /\ Reading(b, d, o, side) /\ d.state = read.state /\ d.retry = read.retry
        /\ d.failed = read.failed
        /\ side = "client" => /\ d.rx = read.rx /\ (read.tls_complete => d.completed)
                              /\ d.tls_complete = read.tls_complete
    BY <1>17, <2>1, <2>2, AfterHandshakePacketReads
  <2>4. side = "client" => read.rx["handshake"] >= 1
    <3> SUFFICES ASSUME side = "client" PROVE read.rx["handshake"] >= 1
      OBVIOUS
    <3>1. CASE p.crypto # -1
      BY <1>17, <1>22, <3>1 DEF Fed
    <3>2. CASE p.crypto = -1
      <4>1. known.rx["handshake"] >= 1
        BY <1>15, <1>22, <3>2, PeerIs DEF PacketOK
      <4> QED
        BY <1>17, <1>21, <4>1 DEF Fed
    <3> QED
      BY <3>1, <3>2
  <2>5. Settled(d, side)
    BY <2>3, <2>4 DEF Settled
  <2>6. Process(c, side, p) = d
    BY <1>19, <1>22, <2>2
  <2> QED
    BY <1>3, <1>18, <2>3, <2>5, <2>6
<1>23. CASE ~(p.type = "handshake" /\ ~read.failed)
  <2>1. Process(c, side, p) = read
    BY <1>19, <1>23
  <2>2. Settled(read, side)
    <3> SUFFICES ASSUME side = "client", ~read.failed
                 PROVE  /\ read.tls_complete => read.completed
                        /\ read.received["handshake"] # {} => read.rx["handshake"] >= 1
      BY DEF Settled
    <3>1. p.type # "handshake" /\ ~c.failed
      BY <1>3, <1>9, <1>17, <1>23 DEF Fed
    <3>2. /\ c.tls_complete => c.completed
          /\ c.received["handshake"] # {} => c.rx["handshake"] >= 1
      BY <3>1 DEF Settled
    <3>3. read.tls_complete => read.completed
      BY <1>3, <1>9, <1>17, <3>1, <3>2 DEF Fed
    <3>4. read.received["handshake"] \subseteq c.received["handshake"]
      BY <1>3, <1>9, <1>10, <1>17, <1>20, <3>1 DEF Fed
    <3>5. known.rx["handshake"] = c.rx["handshake"]
      BY <1>3, <1>9
    <3> QED
      BY <1>17, <1>21, <3>2, <3>3, <3>4, <3>5 DEF Fed
  <2> QED
    BY <1>3, <1>17, <1>18, <2>1, <2>2
<1> QED
  BY <1>22, <1>23

LEMMA NewConnIs ==
  ASSUME NEW flight \in Flights, NEW v2 \in BOOLEAN, NEW state \in States,
         NEW c, c = NewConn(state, flight, v2)
  PROVE  /\ c \in Conn /\ c.state = state /\ c.received = InSpaces({})
         /\ c.next_pn = InSpaces(0) /\ c.tx = InSpaces(0) /\ c.rx = InSpaces(0)
         /\ c.events = <<>> /\ ~c.tls_complete /\ ~c.completed /\ ~c.confirmed
         /\ ~c.can_send /\ ~c.done_due /\ ~c.validated /\ ~c.asked /\ ~c.failed
         /\ c.retry = 0 /\ c.token = 0 /\ c.bytes_sent = 0 /\ c.bytes_received = 0
         /\ c.out = <<>>
<1>1. /\ 1 \in Versions /\ NoParams \in Params
      /\ InSpaces("none") \in [Spaces -> KeyStates] /\ InSpaces({}) \in [Spaces -> SUBSET Nat]
      /\ InSpaces(FALSE) \in [Spaces -> BOOLEAN] /\ InSpaces(0) \in [Spaces -> Nat]
  BY DEF Versions, NoParams, Params, InSpaces, KeyStates
<1>2. <<>> \in Seq(TlsEvents) /\ <<>> \in Seq(Seq(Packet))
  OBVIOUS
<1> QED
  BY <1>1, <1>2 DEF NewConn, Conn

\* A client starts again after a Retry.
LEMMA RestartReads ==
  ASSUME NEW b \in Conn, NEW c, NEW o \in Conn, Reading(b, c, o, "client"),
         NEW p \in Packet, p.token = p.cid, p.cid # 0,
         c.retry = 0, o.state = "absent", Untouched(o)
  PROVE  /\ Reading(b, RestartAfterRetry(c, p), o, "client")
         /\ Settled(RestartAfterRetry(c, p), "client")
         /\ RestartAfterRetry(c, p).state \notin {"absent", "pre_validation"}
         /\ RestartAfterRetry(c, p).retry = p.cid
<1>1. /\ c \in Conn /\ ConnOK(c, "client") /\ PeerOK(c, o, "client") /\ c.out = <<>>
      /\ Alone(c) /\ p.cid \in Nat
  BY DEF Reading, Good, PeerOK, Packet
<1>2. PICK n : n = NewConn("handshaking", c.flight, c.v2)
  OBVIOUS
<1>3. /\ n \in Conn /\ n.received = InSpaces({})
      /\ n.next_pn = InSpaces(0) /\ n.tx = InSpaces(0) /\ n.rx = InSpaces(0)
      /\ ~n.tls_complete /\ ~n.completed /\ ~n.confirmed
      /\ ~n.can_send /\ ~n.done_due /\ ~n.validated /\ ~n.asked /\ ~n.failed
      /\ n.out = <<>>
  <2>1. c.flight \in Flights /\ c.v2 \in BOOLEAN /\ "handshaking" \in States
    BY <1>1, ConnFields DEF States
  <2> QED
    BY <1>2, <2>1, NewConnIs
<1>4. PICK i : i = StartTls(n, "client")
  OBVIOUS
<1>5. /\ i \in Conn /\ i.state = "handshaking" /\ i.events = <<"write_initial">>
      /\ i.received = n.received /\ i.next_pn = n.next_pn /\ i.tx = n.tx /\ i.rx = n.rx
      /\ i.tls_complete = n.tls_complete /\ i.completed = n.completed
      /\ i.confirmed = n.confirmed /\ i.can_send = n.can_send /\ i.done_due = n.done_due
      /\ i.asked = n.asked /\ i.out = n.out
  BY <1>3, <1>4, StartTlsIs, StartEventsAre DEF Sides
<1>6. PICK next \in [Spaces -> Nat] :
        next = [i.next_pn EXCEPT !["initial"] = c.next_pn["initial"]]
  <2>1. i.next_pn \in [Spaces -> Nat] /\ c.next_pn["initial"] \in Nat
    BY <1>1, <1>5, ConnFields, Counters DEF Spaces
  <2> QED
    BY <2>1
<1>7. PICK d : d = [i EXCEPT !.next_pn = next, !.retry = p.cid, !.token = p.token,
                             !.bytes_sent = c.bytes_sent, !.bytes_received = c.bytes_received]
  OBVIOUS
<1>8. RestartAfterRetry(c, p) = d
  BY <1>2, <1>4, <1>6, <1>7, Zenon DEF RestartAfterRetry
<1>9. i \in Conn /\ p.cid \in Nat /\ p.token = p.cid /\ c.bytes_sent \in Nat /\ c.bytes_received \in Nat
  BY <1>1, <1>5, ConnFields
<1>10. /\ d \in Conn /\ d.state = i.state /\ d.events = i.events
       /\ d.received = i.received /\ d.next_pn = next /\ d.tx = i.tx /\ d.rx = i.rx
       /\ d.tls_complete = i.tls_complete /\ d.completed = i.completed
       /\ d.confirmed = i.confirmed /\ d.can_send = i.can_send /\ d.done_due = i.done_due
       /\ d.retry = p.cid /\ d.token = p.cid /\ d.asked = i.asked /\ d.out = i.out
  BY ONLY ZenonT(60), <1>7, <1>9, next \in [Spaces -> Nat] DEF Conn
<1>11. Queued(d) = {"write_initial"} /\ Len(d.events) <= MaxEvents
  BY <1>5, <1>10, TlsAssumption DEF Queued
<1>12. /\ \A sp \in Spaces : d.received[sp] = {} /\ d.rx[sp] = 0 /\ d.tx[sp] = 0
       /\ \A sp \in Spaces \ {"initial"} : d.next_pn[sp] = 0
       /\ d.next_pn["initial"] = c.next_pn["initial"]
  <2>1. /\ \A sp \in Spaces : d.received[sp] = {} /\ d.rx[sp] = 0 /\ d.tx[sp] = 0
        /\ \A sp \in Spaces : i.next_pn[sp] = 0
    BY <1>3, <1>5, <1>10 DEF InSpaces
  <2>2. i.next_pn \in [Spaces -> Nat] /\ "initial" \in Spaces
    BY <1>5, ConnFields DEF Spaces
  <2> QED
    BY <1>6, <1>10, <2>1, <2>2
<1>13. ConnOK(d, "client")
  BY <1>3, <1>5, <1>10, <1>11 DEF ConnOK, EarlyEvents
<1>14. Alone(d)
  BY <1>3, <1>5, <1>10, <1>11, <1>12 DEF Alone
<1>15. PeerOK(d, o, "client")
  <2>1. \A sp \in Spaces : o.tx[sp] \in Nat
    BY Counters
  <2> QED
    BY <1>3, <1>5, <1>10, <1>12, <1>14, <2>1 DEF PeerOK, Spaces, Written
<1>16. Evolves(c, d, o, "client")
  <2>1. \A sp \in Spaces : c.next_pn[sp] \in Nat /\ c.rx[sp] = 0
    BY <1>1, Counters DEF Alone
  <2>2. \A sp \in Spaces : c.next_pn[sp] <= d.next_pn[sp] /\ c.rx[sp] <= d.rx[sp]
    BY <1>1, <1>12, <2>1 DEF Alone
  <2>3. \A sp \in Spaces : c.tx[sp] <= d.tx[sp] \/ sp = "initial"
    BY <1>1, <1>12 DEF Alone
  <2>4. ~c.tls_complete /\ ~c.completed
    BY <1>1 DEF Alone, ConnOK
  <2> QED
    BY <1>5, <1>10, <2>2, <2>3, <2>4 DEF Evolves
<1>17. d.out = <<>>
  BY <1>3, <1>5, <1>10
<1>18. Reading(b, d, o, "client")
  BY <1>10, <1>13, <1>15, <1>16, <1>17, ReadingStep DEF Sides
<1>19. Settled(d, "client")
  BY <1>14 DEF Settled, Alone, Spaces
<1> QED
  BY <1>5, <1>8, <1>10, <1>18, <1>19

\* The bytes of a datagram are counted.
LEMMA CountReads ==
  ASSUME NEW b \in Conn, NEW c, NEW o \in Conn, NEW side \in Sides,
         Reading(b, c, o, side), Settled(c, side), NEW size \in Nat,
         NEW d, d = [c EXCEPT !.bytes_received = c.bytes_received + size]
  PROVE  /\ Reading(b, d, o, side) /\ Settled(d, side)
         /\ d.state = c.state /\ d.retry = c.retry /\ d.failed = c.failed
         /\ d.next_pn = c.next_pn /\ d.rx = c.rx
<1>1. c \in Conn /\ ConnOK(c, side) /\ PeerOK(c, o, side) /\ c.out = <<>>
  BY DEF Reading, Good
<1>2. c.bytes_received \in Nat /\ c.bytes_sent \in Nat
  BY <1>1, ConnFields
<1>3. PICK received \in Nat : received = c.bytes_received + size
  BY <1>2
<1>4. c \in Conn /\ d = [c EXCEPT !.bytes_received = received]
  BY <1>1, <1>3
<1>5. /\ d \in Conn /\ d.state = c.state /\ d.received = c.received /\ d.next_pn = c.next_pn
      /\ d.tx = c.tx /\ d.rx = c.rx /\ d.events = c.events
      /\ d.tls_complete = c.tls_complete /\ d.completed = c.completed
      /\ d.confirmed = c.confirmed /\ d.can_send = c.can_send /\ d.done_due = c.done_due
      /\ d.validated = c.validated /\ d.retry = c.retry /\ d.token = c.token
      /\ d.asked = c.asked /\ d.bytes_sent = c.bytes_sent
      /\ d.bytes_received = received /\ d.out = c.out /\ d.failed = c.failed
  BY ONLY ZenonT(60), <1>4, received \in Nat DEF Conn
<1>6. ConnOK(d, side)
  <2>1. side = "server" => d.validated \/ d.bytes_sent <= 3 * d.bytes_received
    BY <1>1, <1>2, <1>3, <1>5 DEF ConnOK
  <2> QED
    BY <1>1, <1>5, <2>1 DEF ConnOK, Queued, TicketsOut
<1>7. PeerOK(d, o, side)
  <2>1. Queued(d) = Queued(c)
    BY <1>5 DEF Queued
  <2>2. Alone(c) => Alone(d)
    BY <1>5, <2>1 DEF Alone
  <2> QED
    BY <1>1, <1>5, <2>2 DEF PeerOK
<1>8. Evolves(c, d, o, side)
  BY <1>1, <1>5, EvolvesRefl DEF Evolves
<1>9. Reading(b, d, o, side)
  <2>1. d \in Conn /\ d.out = <<>>
    BY <1>1, <1>5
  <2> QED
    BY <1>6, <1>7, <1>8, <2>1, ReadingStep
<1> QED
  BY <1>5, <1>9, Zenon DEF Settled

\* A packet that has been decoded.
LEMMA OnPacketReads ==
  ASSUME NEW b \in Conn, NEW c, NEW o \in Conn, NEW side \in Sides,
         Reading(b, c, o, side), Settled(c, side), c.state # "absent", ~c.failed,
         NEW size \in Nat, NEW p, Incoming(p, c, o, side), p.type = "retry" => c.retry = 0,
         side = "server" /\ p.type = "initial" => p.cid = o.retry,
         c.state = "pre_validation" =>
           side = "server" /\ p.type = "initial" /\ p.cid = o.retry
  PROVE  /\ Reading(b, OnPacket(c, side, p, size), o, side)
         /\ Settled(OnPacket(c, side, p, size), side)
         /\ OnPacket(c, side, p, size).state \notin {"absent", "pre_validation"}
         /\ side = "client" => \/ OnPacket(c, side, p, size).retry = c.retry
                               \/ /\ p.type = "retry"
                                  /\ OnPacket(c, side, p, size).retry = p.cid
<1>1. PICK d : d = [c EXCEPT !.bytes_received = c.bytes_received + size]
  OBVIOUS
<1>2. /\ Reading(b, d, o, side) /\ Settled(d, side)
      /\ d.state = c.state /\ d.retry = c.retry /\ d.failed = c.failed
      /\ d.next_pn = c.next_pn /\ d.rx = c.rx
  BY <1>1, CountReads
<1>3. PICK e : e = FollowVersion(d, side, p)
  OBVIOUS
<1>4. /\ p \in Packet /\ (p.type \in Spaces \/ (side = "client" /\ p.type = "retry"))
      /\ d \in Conn /\ c \in Conn
  BY <1>2 DEF Incoming, PacketOK, Reading, Good
<1>5. e \in Conn /\ Same(d, e)
  BY <1>3, <1>4, FollowVersionSame
<1>6. Reading(b, e, o, side)
  BY <1>2, <1>5, ReadingSame
<1>7. Reading(b, Fail(d), o, side) /\ Settled(Fail(d), side) /\ Same(d, Fail(d)) /\ Fail(d).failed
  BY <1>2, FailReads
<1>8. "retry" \notin Spaces
  BY DEF Spaces
<1>9. OnPacket(c, side, p, size) =
        CASE p.type = "retry"                            -> OnRetry(d, side, p)
          [] p.type = "app" /\ ~d.can_send                -> Fail(d)
          [] p.type \in Spaces /\ e.failed                -> e
          [] p.type = "handshake" /\ ~e.failed /\ e.learned /\ p.version # e.version -> e
          [] OTHER                                        -> Process(e, side, p)
  <2>1. d.can_send = c.can_send
    BY ONLY <1>1, <1>4 DEF Conn
  <2> QED
    BY <1>1, <1>3, <2>1 DEF OnPacket
<1> DEFINE f == OnPacket(c, side, p, size)
<1>10. CASE p.type = "retry"
  <2>1. f = OnRetry(d, side, p) /\ side = "client"
    <3>1. p.type # "app" /\ p.type \notin Spaces /\ p.type # "handshake"
      BY <1>10, <1>8
    <3> HIDE DEF f
    <3>2. side = "client"
      BY <1>4, <3>1
    <3>3. f = CASE p.type = "retry"                            -> OnRetry(d, side, p)
          [] p.type = "app" /\ ~d.can_send                -> Fail(d)
          [] p.type \in Spaces /\ e.failed                -> e
          [] p.type = "handshake" /\ ~e.failed /\ e.learned /\ p.version # e.version -> e
          [] OTHER                                        -> Process(e, side, p)
      BY <1>9 DEF f
    <3> QED
      BY <1>10, <3>1, <3>2, <3>3
  <2>2. CASE d.saw_initial \/ p.version # d.version
    <3>1. f = Fail(d)
      BY <2>1, <2>2 DEF OnRetry
    <3>2. c.state # "pre_validation"
      BY <2>1
    <3> HIDE DEF f
    <3> QED
      BY <1>2, <1>7, <3>1, <3>2 DEF Same, f
  <2>3. CASE ~(d.saw_initial \/ p.version # d.version)
    <3>1. f = RestartAfterRetry(d, p)
      BY <2>1, <2>3 DEF OnRetry
    <3>2. /\ p.token = p.cid /\ p.cid # 0 /\ d.retry = 0 /\ o.state = "absent" /\ Untouched(o)
      BY <1>2, <1>8, <1>10 DEF Incoming, PacketOK
    <3> HIDE DEF f
    <3> QED
      BY <1>2, <1>4, <1>10, <2>1, <3>1, <3>2, RestartReads DEF f
  <2> QED
    BY <2>2, <2>3
<1>11. CASE p.type \in Spaces
  <2>1. p.type # "retry"
    BY <1>8, <1>11
  <2>2. \/ p.type = "app" /\ f = Fail(d)
        \/ e.failed /\ f = e
        \/ p.type = "handshake" /\ ~e.failed /\ f = e
        \/ f = Process(e, side, p)
    <3> HIDE DEF f
    <3>1. f = CASE p.type = "retry"                            -> OnRetry(d, side, p)
          [] p.type = "app" /\ ~d.can_send                -> Fail(d)
          [] p.type \in Spaces /\ e.failed                -> e
          [] p.type = "handshake" /\ ~e.failed /\ e.learned /\ p.version # e.version -> e
          [] OTHER                                        -> Process(e, side, p)
      BY <1>9 DEF f
    <3> QED
      BY <1>11, <2>1, <3>1
  <2>3. PacketOK(p, o, e, Peer(side))
    <3>1. PacketOK(p, o, c, Peer(side))
      BY <2>1 DEF Incoming
    <3>2. /\ e.next_pn = c.next_pn /\ e.tls_complete = c.tls_complete
          /\ e.rx = c.rx /\ e.state = c.state
      <4>1. d.tls_complete = c.tls_complete
        BY ONLY <1>1, <1>4 DEF Conn
      <4> QED
        BY ONLY <1>2, <1>5, <4>1 DEF Same
    <3>3. \A n \in p.acks : Acknowledges(p, n, o, e, Peer(side))
      BY <3>1, <3>2 DEF PacketOK, Acknowledges, Numbered, TicketsOut
    <3> QED
      BY <3>1, <3>2, <3>3 DEF PacketOK
  <2> HIDE DEF f
  <2>4. CASE p.type = "app" /\ f = Fail(d)
    BY <1>2, <1>7, <2>4 DEF Same, f
  <2>5. CASE e.failed /\ f = e
    <3>1. c.state # "pre_validation"
      <4>1. side = "server" => e = d
        BY <1>3 DEF FollowVersion
      <4> QED
        BY <1>2, <2>5, <4>1
    <3> QED
      BY <1>2, <1>5, <1>6, <2>5, <3>1 DEF Same, Settled, f
  <2>6. CASE p.type = "handshake" /\ ~e.failed /\ f = e
    <3>1. c.state # "pre_validation"
      BY <2>6
    <3>2. Settled(e, side)
      <4>1. ~d.failed
        BY <1>2
      <4> QED
        BY <1>2, <1>5, <4>1 DEF Settled, Same
    <3> QED
      BY <1>2, <1>5, <1>6, <2>6, <3>1, <3>2 DEF Same, f
  <2>7. CASE f = Process(e, side, p)
    <3>1. Settled(e, side)
      <4>1. ~d.failed
        BY <1>2
      <4> QED
        BY <1>2, <1>5, <4>1 DEF Settled, Same
    <3>2. e.state = c.state /\ e.retry = c.retry
      BY <1>2, <1>5 DEF Same
    <3>3. /\ Reading(b, f, o, side) /\ Settled(f, side)
          /\ f.state \notin {"absent", "pre_validation"}
          /\ side = "client" => f.retry = e.retry
      BY <1>6, <2>3, <2>7, <3>1, <3>2, ProcessReads
    <3> QED
      BY <3>2, <3>3 DEF f
  <2> QED
    BY <2>2, <2>4, <2>5, <2>6, <2>7
<1> QED
  BY <1>4, <1>10, <1>11

\* One turn of the packet loop.
LEMMA ReadPacketReads ==
  ASSUME NEW b \in Conn, NEW c, NEW o \in Conn, NEW side \in Sides,
         Reading(b, c, o, side), Settled(c, side), c.state # "absent",
         NEW size \in Nat, NEW p, Incoming(p, c, o, side),
         c.state = "pre_validation" =>
           ~c.failed /\ side = "server" /\ p.type = "initial" /\ p.cid = o.retry
  PROVE  /\ Reading(b, ReadPacket(c, side, p, size), o, side)
         /\ Settled(ReadPacket(c, side, p, size), side)
         /\ ReadPacket(c, side, p, size).state \notin {"absent", "pre_validation"}
         /\ side = "client" => \/ ReadPacket(c, side, p, size).retry = c.retry
                               \/ /\ p.type = "retry"
                                  /\ ReadPacket(c, side, p, size).retry = p.cid
<1>1. CASE c.failed
  BY <1>1 DEF ReadPacket
<1>2. CASE ~c.failed /\ ~CanDecode(c, side, p)
  <2>1. c.state # "pre_validation"
    BY <1>2 DEF CanDecode
  <2>2. Reading(b, Fail(c), o, side) /\ Settled(Fail(c), side) /\ Same(c, Fail(c))
    BY FailReads
  <2>3. ReadPacket(c, side, p, size) = Fail(c)
    BY <1>2 DEF ReadPacket
  <2> QED
    BY <2>1, <2>2, <2>3 DEF Same
<1>3. CASE ~c.failed /\ CanDecode(c, side, p)
  <2>1. p.type = "retry" => c.retry = 0
    BY <1>3 DEF CanDecode
  <2>2. PeerOK(c, o, side)
    BY DEF Reading, Good
  <2>3. side = "server" /\ p.type = "initial" => p.cid = o.retry
    <3>1. p.type = "initial" => c.state = "pre_validation" \/ p.cid = c.retry
      BY <1>3 DEF CanDecode
    <3> QED
      BY <2>2, <3>1 DEF PeerOK
  <2>4. ReadPacket(c, side, p, size) = OnPacket(c, side, p, size)
    BY <1>3 DEF ReadPacket
  <2>5. /\ Reading(b, OnPacket(c, side, p, size), o, side)
        /\ Settled(OnPacket(c, side, p, size), side)
        /\ OnPacket(c, side, p, size).state \notin {"absent", "pre_validation"}
        /\ side = "client" => \/ OnPacket(c, side, p, size).retry = c.retry
                              \/ /\ p.type = "retry"
                                 /\ OnPacket(c, side, p, size).retry = p.cid
    BY <1>3, <2>1, <2>3, OnPacketReads
  <2> QED
    BY <2>4, <2>5
<1> QED
  BY <1>1, <1>2, <1>3

\* A packet can still be handed to a side that has gone on.
LEMMA IncomingStays ==
  ASSUME NEW c \in Conn, NEW d \in Conn, NEW o \in Conn, NEW side \in Sides, NEW p,
         Incoming(p, c, o, side), Evolves(c, d, o, side)
  PROVE  Incoming(p, d, o, side)
<1>1. CASE PacketOK(p, o, c, Peer(side))
  BY <1>1, ReceiverGoesOn DEF Incoming
<1>2. CASE ~PacketOK(p, o, c, Peer(side))
  BY <1>2 DEF Incoming, Evolves
<1> QED
  BY <1>1, <1>2

\* A connection that has read one or more packets of a datagram since it was c.
HasRead(c, d, o, side, packets) ==
  /\ Reading(c, d, o, side) /\ Settled(d, side)
  /\ d.state \notin {"absent", "pre_validation"}
  /\ side = "client" =>
       \/ d.retry = c.retry
       \/ \E i \in DOMAIN packets : packets[i].type = "retry" /\ d.retry = packets[i].cid

LEMMA ReadAllReads ==
  ASSUME NEW c \in Conn, NEW o \in Conn, NEW side \in Sides,
         Reading(c, c, o, side), Settled(c, side), c.state # "absent", ~c.failed,
         NEW packets \in Seq(Packet), packets # <<>>, NEW size \in Nat,
         \A i \in DOMAIN packets : Incoming(packets[i], c, o, side),
         c.state = "pre_validation" =>
           side = "server" /\ packets[1].type = "initial" /\ packets[1].cid = o.retry
  PROVE  HasRead(c, ReadAll(c, side, packets, size), o, side, packets)
<1> DEFINE n == Len(packets)
           T == {d \in Conn : HasRead(c, d, o, side, packets)}
           Read(d, i) == ReadPacket(d, side, packets[i], IF i = 1 THEN size ELSE 0)
           Loop(f) == f = [i \in 0 .. n |->
                             IF i = 0 THEN c
                             ELSE ReadPacket(f[i - 1], side, packets[i],
                                             IF i = 1 THEN size ELSE 0)]
           Ts == [i \in 0 .. n |-> IF i = 0 THEN {c} ELSE T]
<1>1. n \in Nat /\ n >= 1
  OBVIOUS
<1>2. ASSUME NEW i \in 1 .. n, NEW d, d = c \/ d \in T, i = 1 => d = c, i # 1 => d \in T
      PROVE  Read(d, i) \in T
  <2>1. Reading(c, d, o, side) /\ Settled(d, side) /\ d.state # "absent" /\ d \in Conn
    BY <1>2 DEF HasRead
  <2>2. PICK p : p = packets[i]
    OBVIOUS
  <2>3. i \in DOMAIN packets
    OBVIOUS
  <2>4. Incoming(p, d, o, side)
    <3>1. Evolves(c, d, o, side)
      BY <2>1 DEF Reading, Good
    <3>2. Incoming(p, c, o, side)
      BY <2>2, <2>3
    <3> QED
      BY <2>1, <3>1, <3>2, IncomingStays
  <2>5. d.state = "pre_validation" =>
          ~d.failed /\ side = "server" /\ p.type = "initial" /\ p.cid = o.retry
    BY <1>2, <2>2 DEF HasRead
  <2>6. PICK s \in Nat : s = IF i = 1 THEN size ELSE 0
    OBVIOUS
  <2>7. PICK e : e = ReadPacket(d, side, p, s)
    OBVIOUS
  <2>8. /\ Reading(c, e, o, side) /\ Settled(e, side)
        /\ e.state \notin {"absent", "pre_validation"}
        /\ side = "client" => e.retry = d.retry \/ (p.type = "retry" /\ e.retry = p.cid)
    BY <2>1, <2>4, <2>5, <2>7, ReadPacketReads
  <2>9. side = "client" =>
          \/ d.retry = c.retry
          \/ \E j \in DOMAIN packets : packets[j].type = "retry" /\ d.retry = packets[j].cid
    BY <1>2 DEF HasRead
  <2>10. HasRead(c, e, o, side, packets)
    BY <2>2, <2>3, <2>8, <2>9 DEF HasRead
  <2>11. e = Read(d, i)
    BY <2>2, <2>6, <2>7
  <2> QED
    BY <2>8, <2>10, <2>11 DEF Reading, Good
<1>3. \A i \in 1 .. n : Ts[i] = T /\ i \in 0 .. n /\ i - 1 \in 0 .. n
  OBVIOUS
<1>4. Ts[0] = {c} /\ 0 \in 0 .. n
  BY <1>1
<1> HIDE DEF T, n
<1>5. ASSUME NEW i \in 1 .. n, NEW d \in Ts[i - 1]
      PROVE  Read(d, i) \in T
  <2>1. d = c \/ d \in T
    BY <1>3
  <2>2. i = 1 => d = c
    BY <1>4
  <2>3. i # 1 => d \in T
    <3>1. i # 1 => i - 1 \in 1 .. n
      BY <1>1
    <3> QED
      BY <1>3, <3>1
  <2> HIDE DEF Ts, Read
  <2> QED
    BY <1>2, <2>1, <2>2, <2>3
<1> HIDE DEF Ts
<1>6. \E f : Loop(f)
  <2> DEFINE step == [i \in 1 .. n |-> [d \in Ts[i - 1] |-> Read(d, i)]]
  <2>1. \A i \in 1 .. n : \A d \in Ts[i - 1] : step[i][d] = Read(d, i)
    OBVIOUS
  <2>2. Steps(Ts, c, n, step)
    <3>1. \A i \in 1 .. n : step[i] \in [Ts[i - 1] -> Ts[i]]
      <4> SUFFICES ASSUME NEW i \in 1 .. n PROVE step[i] \in [Ts[i - 1] -> Ts[i]]
        OBVIOUS
      <4>1. step[i] = [d \in Ts[i - 1] |-> Read(d, i)]
        OBVIOUS
      <4>2. \A d \in Ts[i - 1] : Read(d, i) \in Ts[i]
        BY <1>3, <1>5
      <4> HIDE DEF step, Read
      <4> QED
        BY <4>1, <4>2
    <3>2. c \in Ts[0]
      BY <1>4
    <3> HIDE DEF step
    <3> QED
      BY <1>1, <3>1, <3>2 DEF Steps
  <2> HIDE DEF step
  <2>3. PICK f : Follows(f, Ts, c, n, step)
    BY <2>2, RecursionExists
  <2>4. ASSUME NEW i \in 0 .. n
        PROVE  f[i] = IF i = 0 THEN c
                      ELSE ReadPacket(f[i - 1], side, packets[i], IF i = 1 THEN size ELSE 0)
    <3>1. CASE i = 0
      BY <2>3, <3>1 DEF Follows
    <3>2. CASE i # 0
      <4>1. i \in 1 .. n /\ i - 1 \in 0 .. n
        BY <1>1, <3>2
      <4>2. f[i - 1] \in Ts[i - 1]
        BY <2>3, <4>1 DEF Follows
      <4>3. f[i] = step[i][f[i - 1]]
        BY <2>3, <4>1 DEF Follows
      <4> QED
        BY <2>1, <3>2, <4>1, <4>2, <4>3
    <3> QED
      BY <3>1, <3>2
  <2>5. Loop(f)
    BY <2>3, <2>4 DEF Follows
  <2> QED
    BY <2>5
<1>7. PICK g : g = (CHOOSE f : Loop(f))
  OBVIOUS
<1>8. Loop(g)
  <2> HIDE DEF Loop
  <2> QED
    BY <1>6, <1>7
<1>9. ReadAll(c, side, packets, size) = g[n]
  BY <1>7 DEF ReadAll, n
<1> DEFINE S == {i \in 0 .. n : g[i] \in Ts[i]}
<1>10. 0 \in S
  BY <1>1, <1>4, <1>8
<1>11. \A i \in 1 .. n : i - 1 \in S => i \in S
  <2> SUFFICES ASSUME NEW i \in 1 .. n, i - 1 \in S PROVE i \in S
    OBVIOUS
  <2>1. g[i] = Read(g[i - 1], i) /\ i \in 0 .. n
    BY <1>1, <1>8
  <2>2. g[i - 1] \in Ts[i - 1]
    OBVIOUS
  <2> HIDE DEF Read, Loop
  <2> QED
    BY <1>3, <1>5, <2>1, <2>2
<1> HIDE DEF S
<1>12. n \in S
  <2>1. n \in Nat
    BY <1>1
  <2>2. 0 .. n \subseteq S
    BY <2>1, <1>10, <1>11, InductionUpTo
  <2> QED
    BY <2>1, <2>2
<1>13. g[n] \in T
  BY <1>1, <1>3, <1>12 DEF S
<1> QED
  BY <1>9, <1>13 DEF T

(***************************************************************************)
(* A handler from its first call to its last                               *)
(***************************************************************************)
\* What a handler of the connection c leaves, and has staged.
Handled(c, d, o, side) ==
  /\ Good(c, d, o, side) /\ Settled(d, side)
  /\ d.state \notin {"absent", "pre_validation"}

LEMMA GoodStart ==
  ASSUME NEW c \in Conn, NEW o \in Conn, NEW side \in Sides,
         ConnOK(c, side), PeerOK(c, o, side), c.out = <<>>
  PROVE  Reading(c, c, o, side)
<1>1. Staged(c) = {}
  BY DEF Staged
<1>2. Evolves(c, c, o, side)
  BY EvolvesRefl
<1> QED
  BY <1>1, <1>2 DEF Reading, Good, StagedOK

\* It ends with a flush.
LEMMA FlushHandles ==
  ASSUME NEW c \in Conn, NEW d, NEW o \in Conn, NEW side \in Sides,
         Reading(c, d, o, side), Settled(d, side), d.state \notin {"absent", "pre_validation"}
  PROVE  Handled(c, Flush(d, side), o, side) /\ Flush(d, side).retry = d.retry
<1>1. /\ d \in Conn /\ ConnOK(d, side) /\ PeerOK(d, o, side) /\ d.out = <<>>
      /\ Evolves(c, d, o, side)
  BY DEF Reading, Good
<1>2. Good(d, d, o, side)
  BY <1>1, GoodStart DEF Reading
<1>3. PICK e : e = Flush(d, side)
  OBVIOUS
<1>4. Sending(d, e, o, side)
  BY <1>1, <1>2, <1>3, FlushSends
<1>5. /\ e \in Conn /\ ConnOK(e, side) /\ PeerOK(e, o, side) /\ Evolves(d, e, o, side)
      /\ StagedOK(d, e, o, side) /\ Settled(e, side) /\ e.retry = d.retry
      /\ e.state \notin {"absent", "pre_validation"}
  BY <1>4 DEF Sending, Good
<1>6. Evolves(c, e, o, side)
  BY <1>1, <1>5, EvolvesTrans
<1>7. StagedOK(c, e, o, side)
  <2> SUFFICES ASSUME NEW p \in Staged(e) PROVE FreshNumber(p, c, e, side)
    BY <1>5 DEF StagedOK
  <2>1. p.pn \in Nat /\ p.type \in Spaces /\ FreshNumber(p, d, e, side)
    BY <1>5 DEF StagedOK, PacketOK, Packet
  <2> QED
    BY <1>1, <2>1, FreshStays
<1> QED
  BY <1>3, <1>5, <1>6, <1>7 DEF Handled, Good

\* A client's first call.
LEMMA StartHandles ==
  ASSUME NEW c \in Conn, NEW o \in Conn, NEW d, d = Flush(StartTls(c, "client"), "client"),
         ConnOK(c, "client"), PeerOK(c, o, "client"), Settled(c, "client"), c.out = <<>>
  PROVE  Handled(c, d, o, "client") /\ d.retry = c.retry
<1>1. Reading(c, c, o, "client")
  BY GoodStart DEF Sides
<1>2. PICK e : e = StartTls(c, "client")
  OBVIOUS
<1>3. Reading(c, e, o, "client") /\ Settled(e, "client") /\ e.retry = c.retry
  BY <1>1, <1>2, StartTlsReads
<1>4. e.state = "handshaking"
  BY <1>2, StartTlsIs DEF Sides
<1> QED
  BY <1>2, <1>3, <1>4, FlushHandles DEF Sides

\* A timeout.
LEMMA PollHandles ==
  ASSUME NEW c \in Conn, NEW o \in Conn, NEW side \in Sides, NEW d, d = Flush(c, side),
         ConnOK(c, side), PeerOK(c, o, side), Settled(c, side), c.out = <<>>,
         c.state \notin {"absent", "pre_validation"}
  PROVE  Handled(c, d, o, side) /\ d.retry = c.retry
BY GoodStart, FlushHandles

\* A datagram.
LEMMA ReceiveHandles ==
  ASSUME NEW c \in Conn, NEW o \in Conn, NEW side \in Sides,
         ConnOK(c, side), PeerOK(c, o, side), Settled(c, side), c.out = <<>>,
         c.state # "absent", ~c.failed,
         NEW packets \in Seq(Packet), packets # <<>>, NEW size \in Nat,
         \A i \in DOMAIN packets : Incoming(packets[i], c, o, side),
         c.state = "pre_validation" =>
           side = "server" /\ packets[1].type = "initial" /\ packets[1].cid = o.retry,
         NEW d, d = ReceiveDatagram(c, side, packets, size)
  PROVE  /\ Handled(c, d, o, side)
         /\ side = "client" =>
              \/ d.retry = c.retry
              \/ \E i \in DOMAIN packets : packets[i].type = "retry" /\ d.retry = packets[i].cid
<1>1. Reading(c, c, o, side)
  BY GoodStart
<1>2. PICK read : read = ReadAll(c, side, packets, size)
  OBVIOUS
<1>3. HasRead(c, read, o, side, packets)
  BY <1>1, <1>2, ReadAllReads
<1>4. CASE read.failed
  BY <1>2, <1>3, <1>4 DEF ReceiveDatagram, HasRead, Handled, Reading
<1>5. CASE ~read.failed
  <2>1. d = Flush(read, side)
    BY <1>2, <1>5 DEF ReceiveDatagram
  <2>2. /\ Reading(c, read, o, side) /\ Settled(read, side)
        /\ read.state \notin {"absent", "pre_validation"}
    BY <1>3 DEF HasRead
  <2>3. Handled(c, d, o, side) /\ d.retry = read.retry
    BY <2>1, <2>2, FlushHandles
  <2> QED
    BY <1>3, <2>3 DEF HasRead
<1> QED
  BY <1>4, <1>5

(***************************************************************************)
(* The two sides and the network                                           *)
(***************************************************************************)
\* The packets of some datagrams, and the datagrams that are left of them.
Carried(datagrams) ==
  UNION {{datagrams[i].packets[j] : j \in DOMAIN datagrams[i].packets} : i \in DOMAIN datagrams}

Among(left, datagrams) ==
  \A i \in DOMAIN left : \E j \in DOMAIN datagrams : left[i] = datagrams[j]

IsRetry(p, d) ==
  /\ p \in Packet /\ p.type = "retry" /\ d.retry_enabled
  /\ p.token = p.cid /\ p.cid \in 1 .. d.retries

\* One side and what it has sent.
Half(c, o, side, sent, d) ==
  /\ c \in Conn /\ sent \in Seq(Datagram)
  /\ ConnOK(c, side) /\ Settled(c, side) /\ PeerOK(c, o, side) /\ c.out = <<>>
  /\ \A i \in DOMAIN sent : sent[i].packets # <<>>
  /\ \A p \in Carried(sent) : \/ PacketOK(p, c, o, side)
                              \/ side = "server" /\ IsRetry(p, d)

LEMMA AmongCarried ==
  ASSUME NEW left, NEW datagrams, Among(left, datagrams)
  PROVE  Carried(left) \subseteq Carried(datagrams)
BY DEF Among, Carried

LEMMA CarriedBoth ==
  ASSUME NEW s \in Seq(Datagram), NEW t \in Seq(Datagram)
  PROVE  Carried(s \o t) = Carried(s) \cup Carried(t)
<1>1. Carried(s \o t) \subseteq Carried(s) \cup Carried(t)
  <2> SUFFICES ASSUME NEW i \in DOMAIN (s \o t), NEW j \in DOMAIN (s \o t)[i].packets
               PROVE  (s \o t)[i].packets[j] \in Carried(s) \cup Carried(t)
    BY DEF Carried
  <2>1. \/ i \in DOMAIN s /\ (s \o t)[i] = s[i]
        \/ i - Len(s) \in DOMAIN t /\ (s \o t)[i] = t[i - Len(s)]
    OBVIOUS
  <2> QED
    BY <2>1 DEF Carried
<1>2. Carried(s) \subseteq Carried(s \o t)
  <2>1. \A i \in DOMAIN s : i \in DOMAIN (s \o t) /\ (s \o t)[i] = s[i]
    OBVIOUS
  <2> QED
    BY <2>1 DEF Carried
<1>3. Carried(t) \subseteq Carried(s \o t)
  <2> SUFFICES ASSUME NEW i \in DOMAIN t, NEW j \in DOMAIN t[i].packets
               PROVE  t[i].packets[j] \in Carried(s \o t)
    BY SMTT(40) DEF Carried
  <2>1. PICK k : k = Len(s) + i
    OBVIOUS
  <2>2. k \in DOMAIN (s \o t) /\ (s \o t)[k] = t[i]
    BY <2>1
  <2> QED
    BY <2>2 DEF Carried
<1> QED
  BY <1>1, <1>2, <1>3

\* The datagrams a handler has staged.
LEMMA SentIs ==
  ASSUME NEW d \in Conn, NEW side, ConnOK(d, side), NEW s, s = Sent(side, d)
  PROVE  /\ s \in Seq(Datagram) /\ \A i \in DOMAIN s : s[i].packets # <<>>
         /\ Carried(s) \subseteq Staged(d)
<1>1. CASE d.failed
  <2>1. s = <<>>
    BY <1>1 DEF Sent
  <2> QED
    BY <2>1 DEF Carried
<1>2. CASE ~d.failed
  <2>1. d.out \in Seq(Seq(Packet)) /\ DOMAIN d.out = 1 .. Len(d.out)
    BY ConnFields
  <2>2. s = [i \in 1 .. Len(d.out) |-> [packets |-> d.out[i], size |-> Size(side, d.out[i])]]
    BY <1>2, <2>1 DEF Sent
  <2>3. ASSUME NEW i \in 1 .. Len(d.out)
        PROVE  s[i] \in Datagram /\ s[i].packets = d.out[i] /\ d.out[i] # <<>>
    <3>1. d.out[i] \in Seq(Packet) /\ Size(side, d.out[i]) \in Nat /\ d.out[i] # <<>>
      BY <2>1, SizeType DEF ConnOK
    <3> QED
      BY <2>2, <3>1 DEF Datagram
  <2>4. s \in Seq(Datagram) /\ DOMAIN s = 1 .. Len(d.out)
    <3>1. \A i \in 1 .. Len(d.out) :
            [packets |-> d.out[i], size |-> Size(side, d.out[i])] \in Datagram
      BY <2>2, <2>3
    <3>2. Len(d.out) \in Nat
      BY <2>1
    <3> QED
      BY <2>2, <3>1, <3>2
  <2> QED
    BY <2>1, <2>3, <2>4 DEF Carried, Staged
<1> QED
  BY <1>1, <1>2

\* The connection e that remains of d, and the datagrams it has sent since b.
Remains(b, d, e, o, side, sent, next, disp) ==
  /\ Half(e, o, side, next, disp)
  /\ Evolves(b, e, o, side) /\ e.retry = d.retry /\ e.state = d.state
  /\ Carried(next) \subseteq Carried(sent) \cup Staged(d)

\* The handler's side,
LEMMA HalfHandled ==
  ASSUME NEW b, NEW o \in Conn, NEW side \in Sides, NEW sent, NEW disp,
         Half(b, o, side, sent, disp), NEW d, Handled(b, d, o, side),
         NEW left \in Seq(Datagram), Among(left, sent),
         NEW e, e = [d EXCEPT !.out = <<>>], NEW next, next = left \o Sent(side, d)
  PROVE  Remains(b, d, e, o, side, sent, next, disp)
<1>1. /\ b \in Conn /\ d \in Conn /\ ConnOK(d, side) /\ PeerOK(d, o, side)
      /\ Evolves(b, d, o, side) /\ StagedOK(b, d, o, side) /\ Settled(d, side)
  BY DEF Half, Handled, Good
<1>2. PICK none \in Seq(Seq(Packet)) : none = <<>>
  <2>1. <<>> \in Seq(Seq(Packet))
    OBVIOUS
  <2> QED
    BY <2>1
<1>3. e = [d EXCEPT !.out = none]
  BY <1>2
<1>4. d \in Conn
  BY <1>1
<1>5. /\ e \in Conn /\ e.state = d.state /\ e.received = d.received /\ e.next_pn = d.next_pn
      /\ e.tx = d.tx /\ e.rx = d.rx /\ e.events = d.events
      /\ e.tls_complete = d.tls_complete /\ e.completed = d.completed
      /\ e.confirmed = d.confirmed /\ e.can_send = d.can_send /\ e.done_due = d.done_due
      /\ e.validated = d.validated /\ e.retry = d.retry /\ e.token = d.token
      /\ e.asked = d.asked /\ e.bytes_sent = d.bytes_sent
      /\ e.bytes_received = d.bytes_received /\ e.out = none /\ e.failed = d.failed
  BY ONLY <1>3, <1>4, none \in Seq(Seq(Packet)) DEF Conn
<1>6. Queued(e) = Queued(d)
  BY <1>5 DEF Queued
<1>7. ConnOK(e, side)
  <2>1. \A i \in DOMAIN e.out : e.out[i] # <<>>
    BY <1>2, <1>5
  <2>2. ConnOK(d, side)
    BY <1>1
  <2> QED
    BY ONLY <1>5, <1>6, <2>1, <2>2 DEF ConnOK, TicketsOut
<1>8. PeerOK(e, o, side) /\ Settled(e, side)
  BY <1>1, <1>5, <1>6 DEF PeerOK, Alone, Settled
<1>9. Evolves(d, e, o, side)
  BY <1>1, <1>5, EvolvesRefl DEF Evolves
<1>10. Evolves(b, e, o, side)
  BY <1>1, <1>5, <1>9, EvolvesTrans
<1>11. PICK s : s = Sent(side, d)
  OBVIOUS
<1>12. /\ s \in Seq(Datagram) /\ \A i \in DOMAIN s : s[i].packets # <<>>
       /\ Carried(s) \subseteq Staged(d)
  BY <1>1, <1>11, SentIs
<1>13. Carried(left \o s) = Carried(left) \cup Carried(s)
  BY <1>12, CarriedBoth
<1>14. Carried(left) \subseteq Carried(sent)
  BY AmongCarried
<1>15. left \o s \in Seq(Datagram) /\ \A i \in DOMAIN (left \o s) : (left \o s)[i].packets # <<>>
  <2>1. \A i \in DOMAIN left : left[i].packets # <<>>
    BY DEF Among, Half
  <2>2. \A i \in DOMAIN (left \o s) :
          \/ i \in DOMAIN left /\ (left \o s)[i] = left[i]
          \/ i - Len(left) \in DOMAIN s /\ (left \o s)[i] = s[i - Len(left)]
    BY <1>12
  <2>3. left \o s \in Seq(Datagram)
    BY <1>12
  <2> QED
    BY <1>12, <2>1, <2>2, <2>3
<1>16. ASSUME NEW p \in Carried(left \o s)
       PROVE  PacketOK(p, e, o, side) \/ (side = "server" /\ IsRetry(p, disp))
  <2>1. CASE p \in Carried(left)
    <3>1. PacketOK(p, b, o, side) \/ (side = "server" /\ IsRetry(p, disp))
      BY <1>14, <2>1 DEF Half
    <3>2. PacketOK(p, b, o, side) => PacketOK(p, e, o, side)
      BY <1>1, <1>5, <1>10, SenderGoesOn
    <3> QED
      BY <3>1, <3>2
  <2>2. CASE p \in Carried(s)
    <3>1. PacketOK(p, d, o, side)
      BY <1>1, <1>12, <2>2 DEF StagedOK
    <3> QED
      BY <1>1, <1>5, <1>9, <3>1, SenderGoesOn
  <2> QED
    BY <1>13, <1>16, <2>1, <2>2
<1> QED
  BY <1>2, <1>5, <1>7, <1>8, <1>10, <1>11, <1>12, <1>13, <1>14, <1>15, <1>16 DEF Half, Remains

\* and the other one.
LEMMA HalfWaits ==
  ASSUME NEW b \in Conn, NEW e \in Conn, NEW o, NEW side \in Sides, NEW sent, NEW disp,
         Half(o, b, Peer(side), sent, disp), Evolves(b, e, o, side),
         NEW left \in Seq(Datagram), Among(left, sent)
  PROVE  Half(o, e, Peer(side), left, disp)
<1>1. o \in Conn
  BY DEF Half
<1>2. PeerOK(o, e, Peer(side))
  BY <1>1, PeerGoesOn DEF Half
<1>3. \A i \in DOMAIN left : left[i].packets # <<>>
  BY DEF Among, Half
<1>4. ASSUME NEW p \in Carried(left)
      PROVE  PacketOK(p, o, e, Peer(side)) \/ (Peer(side) = "server" /\ IsRetry(p, disp))
  <2>1. PacketOK(p, o, b, Peer(side)) \/ (Peer(side) = "server" /\ IsRetry(p, disp))
    BY AmongCarried DEF Half
  <2> QED
    BY <1>1, <2>1, ReceiverGoesOn
<1> QED
  BY <1>2, <1>3, <1>4 DEF Half

\* The invariant, side by side.
Whole ==
  /\ conn \in [Sides -> Conn] /\ faults \in Faults
  /\ dispatcher \in [retry_enabled : RetryModes, retries : Nat, expired : Nat]
  /\ RetryInv
  /\ Half(conn["client"], conn["server"], "client", to_server, dispatcher)
  /\ Half(conn["server"], conn["client"], "server", to_client, dispatcher)

LEMMA NetIs == /\ net["client"] = to_client /\ net["server"] = to_server
               /\ DOMAIN net = Sides /\ net = [side \in Sides |-> net[side]]
BY DEF net, Sides

LEMMA InFlightIs == \A side \in Sides : InFlight(side) = Carried(net[side])
BY DEF InFlight, Carried

LEMMA RetryOKIs == \A p : RetryOK(p) <=> IsRetry(p, dispatcher)
BY DEF RetryOK, IsRetry

LEMMA WholeGives ==
  ASSUME Whole, NEW side \in Sides
  PROVE  /\ Half(conn[side], conn[Peer(side)], side, net[Peer(side)], dispatcher)
         /\ Half(conn[Peer(side)], conn[side], Peer(side), net[side], dispatcher)
         /\ conn[side] \in Conn /\ conn[Peer(side)] \in Conn /\ Peer(side) \in Sides
         /\ net \in [Sides -> Seq(Datagram)]
<1>1. /\ Half(conn["client"], conn["server"], "client", to_server, dispatcher)
      /\ Half(conn["server"], conn["client"], "server", to_client, dispatcher)
      /\ conn["client"] \in Conn /\ conn["server"] \in Conn
  BY DEF Whole, Sides
<1>2. to_client \in Seq(Datagram) /\ to_server \in Seq(Datagram)
  BY <1>1 DEF Half
<1>3. net \in [Sides -> Seq(Datagram)]
  BY <1>2, NetIs DEF Sides
<1>4. CASE side = "client"
  BY <1>1, <1>3, <1>4, NetIs, PeerIs DEF Sides
<1>5. CASE side = "server"
  BY <1>1, <1>3, <1>5, NetIs, PeerIs DEF Sides
<1> QED
  BY <1>4, <1>5 DEF Sides

LEMMA WholeIsBaseInv == Whole => BaseInv
<1> SUFFICES ASSUME Whole PROVE BaseInv
  OBVIOUS
<1>1. \A side \in Sides :
        /\ Half(conn[side], conn[Peer(side)], side, net[Peer(side)], dispatcher)
        /\ Half(conn[Peer(side)], conn[side], Peer(side), net[side], dispatcher)
        /\ net \in [Sides -> Seq(Datagram)]
  BY WholeGives
<1>2. TypeOK
  BY <1>1 DEF TypeOK, Whole, Half, ConnOK, Sides
<1>3. ConnInv
  BY <1>1 DEF ConnInv, Half
<1>4. FlightInv
  <2>1. \A side \in Sides : \A i \in DOMAIN net[side] : net[side][i].packets # <<>>
    BY <1>1 DEF Half
  <2>2. /\ InFlight("client") = Carried(to_client) /\ InFlight("server") = Carried(to_server)
    BY InFlightIs, NetIs DEF Sides
  <2> QED
    BY <2>1, <2>2, RetryOKIs DEF FlightInv, Whole, Half
<1> QED
  BY <1>2, <1>3, <1>4 DEF BaseInv, Whole

LEMMA BaseInvIsWhole == BaseInv => Whole
<1> SUFFICES ASSUME BaseInv PROVE Whole
  OBVIOUS
<1>1. /\ InFlight("client") = Carried(to_client) /\ InFlight("server") = Carried(to_server)
  BY InFlightIs, NetIs DEF Sides
<1>2. to_client \in Seq(Datagram) /\ to_server \in Seq(Datagram)
  BY NetIs DEF BaseInv, TypeOK, Sides
<1>3. /\ \A i \in DOMAIN to_client : to_client[i].packets # <<>>
      /\ \A i \in DOMAIN to_server : to_server[i].packets # <<>>
  BY NetIs DEF BaseInv, FlightInv, Sides
<1>4. conn["client"] \in Conn /\ conn["server"] \in Conn
  BY DEF BaseInv, TypeOK, Sides
<1>5. \A side \in {"client", "server"} :
        /\ ConnOK(conn[side], side) /\ Settled(conn[side], side)
        /\ PeerOK(conn[side], conn[Peer(side)], side) /\ conn[side].out = <<>>
  BY DEF BaseInv, ConnInv, Sides
<1>6. Half(conn["client"], conn["server"], "client", to_server, dispatcher)
  BY <1>1, <1>2, <1>3, <1>4, <1>5, PeerIs DEF Half, BaseInv, FlightInv
<1>7. Half(conn["server"], conn["client"], "server", to_client, dispatcher)
  BY <1>1, <1>2, <1>3, <1>4, <1>5, PeerIs, RetryOKIs DEF Half, BaseInv, FlightInv
<1> QED
  BY <1>6, <1>7 DEF Whole, BaseInv, TypeOK

(***************************************************************************)
(* What a step does to the network                                         *)
(***************************************************************************)
LEMMA AmongRefl ==
  ASSUME NEW s
  PROVE  Among(s, s)
BY DEF Among

LEMMA RemoveIsAmong ==
  ASSUME NEW s \in Seq(Datagram), NEW i \in DOMAIN s
  PROVE  RemoveAt(s, i) \in Seq(Datagram) /\ Among(RemoveAt(s, i), s)
<1> DEFINE r == RemoveAt(s, i)
<1>1. i \in 1 .. Len(s) /\ Len(s) \in Nat
  OBVIOUS
<1>2. PICK front : front = SubSeq(s, 1, i - 1)
  OBVIOUS
<1>3. PICK back : back = SubSeq(s, i + 1, Len(s))
  OBVIOUS
<1>4. /\ front \in Seq(Datagram) /\ Len(front) = i - 1
      /\ \A k \in DOMAIN front : k \in DOMAIN s /\ front[k] = s[k]
  BY <1>1, <1>2
<1>5. /\ back \in Seq(Datagram) /\ Len(back) = Len(s) - i
      /\ \A k \in DOMAIN back : k + i \in DOMAIN s /\ back[k] = s[k + i]
  BY <1>1, <1>3
<1>6. r = front \o back
  BY <1>2, <1>3 DEF RemoveAt
<1>7. r \in Seq(Datagram)
  BY <1>4, <1>5, <1>6
<1>8. ASSUME NEW k \in DOMAIN r
      PROVE  \E j \in DOMAIN s : r[k] = s[j]
  <2>1. \/ k \in DOMAIN front /\ r[k] = front[k]
        \/ k - Len(front) \in DOMAIN back /\ r[k] = back[k - Len(front)]
    BY <1>4, <1>5, <1>6
  <2> HIDE DEF r
  <2> QED
    BY <1>4, <1>5, <2>1
<1> HIDE DEF r
<1>9. Among(r, s)
  BY <1>8 DEF Among
<1> QED
  BY <1>7, <1>9 DEF r

\* What is left of the network is part of it.
Remaining(left) == left \in [Sides -> Seq(Datagram)] /\ \A x \in Sides : Among(left[x], net[x])

LEMMA NetRest ==
  ASSUME net \in [Sides -> Seq(Datagram)]
  PROVE  Remaining(net)
BY AmongRefl DEF Remaining

LEMMA RemovedRest ==
  ASSUME net \in [Sides -> Seq(Datagram)], NEW side \in Sides, NEW i \in DOMAIN net[side]
  PROVE  Remaining([net EXCEPT ![side] = RemoveAt(@, i)])
<1>1. PICK r : r = RemoveAt(net[side], i)
  OBVIOUS
<1>2. net[side] \in Seq(Datagram)
  OBVIOUS
<1>3. r \in Seq(Datagram) /\ Among(r, net[side])
  BY <1>1, <1>2, RemoveIsAmong
<1>4. PICK left : left = [net EXCEPT ![side] = r]
  OBVIOUS
<1>5. left \in [Sides -> Seq(Datagram)]
  BY <1>3, <1>4
<1>6. \A x \in Sides : left[x] = IF x = side THEN r ELSE net[x]
  BY <1>4
<1>7. Remaining(left)
  BY <1>3, <1>5, <1>6, AmongRefl DEF Remaining
<1> QED
  BY <1>1, <1>4, <1>7

LEMMA LeftRest ==
  ASSUME net \in [Sides -> Seq(Datagram)], NEW side \in Sides, NEW i \in DOMAIN net[side],
         NEW keep \in BOOLEAN
  PROVE  Remaining(Left(side, i, keep))
BY NetRest, RemovedRest DEF Left

LEMMA ArrivesFaults ==
  ASSUME faults \in Faults, NEW side, NEW i \in Nat, NEW keep \in BOOLEAN,
         Arrives(side, i, keep)
  PROVE  faults' \in Faults
<1>1. /\ faults.drop \in 0 .. MaxDrop /\ faults.dup \in 0 .. MaxDup
      /\ faults.reorder \in 0 .. MaxReorder
      /\ MaxDrop \in Nat /\ MaxDup \in Nat /\ MaxReorder \in Nat
  BY HandshakeAssumption DEF Faults
<1>2. /\ (IF i > 1 THEN faults.reorder + 1 ELSE faults.reorder) \in 0 .. MaxReorder
      /\ (IF keep THEN faults.dup + 1 ELSE faults.dup) \in 0 .. MaxDup
  BY <1>1 DEF Arrives
<1>3. faults' = [faults EXCEPT !.reorder = IF i > 1 THEN faults.reorder + 1 ELSE faults.reorder,
                               !.dup = IF keep THEN faults.dup + 1 ELSE faults.dup]
  BY DEF Arrives
<1> QED
  BY <1>2, <1>3 DEF Faults

LEMMA NetBecomesIs ==
  ASSUME NEW n, NetBecomes(n)
  PROVE  net'["client"] = n["client"] /\ net'["server"] = n["server"]
BY DEF NetBecomes, net

(***************************************************************************)
(* The steps                                                               *)
(***************************************************************************)
\* NumbersAreFresh and ValidatedByProof, of one step.
Fresh ==
  \A side \in Sides : \A p \in NewPackets(side) :
    p.type # "retry" => FreshNumber(p, conn[side], conn'[side], side)

Proven ==
  conn'["server"].validated /\ ~conn["server"].validated =>
    \/ conn["client"].rx["handshake"] >= 1
    \/ conn["client"].token \in dispatcher.expired + 1 .. dispatcher.retries

LEMMA NewPacketsAre ==
  ASSUME NEW side \in Sides
  PROVE  NewPackets(side) = Carried(net'[Peer(side)]) \ Carried(net[Peer(side)])
<1>1. Peer(side) \in Sides
  BY PeerIs DEF Sides
<1>2. InFlight(Peer(side)) = Carried(net[Peer(side)])
  BY <1>1, InFlightIs
<1>3. InFlight(Peer(side))' = Carried(net'[Peer(side)])
  BY DEF InFlight, Carried
<1> QED
  BY <1>2, <1>3 DEF NewPackets

\* A handler of one side, that began with b, leaves d, while o waits.
Kept(b, d, o, side) ==
  /\ Half(conn'[side], o, side, net'[Peer(side)], dispatcher)
  /\ Half(o, conn'[side], Peer(side), net'[side], dispatcher)
  /\ conn' \in [Sides -> Conn] /\ conn'[Peer(side)] = o
  /\ Evolves(b, conn'[side], o, side)
  /\ conn'[side].retry = d.retry /\ conn'[side].state = d.state
  /\ Fresh

\* A side of the connection handles something, starting with b.
LEMMA ShipKeeps ==
  ASSUME conn \in [Sides -> Conn], NEW side \in Sides, NEW b \in Conn, NEW o \in Conn,
         o = conn[Peer(side)],
         Half(b, o, side, net[Peer(side)], dispatcher),
         Half(o, b, Peer(side), net[side], dispatcher),
         b.next_pn = conn[side].next_pn,
         NEW d, Handled(b, d, o, side), NEW left, Remaining(left), Ship(side, d, left)
  PROVE  Kept(b, d, o, side)
<1>1. PICK e : e = [d EXCEPT !.out = <<>>]
  OBVIOUS
<1>2. Peer(side) \in Sides /\ Peer(side) # side /\ Peer(Peer(side)) = side
  BY PeerIs DEF Sides
<1>3. left[side] \in Seq(Datagram) /\ left[Peer(side)] \in Seq(Datagram)
  BY <1>2 DEF Remaining
<1>4. Among(left[side], net[side]) /\ Among(left[Peer(side)], net[Peer(side)])
  BY <1>2 DEF Remaining
<1> PICK rest \in Seq(Datagram) : rest = left[Peer(side)]
  BY <1>3
<1>5. PICK topeer : topeer = rest \o Sent(side, d)
  OBVIOUS
<1>6. /\ Half(e, o, side, topeer, dispatcher)
      /\ Evolves(b, e, o, side) /\ e.retry = d.retry /\ e.state = d.state
      /\ Carried(topeer) \subseteq Carried(net[Peer(side)]) \cup Staged(d)
  <2>1. Among(rest, net[Peer(side)])
    BY <1>4
  <2>2. Remains(b, d, e, o, side, net[Peer(side)], topeer, dispatcher)
    BY <1>1, <1>5, <2>1, HalfHandled
  <2> QED
    BY <2>2 DEF Remains
<1>7. e \in Conn
  BY <1>6 DEF Half
<1>8. Half(o, e, Peer(side), left[side], dispatcher)
  BY <1>3, <1>4, <1>6, <1>7, HalfWaits
<1>9. conn' = [conn EXCEPT ![side] = e]
  BY <1>1 DEF Ship
<1>10. conn'[side] = e /\ conn'[Peer(side)] = o /\ conn' \in [Sides -> Conn]
  BY <1>2, <1>7, <1>9
<1>11. net'[side] = left[side] /\ net'[Peer(side)] = topeer
  <2>1. PICK n : n = [left EXCEPT ![Peer(side)] = topeer]
    OBVIOUS
  <2>2. NetBecomes(n)
    BY <1>5, <2>1 DEF Ship
  <2>3. n[side] = left[side] /\ n[Peer(side)] = topeer
    BY <1>2, <2>1 DEF Remaining
  <2>4. net'["client"] = n["client"] /\ net'["server"] = n["server"]
    BY <2>2, NetBecomesIs
  <2> QED
    BY <2>3, <2>4, PeerIs DEF Sides
<1>12. Fresh
  <2> SUFFICES ASSUME NEW x \in Sides, NEW p \in NewPackets(x), p.type # "retry"
               PROVE  FreshNumber(p, conn[x], conn'[x], x)
    BY DEF Fresh
  <2>1. p \in Carried(net'[Peer(x)]) /\ p \notin Carried(net[Peer(x)])
    BY NewPacketsAre
  <2>2. CASE x = side
    <3>1. p \in Staged(d)
      BY <1>6, <1>11, <2>1, <2>2
    <3>2. FreshNumber(p, b, d, side)
      BY <3>1 DEF Handled, Good, StagedOK
    <3>3. e.tls_complete = d.tls_complete
      BY <1>1 DEF Handled, Good, Conn
    <3> QED
      BY <1>10, <2>2, <3>2, <3>3 DEF FreshNumber, TicketsOut
  <2>3. CASE x # side
    <3>1. Peer(x) = side
      BY <2>3, PeerIs DEF Sides
    <3>2. Carried(left[side]) \subseteq Carried(net[side])
      BY <1>4, AmongCarried
    <3> QED
      BY <1>11, <2>1, <3>1, <3>2
  <2> QED
    BY <2>2, <2>3
<1> QED
  BY <1>6, <1>8, <1>10, <1>11, <1>12 DEF Kept

\* A handler of one side that began with b keeps the invariant.
WholeKept(b, side) ==
  /\ Whole' /\ Fresh
  /\ Evolves(b, conn'[side], conn[Peer(side)], side)
  /\ conn'[Peer(side)] = conn[Peer(side)]

\* Only the Retry part of the invariant is about one side or the other.
LEMMA ShipWhole ==
  ASSUME Whole, faults' \in Faults, UNCHANGED dispatcher, NEW side \in Sides, NEW b \in Conn,
         Half(b, conn[Peer(side)], side, net[Peer(side)], dispatcher),
         Half(conn[Peer(side)], b, Peer(side), net[side], dispatcher),
         b.next_pn = conn[side].next_pn, b.retry = conn[side].retry,
         side = "server" /\ conn["server"].state = "absent" /\ dispatcher.retry_enabled
           => conn["client"].retry # 0,
         NEW d, Handled(b, d, conn[Peer(side)], side),
         side = "client" => \/ d.retry = b.retry
                            \/ /\ d.retry \in 1 .. dispatcher.retries
                               /\ dispatcher.retry_enabled,
         NEW left, Remaining(left), Ship(side, d, left)
  PROVE  WholeKept(b, side)
<1>1. PICK o : o = conn[Peer(side)]
  OBVIOUS
<1>2. /\ o \in Conn /\ Peer(side) \in Sides /\ conn \in [Sides -> Conn]
      /\ dispatcher \in [retry_enabled : RetryModes, retries : Nat, expired : Nat]
  BY <1>1, PeerIs DEF Whole, Sides
<1>3. /\ Half(conn'[side], o, side, net'[Peer(side)], dispatcher)
      /\ Half(o, conn'[side], Peer(side), net'[side], dispatcher)
      /\ conn' \in [Sides -> Conn] /\ conn'[Peer(side)] = o
      /\ Evolves(b, conn'[side], o, side)
      /\ conn'[side].retry = d.retry /\ conn'[side].state = d.state
      /\ Fresh
  <2>1. /\ Half(b, o, side, net[Peer(side)], dispatcher)
        /\ Half(o, b, Peer(side), net[side], dispatcher)
        /\ Handled(b, d, o, side)
    BY <1>1
  <2>2. Kept(b, d, o, side)
    BY <1>1, <1>2, <2>1, ShipKeeps
  <2> QED
    BY <2>2 DEF Kept
<1>4. dispatcher' = dispatcher
  OBVIOUS
<1>5. net'["client"] = to_client' /\ net'["server"] = to_server'
  BY DEF net
<1>6. d.state \notin {"absent", "pre_validation"}
  BY DEF Handled
<1>7. CASE side = "client"
  <2>1. o = conn["server"] /\ conn'["server"] = o
    BY <1>1, <1>3, <1>7, PeerIs
  <2>2. /\ Half(conn'["client"], o, "client", to_server', dispatcher)
        /\ Half(o, conn'["client"], "server", to_client', dispatcher)
    BY <1>3, <1>5, <1>7, PeerIs
  <2>3. RetryInv'
    <3>1. /\ conn["client"].retry \in 0 .. dispatcher.retries
          /\ conn["client"].retry # 0 => dispatcher.retry_enabled
          /\ o.state # "absent" /\ dispatcher.retry_enabled => conn["client"].retry # 0
          /\ o.state = "absent" => Untouched(o) /\ ~o.validated /\ ~o.failed
          /\ o.state # "pre_validation"
      BY <2>1 DEF RetryInv, Whole, Sides
    <3>2. \/ d.retry = conn["client"].retry
          \/ d.retry \in 1 .. dispatcher.retries /\ dispatcher.retry_enabled
      BY <1>7
    <3>3. dispatcher.retries \in Nat
      BY <1>2
    <3>4. d.retry \in 0 .. dispatcher.retries /\ (d.retry # 0 => dispatcher.retry_enabled)
      BY <3>1, <3>2, <3>3
    <3>5. conn["client"].retry # 0 => d.retry # 0
      BY <3>2
    <3>6. conn'["client"].retry = d.retry /\ conn'["client"].state # "pre_validation"
      BY <1>3, <1>6, <1>7
    <3> QED
      BY <1>4, <2>1, <3>1, <3>4, <3>5, <3>6 DEF RetryInv, Sides
  <2> QED
    BY <1>1, <1>2, <1>3, <1>4, <2>1, <2>2, <2>3 DEF Whole, WholeKept
<1>8. CASE side = "server"
  <2>1. o = conn["client"] /\ conn'["client"] = o
    BY <1>1, <1>3, <1>8, PeerIs
  <2>2. /\ Half(conn'["server"], o, "server", to_client', dispatcher)
        /\ Half(o, conn'["server"], "client", to_server', dispatcher)
    BY <1>3, <1>5, <1>8, PeerIs
  <2>3. RetryInv'
    <3>1. /\ o.retry \in 0 .. dispatcher.retries
          /\ o.retry # 0 => dispatcher.retry_enabled
          /\ conn["server"].state # "absent" /\ dispatcher.retry_enabled => o.retry # 0
          /\ o.state # "pre_validation"
      BY <2>1 DEF RetryInv, Whole, Sides
    <3>2. dispatcher.retry_enabled => o.retry # 0
      BY <1>8, <2>1, <3>1
    <3>3. conn'["server"].state \notin {"absent", "pre_validation"}
      BY <1>3, <1>6, <1>8
    <3> QED
      BY <1>4, <2>1, <3>1, <3>2, <3>3 DEF RetryInv, Sides
  <2> QED
    BY <1>1, <1>2, <1>3, <1>4, <2>1, <2>2, <2>3 DEF Whole, WholeKept
<1> QED
  BY <1>1, <1>3, <1>7, <1>8 DEF Sides

LEMMA StartClientKeeps == Whole /\ StartClient => Whole' /\ Fresh /\ Proven
<1> SUFFICES ASSUME Whole, StartClient PROVE Whole' /\ Fresh /\ Proven
  OBVIOUS
<1>1. PICK c : c = conn["client"]
  OBVIOUS
<1>2. PICK o : o = conn[Peer("client")]
  OBVIOUS
<1>3. /\ Half(c, o, "client", net[Peer("client")], dispatcher)
      /\ Half(o, c, Peer("client"), net["client"], dispatcher)
      /\ c \in Conn /\ o \in Conn /\ net \in [Sides -> Seq(Datagram)]
  BY <1>1, <1>2, WholeGives DEF Sides
<1>4. PICK d : d = Flush(StartTls(c, "client"), "client")
  OBVIOUS
<1>5. Handled(c, d, o, "client") /\ d.retry = c.retry
  <2>1. /\ ConnOK(c, "client") /\ PeerOK(c, o, "client") /\ Settled(c, "client")
        /\ c.out = <<>>
    BY <1>3 DEF Half
  <2> QED
    BY <1>3, <1>4, <2>1, StartHandles
<1>6. Ship("client", d, net) /\ UNCHANGED dispatcher /\ faults' \in Faults
  BY <1>1, <1>4 DEF StartClient, Whole
<1>7. Remaining(net)
  BY <1>3, NetRest
<1>8. WholeKept(c, "client")
  BY <1>1, <1>2, <1>3, <1>5, <1>6, <1>7, ShipWhole DEF Sides
<1> QED
  BY <1>8, PeerIs DEF WholeKept, Proven

\* (A poll that sends nothing changes nothing: StutterKeeps.)
LEMMA PollKeeps ==
  ASSUME Whole, NEW side \in Sides, Poll(side), ~UNCHANGED vars
  PROVE  Whole' /\ Fresh /\ Proven
<1>1. PICK c : c = conn[side]
  OBVIOUS
<1>2. PICK o : o = conn[Peer(side)]
  OBVIOUS
<1>3. /\ Half(c, o, side, net[Peer(side)], dispatcher)
      /\ Half(o, c, Peer(side), net[side], dispatcher)
      /\ c \in Conn /\ o \in Conn /\ net \in [Sides -> Seq(Datagram)]
  BY <1>1, <1>2, WholeGives
<1>4. PICK d : d = Flush(c, side)
  OBVIOUS
<1>5. c.state \notin {"absent", "pre_validation"}
  BY <1>1 DEF Poll, Whole, RetryInv
<1>6. Handled(c, d, o, side) /\ d.retry = c.retry
  <2>1. ConnOK(c, side) /\ PeerOK(c, o, side) /\ Settled(c, side) /\ c.out = <<>>
    BY <1>3 DEF Half
  <2> QED
    BY <1>3, <1>4, <1>5, <2>1, PollHandles
<1>7. Ship(side, d, net) /\ UNCHANGED dispatcher /\ faults' \in Faults
  BY <1>1, <1>4 DEF Poll, Whole
<1>8. Remaining(net)
  BY <1>3, NetRest
<1>9. side = "server" => conn["server"].state # "absent"
  BY <1>1, <1>5
<1>10. WholeKept(c, side)
  BY <1>1, <1>2, <1>3, <1>6, <1>7, <1>8, <1>9, ShipWhole
<1>11. Proven
  <2>1. CASE side = "client"
    BY <1>10, <2>1, PeerIs DEF WholeKept, Proven
  <2>2. CASE side = "server"
    BY <1>1, <1>10, <2>2, PeerIs DEF WholeKept, Proven, Evolves
  <2> QED
    BY <2>1, <2>2 DEF Sides
<1> QED
  BY <1>10, <1>11 DEF WholeKept

\* What a side may find in a datagram.
LEMMA DatagramIs ==
  ASSUME Whole, NEW side \in Sides, NEW i \in DOMAIN net[side]
  PROVE  /\ net[side][i].packets \in Seq(Packet) /\ net[side][i].packets # <<>>
         /\ net[side][i].size \in Nat /\ i \in Nat
         /\ \A j \in DOMAIN net[side][i].packets :
              LET p == net[side][i].packets[j]
              IN  /\ Incoming(p, conn[side], conn[Peer(side)], side)
                  /\ p.type = "retry" => side = "client" /\ IsRetry(p, dispatcher)
<1>1. PICK c : c = conn[side]
  OBVIOUS
<1>2. PICK o : o = conn[Peer(side)]
  OBVIOUS
<1>3. Half(o, c, Peer(side), net[side], dispatcher) /\ net \in [Sides -> Seq(Datagram)]
  BY <1>1, <1>2, WholeGives
<1>4. net[side][i] \in Datagram /\ net[side][i].packets # <<>> /\ i \in Nat
  BY <1>3 DEF Half
<1>5. net[side][i].packets \in Seq(Packet) /\ net[side][i].size \in Nat
  BY <1>4 DEF Datagram
<1>6. ASSUME NEW j \in DOMAIN net[side][i].packets, NEW p, p = net[side][i].packets[j]
      PROVE  Incoming(p, c, o, side) /\ (p.type = "retry" => side = "client" /\ IsRetry(p, dispatcher))
  <2>1. p \in Carried(net[side])
    BY <1>6 DEF Carried
  <2>2. PacketOK(p, o, c, Peer(side)) \/ (Peer(side) = "server" /\ IsRetry(p, dispatcher))
    BY <1>3, <2>1 DEF Half
  <2>3. CASE PacketOK(p, o, c, Peer(side))
    BY <2>3 DEF Incoming, PacketOK, Spaces
  <2>4. CASE Peer(side) = "server" /\ IsRetry(p, dispatcher)
    <3>1. side = "client"
      BY <2>4, PeerIs DEF Sides
    <3>2. o = conn["server"] /\ c = conn["client"]
      BY <1>1, <1>2, <2>4, <3>1
    <3>3. c.retry = 0 => o.state = "absent" /\ Untouched(o)
      BY <2>4, <3>2 DEF Whole, RetryInv, IsRetry
    <3>4. p.cid # 0 /\ p.token = p.cid /\ p \in Packet /\ p.type = "retry"
      <4>1. p.cid \in 1 .. dispatcher.retries /\ dispatcher.retries \in Nat
        BY <2>4 DEF IsRetry, Whole
      <4> QED
        BY <2>4, <4>1 DEF IsRetry
    <3> QED
      BY <2>4, <3>1, <3>3, <3>4 DEF Incoming
  <2> QED
    BY <2>2, <2>3, <2>4
<1> QED
  BY <1>1, <1>2, <1>4, <1>5, <1>6

LEMMA ReceiveKeeps ==
  ASSUME Whole, NEW side \in Sides, NEW i \in DOMAIN net[side], NEW keep \in BOOLEAN,
         Receive(side, i, keep)
  PROVE  Whole' /\ Fresh /\ Proven
<1>1. PICK c : c = conn[side]
  OBVIOUS
<1>2. PICK o : o = conn[Peer(side)]
  OBVIOUS
<1>3. /\ Half(c, o, side, net[Peer(side)], dispatcher)
      /\ Half(o, c, Peer(side), net[side], dispatcher)
      /\ c \in Conn /\ o \in Conn /\ net \in [Sides -> Seq(Datagram)]
  BY <1>1, <1>2, WholeGives
<1>4. PICK packets \in Seq(Packet) : packets = net[side][i].packets
  BY DatagramIs
<1>5. PICK size \in Nat : size = net[side][i].size
  BY DatagramIs
<1>6. /\ packets # <<>> /\ i \in Nat
      /\ \A j \in DOMAIN packets :
           /\ Incoming(packets[j], c, o, side)
           /\ packets[j].type = "retry" => side = "client" /\ IsRetry(packets[j], dispatcher)
  BY <1>1, <1>2, <1>4, DatagramIs
<1>7. c.state \notin {"absent", "pre_validation"} /\ ~c.failed
  BY <1>1 DEF Receive, Whole, RetryInv
<1>8. PICK d : d = ReceiveDatagram(c, side, packets, size)
  OBVIOUS
<1>9. /\ Handled(c, d, o, side)
      /\ side = "client" =>
           \/ d.retry = c.retry
           \/ \E j \in DOMAIN packets : packets[j].type = "retry" /\ d.retry = packets[j].cid
  <2>1. ConnOK(c, side) /\ PeerOK(c, o, side) /\ Settled(c, side) /\ c.out = <<>>
    BY <1>3 DEF Half
  <2>2. \A j \in DOMAIN packets : Incoming(packets[j], c, o, side)
    BY <1>6
  <2> QED
    BY <1>3, <1>6, <1>7, <1>8, <2>1, <2>2, ReceiveHandles
<1>10. side = "client" => \/ d.retry = c.retry
                          \/ d.retry \in 1 .. dispatcher.retries /\ dispatcher.retry_enabled
  BY <1>6, <1>9 DEF IsRetry
<1>11. /\ Ship(side, d, Left(side, i, keep)) /\ UNCHANGED dispatcher
       /\ Arrives(side, i, keep)
  BY <1>1, <1>4, <1>5, <1>8 DEF Receive
<1>12. faults' \in Faults
  BY <1>6, <1>11, ArrivesFaults DEF Whole
<1>13. Remaining(Left(side, i, keep))
  BY <1>3, LeftRest
<1>14. side = "server" => conn["server"].state # "absent"
  BY <1>1, <1>7
<1>15. WholeKept(c, side)
  BY <1>1, <1>2, <1>3, <1>9, <1>10, <1>11, <1>12, <1>13, <1>14, ShipWhole
<1>16. Proven
  <2>1. CASE side = "client"
    BY <1>15, <2>1, PeerIs DEF WholeKept, Proven
  <2>2. CASE side = "server"
    BY <1>1, <1>15, <2>2, PeerIs DEF WholeKept, Proven, Evolves
  <2> QED
    BY <2>1, <2>2 DEF Sides
<1> QED
  BY <1>15, <1>16 DEF WholeKept

\* The first Initial that the dispatcher lets through: the connection b it creates,
\* what that reads, and what it leaves.
Created(b, validated, packets, size, i, keep) ==
  LET o == conn["client"]
  IN  /\ packets = net["server"][i].packets /\ packets # <<>>
      /\ packets[1].type = "initial" /\ packets[1].cid = o.retry /\ packets[1].token = o.retry
      /\ dispatcher.retry_enabled => o.retry # 0
      /\ validated = (packets[1].token # 0)
      /\ b = [conn["server"] EXCEPT !.state = "pre_validation", !.validated = validated]
      /\ Half(b, o, "server", net["client"], dispatcher)
      /\ Half(o, b, "client", net["server"], dispatcher)
      /\ \A j \in DOMAIN packets : Incoming(packets[j], b, o, "server")
      /\ Handled(b, ReceiveDatagram(b, "server", packets, size), o, "server")
      /\ Ship("server", ReceiveDatagram(b, "server", packets, size), Left("server", i, keep))

LEMMA CreateConnHandles ==
  ASSUME Whole, NEW i \in DOMAIN net["server"], NEW keep \in BOOLEAN, CreateConn(i, keep)
  PROVE  \E b \in Conn, validated \in BOOLEAN, packets \in Seq(Packet), size \in Nat :
           Created(b, validated, packets, size, i, keep)
<1>1. PICK c : c = conn["server"]
  OBVIOUS
<1>2. PICK o : o = conn["client"]
  OBVIOUS
<1>3. /\ Half(c, o, "server", net["client"], dispatcher)
      /\ Half(o, c, "client", net["server"], dispatcher)
      /\ c \in Conn /\ o \in Conn /\ net \in [Sides -> Seq(Datagram)]
  BY <1>1, <1>2, WholeGives, PeerIs DEF Sides
<1>4. PICK packets \in Seq(Packet) : packets = net["server"][i].packets
  BY DatagramIs DEF Sides
<1>5. PICK size \in Nat : size = net["server"][i].size
  BY DatagramIs DEF Sides
<1>6. /\ packets # <<>> /\ i \in Nat
      /\ \A j \in DOMAIN packets : /\ Incoming(packets[j], c, o, "server")
                                   /\ packets[j].type # "retry"
  BY <1>1, <1>2, <1>4, DatagramIs, PeerIs DEF Sides
<1>7. PICK validated \in BOOLEAN : validated = (packets[1].token # 0)
  OBVIOUS
<1>8. PICK b : b = [c EXCEPT !.state = "pre_validation", !.validated = validated]
  OBVIOUS
<1>9. c \in Conn
  BY <1>3
<1>10. /\ b \in Conn /\ b.state = "pre_validation" /\ b.received = c.received
       /\ b.next_pn = c.next_pn /\ b.tx = c.tx /\ b.rx = c.rx /\ b.events = c.events
       /\ b.tls_complete = c.tls_complete /\ b.completed = c.completed
       /\ b.confirmed = c.confirmed /\ b.can_send = c.can_send /\ b.done_due = c.done_due
       /\ b.validated = validated /\ b.retry = c.retry /\ b.token = c.token
       /\ b.asked = c.asked /\ b.bytes_sent = c.bytes_sent
       /\ b.bytes_received = c.bytes_received /\ b.out = c.out /\ b.failed = c.failed
  BY ONLY ZenonT(60), <1>8, <1>9, validated \in BOOLEAN DEF Conn, States
<1>11. /\ c.state = "absent" /\ packets[1].type = "initial"
       /\ ~WantsRetry(net["server"][i]) /\ ~BadToken(net["server"][i])
       /\ Arrives("server", i, keep) /\ UNCHANGED dispatcher
  BY <1>1, <1>4 DEF CreateConn
<1>12. /\ ConnOK(c, "server") /\ PeerOK(c, o, "server") /\ Settled(c, "server")
       /\ c.out = <<>> /\ ~c.validated /\ ~c.failed
  <2>1. Untouched(c) /\ ~c.validated /\ ~c.failed
    BY <1>1, <1>11 DEF Whole, RetryInv
  <2> QED
    BY <1>3, <2>1 DEF Half
<1>13. /\ ConnOK(b, "server") /\ PeerOK(b, o, "server") /\ Settled(b, "server")
       /\ b.out = <<>> /\ ~b.failed
  <2>1. Queued(b) = Queued(c)
    BY <1>10 DEF Queued
  <2>2. ConnOK(b, "server")
    BY <1>10, <1>12, <2>1 DEF ConnOK, TicketsOut
  <2>3. PeerOK(b, o, "server")
    BY <1>10, <1>12 DEF PeerOK
  <2> QED
    BY <1>10, <1>12, <2>2, <2>3 DEF Settled
<1>14. Half(b, o, "server", net["client"], dispatcher)
  <2>1. \A p \in Carried(net["client"]) : ~PacketOK(p, c, o, "server")
    BY <1>11 DEF PacketOK
  <2>2. \A p \in Carried(net["client"]) : IsRetry(p, dispatcher)
    BY <1>3, <2>1 DEF Half
  <2> QED
    BY <1>3, <1>10, <1>13, <2>2 DEF Half
<1>15. ASSUME NEW p, PacketOK(p, o, c, "client")
       PROVE  PacketOK(p, o, b, "client")
  BY <1>10, <1>15 DEF PacketOK, Acknowledges, Numbered, TicketsOut
<1>16. Half(o, b, "client", net["server"], dispatcher)
  <2>1. PeerOK(o, b, "client")
    BY <1>3, <1>10, <1>11 DEF Half, PeerOK, Numbered, Written, TicketsOut
  <2> QED
    BY <1>3, <1>15, <2>1 DEF Half
<1>17. packets[1].cid = o.retry /\ packets[1].token = o.retry
       /\ (dispatcher.retry_enabled => o.retry # 0)
  <2>1. 1 \in DOMAIN packets
    BY <1>6
  <2>2. PacketOK(packets[1], o, c, "client")
    BY <1>6, <2>1, PeerIs DEF Incoming
  <2>3. packets[1].token = packets[1].cid /\ packets[1].cid \in {0, o.retry}
    BY <1>11, <2>2 DEF PacketOK
  <2>4. CASE dispatcher.retry_enabled
    <3>1. packets[1].token # 0
      BY <1>4, <1>11, <2>4 DEF WantsRetry
    <3> QED
      BY <2>3, <3>1
  <2>5. CASE ~dispatcher.retry_enabled
    <3>1. o.retry = 0
      BY <1>2, <2>5 DEF Whole, RetryInv
    <3> QED
      BY <2>3, <2>5, <3>1
  <2> QED
    BY <2>4, <2>5
<1>18. PICK d : d = ReceiveDatagram(b, "server", packets, size)
  OBVIOUS
<1>19. \A j \in DOMAIN packets : Incoming(packets[j], b, o, "server")
  <2> SUFFICES ASSUME NEW j \in DOMAIN packets PROVE Incoming(packets[j], b, o, "server")
    OBVIOUS
  <2>1. PacketOK(packets[j], o, c, "client")
    BY <1>6, PeerIs DEF Incoming
  <2> QED
    BY <1>15, <2>1, PeerIs DEF Incoming
<1>20. Handled(b, d, o, "server")
  <2>1. b.state # "absent" /\ ~b.failed
    BY <1>10, <1>13
  <2>2. b.state = "pre_validation" =>
          "server" = "server" /\ packets[1].type = "initial" /\ packets[1].cid = o.retry
    BY <1>11, <1>17
  <2>3. b \in Conn /\ "server" \in Sides
    BY <1>10 DEF Sides
  <2> QED
    BY <1>3, <1>6, <1>13, <1>18, <1>19, <2>1, <2>2, <2>3, ReceiveHandles
<1>21. Ship("server", d, Left("server", i, keep))
  <2>1. b = [conn["server"] EXCEPT !.state = "pre_validation",
                                   !.validated = net["server"][i].packets[1].token # 0]
    BY <1>1, <1>4, <1>7, <1>8
  <2> QED
    BY <1>4, <1>5, <1>18, <2>1 DEF CreateConn
<1>22. Created(b, validated, packets, size, i, keep)
  BY <1>1, <1>2, <1>4, <1>6, <1>7, <1>8, <1>11, <1>14, <1>16, <1>17, <1>18, <1>19, <1>20,
     <1>21 DEF Created
<1> QED
  BY <1>10, <1>22

LEMMA CreateConnKeeps ==
  ASSUME Whole, NEW i \in DOMAIN net["server"], NEW keep \in BOOLEAN, CreateConn(i, keep)
  PROVE  Whole' /\ Fresh /\ Proven
<1>1. PICK c : c = conn["server"]
  OBVIOUS
<1>2. PICK o : o = conn["client"]
  OBVIOUS
<1>3. c \in Conn /\ o \in Conn /\ net \in [Sides -> Seq(Datagram)] /\ i \in Nat
  BY <1>1, <1>2, WholeGives, DatagramIs, PeerIs DEF Sides
<1>4. PICK b \in Conn, validated \in BOOLEAN, packets \in Seq(Packet), size \in Nat :
        Created(b, validated, packets, size, i, keep)
  BY CreateConnHandles
<1>5. PICK d : d = ReceiveDatagram(b, "server", packets, size)
  OBVIOUS
<1>6. /\ packets = net["server"][i].packets
      /\ packets[1].type = "initial" /\ packets[1].token = o.retry
      /\ dispatcher.retry_enabled => o.retry # 0
      /\ validated = (packets[1].token # 0)
      /\ b = [c EXCEPT !.state = "pre_validation", !.validated = validated]
      /\ Half(b, o, "server", net["client"], dispatcher)
      /\ Half(o, b, "client", net["server"], dispatcher)
      /\ Handled(b, d, o, "server") /\ Ship("server", d, Left("server", i, keep))
  BY <1>1, <1>2, <1>4, <1>5 DEF Created
<1>7. b.next_pn = c.next_pn /\ b.retry = c.retry /\ b.validated = validated
  BY ONLY ZenonT(60), <1>3, <1>6, validated \in BOOLEAN DEF Conn, States
<1>8. /\ Arrives("server", i, keep) /\ UNCHANGED dispatcher
      /\ ~BadToken(net["server"][i])
  BY DEF CreateConn
<1>9. faults' \in Faults
  BY <1>3, <1>8, ArrivesFaults DEF Whole
<1>10. Remaining(Left("server", i, keep))
  BY <1>3, LeftRest DEF Sides
<1>11. WholeKept(b, "server")
  <2>1. /\ Half(b, conn[Peer("server")], "server", net[Peer("server")], dispatcher)
        /\ Half(conn[Peer("server")], b, Peer("server"), net["server"], dispatcher)
        /\ Handled(b, d, conn[Peer("server")], "server")
    BY <1>2, <1>6, PeerIs
  <2>2. b.next_pn = conn["server"].next_pn /\ b.retry = conn["server"].retry
    BY <1>1, <1>7
  <2>3. dispatcher.retry_enabled => conn["client"].retry # 0
    BY <1>2, <1>6
  <2>4. "server" \in Sides /\ "server" # "client"
    BY DEF Sides
  <2> QED
    BY <1>6, <1>8, <1>9, <1>10, <2>1, <2>2, <2>3, <2>4, ShipWhole
<1>12. Proven
  <2> SUFFICES ASSUME conn'["server"].validated, ~(o.rx["handshake"] >= 1)
               PROVE  o.token \in dispatcher.expired + 1 .. dispatcher.retries
    BY <1>2 DEF Proven
  <2>1. b.validated \/ o.rx["handshake"] >= 1
    BY <1>2, <1>11, PeerIs DEF WholeKept, Evolves
  <2>2. packets[1].token # 0
    BY <1>6, <1>7, <2>1
  <2>3. dispatcher.retry_enabled
    BY <1>2, <1>6, <2>2 DEF Whole, RetryInv
  <2>4. ~(packets[1].token <= dispatcher.expired)
    BY <1>6, <1>8, <2>2, <2>3 DEF BadToken
  <2>5. o.token = o.retry
    BY <1>6 DEF Half, ConnOK
  <2>6. /\ o.retry \in 0 .. dispatcher.retries /\ dispatcher.retries \in Nat
        /\ dispatcher.expired \in Nat
    BY <1>2 DEF Whole, RetryInv
  <2> QED
    BY <1>6, <2>4, <2>5, <2>6
<1> QED
  BY <1>11, <1>12 DEF WholeKept

(***************************************************************************)
(* The steps without a handler                                             *)
(***************************************************************************)
LEMMA HalfLess ==
  ASSUME NEW c, NEW o, NEW side, NEW sent, NEW disp, Half(c, o, side, sent, disp),
         NEW left \in Seq(Datagram), Among(left, sent),
         NEW then, then.retry_enabled = disp.retry_enabled,
         disp.retries \in Nat, then.retries \in Nat, disp.retries <= then.retries
  PROVE  Half(c, o, side, left, then)
<1>1. \A i \in DOMAIN left : left[i].packets # <<>>
  BY DEF Among, Half
<1>2. Carried(left) \subseteq Carried(sent)
  BY AmongCarried
<1>3. \A p : IsRetry(p, disp) => IsRetry(p, then)
  BY DEF IsRetry
<1>4. \A p \in Carried(left) : PacketOK(p, c, o, side) \/ (side = "server" /\ IsRetry(p, then))
  BY <1>2, <1>3 DEF Half
<1> QED
  BY <1>1, <1>4 DEF Half

\* Datagrams go, the dispatcher builds a Retry or a token gets too old.
LEMMA RestKeeps ==
  ASSUME Whole, NEW left, Remaining(left), UNCHANGED conn, faults' \in Faults,
         dispatcher' \in [retry_enabled : RetryModes, retries : Nat, expired : Nat],
         dispatcher'.retry_enabled = dispatcher.retry_enabled,
         dispatcher.retries <= dispatcher'.retries
  PROVE  /\ Half(conn'["client"], conn'["server"], "client", left["server"], dispatcher')
         /\ Half(conn'["server"], conn'["client"], "server", left["client"], dispatcher')
         /\ RetryInv' /\ conn' \in [Sides -> Conn] /\ Proven
<1>1. dispatcher.retries \in Nat /\ dispatcher'.retries \in Nat
  BY DEF Whole
<1>2. /\ left["client"] \in Seq(Datagram) /\ Among(left["client"], to_client)
      /\ left["server"] \in Seq(Datagram) /\ Among(left["server"], to_server)
  BY NetIs DEF Remaining, Sides
<1>3. conn' = conn
  OBVIOUS
<1>4. Half(conn["client"], conn["server"], "client", left["server"], dispatcher')
  BY <1>1, <1>2, HalfLess DEF Whole
<1>5. Half(conn["server"], conn["client"], "server", left["client"], dispatcher')
  BY <1>1, <1>2, HalfLess DEF Whole
<1>6. RetryInv'
  <2>1. conn["client"].retry \in 0 .. dispatcher'.retries
    BY <1>1 DEF Whole, RetryInv
  <2> QED
    BY <1>3, <2>1 DEF Whole, RetryInv
<1> QED
  BY <1>3, <1>4, <1>5, <1>6 DEF Whole, Proven

LEMMA LessKeeps ==
  ASSUME Whole, NEW left, Remaining(left), UNCHANGED conn, faults' \in Faults, NetBecomes(left),
         dispatcher' \in [retry_enabled : RetryModes, retries : Nat, expired : Nat],
         dispatcher'.retry_enabled = dispatcher.retry_enabled,
         dispatcher.retries <= dispatcher'.retries
  PROVE  Whole' /\ Fresh /\ Proven
<1>1. /\ Half(conn'["client"], conn'["server"], "client", left["server"], dispatcher')
      /\ Half(conn'["server"], conn'["client"], "server", left["client"], dispatcher')
      /\ RetryInv' /\ conn' \in [Sides -> Conn] /\ Proven
  BY RestKeeps
<1>2. to_client' = left["client"] /\ to_server' = left["server"]
  BY DEF NetBecomes
<1>3. Whole'
  BY <1>1, <1>2 DEF Whole
<1>4. \A x \in Sides : Carried(net'[x]) \subseteq Carried(net[x])
  <2>1. \A x \in Sides : net'[x] = left[x]
    BY NetBecomesIs DEF Sides
  <2> QED
    BY <2>1, AmongCarried DEF Remaining
<1>5. Fresh
  <2>1. \A x \in Sides : Peer(x) \in Sides
    BY PeerIs DEF Sides
  <2> QED
    BY <1>4, <2>1, NewPacketsAre DEF Fresh
<1> QED
  BY <1>1, <1>3, <1>5

LEMMA DropBadTokenKeeps ==
  ASSUME Whole, NEW i \in DOMAIN net["server"], NEW keep \in BOOLEAN, DropBadToken(i, keep)
  PROVE  Whole' /\ Fresh /\ Proven
<1>1. net \in [Sides -> Seq(Datagram)] /\ i \in Nat /\ "server" \in Sides
  BY WholeGives, DatagramIs DEF Sides
<1>2. /\ UNCHANGED conn /\ UNCHANGED dispatcher /\ Arrives("server", i, keep)
      /\ NetBecomes(Left("server", i, keep))
  BY DEF DropBadToken
<1>3. faults' \in Faults
  BY <1>1, <1>2, ArrivesFaults DEF Whole
<1>4. Remaining(Left("server", i, keep))
  BY <1>1, LeftRest
<1>5. /\ dispatcher' \in [retry_enabled : RetryModes, retries : Nat, expired : Nat]
      /\ dispatcher'.retry_enabled = dispatcher.retry_enabled
      /\ dispatcher.retries <= dispatcher'.retries
  BY <1>2 DEF Whole
<1> QED
  BY <1>2, <1>3, <1>4, <1>5, LessKeeps

LEMMA LoseKeeps ==
  ASSUME Whole, NEW side \in Sides, NEW i \in DOMAIN net[side], Lose(side, i)
  PROVE  Whole' /\ Fresh /\ Proven
<1>1. net \in [Sides -> Seq(Datagram)]
  BY WholeGives
<1>2. PICK left : left = [net EXCEPT ![side] = RemoveAt(@, i)]
  OBVIOUS
<1>3. UNCHANGED conn /\ UNCHANGED dispatcher /\ NetBecomes(left)
  BY <1>2 DEF Lose
<1>4. faults' \in Faults
  <2>1. /\ faults.drop \in 0 .. MaxDrop /\ faults.dup \in 0 .. MaxDup
        /\ faults.reorder \in 0 .. MaxReorder /\ MaxDrop \in Nat
    BY HandshakeAssumption DEF Whole, Faults
  <2>2. faults.drop + 1 \in 0 .. MaxDrop /\ faults' = [faults EXCEPT !.drop = faults.drop + 1]
    BY <2>1 DEF Lose
  <2> QED
    BY <2>1, <2>2 DEF Whole, Faults
<1>5. Remaining(left)
  BY <1>1, <1>2, RemovedRest
<1>6. /\ dispatcher' \in [retry_enabled : RetryModes, retries : Nat, expired : Nat]
      /\ dispatcher'.retry_enabled = dispatcher.retry_enabled
      /\ dispatcher.retries <= dispatcher'.retries
  BY <1>3 DEF Whole
<1> QED
  BY <1>3, <1>4, <1>5, <1>6, LessKeeps

LEMMA ExpireKeeps == Whole /\ Expire => Whole' /\ Fresh /\ Proven
<1> SUFFICES ASSUME Whole, Expire PROVE Whole' /\ Fresh /\ Proven
  OBVIOUS
<1>1. net \in [Sides -> Seq(Datagram)]
  BY WholeGives DEF Sides
<1>2. UNCHANGED conn /\ NetBecomes(net) /\ faults' \in Faults
  BY NetIs DEF Expire, NetBecomes, Whole
<1>3. Remaining(net)
  BY <1>1, NetRest
<1>4. /\ dispatcher' \in [retry_enabled : RetryModes, retries : Nat, expired : Nat]
      /\ dispatcher'.retry_enabled = dispatcher.retry_enabled
      /\ dispatcher.retries <= dispatcher'.retries
  BY DEF Expire, Whole
<1> QED
  BY <1>2, <1>3, <1>4, LessKeeps

\* A datagram of one packet joins the network.
Joined(next, sent, p) == Carried(next) \subseteq Carried(sent) \cup {p}

LEMMA AppendJoins ==
  ASSUME NEW sent \in Seq(Datagram), NEW p, NEW g \in Datagram, g.packets = <<p>>,
         NEW next, next = Append(sent, g)
  PROVE  Joined(next, sent, p)
<1> SUFFICES ASSUME NEW i \in DOMAIN next, NEW j \in DOMAIN next[i].packets
             PROVE  next[i].packets[j] \in Carried(sent) \cup {p}
  BY DEF Carried, Joined
<1>1. \/ i \in DOMAIN sent /\ next[i] = sent[i]
      \/ next[i] = g
  OBVIOUS
<1> QED
  BY <1>1 DEF Carried

LEMMA HalfAppend ==
  ASSUME NEW c, NEW o, NEW sent, NEW disp, Half(c, o, "server", sent, disp),
         NEW p, IsRetry(p, disp), NEW g, g = [packets |-> <<p>>, size |-> 1],
         NEW next, next = Append(sent, g)
  PROVE  Half(c, o, "server", next, disp) /\ Joined(next, sent, p)
<1>1. p \in Packet /\ sent \in Seq(Datagram)
  BY DEF IsRetry, Half
<1>2. g \in Datagram /\ g.packets = <<p>>
  BY <1>1 DEF Datagram
<1>3. next \in Seq(Datagram)
  BY <1>1, <1>2
<1>4. \A i \in DOMAIN next : next[i].packets # <<>>
  <2>1. \A i \in DOMAIN next : (i \in DOMAIN sent /\ next[i] = sent[i]) \/ next[i] = g
    BY <1>1, <1>2
  <2> QED
    BY <1>2, <2>1 DEF Half
<1>5. Joined(next, sent, p)
  BY <1>1, <1>2, AppendJoins
<1> QED
  BY <1>3, <1>4, <1>5 DEF Half, Joined

LEMMA SendRetryKeeps ==
  ASSUME Whole, NEW i \in DOMAIN net["server"], NEW keep \in BOOLEAN, SendRetry(i, keep)
  PROVE  Whole' /\ Fresh /\ Proven
<1>1. net \in [Sides -> Seq(Datagram)] /\ i \in Nat /\ "server" \in Sides
  BY WholeGives, DatagramIs DEF Sides
<1>2. PICK left : left = Left("server", i, keep)
  OBVIOUS
<1>3. PICK packets \in Seq(Packet) : packets = net["server"][i].packets /\ packets # <<>>
  BY <1>1, DatagramIs
<1>4. PICK p : p = RetryPacket(dispatcher.retries + 1, packets[1].version)
  OBVIOUS
<1>5. PICK g : g = [packets |-> <<p>>, size |-> 1]
  OBVIOUS
<1>6. PICK next : next = Append(left["client"], g)
  OBVIOUS
<1>7. /\ UNCHANGED conn /\ Arrives("server", i, keep) /\ WantsRetry(net["server"][i])
      /\ dispatcher' = [dispatcher EXCEPT !.retries = dispatcher.retries + 1]
      /\ NetBecomes([left EXCEPT !["client"] = next])
  BY <1>2, <1>3, <1>4, <1>5, <1>6 DEF SendRetry
<1>8. faults' \in Faults
  BY <1>1, <1>7, ArrivesFaults DEF Whole
<1>9. Remaining(left)
  BY <1>1, <1>2, LeftRest
<1>10. dispatcher \in [retry_enabled : RetryModes, retries : Nat, expired : Nat]
  BY DEF Whole
<1>11. /\ dispatcher' \in [retry_enabled : RetryModes, retries : Nat, expired : Nat]
       /\ dispatcher'.retry_enabled = dispatcher.retry_enabled
       /\ dispatcher'.retries = dispatcher.retries + 1
       /\ dispatcher.retries <= dispatcher'.retries
  BY <1>7, <1>10
<1>12. /\ Half(conn'["client"], conn'["server"], "client", left["server"], dispatcher')
       /\ Half(conn'["server"], conn'["client"], "server", left["client"], dispatcher')
       /\ RetryInv' /\ conn' \in [Sides -> Conn] /\ Proven
  BY <1>7, <1>8, <1>9, <1>11, RestKeeps
<1>13. IsRetry(p, dispatcher')
  <2>1. packets[1].version \in Versions
    <3>1. packets[1] \in Packet
      BY <1>3
    <3> QED
      BY <3>1 DEF Packet
  <2>2. dispatcher.retries + 1 \in Nat /\ dispatcher.retries + 1 \in 1 .. dispatcher'.retries
    BY <1>10, <1>11
  <2>3. NoParams \in Params
    BY DEF NoParams, Params, Versions
  <2>4. p \in Packet
    BY <1>4, <2>1, <2>2, <2>3 DEF RetryPacket, Packet, Types
  <2>5. dispatcher'.retry_enabled
    BY <1>7, <1>11 DEF WantsRetry
  <2> QED
    BY <1>4, <2>2, <2>4, <2>5 DEF RetryPacket, IsRetry
<1>14. /\ Half(conn'["server"], conn'["client"], "server", next, dispatcher')
       /\ Carried(next) \subseteq Carried(left["client"]) \cup {p}
  <2>1. PICK c : c = conn'["server"]
    OBVIOUS
  <2>2. PICK o : o = conn'["client"]
    OBVIOUS
  <2>3. PICK disp : disp = dispatcher'
    OBVIOUS
  <2>4. PICK sent : sent = left["client"]
    OBVIOUS
  <2>5. Half(c, o, "server", sent, disp) /\ IsRetry(p, disp) /\ next = Append(sent, g)
    BY <1>6, <1>12, <1>13, <2>1, <2>2, <2>3, <2>4
  <2>6. Half(c, o, "server", next, disp) /\ Joined(next, sent, p)
    BY <1>5, <2>5, HalfAppend
  <2> QED
    BY <2>1, <2>2, <2>3, <2>4, <2>6 DEF Joined
<1>15. to_client' = next /\ to_server' = left["server"]
  BY <1>7, <1>9 DEF NetBecomes, Remaining, Sides
<1>16. Whole'
  BY <1>8, <1>11, <1>12, <1>14, <1>15 DEF Whole
<1>17. Fresh
  <2> SUFFICES ASSUME NEW x \in Sides, NEW q \in NewPackets(x), q.type # "retry" PROVE FALSE
    BY DEF Fresh
  <2>1. q \in Carried(net'[Peer(x)]) /\ q \notin Carried(net[Peer(x)])
    BY NewPacketsAre
  <2>2. net'["client"] = next /\ net'["server"] = left["server"]
    BY <1>15, NetBecomesIs DEF net
  <2>3. p.type = "retry"
    BY <1>13 DEF IsRetry
  <2>4. /\ Carried(left["client"]) \subseteq Carried(net["client"])
        /\ Carried(left["server"]) \subseteq Carried(net["server"])
    BY <1>9, AmongCarried DEF Remaining, Sides
  <2> QED
    BY <1>14, <2>1, <2>2, <2>3, <2>4, PeerIs DEF Sides
<1> QED
  BY <1>12, <1>16, <1>17

(***************************************************************************)
(* The invariant                                                           *)
(***************************************************************************)
LEMMA InitWhole == Init => Whole
<1> SUFFICES ASSUME Init PROVE Whole
  OBVIOUS
<1>1. PICK flight \in Flights, v2 \in V2Modes :
        conn = [side \in Sides |-> NewConn("absent", flight, side \in v2)]
  BY DEF Init
<1>2. /\ to_client = <<>> /\ to_server = <<>>
      /\ dispatcher \in [retry_enabled : RetryModes, retries : {0}, expired : {0}]
      /\ faults = [drop |-> 0, dup |-> 0, reorder |-> 0]
  BY DEF Init
<1>3. \A side \in Sides :
        LET c == conn[side]
        IN  /\ c \in Conn /\ c.state = "absent" /\ c.received = InSpaces({})
            /\ c.next_pn = InSpaces(0) /\ c.tx = InSpaces(0) /\ c.rx = InSpaces(0)
            /\ c.events = <<>> /\ ~c.tls_complete /\ ~c.completed /\ ~c.confirmed
            /\ ~c.can_send /\ ~c.done_due /\ ~c.validated /\ ~c.asked /\ ~c.failed
            /\ c.retry = 0 /\ c.token = 0 /\ c.bytes_sent = 0 /\ c.bytes_received = 0
            /\ c.out = <<>>
  <2> SUFFICES ASSUME NEW side \in Sides, NEW c, c = conn[side]
               PROVE  /\ c \in Conn /\ c.state = "absent" /\ c.received = InSpaces({})
                      /\ c.next_pn = InSpaces(0) /\ c.tx = InSpaces(0) /\ c.rx = InSpaces(0)
                      /\ c.events = <<>> /\ ~c.tls_complete /\ ~c.completed /\ ~c.confirmed
                      /\ ~c.can_send /\ ~c.done_due /\ ~c.validated /\ ~c.asked /\ ~c.failed
                      /\ c.retry = 0 /\ c.token = 0 /\ c.bytes_sent = 0
                      /\ c.bytes_received = 0 /\ c.out = <<>>
    OBVIOUS
  <2>1. PICK enabled \in BOOLEAN : enabled = (side \in v2)
    <3>1. (side \in v2) \in BOOLEAN
      BY SMT
    <3> QED
      BY <3>1, Zenon
  <2>2. PICK state \in States : state = "absent"
    BY DEF States
  <2>3. c = NewConn(state, flight, enabled)
    BY <1>1, <2>1, <2>2
  <2> QED
    BY <2>2, <2>3, NewConnIs
<1>4. ASSUME NEW side \in Sides, NEW c, c = conn[side]
      PROVE  /\ ConnOK(c, side) /\ Settled(c, side) /\ Alone(c) /\ Untouched(c)
             /\ \A sp \in Spaces : c.received[sp] = {} /\ c.rx[sp] = 0 /\ c.next_pn[sp] = 0
                                   /\ c.tx[sp] = 0
  <2>1. /\ c.events = <<>> /\ ~c.tls_complete /\ ~c.completed /\ ~c.confirmed
        /\ ~c.can_send /\ ~c.done_due /\ ~c.validated /\ ~c.asked /\ ~c.failed
        /\ c.retry = 0 /\ c.token = 0 /\ c.bytes_sent = 0 /\ c.bytes_received = 0
        /\ c.out = <<>>
    BY <1>3, <1>4
  <2>2. \A sp \in Spaces : /\ c.received[sp] = {} /\ c.rx[sp] = 0 /\ c.next_pn[sp] = 0
                           /\ c.tx[sp] = 0
    BY <1>3, <1>4 DEF InSpaces
  <2>3. Queued(c) = {} /\ Len(c.events) <= MaxEvents
    BY <2>1, TlsAssumption DEF Queued
  <2>4. ConnOK(c, side)
    BY <2>1, <2>3 DEF ConnOK
  <2>5. Settled(c, side) /\ Alone(c) /\ Untouched(c)
    BY <2>1, <2>2, <2>3 DEF Settled, Alone, Untouched, Spaces
  <2> QED
    BY <2>2, <2>4, <2>5
<1>5. PICK client : client = conn["client"]
  OBVIOUS
<1>6. PICK server : server = conn["server"]
  OBVIOUS
<1>7. /\ client \in Conn /\ client.state = "absent" /\ client.out = <<>> /\ client.retry = 0
      /\ ~client.confirmed
      /\ server \in Conn /\ server.state = "absent" /\ server.out = <<>>
      /\ ~server.tls_complete /\ ~server.validated /\ ~server.failed
  BY <1>3, <1>5, <1>6 DEF Sides
<1>8. /\ ConnOK(client, "client") /\ Settled(client, "client") /\ Alone(client)
      /\ \A sp \in Spaces : client.received[sp] = {} /\ client.rx[sp] = 0 /\ client.tx[sp] = 0
  BY <1>4, <1>5 DEF Sides
<1>9. /\ ConnOK(server, "server") /\ Settled(server, "server") /\ Untouched(server)
      /\ \A sp \in Spaces : server.received[sp] = {} /\ server.rx[sp] = 0 /\ server.tx[sp] = 0
  BY <1>4, <1>6 DEF Sides
<1>10. PeerOK(client, server, "client")
  BY <1>7, <1>8, <1>9 DEF PeerOK, Spaces, Written
<1>11. PeerOK(server, client, "server")
  BY <1>7, <1>8, <1>9 DEF PeerOK, Spaces, Written
<1>12. <<>> \in Seq(Datagram) /\ Carried(<<>>) = {}
  BY DEF Carried
<1>13. Half(client, server, "client", to_server, dispatcher)
  BY <1>2, <1>7, <1>8, <1>10, <1>12 DEF Half
<1>14. Half(server, client, "server", to_client, dispatcher)
  BY <1>2, <1>7, <1>9, <1>11, <1>12 DEF Half
<1>15. RetryInv
  BY <1>2, <1>5, <1>6, <1>7, <1>9 DEF RetryInv, Sides
<1>16. /\ faults \in Faults /\ conn \in [Sides -> Conn]
       /\ dispatcher \in [retry_enabled : RetryModes, retries : Nat, expired : Nat]
  <2>1. conn \in [Sides -> Conn]
    BY <1>1, <1>3
  <2>2. faults \in Faults
    BY <1>2, HandshakeAssumption DEF Faults
  <2> QED
    BY <1>2, <2>1, <2>2
<1> QED
  BY <1>5, <1>6, <1>13, <1>14, <1>15, <1>16 DEF Whole

LEMMA StutterKeeps == Whole /\ UNCHANGED vars => Whole' /\ Fresh /\ Proven
<1> SUFFICES ASSUME Whole, UNCHANGED vars PROVE Whole' /\ Fresh /\ Proven
  OBVIOUS
<1>1. UNCHANGED conn /\ UNCHANGED dispatcher /\ faults' = faults /\ NetBecomes(net)
  BY NetIs DEF vars, NetBecomes
<1>2. net \in [Sides -> Seq(Datagram)]
  BY WholeGives DEF Sides
<1>3. Remaining(net)
  BY <1>2, NetRest
<1>4. /\ dispatcher' \in [retry_enabled : RetryModes, retries : Nat, expired : Nat]
      /\ dispatcher'.retry_enabled = dispatcher.retry_enabled
      /\ dispatcher.retries <= dispatcher'.retries /\ faults' \in Faults
  BY <1>1 DEF Whole
<1> QED
  BY <1>1, <1>3, <1>4, LessKeeps

\* Every step keeps it, and does what the action properties say.
LEMMA NextKeeps == Whole /\ Next => Whole' /\ Fresh /\ Proven
<1> SUFFICES ASSUME Whole, Next PROVE Whole' /\ Fresh /\ Proven
  OBVIOUS
<1>1. CASE StartClient
  BY <1>1, StartClientKeeps
<1>2. ASSUME NEW i \in DOMAIN net["server"], NEW keep \in BOOLEAN, SendRetry(i, keep)
      PROVE  Whole' /\ Fresh /\ Proven
  BY <1>2, SendRetryKeeps
<1>3. ASSUME NEW i \in DOMAIN net["server"], NEW keep \in BOOLEAN, DropBadToken(i, keep)
      PROVE  Whole' /\ Fresh /\ Proven
  BY <1>3, DropBadTokenKeeps
<1>4. ASSUME NEW i \in DOMAIN net["server"], NEW keep \in BOOLEAN, CreateConn(i, keep)
      PROVE  Whole' /\ Fresh /\ Proven
  BY <1>4, CreateConnKeeps
<1>5. ASSUME NEW side \in Sides, NEW i \in DOMAIN net[side], NEW keep \in BOOLEAN,
             Receive(side, i, keep)
      PROVE  Whole' /\ Fresh /\ Proven
  BY <1>5, ReceiveKeeps
<1>6. ASSUME NEW side \in Sides, Poll(side)
      PROVE  Whole' /\ Fresh /\ Proven
  BY <1>6, PollKeeps, StutterKeeps
<1>7. CASE Expire
  BY <1>7, ExpireKeeps
<1>8. ASSUME NEW side \in Sides, NEW i \in DOMAIN net[side], Lose(side, i)
      PROVE  Whole' /\ Fresh /\ Proven
  BY <1>8, LoseKeeps
<1> QED
  BY <1>1, <1>2, <1>3, <1>4, <1>5, <1>6, <1>7, <1>8 DEF Next

LEMMA StepKeeps == Whole /\ [Next]_vars => Whole' /\ Fresh /\ Proven
BY NextKeeps, StutterKeeps

LEMMA AlwaysWhole == Spec => []Whole
BY InitWhole, StepKeeps, PTL DEF Spec

\* The part of the inductive invariant that is preserved by itself
\* (ai_quic_conn_on_packet, ai_quic_conn_flush_pending).
LEMMA AlwaysBase == Spec => []BaseInv
BY AlwaysWhole, WholeIsBaseInv, PTL

(***************************************************************************)
(* What follows                                                            *)
(***************************************************************************)
\* Every state component has its type; the event queue is never over-full
\* (ai_quic_tls_queue_event).
THEOREM TypeCorrect == Spec => []TypeOK
<1>1. BaseInv => TypeOK
  BY DEF BaseInv
<1> QED
  BY <1>1, AlwaysBase, PTL

\* Progress is made in the order of the exchange (conn_io.c:2424-2438).
THEOREM StepsAreInOrder == Spec => []StepsInOrder
<1>1. BaseInv => StepsInOrder
  BY PeerIs DEF BaseInv, ConnInv, ConnOK, PeerOK, StepsInOrder, Sides
<1> QED
  BY <1>1, AlwaysBase, PTL

\* Before the client's address is validated the server has sent at most three
\* times what it received (ai_quic_conn_push_datagram).
THEOREM AmplificationIsLimited == Spec => []AmplificationLimit
<1>1. BaseInv => AmplificationLimit
  BY DEF BaseInv, ConnInv, ConnOK, AmplificationLimit, Sides
<1> QED
  BY <1>1, AlwaysBase, PTL

\* An ACK, in flight or due, names only packets that the other side has sent
\* in that space, tickets apart, across a Retry and discarded keys
\* (ai_quic_pn_space_mark_key_discarded, ai_quic_conn_reset_handshake_state).
THEOREM AcksTellTheTruth == Spec => []AcksAreTrue
<1>1. Whole => AcksAreTrue
  <2> SUFFICES ASSUME Whole, NEW side \in Sides
               PROVE  LET peer == conn[Peer(side)]
                      IN  /\ \A sp \in Spaces : \A n \in conn[side].received[sp] :
                               Numbered(peer, Peer(side), sp, n)
                          /\ \A p \in InFlight(Peer(side)) :
                               p.type # "retry" =>
                                 \A n \in p.acks : Acknowledges(p, n, conn[side], peer, side)
    BY DEF AcksAreTrue
  <2>1. Half(conn[side], conn[Peer(side)], side, net[Peer(side)], dispatcher)
    BY WholeGives
  <2>2. \A sp \in Spaces : \A n \in conn[side].received[sp] :
          Numbered(conn[Peer(side)], Peer(side), sp, n)
    BY <2>1 DEF Half, PeerOK
  <2>3. ASSUME NEW p \in InFlight(Peer(side)), p.type # "retry", NEW n \in p.acks
        PROVE  Acknowledges(p, n, conn[side], conn[Peer(side)], side)
    <3>1. p \in Carried(net[Peer(side)])
      BY InFlightIs, PeerIs DEF Sides
    <3> QED
      BY <2>1, <2>3, <3>1 DEF Half, PacketOK, IsRetry
  <2> QED
    BY <2>2, <2>3
<1> QED
  BY <1>1, AlwaysWhole, PTL

\* TLS is fed nothing the peer's TLS did not write before, but for tickets, and once
\* there is a server's connection both sides use the same connection ID for Initial
\* keys (ai_quic_crypto_stream_accept, ai_quic_conn_restart_client_after_retry).
THEOREM CryptoIsInOrder == Spec => []CryptoInOrder
<1>1. BaseInv => CryptoInOrder
  <2> SUFFICES ASSUME BaseInv PROVE CryptoInOrder
    OBVIOUS
  <2>1. \A side \in Sides : PeerOK(conn[side], conn[Peer(side)], side)
    BY DEF BaseInv, ConnInv
  <2>2. ASSUME NEW side \in Sides, NEW sp \in {"initial", "handshake"}
        PROVE  LET peer == conn[Peer(side)]
               IN  \/ conn[side].rx[sp] <= peer.tx[sp]
                   \/ /\ TicketsOut(peer, Peer(side)) /\ sp = "handshake"
                      /\ peer.tx["app"] > peer.tx["handshake"]
    <3>1. conn[side] \in Conn /\ conn[Peer(side)] \in Conn
      BY PeerIs DEF BaseInv, TypeOK, Sides
    <3>2. /\ conn[side].rx[sp] \in Nat /\ conn[Peer(side)].tx[sp] \in Nat
          /\ conn[Peer(side)].tx["app"] \in Nat
      BY <3>1, Counters DEF Spaces
    <3>3. Written(conn[Peer(side)], Peer(side), sp, conn[side].rx[sp])
      BY <2>1 DEF PeerOK
    <3> QED
      BY <3>2, <3>3 DEF Written
  <2>3. conn["server"].state # "absent" => conn["server"].retry = conn["client"].retry
    BY <2>1, PeerIs DEF PeerOK, BaseInv, RetryInv, Sides
  <2> QED
    BY <2>2, <2>3 DEF CryptoInOrder
<1> QED
  BY <1>1, AlwaysBase, PTL

\* The server takes the client's address for validated only after a Handshake
\* packet of the client, or with the token of a Retry that it was sent and
\* that has not expired (ai_quic_retry_token_validate).
THEOREM ValidationIsProven == Spec => ValidatedByProof
<1>1. Whole /\ [Next]_vars =>
        [conn'["server"].validated /\ ~conn["server"].validated =>
           \/ conn["client"].rx["handshake"] >= 1
           \/ conn["client"].token \in dispatcher.expired + 1 .. dispatcher.retries]_vars
  BY StepKeeps DEF Proven
<1> QED
  BY <1>1, AlwaysWhole, PTL DEF Spec, ValidatedByProof

\* A packet that enters the network has a number its side had not given out
\* before in that space, also after a Retry (ai_quic_packet_init).
THEOREM NumbersStayFresh == Spec => NumbersAreFresh
<1>1. Whole /\ [Next]_vars =>
        [\A side \in Sides : \A p \in NewPackets(side) :
           p.type # "retry" => FreshNumber(p, conn[side], conn'[side], side)]_vars
  BY StepKeeps DEF Fresh
<1> QED
  BY <1>1, AlwaysWhole, PTL DEF Spec, NumbersAreFresh
=============================================================================
