----------------------- MODULE HandshakeAgreement_proofs -----------------------
(***************************************************************************)
(* The two sides agree on the version, use no key they have discarded, and *)
(* the server's flight gets through its event queue: AgreeInv, for every   *)
(* value of the constants, on top of what Handshake_proofs has shown.      *)
(*                                                                         *)
(* Touches(c, d, F) says which fields a call of a handler may change, and  *)
(* there is one lemma per call for what it does with them.  ClientReads    *)
(* and ServerReads hold at every point of a handler that reads, Sends when *)
(* it flushes, ClientDone and ServerDone of what it leaves; Agreeing ties  *)
(* both sides to the packets on their way, and each step keeps it.         *)
(***************************************************************************)
EXTENDS Handshake_proofs

Fields ==
  {"v2", "version", "original", "learned", "checked", "told", "state", "key", "received",
   "ack_needed", "next_pn", "tx", "rx", "events", "flight", "tls_complete", "completed",
   "confirmed", "can_send", "done_due", "validated", "saw_initial", "retry", "token",
   "asked", "bytes_sent", "bytes_received", "failed", "out"}

\* d is c but for some fields.
Touches(c, d, F) == \A f \in Fields \ F : d[f] = c[f]

LEMMA TouchesTrans ==
  ASSUME NEW c, NEW d, NEW e, NEW F, NEW G, Touches(c, d, F), Touches(d, e, G)
  PROVE  Touches(c, e, F \cup G)
BY DEF Touches

LEMMA TouchesMore ==
  ASSUME NEW c, NEW d, NEW F, NEW G, Touches(c, d, F), F \subseteq G
  PROVE  Touches(c, d, G)
BY DEF Touches

LEMMA FailHas ==
  ASSUME NEW c \in Conn, NEW d, d = Fail(c)
  PROVE  d \in Conn /\ d.failed /\ Touches(c, d, {"failed"})
BY DEF Fail, Conn, Touches, Fields

LEMMA InstallHas ==
  ASSUME NEW c \in Conn, NEW sp \in Spaces, NEW d, d = Install(c, sp)
  PROVE  /\ d \in Conn /\ Touches(c, d, {"key"})
         /\ d.key = [c.key EXCEPT ![sp] = "installed"]
BY DEF Install, Conn, Touches, Fields, KeyStates

LEMMA DiscardHas ==
  ASSUME NEW c \in Conn, NEW sp \in Spaces, NEW d, d = Discard(c, sp)
  PROVE  /\ d \in Conn /\ Touches(c, d, {"key", "ack_needed", "received"})
         /\ d.key = [c.key EXCEPT ![sp] = "discarded"]
         /\ d.ack_needed = [c.ack_needed EXCEPT ![sp] = FALSE]
         /\ d.received = [c.received EXCEPT ![sp] = {}]
BY DEF Discard, Conn, Touches, Fields, KeyStates

LEMMA StartTlsHas ==
  ASSUME NEW c \in Conn, NEW side \in Sides, NEW d, d = StartTls(c, side)
  PROVE  /\ d \in Conn /\ Touches(c, d, {"key", "state", "events", "told"})
         /\ d.key = [c.key EXCEPT !["initial"] = "installed"] /\ d.state = "handshaking"
         /\ d.events = StartEvents(side)
         /\ d.told = [chosen |-> ChosenVersion(c, side), available |-> AvailableVersions(c),
                      retry |-> IF side = "server" THEN c.retry ELSE 0]
<1>1. d \in Conn
  BY StartTlsIs
<1>2. PICK i : i = Install(c, "initial")
  OBVIOUS
<1>3. /\ i \in Conn /\ Touches(c, i, {"key"})
      /\ i.key = [c.key EXCEPT !["initial"] = "installed"]
  BY <1>2, InstallHas DEF Spaces
<1>4. PICK told : told = [chosen |-> ChosenVersion(c, side), available |-> AvailableVersions(c),
                          retry |-> IF side = "server" THEN c.retry ELSE 0]
  OBVIOUS
<1>5. PICK events : events = StartEvents(side)
  OBVIOUS
<1>6. d = [i EXCEPT !.state = "handshaking", !.events = events, !.told = told]
  BY <1>2, <1>4, <1>5, Zenon DEF StartTls
<1>7. /\ Touches(i, d, {"state", "events", "told"}) /\ d.state = "handshaking"
      /\ d.events = events /\ d.told = told /\ d.key = i.key
  BY <1>3, <1>6 DEF Conn, Touches, Fields
<1>8. Touches(c, d, {"key"} \cup {"state", "events", "told"})
  BY <1>3, <1>7, TouchesTrans
<1>9. Touches(c, d, {"key", "state", "events", "told"})
  BY <1>8, TouchesMore
<1> QED
  BY <1>1, <1>3, <1>4, <1>5, <1>7, <1>9

\* The version.
LEMMA FollowVersionHas ==
  ASSUME NEW c \in Conn, NEW side, NEW p \in Packet, NEW d, d = FollowVersion(c, side, p)
  PROVE  /\ d \in Conn /\ Touches(c, d, {"version", "learned", "failed"})
         /\ (c.failed => d.failed)
         /\ IF side = "server" \/ p.type = "app" \/ p.version = c.version THEN d = c
            ELSE IF p.version \in c.told.available
                 THEN d.version = p.version /\ d.learned /\ d.failed = c.failed
                 ELSE d = Fail(c)
<1>1. p.version \in Versions
  BY DEF Packet
<1>2. CASE side = "server" \/ p.type = "app" \/ p.version = c.version
  <2>1. d = c
    BY <1>2 DEF FollowVersion
  <2> QED
    BY <1>2, <2>1 DEF Touches
<1>3. CASE /\ ~(side = "server" \/ p.type = "app" \/ p.version = c.version)
           /\ p.version \in c.told.available
  <2>1. d = [c EXCEPT !.version = p.version, !.learned = TRUE]
    BY <1>3 DEF FollowVersion, Activate
  <2>2. /\ d \in Conn /\ Touches(c, d, {"version", "learned", "failed"})
        /\ d.version = p.version /\ d.learned /\ d.failed = c.failed
    BY <1>1, <2>1 DEF Conn, Touches, Fields
  <2> QED
    BY <1>3, <2>2
<1>4. CASE /\ ~(side = "server" \/ p.type = "app" \/ p.version = c.version)
           /\ p.version \notin c.told.available
  <2>1. d = Fail(c)
    BY <1>4 DEF FollowVersion
  <2>2. d \in Conn /\ d.failed /\ Touches(c, d, {"failed"})
    BY <2>1, FailHas
  <2>3. Touches(c, d, {"version", "learned", "failed"})
    BY <2>2, TouchesMore
  <2> QED
    BY <1>4, <2>1, <2>2, <2>3
<1> QED
  BY <1>2, <1>3, <1>4

\* What the check of the peer's parameters asks for, when it is due.
CheckDue(c, side, p) ==
  ~c.checked /\ (\/ side = "server" /\ p.type = "initial"
                 \/ side = "client" /\ p.type = "handshake")

CheckHolds(c, side, p) ==
  IF side = "server"
  THEN /\ p.params.chosen \in p.params.available /\ p.params.chosen = p.version
       /\ SelectedVersion(c, p.params) # 0
  ELSE /\ p.params.retry = c.retry /\ p.params.chosen \in c.told.available
       /\ p.params.chosen = c.version

\* ... and what it leaves.
Checked(c, d, side, p) ==
  /\ ~CheckDue(c, side, p) => /\ d.version = c.version /\ d.checked = c.checked
                              /\ d.failed = c.failed /\ d.learned = c.learned
  /\ CheckDue(c, side, p) /\ CheckHolds(c, side, p) =>
       /\ d.checked /\ d.failed = c.failed
       /\ d.version = IF side = "server" THEN SelectedVersion(c, p.params) ELSE c.version
  /\ CheckDue(c, side, p) /\ ~CheckHolds(c, side, p) =>
       d.failed /\ d.version = c.version /\ d.checked = c.checked
  /\ side = "client" => d.version = c.version /\ d.learned = c.learned
  /\ c.failed => d.failed

LEMMA CheckPeerHas ==
  ASSUME NEW c \in Conn, NEW side \in Sides, NEW p \in Packet, NEW d, d = CheckPeer(c, side, p)
  PROVE  /\ d \in Conn /\ Touches(c, d, {"version", "learned", "checked", "failed"})
         /\ Checked(c, d, side, p)
<1> DEFINE F == {"version", "learned", "checked", "failed"}
<1>0. d \in Conn
  BY CheckPeerSame
<1>1. CASE ~CheckDue(c, side, p)
  <2>1. d = c
    BY <1>1 DEF CheckPeer, CheckDue
  <2> QED
    BY <1>0, <1>1, <2>1 DEF Touches, Checked
<1>2. CASE CheckDue(c, side, p) /\ ~CheckHolds(c, side, p)
  <2>1. d = Fail(c)
    BY <1>2 DEF CheckPeer, CheckDue, CheckHolds, CheckClient, CheckServer, Sides
  <2>2. d.failed /\ Touches(c, d, {"failed"})
    BY <2>1, FailHas
  <2>3. Touches(c, d, F)
    BY <2>2, TouchesMore
  <2>4. d.version = c.version /\ d.checked = c.checked /\ d.learned = c.learned
    BY <2>2 DEF Touches, Fields
  <2> QED
    BY <1>0, <1>2, <2>2, <2>3, <2>4 DEF Checked
<1>3. CASE CheckDue(c, side, p) /\ CheckHolds(c, side, p) /\ side = "client"
  <2>1. d = [c EXCEPT !.checked = TRUE]
    BY <1>3 DEF CheckPeer, CheckDue, CheckHolds, CheckServer
  <2>2. /\ Touches(c, d, {"checked"}) /\ d.checked /\ d.version = c.version
        /\ d.failed = c.failed /\ d.learned = c.learned
    BY <2>1 DEF Conn, Touches, Fields
  <2>3. Touches(c, d, F)
    BY <2>2, TouchesMore
  <2> QED
    BY <1>0, <1>3, <2>2, <2>3 DEF Checked
<1>4. CASE CheckDue(c, side, p) /\ CheckHolds(c, side, p) /\ side = "server"
  <2>1. PICK selected : selected = SelectedVersion(c, p.params)
    OBVIOUS
  <2>2. d = [[c EXCEPT !.version = selected, !.learned = TRUE] EXCEPT !.checked = TRUE]
    BY <1>4, <2>1 DEF CheckPeer, CheckDue, CheckHolds, CheckClient, Activate
  <2>3. /\ Touches(c, d, F) /\ d.checked /\ d.version = selected /\ d.failed = c.failed
    BY <2>2 DEF Conn, Touches, Fields
  <2> QED
    BY <1>0, <1>4, <2>1, <2>3 DEF Checked
<1> QED
  BY <1>1, <1>2, <1>3, <1>4 DEF Sides

\* What TLS has to say to a piece of CRYPTO data of p.
Answer(c, side, p) ==
  IF side = "server" THEN ServerEvents(p.type, c.rx[p.type] = 0, p.finished, c.flight)
  ELSE ClientEvents(p.type, c.rx[p.type] = 0, p.finished)

LEMMA AnswerIs ==
  ASSUME NEW c \in Conn, NEW side, NEW p \in Packet
  PROVE  Answer(c, side, p) \in Seq(TlsEvents)
<1>1. c.flight \in Flights /\ p.finished \in BOOLEAN
  BY ConnFields DEF Packet
<1>2. ServerEvents(p.type, c.rx[p.type] = 0, p.finished, c.flight) \in Seq(TlsEvents)
  <2> DEFINE R == {e \in TlsEvents : /\ e = "complete" => p.finished
                                     /\ e = "write_app" => p.finished /\ Tickets > 0}
  <2>1. ServerEvents(p.type, c.rx[p.type] = 0, p.finished, c.flight) \in Seq(R)
    BY <1>1, ServerEventsAre
  <2>2. R \subseteq TlsEvents
    OBVIOUS
  <2> HIDE DEF R
  <2> QED
    BY <2>1, <2>2, SeqMonotonic
<1>3. ClientEvents(p.type, c.rx[p.type] = 0, p.finished) \in Seq(TlsEvents)
  <2> DEFINE R == {e \in TlsEvents \ {"write_app"} : e \in EarlyEvents \/ p.finished}
  <2>1. ClientEvents(p.type, c.rx[p.type] = 0, p.finished) \in Seq(R)
    BY <1>1, ClientEventsAre
  <2>2. R \subseteq TlsEvents
    OBVIOUS
  <2> HIDE DEF R
  <2> QED
    BY <2>1, <2>2, SeqMonotonic
<1> QED
  BY <1>2, <1>3 DEF Answer

LEMMA ProvideHas ==
  ASSUME NEW c \in Conn, NEW side, NEW p \in Packet, p.type \in Spaces,
         NEW d, d = Provide(c, side, p.type, p.finished)
  PROVE  /\ d \in Conn /\ Touches(c, d, {"rx", "tls_complete", "events"})
         /\ d.rx = [c.rx EXCEPT ![p.type] = c.rx[p.type] + 1]
         /\ d.tls_complete = (c.tls_complete \/ p.finished)
         /\ d.events = QueueEvents(c.events, Answer(c, side, p))
<1>1. PICK events : events = QueueEvents(c.events, Answer(c, side, p))
  OBVIOUS
<1>2. events \in Seq(TlsEvents)
  <2>1. c.events \in Seq(TlsEvents) /\ Answer(c, side, p) \in Seq(TlsEvents)
    BY ConnFields, AnswerIs
  <2>2. events \in Seq(TlsEvents \cup TlsEvents)
    BY <1>1, <2>1, QueueEventsAre
  <2>3. TlsEvents \cup TlsEvents = TlsEvents
    OBVIOUS
  <2> QED
    BY <2>2, <2>3
<1>3. PICK rx \in [Spaces -> Nat] : rx = [c.rx EXCEPT ![p.type] = c.rx[p.type] + 1]
  <2>1. c.rx \in [Spaces -> Nat] /\ c.rx[p.type] + 1 \in Nat
    BY ConnFields, Counters
  <2> QED
    BY <2>1
<1>4. PICK complete \in BOOLEAN : complete = (c.tls_complete \/ p.finished)
  OBVIOUS
<1>5. d = [c EXCEPT !.rx = rx, !.tls_complete = complete, !.events = events]
  BY <1>1, <1>3, <1>4, Zenon DEF Provide, Answer
<1>6. /\ d \in Conn /\ d.rx = rx /\ d.tls_complete = complete /\ d.events = events
  BY ONLY c \in Conn, <1>2, rx \in [Spaces -> Nat], complete \in BOOLEAN, <1>5 DEF Conn
<1>7. Touches(c, d, {"rx", "tls_complete", "events"})
  BY <1>5 DEF Touches, Fields, Conn
<1> QED
  BY <1>1, <1>3, <1>4, <1>6, <1>7

\* What a CRYPTO frame leaves: data that is next is handed to TLS, data further
\* ahead is an error.
InOrder(c, p) == p.crypto # -1 /\ p.crypto = c.rx[p.type]
Ahead(c, p) == p.crypto # -1 /\ p.crypto > c.rx[p.type]

HeardCrypto(c, d, side, p) ==
  /\ InOrder(c, p) =>
       /\ d.rx = [c.rx EXCEPT ![p.type] = c.rx[p.type] + 1]
       /\ d.tls_complete = (c.tls_complete \/ p.finished)
       /\ d.events = QueueEvents(c.events, Answer(c, side, p))
       /\ Checked(c, d, side, p)
  /\ ~InOrder(c, p) =>
       /\ d.rx = c.rx /\ d.tls_complete = c.tls_complete /\ d.events = c.events
       /\ d.version = c.version /\ d.learned = c.learned /\ d.checked = c.checked
       /\ d.failed = (c.failed \/ Ahead(c, p))

LEMMA OnCryptoHas ==
  ASSUME NEW c \in Conn, NEW side \in Sides, NEW p \in Packet, p.type \in Spaces,
         NEW d, d = OnCrypto(c, side, p)
  PROVE  /\ d \in Conn /\ HeardCrypto(c, d, side, p)
         /\ Touches(c, d, {"rx", "tls_complete", "events", "version", "learned", "checked",
                           "failed"})
<1> DEFINE F == {"rx", "tls_complete", "events", "version", "learned", "checked", "failed"}
<1>0. p.crypto \in Int /\ c.rx[p.type] \in Nat /\ c.failed \in BOOLEAN
  BY Counters, ConnFields DEF Packet
<1>1. CASE ~InOrder(c, p) /\ ~Ahead(c, p)
  <2>1. d = c
    BY <1>0, <1>1 DEF OnCrypto, InOrder, Ahead
  <2> QED
    BY <1>0, <1>1, <2>1 DEF HeardCrypto, Touches
<1>2. CASE ~InOrder(c, p) /\ Ahead(c, p)
  <2>1. d = Fail(c)
    BY <1>0, <1>2 DEF OnCrypto, Ahead
  <2>2. d \in Conn /\ d.failed /\ Touches(c, d, {"failed"})
    BY <2>1, FailHas
  <2>3. d.failed \in BOOLEAN
    BY <2>2, ConnFields
  <2>4. /\ d.rx = c.rx /\ d.tls_complete = c.tls_complete /\ d.events = c.events
        /\ d.version = c.version /\ d.learned = c.learned /\ d.checked = c.checked
    BY <2>2 DEF Touches, Fields
  <2>5. HeardCrypto(c, d, side, p)
    BY <1>2, <2>2, <2>3, <2>4 DEF HeardCrypto
  <2>6. Touches(c, d, F)
    BY <2>2, TouchesMore
  <2> QED
    BY <2>2, <2>5, <2>6
<1>3. CASE InOrder(c, p)
  <2>1. PICK i : i = Provide(c, side, p.type, p.finished)
    OBVIOUS
  <2>2. /\ i \in Conn /\ Touches(c, i, {"rx", "tls_complete", "events"})
        /\ i.rx = [c.rx EXCEPT ![p.type] = c.rx[p.type] + 1]
        /\ i.tls_complete = (c.tls_complete \/ p.finished)
        /\ i.events = QueueEvents(c.events, Answer(c, side, p))
    BY <2>1, ProvideHas
  <2>3. d = CheckPeer(i, side, p)
    BY <1>0, <1>3, <2>1 DEF OnCrypto, InOrder
  <2>4. /\ d \in Conn /\ Touches(i, d, {"version", "learned", "checked", "failed"})
        /\ Checked(i, d, side, p)
    BY <2>2, <2>3, CheckPeerHas
  <2>5. Touches(c, d, F)
    <3>1. Touches(c, d, {"rx", "tls_complete", "events"}
                          \cup {"version", "learned", "checked", "failed"})
      BY <2>2, <2>4, TouchesTrans
    <3> QED
      BY <3>1, TouchesMore
  <2>6. /\ i.version = c.version /\ i.checked = c.checked /\ i.failed = c.failed
        /\ i.learned = c.learned /\ i.retry = c.retry /\ i.told = c.told /\ i.v2 = c.v2
        /\ i.original = c.original
    BY <2>2 DEF Touches, Fields
  <2>7. Checked(c, d, side, p)
    BY <2>4, <2>6 DEF Checked, CheckDue, CheckHolds, SelectedVersion
  <2>8. d.rx = i.rx /\ d.tls_complete = i.tls_complete /\ d.events = i.events
    BY <2>4 DEF Touches, Fields
  <2>9. HeardCrypto(c, d, side, p)
    BY <1>3, <2>2, <2>7, <2>8 DEF HeardCrypto
  <2> QED
    BY <2>4, <2>5, <2>9
<1> QED
  BY <1>1, <1>2, <1>3

LEMMA OnDoneHas ==
  ASSUME NEW c \in Conn, NEW d, d = OnDone(c)
  PROVE  /\ d \in Conn
         /\ Touches(c, d, {"confirmed", "validated", "state", "key", "ack_needed", "received"})
         /\ d.validated
         /\ d.key = [c.key EXCEPT !["handshake"] = "discarded"]
         /\ d.ack_needed = [c.ack_needed EXCEPT !["handshake"] = FALSE]
         /\ d.received = [c.received EXCEPT !["handshake"] = {}]
<1>1. PICK i : i = [c EXCEPT !.confirmed = TRUE, !.validated = TRUE, !.state = "active"]
  OBVIOUS
<1>2. /\ i \in Conn /\ Touches(c, i, {"confirmed", "validated", "state"}) /\ i.validated
      /\ i.key = c.key /\ i.ack_needed = c.ack_needed /\ i.received = c.received
  BY <1>1 DEF Conn, Touches, Fields, States
<1>3. d = Discard(i, "handshake")
  BY <1>1 DEF OnDone
<1>4. /\ d \in Conn /\ Touches(i, d, {"key", "ack_needed", "received"})
      /\ d.key = [i.key EXCEPT !["handshake"] = "discarded"]
      /\ d.ack_needed = [i.ack_needed EXCEPT !["handshake"] = FALSE]
      /\ d.received = [i.received EXCEPT !["handshake"] = {}]
  <2>1. i \in Conn /\ "handshake" \in Spaces
    BY <1>2 DEF Spaces
  <2> QED
    BY ONLY <1>3, <2>1, DiscardHas
<1>5. d.validated = i.validated
  BY <1>4 DEF Touches, Fields
<1>6. Touches(c, d, {"confirmed", "validated", "state"} \cup {"key", "ack_needed", "received"})
  BY <1>2, <1>4, TouchesTrans
<1>7. Touches(c, d, {"confirmed", "validated", "state", "key", "ack_needed", "received"})
  BY <1>6, TouchesMore
<1> QED
  BY <1>2, <1>4, <1>5, <1>7

FrameFields ==
  {"rx", "tls_complete", "events", "version", "learned", "checked", "failed",
   "confirmed", "validated", "state", "key", "ack_needed", "received"}

\* What the frames of p leave.
HeardFrames(c, d, side, p) ==
  /\ Touches(c, d, FrameFields) /\ HeardCrypto(c, d, side, p)
  /\ \A sp \in Spaces :
       /\ d.ack_needed[sp] => c.ack_needed[sp] \/ (sp = p.type /\ Eliciting(p))
       /\ d.key[sp] = c.key[sp] \/ (sp = "handshake" /\ p.done /\ d.key[sp] = "discarded")
       /\ d.received[sp] \subseteq c.received[sp]
  /\ ~p.done => /\ d.confirmed = c.confirmed /\ d.validated = c.validated
                /\ d.state = c.state
  /\ c.validated => d.validated

LEMMA OnFramesHas ==
  ASSUME NEW c \in Conn, NEW side \in Sides, NEW p \in Packet, p.type \in Spaces,
         NEW d, d = OnFrames(c, side, p)
  PROVE  d \in Conn /\ HeardFrames(c, d, side, p)
<1> DEFINE F == {"rx", "tls_complete", "events", "version", "learned", "checked", "failed"}
           G == {"confirmed", "validated", "state", "key", "ack_needed", "received"}
<1>1. PICK n1 \in BOOLEAN : n1 = (c.ack_needed[p.type] /\ p.acks = {})
  OBVIOUS
<1>2. PICK a : a = [c EXCEPT !.ack_needed[p.type] = n1]
  OBVIOUS
<1>3. /\ a \in Conn /\ Touches(c, a, {"ack_needed"})
      /\ a.ack_needed = [c.ack_needed EXCEPT ![p.type] = n1]
  BY ONLY c \in Conn, p.type \in Spaces, n1 \in BOOLEAN, <1>2 DEF Conn, Touches, Fields
<1>4. PICK fed : fed = OnCrypto(a, side, p)
  OBVIOUS
<1>5. fed \in Conn /\ HeardCrypto(a, fed, side, p) /\ Touches(a, fed, F)
  BY <1>3, <1>4, OnCryptoHas
<1>6. PICK done : done = IF p.done THEN OnDone(fed) ELSE fed
  OBVIOUS
<1>7. /\ done \in Conn /\ Touches(fed, done, G) /\ (fed.validated => done.validated)
      /\ \A sp \in Spaces :
           /\ done.ack_needed[sp] => fed.ack_needed[sp]
           /\ \/ done.key[sp] = fed.key[sp]
              \/ sp = "handshake" /\ p.done /\ done.key[sp] = "discarded"
           /\ done.received[sp] \subseteq fed.received[sp]
      /\ ~p.done => done = fed
  <2>0. /\ fed.ack_needed \in [Spaces -> BOOLEAN] /\ fed.key \in [Spaces -> KeyStates]
        /\ fed.received \in [Spaces -> SUBSET Nat]
    BY <1>5, ConnFields
  <2>1. CASE ~p.done
    BY <1>5, <1>6, <2>1 DEF Touches
  <2>2. CASE p.done
    <3>1. /\ done \in Conn /\ Touches(fed, done, G) /\ done.validated
          /\ done.key = [fed.key EXCEPT !["handshake"] = "discarded"]
          /\ done.ack_needed = [fed.ack_needed EXCEPT !["handshake"] = FALSE]
          /\ done.received = [fed.received EXCEPT !["handshake"] = {}]
      BY <1>5, <1>6, <2>2, OnDoneHas
    <3> HIDE DEF G
    <3> QED
      BY <2>0, <2>2, <3>1
  <2> QED
    BY <2>1, <2>2
<1>8. PICK n2 \in BOOLEAN : n2 = (done.ack_needed[p.type] \/ Eliciting(p))
  <2>1. done.ack_needed[p.type] \in BOOLEAN
    BY <1>7, ConnFields
  <2>2. (done.ack_needed[p.type] \/ Eliciting(p)) \in BOOLEAN
    BY <2>1
  <2> QED
    BY <2>2
<1>9. PICK last : last = [done EXCEPT !.ack_needed[p.type] = n2]
  OBVIOUS
<1>10. /\ last \in Conn /\ Touches(done, last, {"ack_needed"})
       /\ last.ack_needed = [done.ack_needed EXCEPT ![p.type] = n2]
  <2>1. done \in Conn
    BY <1>7
  <2> QED
    BY ONLY <2>1, p.type \in Spaces, n2 \in BOOLEAN, <1>9 DEF Conn, Touches, Fields
<1>11. d = IF fed.failed THEN fed ELSE last
  BY <1>1, <1>2, <1>4, <1>6, <1>8, <1>9, Zenon DEF OnFrames
<1>12. Touches(c, fed, FrameFields)
  <2>1. Touches(c, fed, {"ack_needed"} \cup F)
    BY <1>3, <1>5, TouchesTrans
  <2> QED
    BY <2>1, TouchesMore DEF FrameFields
<1>13. HeardCrypto(c, fed, side, p)
  <2>1. /\ a.rx = c.rx /\ a.tls_complete = c.tls_complete /\ a.events = c.events
        /\ a.version = c.version /\ a.learned = c.learned /\ a.checked = c.checked
        /\ a.failed = c.failed /\ a.flight = c.flight /\ a.retry = c.retry /\ a.told = c.told
        /\ a.v2 = c.v2 /\ a.original = c.original
    BY <1>3 DEF Touches, Fields
  <2>2. Answer(a, side, p) = Answer(c, side, p)
    BY <2>1 DEF Answer
  <2>3. Checked(a, fed, side, p) => Checked(c, fed, side, p)
    BY <2>1 DEF Checked, CheckDue, CheckHolds, SelectedVersion
  <2> QED
    BY <1>5, <2>1, <2>2, <2>3 DEF HeardCrypto, InOrder, Ahead
<1>14. /\ \A sp \in Spaces : a.ack_needed[sp] => c.ack_needed[sp]
       /\ fed.ack_needed = a.ack_needed /\ fed.key = c.key /\ fed.received = c.received
       /\ fed.confirmed = c.confirmed /\ fed.validated = c.validated /\ fed.state = c.state
  <2>1. c.ack_needed \in [Spaces -> BOOLEAN]
    BY ConnFields
  <2>2. /\ fed.ack_needed = a.ack_needed /\ fed.key = a.key /\ fed.received = a.received
        /\ fed.confirmed = a.confirmed /\ fed.validated = a.validated /\ fed.state = a.state
    BY <1>5 DEF Touches, Fields
  <2>3. /\ a.key = c.key /\ a.received = c.received
        /\ a.confirmed = c.confirmed /\ a.validated = c.validated /\ a.state = c.state
    BY <1>3 DEF Touches, Fields
  <2>4. \A sp \in Spaces : a.ack_needed[sp] => c.ack_needed[sp]
    BY <1>1, <1>3, <2>1
  <2> QED
    BY <2>2, <2>3, <2>4
<1>15. CASE fed.failed
  BY <1>5, <1>11, <1>12, <1>13, <1>14, <1>15 DEF HeardFrames
<1>16. CASE ~fed.failed
  <2>1. d = last
    BY <1>11, <1>16
  <2>2. Touches(c, done, FrameFields)
    <3>1. Touches(c, done, FrameFields \cup G)
      BY <1>7, <1>12, TouchesTrans
    <3> QED
      BY <3>1, TouchesMore DEF FrameFields
  <2>3. Touches(c, last, FrameFields)
    <3>1. Touches(c, last, FrameFields \cup {"ack_needed"})
      BY <1>10, <2>2, TouchesTrans
    <3> QED
      BY <3>1, TouchesMore DEF FrameFields
  <2>4. /\ last.rx = done.rx /\ last.tls_complete = done.tls_complete
        /\ last.events = done.events /\ last.version = done.version
        /\ last.learned = done.learned /\ last.checked = done.checked
        /\ last.failed = done.failed /\ last.key = done.key /\ last.received = done.received
        /\ last.confirmed = done.confirmed /\ last.validated = done.validated
        /\ last.state = done.state
    BY <1>10 DEF Touches, Fields
  <2>5. /\ done.rx = fed.rx /\ done.tls_complete = fed.tls_complete
        /\ done.events = fed.events /\ done.version = fed.version
        /\ done.learned = fed.learned /\ done.checked = fed.checked
        /\ done.failed = fed.failed
    BY <1>7 DEF Touches, Fields
  <2>6. HeardCrypto(c, last, side, p)
    BY <1>13, <2>4, <2>5 DEF HeardCrypto, Checked
  <2>7. \A sp \in Spaces :
          last.ack_needed[sp] => c.ack_needed[sp] \/ (sp = p.type /\ Eliciting(p))
    <3>1. done.ack_needed \in [Spaces -> BOOLEAN]
      BY <1>7, ConnFields
    <3>2. \A sp \in Spaces : done.ack_needed[sp] => c.ack_needed[sp]
      BY <1>7, <1>14
    <3> QED
      BY <1>8, <1>10, <3>1, <3>2
  <2>8. HeardFrames(c, last, side, p)
    BY <1>7, <1>14, <2>3, <2>4, <2>6, <2>7 DEF HeardFrames
  <2> QED
    BY <1>10, <2>1, <2>8
<1> QED
  BY <1>15, <1>16

\* The first packet of a server's connection.
Begun(c, d, p) ==
  /\ Touches(c, d, {"version", "original", "retry", "key", "state", "events", "told"})
  /\ d.version = p.version /\ d.original = p.version /\ d.retry = p.cid
  /\ d.key = [c.key EXCEPT !["initial"] = "installed"] /\ d.state = "handshaking"
  /\ d.events = <<>> /\ d.told.retry = p.cid
  /\ p.version = 1 /\ ~c.checked => d.told.chosen = IF c.v2 THEN 2 ELSE 1

LEMMA SetUpHas ==
  ASSUME NEW c \in Conn, NEW p \in Packet, NEW d, d = SetUp(c, p)
  PROVE  /\ d \in Conn
         /\ c.state # "pre_validation" => d = c
         /\ c.state = "pre_validation" => Begun(c, d, p)
<1>1. CASE c.state # "pre_validation"
  BY <1>1 DEF SetUp
<1>2. CASE c.state = "pre_validation"
  <2>1. p.version \in Versions /\ p.cid \in Nat
    BY DEF Packet
  <2>2. PICK i : i = [c EXCEPT !.version = p.version, !.original = p.version, !.retry = p.cid]
    OBVIOUS
  <2>3. /\ i \in Conn /\ Touches(c, i, {"version", "original", "retry"})
        /\ i.version = p.version /\ i.original = p.version /\ i.retry = p.cid
        /\ i.v2 = c.v2 /\ i.checked = c.checked /\ i.key = c.key
    BY <2>1, <2>2 DEF Conn, Touches, Fields
  <2>4. d = StartTls(i, "server")
    BY <1>2, <2>2 DEF SetUp
  <2>5. i \in Conn /\ "server" \in Sides
    BY <2>3 DEF Sides
  <2>6. /\ d \in Conn /\ Touches(i, d, {"key", "state", "events", "told"})
        /\ d.key = [i.key EXCEPT !["initial"] = "installed"] /\ d.state = "handshaking"
        /\ d.events = StartEvents("server")
        /\ d.told = [chosen |-> ChosenVersion(i, "server"), available |-> AvailableVersions(i),
                     retry |-> IF "server" = "server" THEN i.retry ELSE 0]
    BY ONLY <2>4, <2>5, StartTlsHas
  <2>7. d.version = i.version /\ d.original = i.original /\ d.retry = i.retry
    BY <2>6 DEF Touches, Fields
  <2>8. d.told.retry = p.cid /\ d.told.chosen = ChosenVersion(i, "server")
    BY <2>3, <2>6
  <2>9. p.version = 1 /\ ~c.checked => ChosenVersion(i, "server") = IF c.v2 THEN 2 ELSE 1
    BY <2>3 DEF ChosenVersion, AvailableVersions
  <2>10. Touches(c, d, {"version", "original", "retry", "key", "state", "events", "told"})
    <3>1. Touches(c, d, {"version", "original", "retry"} \cup {"key", "state", "events", "told"})
      BY <2>3, <2>6, TouchesTrans
    <3> QED
      BY <3>1, TouchesMore
  <2> QED
    BY <1>2, <2>3, <2>6, <2>7, <2>8, <2>9, <2>10, StartEventsAre DEF Begun
<1> QED
  BY <1>1, <1>2

HeardFields == FrameFields \cup {"can_send", "completed", "done_due"}

LEMMA AfterHandshakePacketHas ==
  ASSUME NEW c \in Conn, NEW side \in Sides, NEW d, d = AfterHandshakePacket(c, side)
  PROVE  /\ d \in Conn
         /\ Touches(c, d, {"validated", "can_send", "completed", "done_due", "key",
                           "ack_needed", "received"})
         /\ side = "server" => /\ d.validated /\ d.can_send
                               /\ d.done_due = c.tls_complete /\ d.completed = c.tls_complete
                               /\ d.key = [c.key EXCEPT !["initial"] = "discarded"]
                               /\ d.ack_needed = [c.ack_needed EXCEPT !["initial"] = FALSE]
                               /\ d.received = [c.received EXCEPT !["initial"] = {}]
         /\ side = "client" => /\ Touches(c, d, {"can_send", "completed"})
                               /\ d.can_send = (c.can_send \/ c.tls_complete)
<1> DEFINE F == {"validated", "can_send", "completed", "done_due", "key", "ack_needed",
                 "received"}
<1>0. c.tls_complete \in BOOLEAN /\ c.completed \in BOOLEAN /\ c.can_send \in BOOLEAN
  BY ConnFields
<1>1. CASE side = "server"
  <2>1. PICK i : i = [c EXCEPT !.validated = TRUE, !.can_send = TRUE,
                               !.completed = c.tls_complete, !.done_due = c.tls_complete]
    OBVIOUS
  <2>2. /\ i \in Conn /\ Touches(c, i, {"validated", "can_send", "completed", "done_due"})
        /\ i.validated /\ i.can_send /\ i.completed = c.tls_complete
        /\ i.done_due = c.tls_complete /\ i.key = c.key /\ i.ack_needed = c.ack_needed
        /\ i.received = c.received
    BY <1>0, <2>1 DEF Conn, Touches, Fields
  <2>3. d = Discard(i, "initial") /\ i \in Conn /\ "initial" \in Spaces
    BY <1>1, <2>1, <2>2 DEF AfterHandshakePacket, Spaces
  <2>4. /\ d \in Conn /\ Touches(i, d, {"key", "ack_needed", "received"})
        /\ d.key = [i.key EXCEPT !["initial"] = "discarded"]
        /\ d.ack_needed = [i.ack_needed EXCEPT !["initial"] = FALSE]
        /\ d.received = [i.received EXCEPT !["initial"] = {}]
    BY ONLY <2>3, DiscardHas
  <2>5. /\ d.validated = i.validated /\ d.can_send = i.can_send
        /\ d.completed = i.completed /\ d.done_due = i.done_due
    BY <2>4 DEF Touches, Fields
  <2>6. Touches(c, d, F)
    <3>1. Touches(c, d, {"validated", "can_send", "completed", "done_due"}
                          \cup {"key", "ack_needed", "received"})
      BY <2>2, <2>4, TouchesTrans
    <3> QED
      BY <3>1, TouchesMore
  <2> QED
    BY <1>1, <2>2, <2>4, <2>5, <2>6
<1>2. CASE side = "client"
  <2>1. PICK completed \in BOOLEAN : completed = (c.completed \/ c.tls_complete)
    OBVIOUS
  <2>2. PICK can_send \in BOOLEAN : can_send = (c.can_send \/ c.tls_complete)
    OBVIOUS
  <2>3. d = [c EXCEPT !.completed = completed, !.can_send = can_send]
    BY <1>2, <2>1, <2>2, Zenon DEF AfterHandshakePacket
  <2>4. d \in Conn /\ Touches(c, d, {"can_send", "completed"}) /\ d.can_send = can_send
    <3>1. c \in Conn
      OBVIOUS
    <3>2. d \in Conn /\ d.can_send = can_send
      BY ONLY ZenonT(60), <2>3, <3>1, completed \in BOOLEAN, can_send \in BOOLEAN DEF Conn
    <3>3. Touches(c, d, {"can_send", "completed"})
      BY ONLY <2>3, <3>1 DEF Conn, Touches, Fields
    <3> QED
      BY <3>2, <3>3
  <2>5. Touches(c, d, F)
    BY <2>4, TouchesMore
  <2> QED
    BY <1>2, <2>2, <2>4, <2>5
<1> QED
  BY <1>1, <1>2 DEF Sides

\* What a packet leaves, c being set up.
Heard(c, d, side, p) ==
  /\ Touches(c, d, HeardFields \cup {"saw_initial"}) /\ HeardCrypto(c, d, side, p)
  /\ \A sp \in Spaces :
       /\ d.ack_needed[sp] => c.ack_needed[sp] \/ (sp = p.type /\ Eliciting(p))
       /\ \/ d.key[sp] = c.key[sp]
          \/ /\ d.key[sp] = "discarded"
             /\ \/ sp = "handshake" /\ p.done
                \/ sp = "initial" /\ side = "server" /\ p.type = "handshake"
       /\ d.received[sp] \subseteq c.received[sp] \cup (IF sp = p.type THEN {p.pn} ELSE {})
  /\ ~p.done => d.confirmed = c.confirmed /\ d.state = c.state
  /\ c.validated => d.validated
  /\ side = "server" =>
       IF p.type = "handshake" /\ ~d.failed
       THEN d.validated /\ d.can_send /\ d.done_due = d.tls_complete
       ELSE /\ d.can_send = c.can_send /\ d.done_due = c.done_due
            /\ ~p.done => d.validated = c.validated
  /\ side = "client" =>
       /\ d.can_send = (c.can_send \/ (p.type = "handshake" /\ ~d.failed /\ d.tls_complete))
       /\ d.done_due = c.done_due

LEMMA ProcessHas ==
  ASSUME NEW c \in Conn, NEW side \in Sides, NEW p \in Packet, p.type \in Spaces,
         NEW d, d = Process(c, side, p)
  PROVE  d \in Conn /\ Heard(SetUp(c, p), d, side, p)
<1>1. PICK i : i = SetUp(c, p)
  OBVIOUS
<1>2. i \in Conn
  BY <1>1, SetUpHas
<1>3. PICK received \in [Spaces -> SUBSET Nat] :
        received = [i.received EXCEPT ![p.type] = i.received[p.type] \cup {p.pn}]
  <2>1. i.received \in [Spaces -> SUBSET Nat] /\ i.received[p.type] \cup {p.pn} \in SUBSET Nat
    BY <1>2, ConnFields, Counters DEF Packet
  <2> QED
    BY <2>1
<1>4. PICK saw \in BOOLEAN : saw = (i.saw_initial \/ (side = "client" /\ p.type = "initial"))
  OBVIOUS
<1>5. PICK known : known = [i EXCEPT !.received = received, !.saw_initial = saw]
  OBVIOUS
<1>6. /\ known \in Conn /\ Touches(i, known, {"received", "saw_initial"})
      /\ known.received = received
  BY <1>2, <1>5 DEF Conn, Touches, Fields
<1>7. \A sp \in Spaces : known.received[sp] \subseteq
                           i.received[sp] \cup (IF sp = p.type THEN {p.pn} ELSE {})
  <2>1. i.received \in [Spaces -> SUBSET Nat]
    BY <1>2, ConnFields
  <2> QED
    BY <1>3, <1>6, <2>1
<1>8. /\ known.rx = i.rx /\ known.tls_complete = i.tls_complete /\ known.events = i.events
      /\ known.version = i.version /\ known.learned = i.learned /\ known.checked = i.checked
      /\ known.failed = i.failed /\ known.flight = i.flight /\ known.retry = i.retry
      /\ known.told = i.told /\ known.v2 = i.v2 /\ known.original = i.original
      /\ known.ack_needed = i.ack_needed /\ known.key = i.key
      /\ known.confirmed = i.confirmed /\ known.validated = i.validated
      /\ known.state = i.state /\ known.can_send = i.can_send /\ known.done_due = i.done_due
      /\ known.completed = i.completed
  BY <1>6 DEF Touches, Fields
<1>9. PICK read : read = OnFrames(known, side, p)
  OBVIOUS
<1>10. read \in Conn /\ HeardFrames(known, read, side, p)
  BY <1>6, <1>9, OnFramesHas
<1>11. Process(c, side, p) = (IF p.type = "handshake" /\ ~read.failed
                              THEN AfterHandshakePacket(read, side) ELSE read)
  BY <1>1, <1>3, <1>4, <1>5, <1>9, Zenon DEF Process
<1>12. HeardCrypto(i, read, side, p)
  <2>1. Answer(known, side, p) = Answer(i, side, p)
    BY <1>8 DEF Answer
  <2>2. Checked(known, read, side, p) => Checked(i, read, side, p)
    BY <1>8 DEF Checked, CheckDue, CheckHolds, SelectedVersion
  <2> QED
    BY <1>8, <1>10, <2>1, <2>2 DEF HeardFrames, HeardCrypto, InOrder, Ahead
<1>13. Touches(i, read, HeardFields \cup {"saw_initial"})
  <2>1. Touches(i, read, {"received", "saw_initial"} \cup FrameFields)
    BY <1>6, <1>10, TouchesTrans DEF HeardFrames
  <2>2. ({"received", "saw_initial"} \cup FrameFields) \subseteq (HeardFields \cup {"saw_initial"})
    BY DEF HeardFields, FrameFields
  <2> QED
    BY <2>1, <2>2, TouchesMore
<1>14. \A sp \in Spaces :
         /\ read.ack_needed[sp] => i.ack_needed[sp] \/ (sp = p.type /\ Eliciting(p))
         /\ read.key[sp] = i.key[sp] \/ (sp = "handshake" /\ p.done /\ read.key[sp] = "discarded")
         /\ read.received[sp] \subseteq i.received[sp] \cup (IF sp = p.type THEN {p.pn} ELSE {})
  <2>1. \A sp \in Spaces : read.received[sp] \subseteq known.received[sp]
    BY <1>10 DEF HeardFrames
  <2>2. \A sp \in Spaces :
          /\ read.ack_needed[sp] => known.ack_needed[sp] \/ (sp = p.type /\ Eliciting(p))
          /\ \/ read.key[sp] = known.key[sp]
             \/ sp = "handshake" /\ p.done /\ read.key[sp] = "discarded"
    BY <1>10 DEF HeardFrames
  <2> QED
    BY <1>7, <1>8, <2>1, <2>2
<1>15. /\ ~p.done => /\ read.confirmed = i.confirmed /\ read.validated = i.validated
                     /\ read.state = i.state
       /\ i.validated => read.validated
  BY <1>8, <1>10 DEF HeardFrames
<1>16. /\ read.can_send = i.can_send /\ read.done_due = i.done_due
       /\ read.completed = i.completed
  <2>1. Touches(known, read, FrameFields)
    BY <1>10 DEF HeardFrames
  <2>2. /\ read.can_send = known.can_send /\ read.done_due = known.done_due
        /\ read.completed = known.completed
    BY <2>1 DEF Touches, Fields, FrameFields
  <2> QED
    BY <1>8, <2>2
<1>17. CASE ~(p.type = "handshake" /\ ~read.failed)
  <2>1. d = read
    BY <1>11, <1>17
  <2>2. i.can_send \in BOOLEAN
    BY <1>2, ConnFields
  <2> QED
    BY <1>1, <1>10, <1>12, <1>13, <1>14, <1>15, <1>16, <1>17, <2>1, <2>2 DEF Heard
<1>18. CASE p.type = "handshake" /\ ~read.failed
  <2> DEFINE G == {"validated", "can_send", "completed", "done_due", "key", "ack_needed",
                   "received"}
  <2>0. d = AfterHandshakePacket(read, side)
    BY <1>11, <1>18
  <2>1. /\ d \in Conn /\ Touches(read, d, G)
        /\ side = "server" => /\ d.validated /\ d.can_send
                              /\ d.done_due = read.tls_complete /\ d.completed = read.tls_complete
                              /\ d.key = [read.key EXCEPT !["initial"] = "discarded"]
                              /\ d.ack_needed = [read.ack_needed EXCEPT !["initial"] = FALSE]
                              /\ d.received = [read.received EXCEPT !["initial"] = {}]
        /\ side = "client" => /\ Touches(read, d, {"can_send", "completed"})
                              /\ d.can_send = (read.can_send \/ read.tls_complete)
    BY ONLY <1>10, <2>0, side \in Sides, AfterHandshakePacketHas
  <2>2. /\ d.rx = read.rx /\ d.tls_complete = read.tls_complete /\ d.events = read.events
        /\ d.version = read.version /\ d.learned = read.learned
        /\ d.checked = read.checked /\ d.failed = read.failed
        /\ d.confirmed = read.confirmed /\ d.state = read.state
    BY <2>1 DEF Touches, Fields
  <2>3. HeardCrypto(i, d, side, p)
    BY <1>12, <2>2 DEF HeardCrypto, Checked
  <2>4. Touches(i, d, HeardFields \cup {"saw_initial"})
    <3>1. Touches(i, d, (HeardFields \cup {"saw_initial"}) \cup G)
      BY <1>13, <2>1, TouchesTrans
    <3>2. ((HeardFields \cup {"saw_initial"}) \cup G) \subseteq (HeardFields \cup {"saw_initial"})
      BY DEF HeardFields, FrameFields
    <3> HIDE DEF G
    <3> QED
      BY <3>1, <3>2, TouchesMore
  <2>5. CASE side = "server"
    <3>0. /\ read.ack_needed \in [Spaces -> BOOLEAN] /\ read.key \in [Spaces -> KeyStates]
          /\ read.received \in [Spaces -> SUBSET Nat]
      BY <1>10, ConnFields
    <3>1. \A sp \in Spaces :
            /\ d.ack_needed[sp] => read.ack_needed[sp]
            /\ d.key[sp] = read.key[sp] \/ (sp = "initial" /\ d.key[sp] = "discarded")
            /\ d.received[sp] \subseteq read.received[sp]
      BY <2>1, <2>5, <3>0
    <3>2. \A sp \in Spaces :
            /\ d.ack_needed[sp] => i.ack_needed[sp] \/ (sp = p.type /\ Eliciting(p))
            /\ \/ d.key[sp] = i.key[sp]
               \/ /\ d.key[sp] = "discarded"
                  /\ \/ sp = "handshake" /\ p.done
                     \/ sp = "initial" /\ side = "server" /\ p.type = "handshake"
      BY <1>14, <1>18, <2>5, <3>1
    <3>3. \A sp \in Spaces :
            d.received[sp] \subseteq i.received[sp] \cup (IF sp = p.type THEN {p.pn} ELSE {})
      BY <1>14, <3>1
    <3> QED
      BY <1>1, <1>15, <1>18, <2>1, <2>2, <2>3, <2>4, <2>5, <3>2, <3>3 DEF Heard
  <2>6. CASE side = "client"
    <3>1. /\ d.ack_needed = read.ack_needed /\ d.key = read.key /\ d.received = read.received
          /\ d.validated = read.validated /\ d.done_due = read.done_due
      BY <2>1, <2>6 DEF Touches, Fields
    <3>2. \A sp \in Spaces :
            /\ d.ack_needed[sp] => i.ack_needed[sp] \/ (sp = p.type /\ Eliciting(p))
            /\ d.key[sp] = i.key[sp] \/ (sp = "handshake" /\ p.done /\ d.key[sp] = "discarded")
            /\ d.received[sp] \subseteq i.received[sp] \cup (IF sp = p.type THEN {p.pn} ELSE {})
      BY <1>14, <3>1
    <3>3. d.can_send = (i.can_send \/ (p.type = "handshake" /\ ~d.failed /\ d.tls_complete))
      <4>1. d.can_send = (read.can_send \/ read.tls_complete)
        BY <2>1, <2>6
      <4> QED
        BY <1>16, <1>18, <2>2, <4>1
    <3> QED
      BY <1>1, <1>15, <1>16, <1>18, <2>1, <2>2, <2>3, <2>4, <2>6, <3>1, <3>2, <3>3 DEF Heard
  <2> QED
    BY <2>5, <2>6 DEF Sides
<1> QED
  BY <1>17, <1>18

(***************************************************************************)
(* The loops: a set for every turn that the turn leads to                  *)
(***************************************************************************)
LEMMA PollLoop ==
  ASSUME NEW c, NEW side, Len(c.events) \in Nat,
         NEW Ts, [c EXCEPT !.events = <<>>] \in Ts[0],
         \A i \in 1 .. Len(c.events) : \A d \in Ts[i - 1] :
           OnEvent(d, side, c.events[i]) \in Ts[i]
  PROVE  Polled(c, side) \in Ts[Len(c.events)]
<1> DEFINE n == Len(c.events)
           base == [c EXCEPT !.events = <<>>]
           Loop(f) == f = [i \in 0 .. n |-> IF i = 0 THEN base
                                            ELSE OnEvent(f[i - 1], side, c.events[i])]
           step == [i \in 1 .. n |-> [d \in Ts[i - 1] |-> OnEvent(d, side, c.events[i])]]
<1>0. n \in Nat /\ base \in Ts[0]
  OBVIOUS
<1>1. \A i \in 1 .. n : \A d \in Ts[i - 1] : OnEvent(d, side, c.events[i]) \in Ts[i]
  OBVIOUS
<1> HIDE DEF n, base
<1>2. \A i \in 1 .. n : \A d \in Ts[i - 1] : step[i][d] = OnEvent(d, side, c.events[i])
  OBVIOUS
<1>3. Steps(Ts, base, n, step)
  <2>1. \A i \in 1 .. n : step[i] \in [Ts[i - 1] -> Ts[i]]
    <3> SUFFICES ASSUME NEW i \in 1 .. n PROVE step[i] \in [Ts[i - 1] -> Ts[i]]
      OBVIOUS
    <3>1. step[i] = [d \in Ts[i - 1] |-> OnEvent(d, side, c.events[i])]
      OBVIOUS
    <3> HIDE DEF step
    <3> QED
      BY <1>1, <3>1
  <2> HIDE DEF step
  <2> QED
    BY <1>0, <2>1 DEF Steps
<1> HIDE DEF step
<1>4. PICK f : Follows(f, Ts, base, n, step)
  BY <1>3, RecursionExists
<1>5. ASSUME NEW i \in 0 .. n
      PROVE  f[i] = IF i = 0 THEN base ELSE OnEvent(f[i - 1], side, c.events[i])
  <2>1. CASE i = 0
    BY <1>4, <2>1 DEF Follows
  <2>2. CASE i # 0
    <3>1. i \in 1 .. n /\ i - 1 \in 0 .. n
      BY <1>0, <2>2
    <3>2. f[i - 1] \in Ts[i - 1] /\ f[i] = step[i][f[i - 1]]
      BY <1>4, <3>1 DEF Follows
    <3> QED
      BY <1>2, <2>2, <3>1, <3>2
  <2> QED
    BY <2>1, <2>2
<1>6. Loop(f)
  BY <1>4, <1>5 DEF Follows
<1>7. PICK g : g = (CHOOSE h : Loop(h))
  OBVIOUS
<1>8. Loop(g)
  <2> HIDE DEF Loop
  <2> QED
    BY <1>6, <1>7
<1>9. Polled(c, side) = g[n]
  BY <1>7 DEF Polled, base, n
<1> DEFINE S == {i \in 0 .. n : g[i] \in Ts[i]}
<1>10. 0 \in S
  BY <1>0, <1>8
<1>11. \A i \in 1 .. n : i - 1 \in S => i \in S
  <2> SUFFICES ASSUME NEW i \in 1 .. n, i - 1 \in S PROVE i \in S
    OBVIOUS
  <2>0. i \in 0 .. n /\ i # 0
    BY <1>0
  <2>1. g[i] = OnEvent(g[i - 1], side, c.events[i])
    BY <1>8, <2>0, Zenon
  <2>2. g[i - 1] \in Ts[i - 1]
    OBVIOUS
  <2> HIDE DEF Loop
  <2> QED
    BY <1>1, <2>0, <2>1, <2>2
<1> HIDE DEF S
<1>12. n \in S
  <2>1. 0 .. n \subseteq S
    BY <1>0, <1>10, <1>11, InductionUpTo
  <2> QED
    BY <1>0, <2>1
<1> QED
  BY <1>9, <1>12 DEF S, n

LEMMA ReadLoop ==
  ASSUME NEW c, NEW side, NEW packets, Len(packets) \in Nat, NEW size,
         NEW Ts, c \in Ts[0],
         \A i \in 1 .. Len(packets) : \A d \in Ts[i - 1] :
           ReadPacket(d, side, packets[i], IF i = 1 THEN size ELSE 0) \in Ts[i]
  PROVE  ReadAll(c, side, packets, size) \in Ts[Len(packets)]
<1> DEFINE n == Len(packets)
           Read(d, i) == ReadPacket(d, side, packets[i], IF i = 1 THEN size ELSE 0)
           Loop(f) == f = [i \in 0 .. n |->
                             IF i = 0 THEN c
                             ELSE ReadPacket(f[i - 1], side, packets[i],
                                             IF i = 1 THEN size ELSE 0)]
           step == [i \in 1 .. n |-> [d \in Ts[i - 1] |-> Read(d, i)]]
<1>0. n \in Nat /\ c \in Ts[0]
  OBVIOUS
<1>1. \A i \in 1 .. n : \A d \in Ts[i - 1] : Read(d, i) \in Ts[i]
  OBVIOUS
<1> HIDE DEF n
<1>2. \A i \in 1 .. n : \A d \in Ts[i - 1] : step[i][d] = Read(d, i)
  OBVIOUS
<1>3. Steps(Ts, c, n, step)
  <2>1. \A i \in 1 .. n : step[i] \in [Ts[i - 1] -> Ts[i]]
    <3> SUFFICES ASSUME NEW i \in 1 .. n PROVE step[i] \in [Ts[i - 1] -> Ts[i]]
      OBVIOUS
    <3>1. step[i] = [d \in Ts[i - 1] |-> Read(d, i)]
      OBVIOUS
    <3> HIDE DEF step, Read
    <3> QED
      BY <1>1, <3>1
  <2> HIDE DEF step
  <2> QED
    BY <1>0, <2>1 DEF Steps
<1> HIDE DEF step
<1>4. PICK f : Follows(f, Ts, c, n, step)
  BY <1>3, RecursionExists
<1>5. ASSUME NEW i \in 0 .. n
      PROVE  f[i] = IF i = 0 THEN c
                    ELSE ReadPacket(f[i - 1], side, packets[i], IF i = 1 THEN size ELSE 0)
  <2>1. CASE i = 0
    BY <1>4, <2>1 DEF Follows
  <2>2. CASE i # 0
    <3>1. i \in 1 .. n /\ i - 1 \in 0 .. n
      BY <1>0, <2>2
    <3>2. f[i - 1] \in Ts[i - 1] /\ f[i] = step[i][f[i - 1]]
      BY <1>4, <3>1 DEF Follows
    <3> QED
      BY <1>2, <2>2, <3>1, <3>2
  <2> QED
    BY <2>1, <2>2
<1>6. Loop(f)
  BY <1>4, <1>5 DEF Follows
<1>7. PICK g : g = (CHOOSE h : Loop(h))
  OBVIOUS
<1>8. Loop(g)
  <2> HIDE DEF Loop
  <2> QED
    BY <1>6, <1>7
<1>9. ReadAll(c, side, packets, size) = g[n]
  BY <1>7 DEF ReadAll, n
<1> DEFINE S == {i \in 0 .. n : g[i] \in Ts[i]}
<1>10. 0 \in S
  BY <1>0, <1>8
<1>11. \A i \in 1 .. n : i - 1 \in S => i \in S
  <2> SUFFICES ASSUME NEW i \in 1 .. n, i - 1 \in S PROVE i \in S
    OBVIOUS
  <2>1. g[i] = Read(g[i - 1], i) /\ i \in 0 .. n
    BY <1>0, <1>8
  <2>2. g[i - 1] \in Ts[i - 1]
    OBVIOUS
  <2> HIDE DEF Loop, Read
  <2> QED
    BY <1>1, <2>1, <2>2
<1> HIDE DEF S
<1>12. n \in S
  <2>1. 0 .. n \subseteq S
    BY <1>0, <1>10, <1>11, InductionUpTo
  <2> QED
    BY <1>0, <2>1
<1> QED
  BY <1>9, <1>12 DEF S, n

(***************************************************************************)
(* What a client reads                                                     *)
(***************************************************************************)
\* A client in the middle of a datagram, after it was b: once its TLS was
\* complete it stays so, and TLS has nothing to say again.
ClientReads(b, c, s) ==
  /\ c.v2 = b.v2 /\ ClientAgrees(c, s)
  /\ b.tls_complete => c.tls_complete /\ c.events = <<>>
  /\ \A sp \in Spaces : b.key[sp] = "discarded" => c.key[sp] = "discarded"

\* The fields it does not speak of.
ClientRest == Fields \ {"v2", "version", "original", "checked", "told", "state", "key", "rx",
                        "events", "tls_complete"}

LEMMA ClientSame ==
  ASSUME NEW b, NEW c, NEW d, NEW s, ClientReads(b, c, s), Touches(c, d, ClientRest)
  PROVE  ClientReads(b, d, s)
<1>1. /\ d.v2 = c.v2 /\ d.version = c.version /\ d.original = c.original
      /\ d.checked = c.checked /\ d.told = c.told /\ d.state = c.state /\ d.key = c.key
      /\ d.rx = c.rx /\ d.events = c.events /\ d.tls_complete = c.tls_complete
  BY DEF Touches, Fields, ClientRest
<1> QED
  BY <1>1 DEF ClientReads, ClientAgrees, Offered

LEMMA QueueNothing ==
  ASSUME NEW queue, queue = <<>>, NEW new, new = <<>>
  PROVE  QueueEvents(queue, new) = <<>>
<1>1. queue \o new = <<>>
  OBVIOUS
<1> QED
  BY <1>1, TlsAssumption DEF QueueEvents

\* A packet of the server.
LEMMA ClientHears ==
  ASSUME NEW b, NEW c \in Conn, NEW d \in Conn, NEW s \in Conn,
         ClientReads(b, c, s), c.state # "absent",
         NEW p \in Packet, p.type \in Spaces, FromServer(p, s),
         p.finished => p.type = "handshake", p.done => b.tls_complete,
         p.type = "handshake" => c.version = s.version /\ (BoringSSL => c.rx["initial"] >= 1),
         Heard(c, d, "client", p)
  PROVE  ClientReads(b, d, s)
<1>1. /\ d.v2 = c.v2 /\ d.original = c.original /\ d.told = c.told
  BY DEF Heard, Touches, Fields, HeardFields, FrameFields
<1>2. HeardCrypto(c, d, "client", p) /\ "client" # "server"
  BY DEF Heard
<1>3. d.version = c.version
  BY <1>2 DEF HeardCrypto, Checked
<1>4. d.checked => c.checked \/ p.type = "handshake"
  BY <1>2 DEF HeardCrypto, Checked, CheckDue
<1>5. /\ c.rx \in [Spaces -> Nat] /\ d.rx \in [Spaces -> Nat] /\ s.tx \in [Spaces -> Nat]
      /\ p.finished \in BOOLEAN /\ "initial" \in Spaces /\ "handshake" \in Spaces
      /\ c.tls_complete \in BOOLEAN
  BY ConnFields DEF Packet, Spaces
<1>6. \A sp \in Spaces : d.rx[sp] >= c.rx[sp]
  BY <1>2, <1>5 DEF HeardCrypto
<1>7. d.tls_complete => /\ d.rx["handshake"] >= s.tx["handshake"]
                        /\ BoringSSL => d.rx["initial"] >= 1
  <2>1. CASE c.tls_complete
    <3>1. /\ c.rx["handshake"] >= s.tx["handshake"]
          /\ BoringSSL => c.rx["initial"] >= 1
      BY <2>1 DEF ClientReads, ClientAgrees
    <3> QED
      BY <1>5, <1>6, <3>1
  <2>2. CASE ~c.tls_complete /\ d.tls_complete
    <3>1. InOrder(c, p) /\ p.finished
      BY <1>2, <2>2 DEF HeardCrypto
    <3>2. p.crypto = c.rx["handshake"] /\ p.crypto = s.tx["handshake"] - 1 /\ p.type = "handshake"
      BY <3>1 DEF InOrder, FromServer
    <3>3. d.rx["handshake"] = c.rx["handshake"] + 1
      BY <1>2, <1>5, <3>1, <3>2 DEF HeardCrypto
    <3>4. d.rx["handshake"] >= s.tx["handshake"]
      <4>1. s.tx["handshake"] \in Nat /\ c.rx["handshake"] \in Nat
        BY <1>5
      <4>2. c.rx["handshake"] = s.tx["handshake"] - 1
        BY <3>2
      <4> QED
        BY ONLY <3>3, <4>1, <4>2
    <3>5. BoringSSL => d.rx["initial"] >= 1
      <4>1. c.rx["initial"] \in Nat /\ d.rx["initial"] \in Nat /\ d.rx["initial"] >= c.rx["initial"]
        BY <1>5, <1>6
      <4>2. BoringSSL => c.rx["initial"] >= 1
        BY <3>2
      <4> QED
        BY <4>1, <4>2
    <3> QED
      BY <3>4, <3>5
  <2> QED
    BY <2>1, <2>2
<1>8. c.tls_complete => d.tls_complete
  BY <1>2 DEF HeardCrypto
<1>9. \A sp \in Spaces : d.key[sp] = c.key[sp] \/ (sp = "handshake" /\ p.done /\ d.key[sp] = "discarded")
  BY <1>2 DEF Heard
<1>10. \A sp \in Spaces : d.key[sp] = "discarded" => d.tls_complete /\ sp # "app"
  BY <1>8, <1>9 DEF ClientReads, ClientAgrees
<1>11. ASSUME b.tls_complete PROVE d.events = <<>>
  <2>1. c.tls_complete /\ c.events = <<>>
    BY <1>11 DEF ClientReads
  <2>2. CASE ~InOrder(c, p)
    BY <1>2, <2>1, <2>2 DEF HeardCrypto
  <2>3. CASE InOrder(c, p)
    <3>1. /\ c.rx["handshake"] >= s.tx["handshake"] /\ (BoringSSL => c.rx["initial"] >= 1)
      BY <2>1 DEF ClientReads, ClientAgrees
    <3>2. ~(p.type = "handshake" /\ p.finished)
      BY <1>5, <2>3, <3>1 DEF InOrder, FromServer
    <3>3. ~(p.type = "initial" /\ c.rx[p.type] = 0)
      BY <1>5, <2>3, <3>1 DEF InOrder, FromServer
    <3>4. Answer(c, "client", p) = <<>>
      BY <3>2, <3>3 DEF Answer, ClientEvents
    <3> QED
      BY <1>2, <2>1, <2>3, <3>4, QueueNothing DEF HeardCrypto
  <2> QED
    BY <2>2, <2>3
<1>12. ClientAgrees(d, s)
  <2>1. c.told.chosen = 1 /\ c.told.available = Offered(c) /\ Offered(c) = Offered(d)
    BY <1>1 DEF ClientReads, ClientAgrees, Offered
  <2>2. d.original = 1 /\ (d.version = 1 \/ (s.checked /\ d.version = s.version))
    BY <1>1, <1>3 DEF ClientReads, ClientAgrees
  <2>3. d.checked => s.checked /\ d.version = s.version
    BY <1>3, <1>4 DEF ClientReads, ClientAgrees, FromServer
  <2> QED
    BY <1>1, <1>7, <1>10, <2>1, <2>2, <2>3 DEF ClientAgrees
<1> QED
  BY <1>1, <1>8, <1>9, <1>11, <1>12 DEF ClientReads

\* A Retry.
LEMMA RestartHas ==
  ASSUME NEW c \in Conn, NEW p \in Packet, NEW d, d = RestartAfterRetry(c, p)
  PROVE  /\ d \in Conn /\ d.v2 = c.v2 /\ d.version = 1 /\ d.original = 1 /\ ~d.checked
         /\ d.told.chosen = 1 /\ d.told.available = Offered(c) /\ d.told.retry = 0
         /\ ~d.tls_complete /\ \A sp \in Spaces : d.key[sp] # "discarded"
<1>1. PICK n : n = NewConn("handshaking", c.flight, c.v2)
  OBVIOUS
<1>2. c.flight \in Flights /\ c.v2 \in BOOLEAN /\ "handshaking" \in States
  BY ConnFields DEF States
<1>3. n \in Conn
  BY ONLY <1>1, <1>2, NewConnIs
<1>4. /\ n.v2 = c.v2 /\ n.version = 1 /\ n.original = 1 /\ ~n.checked /\ ~n.tls_complete
      /\ n.key = InSpaces("none")
  BY <1>1 DEF NewConn
<1>5. PICK t : t = StartTls(n, "client")
  OBVIOUS
<1>6. n \in Conn /\ "client" \in Sides
  BY <1>3 DEF Sides
<1>7. /\ t \in Conn /\ Touches(n, t, {"key", "state", "events", "told"})
      /\ t.key = [n.key EXCEPT !["initial"] = "installed"]
      /\ t.told = [chosen |-> ChosenVersion(n, "client"), available |-> AvailableVersions(n),
                   retry |-> IF "client" = "server" THEN n.retry ELSE 0]
  BY ONLY <1>5, <1>6, StartTlsHas
<1>8. /\ t.v2 = c.v2 /\ t.version = 1 /\ t.original = 1 /\ t.checked = n.checked
      /\ t.tls_complete = n.tls_complete
  BY <1>4, <1>7 DEF Touches, Fields
<1>9. \A sp \in Spaces : t.key[sp] # "discarded"
  BY <1>4, <1>7 DEF InSpaces
<1>10. PICK next \in [Spaces -> Nat] :
         next = [t.next_pn EXCEPT !["initial"] = c.next_pn["initial"]]
  <2>1. t.next_pn \in [Spaces -> Nat] /\ c.next_pn["initial"] \in Nat
    BY <1>7, ConnFields, Counters DEF Spaces
  <2> QED
    BY <2>1
<1>11. d = [t EXCEPT !.next_pn = next, !.retry = p.cid, !.token = p.cid,
                     !.bytes_sent = c.bytes_sent, !.bytes_received = c.bytes_received]
  BY <1>1, <1>5, <1>10, Zenon DEF RestartAfterRetry
<1>12. p.cid \in Nat /\ c.bytes_sent \in Nat /\ c.bytes_received \in Nat /\ t \in Conn
  BY <1>7, ConnFields DEF Packet
<1>13. /\ d \in Conn
       /\ Touches(t, d, {"next_pn", "retry", "token", "bytes_sent", "bytes_received"})
  BY ONLY <1>11, <1>12, next \in [Spaces -> Nat] DEF Conn, Touches, Fields
<1>14. /\ d.v2 = t.v2 /\ d.version = t.version /\ d.original = t.original
       /\ d.checked = t.checked /\ d.tls_complete = t.tls_complete /\ d.key = t.key
       /\ d.told = t.told
  BY <1>13 DEF Touches, Fields
<1>15. /\ t.told.chosen = ChosenVersion(n, "client") /\ t.told.available = AvailableVersions(n)
       /\ t.told.retry = 0
  BY <1>7
<1>16. AvailableVersions(n) = Offered(c) /\ ChosenVersion(n, "client") = 1
  <2>1. AvailableVersions(n) = Offered(c)
    BY <1>4 DEF AvailableVersions, Offered
  <2> QED
    BY <1>4, <2>1 DEF ChosenVersion
<1> QED
  BY <1>4, <1>8, <1>9, <1>13, <1>14, <1>15, <1>16

LEMMA ClientRestarts ==
  ASSUME NEW b, NEW c \in Conn, NEW s \in Conn, ClientReads(b, c, s), ~c.tls_complete,
         NEW p \in Packet, NEW d, d = RestartAfterRetry(c, p)
  PROVE  ClientReads(b, d, s)
<1>1. /\ d.v2 = c.v2 /\ d.version = 1 /\ d.original = 1 /\ ~d.checked
      /\ d.told.chosen = 1 /\ d.told.available = Offered(c)
      /\ ~d.tls_complete /\ \A sp \in Spaces : d.key[sp] # "discarded"
  BY RestartHas
<1>2. Offered(c) = Offered(d)
  BY <1>1 DEF Offered
<1>3. \A sp \in Spaces : b.key[sp] # "discarded"
  BY DEF ClientReads, ClientAgrees
<1> QED
  BY <1>1, <1>2, <1>3 DEF ClientReads, ClientAgrees

\* The ways a packet can go.
LEMMA CountHas ==
  ASSUME NEW c \in Conn, NEW size \in Nat,
         NEW d, d = [c EXCEPT !.bytes_received = c.bytes_received + size]
  PROVE  /\ d \in Conn /\ Touches(c, d, {"bytes_received"})
         /\ d.bytes_received = c.bytes_received + size
<1>1. PICK n \in Nat : n = c.bytes_received + size
  BY ConnFields
<1>2. d = [c EXCEPT !.bytes_received = n]
  BY <1>1
<1> QED
  BY ONLY <1>1, <1>2, c \in Conn, n \in Nat DEF Conn, Touches, Fields

LEMMA OnPacketIs ==
  ASSUME NEW c \in Conn, NEW side \in Sides, NEW p \in Packet, NEW size \in Nat,
         NEW d, d = [c EXCEPT !.bytes_received = c.bytes_received + size],
         NEW e, e = FollowVersion(d, side, p),
         NEW f, f = OnPacket(c, side, p, size)
  PROVE  \/ p.type = "retry" /\ f = OnRetry(d, side, p)
         \/ p.type = "app" /\ ~c.can_send /\ f = Fail(d)
         \/ p.type \in Spaces /\ e.failed /\ f = e
         \/ /\ p.type = "handshake" /\ ~e.failed /\ e.learned /\ p.version # e.version
            /\ f = e
         \/ /\ p.type \in Spaces /\ ~e.failed /\ (p.type = "app" => c.can_send)
            /\ p.type = "handshake" /\ e.learned => p.version = e.version
            /\ f = Process(e, side, p)
<1>1. p.type \in Spaces \cup {"retry"} /\ "retry" \notin Spaces
  BY DEF Packet, Types, Spaces
<1>2. f = CASE p.type = "retry"                            -> OnRetry(d, side, p)
            [] p.type = "app" /\ ~c.can_send                -> Fail(d)
            [] p.type \in Spaces /\ e.failed                -> e
            [] p.type = "handshake" /\ ~e.failed /\ e.learned /\ p.version # e.version -> e
            [] OTHER                                        -> Process(e, side, p)
  BY DEF OnPacket
<1>3. CASE p.type = "retry"
  <2>1. p.type # "app" /\ p.type \notin Spaces /\ p.type # "handshake"
    BY <1>1, <1>3
  <2>2. f = OnRetry(d, side, p)
    BY <1>2, <1>3, <2>1
  <2> QED
    BY <1>3, <2>2
<1>4. CASE p.type \in Spaces
  <2>1. p.type # "retry"
    BY <1>1, <1>4
  <2>2. CASE p.type = "app" /\ ~c.can_send
    <3>1. \/ f = Fail(d)
          \/ f = e /\ e.failed
      BY <1>2, <1>4, <2>1, <2>2
    <3> QED
      BY <1>4, <2>2, <3>1
  <2>3. CASE e.failed /\ ~(p.type = "app" /\ ~c.can_send)
    BY <1>2, <1>4, <2>1, <2>3
  <2>4. CASE /\ ~e.failed /\ ~(p.type = "app" /\ ~c.can_send)
             /\ p.type = "handshake" /\ e.learned /\ p.version # e.version
    BY <1>2, <1>4, <2>1, <2>4
  <2>5. CASE /\ ~e.failed /\ ~(p.type = "app" /\ ~c.can_send)
             /\ ~(p.type = "handshake" /\ e.learned /\ p.version # e.version)
    <3>1. f = Process(e, side, p)
      BY <1>2, <1>4, <2>1, <2>5
    <3> QED
      BY <1>4, <2>5, <3>1
  <2> QED
    BY <2>2, <2>3, <2>4, <2>5
<1> QED
  BY <1>1, <1>3, <1>4

\* One turn of the client's packet loop.
LEMMA ClientReadsPacket ==
  ASSUME NEW b, NEW c \in Conn, NEW s \in Conn, ClientReads(b, c, s),
         c.state \notin {"absent", "pre_validation"}, s.state = "absent" => Alone(c),
         NEW p \in Packet,
         p.type # "retry" => /\ FromServer(p, s)
                             /\ p.finished => p.type = "handshake"
                             /\ p.done => b.tls_complete,
         p.type = "retry" /\ c.retry = 0 => s.state = "absent",
         NEW size \in Nat, NEW f, f = ReadPacket(c, "client", p, size)
  PROVE  ClientReads(b, f, s)
<1>1. CASE c.failed
  BY <1>1 DEF ReadPacket
<1>2. CASE ~c.failed /\ ~CanDecode(c, "client", p)
  <2>1. f = Fail(c)
    BY <1>2 DEF ReadPacket
  <2>2. Touches(c, f, {"failed"})
    BY <2>1, FailHas
  <2>3. Touches(c, f, ClientRest)
    BY <2>2, TouchesMore DEF ClientRest, Fields
  <2> QED
    BY <2>3, ClientSame
<1>3. CASE ~c.failed /\ CanDecode(c, "client", p)
  <2>1. f = OnPacket(c, "client", p, size) /\ "client" \in Sides
    BY <1>3 DEF ReadPacket, Sides
  <2>2. PICK d : d = [c EXCEPT !.bytes_received = c.bytes_received + size]
    OBVIOUS
  <2>3. d \in Conn /\ Touches(c, d, {"bytes_received"})
    BY ONLY <2>2, c \in Conn, size \in Nat, CountHas
  <2>4. ClientReads(b, d, s)
    <3>1. Touches(c, d, ClientRest)
      BY <2>3, TouchesMore DEF ClientRest, Fields
    <3> QED
      BY <3>1, ClientSame
  <2>5. /\ d.state = c.state /\ d.rx = c.rx /\ d.retry = c.retry /\ d.failed = c.failed
        /\ d.tls_complete = c.tls_complete /\ d.version = c.version
    BY <2>3 DEF Touches, Fields
  <2>6. PICK e : e = FollowVersion(d, "client", p)
    OBVIOUS
  <2>7. /\ e \in Conn /\ Touches(d, e, {"version", "learned", "failed"})
        /\ IF "client" = "server" \/ p.type = "app" \/ p.version = d.version THEN e = d
           ELSE IF p.version \in d.told.available
                THEN e.version = p.version /\ e.learned /\ e.failed = d.failed
                ELSE e = Fail(d)
    BY ONLY <2>3, <2>6, p \in Packet, FollowVersionHas
  <2>8. \/ p.type = "retry" /\ f = OnRetry(d, "client", p)
        \/ p.type = "app" /\ ~c.can_send /\ f = Fail(d)
        \/ p.type \in Spaces /\ e.failed /\ f = e
        \/ /\ p.type = "handshake" /\ ~e.failed /\ e.learned /\ p.version # e.version
           /\ f = e
        \/ /\ p.type \in Spaces /\ ~e.failed /\ (p.type = "app" => c.can_send)
           /\ p.type = "handshake" /\ e.learned => p.version = e.version
           /\ f = Process(e, "client", p)
    BY ONLY <2>1, <2>2, <2>6, c \in Conn, p \in Packet, size \in Nat, OnPacketIs
  <2>9. ClientReads(b, Fail(d), s)
    <3>1. Touches(d, Fail(d), {"failed"})
      BY <2>3, FailHas
    <3>2. Touches(d, Fail(d), ClientRest)
      BY <3>1, TouchesMore DEF ClientRest, Fields
    <3> QED
      BY <2>4, <3>2, ClientSame
  <2>10. CASE p.type = "retry"
    <3>1. f = OnRetry(d, "client", p)
      BY <2>8, <2>10 DEF Spaces
    <3>2. CASE d.saw_initial \/ p.version # d.version
      <4>1. f = Fail(d)
        BY <3>1, <3>2 DEF OnRetry
      <4> QED
        BY <2>9, <4>1
    <3>3. CASE ~(d.saw_initial \/ p.version # d.version)
      <4>1. f = RestartAfterRetry(d, p)
        BY <3>1, <3>3 DEF OnRetry
      <4>2. ~d.tls_complete
        BY <1>3, <2>5, <2>10 DEF CanDecode, Alone
      <4> QED
        BY <2>3, <2>4, <4>1, <4>2, ClientRestarts
    <3> QED
      BY <3>2, <3>3
  <2>11. CASE p.type # "retry"
    <3>0. p.type \in Spaces
      BY <2>11 DEF Packet, Types
    <3>1. FromServer(p, s) /\ (p.finished => p.type = "handshake") /\ (p.done => b.tls_complete)
      BY <2>11
    <3>2. /\ e.v2 = d.v2 /\ e.original = d.original /\ e.checked = d.checked /\ e.told = d.told
          /\ e.state = d.state /\ e.key = d.key /\ e.rx = d.rx /\ e.events = d.events
          /\ e.tls_complete = d.tls_complete
      BY <2>7 DEF Touches, Fields
    <3>3. e.version = d.version \/ (e.version = p.version /\ p.version = s.version)
      <4>1. Fail(d).version = d.version
        BY <2>3, FailHas DEF Touches, Fields
      <4> QED
        BY <2>7, <3>1, <4>1 DEF FromServer
    <3>4. ClientReads(b, e, s)
      BY <2>4, <3>1, <3>2, <3>3 DEF ClientReads, ClientAgrees, Offered, FromServer
    <3>5. CASE f = e
      BY <3>4, <3>5
    <3>6. CASE f = Fail(d)
      BY <2>9, <3>6
    <3>7. CASE ~e.failed /\ f = Process(e, "client", p)
      <4>1. e.state \notin {"absent", "pre_validation"}
        BY <2>5, <3>2
      <4>2. f \in Conn /\ Heard(SetUp(e, p), f, "client", p)
        BY <2>1, <2>7, <3>0, <3>7, ProcessHas
      <4>3. SetUp(e, p) = e
        BY <4>1 DEF SetUp
      <4>4. p.type = "handshake" => e.version = s.version /\ (BoringSSL => e.rx["initial"] >= 1)
        <5>1. ASSUME p.type = "handshake" PROVE e.version = p.version
          <6>1. ~Fail(d).failed => FALSE
            BY <2>3, FailHas
          <6> QED
            BY <2>7, <3>7, <5>1, <6>1
        <5>2. ASSUME p.type = "handshake", BoringSSL PROVE c.rx["initial"] > 0
          BY <1>3, <5>2 DEF CanDecode, HasReadSecret
        <5>3. c.rx["initial"] \in Nat
          BY Counters DEF Spaces
        <5> QED
          BY <2>5, <3>1, <3>2, <5>1, <5>2, <5>3 DEF FromServer
      <4> QED
        BY <2>7, <3>0, <3>1, <3>4, <4>1, <4>2, <4>3, <4>4, ClientHears
    <3> QED
      BY <2>8, <2>11, <3>5, <3>6, <3>7
  <2> QED
    BY <2>10, <2>11
<1> QED
  BY <1>1, <1>2, <1>3

LEMMA HasReadStep ==
  ASSUME NEW c \in Conn, NEW d \in Conn, NEW o \in Conn, NEW side \in Sides,
         NEW packets \in Seq(Packet), NEW i \in DOMAIN packets,
         Incoming(packets[i], c, o, side), NEW size \in Nat,
         HasRead(c, d, o, side, packets)
           \/ (d = c /\ Reading(c, c, o, side) /\ Settled(c, side) /\ c.state # "absent"),
         d.state = "pre_validation" =>
           ~d.failed /\ side = "server" /\ packets[i].type = "initial" /\ packets[i].cid = o.retry,
         NEW e, e = ReadPacket(d, side, packets[i], size)
  PROVE  e \in Conn /\ HasRead(c, e, o, side, packets) /\ Incoming(packets[i], d, o, side)
<1>1. /\ Reading(c, d, o, side) /\ Settled(d, side) /\ d.state # "absent"
      /\ side = "client" =>
           \/ d.retry = c.retry
           \/ \E j \in DOMAIN packets : packets[j].type = "retry" /\ d.retry = packets[j].cid
  BY DEF HasRead
<1>2. PICK p : p = packets[i]
  OBVIOUS
<1>3. Incoming(p, d, o, side)
  <2>1. Evolves(c, d, o, side) /\ Incoming(p, c, o, side)
    BY <1>1, <1>2 DEF Reading, Good
  <2> QED
    BY <2>1, IncomingStays
<1>4. /\ Reading(c, e, o, side) /\ Settled(e, side)
      /\ e.state \notin {"absent", "pre_validation"}
      /\ side = "client" => e.retry = d.retry \/ (p.type = "retry" /\ e.retry = p.cid)
  BY <1>1, <1>2, <1>3, ReadPacketReads
<1> QED
  BY <1>1, <1>2, <1>3, <1>4 DEF HasRead, Reading, Good

LEMMA ClientReadsAll ==
  ASSUME NEW c \in Conn, NEW s \in Conn, Reading(c, c, s, "client"), Settled(c, "client"),
         c.state \notin {"absent", "pre_validation"},
         NEW packets \in Seq(Packet), NEW size \in Nat,
         \A i \in DOMAIN packets : /\ Incoming(packets[i], c, s, "client")
                                   /\ packets[i].type = "retry" \/ FromServer(packets[i], s),
         ClientReads(c, c, s), s.confirmed => c.tls_complete,
         NEW e, e = ReadAll(c, "client", packets, size)
  PROVE  e \in Conn /\ HasRead(c, e, s, "client", packets) /\ ClientReads(c, e, s)
<1> DEFINE T == {d \in Conn : HasRead(c, d, s, "client", packets) /\ ClientReads(c, d, s)}
           n == Len(packets)
           Ts == [i \in 0 .. n |-> T]
<1>1. n \in Nat /\ DOMAIN packets = 1 .. n /\ Peer("client") = "server"
  BY PeerIs
<1>2. c \in T
  BY DEF HasRead
<1>3. ASSUME NEW d \in T, NEW i \in 1 .. n
      PROVE  ReadPacket(d, "client", packets[i], IF i = 1 THEN size ELSE 0) \in T
  <2>1. PICK z \in Nat : z = IF i = 1 THEN size ELSE 0
    OBVIOUS
  <2>2. PICK f : f = ReadPacket(d, "client", packets[i], z)
    OBVIOUS
  <2>3. /\ i \in DOMAIN packets /\ "client" \in Sides /\ d \in Conn
        /\ Incoming(packets[i], c, s, "client") /\ HasRead(c, d, s, "client", packets)
        /\ d.state \notin {"absent", "pre_validation"}
    BY <1>1 DEF Sides, HasRead
  <2>4. f \in Conn /\ HasRead(c, f, s, "client", packets) /\ Incoming(packets[i], d, s, "client")
    BY <2>2, <2>3, HasReadStep
  <2>5. ClientReads(c, d, s)
    OBVIOUS
  <2>6. PICK p \in Packet : p = packets[i]
    BY <1>1
  <2>7. PacketOK(p, s, d, "server") \/ (p.type = "retry" /\ (d.retry = 0 => s.state = "absent"))
    BY <1>1, <2>4, <2>6 DEF Incoming
  <2>8. PacketOK(p, s, d, "server") => p.type # "retry"
    BY DEF PacketOK, Spaces
  <2>9. p.type # "retry" => /\ FromServer(p, s) /\ (p.finished => p.type = "handshake")
                            /\ p.done => c.tls_complete
    BY <2>3, <2>6, <2>7 DEF PacketOK
  <2>10. s.state = "absent" => Alone(d)
    BY <2>3 DEF HasRead, Reading, Good, PeerOK
  <2>11. ClientReads(c, f, s)
    BY ONLY <2>1, <2>2, <2>3, <2>5, <2>6, <2>7, <2>8, <2>9, <2>10, s \in Conn, ClientReadsPacket
  <2> QED
    BY <2>1, <2>2, <2>4, <2>11
<1> HIDE DEF T
<1>4. /\ \A i \in 1 .. n : i - 1 \in 0 .. n /\ i \in 0 .. n
      /\ 0 \in 0 .. n /\ n \in 0 .. n /\ \A i \in 0 .. n : Ts[i] = T
  BY <1>1
<1> HIDE DEF Ts
<1>5. \A i \in 1 .. n : \A d \in Ts[i - 1] :
        ReadPacket(d, "client", packets[i], IF i = 1 THEN size ELSE 0) \in Ts[i]
  BY <1>3, <1>4
<1>6. c \in Ts[0]
  BY <1>2, <1>4
<1>7. e \in Ts[n]
  BY <1>1, <1>5, <1>6, ReadLoop
<1> QED
  BY <1>4, <1>7 DEF T

(***************************************************************************)
(* What a server reads                                                     *)
(***************************************************************************)
\* What TLS may have to say once the ClientHello is read: nothing in the Initial
\* and the Handshake space.
Later == {"write_app", "install_one_rtt", "complete"}

\* After the Finished nothing more is written in the Handshake space.
FinishedLast(events) ==
  \A j, k \in DOMAIN events :
    j < k /\ events[j] = "write_finished" => events[k] \notin {"write_handshake", "write_finished"}

LEMMA ConcatHas ==
  ASSUME NEW S, NEW s \in Seq(S), NEW t \in Seq(S), NEW r, r = s \o t
  PROVE  /\ r \in Seq(S) /\ Len(r) = Len(s) + Len(t) /\ DOMAIN r = 1 .. Len(s) + Len(t)
         /\ \A i \in 1 .. Len(s) : r[i] = s[i]
         /\ \A i \in 1 .. Len(t) : r[Len(s) + i] = t[i]
<1>1. r \in Seq(S) /\ Len(r) = Len(s) + Len(t) /\ Len(s) \in Nat /\ Len(t) \in Nat
  OBVIOUS
<1>2. DOMAIN r = 1 .. Len(s) + Len(t)
  BY <1>1
<1>3. \A i \in 1 .. Len(s) : r[i] = s[i]
  OBVIOUS
<1>4. ASSUME NEW i \in 1 .. Len(t) PROVE r[Len(s) + i] = t[i]
  <2>1. Len(s) + i \in 1 .. Len(s) + Len(t) /\ (Len(s) + i) - Len(s) = i /\ Len(s) + i > Len(s)
    BY <1>1
  <2> QED
    BY <2>1
<1> QED
  BY <1>1, <1>2, <1>3, <1>4

LEMMA QueueHas ==
  ASSUME NEW queue \in Seq(TlsEvents), Len(queue) <= MaxEvents, NEW new \in Seq(TlsEvents),
         NEW q, q = QueueEvents(queue, new)
  PROVE  /\ q \in Seq(TlsEvents) /\ Len(q) <= MaxEvents
         /\ Len(queue) <= Len(q) /\ \A i \in DOMAIN queue : q[i] = queue[i]
         /\ \A i \in DOMAIN q : i > Len(queue) =>
              i - Len(queue) \in DOMAIN new /\ q[i] = new[i - Len(queue)]
         /\ Len(queue) + Len(new) <= MaxEvents => Len(q) = Len(queue) + Len(new)
<1>1. PICK s : s = queue \o new
  OBVIOUS
<1>2. /\ s \in Seq(TlsEvents) /\ Len(s) = Len(queue) + Len(new)
      /\ \A i \in DOMAIN queue : s[i] = queue[i]
      /\ \A i \in DOMAIN s : i > Len(queue) =>
           i - Len(queue) \in DOMAIN new /\ s[i] = new[i - Len(queue)]
  BY <1>1
<1>3. MaxEvents \in Nat /\ Len(queue) \in Nat /\ Len(new) \in Nat
  BY TlsAssumption
<1>4. PICK n \in Nat : n = IF Len(s) <= MaxEvents THEN Len(s) ELSE MaxEvents
  BY <1>2, <1>3
<1>5. q = SubSeq(s, 1, n) /\ n <= Len(s)
  BY <1>1, <1>2, <1>3, <1>4 DEF QueueEvents
<1>6. q \in Seq(TlsEvents) /\ Len(q) = n /\ \A i \in 1 .. n : q[i] = s[i]
  BY <1>2, <1>5
<1>7. DOMAIN q = 1 .. n /\ DOMAIN s = 1 .. Len(s) /\ DOMAIN queue = 1 .. Len(queue)
  BY <1>2, <1>6
<1>8. Len(q) <= MaxEvents /\ Len(queue) <= Len(q)
      /\ (Len(queue) + Len(new) <= MaxEvents => Len(q) = Len(queue) + Len(new))
  BY <1>2, <1>3, <1>4, <1>6
<1>9. \A i \in DOMAIN queue : q[i] = queue[i]
  <2> SUFFICES ASSUME NEW i \in 1 .. Len(queue) PROVE q[i] = queue[i]
    BY <1>7
  <2>1. i \in 1 .. n
    BY <1>3, <1>6, <1>8
  <2> QED
    BY <1>2, <1>6, <1>7, <2>1
<1>10. \A i \in DOMAIN q : i > Len(queue) =>
         i - Len(queue) \in DOMAIN new /\ q[i] = new[i - Len(queue)]
  <2> SUFFICES ASSUME NEW i \in 1 .. n, i > Len(queue)
               PROVE  i - Len(queue) \in DOMAIN new /\ q[i] = new[i - Len(queue)]
    BY <1>7
  <2>1. i \in DOMAIN s
    BY <1>2, <1>5, <1>7
  <2> QED
    BY <1>2, <1>6, <2>1
<1> QED
  BY <1>6, <1>8, <1>9, <1>10

LEMMA FlightHas ==
  ASSUME NEW n \in Nat \ {0}, NEW f, f = Flight(n)
  PROVE  /\ f \in Seq(TlsEvents) /\ Len(f) = n /\ f[n] = "write_finished"
         /\ \A i \in 1 .. n - 1 : f[i] = "write_handshake"
<1>1. PICK r : r = Repeat("write_handshake", n - 1)
  OBVIOUS
<1>2. r \in Seq(TlsEvents) /\ Len(r) = n - 1 /\ \A i \in 1 .. n - 1 : r[i] = "write_handshake"
  <2>1. r = [i \in 1 .. n - 1 |-> "write_handshake"] /\ n - 1 \in Nat
    BY <1>1 DEF Repeat
  <2>2. "write_handshake" \in TlsEvents
    BY DEF TlsEvents, Writes
  <2> QED
    BY <2>1, <2>2
<1>3. f = Append(r, "write_finished") /\ "write_finished" \in TlsEvents
  BY <1>1 DEF Flight, TlsEvents, Writes
<1> QED
  BY <1>2, <1>3

\* The answer to the ClientHello, and to anything else.
LEMMA HelloAnswer ==
  ASSUME NEW flight \in Flights, NEW finished, NEW a,
         a = ServerEvents("initial", TRUE, finished, flight)
  PROVE  /\ FinishedLast(a)
         /\ BoringSSL => Len(a) = flight + 3 /\ a[flight + 3] = "install_one_rtt"
         /\ ~BoringSSL => \A i \in DOMAIN a : a[i] # "write_initial"
<1>0. flight \in Nat \ {0}
  BY TlsAssumption
<1>1. PICK f : f = Flight(flight)
  OBVIOUS
<1>2. /\ f \in Seq(TlsEvents) /\ Len(f) = flight /\ f[flight] = "write_finished"
      /\ \A i \in 1 .. flight - 1 : f[i] = "write_handshake"
  BY <1>0, <1>1, FlightHas
<1>3. CASE BoringSSL
  <2>1. PICK head : head = <<"write_initial", "install_handshake">>
    OBVIOUS
  <2>2. PICK tail : tail = <<"install_one_rtt">>
    OBVIOUS
  <2>3. /\ head \in Seq(TlsEvents) /\ Len(head) = 2 /\ head[1] = "write_initial"
        /\ head[2] = "install_handshake"
        /\ tail \in Seq(TlsEvents) /\ Len(tail) = 1 /\ tail[1] = "install_one_rtt"
    BY <2>1, <2>2 DEF TlsEvents, Writes
  <2>4. PICK m : m = head \o f
    OBVIOUS
  <2>5. m \in Seq(TlsEvents) /\ Len(m) = flight + 2 /\ m[1] = head[1] /\ m[2] = head[2]
        /\ \A i \in 3 .. flight + 2 : m[i] = f[i - 2]
    <3>0. head \in Seq(TlsEvents) /\ f \in Seq(TlsEvents)
      BY <1>2, <2>3
    <3>1. /\ m \in Seq(TlsEvents) /\ Len(m) = Len(head) + Len(f)
          /\ \A i \in 1 .. Len(head) : m[i] = head[i]
          /\ \A i \in 1 .. Len(f) : m[Len(head) + i] = f[i]
      BY ONLY <2>4, <3>0, ConcatHas
    <3>2. \A i \in 3 .. flight + 2 : i - 2 \in 1 .. flight /\ 2 + (i - 2) = i
      BY <1>0
    <3> QED
      BY <1>0, <1>2, <2>3, <3>1, <3>2
  <2>6. a = m \o tail
    BY <1>1, <1>3, <2>1, <2>2, <2>4 DEF ServerEvents
  <2>7. /\ Len(a) = flight + 3 /\ DOMAIN a = 1 .. flight + 3
        /\ \A i \in 1 .. flight + 2 : a[i] = m[i]
        /\ a[flight + 3] = "install_one_rtt"
    <3>0. m \in Seq(TlsEvents) /\ tail \in Seq(TlsEvents)
      BY <2>3, <2>5
    <3>1. /\ Len(a) = Len(m) + Len(tail) /\ DOMAIN a = 1 .. Len(m) + Len(tail)
          /\ \A i \in 1 .. Len(m) : a[i] = m[i]
          /\ \A i \in 1 .. Len(tail) : a[Len(m) + i] = tail[i]
      BY ONLY <2>6, <3>0, ConcatHas
    <3>2. Len(m) + Len(tail) = flight + 3 /\ Len(m) + 1 = flight + 3 /\ 1 \in 1 .. Len(tail)
      BY <1>0, <2>3, <2>5
    <3>3. a[flight + 3] = tail[1]
      BY <3>1, <3>2
    <3> QED
      BY <2>3, <2>5, <3>1, <3>2, <3>3
  <2>8. ASSUME NEW i \in 1 .. flight + 3, a[i] = "write_finished"
        PROVE  i = flight + 2
    <3>1. CASE i \in 3 .. flight + 1
      <4>1. i - 2 \in 1 .. flight - 1 /\ i \in 1 .. flight + 2 /\ i \in 3 .. flight + 2
        BY <1>0, <3>1
      <4>2. a[i] = f[i - 2] /\ f[i - 2] = "write_handshake"
        BY <1>2, <2>5, <2>7, <4>1
      <4> QED
        BY <2>8, <4>2
    <3>2. CASE i \in {1, 2}
      <4>1. i \in 1 .. flight + 2
        BY <1>0, <3>2
      <4>2. a[i] = head[i]
        BY <2>5, <2>7, <3>2, <4>1
      <4> QED
        BY <2>3, <2>8, <3>2, <4>2
    <3>3. CASE i = flight + 3
      BY <2>7, <2>8, <3>3
    <3>4. i \in 3 .. flight + 1 \/ i \in {1, 2} \/ i = flight + 2 \/ i = flight + 3
      BY <1>0
    <3> QED
      BY <3>1, <3>2, <3>3, <3>4
  <2>9. FinishedLast(a)
    <3> SUFFICES ASSUME NEW j \in 1 .. flight + 3, NEW k \in 1 .. flight + 3, j < k,
                        a[j] = "write_finished"
                 PROVE  a[k] \notin {"write_handshake", "write_finished"}
      BY <2>7 DEF FinishedLast
    <3>1. j = flight + 2
      BY <2>8
    <3>2. k = flight + 3
      BY <1>0, <3>1
    <3> QED
      BY <2>7, <3>2
  <2> QED
    BY <1>3, <2>7, <2>9
<1>4. CASE ~BoringSSL
  <2>1. PICK head : head = <<"install_handshake">>
    OBVIOUS
  <2>2. head \in Seq(TlsEvents) /\ Len(head) = 1 /\ head[1] = "install_handshake"
    BY <2>1 DEF TlsEvents
  <2>3. a = head \o f /\ flight = 1
    BY <1>1, <1>4, <2>1, TlsAssumption DEF ServerEvents
  <2>4. Len(a) = 2 /\ DOMAIN a = 1 .. 2 /\ a[1] = "install_handshake" /\ a[2] = f[1]
    <3>0. head \in Seq(TlsEvents) /\ f \in Seq(TlsEvents) /\ a = head \o f
      BY <1>2, <2>2, <2>3
    <3>1. /\ Len(a) = Len(head) + Len(f) /\ DOMAIN a = 1 .. Len(head) + Len(f)
          /\ \A i \in 1 .. Len(head) : a[i] = head[i]
          /\ \A i \in 1 .. Len(f) : a[Len(head) + i] = f[i]
      BY ONLY <3>0, ConcatHas
    <3>2. 1 \in 1 .. Len(head) /\ 1 \in 1 .. Len(f) /\ Len(head) + Len(f) = 2 /\ Len(head) + 1 = 2
      BY <1>2, <2>2, <2>3
    <3>3. a[1] = head[1] /\ a[2] = f[1]
      BY <3>1, <3>2
    <3> QED
      BY <2>2, <3>1, <3>2, <3>3
  <2>5. f[1] = "write_finished"
    BY <1>2, <2>3
  <2>6. FinishedLast(a)
    <3> SUFFICES ASSUME NEW j \in 1 .. 2, NEW k \in 1 .. 2, j < k, a[j] = "write_finished"
                 PROVE  FALSE
      BY <2>4 DEF FinishedLast
    <3>1. j = 1
      OBVIOUS
    <3> QED
      BY <2>4, <3>1
  <2>7. \A i \in DOMAIN a : a[i] # "write_initial"
    <3>1. \A i \in 1 .. 2 : i = 1 \/ i = 2
      OBVIOUS
    <3> QED
      BY <2>4, <2>5, <3>1
  <2> QED
    BY <1>4, <2>6, <2>7
<1> QED
  BY <1>3, <1>4

LEMMA LaterAnswer ==
  ASSUME NEW space, NEW first, NEW finished, NEW flight, ~(space = "initial" /\ first),
         NEW a, a = ServerEvents(space, first, finished, flight)
  PROVE  \A i \in DOMAIN a : a[i] \in Later
<1>1. CASE space = "handshake" /\ finished /\ BoringSSL
  <2>1. PICK r : r = Repeat("write_app", Tickets)
    OBVIOUS
  <2>2. r = [i \in 1 .. Tickets |-> "write_app"] /\ Tickets \in Nat
    BY <2>1, TlsAssumption DEF Repeat
  <2>3. r \in Seq(Later) /\ "complete" \in Later
    BY <2>2 DEF Later
  <2>4. a = r \o <<"complete">>
    BY <1>1, <2>1 DEF ServerEvents
  <2>5. a \in Seq(Later)
    BY <2>3, <2>4
  <2> QED
    BY <2>5
<1>2. CASE space = "handshake" /\ finished /\ ~BoringSSL
  <2>1. a = <<"install_one_rtt", "complete">>
    BY <1>2 DEF ServerEvents
  <2> QED
    BY <2>1 DEF Later
<1>3. CASE ~(space = "handshake" /\ finished)
  <2>1. a = <<>>
    BY <1>3 DEF ServerEvents
  <2> QED
    BY <2>1
<1> QED
  BY <1>1, <1>2, <1>3

\* What holds of a server at every point of a handler.
ServerKnows(s, c) ==
  /\ s.original = 1
  /\ s.checked <=> s.rx["initial"] >= 1
  /\ s.checked => s.version = Agreed(c, s)
  /\ ~s.checked /\ ~s.failed => ~s.done_due /\ \A sp \in Spaces : ~s.ack_needed[sp]
  /\ \A sp \in Spaces : s.key[sp] = "discarded" => sp = "initial" /\ s.checked

\* A server in the middle of a datagram, after it was b.
ServerReads(b, c, o) ==
  /\ c.v2 = b.v2 /\ c.tx = b.tx /\ ServerKnows(c, o)
  /\ Len(c.events) <= MaxEvents /\ FinishedLast(c.events)
  /\ ~c.checked => c.events = <<>>
  /\ b.checked => c.checked /\ Queued(c) \subseteq Later
  /\ ~BoringSSL => "write_initial" \notin Queued(c)
  /\ BoringSSL /\ FlightsFit /\ c.checked /\ ~c.failed =>
       "install_one_rtt" \in Queued(c) \/ c.key["app"] = "installed"
  /\ \A sp \in Spaces : b.key[sp] = "discarded" => c.key[sp] = "discarded"

\* The fields it does not speak of, and the one it speaks of less when it is set.
ServerRest == Fields \ {"v2", "version", "original", "checked", "key", "rx", "tx",
                        "events", "ack_needed", "done_due"}

LEMMA ServerSame ==
  ASSUME NEW b, NEW c, NEW d, NEW o, ServerReads(b, c, o), Touches(c, d, ServerRest),
         c.failed => d.failed
  PROVE  ServerReads(b, d, o)
<1>1. /\ d.v2 = c.v2 /\ d.version = c.version /\ d.original = c.original
      /\ d.checked = c.checked /\ d.key = c.key /\ d.rx = c.rx /\ d.tx = c.tx
      /\ d.events = c.events /\ d.ack_needed = c.ack_needed /\ d.done_due = c.done_due
  BY DEF Touches, Fields, ServerRest
<1>2. Queued(d) = Queued(c) /\ Agreed(o, d) = Agreed(o, c)
  BY <1>1 DEF Queued, Agreed
<1> QED
  BY <1>1, <1>2 DEF ServerReads, ServerKnows

\* The first packet of its connection.
LEMMA ServerBegins ==
  ASSUME NEW b, NEW c \in Conn, NEW d \in Conn, NEW o, ServerReads(b, c, o), ~c.checked,
         NEW p \in Packet, p.version = 1, Begun(c, d, p)
  PROVE  ServerReads(b, d, o)
<1>1. /\ d.v2 = c.v2 /\ d.checked = c.checked /\ d.rx = c.rx /\ d.tx = c.tx
      /\ d.ack_needed = c.ack_needed
      /\ d.done_due = c.done_due /\ d.failed = c.failed
  BY DEF Begun, Touches, Fields
<1>2. d.original = 1 /\ d.events = <<>> /\ d.key = [c.key EXCEPT !["initial"] = "installed"]
  BY DEF Begun
<1>3. Queued(d) = {} /\ Len(d.events) <= MaxEvents /\ FinishedLast(d.events)
  BY <1>2, TlsAssumption DEF Queued, FinishedLast
<1>4. c.key \in [Spaces -> KeyStates]
  BY ConnFields
<1>5. \A sp \in Spaces : c.key[sp] # "discarded"
  BY DEF ServerReads, ServerKnows
<1>6. \A sp \in Spaces : b.key[sp] # "discarded" /\ d.key[sp] # "discarded"
  BY <1>2, <1>4, <1>5 DEF ServerReads
<1> QED
  BY <1>1, <1>2, <1>3, <1>6 DEF ServerReads, ServerKnows

\* What a packet of the client says to the server b.
Heeded(p, o, b) ==
  /\ p.type \in Spaces /\ ~p.done /\ FromClient(p, o, b)

\* What a queue holds.
EventsOf(queue) == {queue[i] : i \in DOMAIN queue}

LEMMA QueueHolds ==
  ASSUME NEW queue \in Seq(TlsEvents), NEW a \in Seq(TlsEvents), Len(queue) <= MaxEvents,
         NEW q, q = QueueEvents(queue, a)
  PROVE  /\ EventsOf(queue) \subseteq EventsOf(q)
         /\ EventsOf(q) \subseteq EventsOf(queue) \cup EventsOf(a)
         /\ Len(queue) = 0 => \A i \in DOMAIN q : i \in DOMAIN a /\ q[i] = a[i]
         /\ Len(queue) = 0 /\ Len(a) <= MaxEvents => Len(q) = Len(a)
<1>1. /\ q \in Seq(TlsEvents) /\ Len(queue) <= Len(q)
      /\ \A i \in DOMAIN queue : q[i] = queue[i]
      /\ \A i \in DOMAIN q : i > Len(queue) =>
           i - Len(queue) \in DOMAIN a /\ q[i] = a[i - Len(queue)]
      /\ Len(queue) + Len(a) <= MaxEvents => Len(q) = Len(queue) + Len(a)
  BY QueueHas
<1>2. /\ DOMAIN q = 1 .. Len(q) /\ DOMAIN queue = 1 .. Len(queue)
      /\ Len(q) \in Nat /\ Len(queue) \in Nat /\ Len(a) \in Nat
  BY <1>1
<1>3. EventsOf(queue) \subseteq EventsOf(q)
  <2> SUFFICES ASSUME NEW i \in DOMAIN queue PROVE queue[i] \in EventsOf(q)
    BY DEF EventsOf
  <2>1. i \in 1 .. Len(q)
    <3>1. i \in 1 .. Len(queue)
      BY <1>2
    <3>2. Len(queue) <= Len(q) /\ Len(q) \in Nat /\ Len(queue) \in Nat
      BY <1>1, <1>2
    <3> QED
      BY ONLY <3>1, <3>2
  <2>2. i \in DOMAIN q /\ q[i] = queue[i]
    BY <1>1, <1>2, <2>1
  <2> QED
    BY <2>2 DEF EventsOf
<1>4. EventsOf(q) \subseteq EventsOf(queue) \cup EventsOf(a)
  <2> SUFFICES ASSUME NEW i \in DOMAIN q PROVE q[i] \in EventsOf(queue) \cup EventsOf(a)
    BY DEF EventsOf
  <2>1. CASE i \in DOMAIN queue
    <3>1. q[i] = queue[i]
      BY <1>1, <2>1
    <3> QED
      BY <2>1, <3>1 DEF EventsOf
  <2>2. CASE i \notin DOMAIN queue
    <3>1. i > Len(queue)
      BY <1>2, <2>2
    <3>2. i - Len(queue) \in DOMAIN a /\ q[i] = a[i - Len(queue)]
      BY <1>1, <3>1
    <3> QED
      BY <3>2 DEF EventsOf
  <2> QED
    BY <2>1, <2>2
<1>5. ASSUME Len(queue) = 0, NEW i \in DOMAIN q PROVE i \in DOMAIN a /\ q[i] = a[i]
  <2>1. i > Len(queue) /\ i - Len(queue) = i
    BY <1>2, <1>5
  <2>2. i - Len(queue) \in DOMAIN a /\ q[i] = a[i - Len(queue)]
    BY <1>1, <2>1
  <2> QED
    BY <2>1, <2>2
<1>6. ASSUME Len(queue) = 0, Len(a) <= MaxEvents PROVE Len(q) = Len(a)
  <2>1. Len(queue) + Len(a) = Len(a)
    BY <1>2, <1>6
  <2> QED
    BY <1>1, <1>6, <2>1
<1> QED
  BY <1>3, <1>4, <1>5, <1>6

\* What happens to the queue.
LEMMA ServerQueues ==
  ASSUME NEW b, NEW c \in Conn, NEW o, ServerReads(b, c, o),
         NEW p \in Packet, p.type \in Spaces, InOrder(c, p),
         NEW d \in Conn, d.events = QueueEvents(c.events, Answer(c, "server", p))
  PROVE  /\ Len(d.events) <= MaxEvents /\ FinishedLast(d.events)
         /\ Queued(c) \subseteq Queued(d)
         /\ c.checked => Queued(d) \subseteq Queued(c) \cup Later
         /\ ~BoringSSL => "write_initial" \notin Queued(d)
         /\ BoringSSL /\ FlightsFit /\ ~c.checked /\ p.type = "initial" =>
              "install_one_rtt" \in Queued(d)
<1>1. PICK a : a = Answer(c, "server", p)
  OBVIOUS
<1>0. PICK q, queue : q = d.events /\ queue = c.events
  OBVIOUS
<1>2. queue \in Seq(TlsEvents) /\ a \in Seq(TlsEvents) /\ Len(queue) <= MaxEvents
      /\ q = QueueEvents(queue, a) /\ FinishedLast(queue)
  BY <1>0, <1>1, ConnFields, AnswerIs DEF ServerReads
<1>3. a = ServerEvents(p.type, c.rx[p.type] = 0, p.finished, c.flight) /\ c.flight \in Flights
  BY <1>1, ConnFields DEF Answer
<1>4. /\ q \in Seq(TlsEvents) /\ Len(q) <= MaxEvents
      /\ Len(queue) <= Len(q) /\ \A i \in DOMAIN queue : q[i] = queue[i]
      /\ \A i \in DOMAIN q : i > Len(queue) =>
           i - Len(queue) \in DOMAIN a /\ q[i] = a[i - Len(queue)]
  BY <1>2, QueueHas
<1>5. /\ DOMAIN q = 1 .. Len(q) /\ DOMAIN queue = 1 .. Len(queue) /\ DOMAIN a = 1 .. Len(a)
      /\ Len(q) \in Nat /\ Len(queue) \in Nat /\ Len(a) \in Nat
  BY <1>2, <1>4
<1>6. Queued(c) = EventsOf(queue) /\ Queued(d) = EventsOf(q)
  BY <1>0 DEF Queued, EventsOf
<1>7. /\ Queued(c) \subseteq Queued(d) /\ Queued(d) \subseteq Queued(c) \cup EventsOf(a)
      /\ Len(queue) = 0 => \A i \in DOMAIN q : i \in DOMAIN a /\ q[i] = a[i]
      /\ Len(queue) = 0 /\ Len(a) <= MaxEvents => Len(q) = Len(a)
  BY <1>2, <1>6, QueueHolds
<1>9. CASE ~(p.type = "initial" /\ c.rx[p.type] = 0)
  <2>1. \A i \in DOMAIN a : a[i] \in Later
    BY <1>3, <1>9, LaterAnswer
  <2>2. Queued(d) \subseteq Queued(c) \cup Later
    BY <1>7, <2>1 DEF EventsOf
  <2>3. FinishedLast(q)
    <3> SUFFICES ASSUME NEW j \in DOMAIN q, NEW k \in DOMAIN q, j < k, q[j] = "write_finished"
                 PROVE  q[k] \notin {"write_handshake", "write_finished"}
      BY DEF FinishedLast
    <3>1. CASE k <= Len(queue)
      <4>1. j \in DOMAIN queue /\ k \in DOMAIN queue
        BY <1>5, <3>1
      <4> QED
        BY <1>2, <1>4, <4>1 DEF FinishedLast
    <3>2. CASE k > Len(queue)
      <4>1. q[k] \in Later
        BY <1>4, <2>1, <3>2
      <4> QED
        BY <4>1 DEF Later
    <3> QED
      BY <1>5, <3>1, <3>2
  <2>4. ~BoringSSL => "write_initial" \notin Queued(d)
    BY <2>2 DEF ServerReads, Later
  <2>5. p.type = "initial" => c.checked
    <3>1. c.rx["initial"] \in Nat
      BY Counters DEF Spaces
    <3> QED
      BY <1>9, <3>1 DEF ServerReads, ServerKnows
  <2> QED
    BY <1>0, <1>4, <1>7, <2>2, <2>3, <2>4, <2>5
<1>10. CASE p.type = "initial" /\ c.rx[p.type] = 0
  <2>1. ~c.checked /\ queue = <<>> /\ Len(queue) = 0
    BY <1>0, <1>10, Counters DEF ServerReads, ServerKnows
  <2>2. a = ServerEvents("initial", TRUE, p.finished, c.flight)
    BY <1>3, <1>10
  <2>3. /\ FinishedLast(a)
        /\ BoringSSL => Len(a) = c.flight + 3 /\ a[c.flight + 3] = "install_one_rtt"
        /\ ~BoringSSL => \A i \in DOMAIN a : a[i] # "write_initial"
    BY <1>3, <2>2, HelloAnswer
  <2>4. \A i \in DOMAIN q : i \in DOMAIN a /\ q[i] = a[i]
    BY <1>7, <2>1
  <2>5. FinishedLast(q)
    BY <2>3, <2>4 DEF FinishedLast
  <2>6. ~BoringSSL => "write_initial" \notin Queued(d)
    BY <1>6, <2>3, <2>4 DEF EventsOf
  <2>7. BoringSSL /\ FlightsFit => "install_one_rtt" \in Queued(d)
    <3> SUFFICES ASSUME BoringSSL, FlightsFit PROVE "install_one_rtt" \in Queued(d)
      OBVIOUS
    <3>1. c.flight + 3 <= MaxEvents /\ c.flight \in Nat
      BY <1>3, TlsAssumption DEF FlightsFit
    <3>2. Len(q) = c.flight + 3
      BY <1>7, <2>1, <2>3, <3>1
    <3>3. c.flight + 3 \in DOMAIN q
      BY <1>5, <3>1, <3>2
    <3> QED
      BY <1>6, <2>3, <2>4, <3>3 DEF EventsOf
  <2> QED
    BY <1>0, <1>4, <1>7, <2>1, <2>5, <2>6, <2>7
<1> QED
  BY <1>9, <1>10

\* The check of the client's version_information passes.
LEMMA CheckPasses ==
  ASSUME NEW c \in Conn, NEW o \in Conn, c.original = 1, NEW p \in Packet, p.version = 1,
         p.params.chosen = 1, p.params.available = Offered(o)
  PROVE  CheckHolds(c, "server", p) /\ SelectedVersion(c, p.params) = Agreed(o, c)
<1>1. c.v2 \in BOOLEAN /\ o.v2 \in BOOLEAN
  BY ConnFields
<1>2. 1 \in p.params.available /\ (2 \in p.params.available <=> o.v2)
  BY <1>1 DEF Offered
<1>3. SelectedVersion(c, p.params) = Agreed(o, c)
  BY <1>1, <1>2 DEF SelectedVersion, Agreed
<1> QED
  BY <1>2, <1>3 DEF CheckHolds, Agreed

\* A packet of the client.
LEMMA ServerHears ==
  ASSUME NEW b, NEW c \in Conn, NEW d \in Conn, NEW o \in Conn, ServerReads(b, c, o),
         NEW p \in Packet, Heeded(p, o, b), Heard(c, d, "server", p)
  PROVE  ServerReads(b, d, o)
<1>0. p.type \in Spaces /\ ~p.done /\ FromClient(p, o, b) /\ ServerKnows(c, o)
  BY DEF Heeded, ServerReads
<1>1. d.v2 = c.v2 /\ d.original = c.original /\ d.tx = c.tx
  BY DEF Heard, Touches, Fields, HeardFields, FrameFields
<1>2. HeardCrypto(c, d, "server", p)
  BY DEF Heard
<1>3. /\ c.rx \in [Spaces -> Nat] /\ d.rx \in [Spaces -> Nat] /\ p.crypto \in Nat \cup {-1}
      /\ "initial" \in Spaces /\ c.failed \in BOOLEAN /\ d.failed \in BOOLEAN
      /\ c.checked \in BOOLEAN /\ d.checked \in BOOLEAN
  <2>1. c.checked \in BOOLEAN /\ d.checked \in BOOLEAN
    BY DEF Conn
  <2> QED
    BY <2>1, ConnFields DEF Packet, Spaces
<1>4. ~c.checked => p.type = "initial" /\ p.version = 1 /\ c.events = <<>>
                    /\ c.rx["initial"] = 0
  <2>1. ~c.checked => ~b.checked /\ c.events = <<>> /\ ~(c.rx["initial"] >= 1)
    BY <1>0 DEF ServerReads, ServerKnows
  <2>2. ~b.checked => p.type = "initial" /\ p.version = 1
    BY <1>0 DEF FromClient
  <2> QED
    BY <1>3, <2>1, <2>2
<1>5. c.failed => d.failed
  BY <1>2 DEF HeardCrypto, Checked
<1>6. ASSUME ~c.checked, InOrder(c, p)
      PROVE  d.checked /\ d.version = Agreed(o, c) /\ d.rx["initial"] >= 1
  <2>1. p.type = "initial" /\ p.version = 1 /\ p.crypto # -1
    BY <1>4, <1>6 DEF InOrder
  <2>2. p.params.chosen = 1 /\ p.params.available = Offered(o)
    BY <1>0, <2>1 DEF FromClient
  <2>3. c.original = 1
    BY <1>0 DEF ServerKnows
  <2>4. CheckHolds(c, "server", p) /\ SelectedVersion(c, p.params) = Agreed(o, c)
    BY <2>1, <2>2, <2>3, CheckPasses
  <2>5. CheckDue(c, "server", p)
    BY <1>6, <2>1 DEF CheckDue
  <2>6. d.checked /\ d.version = SelectedVersion(c, p.params)
    BY <1>2, <1>6, <2>4, <2>5 DEF HeardCrypto, Checked
  <2>7. d.rx["initial"] = c.rx["initial"] + 1
    BY <1>2, <1>3, <1>6, <2>1 DEF HeardCrypto
  <2> QED
    BY <1>3, <2>4, <2>6, <2>7
<1>7. ASSUME c.checked \/ ~InOrder(c, p)
      PROVE  d.checked = c.checked /\ d.version = c.version
  <2>1. CASE c.checked
    <3>1. ~CheckDue(c, "server", p)
      BY <2>1 DEF CheckDue
    <3> QED
      BY <1>2, <3>1 DEF HeardCrypto, Checked
  <2>2. CASE ~InOrder(c, p)
    BY <1>2, <2>2 DEF HeardCrypto
  <2> QED
    BY <1>7, <2>1, <2>2
<1>8. \A sp \in Spaces : d.rx[sp] >= c.rx[sp]
  BY <1>2, <1>3 DEF HeardCrypto
<1>9. d.checked <=> d.rx["initial"] >= 1
  <2>1. c.checked <=> c.rx["initial"] >= 1
    BY <1>0 DEF ServerKnows
  <2>2. CASE c.checked
    <3>1. c.rx["initial"] >= 1 /\ d.rx["initial"] >= c.rx["initial"]
      BY <1>3, <1>8, <2>1, <2>2
    <3>2. d.rx["initial"] >= 1
      BY <1>3, <3>1
    <3> QED
      BY <1>7, <2>2, <3>2
  <2>3. CASE ~c.checked /\ InOrder(c, p)
    BY <1>6, <2>3
  <2>4. CASE ~c.checked /\ ~InOrder(c, p)
    <3>1. d.rx = c.rx
      BY <1>2, <2>4 DEF HeardCrypto
    <3> QED
      BY <1>7, <2>1, <2>4, <3>1
  <2> QED
    BY <2>2, <2>3, <2>4
<1>10. d.checked => d.version = Agreed(o, d)
  <2>1. Agreed(o, d) = Agreed(o, c)
    BY <1>1 DEF Agreed
  <2>2. c.checked => c.version = Agreed(o, c)
    BY <1>0 DEF ServerKnows
  <2> QED
    BY <1>6, <1>7, <2>1, <2>2
<1>11. ASSUME ~d.checked
       PROVE  ~c.checked /\ ~InOrder(c, p) /\ d.events = <<>>
  <2>1. ~c.checked /\ ~InOrder(c, p)
    BY <1>6, <1>7, <1>11
  <2> QED
    BY <1>2, <1>4, <2>1 DEF HeardCrypto
<1>12. ASSUME ~d.checked, ~d.failed PROVE ~d.done_due /\ \A sp \in Spaces : ~d.ack_needed[sp]
  <2>1. ~c.failed /\ p.type = "initial" /\ c.rx["initial"] = 0
    BY <1>4, <1>5, <1>11, <1>12
  <2>2. ~c.done_due /\ \A sp \in Spaces : ~c.ack_needed[sp]
    BY <1>0, <1>11, <1>12, <2>1 DEF ServerKnows
  <2>3. p.crypto = -1
    <3>1. ~Ahead(c, p)
      BY <1>2, <1>11, <1>12 DEF HeardCrypto
    <3> QED
      BY <1>3, <1>11, <1>12, <2>1, <3>1 DEF InOrder, Ahead
  <2>4. ~Eliciting(p)
    BY <1>0, <2>1, <2>3 DEF Eliciting, FromClient
  <2> QED
    BY <2>1, <2>2, <2>4 DEF Heard
<1>13. \A sp \in Spaces :
         d.key[sp] = c.key[sp] \/ (d.key[sp] = "discarded" /\ sp = "initial" /\ p.type = "handshake")
  BY <1>0 DEF Heard
<1>14. \A sp \in Spaces : d.key[sp] = "discarded" => sp = "initial" /\ d.checked
  BY <1>0, <1>4, <1>7, <1>13 DEF ServerKnows
<1>15. ServerKnows(d, o)
  BY <1>0, <1>1, <1>9, <1>10, <1>12, <1>14 DEF ServerKnows
<1>16. /\ Len(d.events) <= MaxEvents /\ FinishedLast(d.events)
       /\ Queued(c) \subseteq Queued(d)
       /\ c.checked => Queued(d) \subseteq Queued(c) \cup Later
       /\ ~BoringSSL => "write_initial" \notin Queued(d)
       /\ BoringSSL /\ FlightsFit /\ ~c.checked /\ InOrder(c, p) =>
            "install_one_rtt" \in Queued(d)
  <2>1. CASE InOrder(c, p)
    <3>1. d.events = QueueEvents(c.events, Answer(c, "server", p))
      BY <1>2, <2>1 DEF HeardCrypto
    <3> QED
      BY <1>0, <1>4, <2>1, <3>1, ServerQueues
  <2>2. CASE ~InOrder(c, p)
    <3>1. d.events = c.events
      BY <1>2, <2>2 DEF HeardCrypto
    <3>2. Queued(d) = Queued(c)
      BY <3>1 DEF Queued
    <3> QED
      BY <2>2, <3>1, <3>2 DEF ServerReads
  <2> QED
    BY <2>1, <2>2
<1>17. b.checked => d.checked /\ Queued(d) \subseteq Later
  BY <1>7, <1>16 DEF ServerReads
<1>18. ASSUME BoringSSL, FlightsFit, d.checked, ~d.failed
       PROVE  "install_one_rtt" \in Queued(d) \/ d.key["app"] = "installed"
  <2>1. CASE c.checked
    <3>1. "install_one_rtt" \in Queued(c) \/ c.key["app"] = "installed"
      BY <1>5, <1>18, <2>1 DEF ServerReads
    <3>2. d.key["app"] = c.key["app"]
      BY <1>13 DEF Spaces
    <3> QED
      BY <1>16, <3>1, <3>2
  <2>2. CASE ~c.checked
    BY <1>7, <1>16, <1>18, <2>2
  <2> QED
    BY <2>1, <2>2
<1>19. \A sp \in Spaces : b.key[sp] = "discarded" => d.key[sp] = "discarded"
  BY <1>13 DEF ServerReads
<1> QED
  BY <1>1, <1>11, <1>15, <1>16, <1>17, <1>18, <1>19 DEF ServerReads

\* One turn of the server's packet loop.
LEMMA ServerReadsPacket ==
  ASSUME NEW b, NEW c \in Conn, NEW o \in Conn, ServerReads(b, c, o),
         c.state = "pre_validation" => ~c.checked,
         NEW p \in Packet, Heeded(p, o, b),
         NEW size \in Nat, NEW f, f = ReadPacket(c, "server", p, size)
  PROVE  ServerReads(b, f, o)
<1>0. p.type \in Spaces /\ p.type # "retry"
  BY DEF Heeded, Spaces
<1>1. CASE c.failed
  BY <1>1 DEF ReadPacket
<1>2. CASE ~c.failed /\ ~CanDecode(c, "server", p)
  <2>1. f = Fail(c)
    BY <1>2 DEF ReadPacket
  <2>2. Touches(c, f, {"failed"}) /\ f.failed
    BY <2>1, FailHas
  <2>3. Touches(c, f, ServerRest)
    BY <2>2, TouchesMore DEF ServerRest, Fields
  <2> QED
    BY <2>2, <2>3, ServerSame
<1>3. CASE ~c.failed /\ CanDecode(c, "server", p)
  <2>1. f = OnPacket(c, "server", p, size) /\ "server" \in Sides
    BY <1>3 DEF ReadPacket, Sides
  <2>2. PICK d : d = [c EXCEPT !.bytes_received = c.bytes_received + size]
    OBVIOUS
  <2>3. d \in Conn /\ Touches(c, d, {"bytes_received"})
    BY ONLY <2>2, c \in Conn, size \in Nat, CountHas
  <2>4. d.state = c.state /\ d.checked = c.checked /\ d.failed = c.failed
    BY <2>3 DEF Touches, Fields
  <2>5. ServerReads(b, d, o)
    <3>1. Touches(c, d, ServerRest)
      BY <2>3, TouchesMore DEF ServerRest, Fields
    <3> QED
      BY <2>4, <3>1, ServerSame
  <2>6. PICK e : e = FollowVersion(d, "server", p)
    OBVIOUS
  <2>11. e = d
    BY <2>6 DEF FollowVersion
  <2>12. \/ p.type = "retry" /\ f = OnRetry(d, "server", p)
         \/ p.type = "app" /\ ~c.can_send /\ f = Fail(d)
         \/ p.type \in Spaces /\ e.failed /\ f = e
         \/ /\ p.type = "handshake" /\ ~e.failed /\ e.learned /\ p.version # e.version
            /\ f = e
         \/ /\ p.type \in Spaces /\ ~e.failed /\ (p.type = "app" => c.can_send)
            /\ p.type = "handshake" /\ e.learned => p.version = e.version
            /\ f = Process(e, "server", p)
    BY ONLY <2>1, <2>2, <2>6, c \in Conn, p \in Packet, size \in Nat, OnPacketIs
  <2>7. \/ p.type = "retry" /\ f = OnRetry(d, "server", p)
        \/ p.type = "app" /\ ~c.can_send /\ f = Fail(d)
        \/ p.type \in Spaces /\ d.failed /\ f = d
        \/ /\ p.type = "handshake" /\ ~d.failed /\ d.learned /\ p.version # d.version
           /\ f = d
        \/ /\ p.type \in Spaces /\ ~d.failed /\ (p.type = "app" => c.can_send)
           /\ p.type = "handshake" /\ d.learned => p.version = d.version
           /\ f = Process(d, "server", p)
    BY <2>11, <2>12
  <2>8. CASE f = d
    BY <2>5, <2>8
  <2>9. CASE f = Fail(d)
    <3>1. Touches(d, f, {"failed"}) /\ f.failed
      BY <2>3, <2>9, FailHas
    <3>2. Touches(d, f, ServerRest)
      BY <3>1, TouchesMore DEF ServerRest, Fields
    <3> QED
      BY <2>5, <3>1, <3>2, ServerSame
  <2>10. CASE f = Process(d, "server", p)
    <3>1. PICK i : i = SetUp(d, p)
      OBVIOUS
    <3>2. /\ i \in Conn
          /\ d.state # "pre_validation" => i = d
          /\ d.state = "pre_validation" => Begun(d, i, p)
      BY ONLY <2>3, <3>1, p \in Packet, SetUpHas
    <3>3. ServerReads(b, i, o)
      <4>1. CASE d.state # "pre_validation"
        BY <2>5, <3>2, <4>1
      <4>2. CASE d.state = "pre_validation"
        <5>1. ~d.checked
          BY <2>4, <4>2
        <5>2. ~b.checked
          BY <2>5, <5>1 DEF ServerReads
        <5>3. p.version = 1
          BY <5>2 DEF Heeded, FromClient
        <5>4. Begun(d, i, p)
          BY <3>2, <4>2
        <5> QED
          BY ONLY <2>3, <2>5, <3>2, <5>1, <5>3, <5>4, p \in Packet, ServerBegins
      <4> QED
        BY <4>1, <4>2
    <3>4. f \in Conn /\ Heard(i, f, "server", p)
      BY <1>0, <2>1, <2>3, <2>10, <3>1, ProcessHas
    <3> QED
      BY ONLY <3>2, <3>3, <3>4, o \in Conn, p \in Packet, Heeded(p, o, b), ServerHears
  <2> QED
    BY <1>0, <2>7, <2>8, <2>9, <2>10
<1> QED
  BY <1>1, <1>2, <1>3

LEMMA ServerReadsAll ==
  ASSUME NEW c \in Conn, NEW o \in Conn, Reading(c, c, o, "server"), Settled(c, "server"),
         c.state # "absent", ~c.failed,
         NEW packets \in Seq(Packet), packets # <<>>, NEW size \in Nat,
         \A i \in DOMAIN packets : /\ Incoming(packets[i], c, o, "server")
                                   /\ FromClient(packets[i], o, c),
         c.state = "pre_validation" =>
           ~c.checked /\ packets[1].type = "initial" /\ packets[1].cid = o.retry,
         ServerReads(c, c, o), NEW e, e = ReadAll(c, "server", packets, size)
  PROVE  e \in Conn /\ HasRead(c, e, o, "server", packets) /\ ServerReads(c, e, o)
<1> DEFINE T == {d \in Conn : HasRead(c, d, o, "server", packets) /\ ServerReads(c, d, o)}
           n == Len(packets)
           Ts == [i \in 0 .. n |-> IF i = 0 THEN {c} ELSE T]
<1>1. n \in Nat \ {0} /\ DOMAIN packets = 1 .. n /\ Peer("server") = "client"
  <2>1. n # 0
    OBVIOUS
  <2> QED
    BY <2>1, PeerIs
<1>2. ASSUME NEW i \in 1 .. n, NEW d \in Conn,
             d \in T \/ (i = 1 /\ d = c)
      PROVE  ReadPacket(d, "server", packets[i], IF i = 1 THEN size ELSE 0) \in T
  <2>1. PICK z \in Nat : z = IF i = 1 THEN size ELSE 0
    OBVIOUS
  <2>2. PICK f : f = ReadPacket(d, "server", packets[i], z)
    OBVIOUS
  <2>3. /\ i \in DOMAIN packets /\ "server" \in Sides /\ Incoming(packets[i], c, o, "server")
        /\ HasRead(c, d, o, "server", packets)
             \/ (d = c /\ Reading(c, c, o, "server") /\ Settled(c, "server") /\ c.state # "absent")
        /\ ServerReads(c, d, o)
    BY <1>1, <1>2 DEF Sides
  <2>4. d.state = "pre_validation" =>
          ~d.failed /\ "server" = "server" /\ packets[i].type = "initial" /\ packets[i].cid = o.retry
    BY <1>2, <2>3 DEF HasRead
  <2>5. f \in Conn /\ HasRead(c, f, o, "server", packets) /\ Incoming(packets[i], d, o, "server")
    BY <2>1, <2>2, <2>3, <2>4, HasReadStep
  <2>6. PICK p \in Packet : p = packets[i]
    BY <1>1
  <2>7. PacketOK(p, o, c, "client")
    BY <1>1, <2>3, <2>6 DEF Incoming
  <2>8. Heeded(p, o, c)
    BY <2>3, <2>6, <2>7 DEF Heeded, PacketOK
  <2>9. d.state = "pre_validation" => ~d.checked
    BY <1>2, <2>3 DEF HasRead
  <2>10. f = ReadPacket(d, "server", p, z)
    BY <2>2, <2>6
  <2>11. ServerReads(c, f, o)
    BY ONLY <1>2, <2>1, <2>3, <2>6, <2>8, <2>9, <2>10, o \in Conn, ServerReadsPacket
  <2> QED
    BY <2>1, <2>2, <2>5, <2>11
<1>3. T \subseteq Conn
  OBVIOUS
<1> HIDE DEF T
<1>4. /\ \A i \in 1 .. n : i - 1 \in 0 .. n /\ i \in 0 .. n /\ i # 0 /\ (i - 1 = 0 <=> i = 1)
      /\ 0 \in 0 .. n /\ n \in 0 .. n /\ n # 0
  BY <1>1
<1>5. Ts[0] = {c} /\ \A i \in 0 .. n : i # 0 => Ts[i] = T
  BY <1>4
<1> HIDE DEF Ts
<1>6. \A i \in 1 .. n : \A d \in Ts[i - 1] :
        ReadPacket(d, "server", packets[i], IF i = 1 THEN size ELSE 0) \in Ts[i]
  <2> SUFFICES ASSUME NEW i \in 1 .. n, NEW d \in Ts[i - 1]
               PROVE  ReadPacket(d, "server", packets[i], IF i = 1 THEN size ELSE 0) \in Ts[i]
    OBVIOUS
  <2>1. d \in Conn /\ (d \in T \/ (i = 1 /\ d = c)) /\ Ts[i] = T
    BY <1>3, <1>4, <1>5
  <2> QED
    BY <1>2, <2>1
<1>7. e \in Ts[n]
  BY <1>1, <1>5, <1>6, ReadLoop
<1> QED
  BY <1>4, <1>5, <1>7 DEF T

(***************************************************************************)
(* What a side sends                                                       *)
(***************************************************************************)
LEMMA AckPacketHas ==
  ASSUME NEW c \in Conn, NEW sp \in Spaces, NEW p, p = AckPacket(c, sp)
  PROVE  /\ p \in Packet /\ p.type = sp /\ p.version = c.version /\ p.crypto = -1
         /\ ~p.finished /\ ~p.done /\ ~p.request
<1>1. p \in Packet /\ p.type = sp /\ p.crypto = -1 /\ ~p.finished /\ ~p.done
  BY AckPacketIs
<1>2. p.version = c.version /\ p.request = FALSE
  BY DEF AckPacket, NewPacket
<1> QED
  BY <1>1, <1>2

LEMMA CryptoPacketHas ==
  ASSUME NEW c \in Conn, NEW event \in Writes, NEW p, p = CryptoPacket(c, event)
  PROVE  /\ p \in Packet
         /\ p.type = (IF Level(event) = "initial" THEN "initial" ELSE "handshake")
         /\ p.version = c.version /\ p.crypto = c.tx[Level(event)] /\ p.params = c.told
         /\ (p.finished <=> event = "write_finished") /\ ~p.done /\ ~p.request
<1>1. /\ p \in Packet
      /\ p.type = (IF Level(event) = "initial" THEN "initial" ELSE "handshake")
      /\ p.crypto = c.tx[Level(event)] /\ (p.finished <=> event = "write_finished") /\ ~p.done
  BY CryptoPacketIs
<1>2. p.version = c.version /\ p.params = c.told /\ p.request = FALSE
  BY DEF CryptoPacket, NewPacket
<1> QED
  BY <1>1, <1>2

LEMMA PushHas ==
  ASSUME NEW c \in Conn, NEW side, NEW packets \in Seq(Packet), NEW d,
         d = Push(c, side, packets)
  PROVE  /\ d \in Conn /\ Touches(c, d, {"failed", "out", "bytes_sent"})
         /\ c.failed => d.failed
         /\ \A p \in Staged(d) : p \in Staged(c) \/ \E j \in DOMAIN packets : p = packets[j]
<1>1. CASE OverBudget(c, side, packets)
  <2>1. d = Fail(c)
    BY <1>1 DEF Push
  <2>2. d \in Conn /\ d.failed /\ Touches(c, d, {"failed"})
    BY <2>1, FailHas
  <2>3. Touches(c, d, {"failed", "out", "bytes_sent"})
    BY <2>2, TouchesMore
  <2>4. d.out = c.out
    BY <2>2 DEF Touches, Fields
  <2>5. Staged(d) = Staged(c)
    BY <2>4 DEF Staged
  <2> QED
    BY <2>2, <2>3, <2>5
<1>2. CASE ~OverBudget(c, side, packets)
  <2>1. c.out \in Seq(Seq(Packet)) /\ c.bytes_sent \in Nat /\ Size(side, packets) \in Nat
    BY ConnFields, SizeType
  <2>2. PICK out \in Seq(Seq(Packet)) : out = Append(c.out, packets)
    BY <2>1, AppendType
  <2>3. PICK sent \in Nat : sent = c.bytes_sent + Size(side, packets)
    BY <2>1
  <2>4. d = [c EXCEPT !.out = out, !.bytes_sent = sent]
    BY <1>2, <2>2, <2>3, Zenon DEF Push
  <2>5. d \in Conn /\ Touches(c, d, {"failed", "out", "bytes_sent"}) /\ d.out = out
        /\ d.failed = c.failed
    BY ONLY c \in Conn, out \in Seq(Seq(Packet)), sent \in Nat, <2>4 DEF Conn, Touches, Fields
  <2>6. \A p \in Staged(d) \ Staged(c) : \E j \in DOMAIN packets : p = packets[j]
    <3>1. c.out \in Seq(Seq(Packet)) /\ d.out = Append(c.out, packets)
      BY <2>1, <2>2, <2>5
    <3> QED
      BY ONLY <3>1, packets \in Seq(Packet), StagedAppend
  <2> QED
    BY <2>5, <2>6
<1> QED
  BY <1>1, <1>2

SendFields ==
  {"key", "state", "can_send", "completed", "events", "received", "ack_needed", "next_pn",
   "tx", "bytes_sent", "failed", "out", "done_due", "confirmed", "asked"}

\* What a packet says that c has staged after i of its events, being d then.
Says(p, c, d, i) ==
  /\ p.type \in Spaces /\ p.version = c.version
  /\ p.type = "initial" /\ p.crypto # -1 =>
       p.params = c.told /\ "write_initial" \in Queued(c)
  /\ p.request => p.type = "app"
  /\ p.finished /\ FinishedLast(c.events) =>
       /\ p.crypto = d.tx["handshake"] - 1
       /\ \E j \in 1 .. i : c.events[j] = "write_finished"
  /\ Queued(c) \subseteq Later =>
       \/ p.type = "app" \/ c.key[p.type] = "installed"
       \/ p.type = "handshake" /\ "write_app" \in Queued(c)

\* The connection d that c is after i of its events, and after all of its flush.
Sends(c, i, d, side) ==
  /\ Touches(c, d, SendFields) /\ d.state \in {c.state, "active"}
  /\ \A sp \in Spaces : d.ack_needed[sp] => c.ack_needed[sp]
  /\ d.done_due => c.done_due
  /\ \A sp \in Spaces : d.key[sp] = "discarded" =>
       c.key[sp] = "discarded" \/ (side = "client" /\ sp = "initial" /\ c.tls_complete)
  /\ c.key["app"] = "installed" \/ (\E j \in 1 .. i : c.events[j] = "install_one_rtt") =>
       d.failed \/ d.key["app"] = "installed"
  /\ Queued(c) \subseteq Later =>
       /\ d.tx["handshake"] = c.tx["handshake"]
       /\ \A sp \in {"initial", "handshake"} : d.key[sp] = "installed" => c.key[sp] = "installed"
  /\ \A p \in Staged(d) : Says(p, c, d, i)

\* What a step of it may do.
Goes(c, d, e, i, k, side) ==
  /\ Touches(d, e, SendFields) /\ e.state \in {d.state, "active"}
  /\ d.failed => e.failed
  /\ \A sp \in Spaces : e.ack_needed[sp] => d.ack_needed[sp]
  /\ e.done_due => d.done_due
  /\ \A sp \in Spaces : e.key[sp] = "discarded" =>
       d.key[sp] = "discarded" \/ (side = "client" /\ sp = "initial" /\ c.tls_complete)
  /\ d.key["app"] = "installed" => e.key["app"] = "installed"
  /\ \A j \in 1 .. k : j > i /\ c.events[j] = "install_one_rtt" =>
       e.failed \/ e.key["app"] = "installed"
  /\ Queued(c) \subseteq Later =>
       /\ e.tx["handshake"] = d.tx["handshake"]
       /\ \A sp \in {"initial", "handshake"} : e.key[sp] = "installed" => d.key[sp] = "installed"
  /\ FinishedLast(c.events) /\ (\E j \in 1 .. i : c.events[j] = "write_finished") =>
       e.tx["handshake"] = d.tx["handshake"]
  /\ \A p \in Staged(e) : p \in Staged(d) \/ Says(p, c, e, k)

LEMMA SendsGoes ==
  ASSUME NEW c, NEW d, NEW e, NEW i \in Nat, NEW k \in Nat, i <= k, NEW side,
         Sends(c, i, d, side), Goes(c, d, e, i, k, side)
  PROVE  Sends(c, k, e, side)
<1>0. \A j \in 1 .. i : j \in 1 .. k
  OBVIOUS
<1>1. Touches(c, e, SendFields)
  <2>1. Touches(c, e, SendFields \cup SendFields)
    BY TouchesTrans DEF Sends, Goes
  <2> QED
    BY <2>1, TouchesMore
<1>2. c.key["app"] = "installed" \/ (\E j \in 1 .. k : c.events[j] = "install_one_rtt") =>
        e.failed \/ e.key["app"] = "installed"
  <2>1. CASE c.key["app"] = "installed"
    BY <2>1 DEF Sends, Goes
  <2>2. ASSUME NEW j \in 1 .. k, c.events[j] = "install_one_rtt"
        PROVE  e.failed \/ e.key["app"] = "installed"
    <3>1. CASE j > i
      BY <2>2, <3>1 DEF Goes
    <3>2. CASE j <= i
      <4>1. j \in 1 .. i
        BY <3>2
      <4> QED
        BY <2>2, <4>1 DEF Sends, Goes
    <3> QED
      BY <3>1, <3>2
  <2> QED
    BY <2>1, <2>2
<1>3. Queued(c) \subseteq Later =>
        /\ e.tx["handshake"] = c.tx["handshake"]
        /\ \A sp \in {"initial", "handshake"} : e.key[sp] = "installed" => c.key[sp] = "installed"
  BY DEF Sends, Goes
<1>4. ASSUME NEW p \in Staged(d) PROVE Says(p, c, e, k)
  <2>1. Says(p, c, d, i)
    BY <1>4 DEF Sends
  <2>2. p.finished /\ FinishedLast(c.events) =>
          /\ p.crypto = e.tx["handshake"] - 1
          /\ \E j \in 1 .. k : c.events[j] = "write_finished"
    BY <1>0, <2>1 DEF Says, Goes
  <2> QED
    BY <2>1, <2>2 DEF Says
<1>5. \A p \in Staged(e) : Says(p, c, e, k)
  BY <1>4 DEF Goes
<1>6. /\ e.state \in {c.state, "active"} /\ (e.done_due => c.done_due)
      /\ \A sp \in Spaces : e.ack_needed[sp] => c.ack_needed[sp]
  BY DEF Sends, Goes
<1>7. \A sp \in Spaces : e.key[sp] = "discarded" =>
        c.key[sp] = "discarded" \/ (side = "client" /\ sp = "initial" /\ c.tls_complete)
  BY DEF Sends, Goes
<1> QED
  BY <1>1, <1>2, <1>3, <1>5, <1>6, <1>7 DEF Sends

LEMMA UsedHas ==
  ASSUME NEW c \in Conn, NEW sp \in Spaces, NEW d, d = Used(c, sp)
  PROVE  d \in Conn /\ Touches(c, d, {"next_pn"})
<1>1. c.next_pn \in [Spaces -> Nat] /\ c.next_pn[sp] + 1 \in Nat
  BY ConnFields, Counters
<1>2. PICK next \in [Spaces -> Nat] : next = [c.next_pn EXCEPT ![sp] = c.next_pn[sp] + 1]
  BY <1>1
<1>3. d = [c EXCEPT !.next_pn = next]
  BY <1>2, Zenon DEF Used
<1> QED
  BY ONLY c \in Conn, next \in [Spaces -> Nat], <1>3 DEF Conn, Touches, Fields

LEMMA AckedHas ==
  ASSUME NEW c \in Conn, NEW sp \in Spaces, NEW d, d = Acked(c, sp)
  PROVE  /\ d \in Conn /\ Touches(c, d, {"next_pn", "ack_needed"})
         /\ \A s \in Spaces : d.ack_needed[s] => c.ack_needed[s]
<1>1. PICK u : u = Used(c, sp)
  OBVIOUS
<1>2. u \in Conn /\ Touches(c, u, {"next_pn"})
  BY <1>1, UsedHas
<1>3. u.ack_needed = c.ack_needed /\ c.ack_needed \in [Spaces -> BOOLEAN]
  BY <1>2, ConnFields DEF Touches, Fields
<1>4. PICK needed \in [Spaces -> BOOLEAN] : needed = [c.ack_needed EXCEPT ![sp] = FALSE]
  BY <1>3
<1>5. d = [u EXCEPT !.ack_needed = needed]
  BY <1>1, <1>3, <1>4 DEF Acked
<1>6. u \in Conn
  BY <1>2
<1>7. d \in Conn /\ Touches(u, d, {"ack_needed"}) /\ d.ack_needed = needed
  BY ONLY <1>5, <1>6, needed \in [Spaces -> BOOLEAN] DEF Conn, Touches, Fields
<1>8. Touches(c, d, {"next_pn"} \cup {"ack_needed"})
  BY <1>2, <1>7, TouchesTrans
<1>9. Touches(c, d, {"next_pn", "ack_needed"})
  BY <1>8, TouchesMore
<1> QED
  BY <1>3, <1>4, <1>7, <1>9

LEMMA WroteCryptoHas ==
  ASSUME NEW c \in Conn, NEW side \in Sides, NEW sp \in Spaces, NEW d,
         d = WroteCrypto(c, side, sp)
  PROVE  /\ d \in Conn /\ Touches(c, d, {"next_pn", "tx", "ack_needed", "key", "received"})
         /\ d.tx = [c.tx EXCEPT ![sp] = c.tx[sp] + 1]
         /\ \A s \in Spaces :
              /\ d.ack_needed[s] => c.ack_needed[s]
              /\ \/ d.key[s] = c.key[s]
                 \/ side = "client" /\ sp # "initial" /\ s = "initial" /\ d.key[s] = "discarded"
<1>1. PICK u : u = Used(c, sp)
  OBVIOUS
<1>2. u \in Conn /\ Touches(c, u, {"next_pn"})
  BY <1>1, UsedHas
<1>3. /\ u.tx = c.tx /\ u.ack_needed = c.ack_needed /\ u.key = c.key
      /\ u.received = c.received
  BY <1>2 DEF Touches, Fields
<1>4. /\ c.tx \in [Spaces -> Nat] /\ c.tx[sp] + 1 \in Nat /\ c.ack_needed \in [Spaces -> BOOLEAN]
      /\ c.key \in [Spaces -> KeyStates] /\ "initial" \in Spaces
  BY ConnFields, Counters DEF Spaces
<1>5. PICK acked \in BOOLEAN : acked = (c.ack_needed[sp] /\ c.received[sp] # {})
  OBVIOUS
<1>6. PICK tx \in [Spaces -> Nat] : tx = [c.tx EXCEPT ![sp] = c.tx[sp] + 1]
  BY <1>4
<1>7. PICK needed \in [Spaces -> BOOLEAN] :
        needed = [c.ack_needed EXCEPT ![sp] = c.ack_needed[sp] /\ ~acked]
  BY <1>4
<1>8. PICK e : e = [u EXCEPT !.tx = tx, !.ack_needed = needed]
  OBVIOUS
<1>9. d = IF side = "client" /\ sp # "initial" /\ c.key["initial"] = "installed"
          THEN Discard(e, "initial") ELSE e
  <2> DEFINE w == [Used(c, sp) EXCEPT !.tx[sp] = @ + 1,
                     !.ack_needed[sp] = @ /\ ~(c.ack_needed[sp] /\ c.received[sp] # {})]
  <2>1. d = IF side = "client" /\ sp # "initial" /\ c.key["initial"] = "installed"
            THEN Discard(w, "initial") ELSE w
    BY DEF WroteCrypto
  <2>2. w = [u EXCEPT !.tx = [u.tx EXCEPT ![sp] = u.tx[sp] + 1],
                      !.ack_needed = [u.ack_needed EXCEPT ![sp] = u.ack_needed[sp] /\ ~acked]]
    BY <1>1, <1>5, Zenon
  <2>3. w = e
    BY <1>3, <1>6, <1>7, <1>8, <2>2, Zenon
  <2> HIDE DEF w
  <2> QED
    BY <2>1, <2>3
<1>10. /\ e \in Conn /\ Touches(u, e, {"tx", "ack_needed"})
       /\ e.tx = tx /\ e.ack_needed = needed
  <2>1. u \in Conn
    BY <1>2
  <2>2. e \in Conn /\ e.tx = tx /\ e.ack_needed = needed
    BY ONLY ZenonT(60), <1>8, <2>1, tx \in [Spaces -> Nat], needed \in [Spaces -> BOOLEAN] DEF Conn
  <2>3. Touches(u, e, {"tx", "ack_needed"})
    BY ONLY <1>8, <2>1 DEF Conn, Touches, Fields
  <2> QED
    BY <2>2, <2>3
<1>11. e.key = c.key
  BY <1>3, <1>10 DEF Touches, Fields
<1>12. \A s \in Spaces : e.ack_needed[s] => c.ack_needed[s]
  BY <1>4, <1>7, <1>10
<1>13. Touches(c, e, {"next_pn", "tx", "ack_needed"})
  <2>1. Touches(c, e, {"next_pn"} \cup {"tx", "ack_needed"})
    BY <1>2, <1>10, TouchesTrans
  <2> QED
    BY <2>1, TouchesMore
<1>14. CASE d = e
  <2>1. Touches(c, d, {"next_pn", "tx", "ack_needed", "key", "received"})
    BY <1>13, <1>14, TouchesMore
  <2> QED
    BY <1>6, <1>10, <1>11, <1>12, <1>14, <2>1
<1>15. CASE side = "client" /\ sp # "initial" /\ d = Discard(e, "initial")
  <2>1. e \in Conn /\ "initial" \in Spaces /\ d = Discard(e, "initial")
    BY <1>4, <1>10, <1>15
  <2>2. /\ d \in Conn /\ Touches(e, d, {"key", "ack_needed", "received"})
        /\ d.key = [e.key EXCEPT !["initial"] = "discarded"]
        /\ d.ack_needed = [e.ack_needed EXCEPT !["initial"] = FALSE]
        /\ d.received = [e.received EXCEPT !["initial"] = {}]
    BY ONLY <2>1, DiscardHas
  <2>3. d.tx = e.tx
    BY <2>2 DEF Touches, Fields
  <2>4. Touches(c, d, {"next_pn", "tx", "ack_needed", "key", "received"})
    <3>1. Touches(c, d, {"next_pn", "tx", "ack_needed"} \cup {"key", "ack_needed", "received"})
      BY <1>13, <2>2, TouchesTrans
    <3> QED
      BY <3>1, TouchesMore
  <2>5. \A s \in Spaces : d.ack_needed[s] => e.ack_needed[s]
    BY <1>10, <2>2
  <2>6. \A s \in Spaces : d.key[s] = c.key[s] \/ (s = "initial" /\ d.key[s] = "discarded")
    BY <1>4, <1>11, <2>2
  <2> QED
    BY <1>6, <1>10, <1>12, <1>15, <2>2, <2>3, <2>4, <2>5, <2>6
<1> QED
  BY <1>9, <1>14, <1>15

\* A packet that a piece of CRYPTO data leaves in: the piece, or the Initial ACK
\* in front of a server's Handshake flight.
Wrote(p, c, event) ==
  /\ p.version = c.version /\ ~p.request
  /\ \/ /\ p.type = "initial" /\ p.crypto = -1 /\ ~p.finished /\ Level(event) = "handshake"
     \/ /\ p.type = (IF Level(event) = "initial" THEN "initial" ELSE "handshake")
        /\ p.crypto = c.tx[Level(event)] /\ p.params = c.told
        /\ (p.finished <=> event = "write_finished")

LEMMA WriteCryptoHas ==
  ASSUME NEW c \in Conn, NEW side \in Sides, NEW event \in Writes, NEW d,
         d = WriteCrypto(c, side, event)
  PROVE  /\ d \in Conn
         /\ Touches(c, d, {"next_pn", "tx", "ack_needed", "key", "received", "failed", "out",
                           "bytes_sent"})
         /\ c.failed => d.failed
         /\ d.tx = [c.tx EXCEPT ![Level(event)] = c.tx[Level(event)] + 1]
         /\ \A s \in Spaces :
              /\ d.ack_needed[s] => c.ack_needed[s]
              /\ \/ d.key[s] = c.key[s]
                 \/ /\ side = "client" /\ Level(event) # "initial" /\ s = "initial"
                    /\ d.key[s] = "discarded"
         /\ \A p \in Staged(d) : p \in Staged(c) \/ Wrote(p, c, event)
<1>1. PICK sp \in Spaces : sp = Level(event)
  BY DEF Level, Spaces, Writes
<1>2. PICK withAck : withAck = (side = "server" /\ sp = "handshake" /\ c.received["initial"] # {})
  OBVIOUS
<1>3. PICK i : i = IF withAck THEN Acked(c, "initial") ELSE c
  OBVIOUS
<1>4. /\ i \in Conn /\ Touches(c, i, {"next_pn", "ack_needed"})
      /\ \A s \in Spaces : i.ack_needed[s] => c.ack_needed[s]
  <2>1. CASE withAck
    <3>1. i = Acked(c, "initial") /\ "initial" \in Spaces
      BY <1>3, <2>1 DEF Spaces
    <3> QED
      BY <3>1, AckedHas
  <2>2. CASE ~withAck
    <3>1. i = c
      BY <1>3, <2>2
    <3> QED
      BY <3>1 DEF Touches
  <2> QED
    BY <2>1, <2>2
<1>5. /\ i.version = c.version /\ i.tx = c.tx /\ i.told = c.told /\ i.key = c.key
      /\ i.out = c.out /\ i.failed = c.failed
  BY <1>4 DEF Touches, Fields
<1>6. PICK ack : ack = AckPacket(c, "initial")
  OBVIOUS
<1>7. /\ ack \in Packet /\ ack.type = "initial" /\ ack.version = c.version
      /\ ack.crypto = -1 /\ ~ack.finished /\ ~ack.request
  BY <1>6, AckPacketHas DEF Spaces
<1>8. PICK q : q = CryptoPacket(i, event)
  OBVIOUS
<1>9. /\ q \in Packet /\ q.type = (IF Level(event) = "initial" THEN "initial" ELSE "handshake")
      /\ q.version = c.version /\ q.crypto = c.tx[Level(event)] /\ q.params = c.told
      /\ (q.finished <=> event = "write_finished") /\ ~q.request
  BY <1>4, <1>5, <1>8, CryptoPacketHas
<1>10. PICK packets : packets = (IF withAck THEN <<ack>> ELSE <<>>) \o <<q>>
  OBVIOUS
<1>11. /\ packets \in Seq(Packet)
       /\ \A j \in DOMAIN packets : packets[j] = q \/ (withAck /\ packets[j] = ack)
  <2>0. ack \in Packet /\ q \in Packet
    BY <1>7, <1>9
  <2>1. CASE withAck
    <3>1. packets = <<ack>> \o <<q>>
      BY <1>10, <2>1
    <3> QED
      BY <2>0, <2>1, <3>1
  <2>2. CASE ~withAck
    <3>1. packets = << >> \o <<q>>
      BY <1>10, <2>2
    <3> QED
      BY <2>0, <2>2, <3>1
  <2> QED
    BY <2>1, <2>2
<1>12. PICK w : w = WroteCrypto(i, side, sp)
  OBVIOUS
<1>13. /\ w \in Conn /\ Touches(i, w, {"next_pn", "tx", "ack_needed", "key", "received"})
       /\ w.tx = [i.tx EXCEPT ![sp] = i.tx[sp] + 1]
       /\ \A s \in Spaces :
            /\ w.ack_needed[s] => i.ack_needed[s]
            /\ \/ w.key[s] = i.key[s]
               \/ side = "client" /\ sp # "initial" /\ s = "initial" /\ w.key[s] = "discarded"
  BY <1>4, <1>12, WroteCryptoHas
<1>14. d = Push(w, side, packets)
  BY <1>1, <1>2, <1>3, <1>6, <1>8, <1>10, <1>12 DEF WriteCrypto
<1>15. /\ d \in Conn /\ Touches(w, d, {"failed", "out", "bytes_sent"})
       /\ w.failed => d.failed
       /\ \A p \in Staged(d) : p \in Staged(w) \/ \E j \in DOMAIN packets : p = packets[j]
  BY <1>11, <1>13, <1>14, PushHas
<1>16. w.out = i.out /\ w.failed = i.failed
  BY <1>13 DEF Touches, Fields
<1>17. d.tx = w.tx /\ d.ack_needed = w.ack_needed /\ d.key = w.key
  BY <1>15 DEF Touches, Fields
<1>18. Staged(w) = Staged(c)
  BY <1>5, <1>16 DEF Staged
<1>19. \A p \in Staged(d) : p \in Staged(c) \/ Wrote(p, c, event)
  <2> SUFFICES ASSUME NEW p \in Staged(d), p \notin Staged(c) PROVE Wrote(p, c, event)
    OBVIOUS
  <2>1. p = q \/ (withAck /\ p = ack)
    BY <1>11, <1>15, <1>18
  <2>2. withAck => Level(event) = "handshake"
    BY <1>1, <1>2
  <2> QED
    BY <1>7, <1>9, <2>1, <2>2 DEF Wrote
<1>20. Touches(c, d, {"next_pn", "tx", "ack_needed", "key", "received", "failed", "out",
                      "bytes_sent"})
  <2>1. Touches(c, w, {"next_pn", "ack_needed"}
                        \cup {"next_pn", "tx", "ack_needed", "key", "received"})
    BY <1>4, <1>13, TouchesTrans
  <2>2. Touches(c, w, {"next_pn", "tx", "ack_needed", "key", "received"})
    BY <2>1, TouchesMore
  <2>3. Touches(c, d, {"next_pn", "tx", "ack_needed", "key", "received"}
                        \cup {"failed", "out", "bytes_sent"})
    BY <1>15, <2>2, TouchesTrans
  <2> QED
    BY <2>3, TouchesMore
<1> QED
  BY <1>1, <1>4, <1>5, <1>13, <1>15, <1>16, <1>17, <1>19, <1>20

\* A turn of the poll loop.
LEMMA OnEventGoes ==
  ASSUME NEW c \in Conn, NEW d \in Conn, NEW side \in Sides, NEW i \in DOMAIN c.events,
         Sends(c, i - 1, d, side), side = "client" => Queued(c) \subseteq EarlyEvents \/ c.tls_complete,
         NEW e, e = OnEvent(d, side, c.events[i])
  PROVE  e \in Conn /\ Goes(c, d, e, i - 1, i, side)
<1>0. /\ i \in Nat /\ i \in 1 .. Len(c.events) /\ c.events[i] \in TlsEvents
      /\ \A j \in 1 .. i : j > i - 1 <=> j = i
  <2>1. c.events \in Seq(TlsEvents)
    BY ConnFields
  <2> QED
    BY <2>1
<1>1. PICK event \in TlsEvents : event = c.events[i]
  BY <1>0
<1>2. event \in Queued(c) /\ e = OnEvent(d, side, event)
  BY <1>1 DEF Queued
<1>3. d.version = c.version /\ d.told = c.told
  BY DEF Sends, Touches, Fields, SendFields
<1>4. d.key \in [Spaces -> KeyStates] /\ d.tx \in [Spaces -> Nat]
      /\ "handshake" \in Spaces /\ "app" \in Spaces /\ "initial" \in Spaces
  BY ConnFields DEF Spaces
<1>5. CASE d.failed
  <2>1. e = d
    BY <1>2, <1>5 DEF OnEvent
  <2>2. Touches(d, e, SendFields)
    BY <2>1 DEF Touches
  <2> QED
    BY <1>5, <2>1, <2>2 DEF Goes
<1>6. CASE ~d.failed /\ event \in Writes
  <2>0. PICK sp \in Spaces : sp = Level(event)
    BY DEF Level, Spaces
  <2>1. e = WriteCrypto(d, side, event)
    <3>1. ~d.failed /\ event \in Writes
      BY <1>6
    <3> QED
      BY ONLY <1>2, <3>1 DEF OnEvent, Writes
  <2>2. /\ e \in Conn
        /\ Touches(d, e, {"next_pn", "tx", "ack_needed", "key", "received", "failed", "out",
                          "bytes_sent"})
        /\ d.failed => e.failed
        /\ e.tx = [d.tx EXCEPT ![Level(event)] = d.tx[Level(event)] + 1]
        /\ \A s \in Spaces :
             /\ e.ack_needed[s] => d.ack_needed[s]
             /\ \/ e.key[s] = d.key[s]
                \/ /\ side = "client" /\ Level(event) # "initial" /\ s = "initial"
                   /\ e.key[s] = "discarded"
        /\ \A p \in Staged(e) : p \in Staged(d) \/ Wrote(p, d, event)
    BY <1>6, <2>1, WriteCryptoHas
  <2>3. Touches(d, e, SendFields)
    BY <2>2, TouchesMore DEF SendFields
  <2>4. e.state = d.state /\ e.done_due = d.done_due
    BY <2>2 DEF Touches, Fields
  <2>5. side = "client" /\ sp # "initial" => c.tls_complete
    BY <1>2, <1>6, <2>0 DEF EarlyEvents, Level, Writes
  <2>6. \A s \in Spaces : e.key[s] = "discarded" =>
          d.key[s] = "discarded" \/ (side = "client" /\ s = "initial" /\ c.tls_complete)
    BY <2>0, <2>2, <2>5
  <2>7. e.key["app"] = d.key["app"] /\ event # "install_one_rtt"
    BY <1>4, <1>6, <2>2 DEF Writes
  <2>8. \A s \in Spaces : s # sp => e.tx[s] = d.tx[s]
    BY <1>4, <2>0, <2>2
  <2>9. Queued(c) \subseteq Later => event = "write_app" /\ sp = "app"
    BY <1>2, <1>6, <2>0 DEF Later, Writes, Level
  <2>10. Queued(c) \subseteq Later =>
           /\ e.tx["handshake"] = d.tx["handshake"]
           /\ \A s \in {"initial", "handshake"} : e.key[s] = "installed" => d.key[s] = "installed"
    BY <1>4, <2>2, <2>8, <2>9
  <2>11. FinishedLast(c.events) /\ (\E j \in 1 .. i - 1 : c.events[j] = "write_finished") =>
           e.tx["handshake"] = d.tx["handshake"]
    <3> SUFFICES ASSUME FinishedLast(c.events), NEW j \in 1 .. i - 1,
                        c.events[j] = "write_finished"
                 PROVE  e.tx["handshake"] = d.tx["handshake"]
      OBVIOUS
    <3>1. j \in DOMAIN c.events /\ j < i
      <4>1. c.events \in Seq(TlsEvents)
        BY ConnFields
      <4> QED
        BY <1>0, <4>1
    <3>2. event \notin {"write_handshake", "write_finished"}
      BY <1>1, <3>1 DEF FinishedLast
    <3>3. sp # "handshake"
      BY <1>6, <2>0, <3>2 DEF Level, Writes
    <3> QED
      BY <1>4, <2>8, <3>3
  <2>12. ASSUME NEW p \in Staged(e), p \notin Staged(d) PROVE Says(p, c, e, i)
    <3>1. Wrote(p, d, event)
      BY <2>2, <2>12
    <3>2. p.type \in Spaces /\ p.version = c.version /\ ~p.request
      BY <1>3, <3>1 DEF Wrote, Spaces
    <3>3. p.type = "initial" /\ p.crypto # -1 => p.params = c.told /\ "write_initial" \in Queued(c)
      <4>1. Level(event) = "initial" => event = "write_initial"
        BY <1>6 DEF Level, Writes
      <4>2. p.type = "initial" /\ p.crypto # -1 => p.params = d.told /\ Level(event) = "initial"
        BY <3>1 DEF Wrote
      <4> QED
        BY <1>2, <1>3, <4>1, <4>2
    <3>4. p.finished => /\ p.crypto = e.tx["handshake"] - 1
                        /\ \E j \in 1 .. i : c.events[j] = "write_finished"
      <4> SUFFICES ASSUME p.finished
                   PROVE  /\ p.crypto = e.tx["handshake"] - 1
                          /\ \E j \in 1 .. i : c.events[j] = "write_finished"
        OBVIOUS
      <4>1. event = "write_finished" /\ p.crypto = d.tx[Level(event)]
        BY <3>1 DEF Wrote
      <4>2. Level(event) = "handshake"
        BY <4>1 DEF Level
      <4>3. e.tx["handshake"] = d.tx["handshake"] + 1 /\ d.tx["handshake"] \in Nat
        BY <1>4, <2>2, <4>2
      <4>4. p.crypto = d.tx["handshake"]
        BY <4>1, <4>2
      <4>5. p.crypto = e.tx["handshake"] - 1
        BY ONLY <4>3, <4>4
      <4>6. i \in 1 .. i /\ c.events[i] = "write_finished"
        BY <1>0, <1>1, <4>1
      <4> QED
        BY <4>5, <4>6
    <3>5. Queued(c) \subseteq Later => p.type = "handshake" /\ "write_app" \in Queued(c)
      <4> SUFFICES ASSUME Queued(c) \subseteq Later
                   PROVE  p.type = "handshake" /\ "write_app" \in Queued(c)
        OBVIOUS
      <4>1. event = "write_app" /\ Level(event) = "app"
        BY <2>0, <2>9
      <4> QED
        BY <1>2, <3>1, <4>1 DEF Wrote
    <3> QED
      BY <3>2, <3>3, <3>4, <3>5 DEF Says
  <2>13. \A j \in 1 .. i : j > i - 1 /\ c.events[j] = "install_one_rtt" =>
           e.failed \/ e.key["app"] = "installed"
    BY <1>0, <1>1, <2>7
  <2> QED
    BY <2>2, <2>3, <2>4, <2>6, <2>7, <2>10, <2>11, <2>12, <2>13 DEF Goes
<1>7. CASE ~d.failed /\ event = "install_handshake"
  <2>1. e = Install(d, "handshake")
    BY <1>2, <1>7 DEF OnEvent, Writes
  <2>2. /\ e \in Conn /\ Touches(d, e, {"key"})
        /\ e.key = [d.key EXCEPT !["handshake"] = "installed"]
    BY ONLY <1>4, <2>1, d \in Conn, InstallHas
  <2>3. Touches(d, e, SendFields)
    BY <2>2, TouchesMore DEF SendFields
  <2>4. /\ e.state = d.state /\ e.done_due = d.done_due /\ e.failed = d.failed
        /\ e.ack_needed = d.ack_needed /\ e.tx = d.tx /\ e.out = d.out
    BY <2>2 DEF Touches, Fields
  <2>5. Staged(e) = Staged(d)
    BY <2>4 DEF Staged
  <2>6. ~(Queued(c) \subseteq Later)
    BY <1>2, <1>7 DEF Later
  <2>7. /\ \A s \in Spaces : e.key[s] = "discarded" => d.key[s] = "discarded"
        /\ e.key["app"] = d.key["app"]
    BY <1>4, <2>2
  <2>8. \A j \in 1 .. i : ~(j > i - 1 /\ c.events[j] = "install_one_rtt")
    BY <1>0, <1>1, <1>7
  <2> QED
    BY <2>2, <2>3, <2>4, <2>5, <2>6, <2>7, <2>8 DEF Goes
<1>8. CASE ~d.failed /\ event = "install_one_rtt"
  <2>1. PICK k : k = Install(d, "app")
    OBVIOUS
  <2>2. /\ k \in Conn /\ Touches(d, k, {"key"})
        /\ k.key = [d.key EXCEPT !["app"] = "installed"]
    BY ONLY <1>4, <2>1, d \in Conn, InstallHas
  <2>3. e = [k EXCEPT !.can_send = TRUE, !.state = "active"]
    BY <1>2, <1>8, <2>1 DEF OnEvent, Writes
  <2>4. /\ e \in Conn /\ Touches(k, e, {"can_send", "state"}) /\ e.state = "active"
        /\ e.key = k.key
    <3>1. k \in Conn /\ TRUE \in BOOLEAN /\ "active" \in States
      BY <2>2 DEF States
    <3>2. e \in Conn
      BY ONLY <2>3, <3>1 DEF Conn
    <3>3. Touches(k, e, {"can_send", "state"})
      BY ONLY <2>3, <3>1 DEF Conn, Touches, Fields
    <3>4. e.state = "active" /\ e.key = k.key
      BY ONLY <2>3, <3>1 DEF Conn
    <3> QED
      BY <3>2, <3>3, <3>4
  <2>5. Touches(d, e, SendFields)
    <3>1. Touches(d, e, {"key"} \cup {"can_send", "state"})
      BY <2>2, <2>4, TouchesTrans
    <3> QED
      BY <3>1, TouchesMore DEF SendFields
  <2>6. /\ e.done_due = d.done_due /\ e.failed = d.failed
        /\ e.ack_needed = d.ack_needed /\ e.tx = d.tx /\ e.out = d.out
    BY <2>2, <2>4 DEF Touches, Fields
  <2>7. Staged(e) = Staged(d)
    BY <2>6 DEF Staged
  <2>8. /\ \A s \in Spaces : e.key[s] = "discarded" => d.key[s] = "discarded"
        /\ e.key["app"] = "installed"
        /\ \A s \in {"initial", "handshake"} : e.key[s] = d.key[s]
    BY <1>4, <2>2, <2>4
  <2> QED
    BY <2>4, <2>5, <2>6, <2>7, <2>8 DEF Goes
<1>9. CASE ~d.failed /\ event = "complete"
  <2>1. e = [d EXCEPT !.completed = TRUE]
    BY <1>2, <1>9 DEF OnEvent, Writes
  <2>2. e \in Conn /\ Touches(d, e, {"completed"})
    BY ONLY <2>1, d \in Conn DEF Conn, Touches, Fields
  <2>3. Touches(d, e, SendFields)
    BY <2>2, TouchesMore DEF SendFields
  <2>4. /\ e.state = d.state /\ e.done_due = d.done_due /\ e.failed = d.failed
        /\ e.ack_needed = d.ack_needed /\ e.tx = d.tx /\ e.out = d.out /\ e.key = d.key
    BY <2>2 DEF Touches, Fields
  <2>5. Staged(e) = Staged(d)
    BY <2>4 DEF Staged
  <2>6. \A j \in 1 .. i : ~(j > i - 1 /\ c.events[j] = "install_one_rtt")
    BY <1>0, <1>1, <1>9
  <2> QED
    BY <2>2, <2>3, <2>4, <2>5, <2>6 DEF Goes
<1>10. event \in Writes \/ event \in {"install_handshake", "install_one_rtt", "complete"}
  BY DEF TlsEvents
<1> QED
  BY <1>5, <1>6, <1>7, <1>8, <1>9, <1>10

\* The poll loop.
LEMMA PolledHas ==
  ASSUME NEW c \in Conn, NEW side \in Sides, c.out = <<>>,
         side = "client" => Queued(c) \subseteq EarlyEvents \/ c.tls_complete,
         NEW e, e = Polled(c, side)
  PROVE  e \in Conn /\ Sends(c, Len(c.events), e, side) /\ e.events = <<>>
<1> DEFINE n == Len(c.events)
           T(i) == {d \in Conn : Sends(c, i, d, side) /\ d.events = <<>>}
           Ts == [i \in 0 .. n |-> T(i)]
<1>1. n \in Nat /\ DOMAIN c.events = 1 .. n
  <2>1. c.events \in Seq(TlsEvents)
    BY ConnFields
  <2> QED
    BY <2>1
<1>2. PICK empty \in Seq(TlsEvents) : empty = <<>>
  <2>1. << >> \in Seq(TlsEvents)
    BY ONLY SMT
  <2> QED
    BY ONLY <2>1, Zenon
<1>12. PICK d : d = [c EXCEPT !.events = empty]
  OBVIOUS
<1>3. d \in Conn /\ Touches(c, d, {"events"}) /\ d.events = <<>>
  <2>1. d \in Conn /\ Touches(c, d, {"events"}) /\ d.events = empty
    BY ONLY <1>12, empty \in Seq(TlsEvents), c \in Conn DEF Conn, Touches, Fields
  <2> QED
    BY <1>2, <2>1
<1>4. d \in T(0)
  <2>1. /\ d.state = c.state /\ d.ack_needed = c.ack_needed /\ d.done_due = c.done_due
        /\ d.key = c.key /\ d.tx = c.tx /\ d.out = c.out
    BY <1>3 DEF Touches, Fields
  <2>2. Staged(d) = {}
    BY <2>1 DEF Staged
  <2>3. Touches(c, d, SendFields)
    BY <1>3, TouchesMore DEF SendFields
  <2>4. Sends(c, 0, d, side)
    BY <2>1, <2>2, <2>3 DEF Sends
  <2> QED
    BY <1>3, <2>4
<1>5. ASSUME NEW i \in 1 .. n, NEW f \in T(i - 1) PROVE OnEvent(f, side, c.events[i]) \in T(i)
  <2>1. PICK g : g = OnEvent(f, side, c.events[i])
    OBVIOUS
  <2>2. f \in Conn /\ Sends(c, i - 1, f, side) /\ f.events = <<>> /\ i \in DOMAIN c.events
    BY <1>1, <1>5
  <2>3. g \in Conn /\ Goes(c, f, g, i - 1, i, side)
    BY <2>1, <2>2, OnEventGoes
  <2>4. i - 1 \in Nat /\ i \in Nat /\ i - 1 <= i
    BY <1>1
  <2>5. Sends(c, i, g, side)
    BY ONLY <2>2, <2>3, <2>4, SendsGoes
  <2>6. g.events = <<>>
    <3>1. CASE f.failed
      BY <2>1, <2>2, <3>1 DEF OnEvent
    <3>2. CASE ~f.failed /\ c.events[i] \in Writes
      <4>1. PICK event \in Writes : event = c.events[i]
        BY <3>2
      <4>2. g = WriteCrypto(f, side, event)
        <5>1. g = OnEvent(f, side, event) /\ ~f.failed /\ event \in Writes
          BY <2>1, <3>2, <4>1
        <5> QED
          BY ONLY <5>1 DEF OnEvent, Writes
      <4>3. Touches(f, g, {"next_pn", "tx", "ack_needed", "key", "received", "failed", "out",
                           "bytes_sent"})
        BY ONLY <2>2, <4>2, event \in Writes, side \in Sides, WriteCryptoHas
      <4> QED
        BY <2>2, <4>3 DEF Touches, Fields
    <3>3. CASE ~f.failed /\ c.events[i] \notin Writes
      <4>1. c.events[i] \in {"install_handshake", "install_one_rtt", "complete"}
        <5>1. c.events \in Seq(TlsEvents)
          BY ConnFields
        <5>2. c.events[i] \in TlsEvents
          BY <2>2, <5>1
        <5> QED
          BY <3>3, <5>2 DEF TlsEvents
      <4>2. \/ g = Install(f, "handshake")
            \/ g = [Install(f, "app") EXCEPT !.can_send = TRUE, !.state = "active"]
            \/ g = [f EXCEPT !.completed = TRUE]
        BY <2>1, <3>3, <4>1 DEF OnEvent
      <4> QED
        BY <2>2, <4>2 DEF Install, Conn
    <3> QED
      BY <3>1, <3>2, <3>3
  <2> QED
    BY <2>1, <2>3, <2>5, <2>6
<1> HIDE DEF T
<1>6. \A i \in 1 .. n : i - 1 \in 0 .. n /\ i \in 0 .. n
  BY <1>1
<1>7. 0 \in 0 .. n /\ n \in 0 .. n
  BY <1>1
<1>8. \A i \in 0 .. n : Ts[i] = T(i)
  OBVIOUS
<1> HIDE DEF Ts
<1>9. \A i \in 1 .. n : \A f \in Ts[i - 1] : OnEvent(f, side, c.events[i]) \in Ts[i]
  BY <1>5, <1>6, <1>8
<1>10. [c EXCEPT !.events = <<>>] \in Ts[0]
  BY <1>2, <1>12, <1>4, <1>7, <1>8
<1>11. e \in Ts[n]
  BY <1>1, <1>9, <1>10, PollLoop
<1> QED
  BY <1>7, <1>8, <1>11 DEF T

\* Packets without CRYPTO data.
LEMMA PushGoes ==
  ASSUME NEW c \in Conn, NEW d \in Conn, NEW u \in Conn, NEW side, NEW n \in Nat,
         Sends(c, n, d, side),
         Touches(d, u, {"next_pn", "ack_needed", "done_due", "confirmed", "asked"}),
         \A sp \in Spaces : u.ack_needed[sp] => d.ack_needed[sp],
         u.done_due => d.done_due,
         NEW packets \in Seq(Packet),
         \A j \in DOMAIN packets :
           LET p == packets[j]
           IN  /\ p.type \in Spaces /\ p.version = d.version /\ p.crypto = -1 /\ ~p.finished
               /\ p.request => p.type = "app"
               /\ p.type = "app" \/ d.key[p.type] = "installed",
         NEW e, e = Push(u, side, packets)
  PROVE  e \in Conn /\ e.events = d.events /\ Sends(c, n, e, side)
<1>1. /\ u.key = d.key /\ u.tx = d.tx /\ u.state = d.state /\ u.out = d.out
      /\ u.failed = d.failed /\ u.events = d.events
  BY DEF Touches, Fields
<1>2. /\ e \in Conn /\ Touches(u, e, {"failed", "out", "bytes_sent"})
      /\ u.failed => e.failed
      /\ \A p \in Staged(e) : p \in Staged(u) \/ \E j \in DOMAIN packets : p = packets[j]
  BY PushHas
<1>3. /\ e.key = d.key /\ e.tx = d.tx /\ e.state = d.state /\ e.events = d.events
      /\ e.ack_needed = u.ack_needed /\ e.done_due = u.done_due
  BY <1>1, <1>2 DEF Touches, Fields
<1>4. Staged(u) = Staged(d)
  BY <1>1 DEF Staged
<1>5. Touches(d, e, SendFields)
  <2>1. Touches(d, e, {"next_pn", "ack_needed", "done_due", "confirmed", "asked"}
                        \cup {"failed", "out", "bytes_sent"})
    BY <1>2, TouchesTrans
  <2> QED
    BY <2>1, TouchesMore DEF SendFields
<1>6. d.version = c.version
  BY DEF Sends, Touches, Fields, SendFields
<1>7. ASSUME NEW p \in Staged(e), p \notin Staged(d) PROVE Says(p, c, e, n)
  <2>1. /\ p.type \in Spaces /\ p.version = d.version /\ p.crypto = -1 /\ ~p.finished
        /\ p.request => p.type = "app"
        /\ p.type = "app" \/ d.key[p.type] = "installed"
    BY <1>2, <1>4, <1>7
  <2>2. Queued(c) \subseteq Later =>
          p.type = "app" \/ c.key[p.type] = "installed"
    <3>1. p.type \in {"initial", "handshake", "app"}
      BY <2>1 DEF Spaces
    <3> QED
      BY <2>1, <3>1 DEF Sends
  <2> QED
    BY <1>6, <2>1, <2>2 DEF Says
<1>8. \A j \in 1 .. n : ~(j > n)
  OBVIOUS
<1>9. Goes(c, d, e, n, n, side)
  BY <1>1, <1>2, <1>3, <1>5, <1>7, <1>8 DEF Goes
<1>10. Sends(c, n, e, side)
  BY <1>9, SendsGoes
<1> QED
  BY <1>2, <1>3, <1>10

LEMMA SendAcksHas ==
  ASSUME NEW c \in Conn, NEW d \in Conn, NEW side, NEW n \in Nat, Sends(c, n, d, side),
         NEW e, e = SendAcks(d, side)
  PROVE  e \in Conn /\ e.events = d.events /\ Sends(c, n, e, side)
<1> DEFINE due == AckableSpaces(d)
           Ack(sp) == IF sp \in due THEN <<AckPacket(d, sp)>> ELSE <<>>
           packets == Ack("initial") \o Ack("handshake") \o Ack("app")
<1>1. CASE d.failed \/ d.out # <<>> \/ due = {}
  <2>1. e = d
    BY <1>1 DEF SendAcks
  <2> QED
    BY <2>1
<1>2. CASE ~(d.failed \/ d.out # <<>> \/ due = {})
  <2>1. \A sp \in Spaces : d.next_pn[sp] \in Nat /\ d.ack_needed[sp] \in BOOLEAN
    BY ConnFields
  <2>2. PICK next \in [Spaces -> Nat] :
          next = [sp \in Spaces |-> IF sp \in due THEN d.next_pn[sp] + 1 ELSE d.next_pn[sp]]
    <3> HIDE DEF due
    <3>1. [sp \in Spaces |-> IF sp \in due THEN d.next_pn[sp] + 1 ELSE d.next_pn[sp]]
            \in [Spaces -> Nat]
      BY <2>1
    <3> QED
      BY <3>1
  <2>3. PICK needed \in [Spaces -> BOOLEAN] :
          needed = [sp \in Spaces |-> d.ack_needed[sp] /\ sp \notin due]
    BY <2>1
  <2>4. PICK u : u = [d EXCEPT !.next_pn = next, !.ack_needed = needed]
    OBVIOUS
  <2>5. e = Push(u, side, packets)
    <3>1. e = Push([d EXCEPT !.next_pn = [sp \in Spaces |-> IF sp \in due THEN @[sp] + 1 ELSE @[sp]],
                             !.ack_needed = [sp \in Spaces |-> @[sp] /\ sp \notin due]],
                   side, packets)
      BY <1>2 DEF SendAcks
    <3>2. u = [d EXCEPT !.next_pn = [sp \in Spaces |-> IF sp \in due THEN @[sp] + 1 ELSE @[sp]],
                        !.ack_needed = [sp \in Spaces |-> @[sp] /\ sp \notin due]]
      BY <2>2, <2>3, <2>4, Zenon
    <3> HIDE DEF packets
    <3> QED
      BY <3>1, <3>2
  <2>6. u \in Conn /\ Touches(d, u, {"next_pn", "ack_needed"}) /\ u.ack_needed = needed
    BY ONLY <2>4, d \in Conn, next \in [Spaces -> Nat], needed \in [Spaces -> BOOLEAN]
       DEF Conn, Touches, Fields
  <2>7. u.done_due = d.done_due
    BY <2>6 DEF Touches, Fields
  <2>8. \A sp \in Spaces : u.ack_needed[sp] => d.ack_needed[sp]
    BY <2>3, <2>6
  <2>9. Touches(d, u, {"next_pn", "ack_needed", "done_due", "confirmed", "asked"})
    BY <2>6, TouchesMore
  <2> DEFINE OK == {p \in Packet : /\ p.type \in Spaces /\ p.version = d.version /\ p.crypto = -1
                                   /\ ~p.finished /\ ~p.request /\ d.key[p.type] = "installed"}
  <2>10. ASSUME NEW sp \in Spaces PROVE Ack(sp) \in Seq(OK)
    <3>1. CASE sp \notin due
      BY <3>1
    <3>2. CASE sp \in due
      <4>1. PICK p : p = AckPacket(d, sp)
        OBVIOUS
      <4>2. /\ p \in Packet /\ p.type = sp /\ p.version = d.version /\ p.crypto = -1
            /\ ~p.finished /\ ~p.done /\ ~p.request
        BY <4>1, AckPacketHas
      <4>3. d.key[sp] = "installed"
        BY <3>2 DEF AckableSpaces
      <4>4. p \in OK
        BY <4>2, <4>3
      <4> HIDE DEF OK
      <4> QED
        BY <3>2, <4>1, <4>4
    <3> QED
      BY <3>1, <3>2
  <2>11. packets \in Seq(OK)
    <3>1. Ack("initial") \in Seq(OK) /\ Ack("handshake") \in Seq(OK) /\ Ack("app") \in Seq(OK)
      <4> HIDE DEF OK, Ack
      <4> QED
        BY <2>10 DEF Spaces
    <3> HIDE DEF OK, Ack
    <3> QED
      BY <3>1
  <2>12. PICK s : s = packets
    OBVIOUS
  <2>13. s \in Seq(OK)
    <3> HIDE DEF packets, OK
    <3> QED
      BY <2>11, <2>12
  <2>14. s \in Seq(Packet)
    <3> HIDE DEF packets
    <3> QED
      BY <2>13
  <2>15. \A j \in DOMAIN s :
           LET p == s[j]
           IN  /\ p.type \in Spaces /\ p.version = d.version /\ p.crypto = -1 /\ ~p.finished
               /\ p.request => p.type = "app"
               /\ p.type = "app" \/ d.key[p.type] = "installed"
    <3> HIDE DEF packets
    <3>1. \A j \in DOMAIN s : s[j] \in OK
      <4> HIDE DEF OK
      <4> QED
        BY <2>13
    <3> QED
      BY <3>1
  <2>16. e = Push(u, side, s)
    <3> HIDE DEF packets
    <3> QED
      BY <2>5, <2>12
  <2>17. u.done_due => d.done_due
    BY <2>7
  <2> QED
    BY ONLY c \in Conn, d \in Conn, n \in Nat, Sends(c, n, d, side), <2>6, <2>8, <2>9, <2>14,
            <2>15, <2>16, <2>17, PushGoes
<1> QED
  BY <1>1, <1>2

\* A packet of its own: HANDSHAKE_DONE, or the request.
LEMMA AppPacketHas ==
  ASSUME NEW c \in Conn, NEW p, NEW q, q = NewPacket(c, "app", "app"),
         p = [q EXCEPT !.done = TRUE] \/ p = [q EXCEPT !.request = TRUE]
  PROVE  /\ p \in Packet /\ p.type = "app" /\ p.version = c.version /\ p.crypto = -1
         /\ ~p.finished
<1>1. "app" \in Spaces /\ "app" \in Types
  BY DEF Spaces, Types
<1>2. q \in Packet /\ q.type = "app" /\ q.crypto = -1 /\ ~q.finished
  BY <1>1, NewPacketIs
<1>3. q.version = c.version
  BY DEF NewPacket
<1> QED
  BY ONLY <1>2, <1>3, p = [q EXCEPT !.done = TRUE] \/ p = [q EXCEPT !.request = TRUE] DEF Packet

LEMMA SendDoneHas ==
  ASSUME NEW c \in Conn, NEW d \in Conn, NEW side, NEW n \in Nat, Sends(c, n, d, side),
         NEW e, e = SendDone(d, side)
  PROVE  e \in Conn /\ e.events = d.events /\ Sends(c, n, e, side)
<1>1. CASE d.failed \/ ~d.done_due
  <2>1. e = d
    BY <1>1 DEF SendDone
  <2> QED
    BY <2>1
<1>2. CASE ~(d.failed \/ ~d.done_due)
  <2>1. PICK v : v = Used(d, "app")
    OBVIOUS
  <2>2. v \in Conn /\ Touches(d, v, {"next_pn"})
    BY <2>1, UsedHas DEF Spaces
  <2>3. PICK u : u = [v EXCEPT !.done_due = FALSE, !.confirmed = TRUE]
    OBVIOUS
  <2>4. u \in Conn /\ Touches(v, u, {"done_due", "confirmed"}) /\ ~u.done_due
    <3>1. v \in Conn
      BY <2>2
    <3> QED
      BY ONLY <2>3, <3>1 DEF Conn, Touches, Fields
  <2>5. Touches(d, u, {"next_pn", "ack_needed", "done_due", "confirmed", "asked"})
    <3>1. Touches(d, u, {"next_pn"} \cup {"done_due", "confirmed"})
      BY <2>2, <2>4, TouchesTrans
    <3> QED
      BY <3>1, TouchesMore
  <2>6. u.ack_needed = d.ack_needed
    BY <2>2, <2>4 DEF Touches, Fields
  <2>7. PICK q : q = NewPacket(d, "app", "app")
    OBVIOUS
  <2>8. PICK p : p = [q EXCEPT !.done = TRUE]
    OBVIOUS
  <2>9. /\ p \in Packet /\ p.type = "app" /\ p.version = d.version /\ p.crypto = -1
        /\ ~p.finished
    BY <2>7, <2>8, AppPacketHas
  <2>10. PICK s : s = <<p>>
    OBVIOUS
  <2>11. s \in Seq(Packet) /\ \A j \in DOMAIN s : s[j] = p
    BY <2>9, <2>10
  <2>12. e = Push(u, side, s)
    BY <1>2, <2>1, <2>3, <2>7, <2>8, <2>10, Zenon DEF SendDone
  <2>13. \A j \in DOMAIN s :
           LET x == s[j]
           IN  /\ x.type \in Spaces /\ x.version = d.version /\ x.crypto = -1 /\ ~x.finished
               /\ x.request => x.type = "app"
               /\ x.type = "app" \/ d.key[x.type] = "installed"
    BY <2>9, <2>11 DEF Spaces
  <2>14. (\A sp \in Spaces : u.ack_needed[sp] => d.ack_needed[sp]) /\ (u.done_due => d.done_due)
    BY <2>4, <2>6
  <2> QED
    BY ONLY c \in Conn, d \in Conn, n \in Nat, Sends(c, n, d, side), <2>4, <2>5, <2>11,
            <2>12, <2>13, <2>14, PushGoes
<1> QED
  BY <1>1, <1>2

\* A number that no packet gets.
LEMMA UsedSends ==
  ASSUME NEW c \in Conn, NEW d \in Conn, NEW side, NEW n \in Nat, Sends(c, n, d, side),
         NEW e, e = Used(d, "app")
  PROVE  e \in Conn /\ e.events = d.events /\ Sends(c, n, e, side)
<1>1. e \in Conn /\ Touches(d, e, {"next_pn"})
  BY UsedHas DEF Spaces
<1>2. /\ e.key = d.key /\ e.tx = d.tx /\ e.state = d.state /\ e.events = d.events
      /\ e.ack_needed = d.ack_needed /\ e.done_due = d.done_due /\ e.out = d.out
      /\ e.failed = d.failed
  BY <1>1 DEF Touches, Fields
<1>3. Staged(e) = Staged(d)
  BY <1>2 DEF Staged
<1>4. Touches(d, e, SendFields)
  BY <1>1, TouchesMore DEF SendFields
<1>5. \A j \in 1 .. n : ~(j > n)
  OBVIOUS
<1>6. Goes(c, d, e, n, n, side)
  BY <1>2, <1>3, <1>4, <1>5 DEF Goes
<1>7. Sends(c, n, e, side)
  BY <1>1, <1>6, SendsGoes
<1> QED
  BY <1>1, <1>2, <1>7

LEMMA SendRequestHas ==
  ASSUME NEW c \in Conn, NEW d \in Conn, NEW side, NEW n \in Nat, Sends(c, n, d, side),
         NEW e, e = SendRequest(d, side)
  PROVE  e \in Conn /\ e.events = d.events /\ Sends(c, n, e, side)
<1>1. CASE d.failed \/ ~d.can_send \/ (side = "client" /\ ~d.confirmed)
  <2>1. e = d
    BY <1>1 DEF SendRequest
  <2> QED
    BY <2>1
<1> DEFINE goes == ~(d.failed \/ ~d.can_send \/ (side = "client" /\ ~d.confirmed))
<1>3. CASE goes /\ (side = "server" \/ d.asked)
  <2>1. e = Used(d, "app")
    BY <1>3 DEF SendRequest
  <2> QED
    BY <2>1, UsedSends
<1>2. CASE goes /\ ~(side = "server" \/ d.asked)
  <2>a. PICK w : w = Used(d, "app")
    OBVIOUS
  <2>b. w \in Conn /\ Touches(d, w, {"next_pn"})
    BY <2>a, UsedHas DEF Spaces
  <2>1. PICK v : v = Used(w, "app")
    OBVIOUS
  <2>2. v \in Conn /\ Touches(d, v, {"next_pn"})
    <3>1. w \in Conn
      BY <2>b
    <3>2. v \in Conn /\ Touches(w, v, {"next_pn"})
      BY <2>1, <3>1, UsedHas DEF Spaces
    <3>3. Touches(d, v, {"next_pn"} \cup {"next_pn"})
      BY <2>b, <3>2, TouchesTrans
    <3> QED
      BY <3>2, <3>3, TouchesMore
  <2>3. PICK u : u = [v EXCEPT !.asked = TRUE]
    OBVIOUS
  <2>4. u \in Conn /\ Touches(v, u, {"asked"})
    <3>1. v \in Conn
      BY <2>2
    <3> QED
      BY ONLY <2>3, <3>1 DEF Conn, Touches, Fields
  <2>5. Touches(d, u, {"next_pn", "ack_needed", "done_due", "confirmed", "asked"})
    <3>1. Touches(d, u, {"next_pn"} \cup {"asked"})
      BY <2>2, <2>4, TouchesTrans
    <3> QED
      BY <3>1, TouchesMore
  <2>6. u.ack_needed = d.ack_needed /\ u.done_due = d.done_due
    BY <2>2, <2>4 DEF Touches, Fields
  <2>7. PICK q : q = NewPacket(d, "app", "app")
    OBVIOUS
  <2>8. PICK p : p = [q EXCEPT !.request = TRUE]
    OBVIOUS
  <2>9. /\ p \in Packet /\ p.type = "app" /\ p.version = d.version /\ p.crypto = -1
        /\ ~p.finished
    BY <2>7, <2>8, AppPacketHas
  <2>10. PICK s : s = <<p>>
    OBVIOUS
  <2>11. s \in Seq(Packet) /\ \A j \in DOMAIN s : s[j] = p
    BY <2>9, <2>10
  <2>12. e = Push(u, side, s)
    <3>1. SendRequest(d, side) =
            Push([Used(Used(d, "app"), "app") EXCEPT !.asked = TRUE], side,
                 <<[NewPacket(d, "app", "app") EXCEPT !.request = TRUE]>>)
      BY <1>2, Zenon DEF SendRequest
    <3> QED
      BY <2>a, <2>1, <2>3, <2>7, <2>8, <2>10, <3>1, Zenon
  <2>13. \A j \in DOMAIN s :
           LET x == s[j]
           IN  /\ x.type \in Spaces /\ x.version = d.version /\ x.crypto = -1 /\ ~x.finished
               /\ x.request => x.type = "app"
               /\ x.type = "app" \/ d.key[x.type] = "installed"
    BY <2>9, <2>11 DEF Spaces
  <2>14. (\A sp \in Spaces : u.ack_needed[sp] => d.ack_needed[sp]) /\ (u.done_due => d.done_due)
    BY <2>6
  <2> QED
    BY ONLY c \in Conn, d \in Conn, n \in Nat, Sends(c, n, d, side), <2>4, <2>5, <2>11,
            <2>12, <2>13, <2>14, PushGoes
<1> QED
  BY <1>1, <1>2, <1>3

\* A flush.
LEMMA FlushHas ==
  ASSUME NEW c \in Conn, NEW side \in Sides, c.out = <<>>,
         side = "client" => Queued(c) \subseteq EarlyEvents \/ c.tls_complete,
         NEW e, e = Flush(c, side)
  PROVE  /\ e \in Conn /\ Len(c.events) \in Nat /\ Sends(c, Len(c.events), e, side)
         /\ e.events = <<>>
<1>1. PICK n \in Nat : n = Len(c.events)
  <2>1. c.events \in Seq(TlsEvents)
    BY ConnFields
  <2> QED
    BY <2>1
<1>2. PICK f : f = Polled(c, side)
  OBVIOUS
<1>3. f \in Conn /\ Sends(c, n, f, side) /\ f.events = <<>>
  BY <1>1, <1>2, PolledHas
<1>4. PICK g : g = SendAcks(f, side)
  OBVIOUS
<1>5. g \in Conn /\ Sends(c, n, g, side) /\ g.events = <<>>
  BY <1>3, <1>4, SendAcksHas
<1>6. PICK h : h = SendDone(g, side)
  OBVIOUS
<1>7. h \in Conn /\ Sends(c, n, h, side) /\ h.events = <<>>
  BY <1>5, <1>6, SendDoneHas
<1>8. e = SendRequest(h, side)
  BY <1>2, <1>4, <1>6 DEF Flush
<1> QED
  BY <1>1, <1>7, <1>8, SendRequestHas

\* A server with nothing to say.
LEMMA FlushQuiet ==
  ASSUME NEW c \in Conn, c.out = <<>>, c.events = <<>>, ~c.done_due,
         \A sp \in Spaces : ~c.ack_needed[sp], NEW e, e = Flush(c, "server")
  PROVE  Staged(e) = {}
<1>1. PICK d : d = [c EXCEPT !.events = <<>>]
  OBVIOUS
<1>2. Polled(c, "server") = d
  <2>1. PICK Ts : Ts = [i \in {0} |-> {d}]
    OBVIOUS
  <2>2. Ts[0] = {d} /\ Len(c.events) = 0
    BY <2>1
  <2>3. /\ Len(c.events) \in Nat /\ [c EXCEPT !.events = <<>>] \in Ts[0]
        /\ \A i \in 1 .. Len(c.events) : \A f \in Ts[i - 1] :
             OnEvent(f, "server", c.events[i]) \in Ts[i]
    BY <1>1, <2>2
  <2>4. Polled(c, "server") \in Ts[Len(c.events)]
    BY ONLY <2>3, PollLoop
  <2> QED
    BY <2>2, <2>4
<1>3. d.out = <<>> /\ ~d.done_due /\ \A sp \in Spaces : ~d.ack_needed[sp]
  BY ONLY <1>1, c \in Conn, c.out = <<>>, ~c.done_due, \A sp \in Spaces : ~c.ack_needed[sp]
     DEF Conn
<1>4. SendAcks(d, "server") = d
  <2>1. AckableSpaces(d) = {}
    BY <1>3 DEF AckableSpaces
  <2> QED
    BY <2>1 DEF SendAcks
<1>5. e = d \/ e = Used(d, "app")
  BY <1>2, <1>3, <1>4 DEF Flush, SendDone, SendRequest
<1>6. d \in Conn
  <2>1. \A x \in Conn : [x EXCEPT !.events = <<>>] \in Conn
    BY DEF Conn
  <2> QED
    BY <1>1, <2>1
<1>7. e.out = <<>>
  <2>1. CASE e = d
    BY <1>3, <2>1
  <2>2. CASE e = Used(d, "app")
    <3>1. Rest(d, e)
      BY <1>6, <2>2, UsedIs DEF Spaces
    <3> QED
      BY <1>3, <3>1 DEF Rest
  <2> QED
    BY <1>5, <2>1, <2>2
<1> QED
  BY <1>7 DEF Staged

(***************************************************************************)
(* A handler from its first call to its last                               *)
(***************************************************************************)
\* What a packet of the client says of it.
Told(p, c) ==
  /\ p.type = "initial" /\ p.crypto # -1 =>
       p.params.chosen = 1 /\ p.params.available = Offered(c)
  /\ p.request => p.type = "app"

\* What a handler of the client b leaves, and has staged.
ClientDone(b, d, s) ==
  /\ d.v2 = b.v2 /\ ClientAgrees(d, s) /\ (d.failed \/ d.events = <<>>)
  /\ \A p \in Staged(d) : Told(p, d) /\ p.version = d.version /\ b.key[p.type] # "discarded"

\* ... and one of the server b.
ServerDone(b, d, o) ==
  /\ d.v2 = b.v2 /\ ServerAgrees(d, o) /\ (d.failed \/ d.events = <<>>)
  /\ b.checked => d.checked /\ d.tx["handshake"] = b.tx["handshake"]
  /\ \A p \in Staged(d) : FromServer(p, d) /\ b.key[p.type] # "discarded"

LEMMA ClientFlushes ==
  ASSUME NEW b, NEW c \in Conn, NEW s \in Conn, ClientAgrees(b, s), ClientReads(b, c, s),
         ConnOK(c, "client"), c.out = <<>>, NEW d, d = Flush(c, "client"),
         c.state # "absent"
  PROVE  ClientDone(b, d, s)
<1>1. Queued(c) \subseteq EarlyEvents \/ c.tls_complete
  BY DEF ConnOK
<1>2. /\ d \in Conn /\ Len(c.events) \in Nat /\ Sends(c, Len(c.events), d, "client")
      /\ d.events = <<>>
  <2>1. "client" \in Sides /\ ("client" = "client" => Queued(c) \subseteq EarlyEvents \/ c.tls_complete)
    BY <1>1 DEF Sides
  <2> QED
    BY ONLY <2>1, c \in Conn, c.out = <<>>, d = Flush(c, "client"), FlushHas
<1>3. /\ d.v2 = c.v2 /\ d.version = c.version /\ d.original = c.original
      /\ d.checked = c.checked /\ d.told = c.told /\ d.rx = c.rx
      /\ d.tls_complete = c.tls_complete
  BY <1>2 DEF Sends, Touches, Fields, SendFields
<1>4. \A sp \in Spaces : d.key[sp] = "discarded" => c.key[sp] = "discarded"
                                                   \/ (sp = "initial" /\ c.tls_complete)
  BY <1>2 DEF Sends
<1>5. ClientAgrees(d, s) /\ d.v2 = b.v2
  <2>1. ClientAgrees(c, s) /\ c.v2 = b.v2
    BY DEF ClientReads
  <2>2. \A sp \in Spaces : d.key[sp] = "discarded" => d.tls_complete /\ sp # "app"
    BY <1>3, <1>4, <2>1 DEF ClientAgrees
  <2> QED
    BY <1>3, <2>1, <2>2 DEF ClientAgrees, Offered
<1>6. ASSUME NEW p \in Staged(d)
      PROVE  Told(p, d) /\ p.version = d.version /\ b.key[p.type] # "discarded"
  <2>1. Says(p, c, d, Len(c.events))
    BY <1>2, <1>6 DEF Sends
  <2>2. p.version = d.version
    BY <1>3, <2>1 DEF Says
  <2>3. Told(p, d)
    <3>1. c.told.chosen = 1 /\ c.told.available = Offered(c) /\ Offered(d) = Offered(c)
      BY <1>3 DEF ClientReads, ClientAgrees, Offered
    <3> QED
      BY <2>1, <3>1 DEF Says, Told
  <2>4. b.key[p.type] # "discarded"
    <3> SUFFICES ASSUME b.key[p.type] = "discarded" PROVE FALSE
      OBVIOUS
    <3>1. p.type \in Spaces /\ c.key[p.type] = "discarded"
      BY <2>1 DEF Says, ClientReads
    <3>2. b.tls_complete /\ p.type # "app"
      BY <3>1 DEF ClientAgrees
    <3>3. c.key[p.type] # "installed"
      BY <3>1
    <3>4. Queued(c) = {}
      BY <3>2 DEF ClientReads, Queued
    <3> QED
      BY <2>1, <3>1, <3>2, <3>3, <3>4 DEF Says
  <2> QED
    BY <2>2, <2>3, <2>4
<1> QED
  BY <1>2, <1>5, <1>6 DEF ClientDone

LEMMA ServerFlushes ==
  ASSUME NEW b, NEW c \in Conn, NEW o \in Conn, ServerReads(b, c, o), ServerAgrees(b, o),
         ~c.failed, c.out = <<>>, NEW d, d = Flush(c, "server")
  PROVE  ServerDone(b, d, o)
<1>1. ServerKnows(c, o) /\ c.v2 = b.v2 /\ c.tx = b.tx
  BY DEF ServerReads
<1>2. /\ d \in Conn /\ Len(c.events) \in Nat /\ Sends(c, Len(c.events), d, "server")
      /\ d.events = <<>>
  <2>1. "server" \in Sides /\ "server" # "client"
    BY DEF Sides
  <2> QED
    BY ONLY <2>1, c \in Conn, c.out = <<>>, d = Flush(c, "server"), FlushHas
<1>3. /\ d.v2 = c.v2 /\ d.version = c.version /\ d.original = c.original
      /\ d.checked = c.checked /\ d.rx = c.rx
  BY <1>2 DEF Sends, Touches, Fields, SendFields
<1>4. \A sp \in Spaces : d.key[sp] = "discarded" => c.key[sp] = "discarded"
  BY <1>2 DEF Sends
<1>5. ASSUME ~c.checked
      PROVE  Staged(d) = {} /\ ~d.done_due /\ \A sp \in Spaces : ~d.ack_needed[sp]
  <2>1. c.events = <<>> /\ ~c.done_due /\ \A sp \in Spaces : ~c.ack_needed[sp]
    BY <1>1, <1>5 DEF ServerReads, ServerKnows
  <2>2. Staged(d) = {}
    BY <2>1, FlushQuiet
  <2> QED
    BY <1>2, <2>1, <2>2 DEF Sends
<1>6. ASSUME BoringSSL, FlightsFit, c.checked, ~d.failed PROVE d.key["app"] = "installed"
  <2>1. "install_one_rtt" \in Queued(c) \/ c.key["app"] = "installed"
    BY <1>6 DEF ServerReads
  <2>2. "install_one_rtt" \in Queued(c) =>
          \E j \in 1 .. Len(c.events) : c.events[j] = "install_one_rtt"
    <3>1. c.events \in Seq(TlsEvents)
      BY ConnFields
    <3>2. DOMAIN c.events = 1 .. Len(c.events)
      BY <3>1
    <3> QED
      BY <3>2 DEF Queued
  <2> QED
    BY <1>2, <1>6, <2>1, <2>2 DEF Sends
<1>7. ServerAgrees(d, o)
  <2>1. Agreed(o, d) = Agreed(o, c)
    BY <1>3 DEF Agreed
  <2>2. ~d.checked /\ ~d.failed => ~d.done_due /\ \A sp \in Spaces : ~d.ack_needed[sp]
    BY <1>3, <1>5
  <2>3. BoringSSL /\ FlightsFit /\ d.checked /\ ~d.failed => d.key["app"] = "installed"
    BY <1>3, <1>6
  <2> QED
    BY <1>1, <1>3, <1>4, <2>1, <2>2, <2>3 DEF ServerAgrees, ServerKnows
<1>8. b.checked => d.checked /\ d.tx["handshake"] = b.tx["handshake"]
  BY <1>1, <1>2, <1>3 DEF ServerReads, Sends
<1>9. ASSUME NEW p \in Staged(d)
      PROVE  FromServer(p, d) /\ b.key[p.type] # "discarded"
  <2>1. Says(p, c, d, Len(c.events)) /\ d.checked
    BY <1>2, <1>3, <1>5, <1>9 DEF Sends
  <2>2. FinishedLast(c.events) /\ (~BoringSSL => "write_initial" \notin Queued(c))
    BY DEF ServerReads
  <2>3. FromServer(p, d)
    BY <1>3, <2>1, <2>2 DEF Says, FromServer
  <2>4. b.key[p.type] # "discarded"
    <3> SUFFICES ASSUME b.key[p.type] = "discarded" PROVE FALSE
      OBVIOUS
    <3>1. p.type \in Spaces /\ p.type = "initial" /\ b.checked
      BY <2>1 DEF Says, ServerAgrees
    <3>2. Queued(c) \subseteq Later /\ c.key[p.type] = "discarded"
      BY <3>1 DEF ServerReads
    <3> QED
      BY <2>1, <3>1, <3>2 DEF Says
  <2> QED
    BY <2>3, <2>4
<1> QED
  BY <1>1, <1>2, <1>3, <1>7, <1>8, <1>9 DEF ServerDone

\* The client.
LEMMA ClientBegins ==
  ASSUME NEW c, NEW s, ClientAgrees(c, s), c.events = <<>>
  PROVE  ClientReads(c, c, s)
BY DEF ClientReads

LEMMA ClientPolls ==
  ASSUME NEW c \in Conn, NEW s \in Conn, ClientAgrees(c, s), c.events = <<>>,
         c.state # "absent", ConnOK(c, "client"), c.out = <<>>, NEW d, d = Flush(c, "client")
  PROVE  ClientDone(c, d, s)
BY ClientBegins, ClientFlushes

LEMMA ClientStarts ==
  ASSUME NEW c \in Conn, NEW s \in Conn, ClientAgrees(c, s), ~c.tls_complete,
         s.checked => s.version = Agreed(c, s),
         ConnOK(c, "client"), PeerOK(c, s, "client"), Settled(c, "client"), c.out = <<>>,
         NEW d, d = Flush(StartTls(c, "client"), "client")
  PROVE  ClientDone(c, d, s)
<1>1. PICK e : e = StartTls(c, "client")
  OBVIOUS
<1>2. /\ e \in Conn /\ Touches(c, e, {"key", "state", "events", "told"})
      /\ e.key = [c.key EXCEPT !["initial"] = "installed"] /\ e.state = "handshaking"
      /\ e.told = [chosen |-> ChosenVersion(c, "client"), available |-> AvailableVersions(c),
                   retry |-> IF "client" = "server" THEN c.retry ELSE 0]
  BY <1>1, StartTlsHas DEF Sides
<1>3. /\ e.v2 = c.v2 /\ e.version = c.version /\ e.original = c.original
      /\ e.checked = c.checked /\ e.rx = c.rx /\ e.tls_complete = c.tls_complete
      /\ e.out = c.out
  BY <1>2 DEF Touches, Fields
<1>4. ConnOK(e, "client")
  <2>1. Reading(c, c, s, "client") /\ "client" \in Sides
    BY GoodStart DEF Sides
  <2>2. Reading(c, e, s, "client")
    BY <1>1, <2>1, StartTlsReads
  <2> QED
    BY <2>2 DEF Reading, Good
<1>5. c.key \in [Spaces -> KeyStates] /\ c.v2 \in BOOLEAN /\ s.v2 \in BOOLEAN
  BY ConnFields
<1>6. \A sp \in Spaces : c.key[sp] # "discarded"
  BY DEF ClientAgrees
<1>7. \A sp \in Spaces : e.key[sp] # "discarded"
  BY <1>2, <1>5, <1>6
<1>8. e.told.chosen = 1 /\ e.told.available = Offered(e)
  <2>1. c.original = 1
    BY DEF ClientAgrees
  <2>2. c.version = 1 \/ (c.version = 2 /\ c.v2)
    BY <1>5 DEF ClientAgrees, Agreed
  <2>3. AvailableVersions(c) = Offered(c)
    BY <2>1, <2>2 DEF AvailableVersions, Offered
  <2>4. ChosenVersion(c, "client") = 1
    BY <2>1, <2>2, <2>3 DEF ChosenVersion, Offered
  <2> QED
    BY <1>2, <1>3, <2>3, <2>4 DEF Offered
<1>9. ClientAgrees(e, s)
  BY <1>3, <1>7, <1>8 DEF ClientAgrees
<1>10. ClientReads(c, e, s)
  BY <1>3, <1>6, <1>9 DEF ClientReads
<1> QED
  BY <1>1, <1>2, <1>3, <1>4, <1>10, ClientFlushes

LEMMA ClientReceives ==
  ASSUME NEW c \in Conn, NEW s \in Conn, ClientAgrees(c, s), c.events = <<>>,
         ConnOK(c, "client"), PeerOK(c, s, "client"), Settled(c, "client"), c.out = <<>>,
         c.state \notin {"absent", "pre_validation"},
         NEW packets \in Seq(Packet), NEW size \in Nat,
         \A i \in DOMAIN packets : /\ Incoming(packets[i], c, s, "client")
                                   /\ packets[i].type = "retry" \/ FromServer(packets[i], s),
         s.confirmed => c.tls_complete,
         NEW d, d = ReceiveDatagram(c, "client", packets, size)
  PROVE  ClientDone(c, d, s)
<1>1. Reading(c, c, s, "client") /\ ClientReads(c, c, s)
  BY GoodStart, ClientBegins DEF Sides
<1>2. PICK e : e = ReadAll(c, "client", packets, size)
  OBVIOUS
<1>3. e \in Conn /\ HasRead(c, e, s, "client", packets) /\ ClientReads(c, e, s)
  BY ONLY <1>1, <1>2, c \in Conn, s \in Conn, Settled(c, "client"),
          c.state \notin {"absent", "pre_validation"}, packets \in Seq(Packet), size \in Nat,
          \A i \in DOMAIN packets : /\ Incoming(packets[i], c, s, "client")
                                    /\ packets[i].type = "retry" \/ FromServer(packets[i], s),
          s.confirmed => c.tls_complete, ClientReadsAll
<1>4. ConnOK(e, "client") /\ e.out = <<>> /\ e.state # "absent"
  BY <1>3 DEF HasRead, Reading, Good
<1>5. CASE e.failed
  <2>1. d = e
    BY <1>2, <1>5 DEF ReceiveDatagram
  <2>2. Staged(d) = {}
    BY <1>4, <2>1 DEF Staged
  <2> QED
    BY <1>3, <1>5, <2>1, <2>2 DEF ClientDone, ClientReads
<1>6. CASE ~e.failed
  <2>1. d = Flush(e, "client")
    BY <1>2, <1>6 DEF ReceiveDatagram
  <2> QED
    BY <1>3, <1>4, <2>1, ClientFlushes
<1> QED
  BY <1>5, <1>6

\* A client that no packet of the server has reached might as well be the only
\* one: it stays so whatever it does.
LEMMA LoneClient ==
  ASSUME NEW c \in Conn, Alone(c), ~c.confirmed
  PROVE  \E o \in Conn : o.state = "absent" /\ Untouched(o) /\ PeerOK(c, o, "client")
<1>1. PICK o : o = NewConn("absent", c.flight, FALSE)
  OBVIOUS
<1>2. c.flight \in Flights /\ "absent" \in States /\ FALSE \in BOOLEAN
  BY ConnFields DEF States
<1>3. /\ o \in Conn /\ o.state = "absent" /\ o.received = InSpaces({}) /\ o.next_pn = InSpaces(0)
      /\ o.tx = InSpaces(0) /\ o.rx = InSpaces(0) /\ o.events = <<>> /\ ~o.tls_complete
  BY ONLY <1>1, <1>2, NewConnIs
<1>4. Untouched(o)
  BY <1>3 DEF Untouched, InSpaces
<1>5. PeerOK(c, o, "client")
  <2>1. \A sp \in Spaces : c.received[sp] = {} /\ c.rx[sp] = 0 /\ o.tx[sp] = 0
    BY <1>3 DEF Alone, InSpaces
  <2> QED
    BY <1>3, <2>1 DEF PeerOK, Written, Spaces
<1> QED
  BY <1>3, <1>4, <1>5

LEMMA LoneHandled ==
  ASSUME NEW c, NEW d, NEW o, o.state = "absent", Handled(c, d, o, "client")
  PROVE  Alone(d) /\ \A p \in Staged(d) : p.type = "initial"
BY DEF Handled, Good, PeerOK, StagedOK, PacketOK

\* What it hears can only be Retries.
LEMMA LoneHears ==
  ASSUME NEW p, NEW c, NEW o, NEW s, Incoming(p, c, s, "client"), p.type = "retry",
         o.state = "absent", Untouched(o)
  PROVE  Incoming(p, c, o, "client")
BY DEF Incoming, PacketOK, Spaces

\* The server.
LEMMA ServerBeginning ==
  ASSUME NEW c, NEW o, ServerAgrees(c, o), c.events = <<>>
  PROVE  ServerReads(c, c, o)
<1>1. Queued(c) = {} /\ Len(c.events) <= MaxEvents /\ FinishedLast(c.events)
  BY TlsAssumption DEF Queued, FinishedLast
<1> QED
  BY <1>1 DEF ServerReads, ServerAgrees, ServerKnows

LEMMA ServerPolls ==
  ASSUME NEW c \in Conn, NEW o \in Conn, ServerAgrees(c, o), c.events = <<>>, ~c.failed,
         c.out = <<>>, NEW d, d = Flush(c, "server")
  PROVE  ServerDone(c, d, o)
BY ServerBeginning, ServerFlushes

LEMMA ServerReceives ==
  ASSUME NEW c \in Conn, NEW o \in Conn, ServerAgrees(c, o), c.events = <<>>, ~c.failed,
         ConnOK(c, "server"), PeerOK(c, o, "server"), Settled(c, "server"), c.out = <<>>,
         c.state # "absent",
         NEW packets \in Seq(Packet), packets # <<>>, NEW size \in Nat,
         \A i \in DOMAIN packets : /\ Incoming(packets[i], c, o, "server")
                                   /\ FromClient(packets[i], o, c),
         c.state = "pre_validation" =>
           ~c.checked /\ packets[1].type = "initial" /\ packets[1].cid = o.retry,
         NEW d, d = ReceiveDatagram(c, "server", packets, size)
  PROVE  ServerDone(c, d, o)
<1>1. Reading(c, c, o, "server") /\ ServerReads(c, c, o)
  BY GoodStart, ServerBeginning DEF Sides
<1>2. PICK e : e = ReadAll(c, "server", packets, size)
  OBVIOUS
<1>3. e \in Conn /\ HasRead(c, e, o, "server", packets) /\ ServerReads(c, e, o)
  BY ONLY <1>1, <1>2, c \in Conn, o \in Conn, Settled(c, "server"), c.state # "absent",
          ~c.failed, packets \in Seq(Packet), packets # <<>>, size \in Nat,
          \A i \in DOMAIN packets : /\ Incoming(packets[i], c, o, "server")
                                    /\ FromClient(packets[i], o, c),
          c.state = "pre_validation" =>
            ~c.checked /\ packets[1].type = "initial" /\ packets[1].cid = o.retry,
          ServerReadsAll
<1>4. e.out = <<>>
  BY <1>3 DEF HasRead, Reading
<1>5. CASE e.failed
  <2>1. d = e
    BY <1>2, <1>5 DEF ReceiveDatagram
  <2>2. Staged(d) = {}
    BY <1>4, <2>1 DEF Staged
  <2>3. ServerKnows(d, o) /\ d.v2 = c.v2 /\ d.tx = c.tx /\ (c.checked => d.checked)
    BY <1>3, <2>1 DEF ServerReads
  <2>4. ServerAgrees(d, o)
    BY <1>5, <2>1, <2>3 DEF ServerAgrees, ServerKnows
  <2> QED
    BY <1>5, <2>1, <2>2, <2>3, <2>4 DEF ServerDone
<1>6. CASE ~e.failed
  <2>1. d = Flush(e, "server")
    BY <1>2, <1>6 DEF ReceiveDatagram
  <2> QED
    BY <1>3, <1>4, <1>6, <2>1, ServerFlushes
<1> QED
  BY <1>5, <1>6

(***************************************************************************)
(* The two sides and the network                                           *)
(***************************************************************************)
\* The client c and the server s, `down' and `up' being the packets on their way.
Agreeing(c, s, down, up) ==
  /\ ClientAgrees(c, s) /\ ServerAgrees(s, c)
  /\ ~s.checked => Alone(c)
  /\ c.state = "absent" => ~c.tls_complete
  /\ c.failed \/ c.events = <<>>
  /\ s.failed \/ s.events = <<>>
  /\ \A p \in up : FromClient(p, c, s)
  /\ \A p \in down : p.type = "retry" \/ FromServer(p, s)

LEMMA ClientLeaves ==
  ASSUME NEW c, NEW s, NEW down, NEW up, Agreeing(c, s, down, up),
         NEW d \in Conn, ClientDone(c, d, s), d.state # "absent",
         ~s.checked => Alone(d) /\ \A p \in Staged(d) : p.type = "initial",
         NEW e, e = [d EXCEPT !.out = <<>>],
         NEW less, less \subseteq down, NEW more, more \subseteq up \cup Staged(d)
  PROVE  Agreeing(e, s, less, more)
<1>1. /\ e.v2 = d.v2 /\ e.version = d.version /\ e.original = d.original
      /\ e.checked = d.checked /\ e.told = d.told /\ e.state = d.state /\ e.key = d.key
      /\ e.rx = d.rx /\ e.events = d.events /\ e.tls_complete = d.tls_complete
      /\ e.failed = d.failed /\ e.received = d.received /\ e.next_pn = d.next_pn
      /\ e.tx = d.tx
  BY DEF Conn
<1>2. ClientAgrees(e, s) /\ Offered(e) = Offered(d) /\ Offered(c) = Offered(d)
  BY <1>1 DEF ClientDone, ClientAgrees, Offered
<1>3. ServerAgrees(s, e)
  <2>1. Agreed(e, s) = Agreed(c, s)
    BY <1>1 DEF ClientDone, Agreed
  <2> QED
    BY <2>1 DEF Agreeing, ServerAgrees
<1>4. ~s.checked => Alone(e)
  <2>1. Queued(e) = Queued(d)
    BY <1>1 DEF Queued
  <2> QED
    BY <1>1, <2>1 DEF Alone
<1>5. ASSUME NEW p \in more PROVE FromClient(p, e, s)
  <2>1. CASE p \in up
    BY <1>2, <2>1 DEF Agreeing, FromClient
  <2>2. CASE p \in Staged(d)
    <3>1. Told(p, d) /\ p.version = d.version
      BY <2>2 DEF ClientDone
    <3>2. ~s.checked => p.type = "initial" /\ p.version = 1
      BY <2>2, <3>1 DEF ClientDone, ClientAgrees
    <3> QED
      BY <1>2, <3>1, <3>2 DEF Told, FromClient
  <2> QED
    BY <1>5, <2>1, <2>2
<1> QED
  BY <1>1, <1>2, <1>3, <1>4, <1>5 DEF Agreeing, ClientDone

LEMMA ServerLeaves ==
  ASSUME NEW c, NEW s, NEW down, NEW up, Agreeing(c, s, down, up),
         NEW d \in Conn, ServerDone(s, d, c),
         NEW e, e = [d EXCEPT !.out = <<>>],
         NEW less, less \subseteq up, NEW more, more \subseteq down \cup Staged(d)
  PROVE  Agreeing(c, e, more, less)
<1>1. /\ e.v2 = d.v2 /\ e.version = d.version /\ e.original = d.original
      /\ e.checked = d.checked /\ e.key = d.key /\ e.rx = d.rx /\ e.tx = d.tx
      /\ e.events = d.events /\ e.ack_needed = d.ack_needed /\ e.done_due = d.done_due
      /\ e.failed = d.failed
  BY DEF Conn
<1>2. ServerAgrees(e, c)
  <2>1. Agreed(c, e) = Agreed(c, d)
    BY <1>1 DEF Agreed
  <2> QED
    BY <1>1, <2>1 DEF ServerDone, ServerAgrees
<1>3. s.checked => /\ e.checked /\ e.version = s.version
                   /\ e.tx["handshake"] = s.tx["handshake"]
  <2>1. Agreed(c, e) = Agreed(c, s)
    BY <1>1 DEF ServerDone, Agreed
  <2> QED
    BY <1>1, <1>2, <2>1 DEF Agreeing, ServerDone, ServerAgrees
<1>4. ClientAgrees(c, e)
  <2>1. CASE s.checked
    BY <1>3, <2>1 DEF Agreeing, ClientAgrees
  <2>2. CASE ~s.checked
    BY <2>2 DEF Agreeing, ClientAgrees, Alone
  <2> QED
    BY <2>1, <2>2
<1>5. \A p \in less : FromClient(p, c, e)
  BY <1>3 DEF Agreeing, FromClient
<1>6. ASSUME NEW p \in more PROVE p.type = "retry" \/ FromServer(p, e)
  <2>1. CASE p \in down
    BY <1>3, <2>1 DEF Agreeing, FromServer
  <2>2. CASE p \in Staged(d)
    BY <1>1, <2>2 DEF ServerDone, FromServer
  <2> QED
    BY <1>6, <2>1, <2>2
<1> QED
  BY <1>1, <1>2, <1>3, <1>4, <1>5, <1>6 DEF Agreeing, ServerDone

\* What is on its way after a side has handled something.
LEMMA ShipCarries ==
  ASSUME Whole, NEW side \in Sides, NEW d \in Conn, ConnOK(d, side),
         NEW left, Remaining(left), Ship(side, d, left)
  PROVE  /\ conn'[side] = [d EXCEPT !.out = <<>>] /\ conn'[Peer(side)] = conn[Peer(side)]
         /\ Carried(net'[side]) \subseteq Carried(net[side])
         /\ Carried(net'[Peer(side)]) \subseteq Carried(net[Peer(side)]) \cup Staged(d)
<1>1. PICK e : e = [d EXCEPT !.out = <<>>]
  OBVIOUS
<1>2. Peer(side) \in Sides /\ Peer(side) # side
  BY PeerIs DEF Sides
<1>3. PICK rest \in Seq(Datagram) : rest = left[Peer(side)] /\ Among(rest, net[Peer(side)])
  BY <1>2 DEF Remaining
<1>4. Among(left[side], net[side])
  BY DEF Remaining
<1>5. PICK s : s = Sent(side, d)
  OBVIOUS
<1>6. s \in Seq(Datagram) /\ Carried(s) \subseteq Staged(d)
  BY <1>5, SentIs
<1>7. PICK topeer : topeer = rest \o s
  OBVIOUS
<1>8. Carried(topeer) \subseteq Carried(net[Peer(side)]) \cup Staged(d)
  BY <1>3, <1>6, <1>7, CarriedBoth, AmongCarried
<1>9. conn' = [conn EXCEPT ![side] = e]
  BY <1>1 DEF Ship
<1>10. conn'[side] = e /\ conn'[Peer(side)] = conn[Peer(side)]
  BY <1>2, <1>9 DEF Whole
<1>11. net'[side] = left[side] /\ net'[Peer(side)] = topeer
  <2>1. PICK n : n = [left EXCEPT ![Peer(side)] = topeer]
    OBVIOUS
  <2>2. NetBecomes(n)
    BY <1>3, <1>5, <1>7, <2>1 DEF Ship
  <2>3. n[side] = left[side] /\ n[Peer(side)] = topeer
    BY <1>2, <2>1 DEF Remaining
  <2>4. net'["client"] = n["client"] /\ net'["server"] = n["server"]
    BY <2>2, NetBecomesIs
  <2> QED
    BY <2>3, <2>4, PeerIs DEF Sides
<1> QED
  BY <1>1, <1>4, <1>8, <1>10, <1>11, AmongCarried

\* The versions and keys of the two sides, and the action property of the keys.
Agree == Agreeing(conn["client"], conn["server"], Carried(to_client), Carried(to_server))

KeysUsed ==
  \A side \in Sides : \A p \in NewPackets(side) :
    p.type # "retry" => conn[side].key[p.type] # "discarded"

LEMMA ClientShips ==
  ASSUME Whole, Agree, NEW d, Handled(conn["client"], d, conn["server"], "client"),
         ClientDone(conn["client"], d, conn["server"]),
         ~conn["server"].checked => Alone(d) /\ \A p \in Staged(d) : p.type = "initial",
         NEW left, Remaining(left), Ship("client", d, left)
  PROVE  Agree' /\ KeysUsed
<1>1. d \in Conn /\ ConnOK(d, "client") /\ d.state # "absent" /\ "client" \in Sides
  BY DEF Handled, Good, Sides
<1>2. /\ conn'["client"] = [d EXCEPT !.out = <<>>] /\ conn'["server"] = conn["server"]
      /\ Carried(to_client') \subseteq Carried(to_client)
      /\ Carried(to_server') \subseteq Carried(to_server) \cup Staged(d)
  <2>1. /\ conn'["client"] = [d EXCEPT !.out = <<>>] /\ conn'["server"] = conn["server"]
        /\ Carried(net'["client"]) \subseteq Carried(net["client"])
        /\ Carried(net'["server"]) \subseteq Carried(net["server"]) \cup Staged(d)
    BY <1>1, PeerIs, ShipCarries
  <2> QED
    BY <2>1 DEF net
<1>3. Agree'
  <2>1. PICK e : e = [d EXCEPT !.out = <<>>]
    OBVIOUS
  <2>2. Agreeing(e, conn["server"], Carried(to_client'), Carried(to_server'))
    BY <1>1, <1>2, <2>1, ClientLeaves DEF Agree
  <2> QED
    BY <1>2, <2>1, <2>2 DEF Agree, Carried
<1>4. KeysUsed
  <2> SUFFICES ASSUME NEW x \in Sides, NEW p \in NewPackets(x), p.type # "retry"
               PROVE  conn[x].key[p.type] # "discarded"
    BY DEF KeysUsed
  <2>1. p \in Carried(net'[Peer(x)]) /\ p \notin Carried(net[Peer(x)])
    BY NewPacketsAre
  <2>2. x = "client" /\ p \in Staged(d)
    BY <1>2, <2>1, PeerIs DEF net, Sides
  <2> QED
    BY <2>2 DEF ClientDone
<1> QED
  BY <1>3, <1>4

\* The server may begin with what CreateConn makes of it.
LEMMA ServerShips ==
  ASSUME Whole, Agree, NEW b \in Conn, b.key = conn["server"].key,
         Agreeing(conn["client"], b, Carried(to_client), Carried(to_server)),
         NEW d, Handled(b, d, conn["client"], "server"), ServerDone(b, d, conn["client"]),
         NEW left, Remaining(left), Ship("server", d, left)
  PROVE  Agree' /\ KeysUsed
<1>1. d \in Conn /\ ConnOK(d, "server") /\ "server" \in Sides
  BY DEF Handled, Good, Sides
<1>2. /\ conn'["server"] = [d EXCEPT !.out = <<>>] /\ conn'["client"] = conn["client"]
      /\ Carried(to_server') \subseteq Carried(to_server)
      /\ Carried(to_client') \subseteq Carried(to_client) \cup Staged(d)
  <2>1. /\ conn'["server"] = [d EXCEPT !.out = <<>>] /\ conn'["client"] = conn["client"]
        /\ Carried(net'["server"]) \subseteq Carried(net["server"])
        /\ Carried(net'["client"]) \subseteq Carried(net["client"]) \cup Staged(d)
    BY <1>1, PeerIs, ShipCarries
  <2> QED
    BY <2>1 DEF net
<1>3. Agree'
  <2>1. PICK e : e = [d EXCEPT !.out = <<>>]
    OBVIOUS
  <2>2. Agreeing(conn["client"], e, Carried(to_client'), Carried(to_server'))
    BY <1>1, <1>2, <2>1, ServerLeaves
  <2> QED
    BY <1>2, <2>1, <2>2 DEF Agree, Carried
<1>4. KeysUsed
  <2> SUFFICES ASSUME NEW x \in Sides, NEW p \in NewPackets(x), p.type # "retry"
               PROVE  conn[x].key[p.type] # "discarded"
    BY DEF KeysUsed
  <2>1. p \in Carried(net'[Peer(x)]) /\ p \notin Carried(net[Peer(x)])
    BY NewPacketsAre
  <2>2. x = "server" /\ p \in Staged(d)
    BY <1>2, <2>1, PeerIs DEF net, Sides
  <2> QED
    BY <2>2 DEF ServerDone
<1> QED
  BY <1>3, <1>4

(***************************************************************************)
(* The steps                                                               *)
(***************************************************************************)
\* A client to which the server has said nothing is alone.
LEMMA ConfirmedOnceComplete ==
  ASSUME Whole
  PROVE  /\ conn["server"].confirmed => conn["client"].tls_complete
         /\ conn["client"].confirmed => conn["client"].tls_complete
<1>1. /\ ConnOK(conn["client"], "client") /\ PeerOK(conn["client"], conn["server"], "client")
      /\ ConnOK(conn["server"], "server") /\ PeerOK(conn["server"], conn["client"], "server")
  BY DEF Whole, Half
<1> QED
  BY <1>1 DEF ConnOK, PeerOK

LEMMA LoneGives ==
  ASSUME Whole, Agree, ~conn["server"].checked
  PROVE  \E o \in Conn : /\ o.state = "absent" /\ Untouched(o)
                         /\ PeerOK(conn["client"], o, "client")
<1>1. Alone(conn["client"]) /\ conn["client"] \in Conn
  BY WholeGives DEF Agree, Agreeing, Sides
<1>2. ~conn["client"].confirmed
  BY <1>1, ConfirmedOnceComplete DEF Alone
<1> QED
  BY <1>1, <1>2, LoneClient

LEMMA StartClientAgrees == Whole /\ Agree /\ StartClient => Agree' /\ KeysUsed
<1> SUFFICES ASSUME Whole, Agree, StartClient PROVE Agree' /\ KeysUsed
  OBVIOUS
<1>1. PICK c : c = conn["client"]
  OBVIOUS
<1>2. PICK s : s = conn["server"]
  OBVIOUS
<1>3. /\ c \in Conn /\ s \in Conn /\ net \in [Sides -> Seq(Datagram)]
      /\ ConnOK(c, "client") /\ PeerOK(c, s, "client") /\ Settled(c, "client")
      /\ c.out = <<>>
  BY <1>1, <1>2, WholeGives DEF Whole, Half, Sides
<1>4. PICK d : d = Flush(StartTls(c, "client"), "client")
  OBVIOUS
<1>5. Handled(c, d, s, "client")
  BY <1>3, <1>4, StartHandles
<1>6. ClientAgrees(c, s) /\ ~c.tls_complete /\ (s.checked => s.version = Agreed(c, s))
  BY <1>1, <1>2 DEF Agree, Agreeing, ServerAgrees, StartClient
<1>7. ClientDone(c, d, s)
  BY ONLY <1>3, <1>4, <1>6, ClientStarts
<1>8. ASSUME ~s.checked
      PROVE  Alone(d) /\ \A p \in Staged(d) : p.type = "initial"
  <2>1. PICK o \in Conn : o.state = "absent" /\ Untouched(o) /\ PeerOK(c, o, "client")
    BY <1>1, <1>2, <1>8, LoneGives
  <2>2. Handled(c, d, o, "client")
    BY ONLY <1>3, <1>4, <2>1, StartHandles
  <2> QED
    BY <2>1, <2>2, LoneHandled
<1>9. Ship("client", d, net)
  BY <1>1, <1>4 DEF StartClient
<1>10. Remaining(net)
  BY <1>3, NetRest
<1> QED
  BY <1>1, <1>2, <1>5, <1>7, <1>8, <1>9, <1>10, ClientShips

LEMMA ClientPollAgrees == 
  Whole /\ Agree /\ Poll("client") /\ ~UNCHANGED vars => Agree' /\ KeysUsed
<1> SUFFICES ASSUME Whole, Agree, Poll("client"), ~UNCHANGED vars PROVE Agree' /\ KeysUsed
  OBVIOUS
<1>1. PICK c : c = conn["client"]
  OBVIOUS
<1>2. PICK s : s = conn["server"]
  OBVIOUS
<1>3. /\ c \in Conn /\ s \in Conn /\ net \in [Sides -> Seq(Datagram)]
      /\ ConnOK(c, "client") /\ PeerOK(c, s, "client") /\ Settled(c, "client")
      /\ c.out = <<>> /\ "client" \in Sides
  BY <1>1, <1>2, WholeGives DEF Whole, Half, Sides
<1>4. PICK d : d = Flush(c, "client")
  OBVIOUS
<1>5. c.state \notin {"absent", "pre_validation"} /\ c.events = <<>> /\ ClientAgrees(c, s)
  BY <1>1, <1>2, <1>3 DEF Poll, Whole, RetryInv, Agree, Agreeing
<1>6. Handled(c, d, s, "client")
  BY ONLY <1>3, <1>4, <1>5, PollHandles
<1>7. ClientDone(c, d, s)
  BY <1>3, <1>4, <1>5, ClientPolls
<1>8. ASSUME ~s.checked
      PROVE  Alone(d) /\ \A p \in Staged(d) : p.type = "initial"
  <2>1. PICK o \in Conn : o.state = "absent" /\ Untouched(o) /\ PeerOK(c, o, "client")
    BY <1>1, <1>2, <1>8, LoneGives
  <2>2. Handled(c, d, o, "client")
    BY ONLY <1>3, <1>4, <1>5, <2>1, PollHandles
  <2> QED
    BY <2>1, <2>2, LoneHandled
<1>9. Ship("client", d, net)
  BY <1>1, <1>4 DEF Poll
<1>10. Remaining(net)
  BY <1>3, NetRest
<1> QED
  BY <1>1, <1>2, <1>6, <1>7, <1>8, <1>9, <1>10, ClientShips

LEMMA ServerPollAgrees == 
  Whole /\ Agree /\ Poll("server") /\ ~UNCHANGED vars => Agree' /\ KeysUsed
<1> SUFFICES ASSUME Whole, Agree, Poll("server"), ~UNCHANGED vars PROVE Agree' /\ KeysUsed
  OBVIOUS
<1>1. PICK c : c = conn["server"]
  OBVIOUS
<1>2. PICK o : o = conn["client"]
  OBVIOUS
<1>3. /\ c \in Conn /\ o \in Conn /\ net \in [Sides -> Seq(Datagram)]
      /\ ConnOK(c, "server") /\ PeerOK(c, o, "server") /\ Settled(c, "server")
      /\ c.out = <<>> /\ "server" \in Sides
  BY <1>1, <1>2, WholeGives DEF Whole, Half, Sides
<1>4. PICK d : d = Flush(c, "server")
  OBVIOUS
<1>5. /\ c.state \notin {"absent", "pre_validation"} /\ c.events = <<>> /\ ~c.failed
      /\ ServerAgrees(c, o) /\ Agreeing(o, c, Carried(to_client), Carried(to_server))
  BY <1>1, <1>2, <1>3 DEF Poll, Whole, RetryInv, Agree, Agreeing
<1>6. Handled(c, d, o, "server")
  BY ONLY <1>3, <1>4, <1>5, PollHandles
<1>7. ServerDone(c, d, o)
  BY <1>3, <1>4, <1>5, ServerPolls
<1>8. Ship("server", d, net)
  BY <1>1, <1>4 DEF Poll
<1>9. Remaining(net)
  BY <1>3, NetRest
<1> QED
  BY <1>1, <1>2, <1>3, <1>5, <1>6, <1>7, <1>8, <1>9, ServerShips

LEMMA ClientReceiveAgrees ==
  ASSUME Whole, Agree, NEW i \in DOMAIN net["client"], NEW keep \in BOOLEAN,
         Receive("client", i, keep)
  PROVE  Agree' /\ KeysUsed
<1>1. PICK c : c = conn["client"]
  OBVIOUS
<1>2. PICK s : s = conn["server"]
  OBVIOUS
<1>3. /\ c \in Conn /\ s \in Conn /\ net \in [Sides -> Seq(Datagram)]
      /\ ConnOK(c, "client") /\ PeerOK(c, s, "client") /\ Settled(c, "client")
      /\ c.out = <<>> /\ "client" \in Sides
  BY <1>1, <1>2, WholeGives DEF Whole, Half, Sides
<1>4. PICK packets \in Seq(Packet) : packets = net["client"][i].packets
  BY <1>3, DatagramIs
<1>5. PICK size \in Nat : size = net["client"][i].size
  BY <1>3, DatagramIs
<1>6. packets # <<>> /\ \A j \in DOMAIN packets : Incoming(packets[j], c, s, "client")
  BY <1>1, <1>2, <1>3, <1>4, DatagramIs, PeerIs
<1>7. \A j \in DOMAIN packets : packets[j].type = "retry" \/ FromServer(packets[j], s)
  <2>1. \A j \in DOMAIN packets : packets[j] \in Carried(to_client)
    BY <1>4, NetIs DEF Carried
  <2> QED
    BY <1>2, <2>1 DEF Agree, Agreeing
<1>8. /\ c.state \notin {"absent", "pre_validation"} /\ ~c.failed /\ c.events = <<>>
      /\ ClientAgrees(c, s) /\ (s.confirmed => c.tls_complete)
  <2>1. c.state # "absent" /\ ~c.failed
    BY <1>1 DEF Receive
  <2> QED
    BY <1>1, <1>2, <1>3, <2>1, ConfirmedOnceComplete DEF Whole, RetryInv, Agree, Agreeing
<1>9. PICK d : d = ReceiveDatagram(c, "client", packets, size)
  OBVIOUS
<1>10. Handled(c, d, s, "client")
  BY ONLY <1>3, <1>6, <1>8, <1>9, packets \in Seq(Packet), size \in Nat, ReceiveHandles
<1>11. ClientDone(c, d, s)
  BY ONLY <1>3, <1>6, <1>7, <1>8, <1>9, packets \in Seq(Packet), size \in Nat, ClientReceives
<1>12. ASSUME ~s.checked
       PROVE  Alone(d) /\ \A p \in Staged(d) : p.type = "initial"
  <2>1. PICK o \in Conn : o.state = "absent" /\ Untouched(o) /\ PeerOK(c, o, "client")
    BY <1>1, <1>2, <1>12, LoneGives
  <2>2. \A j \in DOMAIN packets : packets[j].type = "retry"
    BY <1>7, <1>12 DEF FromServer
  <2>3. \A j \in DOMAIN packets : Incoming(packets[j], c, o, "client")
    BY <1>6, <2>1, <2>2, LoneHears
  <2>4. Handled(c, d, o, "client")
    BY ONLY <1>3, <1>6, <1>8, <1>9, <2>1, <2>3, packets \in Seq(Packet), size \in Nat,
            ReceiveHandles
  <2> QED
    BY <2>1, <2>4, LoneHandled
<1>13. Ship("client", d, Left("client", i, keep))
  BY <1>1, <1>4, <1>5, <1>9 DEF Receive
<1>14. Remaining(Left("client", i, keep))
  BY <1>3, LeftRest
<1> QED
  BY <1>1, <1>2, <1>10, <1>11, <1>12, <1>13, <1>14, ClientShips

LEMMA ServerReceiveAgrees ==
  ASSUME Whole, Agree, NEW i \in DOMAIN net["server"], NEW keep \in BOOLEAN,
         Receive("server", i, keep)
  PROVE  Agree' /\ KeysUsed
<1>1. PICK c : c = conn["server"]
  OBVIOUS
<1>2. PICK o : o = conn["client"]
  OBVIOUS
<1>3. /\ c \in Conn /\ o \in Conn /\ net \in [Sides -> Seq(Datagram)]
      /\ ConnOK(c, "server") /\ PeerOK(c, o, "server") /\ Settled(c, "server")
      /\ c.out = <<>> /\ "server" \in Sides
  BY <1>1, <1>2, WholeGives DEF Whole, Half, Sides
<1>4. PICK packets \in Seq(Packet) : packets = net["server"][i].packets
  BY <1>3, DatagramIs
<1>5. PICK size \in Nat : size = net["server"][i].size
  BY <1>3, DatagramIs
<1>6. packets # <<>> /\ \A j \in DOMAIN packets : Incoming(packets[j], c, o, "server")
  BY <1>1, <1>2, <1>3, <1>4, DatagramIs, PeerIs
<1>7. \A j \in DOMAIN packets : FromClient(packets[j], o, c)
  <2>1. \A j \in DOMAIN packets : packets[j] \in Carried(to_server)
    BY <1>4, NetIs DEF Carried
  <2> QED
    BY <1>1, <1>2, <2>1 DEF Agree, Agreeing
<1>8. /\ c.state \notin {"absent", "pre_validation"} /\ ~c.failed /\ c.events = <<>>
      /\ ServerAgrees(c, o) /\ Agreeing(o, c, Carried(to_client), Carried(to_server))
  <2>1. c.state # "absent" /\ ~c.failed
    BY <1>1 DEF Receive
  <2> QED
    BY <1>1, <1>2, <1>3, <2>1 DEF Whole, RetryInv, Agree, Agreeing
<1>9. PICK d : d = ReceiveDatagram(c, "server", packets, size)
  OBVIOUS
<1>10. Handled(c, d, o, "server")
  BY ONLY <1>3, <1>6, <1>8, <1>9, packets \in Seq(Packet), size \in Nat, ReceiveHandles
<1>11. ServerDone(c, d, o)
  BY ONLY <1>3, <1>6, <1>7, <1>8, <1>9, packets \in Seq(Packet), size \in Nat, ServerReceives
<1>12. Ship("server", d, Left("server", i, keep))
  BY <1>1, <1>4, <1>5, <1>9 DEF Receive
<1>13. Remaining(Left("server", i, keep))
  BY <1>3, LeftRest
<1> QED
  BY <1>1, <1>2, <1>3, <1>8, <1>10, <1>11, <1>12, <1>13, ServerShips

\* The server's connection as it is created knows no more than an absent one.
Alike(b, c) ==
  /\ b.v2 = c.v2 /\ b.version = c.version /\ b.original = c.original
  /\ b.checked = c.checked /\ b.key = c.key /\ b.rx = c.rx /\ b.tx = c.tx
  /\ b.events = c.events /\ b.ack_needed = c.ack_needed /\ b.done_due = c.done_due
  /\ b.failed = c.failed

LEMMA AlikeAgrees ==
  ASSUME NEW c, NEW o, NEW down, NEW up, Agreeing(o, c, down, up), NEW b, Alike(b, c)
  PROVE  Agreeing(o, b, down, up)
<1>1. Agreed(o, b) = Agreed(o, c)
  BY DEF Agreed, Alike
<1>2. ClientAgrees(o, b) /\ ServerAgrees(b, o)
  BY <1>1 DEF Agreeing, ClientAgrees, ServerAgrees, Alike
<1>3. \A p : FromClient(p, o, c) => FromClient(p, o, b)
  BY DEF FromClient, Alike
<1>4. \A p : FromServer(p, c) => FromServer(p, b)
  BY DEF FromServer, Alike
<1> QED
  BY <1>2, <1>3, <1>4 DEF Agreeing, Alike

LEMMA CreateConnAgrees ==
  ASSUME Whole, Agree, NEW i \in DOMAIN net["server"], NEW keep \in BOOLEAN,
         CreateConn(i, keep)
  PROVE  Agree' /\ KeysUsed
<1>1. PICK c : c = conn["server"]
  OBVIOUS
<1>2. PICK o : o = conn["client"]
  OBVIOUS
<1>3. c \in Conn /\ o \in Conn /\ net \in [Sides -> Seq(Datagram)] /\ "server" \in Sides
  BY <1>1, <1>2, WholeGives, PeerIs DEF Sides
<1>4. PICK b \in Conn, validated \in BOOLEAN, packets \in Seq(Packet), size \in Nat :
        Created(b, validated, packets, size, i, keep)
  BY CreateConnHandles
<1>5. PICK d : d = ReceiveDatagram(b, "server", packets, size)
  OBVIOUS
<1>6. /\ packets = net["server"][i].packets /\ packets # <<>>
      /\ packets[1].type = "initial" /\ packets[1].cid = o.retry
      /\ b = [c EXCEPT !.state = "pre_validation", !.validated = validated]
      /\ Half(b, o, "server", net["client"], dispatcher)
      /\ \A j \in DOMAIN packets : Incoming(packets[j], b, o, "server")
      /\ Handled(b, d, o, "server") /\ Ship("server", d, Left("server", i, keep))
  BY <1>1, <1>2, <1>4, <1>5 DEF Created
<1>7. Agreeing(o, c, Carried(to_client), Carried(to_server))
  BY <1>1, <1>2 DEF Agree
<1>8. /\ Agreeing(o, b, Carried(to_client), Carried(to_server)) /\ b.key = c.key
      /\ b.checked = c.checked /\ b.events = c.events /\ b.failed = c.failed
      /\ b.state = "pre_validation"
  <2>1. b.state = "pre_validation" /\ Alike(b, c)
    BY ONLY ZenonT(60), <1>3, <1>6, validated \in BOOLEAN DEF Conn, Alike
  <2>2. Agreeing(o, b, Carried(to_client), Carried(to_server))
    BY <1>7, <2>1, AlikeAgrees
  <2> QED
    BY <2>1, <2>2 DEF Alike
<1>9. ~c.checked /\ ~c.failed /\ c.events = <<>>
  <2>1. c.state = "absent"
    BY <1>1 DEF CreateConn
  <2>2. Untouched(c) /\ ~c.failed
    BY <1>1, <2>1 DEF Whole, RetryInv
  <2>3. c.rx["initial"] = 0 /\ c.events = <<>>
    BY <2>2 DEF Untouched, Spaces
  <2> QED
    BY <1>7, <2>2, <2>3 DEF Agreeing, ServerAgrees
<1>10. /\ ConnOK(b, "server") /\ PeerOK(b, o, "server") /\ Settled(b, "server")
       /\ b.out = <<>> /\ b.state # "absent" /\ b.events = <<>> /\ ~b.failed
       /\ ServerAgrees(b, o)
  BY <1>6, <1>8, <1>9 DEF Half, Agreeing
<1>11. \A j \in DOMAIN packets : /\ Incoming(packets[j], b, o, "server")
                                 /\ FromClient(packets[j], o, b)
  <2>1. \A j \in DOMAIN packets : packets[j] \in Carried(to_server)
    BY <1>6, NetIs DEF Carried
  <2> QED
    BY <1>6, <1>8, <2>1 DEF Agreeing
<1>12. b.state = "pre_validation" =>
         ~b.checked /\ packets[1].type = "initial" /\ packets[1].cid = o.retry
  BY <1>6, <1>8, <1>9
<1>13. ServerDone(b, d, o)
  BY ONLY <1>3, <1>5, <1>6, <1>10, <1>11, <1>12, b \in Conn, packets \in Seq(Packet),
          size \in Nat, ServerReceives
<1>14. Remaining(Left("server", i, keep))
  BY <1>3, LeftRest
<1> QED
  BY <1>1, <1>2, <1>6, <1>8, <1>13, <1>14, ServerShips

\* Datagrams go, and a Retry may come.
LEMMA RestAgrees ==
  ASSUME Agree, UNCHANGED conn,
         \A p \in Carried(to_client') : p \in Carried(to_client) \/ p.type = "retry",
         Carried(to_server') \subseteq Carried(to_server)
  PROVE  Agree' /\ KeysUsed
<1>1. PICK c : c = conn["client"] /\ c = conn'["client"]
  OBVIOUS
<1>2. PICK s : s = conn["server"] /\ s = conn'["server"]
  OBVIOUS
<1>3. Agreeing(c, s, Carried(to_client'), Carried(to_server'))
  BY <1>1, <1>2 DEF Agree, Agreeing
<1>4. Agree'
  BY <1>1, <1>2, <1>3 DEF Agree, Carried
<1>5. KeysUsed
  <2> SUFFICES ASSUME NEW x \in Sides, NEW p \in NewPackets(x) PROVE p.type = "retry"
    BY DEF KeysUsed
  <2>1. p \in Carried(net'[Peer(x)]) /\ p \notin Carried(net[Peer(x)])
    BY NewPacketsAre
  <2> QED
    BY <2>1, PeerIs DEF net, Sides
<1> QED
  BY <1>4, <1>5

LEMMA LessAgrees ==
  ASSUME Agree, UNCHANGED conn, NEW left, Remaining(left), NetBecomes(left)
  PROVE  Agree' /\ KeysUsed
<1>1. /\ Carried(left["client"]) \subseteq Carried(to_client)
      /\ Carried(left["server"]) \subseteq Carried(to_server)
  BY AmongCarried, NetIs DEF Remaining, Sides
<1>2. to_client' = left["client"] /\ to_server' = left["server"]
  BY DEF NetBecomes
<1> QED
  BY <1>1, <1>2, RestAgrees

LEMMA SendRetryAgrees ==
  ASSUME Whole, Agree, NEW i \in DOMAIN net["server"], NEW keep \in BOOLEAN,
         SendRetry(i, keep)
  PROVE  Agree' /\ KeysUsed
<1>1. net \in [Sides -> Seq(Datagram)] /\ "server" \in Sides
  BY WholeGives DEF Sides
<1>2. PICK left : left = Left("server", i, keep)
  OBVIOUS
<1>3. PICK p : p = RetryPacket(dispatcher.retries + 1, net["server"][i].packets[1].version)
  OBVIOUS
<1>4. PICK g : g = [packets |-> <<p>>, size |-> 1]
  OBVIOUS
<1>5. PICK next : next = Append(left["client"], g)
  OBVIOUS
<1>6. UNCHANGED conn /\ NetBecomes([left EXCEPT !["client"] = next])
  BY <1>2, <1>3, <1>4, <1>5 DEF SendRetry
<1>7. Remaining(left)
  BY <1>1, <1>2, LeftRest
<1>8. to_client' = next /\ to_server' = left["server"]
  BY <1>6, <1>7 DEF NetBecomes, Remaining, Sides
<1>9. /\ left["client"] \in Seq(Datagram)
      /\ Carried(left["client"]) \subseteq Carried(to_client)
      /\ Carried(left["server"]) \subseteq Carried(to_server)
  BY <1>7, AmongCarried, NetIs DEF Remaining, Sides
<1>10. p.type = "retry"
  BY <1>3 DEF RetryPacket
<1>11. \A q \in Carried(next) : q \in Carried(left["client"]) \/ q = p
  <2> SUFFICES ASSUME NEW j \in DOMAIN next, NEW k \in DOMAIN next[j].packets
               PROVE  next[j].packets[k] \in Carried(left["client"]) \/ next[j].packets[k] = p
    BY DEF Carried
  <2>1. \/ j \in DOMAIN left["client"] /\ next[j] = left["client"][j]
        \/ next[j] = g
    BY <1>5, <1>9
  <2> QED
    BY <1>4, <2>1 DEF Carried
<1> QED
  BY <1>6, <1>8, <1>9, <1>10, <1>11, RestAgrees

(***************************************************************************)
(* The invariant                                                           *)
(***************************************************************************)
LEMMA InitAgrees == Init => Agree
<1> SUFFICES ASSUME Init PROVE Agree
  OBVIOUS
<1>1. PICK flight \in Flights, v2 \in V2Modes :
        conn = [side \in Sides |-> NewConn("absent", flight, side \in v2)]
  BY DEF Init
<1>2. Carried(to_client) = {} /\ Carried(to_server) = {}
  BY DEF Init, Carried
<1>3. PICK c : c = conn["client"]
  OBVIOUS
<1>4. PICK s : s = conn["server"]
  OBVIOUS
<1>5. c = NewConn("absent", flight, "client" \in v2) /\ s = NewConn("absent", flight, "server" \in v2)
  BY <1>1, <1>3, <1>4 DEF Sides
<1>6. /\ c.original = 1 /\ c.state = "absent" /\ c.version = 1 /\ ~c.checked /\ ~c.tls_complete
      /\ c.key = InSpaces("none") /\ c.received = InSpaces({}) /\ c.rx = InSpaces(0)
      /\ c.next_pn = InSpaces(0) /\ c.tx = InSpaces(0) /\ c.events = <<>>
  BY <1>5, Zenon DEF NewConn
<1>7. /\ s.original = 1 /\ ~s.checked /\ ~s.done_due /\ s.ack_needed = InSpaces(FALSE)
      /\ s.key = InSpaces("none") /\ s.rx = InSpaces(0) /\ s.events = <<>>
  BY <1>5, Zenon DEF NewConn
<1>8. "discarded" # "none"
  OBVIOUS
<1>9. \A sp \in Spaces : /\ c.key[sp] # "discarded" /\ c.received[sp] = {} /\ c.rx[sp] = 0
                         /\ c.next_pn[sp] = 0 /\ c.tx[sp] = 0
                         /\ s.key[sp] # "discarded" /\ s.rx[sp] = 0 /\ ~s.ack_needed[sp]
  BY <1>6, <1>7 DEF InSpaces
<1>10. ClientAgrees(c, s)
  BY <1>6, <1>9 DEF ClientAgrees
<1>11. ServerAgrees(s, c)
  <2>1. s.rx["initial"] = 0 /\ \A sp \in Spaces : s.key[sp] # "discarded" /\ ~s.ack_needed[sp]
    BY <1>9 DEF Spaces
  <2>2. ~(s.rx["initial"] >= 1)
    BY <2>1
  <2> QED
    BY <1>7, <2>1, <2>2, Zenon DEF ServerAgrees
<1>12. Alone(c)
  <2>1. Queued(c) = {}
    BY <1>6 DEF Queued
  <2> QED
    BY <1>6, <1>9, <2>1 DEF Alone
<1> QED
  BY <1>2, <1>3, <1>4, <1>6, <1>7, <1>10, <1>11, <1>12 DEF Agree, Agreeing

LEMMA StutterAgrees == Whole /\ Agree /\ UNCHANGED vars => Agree' /\ KeysUsed
<1> SUFFICES ASSUME Whole, Agree, UNCHANGED vars PROVE Agree' /\ KeysUsed
  OBVIOUS
<1>1. UNCHANGED conn /\ NetBecomes(net)
  BY NetIs DEF vars, NetBecomes
<1>2. net \in [Sides -> Seq(Datagram)]
  BY WholeGives DEF Sides
<1> QED
  BY <1>1, <1>2, NetRest, LessAgrees

LEMMA NextAgrees == Whole /\ Agree /\ Next => Agree' /\ KeysUsed
<1> SUFFICES ASSUME Whole, Agree, Next PROVE Agree' /\ KeysUsed
  OBVIOUS
<1>1. net \in [Sides -> Seq(Datagram)]
  BY WholeGives DEF Sides
<1>2. CASE StartClient
  BY <1>2, StartClientAgrees
<1>3. ASSUME NEW i \in DOMAIN net["server"], NEW keep \in BOOLEAN, SendRetry(i, keep)
      PROVE  Agree' /\ KeysUsed
  BY <1>3, SendRetryAgrees
<1>4. ASSUME NEW i \in DOMAIN net["server"], NEW keep \in BOOLEAN, DropBadToken(i, keep)
      PROVE  Agree' /\ KeysUsed
  <2>1. Remaining(Left("server", i, keep))
    BY <1>1, LeftRest DEF Sides
  <2>2. UNCHANGED conn /\ NetBecomes(Left("server", i, keep))
    BY <1>4 DEF DropBadToken
  <2> QED
    BY <2>1, <2>2, LessAgrees
<1>5. ASSUME NEW i \in DOMAIN net["server"], NEW keep \in BOOLEAN, CreateConn(i, keep)
      PROVE  Agree' /\ KeysUsed
  BY <1>5, CreateConnAgrees
<1>6. ASSUME NEW side \in Sides, NEW i \in DOMAIN net[side], NEW keep \in BOOLEAN,
             Receive(side, i, keep)
      PROVE  Agree' /\ KeysUsed
  BY <1>6, ClientReceiveAgrees, ServerReceiveAgrees DEF Sides
<1>7. ASSUME NEW side \in Sides, Poll(side)
      PROVE  Agree' /\ KeysUsed
  BY <1>7, ClientPollAgrees, ServerPollAgrees, StutterAgrees DEF Sides
<1>8. CASE Expire
  <2>1. UNCHANGED conn /\ NetBecomes(net)
    BY <1>8, NetIs DEF Expire, NetBecomes
  <2> QED
    BY <1>1, <2>1, NetRest, LessAgrees
<1>9. ASSUME NEW side \in Sides, NEW i \in DOMAIN net[side], Lose(side, i)
      PROVE  Agree' /\ KeysUsed
  <2>1. PICK left : left = [net EXCEPT ![side] = RemoveAt(@, i)]
    OBVIOUS
  <2>2. UNCHANGED conn /\ NetBecomes(left)
    BY <1>9, <2>1 DEF Lose
  <2>3. Remaining(left)
    BY <1>1, <2>1, RemovedRest
  <2> QED
    BY <2>2, <2>3, LessAgrees
<1> QED
  BY <1>2, <1>3, <1>4, <1>5, <1>6, <1>7, <1>8, <1>9 DEF Next

LEMMA StepAgrees == Whole /\ Agree /\ [Next]_vars => Agree' /\ KeysUsed
BY NextAgrees, StutterAgrees

LEMMA IndInvIs == IndInv <=> Whole /\ Agree
<1>1. InFlight("server") = Carried(to_server) /\ InFlight("client") = Carried(to_client)
  BY InFlightIs, NetIs DEF Sides
<1>2. Agree <=> AgreeInv
  BY <1>1 DEF Agree, Agreeing, AgreeInv, Sides
<1> QED
  BY <1>2, WholeIsBaseInv, BaseInvIsWhole DEF IndInv

(***************************************************************************)
(* What follows                                                            *)
(***************************************************************************)
\* The inductive invariant of the handshake, which the run handshake_boring
\* also checks (ai_quic_conn_on_packet, ai_quic_conn_flush_pending).
THEOREM Inductive == Spec => []IndInv
<1>1. Init => IndInv
  BY InitWhole, InitAgrees, IndInvIs
<1>2. IndInv /\ [Next]_vars => IndInv'
  <2> SUFFICES ASSUME IndInv, [Next]_vars PROVE IndInv'
    OBVIOUS
  <2>1. Whole' /\ Agree'
    BY IndInvIs, StepKeeps, StepAgrees
  <2>2. IndInv' <=> Whole' /\ Agree'
    BY IndInvIs, PTL
  <2> QED
    BY <2>1, <2>2
<1> QED
  BY <1>1, <1>2, PTL DEF Spec

LEMMA AlwaysAgree == Spec => [](Whole /\ Agree)
BY Inductive, IndInvIs, PTL

\* No downgrade: a client that has checked the version the server authenticates uses
\* the server's, and that is version 2 exactly when both have it enabled
\* (ai_quic_conn_validate_server_version_information).
THEOREM NoDowngrade == Spec => []VersionsAgree
<1>1. Agree => VersionsAgree
  BY DEF Agree, Agreeing, ClientAgrees, ServerAgrees, Agreed, VersionsAgree
<1> QED
  BY <1>1, AlwaysAgree, PTL

\* Keys that were discarded protect no further packet (ai_quic_conn_discard_space).
THEOREM DiscardedKeysStayUnused == Spec => DiscardedKeysUnused
<1>1. Whole /\ Agree /\ [Next]_vars =>
        [\A side \in Sides : \A p \in NewPackets(side) :
           p.type # "retry" => conn[side].key[p.type] # "discarded"]_vars
  BY StepAgrees DEF KeysUsed
<1> QED
  BY <1>1, AlwaysAgree, PTL DEF Spec, DiscardedKeysUnused

\* The server's flight gets through the event queue whole, when the queue has
\* room for it (AI_QUIC_TLS_MAX_EVENTS, ai_quic_tls_queue_event).
THEOREM FlightGetsThrough ==
  ASSUME FlightsFit
  PROVE  Spec => []FlightComplete
<1>1. Whole /\ Agree => FlightComplete
  <2> SUFFICES ASSUME Whole, Agree, BoringSSL, conn["server"].rx["initial"] > 0,
                      ~conn["server"].failed
               PROVE  conn["server"].key["app"] = "installed"
    BY DEF FlightComplete
  <2>1. conn["server"].rx["initial"] \in Nat
    <3>1. conn["server"] \in Conn
      BY WholeGives DEF Sides
    <3> QED
      BY <3>1, ConnFields DEF Spaces
  <2>2. conn["server"].checked
    BY <2>1 DEF Agree, Agreeing, ServerAgrees
  <2> QED
    BY <2>2 DEF Agree, Agreeing, ServerAgrees
<1> QED
  BY <1>1, AlwaysAgree, PTL
=============================================================================
