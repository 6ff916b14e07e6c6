-------------------------- MODULE FlowControl_proofs --------------------------
(***************************************************************************)
(* Theorems about FlowControl: for every number and length of streams,     *)
(* every chunk length, every bound, and every pair of windows of the       *)
(* receiver that leave room for a chunk above the update margin and are    *)
(* not smaller than the sender's own.                                      *)
(***************************************************************************)
EXTENDS FlowControl, FiniteSetTheorems, TLAPS

\* The windows the theorems are about.  A window at which the update margin
\* already lies above half of it is raised before anything has arrived.
RoomFor(window) == window \div 2 + ChunkLen < window

WindowsFit ==
  /\ RoomFor(ConnWindow) /\ RoomFor(StreamWindow)
  /\ OwnConnWindow <= ConnWindow /\ OwnStreamWindow <= StreamWindow

-----------------------------------------------------------------------------
\* The bytes below an offset of every stream.
Prefix(o) == UNION {BytesOf(s, 0, o[s]) : s \in Streams}

LEMMA TotalsArePrefixes ==
  /\ TotalSent = Cardinality(Prefix(send_offset))
  /\ TotalConsumed = Cardinality(Prefix(app_consumed))
BY DEF TotalSent, TotalConsumed, Prefix

LEMMA BytesElements ==
  ASSUME NEW s, NEW a \in Int, NEW b \in Int
  PROVE  \A x : x \in BytesOf(s, a, b) <=>
                \E n \in Int : x = <<s, n>> /\ a <= n /\ n < b
BY DEF BytesOf, Span

\* A stretch of a stream is finite and has as many bytes as it is long.
LEMMA BytesCardinality ==
  ASSUME NEW s, NEW a \in Int, NEW b \in Int, a <= b
  PROVE  /\ IsFiniteSet(BytesOf(s, a, b))
         /\ Cardinality(BytesOf(s, a, b)) = b - a
<1>1. IsFiniteSet(Span(a, b)) /\ Cardinality(Span(a, b)) = b - a
  <2>1. b - 1 \in Int
    OBVIOUS
  <2>2. /\ IsFiniteSet(a .. (b - 1))
        /\ Cardinality(a .. (b - 1)) = IF a > b - 1 THEN 0 ELSE (b - 1) - a + 1
    BY <2>1, FS_Interval
  <2>. QED
    BY <2>2 DEF Span
<1>2. IsFiniteSet({s}) /\ Cardinality({s}) = 1
  BY FS_Singleton
<1>3. /\ IsFiniteSet({s} \X Span(a, b))
      /\ Cardinality({s} \X Span(a, b)) = Cardinality({s}) * Cardinality(Span(a, b))
  BY <1>1, <1>2, FS_Product
<1> QED
  BY <1>1, <1>2, <1>3 DEF BytesOf

LEMMA PrefixElements ==
  ASSUME NEW o \in [Streams -> Nat]
  PROVE  \A x : x \in Prefix(o) <=>
                \E s \in Streams, n \in Nat : x = <<s, n>> /\ n < o[s]
<1>1. \A s \in Streams : \A x : x \in BytesOf(s, 0, o[s]) <=>
                                \E n \in Int : x = <<s, n>> /\ 0 <= n /\ n < o[s]
  BY BytesElements
<1> QED
  BY <1>1 DEF Prefix

LEMMA PrefixFinite ==
  ASSUME NEW o \in [Streams -> Nat]
  PROVE  IsFiniteSet(Prefix(o)) /\ Cardinality(Prefix(o)) \in Nat
<1>. DEFINE f == [s \in Streams |-> BytesOf(s, 0, o[s])]
            T == {BytesOf(s, 0, o[s]) : s \in Streams}
<1>1. IsFiniteSet(Streams)
  BY FlowAssumption, FS_Interval DEF Streams
<1>2. f \in Surjection(Streams, T)
  BY DEF Surjection
<1>3. IsFiniteSet(T)
  <2>. HIDE DEF f, T
  <2>. QED  BY <1>1, <1>2, FS_Surjection
<1>4. \A B \in T : IsFiniteSet(B)
  BY BytesCardinality
<1>5. IsFiniteSet(UNION T)
  <2>. HIDE DEF T
  <2>. QED  BY <1>3, <1>4, FS_UNION
<1>. QED
  BY <1>5, FS_CardinalityType DEF Prefix

LEMMA PrefixOfNothing == Cardinality(Prefix([s \in Streams |-> 0])) = 0
<1>. DEFINE z == [s \in Streams |-> 0]
<1>1. Prefix(z) = {}
  BY PrefixElements, z \in [Streams -> Nat]
<1>. QED
  BY <1>1, FS_EmptySet

\* A stream that grows by so many bytes makes the whole larger by as many.
LEMMA PrefixGrows ==
  ASSUME NEW o \in [Streams -> Nat], NEW s \in Streams, NEW n \in Nat
  PROVE  Cardinality(Prefix([o EXCEPT ![s] = n])) = Cardinality(Prefix(o)) + n - o[s]
<1>. DEFINE rest == [o EXCEPT ![s] = 0]
            With(m) == [o EXCEPT ![s] = m]
<1>1. ASSUME NEW m \in Nat
      PROVE  Cardinality(Prefix(With(m))) = Cardinality(Prefix(rest)) + m
  <2>1. With(m) \in [Streams -> Nat] /\ rest \in [Streams -> Nat]
    OBVIOUS
  <2>2. \A x : x \in BytesOf(s, 0, m) <=> \E k \in Nat : x = <<s, k>> /\ k < m
    BY BytesElements
  <2>3. Prefix(With(m)) = Prefix(rest) \cup BytesOf(s, 0, m)
    <3>1. ASSUME NEW x, x \in Prefix(With(m))
          PROVE  x \in Prefix(rest) \cup BytesOf(s, 0, m)
      <4>1. PICK t \in Streams, k \in Nat : x = <<t, k>> /\ k < With(m)[t]
        BY <3>1, <2>1, PrefixElements
      <4>2. CASE t = s
        BY <4>1, <4>2, <2>2
      <4>3. CASE t # s
        <5>1. k < rest[t]
          BY <4>1, <4>3
        <5>. QED
          BY <4>1, <5>1, <2>1, PrefixElements
      <4>. QED
        BY <4>2, <4>3
    <3>2. ASSUME NEW x, x \in Prefix(rest)
          PROVE  x \in Prefix(With(m))
      <4>1. PICK t \in Streams, k \in Nat : x = <<t, k>> /\ k < rest[t]
        BY <3>2, <2>1, PrefixElements
      <4>2. k < With(m)[t]
        BY <4>1
      <4>. QED
        BY <4>1, <4>2, <2>1, PrefixElements
    <3>3. ASSUME NEW x, x \in BytesOf(s, 0, m)
          PROVE  x \in Prefix(With(m))
      <4>1. PICK k \in Nat : x = <<s, k>> /\ k < m
        BY <3>3, <2>2
      <4>2. k < With(m)[s]
        BY <4>1
      <4>. QED
        BY <4>1, <4>2, <2>1, PrefixElements
    <3>. QED
      BY <3>1, <3>2, <3>3
  <2>4. Prefix(rest) \cap BytesOf(s, 0, m) = {}
    <3>1. ASSUME NEW x, x \in Prefix(rest), x \in BytesOf(s, 0, m)
          PROVE  FALSE
      <4>1. PICK t \in Streams, k \in Nat : x = <<t, k>> /\ k < rest[t]
        BY <3>1, <2>1, PrefixElements
      <4>2. t = s
        BY <3>1, <4>1, <2>2
      <4>. QED
        BY <4>1, <4>2
    <3>. QED
      BY <3>1
  <2>5. IsFiniteSet(Prefix(rest)) /\ Cardinality(Prefix(rest)) \in Nat
    BY <2>1, PrefixFinite
  <2>6. IsFiniteSet(BytesOf(s, 0, m)) /\ Cardinality(BytesOf(s, 0, m)) = m
    BY BytesCardinality
  <2>. HIDE DEF rest, With
  <2>7. Cardinality(Prefix(rest) \cup BytesOf(s, 0, m)) =
          Cardinality(Prefix(rest)) + Cardinality(BytesOf(s, 0, m)) - Cardinality({})
    BY <2>4, <2>5, <2>6, FS_Union
  <2>. QED
    BY <2>3, <2>5, <2>6, <2>7, FS_EmptySet
<1>2. Cardinality(Prefix(rest)) \in Nat
  BY PrefixFinite, rest \in [Streams -> Nat]
<1>3. With(o[s]) = o /\ o[s] \in Nat
  OBVIOUS
<1>4. /\ Cardinality(Prefix(With(n))) = Cardinality(Prefix(rest)) + n
      /\ Cardinality(Prefix(With(o[s]))) = Cardinality(Prefix(rest)) + o[s]
  BY <1>1, <1>3
<1>5. With(n) = [o EXCEPT ![s] = n]
  OBVIOUS
<1>. HIDE DEF rest, With
<1>. QED
  BY <1>2, <1>3, <1>4, <1>5

LEMMA PrefixMonotone ==
  ASSUME NEW o \in [Streams -> Nat], NEW s \in Streams, NEW n \in Nat, o[s] <= n
  PROVE  Prefix(o) \subseteq Prefix([o EXCEPT ![s] = n])
<1>1. [o EXCEPT ![s] = n] \in [Streams -> Nat]
  OBVIOUS
<1>2. \A t \in Streams, k \in Nat : k < o[t] => k < [o EXCEPT ![s] = n][t]
  OBVIOUS
<1>. QED
  BY <1>1, <1>2, PrefixElements

-----------------------------------------------------------------------------
\* The arithmetic of the credits and of the windows.
LEMMA ChunkBounds ==
  ASSUME TypeOK, NEW s \in Streams, CanSend(s), TotalSent \in Nat
  PROVE  /\ Chunk(s) \in Nat
         /\ send_offset[s] + Chunk(s) <= SendLen[s]
         /\ send_offset[s] + Chunk(s) <= send_limit[s]
         /\ TotalSent + Chunk(s) <= conn_send_limit
<1>. DEFINE left == SendLen[s] - send_offset[s]
            S == {left, StreamCredit(s), ConnCredit, ChunkLen}
<1>1. /\ left \in Nat /\ ChunkLen \in Nat
      /\ StreamCredit(s) \in Nat /\ ConnCredit \in Nat
      /\ StreamCredit(s) = send_limit[s] - send_offset[s]
      /\ ConnCredit = conn_send_limit - TotalSent
  BY FlowAssumption DEF TypeOK, CanSend, StreamCredit, ConnCredit, Higher
<1>2. \E x \in S : \A y \in S : x <= y
  <2>. HIDE DEF left
  <2>1. PICK m \in {left, ChunkLen} : m <= left /\ m <= ChunkLen
    BY <1>1
  <2>2. PICK k \in {StreamCredit(s), ConnCredit} : k <= StreamCredit(s) /\ k <= ConnCredit
    BY <1>1
  <2>. QED
    BY <1>1, <2>1, <2>2
<1>3. Chunk(s) \in S /\ \A y \in S : Chunk(s) <= y
  BY <1>2 DEF Chunk, Min
<1>4. Chunk(s) \in Nat /\ Chunk(s) <= left /\ Chunk(s) <= StreamCredit(s) /\ Chunk(s) <= ConnCredit
  <2>. HIDE DEF left
  <2>. QED  BY <1>1, <1>3
<1>. QED
  BY <1>1, <1>4, FlowAssumption DEF TypeOK

\* Scheduling an update keeps a limit in its window when more has arrived.
LEMMA ScheduleKeepsWindow ==
  ASSUME NEW limit \in Nat, NEW had \in Nat, NEW floor \in Nat, NEW window \in Nat,
         had <= floor, limit <= had + window + Reserve
  PROVE  /\ Schedule(limit, floor, window) \in Nat
         /\ limit <= Schedule(limit, floor, window)
         /\ InWindow(Schedule(limit, floor, window), floor, window)
<1>1. Reserve \in Nat /\ Reserve >= 4 * ChunkLen /\ ChunkLen \in Nat
  BY FlowAssumption DEF Reserve
<1>2. window \div 2 \in Nat /\ window \div 2 <= window
  OBVIOUS
<1>3. ChunkLen > 0
  BY FlowAssumption
<1>. DEFINE half == window \div 2
<1>4. half \in Nat /\ half <= window
  BY <1>2
<1>. HIDE DEF half
<1>5. /\ floor + half + ChunkLen < limit => Schedule(limit, floor, window) = limit
      /\ ~ (floor + half + ChunkLen < limit) =>
           Schedule(limit, floor, window) = floor + window + Reserve
  BY <1>1, <1>3, <1>4 DEF Schedule, Higher, half
<1>6. InWindow(Schedule(limit, floor, window), floor, window) <=>
        /\ floor + half + ChunkLen < Schedule(limit, floor, window)
        /\ Schedule(limit, floor, window) <= floor + window + Reserve
  BY DEF InWindow, half
<1>. QED
  BY <1>1, <1>3, <1>4, <1>5, <1>6

LEMMA ScheduleAgain ==
  ASSUME NEW limit \in Nat, NEW floor \in Nat, NEW window \in Nat,
         InWindow(limit, floor, window)
  PROVE  /\ Schedule(limit, floor, window) \in Nat
         /\ limit <= Schedule(limit, floor, window)
         /\ InWindow(Schedule(limit, floor, window), floor, window)
<1>1. floor <= floor /\ limit <= floor + window + Reserve
  BY DEF InWindow
<1>. QED
  BY <1>1, ScheduleKeepsWindow

-----------------------------------------------------------------------------
\* The limits the sender has, or will have from a packet on its way, are not above
\* the receiver's.
LimitsOK ==
  /\ conn_send_limit <= conn_recv_limit
  /\ \A s \in Streams : send_limit[s] <= recv_limit[s]
  /\ \A c \in credit_net : c.conn <= conn_recv_limit /\ c.stream <= recv_limit[c.sid]

\* The sender has kept to its limits, and only what it has sent is on its way.
SentOK ==
  /\ Cardinality(Prefix(send_offset)) <= conn_send_limit
  /\ \A s \in Streams : send_offset[s] <= send_limit[s]
  /\ \A f \in data_net : f.start <= f.end /\ f.end <= send_offset[f.sid]

\* The receiver has only what was sent, the file only what was received, and
\* nothing lies above the highest offset.
ReceivedOK ==
  /\ recv_map \subseteq Prefix(send_offset)
  /\ \A s \in Streams : BytesOf(s, 0, app_consumed[s]) \subseteq recv_map
  /\ \A s \in Streams, n \in Nat : <<s, n>> \in recv_map => n < highest[s]

IndInv ==
  /\ TypeOK /\ LimitsOK /\ SentOK /\ ReceivedOK
  /\ NeverOverLimit /\ WindowKept /\ CountedOnce /\ BlockedIsCurrent

LEMMA InitInd ==
  ASSUME WindowsFit, Init
  PROVE  IndInv
<1>1. /\ Reserve \in Nat /\ Reserve > 0
  BY FlowAssumption DEF Reserve
<1>2. TypeOK
  <2>1. 0 \in Streams
    BY FlowAssumption DEF Streams
  <2>2. /\ conn_send_limit \in Nat /\ send_limit \in [Streams -> Nat]
        /\ conn_recv_limit \in Nat /\ recv_limit \in [Streams -> Nat]
    BY FlowAssumption DEF Init, FirstSendLimit, Higher
  <2>3. /\ send_offset \in [Streams -> Nat] /\ \A s \in Streams : send_offset[s] <= SendLen[s]
        /\ app_consumed \in [Streams -> Nat] /\ highest \in [Streams -> Nat]
        /\ send_fin_sent \in [Streams -> BOOLEAN]
    BY FlowAssumption DEF Init
  <2>4. /\ conn_blocked \in [pending : BOOLEAN, last : Nat]
        /\ blocked \in [Streams -> [pending : BOOLEAN, last : Nat]]
    BY DEF Init, NotBlocked
  <2>5. faults \in [dup : Nat, drop : Nat]
    BY DEF Init
  <2>. QED
    BY <2>1, <2>2, <2>3, <2>4, <2>5 DEF Init, TypeOK
<1>3. LimitsOK
  BY WindowsFit, FlowAssumption DEF Init, LimitsOK, WindowsFit, FirstSendLimit, Higher
<1>4. SentOK
  <2>1. Cardinality(Prefix(send_offset)) = 0
    BY PrefixOfNothing DEF Init
  <2>. QED
    BY <2>1, FlowAssumption DEF Init, SentOK, FirstSendLimit, Higher
<1>5. ReceivedOK
  <2>1. \A s \in Streams : BytesOf(s, 0, 0) = {}
    BY BytesElements
  <2>. QED
    BY <2>1 DEF Init, ReceivedOK
<1>6. WindowKept
  <2>1. \A window \in Nat : RoomFor(window) => InWindow(window, 0, window)
    <3>1. ASSUME NEW window \in Nat, RoomFor(window) PROVE InWindow(window, 0, window)
      <4>. DEFINE half == window \div 2
      <4>1. half \in Nat
        OBVIOUS
      <4>2. half + ChunkLen < window
        BY <3>1 DEF RoomFor
      <4>. HIDE DEF half
      <4>3. 0 + half + ChunkLen < window /\ window <= 0 + window + Reserve
        BY <1>1, <4>1, <4>2, FlowAssumption
      <4>. QED
        BY <4>3 DEF InWindow, half
    <3>. QED
      BY <3>1
  <2>. QED
    BY <2>1, FlowAssumption DEF Init, WindowKept, WindowsFit
<1>7. NeverOverLimit /\ CountedOnce /\ BlockedIsCurrent
  BY FS_EmptySet DEF Init, NeverOverLimit, CountedOnce, BlockedIsCurrent, NotBlocked
<1>. QED
  BY <1>2, <1>3, <1>4, <1>5, <1>6, <1>7 DEF IndInv

-----------------------------------------------------------------------------
\* The sender's steps.
LEMMA PassOverKeeps ==
  ASSUME TypeOK, BlockedIsCurrent, NEW S, PassOver(S),
         conn_send_limit' = conn_send_limit, send_limit' = send_limit
  PROVE  /\ conn_blocked' \in [pending : BOOLEAN, last : Nat]
         /\ blocked' \in [Streams -> [pending : BOOLEAN, last : Nat]]
         /\ BlockedIsCurrent'
<1>. DEFINE Flags == [pending : BOOLEAN, last : Nat]
            Current(flag, limit) == flag.pending => flag.last = limit
<1>1. ASSUME NEW flag \in Flags, NEW limit \in Nat, Current(flag, limit)
      PROVE  NoteBlocked(flag, limit) \in Flags /\ Current(NoteBlocked(flag, limit), limit)
  BY <1>1 DEF NoteBlocked
<1>2. conn_blocked' \in Flags /\ Current(conn_blocked', conn_send_limit)
  <2>1. conn_blocked' \in {conn_blocked, NoteBlocked(conn_blocked, conn_send_limit)}
    BY DEF PassOver
  <2>2. /\ conn_blocked \in Flags /\ conn_send_limit \in Nat
        /\ Current(conn_blocked, conn_send_limit)
    BY DEF TypeOK, BlockedIsCurrent
  <2>. QED
    BY <1>1, <2>1, <2>2
<1>3. ASSUME NEW s \in Streams
      PROVE  blocked'[s] \in Flags /\ Current(blocked'[s], send_limit[s])
  <2>1. blocked'[s] \in {blocked[s], NoteBlocked(blocked[s], send_limit[s])}
    BY DEF PassOver
  <2>2. blocked[s] \in Flags /\ send_limit[s] \in Nat /\ Current(blocked[s], send_limit[s])
    BY DEF TypeOK, BlockedIsCurrent
  <2>. QED
    BY <1>1, <2>1, <2>2
<1>4. blocked' \in [Streams -> Flags]
  BY <1>3 DEF PassOver
<1>. QED
  BY <1>2, <1>3, <1>4 DEF BlockedIsCurrent

LEMMA SendBlockedInd ==
  ASSUME IndInv, SendBlocked
  PROVE  IndInv'
<1>1. UNCHANGED <<send_offset, send_fin_sent, round_robin_cursor, conn_send_limit,
                  send_limit, receiverVars, netVars>>
  BY DEF SendBlocked
<1>2. TypeOK'
  BY <1>1 DEF IndInv, SendBlocked, TypeOK, receiverVars, netVars
<1>3. LimitsOK' /\ SentOK' /\ ReceivedOK' /\ NeverOverLimit' /\ WindowKept' /\ CountedOnce'
  BY <1>1 DEF IndInv, LimitsOK, SentOK, ReceivedOK, NeverOverLimit, WindowKept, CountedOnce,
              receiverVars, netVars
<1>4. BlockedIsCurrent'
  BY <1>1 DEF IndInv, TypeOK, SendBlocked, BlockedIsCurrent
<1>. QED
  BY <1>2, <1>3, <1>4 DEF IndInv

LEMMA FindBlockedInd ==
  ASSUME IndInv, FindBlocked
  PROVE  IndInv'
<1>1. UNCHANGED <<send_offset, send_fin_sent, round_robin_cursor, conn_send_limit,
                  send_limit, reported, receiverVars, netVars>>
  BY DEF FindBlocked
<1>2. /\ conn_blocked' \in [pending : BOOLEAN, last : Nat]
      /\ blocked' \in [Streams -> [pending : BOOLEAN, last : Nat]]
      /\ BlockedIsCurrent'
  BY <1>1, PassOverKeeps DEF IndInv, FindBlocked
<1>3. TypeOK'
  BY <1>1, <1>2 DEF IndInv, TypeOK, receiverVars, netVars
<1>4. LimitsOK' /\ SentOK' /\ ReceivedOK' /\ NeverOverLimit' /\ WindowKept' /\ CountedOnce'
  BY <1>1 DEF IndInv, LimitsOK, SentOK, ReceivedOK, NeverOverLimit, WindowKept, CountedOnce,
              receiverVars, netVars
<1>. QED
  BY <1>2, <1>3, <1>4 DEF IndInv

LEMMA SendNewInd ==
  ASSUME IndInv, NEW s \in Streams, SendNew(s)
  PROVE  IndInv'
<1>. DEFINE end == send_offset[s] + Chunk(s)
            frame == [sid |-> s, start |-> send_offset[s], end |-> end]
<1>1. UNCHANGED <<conn_send_limit, send_limit, reported, receiverVars, credit_net, faults>>
  BY DEF SendNew
<1>2. /\ send_offset' = [send_offset EXCEPT ![s] = end]
      /\ send_fin_sent' \in [Streams -> BOOLEAN]
      /\ data_net' = data_net \cup {frame}
      /\ round_robin_cursor' = (s + 1) % NumStreams
      /\ CanSend(s)
  BY DEF SendNew, IndInv, TypeOK
<1>3. Cardinality(Prefix(send_offset)) \in Nat
  BY PrefixFinite DEF IndInv, TypeOK
<1>4. /\ Chunk(s) \in Nat
      /\ end <= SendLen[s]
      /\ end <= send_limit[s]
      /\ Cardinality(Prefix(send_offset)) + Chunk(s) <= conn_send_limit
  BY <1>2, <1>3, ChunkBounds, TotalsArePrefixes DEF IndInv
<1>5. send_offset[s] \in Nat /\ end \in Nat /\ send_offset[s] <= end
  BY <1>4 DEF IndInv, TypeOK
<1>6. /\ conn_blocked' \in [pending : BOOLEAN, last : Nat]
      /\ blocked' \in [Streams -> [pending : BOOLEAN, last : Nat]]
      /\ BlockedIsCurrent'
  BY <1>1, PassOverKeeps DEF IndInv, SendNew
<1>. HIDE DEF end
<1>7. TypeOK'
  <2>1. send_offset' \in [Streams -> Nat] /\ \A t \in Streams : send_offset'[t] <= SendLen[t]
    BY <1>2, <1>4, <1>5 DEF IndInv, TypeOK
  <2>2. round_robin_cursor' \in Streams
    BY <1>2, FlowAssumption DEF Streams
  <2>3. data_net' \subseteq [sid : Streams, start : Nat, end : Nat]
    BY <1>2, <1>5 DEF IndInv, TypeOK
  <2>. QED
    BY <1>1, <1>2, <1>6, <2>1, <2>2, <2>3 DEF IndInv, TypeOK, receiverVars
<1>8. Cardinality(Prefix(send_offset')) = Cardinality(Prefix(send_offset)) + Chunk(s)
  <2>1. Cardinality(Prefix([send_offset EXCEPT ![s] = end])) =
          Cardinality(Prefix(send_offset)) + end - send_offset[s]
    BY <1>5, PrefixGrows DEF IndInv, TypeOK
  <2>. QED
    BY <1>2, <1>3, <1>4, <1>5, <2>1 DEF end
<1>9. SentOK'
  <2>1. \A t \in Streams : send_offset'[t] <= send_limit'[t]
    BY <1>1, <1>2, <1>4 DEF IndInv, SentOK, TypeOK
  <2>2. ASSUME NEW f \in data_net' PROVE f.start <= f.end /\ f.end <= send_offset'[f.sid]
    <3>1. CASE f = frame
      BY <3>1, <1>2, <1>5 DEF IndInv, TypeOK
    <3>2. CASE f \in data_net
      <4>1. f.sid \in Streams /\ f.end \in Nat /\ f.start <= f.end /\ f.end <= send_offset[f.sid]
        BY <3>2 DEF IndInv, TypeOK, SentOK
      <4>2. send_offset[f.sid] <= send_offset'[f.sid] /\ send_offset[f.sid] \in Nat
            /\ send_offset'[f.sid] \in Nat
        BY <4>1, <1>2, <1>5 DEF IndInv, TypeOK
      <4>. QED
        BY <4>1, <4>2
    <3>. QED
      BY <1>2, <2>2, <3>1, <3>2
  <2>3. Cardinality(Prefix(send_offset')) <= conn_send_limit'
    BY <1>1, <1>4, <1>8
  <2>. QED
    BY <2>1, <2>2, <2>3 DEF SentOK
<1>10. ReceivedOK'
  <2>1. Prefix(send_offset) \subseteq Prefix(send_offset')
    BY <1>2, <1>5, PrefixMonotone DEF IndInv, TypeOK
  <2>. QED
    BY <1>1, <2>1 DEF IndInv, ReceivedOK, receiverVars
<1>11. LimitsOK' /\ NeverOverLimit' /\ WindowKept' /\ CountedOnce'
  BY <1>1 DEF IndInv, LimitsOK, NeverOverLimit, WindowKept, CountedOnce, receiverVars
<1>. QED
  BY <1>6, <1>7, <1>9, <1>10, <1>11 DEF IndInv

-----------------------------------------------------------------------------
\* Credit on its way, delivered or lost.
LEMMA DeliverCreditInd ==
  ASSUME IndInv, NEW c \in credit_net, DeliverCredit(c)
  PROVE  IndInv'
<1>1. /\ conn_send_limit' = Higher(conn_send_limit, c.conn)
      /\ send_limit' = [send_limit EXCEPT ![c.sid] = Higher(@, c.stream)]
      /\ credit_net' \subseteq credit_net
      /\ UNCHANGED <<receiverVars, data_net, send_offset, send_fin_sent, round_robin_cursor,
                     reported>>
  BY DEF DeliverCredit, ReceiveCredit, Leave
<1>2. c.sid \in Streams /\ c.stream \in Nat /\ c.conn \in Nat
  BY DEF IndInv, TypeOK
<1>3. /\ conn_send_limit' \in Nat /\ send_limit' \in [Streams -> Nat]
      /\ conn_send_limit <= conn_send_limit'
      /\ \A s \in Streams : send_limit[s] <= send_limit'[s]
  BY <1>1, <1>2 DEF IndInv, TypeOK, Higher
<1>4. TypeOK'
  <2>1. /\ conn_blocked' \in [pending : BOOLEAN, last : Nat]
        /\ blocked' \in [Streams -> [pending : BOOLEAN, last : Nat]]
    BY <1>2 DEF IndInv, TypeOK, DeliverCredit, ReceiveCredit
  <2>2. faults' \in [dup : Nat, drop : Nat]
    BY DEF IndInv, TypeOK, DeliverCredit, Leave
  <2>. QED
    BY <1>1, <1>3, <2>1, <2>2 DEF IndInv, TypeOK, receiverVars
<1>5. LimitsOK'
  <2>1. conn_send_limit' <= conn_recv_limit'
    BY <1>1 DEF IndInv, LimitsOK, receiverVars, Higher
  <2>2. \A s \in Streams : send_limit'[s] <= recv_limit'[s]
    BY <1>1, <1>2 DEF IndInv, TypeOK, LimitsOK, receiverVars, Higher
  <2>. QED
    BY <1>1, <2>1, <2>2 DEF IndInv, LimitsOK, receiverVars
<1>6. SentOK'
  <2>1. Cardinality(Prefix(send_offset)) \in Nat
    BY PrefixFinite DEF IndInv, TypeOK
  <2>2. Cardinality(Prefix(send_offset')) <= conn_send_limit'
    BY <1>1, <1>3, <2>1 DEF IndInv, SentOK, TypeOK
  <2>3. \A s \in Streams : send_offset'[s] <= send_limit'[s]
    BY <1>1, <1>3 DEF IndInv, SentOK, TypeOK
  <2>. QED
    BY <1>1, <2>2, <2>3 DEF IndInv, SentOK
<1>7. ReceivedOK' /\ NeverOverLimit' /\ WindowKept' /\ CountedOnce'
  BY <1>1 DEF IndInv, ReceivedOK, NeverOverLimit, WindowKept, CountedOnce, receiverVars
<1>8. BlockedIsCurrent'
  <2>1. conn_blocked'.pending => conn_blocked'.last = conn_send_limit'
    <3>1. CASE c.conn > conn_send_limit
      <4>1. conn_blocked' = [conn_blocked EXCEPT !.pending = FALSE]
        BY <3>1 DEF DeliverCredit, ReceiveCredit
      <4>. QED
        BY <4>1 DEF IndInv, TypeOK
    <3>2. CASE ~ (c.conn > conn_send_limit)
      <4>1. conn_blocked' = conn_blocked
        BY <3>2 DEF DeliverCredit, ReceiveCredit
      <4>2. conn_send_limit' = conn_send_limit
        <5>1. conn_send_limit \in Nat /\ c.conn \in Nat
          BY <1>2 DEF IndInv, TypeOK
        <5>2. Higher(conn_send_limit, c.conn) = conn_send_limit
          BY <3>2, <5>1 DEF Higher
        <5>. QED
          BY <1>1, <5>2
      <4>. QED
        BY <4>1, <4>2 DEF IndInv, BlockedIsCurrent
    <3>. QED
      BY <3>1, <3>2
  <2>2. ASSUME NEW s \in Streams PROVE blocked'[s].pending => blocked'[s].last = send_limit'[s]
    BY <1>1, <1>2 DEF IndInv, TypeOK, BlockedIsCurrent, DeliverCredit, ReceiveCredit, Higher
  <2>. QED
    BY <2>1, <2>2 DEF BlockedIsCurrent
<1>. QED
  BY <1>4, <1>5, <1>6, <1>7, <1>8 DEF IndInv

LEMMA DropCreditInd ==
  ASSUME IndInv, NEW c \in credit_net, DropCredit(c)
  PROVE  IndInv'
<1>1. /\ credit_net' \subseteq credit_net
      /\ UNCHANGED <<senderVars, receiverVars, data_net>>
  BY DEF DropCredit
<1>2. TypeOK'
  <2>1. faults' \in [dup : Nat, drop : Nat]
    BY DEF IndInv, TypeOK, DropCredit
  <2>. QED
    BY <1>1, <2>1 DEF IndInv, TypeOK, senderVars, receiverVars
<1>3. /\ LimitsOK' /\ SentOK' /\ ReceivedOK' /\ NeverOverLimit' /\ WindowKept'
      /\ CountedOnce' /\ BlockedIsCurrent'
  BY <1>1 DEF IndInv, LimitsOK, SentOK, ReceivedOK, NeverOverLimit, WindowKept, CountedOnce,
              BlockedIsCurrent, senderVars, receiverVars
<1>. QED
  BY <1>2, <1>3 DEF IndInv

-----------------------------------------------------------------------------
\* The receiver.  What a frame on its way brings was sent, and fits.
LEMMA FrameFits ==
  ASSUME IndInv, NEW f \in data_net,
         NEW have, have = recv_map \cup BytesOf(f.sid, f.start, f.end)
  PROVE  /\ f.sid \in Streams /\ f.start \in Nat /\ f.end \in Nat
         /\ have \subseteq Prefix(send_offset)
         /\ IsFiniteSet(have) /\ IsFiniteSet(recv_map)
         /\ NewlyReceived(f) \in Nat /\ Cardinality(have) \in Nat
         /\ Cardinality(have) = conn_highest + NewlyReceived(f)
         /\ ~ ReceiveFails(f)
<1>. DEFINE new == BytesOf(f.sid, f.start, f.end) \ recv_map
<1>1. /\ f.sid \in Streams /\ f.start \in Nat /\ f.end \in Nat
      /\ f.end <= send_offset[f.sid]
  BY DEF IndInv, TypeOK, SentOK
<1>2. IsFiniteSet(Prefix(send_offset)) /\ Cardinality(Prefix(send_offset)) \in Nat
  BY PrefixFinite DEF IndInv, TypeOK
<1>3. have \subseteq Prefix(send_offset)
  <2>1. BytesOf(f.sid, f.start, f.end) \subseteq Prefix(send_offset)
    <3>1. ASSUME NEW x \in BytesOf(f.sid, f.start, f.end) PROVE x \in Prefix(send_offset)
      <4>1. PICK n \in Int : x = <<f.sid, n>> /\ f.start <= n /\ n < f.end
        BY <1>1, BytesElements
      <4>2. n \in Nat /\ n < send_offset[f.sid]
        BY <1>1, <4>1 DEF IndInv, TypeOK
      <4>. QED
        BY <1>1, <4>1, <4>2, PrefixElements DEF IndInv, TypeOK
    <3>. QED
      BY <3>1
  <2>. QED
    BY <2>1 DEF IndInv, ReceivedOK
<1>4. /\ IsFiniteSet(have) /\ Cardinality(have) \in Nat
      /\ Cardinality(have) <= Cardinality(Prefix(send_offset))
  BY <1>2, <1>3, FS_Subset, FS_CardinalityType
<1>5. IsFiniteSet(recv_map) /\ Cardinality(recv_map) \in Nat
  BY <1>2, FS_Subset, FS_CardinalityType DEF IndInv, ReceivedOK
<1>6. IsFiniteSet(new) /\ Cardinality(new) \in Nat
  BY <1>4, FS_Subset, FS_CardinalityType, new \subseteq have
<1>7. Cardinality(have) = Cardinality(recv_map) + Cardinality(new)
  <2>1. have = recv_map \cup new /\ recv_map \cap new = {}
    OBVIOUS
  <2>. HIDE DEF new
  <2>2. Cardinality(recv_map \cup new) =
          Cardinality(recv_map) + Cardinality(new) - Cardinality(recv_map \cap new)
    BY <1>5, <1>6, FS_Union
  <2>3. Cardinality(recv_map \cap new) = 0
    BY <2>1, FS_EmptySet
  <2>4. Cardinality(have) = Cardinality(recv_map \cup new)
    BY <2>1
  <2>. QED
    BY <1>5, <1>6, <2>2, <2>3, <2>4
<1>8. NewlyReceived(f) = Cardinality(new)
  BY DEF NewlyReceived
<1>. HIDE DEF new
<1>9. Cardinality(have) = conn_highest + NewlyReceived(f)
  BY <1>7, <1>8 DEF IndInv, CountedOnce
<1>10. Cardinality(have) <= conn_recv_limit /\ f.end <= recv_limit[f.sid]
  BY <1>1, <1>2, <1>4 DEF IndInv, TypeOK, SentOK, LimitsOK
<1>11. ~ ReceiveFails(f)
  BY <1>1, <1>4, <1>9, <1>10 DEF ReceiveFails, IndInv, TypeOK
<1>. QED
  BY <1>1, <1>3, <1>4, <1>5, <1>6, <1>8, <1>9, <1>11

\* The receiver's half of the step, for the n that ends what has become contiguous.
LEMMA ReceiveStreamInd ==
  ASSUME IndInv, NEW f \in data_net, ReceiveStream(f)
  PROVE  /\ recv_map' = recv_map \cup BytesOf(f.sid, f.start, f.end)
         /\ recv_map' \subseteq Streams \X Nat
         /\ app_consumed' \in [Streams -> Nat]
         /\ conn_highest' = Cardinality(recv_map') /\ conn_highest' \in Nat
         /\ highest' \in [Streams -> Nat]
         /\ \A s \in Streams : BytesOf(s, 0, app_consumed'[s]) \subseteq recv_map'
         /\ \A s \in Streams, n \in Nat : <<s, n>> \in recv_map' => n < highest'[s]
         /\ conn_recv_limit' \in Nat /\ conn_recv_limit <= conn_recv_limit'
         /\ recv_limit' \in [Streams -> Nat]
         /\ \A s \in Streams : recv_limit[s] <= recv_limit'[s]
         /\ WindowKept'
         /\ credit_net' \subseteq [sid : Streams, stream : Nat, conn : Nat]
         /\ \A c \in credit_net' : c.conn <= conn_recv_limit' /\ c.stream <= recv_limit'[c.sid]
<1>. DEFINE s == f.sid
            have == recv_map \cup BytesOf(s, f.start, f.end)
            total == conn_highest + NewlyReceived(f)
            high == Higher(highest[s], f.end)
            received == Schedule(recv_limit[s], WindowFloor(app_consumed[s], high), StreamWindow)
            connRcvd == Schedule(conn_recv_limit, WindowFloor(TotalConsumed, total), ConnWindow)
            fresh(n) == n - app_consumed[s]
            limit(n) == IF fresh(n) = 0 THEN received
                        ELSE Schedule(received, WindowFloor(n, high), StreamWindow)
            connLim(n) == IF fresh(n) = 0 THEN connRcvd
                          ELSE Schedule(connRcvd, WindowFloor(TotalConsumed + fresh(n), total),
                                        ConnWindow)
            credit(n) == [sid    |-> s,
                          stream |-> IF limit(n) = recv_limit[s] THEN NoCredit ELSE limit(n),
                          conn   |-> IF connLim(n) = conn_recv_limit THEN NoCredit
                                     ELSE connLim(n)]
<1>1. PICK n \in 0 .. SendLen[s] :
        /\ IsContiguousEnd(n, s, have)
        /\ recv_limit' = [recv_limit EXCEPT ![s] = limit(n)]
        /\ conn_recv_limit' = connLim(n)
        /\ credit_net' = IF limit(n) = recv_limit[s] /\ connLim(n) = conn_recv_limit
                         THEN credit_net ELSE credit_net \cup {credit(n)}
        /\ app_consumed' = [app_consumed EXCEPT ![s] = n]
        /\ recv_map' = have
        /\ conn_highest' = total
        /\ highest' = [highest EXCEPT ![s] = high]
  BY DEF ReceiveStream
<1>2. /\ s \in Streams /\ f.start \in Nat /\ f.end \in Nat
      /\ have \subseteq Prefix(send_offset)
      /\ IsFiniteSet(have) /\ IsFiniteSet(recv_map)
      /\ total \in Nat /\ Cardinality(have) = total /\ conn_highest <= total
  <2>1. /\ f.sid \in Streams /\ f.start \in Nat /\ f.end \in Nat
        /\ have \subseteq Prefix(send_offset)
        /\ IsFiniteSet(have) /\ IsFiniteSet(recv_map)
        /\ NewlyReceived(f) \in Nat /\ Cardinality(have) \in Nat
        /\ Cardinality(have) = conn_highest + NewlyReceived(f)
    <3>1. have = recv_map \cup BytesOf(f.sid, f.start, f.end)
      OBVIOUS
    <3>. HIDE DEF have
    <3>. QED
      BY <3>1, FrameFits
  <2>2. conn_highest \in Nat
    BY DEF IndInv, TypeOK
  <2>. HIDE DEF have
  <2>. QED
    BY <2>1, <2>2
<1>3. /\ high \in Nat /\ highest[s] \in Nat /\ highest[s] <= high /\ f.end <= high
      /\ app_consumed[s] \in Nat /\ n \in Nat
  BY <1>2, FlowAssumption DEF IndInv, TypeOK, Higher
<1>. HIDE DEF s, have, total, high, received, connRcvd, fresh, limit, connLim, credit
\* Nothing of what the receiver has lies above the highest offset.
<1>4. \A t \in Streams, k \in Nat : <<t, k>> \in have => k < highest'[t]
  <2>1. ASSUME NEW t \in Streams, NEW k \in Nat, <<t, k>> \in recv_map PROVE k < highest'[t]
    <3>1. k < highest[t] /\ highest[t] \in Nat
      BY <2>1 DEF IndInv, ReceivedOK, TypeOK
    <3>2. highest[t] <= highest'[t] /\ highest'[t] \in Nat
      BY <1>1, <1>3 DEF IndInv, TypeOK
    <3>. QED
      BY <3>1, <3>2
  <2>2. ASSUME NEW t \in Streams, NEW k \in Nat, <<t, k>> \in BytesOf(s, f.start, f.end)
        PROVE  k < highest'[t]
    <3>1. t = s /\ k < f.end
      BY <2>2, <1>2, BytesElements
    <3>2. highest'[s] = high
      BY <1>1, <1>2 DEF IndInv, TypeOK
    <3>. QED
      BY <1>2, <1>3, <3>1, <3>2
  <2>. QED
    BY <2>1, <2>2 DEF have
<1>5. /\ app_consumed' \in [Streams -> Nat] /\ highest' \in [Streams -> Nat]
      /\ have \subseteq Streams \X Nat
  <2>1. BytesOf(s, f.start, f.end) \subseteq Streams \X Nat
    BY <1>2, BytesElements
  <2>. QED
    BY <1>1, <1>3, <2>1 DEF IndInv, TypeOK, have
<1>6. \A t \in Streams : BytesOf(t, 0, app_consumed'[t]) \subseteq have
  BY <1>1 DEF IndInv, TypeOK, ReceivedOK, IsContiguousEnd, have
\* What the client has written it has received, so the floor of a window is what
\* has arrived.
<1>7. app_consumed[s] <= high /\ n <= high
  <2>1. ASSUME NEW m \in Nat, BytesOf(s, 0, m) \subseteq have PROVE m <= high
    <3>1. CASE m = 0
      BY <3>1, <1>3
    <3>2. CASE m # 0
      <4>1. m - 1 \in Nat /\ <<s, m - 1>> \in BytesOf(s, 0, m)
        BY <3>2, BytesElements
      <4>2. m - 1 < highest'[s]
        BY <4>1, <2>1, <1>2, <1>4
      <4>. QED
        BY <4>2, <1>1, <1>2, <1>3 DEF IndInv, TypeOK
    <3>. QED
      BY <3>1, <3>2
  <2>2. BytesOf(s, 0, n) \subseteq have
    BY <1>1 DEF IsContiguousEnd
  <2>3. BytesOf(s, 0, app_consumed[s]) \subseteq have
    BY <1>2 DEF IndInv, ReceivedOK, have
  <2>. QED
    BY <1>3, <2>1, <2>2, <2>3
<1>8. /\ TotalConsumed \in Nat /\ TotalConsumed <= total
      /\ TotalConsumed + fresh(n) \in Nat /\ TotalConsumed + fresh(n) <= total
  <2>1. ASSUME NEW o \in [Streams -> Nat],
               \A t \in Streams : BytesOf(t, 0, o[t]) \subseteq have
        PROVE  Cardinality(Prefix(o)) \in Nat /\ Cardinality(Prefix(o)) <= total
    <3>1. Prefix(o) \subseteq have
      BY <2>1 DEF Prefix
    <3>. QED
      BY <3>1, <1>2, FS_Subset, FS_CardinalityType
  <2>2. TotalConsumed \in Nat /\ TotalConsumed <= total
    <3>1. \A t \in Streams : BytesOf(t, 0, app_consumed[t]) \subseteq have
      BY DEF IndInv, ReceivedOK, have
    <3>. QED
      BY <2>1, <3>1, TotalsArePrefixes DEF IndInv, TypeOK
  <2>3. /\ Cardinality(Prefix(app_consumed')) \in Nat
        /\ Cardinality(Prefix(app_consumed')) <= total
    BY <1>5, <1>6, <2>1
  <2>4. Cardinality(Prefix(app_consumed')) = TotalConsumed + n - app_consumed[s]
    BY <1>1, <1>2, <1>3, PrefixGrows, TotalsArePrefixes DEF IndInv, TypeOK
  <2>5. TotalConsumed + fresh(n) = Cardinality(Prefix(app_consumed'))
    BY <2>2, <2>4, <1>3 DEF fresh
  <2>. QED
    BY <2>2, <2>3, <2>5
\* Both updates of the stream's limit, then both of the connection's.
<1>9. /\ limit(n) \in Nat /\ recv_limit[s] <= limit(n)
      /\ InWindow(limit(n), high, StreamWindow)
  <2>1. /\ StreamWindow \in Nat /\ recv_limit[s] \in Nat
        /\ recv_limit[s] <= highest[s] + StreamWindow + Reserve
    BY <1>2, FlowAssumption DEF IndInv, TypeOK, WindowKept, InWindow
  <2>2. WindowFloor(app_consumed[s], high) = high /\ WindowFloor(n, high) = high
    BY <1>3, <1>7 DEF WindowFloor, Higher
  <2>3. /\ received \in Nat /\ recv_limit[s] <= received
        /\ InWindow(received, high, StreamWindow)
    BY <1>3, <2>1, <2>2, ScheduleKeepsWindow DEF received
  <2>4. /\ Schedule(received, high, StreamWindow) \in Nat
        /\ received <= Schedule(received, high, StreamWindow)
        /\ InWindow(Schedule(received, high, StreamWindow), high, StreamWindow)
    BY <1>3, <2>1, <2>3, ScheduleAgain
  <2>. QED
    BY <2>1, <2>2, <2>3, <2>4 DEF limit
<1>10. /\ connLim(n) \in Nat /\ conn_recv_limit <= connLim(n)
       /\ InWindow(connLim(n), total, ConnWindow)
  <2>1. /\ ConnWindow \in Nat /\ conn_recv_limit \in Nat /\ conn_highest \in Nat
        /\ conn_recv_limit <= conn_highest + ConnWindow + Reserve
    BY FlowAssumption DEF IndInv, TypeOK, WindowKept, InWindow
  <2>2. /\ WindowFloor(TotalConsumed, total) = total
        /\ WindowFloor(TotalConsumed + fresh(n), total) = total
    BY <1>2, <1>8 DEF WindowFloor, Higher
  <2>3. /\ connRcvd \in Nat /\ conn_recv_limit <= connRcvd
        /\ InWindow(connRcvd, total, ConnWindow)
    BY <1>2, <2>1, <2>2, ScheduleKeepsWindow DEF connRcvd
  <2>4. /\ Schedule(connRcvd, total, ConnWindow) \in Nat
        /\ connRcvd <= Schedule(connRcvd, total, ConnWindow)
        /\ InWindow(Schedule(connRcvd, total, ConnWindow), total, ConnWindow)
    BY <1>2, <2>1, <2>3, ScheduleAgain
  <2>. QED
    BY <2>1, <2>2, <2>3, <2>4 DEF connLim
<1>11. /\ recv_limit' \in [Streams -> Nat]
       /\ \A t \in Streams : recv_limit[t] <= recv_limit'[t]
       /\ conn_recv_limit' \in Nat /\ conn_recv_limit <= conn_recv_limit'
  <2>1. recv_limit \in [Streams -> Nat]
    BY DEF IndInv, TypeOK
  <2>2. conn_recv_limit' \in Nat /\ conn_recv_limit <= conn_recv_limit'
    BY <1>1, <1>10
  <2>3. recv_limit' \in [Streams -> Nat]
    BY <1>1, <1>9, <2>1
  <2>4. ASSUME NEW t \in Streams PROVE recv_limit[t] <= recv_limit'[t]
    <3>1. CASE t = s
      BY <3>1, <1>1, <1>9, <2>1
    <3>2. CASE t # s
      BY <3>2, <1>1, <2>1
    <3>. QED
      BY <3>1, <3>2
  <2>. QED
    BY <2>2, <2>3, <2>4
<1>12. WindowKept'
  <2>1. ASSUME NEW t \in Streams PROVE InWindow(recv_limit'[t], highest'[t], StreamWindow)
    <3>1. CASE t = s
      BY <3>1, <1>1, <1>9 DEF IndInv, TypeOK
    <3>2. CASE t # s
      BY <3>2, <1>1 DEF IndInv, TypeOK, WindowKept
    <3>. QED
      BY <3>1, <3>2
  <2>2. InWindow(conn_recv_limit', conn_highest', ConnWindow)
    BY <1>1, <1>10
  <2>. QED
    BY <2>1, <2>2 DEF WindowKept, InWindow, Reserve
<1>13. ASSUME NEW c \in credit_net'
       PROVE  /\ c \in [sid : Streams, stream : Nat, conn : Nat]
              /\ c.conn <= conn_recv_limit' /\ c.stream <= recv_limit'[c.sid]
  <2>1. CASE c \in credit_net
    <3>1. /\ c \in [sid : Streams, stream : Nat, conn : Nat]
          /\ c.conn <= conn_recv_limit /\ c.stream <= recv_limit[c.sid]
      BY <2>1 DEF IndInv, TypeOK, LimitsOK
    <3>. QED
      BY <3>1, <1>11 DEF IndInv, TypeOK
  <2>2. CASE c = credit(n)
    <3>1. recv_limit'[s] = limit(n)
      BY <1>1, <1>2 DEF IndInv, TypeOK
    <3>2. c.sid = s /\ c.stream \in {0, limit(n)} /\ c.conn \in {0, connLim(n)}
      BY <2>2 DEF credit, NoCredit
    <3>3. c \in [sid : Streams, stream : Nat, conn : Nat]
      BY <2>2, <1>2, <1>9, <1>10 DEF credit, NoCredit
    <3>. QED
      BY <1>1, <1>9, <1>10, <3>1, <3>2, <3>3
  <2>. QED
    BY <1>1, <2>1, <2>2
<1>. QED
  BY <1>1, <1>2, <1>4, <1>5, <1>6, <1>11, <1>12, <1>13 DEF have, s

LEMMA DeliverDataInd ==
  ASSUME IndInv, NEW f \in data_net, DeliverData(f)
  PROVE  IndInv'
<1>1. ~ ReceiveFails(f) /\ recv_map \cup BytesOf(f.sid, f.start, f.end) \subseteq Prefix(send_offset)
  BY FrameFits
<1>2. /\ ReceiveStream(f) /\ receive_error' = FALSE
      /\ data_net' \subseteq data_net
      /\ UNCHANGED senderVars
  BY <1>1 DEF DeliverData, Leave
<1>3. /\ recv_map' = recv_map \cup BytesOf(f.sid, f.start, f.end)
      /\ recv_map' \subseteq Streams \X Nat
      /\ app_consumed' \in [Streams -> Nat]
      /\ conn_highest' = Cardinality(recv_map') /\ conn_highest' \in Nat
      /\ highest' \in [Streams -> Nat]
      /\ \A s \in Streams : BytesOf(s, 0, app_consumed'[s]) \subseteq recv_map'
      /\ \A s \in Streams, n \in Nat : <<s, n>> \in recv_map' => n < highest'[s]
      /\ conn_recv_limit' \in Nat /\ conn_recv_limit <= conn_recv_limit'
      /\ recv_limit' \in [Streams -> Nat]
      /\ \A s \in Streams : recv_limit[s] <= recv_limit'[s]
      /\ WindowKept'
      /\ credit_net' \subseteq [sid : Streams, stream : Nat, conn : Nat]
      /\ \A c \in credit_net' : c.conn <= conn_recv_limit' /\ c.stream <= recv_limit'[c.sid]
  BY <1>2, ReceiveStreamInd
<1>4. TypeOK'
  <2>1. faults' \in [dup : Nat, drop : Nat]
    BY DEF IndInv, TypeOK, DeliverData, Leave
  <2>. QED
    BY <1>2, <1>3, <2>1 DEF IndInv, TypeOK, senderVars
<1>5. LimitsOK'
  BY <1>2, <1>3 DEF IndInv, TypeOK, LimitsOK, senderVars
<1>6. SentOK'
  BY <1>2 DEF IndInv, SentOK, senderVars
<1>7. ReceivedOK'
  BY <1>1, <1>2, <1>3 DEF ReceivedOK, senderVars
<1>8. NeverOverLimit' /\ CountedOnce' /\ BlockedIsCurrent'
  BY <1>2, <1>3 DEF IndInv, NeverOverLimit, CountedOnce, BlockedIsCurrent, senderVars
<1>. QED
  BY <1>3, <1>4, <1>5, <1>6, <1>7, <1>8 DEF IndInv

-----------------------------------------------------------------------------
LEMMA NextInd ==
  ASSUME IndInv, [Next]_vars
  PROVE  IndInv'
<1>1. CASE SendBlocked
  BY <1>1, SendBlockedInd
<1>2. CASE FindBlocked
  BY <1>2, FindBlockedInd
<1>3. ASSUME NEW s \in Streams, SendNew(s) PROVE IndInv'
  BY <1>3, SendNewInd
<1>4. ASSUME NEW f \in data_net, DeliverData(f) PROVE IndInv'
  BY <1>4, DeliverDataInd
<1>5. ASSUME NEW c \in credit_net, DeliverCredit(c) PROVE IndInv'
  BY <1>5, DeliverCreditInd
<1>6. ASSUME NEW c \in credit_net, DropCredit(c) PROVE IndInv'
  BY <1>6, DropCreditInd
<1>7. CASE UNCHANGED vars
  <2>1. UNCHANGED <<senderVars, receiverVars, netVars>>
    BY <1>7 DEF vars
  <2>2. TypeOK' /\ BlockedIsCurrent'
    BY <2>1 DEF IndInv, TypeOK, BlockedIsCurrent, senderVars, receiverVars, netVars
  <2>3. /\ LimitsOK' /\ SentOK' /\ ReceivedOK' /\ NeverOverLimit' /\ WindowKept' /\ CountedOnce'
    BY <2>1 DEF IndInv, LimitsOK, SentOK, ReceivedOK, NeverOverLimit, WindowKept, CountedOnce,
                senderVars, receiverVars, netVars
  <2>. QED
    BY <2>2, <2>3 DEF IndInv
<1>. QED
  BY <1>1, <1>2, <1>3, <1>4, <1>5, <1>6, <1>7
     DEF Next, SenderStep, DataStep, CreditStep, LossStep, Poll

\* The inductive invariant holds in every run.
THEOREM Invariance ==
  ASSUME WindowsFit
  PROVE  Spec => []IndInv
<1>1. Init => IndInv
  BY InitInd
<1>2. IndInv /\ [Next]_vars => IndInv'
  BY NextInd
<1>. QED
  BY <1>1, <1>2, PTL DEF Spec

\* The variables keep their types and no stream is sent beyond its end
\* (ai_quic_conn_append_new_stream_frame, ai_quic_conn_on_stream).
THEOREM TypeCorrect ==
  ASSUME WindowsFit
  PROVE  Spec => []TypeOK
<1>1. IndInv => TypeOK
  BY DEF IndInv
<1>. QED
  BY <1>1, Invariance, PTL

\* A sender that respects the limits it was given never has a frame refused
\* (ai_quic_conn_on_stream), whatever is late, repeated or overtaken.
THEOREM NeverRefused ==
  ASSUME WindowsFit
  PROVE  Spec => []NeverOverLimit
<1>1. IndInv => NeverOverLimit
  BY DEF IndInv
<1>. QED
  BY <1>1, Invariance, PTL

\* After every handler both kinds of window have room above what has arrived and
\* do not run away (ai_quic_stream_maybe_schedule_recv_window,
\* ai_quic_conn_maybe_schedule_max_data).
THEOREM WindowsKept ==
  ASSUME WindowsFit
  PROVE  Spec => []WindowKept
<1>1. IndInv => WindowKept
  BY DEF IndInv
<1>. QED
  BY <1>1, Invariance, PTL

\* Connection credit is used once per byte (ai_quic_conn_on_stream).
THEOREM ChargedOnce ==
  ASSUME WindowsFit
  PROVE  Spec => []CountedOnce
<1>1. IndInv => CountedOnce
  BY DEF IndInv
<1>. QED
  BY <1>1, Invariance, PTL

\* A BLOCKED frame that is due names the limit that is in force
\* (ai_quic_conn_append_control_frames).
THEOREM BlockedCurrent ==
  ASSUME WindowsFit
  PROVE  Spec => []BlockedIsCurrent
<1>1. IndInv => BlockedIsCurrent
  BY DEF IndInv
<1>. QED
  BY <1>1, Invariance, PTL
=============================================================================
