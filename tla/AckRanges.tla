------------------------------ MODULE AckRanges ------------------------------
(***************************************************************************)
(* The packet numbers an endpoint has received, as the array of closed     *)
(* ranges of pn_space.c, highest first; the ACK frame ack.c builds from    *)
(* it; and the walk by which loss.c asks the decoded frame for a number.   *)
(* Packets arrive in any order and any number of times, with the low bytes *)
(* of their numbers, which PacketNumber decodes.                           *)
(***************************************************************************)
EXTENDS Integers, Sequences, SequencesExt, PacketNumberSet, PacketNumber

CONSTANTS
  MaxPn,              \* bound: the packet numbers are 0 .. MaxPn
  MaxReceivedRanges,  \* AI_QUIC_MAX_TRACKED_ACK_RANGES
  MaxAckRanges        \* AI_QUIC_MAX_ACK_RANGES

ASSUME AckRangesAssumption ==
  /\ MaxPn \in Nat /\ MaxPn + Window < PnLimit
  /\ MaxReceivedRanges \in Nat \ {0} /\ MaxAckRanges \in Nat

VARIABLES
  received_ranges,  \* space->received_ranges[0 .. received_range_count - 1]
  largest_received, \* space->largest_received_packet_number, NonePn at first
  arrived           \* history: every number a packet has arrived with

ackVars == <<received_ranges, largest_received, arrived>>

PacketNumbers == 0 .. MaxPn
Numbers(r) == r.start .. r.end
NumbersIn(set) == UNION {Numbers(set[i]) : i \in DOMAIN set}

------------------------------------------------------------------------------
\* A slip: only overlapping ranges are merged.
AbsorbOverlapping(done, low) ==
  IF done = <<>> \/ low.end < Last(done).start THEN Append(done, low)
  ELSE Front(done) \o <<[start |-> low.start, end |-> Last(done).end]>>

\* A range that overlaps or touches the one above is absorbed by it.
Absorb(done, low) ==
  IF done = <<>> \/ low.end + 1 < Last(done).start THEN Append(done, low)
  ELSE LET high == Last(done)
       IN  Front(done) \o
             <<[start |-> IF low.start < high.start THEN low.start ELSE high.start,
                end   |-> IF low.end > high.end THEN low.end ELSE high.end]>>

\* ai_quic_pn_space_merge_ranges, from the highest range down.
MergeRanges(set) ==
  LET merged[i \in 0 .. Len(set)] ==
        IF i = 0 THEN <<>> ELSE Absorb(merged[i - 1], set[i])
  IN  merged[Len(set)]

\* A slip: a new range stays in the last slot.
AppendNumber(set, n) == Append(set, [start |-> n, end |-> n])

\* A new range of one number bubbles up from the last slot.
InsertNumber(set, n) ==
  LET above == Cardinality({i \in DOMAIN set : set[i].start >= n})
  IN  [i \in 1 .. Len(set) + 1 |->
         IF i <= above THEN set[i]
         ELSE IF i = above + 1 THEN [start |-> n, end |-> n] ELSE set[i - 1]]

\* A slip: the lowest range is kept, the new one is lost.
KeepLowest(set) == IF Len(set) < MaxReceivedRanges THEN set ELSE Tail(set)

\* The slots that stay: with none free the last one, the lowest range, is
\* overwritten.
KeptRanges(set) == IF Len(set) < MaxReceivedRanges THEN set ELSE Front(set)

\* ai_quic_pn_space_on_packet_received
OnPacketReceived(n) ==
  /\ largest_received' = IF n > largest_received THEN n ELSE largest_received
  /\ arrived' = arrived \cup {n}
  /\ received_ranges' =
       IF \/ n \in NumbersIn(received_ranges)
          \/ /\ Len(received_ranges) >= MaxReceivedRanges
             /\ n <= Last(received_ranges).start
       THEN received_ranges
       ELSE MergeRanges(InsertNumber(KeptRanges(received_ranges), n))

------------------------------------------------------------------------------
\* ai_quic_build_ack_frame: the first range, then gap and length of each further
\* one.  A pair of touching ranges is passed over by a "continue" that leaves its
\* slot of the frame as it was, zero.
BuildAckFrame ==
  LET n        == Len(received_ranges) - 1
      slots    == IF n < MaxAckRanges THEN n ELSE MaxAckRanges
      prev(i)  == received_ranges[i]
      curr(i)  == received_ranges[i + 1]
      apart(i) == prev(i).start > curr(i).end + 1
      slot(i)  == IF apart(i)
                  THEN [gap |-> prev(i).start - curr(i).end - 2,
                        ack_range |-> curr(i).end - curr(i).start]
                  ELSE [gap |-> 0, ack_range |-> 0]
      count    == Cardinality({i \in 1 .. slots : apart(i)})
  IN  [largest_acked   |-> received_ranges[1].end,
       first_ack_range |-> received_ranges[1].end - received_ranges[1].start,
       ack_ranges      |-> [i \in 1 .. count |-> slot(i)]]

\* A slip: the gap is read with an offset of one.
EndBelowGapOne(start, gap) == start - gap - 1

\* ai_quic_ack_frame_contains: the walk down the frame, which stops at the first
\* range that would pass below zero.
EndBelow(start, gap) == start - gap - 2

AckWalk(frame) ==
  LET walk[i \in 0 .. Len(frame.ack_ranges)] ==
        IF i = 0 THEN [start |-> frame.largest_acked - frame.first_ack_range,
                       end   |-> frame.largest_acked]
        ELSE LET end == EndBelow(walk[i - 1].start, frame.ack_ranges[i].gap)
             IN  [start |-> end - frame.ack_ranges[i].ack_range, end |-> end]
  IN  walk

AckFrameContains(frame, n) ==
  \E i \in 0 .. Len(frame.ack_ranges) :
    /\ n \in Numbers(AckWalk(frame)[i])
    /\ \A j \in 0 .. i : AckWalk(frame)[j].start >= 0

PnInit == received_ranges = <<>> /\ largest_received = NonePn /\ arrived = {}

\* ai_quic_packet_decode_conn: a packet opens only if its number is recovered
\* (the number is part of what the AEAD nonce and header authenticate); one that
\* does not open ends the endpoint.
Arrives(n) ==
  /\ Decode(largest_received, Truncated(n)) = n
  /\ OnPacketReceived(n)

PnNext == \E n \in PacketNumbers : Arrives(n)

PnSpec == PnInit /\ [][PnNext]_ackVars

------------------------------------------------------------------------------
Acked == IF received_ranges = <<>> THEN {}
         ELSE {n \in PacketNumbers : AckFrameContains(BuildAckFrame, n)}

\* The array is sorted downwards and has a number missing between any two
\* ranges, so the "continue" of build_ack_frame is never taken.
NumbersWF ==
  /\ Len(received_ranges) <= MaxReceivedRanges
  /\ \A i \in DOMAIN received_ranges : received_ranges[i].start <= received_ranges[i].end
  /\ \A i \in 1 .. Len(received_ranges) - 1 :
       received_ranges[i + 1].end + 1 < received_ranges[i].start

\* The peer never reads a number out of the frame that has not arrived here,
\* whatever has been evicted and however many ranges the frame leaves out.
AckSound == Acked \subseteq arrived

\* What the peer reads out of the frame is what AckedBy says of the array.
AckMeansRanges == Acked = AckedBy(NumbersIn(received_ranges), MaxAckRanges)

\* Eviction never costs the newest packet: the frame's largest number is the
\* largest that has arrived, which is what RTT and loss detection start from.
LargestIsReported ==
  arrived # {} =>
    /\ BuildAckFrame.largest_acked = largest_received
    /\ largest_received \in arrived /\ \A n \in arrived : n <= largest_received

\* Whatever has arrived in whatever order, a packet whose number is within half
\* a window of the next expected one is not mistaken for another and lost
\* (ai_quic_decode_packet_number_value).
NumbersRecovered ==
  \A n \in 0 .. MaxPn + HalfWindow :
    Nearest(largest_received, n) => Decode(largest_received, Truncated(n)) = n

\* The array implements the set of PacketNumberSet.
RecordsLikeSet ==
  \E n \in arrived' : NumbersIn(received_ranges') =
                        RecordPn(NumbersIn(received_ranges), n, MaxReceivedRanges)
ImplementsPnSet == [][RecordsLikeSet]_ackVars
=============================================================================
