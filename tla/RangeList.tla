------------------------------ MODULE RangeList ------------------------------
(***************************************************************************)
(* ai_quic_stream_range_set_t as the code keeps it: an array of half-open  *)
(* ranges with a count, edited in place.  The loops of range_insert,       *)
(* range_remove and mark_lost are functions over array indices; the state  *)
(* machine calls them the way loss recovery does, with any range of the    *)
(* stream in any order, and is checked to implement StreamRanges.          *)
(***************************************************************************)
EXTENDS Integers, Sequences

CONSTANTS
  Length,      \* bytes of the stream
  MaxRanges,   \* AI_QUIC_MAX_TRACKED_STREAM_RANGES
  ChunkLen     \* AI_QUIC_MAX_STREAM_SEND_CHUNK_LEN

ASSUME RangeListAssumption ==
  Length \in Nat /\ MaxRanges \in Nat \ {0} /\ ChunkLen \in Nat \ {0}

VARIABLES acked_ranges, lost_ranges

rangeVars == <<acked_ranges, lost_ranges>>

Offsets == 0 .. Length
RangeOf(a, b) == [start |-> a, end |-> b]
Lower(x, y) == IF x < y THEN x ELSE y
Higher(x, y) == IF x > y THEN x ELSE y

------------------------------------------------------------------------------
\* A slip: ranges that only touch are kept apart.
SkipStrict(set, a) ==
  CHOOSE i \in 1 .. Len(set) + 1 :
    /\ i > Len(set) \/ set[i].end > a
    /\ \A j \in 1 .. i - 1 : set[j].end <= a

\* The first index whose range does not end before offset a: two ranges that only
\* touch are not separate.
SkipTo(set, a) ==
  CHOOSE i \in 1 .. Len(set) + 1 :
    /\ i > Len(set) \/ set[i].end >= a
    /\ \A j \in 1 .. i - 1 : set[j].end < a

\* [start, end) after absorbing the n ranges from index on.
Absorbed(set, index, a, b) ==
  LET grow[n \in 0 .. Len(set) + 1 - index] ==
        IF n = 0 THEN RangeOf(a, b)
        ELSE RangeOf(Lower(grow[n - 1].start, set[index + n - 1].start),
                     Higher(grow[n - 1].end, set[index + n - 1].end))
  IN  grow

\* remove_count: the ranges from index on that start within the growing range.
RemoveCount(set, index, a, b) ==
  LET grow == Absorbed(set, index, a, b)
  IN  CHOOSE n \in DOMAIN grow :
        /\ index + n > Len(set) \/ set[index + n].start > grow[n].end
        /\ \A m \in 0 .. n - 1 : set[index + m].start <= grow[m].end

\* ai_quic_stream_range_insert returns AI_QUIC_OK: a merge needs no slot.
InsertOk(set, a, b) ==
  \/ a >= b
  \/ RemoveCount(set, SkipTo(set, a), a, b) > 0
  \/ Len(set) < MaxRanges

InsertRange(set, a, b) ==
  LET index == SkipTo(set, a)
      n     == RemoveCount(set, index, a, b)
  IN  IF a >= b \/ ~ InsertOk(set, a, b) THEN set
      ELSE SubSeq(set, 1, index - 1) \o <<Absorbed(set, index, a, b)[n]>>
             \o SubSeq(set, index + n, Len(set))

\* A slip: with no slot free the part before a is given up.
PiecesKeepTail(set, r, a, b) ==
  LET left  == IF r.start < a THEN <<RangeOf(r.start, a)>> ELSE <<>>
      right == IF b < r.end THEN <<RangeOf(b, r.end)>> ELSE <<>>
  IN  IF b <= r.start \/ a >= r.end THEN <<r>>
      ELSE IF right # <<>> /\ Len(set) >= MaxRanges THEN right
      ELSE left \o right

\* What ai_quic_stream_range_remove leaves of one range: the part before a, and
\* the part behind b.  The second part needs a slot of its own when there is a
\* first one; with no slot free it is cut off.
Pieces(set, r, a, b) ==
  LET left  == IF r.start < a THEN <<RangeOf(r.start, a)>> ELSE <<>>
      right == IF b < r.end THEN <<RangeOf(b, r.end)>> ELSE <<>>
  IN  IF b <= r.start \/ a >= r.end THEN <<r>>
      ELSE IF left # <<>> /\ Len(set) >= MaxRanges THEN left
      ELSE left \o right

RemoveRange(set, a, b) ==
  LET kept[i \in 0 .. Len(set)] ==
        IF i = 0 THEN <<>> ELSE kept[i - 1] \o Pieces(set, set[i], a, b)
  IN  IF a >= b THEN set ELSE kept[Len(set)]

------------------------------------------------------------------------------
\* The loop of ai_quic_stream_mark_lost: after i acknowledged ranges, the cursor,
\* the lost ranges so far, and whether an insertion has failed.
LostAfter(a, b) ==
  LET walk[i \in 0 .. Len(acked_ranges)] ==
        IF i = 0 THEN [cursor |-> a, lost |-> lost_ranges, ok |-> TRUE]
        ELSE LET w    == walk[i - 1]
                 r    == acked_ranges[i]
                 stop == Lower(r.start, b)
             IN  IF ~ w.ok \/ w.cursor >= b \/ r.end <= w.cursor \/ r.start >= b THEN w
                 ELSE IF r.start > w.cursor /\ ~ InsertOk(w.lost, w.cursor, stop)
                 THEN [w EXCEPT !.ok = FALSE]
                 ELSE [w EXCEPT !.cursor = Higher(@, r.end),
                                !.lost = IF r.start > w.cursor
                                         THEN InsertRange(@, w.cursor, stop) ELSE @]
  IN  walk[Len(acked_ranges)]

MarkAcked(a, b) ==
  IF InsertOk(acked_ranges, a, b)
  THEN /\ acked_ranges' = InsertRange(acked_ranges, a, b)
       /\ lost_ranges' = RemoveRange(lost_ranges, a, b)
  ELSE UNCHANGED rangeVars

\* A slip: acknowledged bytes are marked lost again.
MarkLostIgnoringAcked(a, b) ==
  lost_ranges' = InsertRange(lost_ranges, a, b) /\ UNCHANGED acked_ranges

MarkLost(a, b) ==
  LET w == LostAfter(a, b)
  IN  /\ lost_ranges' = IF w.ok THEN InsertRange(w.lost, w.cursor, b) ELSE w.lost
      /\ UNCHANGED acked_ranges

\* ai_quic_stream_pop_lost_range: at most ChunkLen bytes of the first range.
PopLost ==
  /\ lost_ranges # <<>>
  /\ LET r == lost_ranges[1]
     IN  lost_ranges' = RemoveRange(lost_ranges, r.start, Lower(r.start + ChunkLen, r.end))
  /\ UNCHANGED acked_ranges

Init == acked_ranges = <<>> /\ lost_ranges = <<>>

Next ==
  \/ \E a \in Offsets : \E b \in a .. Length : MarkAcked(a, b) \/ MarkLost(a, b)
  \/ PopLost

Spec == Init /\ [][Next]_rangeVars

------------------------------------------------------------------------------
Covered(set) == UNION {set[i].start .. (set[i].end - 1) : i \in DOMAIN set}

\* The arrays never outgrow their slots and stay sorted, with a gap between any
\* two ranges, which is what lets the loops stop at the first range beyond.
RangesWF ==
  \A set \in {acked_ranges, lost_ranges} :
    /\ Len(set) <= MaxRanges
    /\ \A i \in DOMAIN set : set[i].start < set[i].end
    /\ \A i \in 1 .. Len(set) - 1 : set[i].end < set[i + 1].start

\* No offset is both acknowledged and waiting for retransmission, even when an
\* acknowledgement or a loss finds its table full.
LostNotAcked == Covered(lost_ranges) \cap Covered(acked_ranges) = {}

\* The array version implements the sets that StreamSender works with.
Sets == INSTANCE StreamRanges WITH
          acked <- Covered(acked_ranges), lost <- Covered(lost_ranges)

ImplementsSets == Sets!RangesSpec
=============================================================================
