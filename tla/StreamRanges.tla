---------------------------- MODULE StreamRanges ----------------------------
(***************************************************************************)
(* The two range sets of a stream as sets of offsets, driven by the calls  *)
(* stream.c offers to loss recovery: what RangeList.tla implements with    *)
(* arrays, and what StreamSender.tla takes for the whole of the code.      *)
(***************************************************************************)
EXTENDS RangeSet

CONSTANTS
  Length,      \* bytes of the stream
  MaxRanges,   \* AI_QUIC_MAX_TRACKED_STREAM_RANGES
  ChunkLen     \* AI_QUIC_MAX_STREAM_SEND_CHUNK_LEN

VARIABLES acked, lost

setVars == <<acked, lost>>

RangesInit == acked = {} /\ lost = {}

\* ai_quic_stream_mark_acked(start, end)
MarkAcked(a, b) ==
  IF RangeInsertFits(acked, Span(a, b), MaxRanges)
  THEN /\ acked' = acked \cup Span(a, b)
       /\ lost' = RangeRemove(lost, a, b, MaxRanges)
  ELSE UNCHANGED setVars

\* ai_quic_stream_mark_lost(start, end)
MarkLost(a, b) ==
  /\ lost' = RangeInsertRuns(lost, Span(a, b) \ acked, MaxRanges)
  /\ UNCHANGED acked

\* ai_quic_stream_pop_lost_range
PopLost(a, b) ==
  /\ FrontOf(lost, ChunkLen, a, b)
  /\ lost' = RangeRemove(lost, a, b, MaxRanges)
  /\ UNCHANGED acked

RangesNext ==
  \E a \in 0 .. Length : \E b \in a .. Length :
    MarkAcked(a, b) \/ MarkLost(a, b) \/ PopLost(a, b)

RangesSpec == RangesInit /\ [][RangesNext]_setVars
=============================================================================
