------------------------------ MODULE RangeSet ------------------------------
(***************************************************************************)
(* The bounded list of disjoint, non-adjacent half-open byte ranges of     *)
(* transport/stream.c (ai_quic_stream_range_set_t), as the set of offsets  *)
(* it covers.  A list of merged ranges and the set it covers determine     *)
(* each other: the ranges are the maximal runs of the set, so the number   *)
(* of slots in use is the number of run starts.  RangeList.tla holds the   *)
(* array version with the loops of the C code and checks the               *)
(* correspondence.                                                         *)
(***************************************************************************)
EXTENDS Integers, FiniteSets

\* The bytes of the half-open range [a, b).
Span(a, b) == a .. (b - 1)

\* The offsets at which a range of S starts: x is in S and x - 1 is not.
RunStarts(S) == {x \in S : \A y \in S : y + 1 # x}

\* set->count: the number of maximal runs.
RangeCount(S) == Cardinality(RunStarts(S))

\* The front of the set, as ai_quic_stream_pop_lost_range takes it: the lowest
\* offset, and as much of its range as fits into len bytes.
FrontOf(S, len, a, b) ==
  /\ a \in S /\ \A x \in S : a <= x
  /\ a < b /\ b <= a + len
  /\ Span(a, b) \subseteq S
  /\ b = a + len \/ b \notin S

\* ai_quic_stream_range_insert returns OK: either the range touches one that is
\* there, or there is a free slot; both mean the result fits into cap ranges.
RangeInsertFits(S, new, cap) == RangeCount(S \cup new) <= cap

\* ai_quic_stream_range_insert: the merge, or no change when no slot is free.
RangeInsert(S, new, cap) ==
  IF RangeInsertFits(S, new, cap) THEN S \cup new ELSE S

\* A slip: the last byte of the range stays.
RangeRemoveShort(S, a, b, cap) == S \ Span(a, b - 1)

\* A slip: the byte after the range goes too.
RangeRemoveLong(S, a, b, cap) == S \ Span(a, b + 1)

\* ai_quic_stream_range_remove of [a, b): a removal strictly inside one range
\* needs a second slot; with none free the code keeps the left part only.
RangeRemove(S, a, b, cap) ==
  LET kept  == S \ Span(a, b)
      tail  == {x \in kept : b <= x /\ Span(b, x) \subseteq S}
  IN  IF a < b /\ RangeCount(S) >= cap /\ RangeCount(kept) > RangeCount(S)
      THEN kept \ tail
      ELSE kept

\* The runs of new whose insertion, after the runs below them, does not fit.
Misfits(S, new, cap) ==
  {r \in RunStarts(new) :
     ~ RangeInsertFits(S, {x \in new : x <= r \/ Span(r, x) \subseteq new}, cap)}

\* Inserting the runs of new in ascending order until one fails, which is how
\* ai_quic_stream_mark_lost walks the gaps between the acknowledged ranges.
RangeInsertRuns(S, new, cap) ==
  S \cup {x \in new : \A r \in Misfits(S, new, cap) : x < r}
=============================================================================
