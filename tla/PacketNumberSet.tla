--------------------------- MODULE PacketNumberSet ---------------------------
(***************************************************************************)
(* The received packet numbers of a packet-number space (pn_space.c) and   *)
(* what an ACK frame says of them (ack.c), as sets.  AckRanges.tla holds   *)
(* the arrays and is checked to implement these operators.                 *)
(***************************************************************************)
EXTENDS Integers, FiniteSets, RangeSet

\* The lowest run of S: what the last slot of the array holds.
LowestRun(S) == {x \in S : \A y \in 0 .. x : y \in S \/ \A z \in S : y < z}

\* ai_quic_pn_space_on_packet_received: with all cap slots in use the lowest
\* range gives way to a higher number, even when that number would only have
\* extended a range that is there.
RecordPn(S, n, cap) ==
  IF n \in S THEN S
  ELSE IF RangeCount(S) < cap THEN S \cup {n}
  ELSE IF \A x \in S : n < x THEN S
  ELSE (S \ LowestRun(S)) \cup {n}

\* ai_quic_build_ack_frame: the highest range and the next "more" ones.
AckedBy(S, more) ==
  {x \in S : Cardinality({r \in RunStarts(S) : x < r}) <= more}
=============================================================================
