----------------------------- MODULE PacketNumber -----------------------------
(***************************************************************************)
(* The packet number on the wire (packet_codec.c).  The encoder writes the *)
(* low four bytes of it, the decoder reads one to four, and takes the full *)
(* number nearest to the one it expects next.                              *)
(***************************************************************************)
EXTENDS Integers

CONSTANTS
  Window,   \* 2^pn_nbits: how many numbers the bytes on the wire tell apart
  PnLimit   \* 2^62: packet numbers are below it

ASSUME WindowAssumption == Window \in Nat \ {0} /\ Window % 2 = 0
ASSUME PnLimitAssumption == PnLimit \in Nat

NonePn == -1     \* UINT64_MAX: nothing has been received in the space

HalfWindow == Window \div 2

\* What the encoder writes of number n.
Truncated(n) == n % Window

\* ai_quic_decode_packet_number_value, the largest number received being given:
\* the number with these low bytes in the window of the expected number, or the
\* one in the window above or below it.
Candidate(largest, truncated) ==
  LET expected == largest + 1 IN (expected - (expected % Window)) + truncated

\* A slip: a candidate half a window below the expected number stays.
DecodeStrictly(largest, truncated) ==
  LET expected  == largest + 1
      candidate == Candidate(largest, truncated)
  IN  IF candidate + HalfWindow < expected /\ candidate < PnLimit - Window
      THEN candidate + Window
      ELSE IF candidate > expected + HalfWindow /\ candidate >= Window
      THEN candidate - Window
      ELSE candidate

Decode(largest, truncated) ==
  LET expected  == largest + 1
      candidate == Candidate(largest, truncated)
  IN  IF candidate + HalfWindow <= expected /\ candidate < PnLimit - Window
      THEN candidate + Window
      ELSE IF candidate > expected + HalfWindow /\ candidate >= Window
      THEN candidate - Window
      ELSE candidate

\* The numbers nearer to the expected one than any other with the same bytes.
Nearest(largest, n) ==
  largest + 1 - HalfWindow < n /\ n <= largest + 1 + HalfWindow
=============================================================================
