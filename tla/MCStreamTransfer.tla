-------------------------- MODULE MCStreamTransfer --------------------------
EXTENDS StreamTransfer, TLC

\* Two full chunks and a last byte.
MCSendLenOne == (0 :> 5)

\* A full chunk and a last byte.
MCSendLenShort == (0 :> 3)

\* A file of two chunks and an empty one.
MCSendLenShortPair == (0 :> 3 @@ 1 :> 0)
=============================================================================
