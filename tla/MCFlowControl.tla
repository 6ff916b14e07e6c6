--------------------------- MODULE MCFlowControl ---------------------------
EXTENDS FlowControl, TLC

\* One file of more than a window, and an empty one.
MCSendLen == (0 :> 9 @@ 1 :> 0)

\* Two files that compete for the connection's credit.
MCSendLenTwo == (0 :> 10 @@ 1 :> 3)
=============================================================================
