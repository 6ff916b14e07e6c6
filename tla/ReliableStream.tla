--------------------------- MODULE ReliableStream ---------------------------
(***************************************************************************)
(* What a transfer promises, without packets, losses or acknowledgements:  *)
(* each stream is a pipe of Len[s] bytes.  The sender pushes them in order *)
(* and closes the stream with the last one; the receiver reads, in order,  *)
(* bytes that were pushed, and is finished once it has them all and the    *)
(* end of the stream is known.                                             *)
(***************************************************************************)
EXTENDS Naturals

CONSTANTS Streams, Len

VARIABLES
  sent,      \* [Streams -> Nat]
  closed,    \* [Streams -> BOOLEAN]
  read,      \* [Streams -> Nat]
  finished   \* [Streams -> BOOLEAN]

pipeVars == <<sent, closed, read, finished>>

PipeInit ==
  /\ sent = [s \in Streams |-> 0]
  /\ closed = [s \in Streams |-> FALSE]
  /\ read = [s \in Streams |-> 0]
  /\ finished = [s \in Streams |-> FALSE]

Push(s) ==
  /\ ~ closed[s]
  /\ \E n \in sent[s] .. Len[s] :
       /\ sent' = [sent EXCEPT ![s] = n]
       /\ closed' = [closed EXCEPT ![s] = n = Len[s]]
  /\ UNCHANGED <<read, finished>>

Read(s) ==
  /\ \E n \in read[s] .. sent[s] :
       /\ read' = [read EXCEPT ![s] = n]
       /\ \/ UNCHANGED finished
          \/ /\ closed[s] /\ n = Len[s]
             /\ finished' = [finished EXCEPT ![s] = TRUE]
  /\ UNCHANGED <<sent, closed>>

PipeNext == \E s \in Streams : Push(s) \/ Read(s)

PipeSpec == PipeInit /\ [][PipeNext]_pipeVars
=============================================================================
