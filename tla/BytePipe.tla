------------------------------ MODULE BytePipe ------------------------------
(***************************************************************************)
(* What stream.h promises the two applications at the ends of a stream: in *)
(* each direction the bytes written come out in order, each once, and the  *)
(* end of the stream is reported after the last of them.  Byte i of a      *)
(* direction is the number i.                                              *)
(***************************************************************************)
EXTENDS Naturals, Sequences

CONSTANTS
  End,      \* the two ends
  Peer(_)   \* the other one

VARIABLES
  written,  \* written[e]: bytes e has written
  finished, \* finished[e]: e has closed its direction
  received, \* received[e]: the bytes handed to e, in order
  ended     \* ended[e]: e has been told that its peer's direction is over

vars == <<written, finished, received, ended>>

Init ==
  /\ written = [e \in End |-> 0]
  /\ finished = [e \in End |-> FALSE]
  /\ received = [e \in End |-> <<>>]
  /\ ended = [e \in End |-> FALSE]

Write(e) ==
  /\ ~finished[e]
  /\ written'[e] > written[e]
  /\ written' = [written EXCEPT ![e] = written'[e]]
  /\ UNCHANGED <<finished, received, ended>>

Finish(e) ==
  /\ finished' = [finished EXCEPT ![e] = TRUE]
  /\ UNCHANGED <<written, received, ended>>

\* e is handed the next bytes, none of them if only the end is reported.
Deliver(e) ==
  /\ \E n \in Len(received[e])..written[Peer(e)] :
       received' = [received EXCEPT ![e] = [i \in 1..n |-> i]]
  /\ \/ UNCHANGED ended
     \/ /\ finished[Peer(e)] /\ Len(received'[e]) = written[Peer(e)]
        /\ ended' = [ended EXCEPT ![e] = TRUE]
  /\ UNCHANGED <<written, finished>>

Next == \E e \in End : Write(e) \/ Finish(e) \/ Deliver(e)

Spec == Init /\ [][Next]_vars
=============================================================================
