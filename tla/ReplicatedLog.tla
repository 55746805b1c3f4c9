---------------------------- MODULE ReplicatedLog ----------------------------
(***************************************************************************)
(* What the consensus core promises the state machines above it            *)
(* (raft_io_t.apply): there is one sequence of entries, it only grows, and *)
(* every node is handed that sequence from its start, without gaps,        *)
(* repetitions or changes, each node at its own pace.                      *)
(***************************************************************************)
EXTENDS Naturals, Sequences

CONSTANT Node

VARIABLES
  chosen,    \* the sequence of entries
  delivered  \* delivered[n]: what node n has been handed so far

IsExtension(s, t) == Len(s) <= Len(t) /\ SubSeq(t, 1, Len(s)) = s

Init ==
  /\ chosen = <<>>
  /\ delivered = [n \in Node |-> <<>>]

\* Node n is handed its next entries; the sequence grows if they are new to all.
Deliver(n) ==
  LET now == delivered'[n]
  IN  /\ delivered' = [delivered EXCEPT ![n] = now]
      /\ IsExtension(delivered[n], now) /\ IsExtension(now, chosen')
      /\ IsExtension(chosen, chosen')
      /\ Len(chosen') = IF Len(now) > Len(chosen) THEN Len(now) ELSE Len(chosen)

Next == \E n \in Node : Deliver(n)

Spec == Init /\ [][Next]_<<chosen, delivered>>
=============================================================================
