---------------------------- MODULE MCNornLookup ----------------------------
(* Instances of NornLookup for TLC. *)
EXTENDS NornLookup

\* The node at address a has identifier a - 1: address 1 is the target's.
Home(i) == [id |-> i, addr |-> i + 1]
Homes(S) == {Home(i) : i \in S}
AllLive == [a \in Addr |-> a - 1]

\* Each node knows the next closer one; everybody knows everybody; the farthest node
\* knows everybody and the others only it.
Chain == [a \in Addr |-> IF a = 1 THEN {} ELSE Homes({a - 2})]
Mesh == [a \in Addr |-> Homes(Id \ {a - 1})]
Star == [a \in Addr |-> IF a = 5 THEN Homes(Id \ {4}) ELSE Homes({4})]

Tables == {<<Home(2)>>, <<Home(3), Home(4)>>, <<Home(4), Home(1)>>, <<Home(2), Home(1), Home(3)>>}

\* The records of addresses 1 to 5.
Holdings == {<<0, 0, 0, 0, 0>>, <<2, 1, 0, 0, 0>>, <<0, 1, 0, 0, 2>>, <<0, 0, 1, 2, 0>>}

Steady ==
  {[table |-> t, pref |-> p, live |-> AllLive, knows |-> k, holds |-> h, own |-> FALSE] :
     t \in Tables, p \in {{}, {3, 4}}, k \in {Chain, Mesh, Star}, h \in Holdings}

\* The target moved from address 4 to address 1, where some still look for it; node 3
\* is gone, and another node has taken over address 5 of node 4.
Moved ==
  [table |-> <<[id |-> 4, addr |-> 5], Home(2)>>, pref |-> {},
   live |-> [AllLive EXCEPT ![4] = None, ![5] = 1],
   knows |-> [a \in Addr |-> IF a = 5 THEN {[id |-> 0, addr |-> 4], [id |-> 1, addr |-> 5]}
                             ELSE Homes({0, 1, 2})],
   holds |-> <<0, 0, 0, 0, 0>>, own |-> TRUE]

\* A node that knows nobody yet.
Alone == [Moved EXCEPT !.table = <<>>]

AllOverlays == Steady \cup {Moved, Alone}
=============================================================================
