--------------------------- MODULE MCNornMainline ---------------------------
(* Instances of NornMainline for TLC. *)
EXTENDS NornMainline

\* Addresses 1 and 2 share a subnet.
Nets == [ip \in Ip |-> IF ip = 2 THEN 1 ELSE ip]

Node(id, ip, info, ro) == [id |-> id, ip |-> ip, info |-> info, ro |-> ro]

\* A norn node, a stranger in its subnet that is also told of, and writes as a
\* read-only node, from another address, and a node of our application.
Crowded == {Node("n", 1, "norn", FALSE), Node("s", 2, "none", FALSE),
            Node("s", 3, "other", TRUE), Node("o", 4, "ours", FALSE)}

\* Two versions of a signed record, and an immutable one.
Signed == {[target |-> "m", seq |-> 1, len |-> 1], [target |-> "m", seq |-> 2, len |-> 2],
           [target |-> "i", seq |-> 0, len |-> 2]}
=============================================================================
