---------------------------- MODULE MCNornPeers ----------------------------
(***************************************************************************)
(* One run for what happens between nodes: hole punching and what it rests *)
(* on (NornNat), the handshake, the routing of packets and the streams     *)
(* (NornSession), and claims in the cluster's store (NornCluster).  The    *)
(* modules share no variable, so a state of one is reached whatever the    *)
(* others do; a behaviour therefore moves one part, chosen at the start,   *)
(* and leaves the others where they began.                                 *)
(***************************************************************************)
EXTENDS NornSession, NornNat, NornCluster

VARIABLE part

\* A node that can be dialled, one that helps others, and one that can do nothing.
SomeCaps == {{"direct"}, {"rendezvous", "relay"}, {}}

PeersInit == Init /\ NatInit /\ ClusterInit /\ part \in {"session", "nat", "claims"}

PeersNext ==
  /\ UNCHANGED part
  /\ \/ part = "session" /\ Next /\ UNCHANGED <<natVars, clusterVars>>
     \/ part = "nat" /\ NatNext /\ UNCHANGED <<vars, clusterVars>>
     \/ part = "claims" /\ ClaimNext /\ UNCHANGED <<vars, natVars>>

PeersSpec == PeersInit /\ [][PeersNext]_<<part, vars, natVars, clusterVars>>
=============================================================================
