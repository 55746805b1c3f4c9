---------------------------- MODULE NornCluster ----------------------------
(***************************************************************************)
(* The clustered key-value store (libnorn/norn_cluster.c over norn_raft.c  *)
(* and norn_kvstore.c) with two of its users: claims of a single-owner key *)
(* by compare-and-set (norn_cluster_kv_cas), and the put and cas requests  *)
(* nornd serves on its socket (nornd/dispatch.c).                          *)
(*                                                                         *)
(* Raft is the ReplicatedLog that NornRaft is checked to implement: a      *)
(* proposal is chosen once or lost, and every node applies what is chosen  *)
(* in order and at its own pace.  What raft_leader reports may be anything *)
(* at any time: several nodes may lead at once, and a node's hint may be   *)
(* stale.  A node leads exactly when the leader it reports is itself.      *)
(***************************************************************************)
EXTENDS KVCommands, Sequences

CONSTANTS
  Node,
  NoNode,
  Lock,        \* the key that is claimed; its values are Empty and the claimant
  Unchecked,   \* the expectation of a write that has none
  MaxSubmits,  \* bound: writes submitted in a behaviour
  RAFT_MAX_LOG \* proposals a log can hold

ASSUME ClusterAssumption ==
  /\ Empty \in Value
  /\ Node \subseteq Value \ {Empty}
  /\ Lock \in Key
  /\ Unchecked \notin Value
  /\ NoNode \notin Node
  /\ MaxSubmits \in Nat /\ RAFT_MAX_LOG \in Nat

VARIABLES
  leader,     \* leader[n]: leader_pub, or NoNode while have_leader is 0
  fwd,        \* FRAME_FWD frames in flight: [to, id, cmd, expect]
  pending,    \* proposals in some leader's log, not chosen yet
  chosen,     \* the replicated log
  done,       \* done[n]: entries of it n has applied
  kv,         \* kv[n]: n's replica
  truth,      \* history: the map after all of chosen
  broken,     \* history: checked writes that took effect on another value
  submits,    \* writes accepted or refused so far
  releasing   \* claimants that gave their claim up and have not seen it end

raftVars == <<leader, pending, chosen, done>>
clusterVars == <<raftVars, fwd, kv, truth, broken, submits, releasing>>

-----------------------------------------------------------------------------
(* norn_cluster.c. *)

\* raft_propose on a leader: refused when the log is full.
Proposes(write) ==
  pending' = IF Len(chosen) + Cardinality(pending) < RAFT_MAX_LOG
             THEN pending \cup {write} ELSE pending

\* raft_role or raft_leader changes, and refresh_leader copies the hint.
LearnLeader(n, l) ==
  /\ leader' = [leader EXCEPT ![n] = l]
  /\ UNCHANGED <<pending, chosen, done, fwd, kv, truth, broken, submits, releasing>>

\* kv_submit returned 0: proposed here, or forwarded to the leader n knows of.
Accepted(n) ==
  /\ leader[n] # NoNode
  /\ leader[n] = n => Len(chosen) + Cardinality(pending) < RAFT_MAX_LOG

\* kv_submit: propose, forward, or fail when no leader is known.
kv_submit(n, cmd, expect) ==
  LET write == [id |-> submits + 1, cmd |-> cmd, expect |-> expect]
      frame == [to |-> leader[n], write |-> write]
  IN  /\ submits < MaxSubmits
      /\ submits' = submits + 1
      /\ IF leader[n] = n THEN Proposes(write) ELSE UNCHANGED pending
      /\ fwd' = IF leader[n] \in {n, NoNode} THEN fwd ELSE fwd \cup {frame}
      /\ UNCHANGED <<leader, chosen, done, kv, truth, broken>>

\* norn_cluster_input of a FRAME_FWD: only a leader proposes it, any other node
\* drops it without a word to the sender.
RecvForward(f) ==
  /\ fwd' = fwd \ {f}
  /\ IF leader[f.to] = f.to THEN Proposes(f.write) ELSE UNCHANGED pending
  /\ UNCHANGED <<leader, chosen, done, kv, truth, broken, submits, releasing>>

\* The transport loses a frame, or a change of leader drops a proposal.
LoseForward(f) ==
  /\ fwd' = fwd \ {f}
  /\ UNCHANGED <<raftVars, kv, truth, broken, submits, releasing>>

LoseProposal(w) ==
  /\ pending' = pending \ {w}
  /\ UNCHANGED <<leader, chosen, done, fwd, kv, truth, broken, submits, releasing>>

\* Raft commits a proposal.
Commit(w) ==
  /\ pending' = pending \ {w}
  /\ chosen' = Append(chosen, w)
  /\ truth' = Do(truth, w.cmd)
  /\ broken' = IF w.expect \notin {Unchecked, Seen(truth, w.cmd.key)}
               THEN broken \cup {w.id} ELSE broken
  /\ UNCHANGED <<leader, done, fwd, kv, submits, releasing>>

\* raft_apply_cb: the next entry reaches n's replica.  A claimant that sees the key
\* in other hands knows that its release is through.
ApplyNext(n) ==
  LET replica == Do(kv[n], chosen[done[n] + 1].cmd)
  IN  /\ done[n] < Len(chosen)
      /\ done' = [done EXCEPT ![n] = @ + 1]
      /\ kv' = [kv EXCEPT ![n] = replica]
      /\ releasing' = IF Seen(replica, Lock) = n THEN releasing ELSE releasing \ {n}
      /\ UNCHANGED <<leader, pending, chosen, fwd, truth, broken, submits>>

ClusterInit ==
  /\ leader = [n \in Node |-> NoNode]
  /\ fwd = {} /\ pending = {} /\ chosen = <<>>
  /\ done = [n \in Node |-> 0]
  /\ kv = [n \in Node |-> EmptyMap]
  /\ truth = EmptyMap
  /\ broken = {} /\ submits = 0 /\ releasing = {}

ClusterNext ==
  \/ \E n \in Node : ApplyNext(n) \/ \E l \in Node \cup {NoNode} : LearnLeader(n, l)
  \/ \E f \in fwd : RecvForward(f) \/ LoseForward(f)
  \/ \E w \in pending : Commit(w) \/ LoseProposal(w)

-----------------------------------------------------------------------------
(* Single-owner claims.  A claimant claims the key when its replica shows it *)
(* free, as often as it likes, and gives it up once per claim it holds.      *)

Claim(n) ==
  /\ Seen(kv[n], Lock) = Empty
  /\ kv_submit(n, CasCmd(Lock, Empty, n), Empty)
  /\ UNCHANGED releasing

Release(n) ==
  /\ Seen(kv[n], Lock) = n /\ n \notin releasing
  /\ kv_submit(n, CasCmd(Lock, n, Empty), n)
  /\ releasing' = IF Accepted(n) THEN releasing \cup {n} ELSE releasing

ClaimNext == ClusterNext \/ \E n \in Node : Claim(n) \/ Release(n)

ClaimSpec == ClusterInit /\ [][ClaimNext]_clusterVars

-----------------------------------------------------------------------------
(* Requests on nornd's socket, served by the node's own dispatch.            *)

\* op "put".
IpcPut(n, k, v) ==
  /\ kv_submit(n, PutCmd(k, v), Unchecked)
  /\ UNCHANGED releasing

\* op "cas": compare with the local replica, then submit a plain put.
IpcCas(n, k, expect, v) ==
  /\ k \in DOMAIN kv[n] /\ kv[n][k] = expect
  /\ kv_submit(n, PutCmd(k, v), expect)
  /\ UNCHANGED releasing

IpcSpec ==
  ClusterInit /\ [][\/ ClusterNext
                    \/ \E n \in Node, v \in Value :
                         \/ IpcPut(n, Lock, v)
                         \/ \E e \in Value : IpcCas(n, Lock, e, v)]_clusterVars

-----------------------------------------------------------------------------
(* Properties. *)

Write == [id : 1..MaxSubmits, cmd : KVCommand, expect : Value \cup {Unchecked}]

\* Types of the cluster's state and of the frames between nodes.
ClusterTypeOK ==
  /\ leader \in [Node -> Node \cup {NoNode}]
  /\ fwd \subseteq [to : Node, write : Write]
  /\ pending \subseteq Write
  /\ \A i \in 1..Len(chosen) : chosen[i] \in Write
  /\ \A n \in Node : done[n] \in 0..Len(chosen)
  /\ \A n \in Node : DOMAIN kv[n] \subseteq Key /\ \A k \in DOMAIN kv[n] : kv[n][k] \in Value
  /\ broken \subseteq 1..MaxSubmits /\ submits \in 0..MaxSubmits
  /\ releasing \subseteq Node

Owns(n) == Seen(kv[n], Lock) = n /\ n \notin releasing

\* Two nodes never hold the claim at once, each going by its own, possibly old,
\* replica and whatever forwards are late or lost: the compare-and-set of
\* norn_kv_apply runs in log order on every replica.
OwnerExclusive == \A n, p \in Node : (Owns(n) /\ Owns(p)) => n = p

\* A compare-and-set takes effect only on the value it was compared with.
CasIsAtomic ==
  \A i \in 1..Len(chosen) : chosen[i].id \in broken => chosen[i].cmd.op = "cas"
=============================================================================
