----------------------------- MODULE MCNornRaft -----------------------------
(* Instances of NornRaft for TLC. *)
EXTENDS NornRaft, TLC

\* Sound everywhere: no action and no property tells two candidates apart.
CandidateSymmetry == Permutations(Candidates)

\* The state without the fields that are written before they are read again:
\* flags of a node that is no candidate (start_election resets them), replication
\* bookkeeping of a node that does not lead (become_leader initialises it), the
\* leader a node has in mind (raft_leader only reports it) and the vote history.
LiveState ==
  <<termVars, role, in_pre_vote, heard, logVars, memberVars, msgs, leaders,
    [n \in Node |-> IF role[n] = "candidate" THEN vote_granted[n] ELSE {}],
    [n \in Node |-> IF role[n] = "leader"
                    THEN <<next_index[n], match_index[n]>> ELSE <<>>]>>

\* A coarser view for the search for a counterexample, which is real whatever the
\* view: states that differ in their votes and acknowledgements alone are not told
\* apart.
ReplicaState ==
  <<current_term, role, in_pre_vote, heard, log, commit_index, msgs,
    [n \in Node |-> IF role[n] = "leader" THEN next_index[n] ELSE <<>>]>>
=============================================================================
