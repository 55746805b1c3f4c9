------------------------------ MODULE NornRaft ------------------------------
(***************************************************************************)
(* The consensus core of norn (libnorn/norn_raft.c): a Raft state machine  *)
(* with a PreVote round, learners and a candidacy gate, driven by          *)
(* raft_recv, raft_tick and raft_propose.  One raft_t per node; a node's   *)
(* handler is one atomic action, because libnorn is single threaded and    *)
(* the core calls nobody who calls it back.                                *)
(*                                                                         *)
(* Abstractions.  An entry's payload is a member of Command; its index is  *)
(* its position.  Time is what the code compares it with: heard[n] says    *)
(* that election_elapsed is still below election_base_ms.  How much time   *)
(* a tick adds is not modelled, so a non-leader's tick may pass the base,  *)
(* or the whole election timeout, at any moment.                           *)
(*                                                                         *)
(* The network is the set of messages in flight.  Any of the messages a    *)
(* step sends may be lost, a message may stay in flight when it is         *)
(* received and so be received again, and nothing orders the receptions.   *)
(***************************************************************************)
EXTENDS Integers, Sequences, FiniteSets

CONSTANTS
  Node,          \* every raft_t that takes part, voters and learners
  Voters,        \* the members added with role RAFT_VOTER
  Candidates,    \* the voters added with eligible = 1
  Command,       \* application payloads given to raft_propose
  NOOP,          \* payload of a RAFT_ENTRY_NOOP
  NoNode,        \* RAFT_NO_NODE
  RAFT_MAX_LOG,  \* entries a log can hold
  RAFT_MAX_BATCH,\* entries one AppendEntries carries
  MaxTerm,       \* bound: no node stands for election at this term
  MaxInFlight,   \* bound: messages in flight at once; the others are lost
  StaleReplies   \* kinds of outlived replies the network may still deliver

ASSUME NodeAssumption ==
  /\ IsFiniteSet(Node)
  /\ Voters \subseteq Node
  /\ Candidates \subseteq Voters
  /\ NoNode \notin Node

ASSUME BoundAssumption ==
  /\ RAFT_MAX_LOG \in Nat
  /\ RAFT_MAX_BATCH \in Nat \ {0}
  /\ MaxTerm \in Nat
  /\ MaxInFlight \in Nat

ASSUME NOOPAssumption == NOOP \notin Command

ASSUME StaleAssumption == StaleReplies \subseteq {"prevote", "vote", "append"}

VARIABLES
  current_term, voted_for, log,              \* struct raft, lines 31-35
  role, leader, commit_index,                \* struct raft, lines 37-40
  applied,       \* the entries apply_committed has consumed; last_applied is its length
  heard,         \* election_elapsed < election_base_ms
  in_pre_vote,   \* the election round under way is a PreVote round
  members,       \* members[n][p]: p's class in n's own member table
  eligible,      \* n's candidacy gate for itself
  vote_granted,  \* members whose vote_granted flag is set
  next_index, match_index,                   \* member_t, lines 20-22
  msgs,          \* messages in flight
  votes,         \* history: <<term, voter, candidate>> for every real vote
  leaders        \* history: <<term, node>> for every election won

termVars == <<current_term, voted_for>>
roleVars == <<role, leader, in_pre_vote, heard>>
logVars == <<log, commit_index, applied>>
memberVars == <<members, eligible>>
peerVars == <<next_index, match_index>>
history == <<votes, leaders>>
vars == <<termVars, roleVars, logVars, memberVars, vote_granted, peerVars, msgs,
          history>>

-----------------------------------------------------------------------------
(* Helpers of norn_raft.c. *)

Entry == [term : Nat, cmd : Command \cup {NOOP}]

Smaller(a, b) == IF a < b THEN a ELSE b

IsMember(n, p) == members[n][p] # "absent"

VotersOf(n) == {p \in Node : members[n][p] = "voter"}

\* Mutant of quorum: half of the voters are enough.
HalfIsEnough(n) == Cardinality(VotersOf(n)) \div 2

quorum(n) == Cardinality(VotersOf(n)) \div 2 + 1

SelfIsEligibleVoter(n) == members[n][n] = "voter" /\ eligible[n]

\* term_at: 0 for index 0 and for an index beyond the log.
TermAt(lg, i) == IF i \in 1..Len(lg) THEN lg[i].term ELSE 0

LastTerm(lg) == TermAt(lg, Len(lg))

\* Mutants of log_ok: no comparison at all, and one of the lengths only.
AnyLogOk(lg, lastIndex, lastTerm) == TRUE

LongLogOk(lg, lastIndex, lastTerm) == lastIndex >= Len(lg)

\* log_ok: the candidate's log is at least as up to date as lg.
LogOk(lg, lastIndex, lastTerm) ==
  \/ lastTerm > LastTerm(lg)
  \/ lastTerm = LastTerm(lg) /\ lastIndex >= Len(lg)

\* What apply_committed consumes once commit_index is c.
Apply(done, lg, c) == done \o SubSeq(lg, Len(done) + 1, c)

\* io.send for each message of S; any of them may be lost.
Send(S) ==
  \E sent \in SUBSET S :
    /\ Cardinality(msgs \cup sent) <= MaxInFlight
    /\ msgs' = msgs \cup sent

\* The same, by the handler of m: m leaves the network unless it is duplicated.
Reply(m, S) ==
  \E sent \in SUBSET S, left \in {msgs, msgs \ {m}} :
    /\ Cardinality(left \cup sent) <= MaxInFlight
    /\ msgs' = left \cup sent

VoteRequests(n, pre, t) ==
  {[type |-> "RequestVote", from |-> n, to |-> p, term |-> t, pre_vote |-> pre,
    last_log_index |-> Len(log[n]), last_log_term |-> LastTerm(log[n])]
     : p \in VotersOf(n) \ {n}}

\* send_append: the batch that starts at next, or an empty heartbeat.
AppendMsg(n, p, lg, t, next, commit) ==
  [type |-> "Append", from |-> n, to |-> p, term |-> t,
   prev_log_index |-> next - 1, prev_log_term |-> TermAt(lg, next - 1),
   entries |-> SubSeq(lg, next, Smaller(next + RAFT_MAX_BATCH - 1, Len(lg))),
   leader_commit |-> commit]

\* broadcast_append, with the log and the next indexes the caller has in hand.
AppendMsgs(n, lg, t, next) ==
  {AppendMsg(n, p, lg, t, next[p], commit_index[n])
     : p \in {q \in Node \ {n} : IsMember(n, q)}}

\* The log of a follower after the append/overwrite loop of handle_append: kept
\* as it is when it already holds the batch, else cut at the first difference
\* and continued with the batch.
Merged(lg, prev, entries) ==
  LET differs == {i \in 1..Len(entries) :
                    prev + i > Len(lg) \/ lg[prev + i].term # entries[i].term}
      len == IF differs = {} THEN Len(lg)
             ELSE Smaller(prev + Len(entries), RAFT_MAX_LOG)
  IN  [i \in 1..len |->
         IF \E d \in differs : prev + d <= i THEN entries[i - prev] ELSE lg[i]]

\* advance_commit: the highest index of the current term, and with only entries
\* of the current term above it, that a quorum of voters has matched.
AdvanceCommit(n, lg, match) ==
  LET replicated(i) ==
        Cardinality({p \in VotersOf(n) : match[p] >= i}) >= quorum(n)
      ready == {i \in commit_index[n]+1..Len(lg) :
                  /\ \A j \in i..Len(lg) : lg[j].term = current_term[n]
                  /\ replicated(i)}
      top(i) == \A j \in ready : j <= i
  IN  IF \E i \in ready : top(i) THEN CHOOSE i \in ready : top(i)
      ELSE commit_index[n]

-----------------------------------------------------------------------------
(* The state after raft_new and raft_add_member for every node.  A node     *)
(* restarts into the same state: nothing is kept on disk.                   *)

Init ==
  /\ current_term = [n \in Node |-> 0]
  /\ voted_for = [n \in Node |-> NoNode]
  /\ log = [n \in Node |-> <<>>]
  /\ role = [n \in Node |-> "follower"]
  /\ leader = [n \in Node |-> NoNode]
  /\ commit_index = [n \in Node |-> 0]
  /\ applied = [n \in Node |-> <<>>]
  /\ heard = [n \in Node |-> TRUE]
  /\ in_pre_vote = [n \in Node |-> FALSE]
  /\ members = [n \in Node |->
                  [p \in Node |-> IF p \in Voters THEN "voter" ELSE "learner"]]
  /\ eligible = [n \in Node |-> n \in Candidates]
  /\ vote_granted = [n \in Node |-> {}]
  /\ next_index = [n \in Node |-> [p \in Node |-> 1]]
  /\ match_index = [n \in Node |-> [p \in Node |-> 0]]
  /\ msgs = {}
  /\ votes = {}
  /\ leaders = {}

-----------------------------------------------------------------------------
(* Role transitions. *)

\* Mutant of become_follower: the vote is forgotten even within the term.
ForgetVote(n, t, ldr) ==
  /\ role' = [role EXCEPT ![n] = "follower"]
  /\ current_term' = [current_term EXCEPT ![n] = IF t > @ THEN t ELSE @]
  /\ voted_for' = [voted_for EXCEPT ![n] = NoNode]
  /\ leader' = [leader EXCEPT ![n] = ldr]
  /\ in_pre_vote' = [in_pre_vote EXCEPT ![n] = FALSE]
  /\ heard' = [heard EXCEPT ![n] = TRUE]

\* become_follower, for the handlers that call it and return.
BecomeFollower(n, t, ldr) ==
  /\ role' = [role EXCEPT ![n] = "follower"]
  /\ current_term' = [current_term EXCEPT ![n] = IF t > @ THEN t ELSE @]
  /\ voted_for' = [voted_for EXCEPT ![n] = IF t > current_term[n] THEN NoNode ELSE @]
  /\ leader' = [leader EXCEPT ![n] = ldr]
  /\ in_pre_vote' = [in_pre_vote EXCEPT ![n] = FALSE]
  /\ heard' = [heard EXCEPT ![n] = TRUE]

\* become_leader appends a NOOP of its term t if the log has room.
LogWithNoop(n, t) ==
  IF Len(log[n]) < RAFT_MAX_LOG
  THEN Append(log[n], [term |-> t, cmd |-> NOOP]) ELSE log[n]

\* The AppendEntries of a new leader: every member's next_index is one past the
\* log the leader had before the NOOP.
FirstAppends(n, t) ==
  AppendMsgs(n, LogWithNoop(n, t), t, [p \in Node |-> Len(log[n]) + 1])

\* Mutant of become_leader: next_index starts at the last entry, not past it.
LeadFromLastEntry(n, t) ==
  LET lg == LogWithNoop(n, t)
  IN  /\ role' = [role EXCEPT ![n] = "leader"]
      /\ leader' = [leader EXCEPT ![n] = n]
      /\ in_pre_vote' = [in_pre_vote EXCEPT ![n] = FALSE]
      /\ log' = [log EXCEPT ![n] = lg]
      /\ next_index' = [next_index EXCEPT ![n] = [p \in Node |-> Len(log[n])]]
      /\ match_index' = [match_index EXCEPT ![n] =
                           [p \in Node |-> IF p = n THEN Len(lg) ELSE 0]]
      /\ leaders' = leaders \cup {<<t, n>>}

\* become_leader in term t; the callers send FirstAppends.  Nothing is committed.
BecomeLeader(n, t) ==
  LET lg == LogWithNoop(n, t)
      next == [p \in Node |-> Len(log[n]) + 1]
  IN  /\ role' = [role EXCEPT ![n] = "leader"]
      /\ leader' = [leader EXCEPT ![n] = n]
      /\ in_pre_vote' = [in_pre_vote EXCEPT ![n] = FALSE]
      /\ log' = [log EXCEPT ![n] = lg]
      /\ next_index' = [next_index EXCEPT ![n] = next]
      /\ match_index' = [match_index EXCEPT ![n] =
                           [p \in Node |-> IF p = n THEN Len(lg) ELSE 0]]
      /\ leaders' = leaders \cup {<<t, n>>}

-----------------------------------------------------------------------------
(* raft_tick. *)

\* A tick that takes a non-leader past election_base_ms but not to its timeout.
ElapseTick(n) ==
  /\ role[n] # "leader" /\ heard[n]
  /\ heard' = [heard EXCEPT ![n] = FALSE]
  /\ applied' = [applied EXCEPT ![n] = Apply(@, log[n], commit_index[n])]
  /\ UNCHANGED <<termVars, role, leader, in_pre_vote, log, commit_index,
                 memberVars, vote_granted, peerVars, msgs, history>>

\* A tick of the leader: it never accrues election timeout, and it broadcasts
\* when the heartbeat interval is over.
LeaderTick(n) ==
  /\ role[n] = "leader"
  /\ heard' = [heard EXCEPT ![n] = TRUE]
  /\ \/ UNCHANGED msgs
     \/ Send(AppendMsgs(n, log[n], current_term[n], next_index[n]))
  /\ UNCHANGED <<termVars, role, leader, in_pre_vote, logVars, memberVars,
                 vote_granted, peerVars, history>>

\* start_election, several voters: a PreVote round that leaves the term alone.
StartPreVote(n) ==
  /\ SelfIsEligibleVoter(n) /\ Cardinality(VotersOf(n)) # 1
  /\ role' = [role EXCEPT ![n] = "candidate"]
  /\ leader' = [leader EXCEPT ![n] = NoNode]
  /\ vote_granted' = [vote_granted EXCEPT ![n] = {n}]
  /\ in_pre_vote' = [in_pre_vote EXCEPT ![n] = TRUE]
  /\ Send(VoteRequests(n, TRUE, current_term[n] + 1))
  /\ UNCHANGED <<termVars, log, peerVars, history>>

\* start_election, sole voter: it bumps its term, votes for itself and leads.
LeadAlone(n) ==
  /\ SelfIsEligibleVoter(n) /\ Cardinality(VotersOf(n)) = 1
  /\ vote_granted' = [vote_granted EXCEPT ![n] = {n}]
  /\ current_term' = [current_term EXCEPT ![n] = @ + 1]
  /\ voted_for' = [voted_for EXCEPT ![n] = n]
  /\ BecomeLeader(n, current_term[n] + 1)
  /\ Send(FirstAppends(n, current_term[n] + 1))
  /\ votes' = votes \cup {<<current_term[n] + 1, n, n>>}

\* start_election of a node that may not stand only resets its timer.
StayQuiet(n) ==
  /\ ~SelfIsEligibleVoter(n)
  /\ UNCHANGED <<termVars, role, leader, in_pre_vote, log, vote_granted, peerVars,
                 msgs, history>>

\* A tick that finds the election timeout over.
ElectionTick(n) ==
  /\ role[n] # "leader" /\ current_term[n] < MaxTerm
  /\ StartPreVote(n) \/ LeadAlone(n) \/ StayQuiet(n)
  /\ heard' = [heard EXCEPT ![n] = TRUE]
  /\ applied' = [applied EXCEPT ![n] = Apply(@, log'[n], commit_index[n])]
  /\ UNCHANGED <<commit_index, memberVars>>

-----------------------------------------------------------------------------
(* raft_recv, one action per arm of the handlers; n is the receiver.        *)

VoteResp(m, t, granted) ==
  [type |-> "VoteResp", from |-> m.to, to |-> m.from, term |-> t,
   pre_vote |-> m.pre_vote, granted |-> granted]

\* handle_request_vote, PreVote: an answer and no change of state.
HandlePreVote(m) ==
  LET n == m.to
      grant == /\ m.term > current_term[n]
               /\ LogOk(log[n], m.last_log_index, m.last_log_term)
               /\ ~heard[n]
  IN  /\ m.type = "RequestVote" /\ m.pre_vote
      /\ Reply(m, {VoteResp(m, current_term[n], grant)})
      /\ UNCHANGED <<termVars, roleVars, logVars, memberVars, vote_granted, peerVars,
                     history>>

\* Mutant of the can_vote test: voted_for is not looked at.
VoteAgain(n, c, t) == t >= current_term[n]

\* May n vote for candidate c in term t, given that it first moves up to t?
CanVote(n, c, t) ==
  t > current_term[n] \/ (t = current_term[n] /\ voted_for[n] \in {NoNode, c})

\* handle_request_vote, real vote: move up to a higher term, then answer.
HandleRequestVote(m) ==
  LET n == m.to
      up == m.term > current_term[n]
      term == IF up THEN m.term ELSE current_term[n]
      grant == /\ CanVote(n, m.from, m.term)
               /\ LogOk(log[n], m.last_log_index, m.last_log_term)
  IN  /\ m.type = "RequestVote" /\ ~m.pre_vote
      /\ current_term' = [current_term EXCEPT ![n] = term]
      /\ voted_for' = [voted_for EXCEPT ![n] =
                         IF grant THEN m.from ELSE IF up THEN NoNode ELSE @]
      /\ role' = [role EXCEPT ![n] = IF up THEN "follower" ELSE @]
      /\ leader' = [leader EXCEPT ![n] = IF up THEN NoNode ELSE @]
      /\ in_pre_vote' = [in_pre_vote EXCEPT ![n] = IF up THEN FALSE ELSE @]
      /\ heard' = [heard EXCEPT ![n] = up \/ grant \/ @]
      /\ votes' = IF grant THEN votes \cup {<<term, n, m.from>>} ELSE votes
      /\ Reply(m, {VoteResp(m, term, grant)})
      /\ UNCHANGED <<logVars, memberVars, vote_granted, peerVars, leaders>>

\* raft_recv sets the sender's flag before the handler looks at the response.
Flagged(m) ==
  IF m.granted /\ IsMember(m.to, m.from)
  THEN vote_granted[m.to] \cup {m.from} ELSE vote_granted[m.to]

\* The response belongs to the kind of round under way and is a grant.
CountsNow(m) ==
  /\ ~(~m.pre_vote /\ m.term > current_term[m.to])
  /\ role[m.to] = "candidate" /\ m.pre_vote = in_pre_vote[m.to] /\ m.granted

Wins(m) ==
  Cardinality(Flagged(m) \cap VotersOf(m.to)) >= quorum(m.to)

\* A real response of a higher term: the election is lost.
VoteRespStepDown(m) ==
  LET n == m.to
  IN  /\ ~m.pre_vote /\ m.term > current_term[n]
      /\ vote_granted' = [vote_granted EXCEPT ![n] = Flagged(m)]
      /\ BecomeFollower(n, m.term, NoNode)
      /\ Reply(m, {})
      /\ UNCHANGED <<log, peerVars, history>>

\* A response that does not decide the round: only the flag stays.
VoteRespRecord(m) ==
  LET n == m.to
  IN  /\ m.pre_vote \/ m.term <= current_term[n]
      /\ ~(CountsNow(m) /\ Wins(m))
      /\ vote_granted' = [vote_granted EXCEPT ![n] = Flagged(m)]
      /\ Reply(m, {})
      /\ UNCHANGED <<termVars, roleVars, log, peerVars, history>>

\* The PreVote round is won: bump the term, vote for self, ask for real votes.
PreVoteWon(m) ==
  LET n == m.to
  IN  /\ CountsNow(m) /\ Wins(m) /\ in_pre_vote[n]
      /\ in_pre_vote' = [in_pre_vote EXCEPT ![n] = FALSE]
      /\ current_term' = [current_term EXCEPT ![n] = @ + 1]
      /\ voted_for' = [voted_for EXCEPT ![n] = n]
      /\ vote_granted' = [vote_granted EXCEPT ![n] = {n}]
      /\ heard' = [heard EXCEPT ![n] = TRUE]
      /\ votes' = votes \cup {<<current_term[n] + 1, n, n>>}
      /\ Reply(m, VoteRequests(n, FALSE, current_term[n] + 1))
      /\ UNCHANGED <<role, leader, log, peerVars, leaders>>

\* The real round is won.
ElectionWon(m) ==
  LET n == m.to
  IN  /\ CountsNow(m) /\ Wins(m) /\ ~in_pre_vote[n]
      /\ vote_granted' = [vote_granted EXCEPT ![n] = Flagged(m)]
      /\ BecomeLeader(n, current_term[n])
      /\ Reply(m, FirstAppends(n, current_term[n]))
      /\ UNCHANGED <<termVars, heard, votes>>

HandleVoteResp(m) ==
  /\ m.type = "VoteResp"
  /\ \/ VoteRespStepDown(m) \/ VoteRespRecord(m)
     \/ PreVoteWon(m) \/ ElectionWon(m)
  /\ UNCHANGED <<commit_index, applied, memberVars>>

\* Mutant of the reply: it reports all the follower had, not what the batch vouches for.
ReportLength(m, t, success, match) ==
  [type |-> "AppendResp", from |-> m.to, to |-> m.from, term |-> t, success |-> success,
   match_index |-> IF success /\ match < Len(log[m.to]) THEN Len(log[m.to]) ELSE match]

AppendResp(m, t, success, match) ==
  [type |-> "AppendResp", from |-> m.to, to |-> m.from, term |-> t,
   success |-> success, match_index |-> match]

\* handle_append from a leader of an older term.
RejectAppend(m) ==
  LET n == m.to
  IN  /\ m.type = "Append" /\ m.term < current_term[n]
      /\ Reply(m, {AppendResp(m, current_term[n], FALSE, 0)})
      /\ UNCHANGED <<termVars, roleVars, logVars, memberVars, vote_granted, peerVars,
                     history>>

\* Mutant of the consistency check: the previous entry's term is not compared.
LongEnough(lg, m) == m.prev_log_index <= Len(lg)

LogMatches(lg, m) ==
  /\ m.prev_log_index <= Len(lg)
  /\ TermAt(lg, m.prev_log_index) = m.prev_log_term

\* handle_append that finds the entry before the batch missing or different.
MismatchAppend(m) ==
  LET n == m.to
  IN  /\ m.type = "Append" /\ m.term >= current_term[n] /\ ~LogMatches(log[n], m)
      /\ BecomeFollower(n, m.term, m.from)
      /\ Reply(m, {AppendResp(m, m.term, FALSE, 0)})
      /\ UNCHANGED <<logVars, memberVars, vote_granted, peerVars, history>>

\* handle_append's commit rule: leader_commit, cut to the log's length.
CommitAfter(n, lg, m) ==
  IF m.leader_commit > commit_index[n]
  THEN Smaller(m.leader_commit, Len(lg)) ELSE commit_index[n]

\* handle_append that matches: merge, commit, apply, answer.
AcceptAppend(m) ==
  LET n == m.to
      lg == Merged(log[n], m.prev_log_index, m.entries)
      commit == CommitAfter(n, lg, m)
  IN  /\ m.type = "Append" /\ m.term >= current_term[n] /\ LogMatches(log[n], m)
      /\ BecomeFollower(n, m.term, m.from)
      /\ log' = [log EXCEPT ![n] = lg]
      /\ commit_index' = [commit_index EXCEPT ![n] = commit]
      /\ applied' = [applied EXCEPT ![n] = Apply(@, lg, commit)]
      /\ Reply(m, {AppendResp(m, m.term, TRUE, m.prev_log_index + Len(m.entries))})
      /\ UNCHANGED <<memberVars, vote_granted, peerVars, history>>

\* handle_append_resp of a higher term.
AppendRespStepDown(m) ==
  /\ m.term > current_term[m.to]
  /\ BecomeFollower(m.to, m.term, NoNode)
  /\ Reply(m, {})
  /\ UNCHANGED <<logVars, peerVars>>

\* handle_append_resp, success: raise match_index, move next_index, commit.
AppendRespSuccess(m) ==
  LET n == m.to
      match == IF m.match_index > match_index[n][m.from]
               THEN m.match_index ELSE match_index[n][m.from]
      matches == [match_index[n] EXCEPT ![m.from] = match]
      commit == AdvanceCommit(n, log[n], matches)
  IN  /\ m.term <= current_term[n] /\ role[n] = "leader"
      /\ IsMember(n, m.from) /\ m.success
      /\ match_index' = [match_index EXCEPT ![n] = matches]
      /\ next_index' = [next_index EXCEPT ![n][m.from] = match + 1]
      /\ commit_index' = [commit_index EXCEPT ![n] = commit]
      /\ applied' = [applied EXCEPT ![n] = Apply(@, log[n], commit)]
      /\ Reply(m, {})
      /\ UNCHANGED <<termVars, roleVars, log>>

\* handle_append_resp, failure: back off by one and resend at once.
AppendRespBackOff(m) ==
  LET n == m.to
      next == next_index[n][m.from] - 1
  IN  /\ m.term <= current_term[n] /\ role[n] = "leader"
      /\ IsMember(n, m.from) /\ ~m.success /\ next_index[n][m.from] > 1
      /\ next_index' = [next_index EXCEPT ![n][m.from] = next]
      /\ Reply(m, {AppendMsg(n, m.from, log[n], current_term[n], next, commit_index[n])})
      /\ UNCHANGED <<termVars, roleVars, logVars, match_index>>

HandleAppendResp(m) ==
  /\ m.type = "AppendResp"
  /\ AppendRespStepDown(m) \/ AppendRespSuccess(m) \/ AppendRespBackOff(m)
  /\ UNCHANGED <<memberVars, vote_granted, history>>

-----------------------------------------------------------------------------
(* raft_propose: append, replicate, and commit at once when a quorum of one  *)
(* is enough.                                                                *)

Propose(n, c) ==
  LET lg == Append(log[n], [term |-> current_term[n], cmd |-> c])
      matches == [match_index[n] EXCEPT ![n] = Len(lg)]
      commit == AdvanceCommit(n, lg, matches)
  IN  /\ role[n] = "leader" /\ Len(log[n]) < RAFT_MAX_LOG
      /\ log' = [log EXCEPT ![n] = lg]
      /\ match_index' = [match_index EXCEPT ![n] = matches]
      /\ Send(AppendMsgs(n, lg, current_term[n], next_index[n]))
      /\ commit_index' = [commit_index EXCEPT ![n] = commit]
      /\ applied' = [applied EXCEPT ![n] = Apply(@, lg, commit)]
      /\ UNCHANGED <<termVars, roleVars, memberVars, vote_granted, next_index, history>>

-----------------------------------------------------------------------------
(* The environment assumption.  The code never compares a reply's term with  *)
(* the round that asked for it.  A reply has outlived its round when         *)
(*   "prevote"  a PreVote grant reaches a candidate in its real round,       *)
(*   "vote"     a real grant of an earlier term reaches such a candidate,    *)
(*   "append"   a success of an earlier term reaches a leader.               *)
(* The network delivers such a reply only if StaleReplies names its kind.    *)

InRealRound(n) == role[n] = "candidate" /\ ~in_pre_vote[n]

Outlived(m) ==
  {k \in {"prevote", "vote", "append"} :
     \/ /\ k = "prevote" /\ m.type = "VoteResp"
        /\ m.granted /\ m.pre_vote /\ InRealRound(m.to)
     \/ /\ k = "vote" /\ m.type = "VoteResp"
        /\ m.granted /\ ~m.pre_vote
        /\ m.term < current_term[m.to] /\ InRealRound(m.to)
     \/ /\ k = "append" /\ m.type = "AppendResp"
        /\ m.success /\ m.term < current_term[m.to] /\ role[m.to] = "leader"}

Recv(m) ==
  /\ Outlived(m) \subseteq StaleReplies
  /\ \/ HandlePreVote(m) \/ HandleRequestVote(m) \/ HandleVoteResp(m)
     \/ RejectAppend(m) \/ MismatchAppend(m) \/ AcceptAppend(m)
     \/ HandleAppendResp(m)

\* The transport drops a message in flight.
Lose(m) ==
  /\ msgs' = msgs \ {m}
  /\ UNCHANGED <<termVars, roleVars, logVars, memberVars, vote_granted, peerVars,
                 history>>

Tick(n) == ElapseTick(n) \/ LeaderTick(n) \/ ElectionTick(n)

Next ==
  \/ \E n \in Node : Tick(n)
  \/ \E n \in Node, c \in Command : Propose(n, c)
  \/ \E m \in msgs : Recv(m) \/ Lose(m)

Spec == Init /\ [][Next]_vars

-----------------------------------------------------------------------------
(* Changes of the member table.  Each is a local call: it changes the table  *)
(* of the node it is made on and sends nothing.                              *)

\* raft_set_eligible, which norn_cluster uses for the node's own candidacy.
SetEligible(n, e) ==
  /\ IsMember(n, n)
  /\ eligible' = [eligible EXCEPT ![n] = e]
  /\ UNCHANGED <<termVars, roleVars, logVars, members, vote_granted, peerVars, msgs,
                 history>>

GateNext == Next \/ \E n \in Node, e \in BOOLEAN : SetEligible(n, e)

GateSpec == Init /\ [][GateNext]_vars

\* raft_add_member: a fresh entry whose next_index is past the log.
AddMember(n, p, class) ==
  /\ ~IsMember(n, p)
  /\ members' = [members EXCEPT ![n][p] = class]
  /\ vote_granted' = [vote_granted EXCEPT ![n] = @ \ {p}]
  /\ next_index' = [next_index EXCEPT ![n][p] = Len(log[n]) + 1]
  /\ match_index' = [match_index EXCEPT ![n][p] = 0]
  /\ UNCHANGED <<termVars, roleVars, logVars, eligible, msgs, history>>

\* raft_remove_member of another node.
RemoveMember(n, p) ==
  /\ p # n /\ IsMember(n, p)
  /\ members' = [members EXCEPT ![n][p] = "absent"]
  /\ UNCHANGED <<termVars, roleVars, logVars, eligible, vote_granted, peerVars, msgs,
                 history>>

\* raft_promote: a learner becomes a voter that may stand.
PromoteMember(n, p) ==
  /\ members[n][p] = "learner"
  /\ members' = [members EXCEPT ![n][p] = "voter"]
  /\ eligible' = [eligible EXCEPT ![n] = @ \/ p = n]
  /\ UNCHANGED <<termVars, roleVars, logVars, vote_granted, peerVars, msgs, history>>

ChangeMember(n, p) ==
  \/ \E class \in {"voter", "learner"} : AddMember(n, p, class)
  \/ RemoveMember(n, p)
  \/ PromoteMember(n, p)

ReconfNext == GateNext \/ \E n, p \in Node : ChangeMember(n, p)

ReconfSpec == Init /\ [][ReconfNext]_vars

-----------------------------------------------------------------------------
(* A process that dies and comes back.  nornd keeps no raft state on disk: it *)
(* calls raft_new and raft_add_member again, so the fields marked persistent  *)
(* in struct raft start over with the rest.                                   *)

Restart(n) ==
  /\ current_term' = [current_term EXCEPT ![n] = 0]
  /\ voted_for' = [voted_for EXCEPT ![n] = NoNode]
  /\ log' = [log EXCEPT ![n] = <<>>]
  /\ commit_index' = [commit_index EXCEPT ![n] = 0]
  /\ applied' = [applied EXCEPT ![n] = <<>>]
  /\ role' = [role EXCEPT ![n] = "follower"]
  /\ leader' = [leader EXCEPT ![n] = NoNode]
  /\ in_pre_vote' = [in_pre_vote EXCEPT ![n] = FALSE]
  /\ heard' = [heard EXCEPT ![n] = TRUE]
  /\ vote_granted' = [vote_granted EXCEPT ![n] = {}]
  /\ next_index' = [next_index EXCEPT ![n] = [p \in Node |-> 1]]
  /\ match_index' = [match_index EXCEPT ![n] = [p \in Node |-> 0]]
  /\ UNCHANGED <<memberVars, msgs, history>>

OpsNext == ReconfNext \/ \E n \in Node : Restart(n)

OpsSpec == Init /\ [][OpsNext]_vars

-----------------------------------------------------------------------------
(* Properties. *)

RequestVoteMsg ==
  [type : {"RequestVote"}, from : Node, to : Node, term : Nat, pre_vote : BOOLEAN,
   last_log_index : Nat, last_log_term : Nat]

VoteRespMsg ==
  [type : {"VoteResp"}, from : Node, to : Node, term : Nat, pre_vote : BOOLEAN,
   granted : BOOLEAN]

AppendMessage ==
  [type : {"Append"}, from : Node, to : Node, term : Nat, prev_log_index : Nat,
   prev_log_term : Nat, entries : Seq(Entry), leader_commit : Nat]

AppendRespMsg ==
  [type : {"AppendResp"}, from : Node, to : Node, term : Nat, success : BOOLEAN,
   match_index : Nat]

Message == RequestVoteMsg \cup VoteRespMsg \cup AppendMessage \cup AppendRespMsg

\* Types of the raft_t fields and of the messages on the wire.
TypeOK ==
  /\ current_term \in [Node -> Nat]
  /\ voted_for \in [Node -> Node \cup {NoNode}]
  /\ log \in [Node -> Seq(Entry)]
  /\ role \in [Node -> {"follower", "candidate", "leader"}]
  /\ leader \in [Node -> Node \cup {NoNode}]
  /\ commit_index \in [Node -> Nat]
  /\ applied \in [Node -> Seq(Entry)]
  /\ heard \in [Node -> BOOLEAN]
  /\ in_pre_vote \in [Node -> BOOLEAN]
  /\ members \in [Node -> [Node -> {"voter", "learner", "absent"}]]
  /\ eligible \in [Node -> BOOLEAN]
  /\ vote_granted \in [Node -> SUBSET Node]
  /\ next_index \in [Node -> [Node -> Nat \ {0}]]
  /\ match_index \in [Node -> [Node -> Nat]]
  /\ msgs \subseteq Message
  /\ votes \subseteq Nat \X Node \X Node
  /\ leaders \subseteq Nat \X Node

\* No term ever has two leaders: handle_request_vote_resp makes a candidate a
\* leader only on a tally no other candidate of that term can also reach.
ElectionSafety ==
  \A a, b \in leaders : a[1] = b[1] => a[2] = b[2]

IsPrefixOf(s, t) == Len(s) <= Len(t) /\ s = SubSeq(t, 1, Len(s))

\* Two logs that hold an entry of the same term at the same index agree up to
\* that index, whatever conflicts handle_append has had to resolve.
LogMatching ==
  \A n, p \in Node : \A i \in 1..Smaller(Len(log[n]), Len(log[p])) :
    log[n][i].term = log[p][i].term => SubSeq(log[n], 1, i) = SubSeq(log[p], 1, i)

\* Any two nodes have handed their state machines the same entries in the same
\* order, as far as both have come (apply_committed).
StateMachineSafety ==
  \A n, p \in Node :
    IsPrefixOf(applied[n], applied[p]) \/ IsPrefixOf(applied[p], applied[n])

\* handle_append never truncates an entry its node has already applied.
AppliedNotTruncated == \A n \in Node : IsPrefixOf(applied[n], log[n])

\* The leader of the newest term has every entry any node has applied: log_ok
\* keeps a candidate without them from winning.
LeaderCompleteness ==
  \A n \in Node :
    (role[n] = "leader" /\ \A p \in Node : current_term[p] <= current_term[n])
      => \A p \in Node : IsPrefixOf(applied[p], log[n])

\* What a leader believes a member of its term has stored (match_index) is there and
\* is what the leader has, however the two logs came about and whatever was lost or
\* repeated, as long as handle_append_resp gets no success of an earlier term.
MatchIndexIsTrue ==
  \A n, p \in Node :
    (role[n] = "leader" /\ current_term[p] = current_term[n])
      => /\ match_index[n][p] <= Len(log[p])
         /\ \A i \in 1..match_index[n][p] : log[p][i] = log[n][i]

\* Within a term a node never takes back or changes its vote, and its term never
\* falls, across every path that calls become_follower.
OneVotePerTerm ==
  [][\A n \in Node :
       /\ current_term'[n] >= current_term[n]
       /\ (current_term'[n] = current_term[n] /\ voted_for[n] # NoNode)
            => voted_for'[n] = voted_for[n]]_vars

\* The entries applied by the node that has applied the most.
Furthest == CHOOSE n \in Node : \A p \in Node : Len(applied[p]) <= Len(applied[n])

Log == INSTANCE ReplicatedLog
         WITH chosen <- applied[Furthest], delivered <- applied

\* The calls of io.apply on all nodes together are those of one replicated log.
ImplementsLog == Log!Spec

(* The strengthening that makes ElectionSafety inductive. *)

\* apply_committed runs whenever commit_index grows, so it is never behind.
CommitApplied == \A n \in Node : commit_index[n] <= Len(applied[n])

\* The member tables are the ones raft_add_member built at the start.
StaticMembers ==
  members = [n \in Node |-> [p \in Node |-> IF p \in Voters THEN "voter" ELSE "learner"]]

\* No voter gives two votes in a term.
VotesOnce == \A a, b \in votes : (a[1] = b[1] /\ a[2] = b[2]) => a[3] = b[3]

\* A vote is of no later term than its voter's, and of this term only if the voter
\* still remembers it in voted_for.
VotesRemembered ==
  \A v \in votes :
    /\ v[1] <= current_term[v[2]]
    /\ v[1] = current_term[v[2]] => voted_for[v[2]] = v[3]

\* A real grant in flight stands for a vote that was given.
GrantsAreVotes ==
  \A m \in msgs :
    (m.type = "VoteResp" /\ m.granted /\ ~m.pre_vote)
      => <<m.term, m.from, m.to>> \in votes

\* Every flag a candidate counts in its real round is a vote for it in its term.
TalliesAreVotes ==
  \A n \in Node : InRealRound(n) =>
    \A p \in vote_granted[n] : <<current_term[n], p, n>> \in votes

IsQuorum(Q) == Cardinality(Q) >= Cardinality(Voters) \div 2 + 1

\* Every leader there ever was has the votes of a quorum of the voters.
LeadersElected ==
  \A l \in leaders : \E Q \in SUBSET Voters :
    IsQuorum(Q) /\ \A p \in Q : <<l[1], p, l[2]>> \in votes

ElectionInv ==
  /\ StaticMembers
  /\ VotesOnce
  /\ VotesRemembered
  /\ GrantsAreVotes
  /\ TalliesAreVotes
  /\ LeadersElected

\* Once nothing is in flight, every majority of the voters that has no leader has a
\* candidate that could win a PreVote round among them: its next term is ahead of
\* theirs and its log is up to date.  Where this fails, start_election never moves a
\* term of that majority again, however long its members are up and connected.
MajorityCanElect ==
  msgs = {} => \A Q \in SUBSET Voters :
    (2 * Cardinality(Q) > Cardinality(Voters) /\ \A p \in Q : role[p] # "leader") =>
      \E c \in Q \cap Candidates : \A p \in Q :
        /\ current_term[c] + 1 > current_term[p]
        /\ LogOk(log[p], Len(log[c]), LastTerm(log[c]))
=============================================================================
