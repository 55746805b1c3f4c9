--------------------------- MODULE NornRaftProofs ---------------------------
(***************************************************************************)
(* Theorems about NornRaft for every value of its constants: the types of  *)
(* its state, one vote per term, and at most one leader per term as long   *)
(* as no vote reply outlives its election round.                           *)
(***************************************************************************)
EXTENDS NornRaft, SequenceTheorems, FiniteSetTheorems, TLAPS

-----------------------------------------------------------------------------
(* What the helpers return. *)

\* TermAt: the term of an entry, or 0 (term_at).
LEMMA TermAtType ==
  ASSUME NEW lg \in Seq(Entry), NEW i \in Int
  PROVE  TermAt(lg, i) \in Nat
<1>1. CASE i \in 1..Len(lg)
  <2>1. lg[i] \in Entry
    BY <1>1
  <2>2. lg[i].term \in Nat
    BY <2>1 DEF Entry
  <2> QED
    BY <1>1, <2>2 DEF TermAt
<1> QED
  BY <1>1 DEF TermAt

\* The part of a log between two positions is a log.
LEMMA SliceType ==
  ASSUME NEW lg \in Seq(Entry), NEW a \in Nat \ {0}, NEW b \in Int, b <= Len(lg)
  PROVE  /\ SubSeq(lg, a, b) \in Seq(Entry)
         /\ Len(SubSeq(lg, a, b)) = IF a <= b THEN b - a + 1 ELSE 0
<1>1. \A i \in a..b : lg[i] \in Entry
  OBVIOUS
<1> QED
  BY <1>1, SubSeqProperties

\* apply_committed extends what was applied up to the commit index, which lies in
\* the log or is already applied.
LEMMA ApplyType ==
  ASSUME NEW done \in Seq(Entry), NEW lg \in Seq(Entry), NEW c \in Nat,
         c <= Len(lg) \/ c <= Len(done)
  PROVE  /\ Apply(done, lg, c) \in Seq(Entry)
         /\ c <= Len(Apply(done, lg, c))
<1> DEFINE a == Len(done) + 1
<1>1. \A i \in a..c : lg[i] \in Entry
  OBVIOUS
<1>2. /\ SubSeq(lg, a, c) \in Seq(Entry)
      /\ Len(SubSeq(lg, a, c)) = IF a <= c THEN c - a + 1 ELSE 0
  <2>1. a \in Int /\ c \in Int
    OBVIOUS
  <2> HIDE DEF a
  <2> QED
    BY <1>1, <2>1, SubSeqProperties
<1> QED
  BY <1>2, ConcatProperties DEF Apply

\* The append/overwrite loop of handle_append yields a log.
LEMMA MergedType ==
  ASSUME NEW lg \in Seq(Entry), NEW prev \in Nat, NEW entries \in Seq(Entry),
         prev <= Len(lg)
  PROVE  Merged(lg, prev, entries) \in Seq(Entry)
<1> DEFINE differs == {i \in 1..Len(entries) :
                    prev + i > Len(lg) \/ lg[prev + i].term # entries[i].term}
           len == IF differs = {} THEN Len(lg)
                  ELSE Smaller(prev + Len(entries), RAFT_MAX_LOG)
           f == [i \in 1..len |->
                   IF \E d \in differs : prev + d <= i THEN entries[i - prev] ELSE lg[i]]
<1>1. len \in Nat
  BY BoundAssumption DEF Smaller
<1>2. ASSUME NEW i \in 1..len
      PROVE  (IF \E d \in differs : prev + d <= i THEN entries[i - prev] ELSE lg[i]) \in Entry
  <2>1. CASE \E d \in differs : prev + d <= i
    <3>1. PICK d \in differs : prev + d <= i
      BY <2>1
    <3>2. len <= prev + Len(entries)
      <4>1. Len(entries) \in Nat
        BY LenProperties
      <4>2. len = Smaller(prev + Len(entries), RAFT_MAX_LOG)
        BY <3>1
      <4> HIDE DEF len, differs, f
      <4> QED
        BY <4>1, <4>2, BoundAssumption DEF Smaller
    <3>3. i - prev \in 1..Len(entries)
      <4>1. d \in 1..Len(entries) /\ Len(entries) \in Nat
        BY <3>1, LenProperties
      <4> HIDE DEF len, differs, f
      <4>2. i \in Nat /\ i <= len
        BY <1>1
      <4> QED
        BY <1>1, <3>1, <3>2, <4>1, <4>2
    <3>4. entries[i - prev] \in Entry
      BY <3>3
    <3> QED
      BY <2>1, <3>4
  <2>2. CASE ~ \E d \in differs : prev + d <= i
    <3>1. i \in 1..Len(lg)
      <4>1. CASE differs = {}
        BY <4>1, <1>1
      <4>2. CASE differs # {} /\ i > Len(lg)
        <5>1. i <= prev + Len(entries)
          BY <4>2, <1>1, BoundAssumption DEF Smaller
        <5>2. i - prev \in differs
          BY <4>2, <5>1
        <5> QED
          BY <5>2, <2>2
      <4> QED
        BY <4>1, <4>2, <1>1
    <3>2. lg[i] \in Entry
      BY <3>1
    <3> QED
      BY <2>2, <3>2
  <2> QED
    BY <2>1, <2>2
<1>3. f \in [1..len -> Entry]
  BY <1>2
<1>4. f \in Seq(Entry)
  <2> HIDE DEF f, len
  <2> QED
    BY <1>1, <1>3, SeqDef, Zenon
<1> QED
  BY <1>4 DEF Merged

\* advance_commit moves the commit index only inside the log.
LEMMA AdvanceCommitType ==
  ASSUME TypeOK, NEW n \in Node, NEW lg \in Seq(Entry), NEW match
  PROVE  /\ AdvanceCommit(n, lg, match) \in Nat
         /\ \/ AdvanceCommit(n, lg, match) <= Len(lg)
            \/ AdvanceCommit(n, lg, match) = commit_index[n]
<1> DEFINE replicated(i) ==
             Cardinality({p \in VotersOf(n) : match[p] >= i}) >= quorum(n)
           ready == {i \in commit_index[n]+1..Len(lg) :
                  /\ \A j \in i..Len(lg) : lg[j].term = current_term[n]
                  /\ replicated(i)}
           top(i) == \A j \in ready : j <= i
           best == CHOOSE i \in ready : top(i)
<1>1. commit_index[n] \in Nat /\ Len(lg) \in Nat
  BY DEF TypeOK
<1>2. ready \subseteq commit_index[n]+1..Len(lg)
  OBVIOUS
<1>3. AdvanceCommit(n, lg, match) =
        IF \E i \in ready : top(i) THEN best ELSE commit_index[n]
  BY DEF AdvanceCommit
<1> HIDE DEF ready
<1>4. CASE \E i \in ready : top(i)
  <2>1. best \in ready
    BY <1>4
  <2>2. best \in commit_index[n]+1..Len(lg)
    BY <1>2, <2>1
  <2>3. AdvanceCommit(n, lg, match) = best
    BY <1>3, <1>4
  <2> HIDE DEF best
  <2> QED
    BY <1>1, <2>2, <2>3
<1> QED
  BY <1>1, <1>3, <1>4

-----------------------------------------------------------------------------
(* What goes on the wire. *)

\* Send adds nothing but the messages it is given.
LEMMA SentMsgs ==
  ASSUME NEW S, Send(S)
  PROVE  msgs' \subseteq msgs \cup S
  BY DEF Send

\* So does Reply.
LEMMA RepliedMsgs ==
  ASSUME NEW m, NEW S, Reply(m, S)
  PROVE  msgs' \subseteq msgs \cup S
  BY DEF Reply

\* broadcast_vote sends vote requests.
LEMMA VoteRequestsType ==
  ASSUME TypeOK, NEW n \in Node, NEW pre \in BOOLEAN, NEW t \in Nat
  PROVE  VoteRequests(n, pre, t) \subseteq RequestVoteMsg
<1>1. log[n] \in Seq(Entry) /\ Len(log[n]) \in Nat
  BY DEF TypeOK
<1>2. LastTerm(log[n]) \in Nat
  BY <1>1, TermAtType DEF LastTerm
<1>3. VotersOf(n) \subseteq Node
  BY DEF VotersOf
<1> QED
  BY <1>1, <1>2, <1>3 DEF VoteRequests, RequestVoteMsg

\* send_append sends a well-formed batch of the log.
LEMMA AppendMsgType ==
  ASSUME NEW n \in Node, NEW p \in Node, NEW lg \in Seq(Entry), NEW t \in Nat,
         NEW next \in Nat \ {0}, NEW commit \in Nat
  PROVE  AppendMsg(n, p, lg, t, next, commit) \in AppendMessage
<1> DEFINE b == Smaller(next + RAFT_MAX_BATCH - 1, Len(lg))
<1>1. b \in Int /\ b <= Len(lg)
  BY BoundAssumption DEF Smaller
<1> HIDE DEF b
<1>2. SubSeq(lg, next, b) \in Seq(Entry)
  BY <1>1, SliceType
<1>3. next - 1 \in Nat /\ TermAt(lg, next - 1) \in Nat
  BY TermAtType
<1> QED
  BY <1>2, <1>3 DEF AppendMsg, AppendMessage, b

\* broadcast_append sends such batches to the other members.
LEMMA AppendMsgsType ==
  ASSUME TypeOK, NEW n \in Node, NEW lg \in Seq(Entry), NEW t \in Nat,
         NEW next \in [Node -> Nat \ {0}]
  PROVE  AppendMsgs(n, lg, t, next) \subseteq AppendMessage
<1>1. commit_index[n] \in Nat
  BY DEF TypeOK
<1>2. \A p \in Node : AppendMsg(n, p, lg, t, next[p], commit_index[n]) \in AppendMessage
  BY <1>1, AppendMsgType
<1> QED
  BY <1>2 DEF AppendMsgs

\* The type field of a message tells which fields it has.
LEMMA MessageKinds ==
  ASSUME NEW m \in Message
  PROVE  /\ m.from \in Node /\ m.to \in Node /\ m.term \in Nat
         /\ m.type = "RequestVote" => m \in RequestVoteMsg
         /\ m.type = "VoteResp" => m \in VoteRespMsg
         /\ m.type = "Append" => m \in AppendMessage
         /\ m.type = "AppendResp" => m \in AppendRespMsg
<1> USE DEF RequestVoteMsg, VoteRespMsg, AppendMessage, AppendRespMsg
<1>1. CASE m \in RequestVoteMsg
  BY <1>1
<1>2. CASE m \in VoteRespMsg
  BY <1>2
<1>3. CASE m \in AppendMessage
  BY <1>3
<1>4. CASE m \in AppendRespMsg
  BY <1>4
<1> QED
  BY <1>1, <1>2, <1>3, <1>4 DEF Message

\* The NOOP a new leader appends keeps the log a log.
LEMMA LogWithNoopType ==
  ASSUME TypeOK, NEW n \in Node, NEW t \in Nat
  PROVE  LogWithNoop(n, t) \in Seq(Entry)
<1>1. [term |-> t, cmd |-> NOOP] \in Entry
  BY DEF Entry
<1>2. log[n] \in Seq(Entry)
  BY DEF TypeOK
<1> QED
  BY <1>1, <1>2, AppendProperties DEF LogWithNoop

\* The first AppendEntries of a leader.
LEMMA FirstAppendsType ==
  ASSUME TypeOK, NEW n \in Node, NEW t \in Nat
  PROVE  FirstAppends(n, t) \subseteq AppendMessage
<1>1. log[n] \in Seq(Entry)
  BY DEF TypeOK
<1>2. [p \in Node |-> Len(log[n]) + 1] \in [Node -> Nat \ {0}]
  BY <1>1
<1>3. LogWithNoop(n, t) \in Seq(Entry)
  BY LogWithNoopType
<1> QED
  BY <1>2, <1>3, AppendMsgsType DEF FirstAppends

-----------------------------------------------------------------------------
(* Every step keeps the types.  The commit index never runs ahead of what is *)
(* applied, which is what keeps apply_committed inside the log.              *)

TypeInv == TypeOK /\ CommitApplied

\* A reply of messages leaves only messages in flight.
LEMMA RepliedType ==
  ASSUME TypeInv, NEW m, NEW S, S \subseteq Message, Reply(m, S)
  PROVE  msgs' \subseteq Message
<1>1. msgs \subseteq Message
  BY DEF TypeInv, TypeOK
<1>2. msgs' \subseteq msgs \cup S
  BY RepliedMsgs
<1> QED
  BY <1>1, <1>2

\* The state after raft_new has the types, with nothing committed or applied.
LEMMA InitType == Init => TypeInv
  BY NodeAssumption DEF Init, TypeInv, TypeOK, CommitApplied, Entry

\* A tick below the election timeout.
LEMMA ElapseTickType ==
  ASSUME TypeInv, NEW n \in Node, ElapseTick(n)
  PROVE  TypeInv'
<1> USE DEF TypeInv, TypeOK, CommitApplied
<1>1. /\ Apply(applied[n], log[n], commit_index[n]) \in Seq(Entry)
      /\ commit_index[n] <= Len(Apply(applied[n], log[n], commit_index[n]))
  BY ApplyType
<1> QED
  BY <1>1 DEF ElapseTick, termVars, memberVars, peerVars, history

\* A tick of the leader.
LEMMA LeaderTickType ==
  ASSUME TypeInv, NEW n \in Node, LeaderTick(n)
  PROVE  TypeInv'
<1>1. AppendMsgs(n, log[n], current_term[n], next_index[n]) \subseteq Message
  BY AppendMsgsType DEF TypeInv, TypeOK, Message
<1>2. msgs' \subseteq Message
  BY <1>1, SentMsgs DEF LeaderTick, TypeInv, TypeOK
<1> QED
  BY <1>2 DEF LeaderTick, TypeInv, TypeOK, CommitApplied, termVars, logVars,
              memberVars, peerVars, history

\* become_leader, as start_election and handle_request_vote_resp call it.
LEMMA BecomeLeaderType ==
  ASSUME TypeInv, NEW n \in Node, NEW t \in Nat, BecomeLeader(n, t)
  PROVE  /\ (role \in [Node -> {"follower", "candidate", "leader"}])'
         /\ (leader \in [Node -> Node \cup {NoNode}])'
         /\ (in_pre_vote \in [Node -> BOOLEAN])'
         /\ (log \in [Node -> Seq(Entry)])'
         /\ (next_index \in [Node -> [Node -> Nat \ {0}]])'
         /\ (match_index \in [Node -> [Node -> Nat]])'
         /\ (leaders \subseteq Nat \X Node)'
<1>1. LogWithNoop(n, t) \in Seq(Entry) /\ log[n] \in Seq(Entry)
  BY LogWithNoopType DEF TypeInv, TypeOK
<1>2. Len(LogWithNoop(n, t)) \in Nat /\ Len(log[n]) + 1 \in Nat \ {0}
  BY <1>1
<1> QED
  BY <1>1, <1>2 DEF BecomeLeader, TypeInv, TypeOK

\* The election timeout: a PreVote round, leading alone, or nothing.
LEMMA ElectionTickType ==
  ASSUME TypeInv, NEW n \in Node, ElectionTick(n)
  PROVE  TypeInv'
<1> USE DEF TypeInv
<1>0. current_term[n] \in Nat /\ current_term[n] + 1 \in Nat
  BY DEF TypeOK
<1>1. CASE StartPreVote(n)
  <2>1. VoteRequests(n, TRUE, current_term[n] + 1) \subseteq Message
    BY <1>0, VoteRequestsType DEF Message
  <2>2. msgs' \subseteq Message
    BY <1>1, <2>1, SentMsgs DEF StartPreVote, TypeOK
  <2>3. /\ Apply(applied[n], log[n], commit_index[n]) \in Seq(Entry)
        /\ commit_index[n] <= Len(Apply(applied[n], log[n], commit_index[n]))
    BY ApplyType DEF TypeOK, CommitApplied
  <2> QED
    BY <1>1, <2>2, <2>3 DEF ElectionTick, StartPreVote, TypeOK, CommitApplied,
                            termVars, peerVars, memberVars, history
<1>2. CASE LeadAlone(n)
  <2>1. FirstAppends(n, current_term[n] + 1) \subseteq Message
    BY <1>0, FirstAppendsType DEF Message
  <2>2. msgs' \subseteq Message
    BY <1>2, <2>1, SentMsgs DEF LeadAlone, TypeOK
  <2>3. BecomeLeader(n, current_term[n] + 1)
    BY <1>2 DEF LeadAlone
  <2>4. /\ (role \in [Node -> {"follower", "candidate", "leader"}])'
        /\ (leader \in [Node -> Node \cup {NoNode}])'
        /\ (in_pre_vote \in [Node -> BOOLEAN])'
        /\ (log \in [Node -> Seq(Entry)])'
        /\ (next_index \in [Node -> [Node -> Nat \ {0}]])'
        /\ (match_index \in [Node -> [Node -> Nat]])'
        /\ (leaders \subseteq Nat \X Node)'
    BY <1>0, <2>3, BecomeLeaderType
  <2>5. /\ Apply(applied[n], log'[n], commit_index[n]) \in Seq(Entry)
        /\ commit_index[n] <= Len(Apply(applied[n], log'[n], commit_index[n]))
    BY <2>4, ApplyType DEF TypeOK, CommitApplied
  <2>6. votes' \subseteq Nat \X Node \X Node
    BY <1>0, <1>2 DEF LeadAlone, TypeOK
  <2>7. /\ (current_term \in [Node -> Nat])'
        /\ (voted_for \in [Node -> Node \cup {NoNode}])'
        /\ (vote_granted \in [Node -> SUBSET Node])'
    BY <1>0, <1>2 DEF LeadAlone, TypeOK
  <2>8. /\ (applied \in [Node -> Seq(Entry)])'
        /\ (heard \in [Node -> BOOLEAN])'
        /\ (members \in [Node -> [Node -> {"voter", "learner", "absent"}]])'
        /\ (eligible \in [Node -> BOOLEAN])'
        /\ (commit_index \in [Node -> Nat])'
    BY <2>5 DEF ElectionTick, TypeOK, memberVars
  <2>9. CommitApplied'
    BY <2>5 DEF ElectionTick, TypeOK, CommitApplied
  <2> QED
    BY <2>2, <2>4, <2>6, <2>7, <2>8, <2>9 DEF TypeOK
<1>3. CASE StayQuiet(n)
  <2>1. /\ Apply(applied[n], log[n], commit_index[n]) \in Seq(Entry)
        /\ commit_index[n] <= Len(Apply(applied[n], log[n], commit_index[n]))
    BY ApplyType DEF TypeOK, CommitApplied
  <2> QED
    BY <1>3, <2>1 DEF ElectionTick, StayQuiet, TypeOK, CommitApplied,
                      termVars, peerVars, memberVars, history
<1> QED
  BY <1>1, <1>2, <1>3 DEF ElectionTick

\* handle_request_vote, PreVote.
LEMMA HandlePreVoteType ==
  ASSUME TypeInv, NEW m \in msgs, HandlePreVote(m)
  PROVE  TypeInv'
<1>1. m \in RequestVoteMsg
  BY MessageKinds DEF HandlePreVote, TypeInv, TypeOK
<1>2. \A g \in BOOLEAN : VoteResp(m, current_term[m.to], g) \in Message
  BY <1>1 DEF VoteResp, Message, VoteRespMsg, RequestVoteMsg, TypeInv, TypeOK
<1>3. PICK g \in BOOLEAN : Reply(m, {VoteResp(m, current_term[m.to], g)})
  BY DEF HandlePreVote
<1>4. msgs' \subseteq Message
  BY <1>2, <1>3, RepliedType
<1> QED
  BY <1>4 DEF HandlePreVote, TypeInv, TypeOK, CommitApplied, termVars, roleVars,
              logVars, memberVars, peerVars, history

\* handle_request_vote, real vote.
LEMMA HandleRequestVoteType ==
  ASSUME TypeInv, NEW m \in msgs, HandleRequestVote(m)
  PROVE  TypeInv'
<1> DEFINE n == m.to
           term == IF m.term > current_term[n] THEN m.term ELSE current_term[n]
<1>1. m \in RequestVoteMsg /\ n \in Node /\ m.from \in Node /\ m.term \in Nat
  BY MessageKinds DEF HandleRequestVote, TypeInv, TypeOK
<1>2. term \in Nat
  BY <1>1 DEF TypeInv, TypeOK
<1>3. \A g \in BOOLEAN : VoteResp(m, term, g) \in Message
  BY <1>1, <1>2 DEF VoteResp, Message, VoteRespMsg, RequestVoteMsg
<1>4. PICK g \in BOOLEAN : Reply(m, {VoteResp(m, term, g)})
  BY DEF HandleRequestVote
<1>5. msgs' \subseteq Message
  <2> HIDE DEF term
  <2> QED
    BY <1>3, <1>4, RepliedType
<1>6. votes' \subseteq votes \cup {<<term, n, m.from>>}
  BY DEF HandleRequestVote
<1>7. votes' \subseteq Nat \X Node \X Node
  <2>1. <<term, n, m.from>> \in Nat \X Node \X Node
    BY <1>1, <1>2
  <2>2. votes \subseteq Nat \X Node \X Node
    BY DEF TypeInv, TypeOK
  <2> HIDE DEF term, n
  <2> QED
    BY <1>6, <2>1, <2>2
<1>8. /\ (current_term \in [Node -> Nat])'
      /\ (voted_for \in [Node -> Node \cup {NoNode}])'
      /\ (role \in [Node -> {"follower", "candidate", "leader"}])'
      /\ (leader \in [Node -> Node \cup {NoNode}])'
      /\ (in_pre_vote \in [Node -> BOOLEAN])'
  BY <1>1 DEF HandleRequestVote, TypeInv, TypeOK
<1>9. (heard \in [Node -> BOOLEAN])'
  BY <1>1 DEF HandleRequestVote, TypeInv, TypeOK
<1> QED
  BY <1>5, <1>7, <1>8, <1>9 DEF HandleRequestVote, TypeInv, TypeOK, CommitApplied,
     logVars, memberVars, peerVars

\* become_follower keeps the types of what it writes.
LEMMA BecomeFollowerType ==
  ASSUME TypeInv, NEW n \in Node, NEW t \in Nat, NEW ldr \in Node \cup {NoNode},
         BecomeFollower(n, t, ldr)
  PROVE  /\ (current_term \in [Node -> Nat])'
         /\ (voted_for \in [Node -> Node \cup {NoNode}])'
         /\ (role \in [Node -> {"follower", "candidate", "leader"}])'
         /\ (leader \in [Node -> Node \cup {NoNode}])'
         /\ (in_pre_vote \in [Node -> BOOLEAN])'
         /\ (heard \in [Node -> BOOLEAN])'
  BY DEF BecomeFollower, TypeInv, TypeOK

\* handle_request_vote_resp, with the flag raft_recv sets first.
LEMMA HandleVoteRespType ==
  ASSUME TypeInv, NEW m \in msgs, HandleVoteResp(m)
  PROVE  TypeInv'
<1> DEFINE n == m.to
<1>1. m \in VoteRespMsg /\ n \in Node /\ m.from \in Node /\ m.term \in Nat
  BY MessageKinds DEF HandleVoteResp, TypeInv, TypeOK
<1>2. Flagged(m) \subseteq Node
  BY <1>1 DEF Flagged, TypeInv, TypeOK
<1>3. current_term[n] \in Nat /\ current_term[n] + 1 \in Nat
  BY <1>1 DEF TypeInv, TypeOK
<1>4. /\ commit_index' = commit_index /\ applied' = applied
      /\ members' = members /\ eligible' = eligible
  BY DEF HandleVoteResp, memberVars
<1>5. CASE VoteRespStepDown(m)
  <2>1. BecomeFollower(n, m.term, NoNode)
    BY <1>5 DEF VoteRespStepDown
  <2>2. /\ (current_term \in [Node -> Nat])'
        /\ (voted_for \in [Node -> Node \cup {NoNode}])'
        /\ (role \in [Node -> {"follower", "candidate", "leader"}])'
        /\ (leader \in [Node -> Node \cup {NoNode}])'
        /\ (in_pre_vote \in [Node -> BOOLEAN])'
        /\ (heard \in [Node -> BOOLEAN])'
    BY <1>1, <2>1, BecomeFollowerType
  <2>3. msgs' \subseteq Message
    BY <1>5, RepliedType DEF VoteRespStepDown
  <2> QED
    BY <1>1, <1>2, <1>4, <1>5, <2>2, <2>3 DEF VoteRespStepDown, TypeInv, TypeOK,
       CommitApplied, peerVars, history
<1>6. CASE VoteRespRecord(m)
  <2>1. msgs' \subseteq Message
    BY <1>6, RepliedType DEF VoteRespRecord
  <2> QED
    BY <1>1, <1>2, <1>4, <1>6, <2>1 DEF VoteRespRecord, TypeInv, TypeOK,
       CommitApplied, termVars, roleVars, peerVars, history
<1>7. CASE PreVoteWon(m)
  <2>1. VoteRequests(n, FALSE, current_term[n] + 1) \subseteq Message
    BY <1>1, <1>3, VoteRequestsType DEF Message, TypeInv
  <2>2. msgs' \subseteq Message
    BY <1>7, <2>1, RepliedType DEF PreVoteWon
  <2>3. votes' \subseteq Nat \X Node \X Node
    <3>1. votes' = votes \cup {<<current_term[n] + 1, n, n>>}
      BY <1>7 DEF PreVoteWon
    <3>2. <<current_term[n] + 1, n, n>> \in Nat \X Node \X Node
      BY <1>1, <1>3
    <3>3. votes \subseteq Nat \X Node \X Node
      BY DEF TypeInv, TypeOK
    <3> QED
      BY <3>1, <3>2, <3>3
  <2>4. /\ (current_term \in [Node -> Nat])'
        /\ (voted_for \in [Node -> Node \cup {NoNode}])'
        /\ (vote_granted \in [Node -> SUBSET Node])'
    BY <1>1, <1>3, <1>7 DEF PreVoteWon, TypeInv, TypeOK
  <2>5. /\ (in_pre_vote \in [Node -> BOOLEAN])'
        /\ (heard \in [Node -> BOOLEAN])'
    BY <1>7 DEF PreVoteWon, TypeInv, TypeOK
  <2>6. UNCHANGED <<role, leader, log, next_index, match_index, leaders>>
    BY <1>7 DEF PreVoteWon, peerVars
  <2> QED
    BY <1>4, <2>2, <2>3, <2>4, <2>5, <2>6 DEF TypeInv, TypeOK, CommitApplied
<1>8. CASE ElectionWon(m)
  <2>1. BecomeLeader(n, current_term[n])
    BY <1>8 DEF ElectionWon
  <2>2. /\ (role \in [Node -> {"follower", "candidate", "leader"}])'
        /\ (leader \in [Node -> Node \cup {NoNode}])'
        /\ (in_pre_vote \in [Node -> BOOLEAN])'
        /\ (log \in [Node -> Seq(Entry)])'
        /\ (next_index \in [Node -> [Node -> Nat \ {0}]])'
        /\ (match_index \in [Node -> [Node -> Nat]])'
        /\ (leaders \subseteq Nat \X Node)'
    BY <1>1, <1>3, <2>1, BecomeLeaderType
  <2>3. FirstAppends(n, current_term[n]) \subseteq Message
    BY <1>1, <1>3, FirstAppendsType DEF Message, TypeInv
  <2>4. msgs' \subseteq Message
    BY <1>8, <2>3, RepliedType DEF ElectionWon
  <2>5. (vote_granted \in [Node -> SUBSET Node])'
    BY <1>1, <1>2, <1>8 DEF ElectionWon, TypeInv, TypeOK
  <2> QED
    BY <1>4, <1>8, <2>2, <2>4, <2>5 DEF ElectionWon, TypeInv, TypeOK, CommitApplied,
       termVars
<1> QED
  BY <1>5, <1>6, <1>7, <1>8 DEF HandleVoteResp

\* handle_append of an older term, or that does not match.
LEMMA RefuseAppendType ==
  ASSUME TypeInv, NEW m \in msgs, RejectAppend(m) \/ MismatchAppend(m)
  PROVE  TypeInv'
<1> DEFINE n == m.to
<1>1. m \in AppendMessage /\ n \in Node /\ m.from \in Node /\ m.term \in Nat
  BY MessageKinds DEF RejectAppend, MismatchAppend, TypeInv, TypeOK
<1>2. \A t \in Nat : AppendResp(m, t, FALSE, 0) \in Message
  BY <1>1 DEF AppendResp, Message, AppendRespMsg
<1>3. CASE RejectAppend(m)
  <2>0. /\ AppendResp(m, current_term[n], FALSE, 0) \in Message
        /\ Reply(m, {AppendResp(m, current_term[n], FALSE, 0)})
    BY <1>1, <1>2, <1>3 DEF RejectAppend, TypeInv, TypeOK
  <2>1. msgs' \subseteq Message
    BY <2>0, RepliedType
  <2> QED
    BY <1>3, <2>1 DEF RejectAppend, TypeInv, TypeOK, CommitApplied, termVars,
       roleVars, logVars, memberVars, peerVars, history
<1>4. CASE MismatchAppend(m)
  <2>1. msgs' \subseteq Message
    <3>1. AppendResp(m, m.term, FALSE, 0) \in Message
      BY <1>1, <1>2
    <3>2. Reply(m, {AppendResp(m, m.term, FALSE, 0)})
      BY <1>4 DEF MismatchAppend
    <3> QED
      BY <3>1, <3>2, RepliedType
  <2>2. BecomeFollower(n, m.term, m.from)
    BY <1>4 DEF MismatchAppend
  <2>3. /\ (current_term \in [Node -> Nat])'
        /\ (voted_for \in [Node -> Node \cup {NoNode}])'
        /\ (role \in [Node -> {"follower", "candidate", "leader"}])'
        /\ (leader \in [Node -> Node \cup {NoNode}])'
        /\ (in_pre_vote \in [Node -> BOOLEAN])'
        /\ (heard \in [Node -> BOOLEAN])'
    BY <1>1, <2>2, BecomeFollowerType
  <2> QED
    BY <1>4, <2>1, <2>3 DEF MismatchAppend, TypeInv, TypeOK, CommitApplied,
       logVars, memberVars, peerVars, history
<1> QED
  BY <1>3, <1>4

\* handle_append that matches.
LEMMA AcceptAppendType ==
  ASSUME TypeInv, NEW m \in msgs, AcceptAppend(m)
  PROVE  TypeInv'
<1> DEFINE n == m.to
           lg == Merged(log[n], m.prev_log_index, m.entries)
           commit == CommitAfter(n, lg, m)
<1>1. /\ m \in AppendMessage /\ n \in Node /\ m.from \in Node /\ m.term \in Nat
      /\ m.prev_log_index \in Nat /\ m.entries \in Seq(Entry) /\ m.leader_commit \in Nat
  BY MessageKinds DEF AcceptAppend, TypeInv, TypeOK, AppendMessage
<1>2. lg \in Seq(Entry)
  BY <1>1, MergedType DEF AcceptAppend, LogMatches, TypeInv, TypeOK
<1> HIDE DEF lg
<1>3. commit \in Nat /\ (commit <= Len(lg) \/ commit <= Len(applied[n]))
  <2>1. Len(lg) \in Nat
    BY <1>2
  <2>2. commit_index[n] \in Nat /\ commit_index[n] <= Len(applied[n])
    BY <1>1 DEF TypeInv, TypeOK, CommitApplied
  <2> HIDE DEF n
  <2> QED
    BY <1>1, <2>1, <2>2 DEF CommitAfter, Smaller
<1> HIDE DEF commit
<1>4. /\ Apply(applied[n], lg, commit) \in Seq(Entry)
      /\ commit <= Len(Apply(applied[n], lg, commit))
  BY <1>1, <1>2, <1>3, ApplyType DEF TypeInv, TypeOK
<1>5. AppendResp(m, m.term, TRUE, m.prev_log_index + Len(m.entries)) \in Message
  BY <1>1 DEF AppendResp, Message, AppendRespMsg
<1>6. msgs' \subseteq Message
  <2>1. Reply(m, {AppendResp(m, m.term, TRUE, m.prev_log_index + Len(m.entries))})
    BY DEF AcceptAppend
  <2> QED
    BY <1>5, <2>1, RepliedType
<1>7. BecomeFollower(n, m.term, m.from)
  BY DEF AcceptAppend
<1>8. /\ (current_term \in [Node -> Nat])'
      /\ (voted_for \in [Node -> Node \cup {NoNode}])'
      /\ (role \in [Node -> {"follower", "candidate", "leader"}])'
      /\ (leader \in [Node -> Node \cup {NoNode}])'
      /\ (in_pre_vote \in [Node -> BOOLEAN])'
      /\ (heard \in [Node -> BOOLEAN])'
  BY <1>1, <1>7, BecomeFollowerType
<1>9. /\ log' = [log EXCEPT ![n] = lg]
      /\ commit_index' = [commit_index EXCEPT ![n] = commit]
      /\ applied' = [applied EXCEPT ![n] = Apply(applied[n], lg, commit)]
      /\ UNCHANGED <<memberVars, vote_granted, peerVars, history>>
  BY DEF AcceptAppend, lg, commit
<1> QED
  BY <1>1, <1>2, <1>3, <1>4, <1>6, <1>8, <1>9 DEF TypeInv, TypeOK, CommitApplied,
     memberVars, peerVars, history

\* Writing one entry of a node's next_index table keeps the tables' type.
LEMMA SetNextType ==
  ASSUME NEW f \in [Node -> [Node -> Nat \ {0}]], NEW n \in Node, NEW p \in Node,
         NEW x \in Nat \ {0}
  PROVE  [f EXCEPT ![n][p] = x] \in [Node -> [Node -> Nat \ {0}]]
<1>1. f[n] \in [Node -> Nat \ {0}]
  OBVIOUS
<1>2. [f[n] EXCEPT ![p] = x] \in [Node -> Nat \ {0}]
  BY <1>1
<1> QED
  BY <1>2

\* handle_append_resp.
LEMMA HandleAppendRespType ==
  ASSUME TypeInv, NEW m \in msgs, HandleAppendResp(m)
  PROVE  TypeInv'
<1> DEFINE n == m.to
<1>1. /\ m \in AppendRespMsg /\ n \in Node /\ m.from \in Node /\ m.term \in Nat
      /\ m.match_index \in Nat
  BY MessageKinds DEF HandleAppendResp, TypeInv, TypeOK, AppendRespMsg
<1>2. UNCHANGED <<members, eligible, vote_granted, votes, leaders>>
  BY DEF HandleAppendResp, memberVars, history
<1>3. CASE AppendRespStepDown(m)
  <2>1. BecomeFollower(n, m.term, NoNode)
    BY <1>3 DEF AppendRespStepDown
  <2>2. /\ (current_term \in [Node -> Nat])'
        /\ (voted_for \in [Node -> Node \cup {NoNode}])'
        /\ (role \in [Node -> {"follower", "candidate", "leader"}])'
        /\ (leader \in [Node -> Node \cup {NoNode}])'
        /\ (in_pre_vote \in [Node -> BOOLEAN])'
        /\ (heard \in [Node -> BOOLEAN])'
    BY <1>1, <2>1, BecomeFollowerType
  <2>3. msgs' \subseteq Message
    BY <1>3, RepliedType DEF AppendRespStepDown
  <2> QED
    BY <1>2, <1>3, <2>2, <2>3 DEF AppendRespStepDown, TypeInv, TypeOK, CommitApplied,
       logVars, peerVars
<1>4. CASE AppendRespSuccess(m)
  <2> DEFINE match == IF m.match_index > match_index[n][m.from]
                      THEN m.match_index ELSE match_index[n][m.from]
             matches == [match_index[n] EXCEPT ![m.from] = match]
             commit == AdvanceCommit(n, log[n], matches)
  <2>0. match_index[n] \in [Node -> Nat] /\ match_index[n][m.from] \in Nat
    BY <1>1 DEF TypeInv, TypeOK
  <2>1. match \in Nat /\ matches \in [Node -> Nat]
    BY <1>1, <2>0
  <2> HIDE DEF match, matches
  <2>2. log[n] \in Seq(Entry) /\ commit_index[n] <= Len(applied[n])
    BY <1>1 DEF TypeInv, TypeOK, CommitApplied
  <2>3. commit \in Nat /\ (commit <= Len(log[n]) \/ commit = commit_index[n])
    BY <1>1, <2>2, AdvanceCommitType DEF TypeInv
  <2> HIDE DEF commit
  <2>4. /\ Apply(applied[n], log[n], commit) \in Seq(Entry)
        /\ commit <= Len(Apply(applied[n], log[n], commit))
    BY <1>1, <2>2, <2>3, ApplyType DEF TypeInv, TypeOK
  <2>5. /\ match_index' = [match_index EXCEPT ![n] = matches]
        /\ next_index' = [next_index EXCEPT ![n][m.from] = match + 1]
        /\ commit_index' = [commit_index EXCEPT ![n] = commit]
        /\ applied' = [applied EXCEPT ![n] = Apply(applied[n], log[n], commit)]
        /\ UNCHANGED <<termVars, roleVars, log>>
    BY <1>4 DEF AppendRespSuccess, match, matches, commit
  <2>6. msgs' \subseteq Message
    BY <1>4, RepliedType DEF AppendRespSuccess
  <2>7. (next_index \in [Node -> [Node -> Nat \ {0}]])'
    <3>1. match + 1 \in Nat \ {0} /\ next_index \in [Node -> [Node -> Nat \ {0}]]
      BY <2>1 DEF TypeInv, TypeOK
    <3> QED
      BY <1>1, <2>5, <3>1, SetNextType
  <2>8. (match_index \in [Node -> [Node -> Nat]])'
    BY <1>1, <2>1, <2>5 DEF TypeInv, TypeOK
  <2>9. /\ (commit_index \in [Node -> Nat])'
        /\ (applied \in [Node -> Seq(Entry)])'
        /\ CommitApplied'
    BY <1>1, <2>3, <2>4, <2>5 DEF TypeInv, TypeOK, CommitApplied
  <2> QED
    BY <1>2, <2>5, <2>6, <2>7, <2>8, <2>9 DEF TypeInv, TypeOK, termVars, roleVars
<1>5. CASE AppendRespBackOff(m)
  <2> DEFINE next == next_index[n][m.from] - 1
  <2>0. next_index[n] \in [Node -> Nat \ {0}] /\ next_index[n][m.from] > 1
    BY <1>1, <1>5 DEF AppendRespBackOff, TypeInv, TypeOK
  <2>1. next \in Nat \ {0}
    BY <1>1, <2>0
  <2>2. next_index' = [next_index EXCEPT ![n][m.from] = next]
    BY <1>5 DEF AppendRespBackOff
  <2> DEFINE out == AppendMsg(n, m.from, log[n], current_term[n], next, commit_index[n])
  <2>3. Reply(m, {out})
    BY <1>5 DEF AppendRespBackOff
  <2> HIDE DEF next
  <2>4. out \in Message
    BY <1>1, <2>1, AppendMsgType DEF TypeInv, TypeOK, Message
  <2>5. msgs' \subseteq Message
    BY <2>3, <2>4, RepliedType
  <2>6. (next_index \in [Node -> [Node -> Nat \ {0}]])'
    BY <1>1, <2>1, <2>2, SetNextType DEF TypeInv, TypeOK
  <2> QED
    BY <1>2, <1>5, <2>5, <2>6 DEF AppendRespBackOff, TypeInv, TypeOK, CommitApplied,
       termVars, roleVars, logVars
<1> QED
  BY <1>3, <1>4, <1>5 DEF HandleAppendResp

\* raft_propose.
LEMMA ProposeType ==
  ASSUME TypeInv, NEW n \in Node, NEW c \in Command, Propose(n, c)
  PROVE  TypeInv'
<1> DEFINE lg == Append(log[n], [term |-> current_term[n], cmd |-> c])
           matches == [match_index[n] EXCEPT ![n] = Len(lg)]
           commit == AdvanceCommit(n, lg, matches)
<1>1. [term |-> current_term[n], cmd |-> c] \in Entry
  BY DEF TypeInv, TypeOK, Entry
<1>2. lg \in Seq(Entry)
  BY <1>1, AppendProperties DEF TypeInv, TypeOK
<1> HIDE DEF lg
<1>3. matches \in [Node -> Nat]
  BY <1>2 DEF TypeInv, TypeOK
<1> HIDE DEF matches
<1>4. commit \in Nat /\ (commit <= Len(lg) \/ commit = commit_index[n])
  BY <1>2, AdvanceCommitType DEF TypeInv
<1> HIDE DEF commit
<1>5. /\ Apply(applied[n], lg, commit) \in Seq(Entry)
      /\ commit <= Len(Apply(applied[n], lg, commit))
  BY <1>2, <1>4, ApplyType DEF TypeInv, TypeOK, CommitApplied
<1>6. AppendMsgs(n, lg, current_term[n], next_index[n]) \subseteq Message
  BY <1>2, AppendMsgsType DEF TypeInv, TypeOK, Message
<1>7. /\ log' = [log EXCEPT ![n] = lg]
      /\ match_index' = [match_index EXCEPT ![n] = matches]
      /\ Send(AppendMsgs(n, lg, current_term[n], next_index[n]))
      /\ commit_index' = [commit_index EXCEPT ![n] = commit]
      /\ applied' = [applied EXCEPT ![n] = Apply(applied[n], lg, commit)]
      /\ UNCHANGED <<termVars, roleVars, memberVars, vote_granted, next_index, history>>
  BY DEF Propose, lg, matches, commit
<1>8. msgs' \subseteq Message
  BY <1>6, <1>7, SentMsgs DEF TypeInv, TypeOK
<1> QED
  BY <1>2, <1>3, <1>4, <1>5, <1>7, <1>8 DEF TypeInv, TypeOK, CommitApplied,
     termVars, roleVars, memberVars, history

\* Every step of every node keeps the types, candidacy changes included.
LEMMA NextType == TypeInv /\ [GateNext]_vars => TypeInv'
<1> SUFFICES ASSUME TypeInv, [GateNext]_vars
             PROVE  TypeInv'
  OBVIOUS
<1>1. CASE UNCHANGED vars
  BY <1>1 DEF vars, termVars, roleVars, logVars, memberVars, peerVars, history,
              TypeInv, TypeOK, CommitApplied
<1>2. ASSUME NEW n \in Node, Tick(n)
      PROVE  TypeInv'
  BY <1>2, ElapseTickType, LeaderTickType, ElectionTickType DEF Tick
<1>3. ASSUME NEW n \in Node, NEW c \in Command, Propose(n, c)
      PROVE  TypeInv'
  BY <1>3, ProposeType
<1>4. ASSUME NEW m \in msgs, Recv(m)
      PROVE  TypeInv'
  BY <1>4, HandlePreVoteType, HandleRequestVoteType, HandleVoteRespType,
     RefuseAppendType, AcceptAppendType, HandleAppendRespType DEF Recv
<1>5. ASSUME NEW m \in msgs, Lose(m)
      PROVE  TypeInv'
  BY <1>5 DEF Lose, TypeInv, TypeOK, CommitApplied, termVars, roleVars, logVars,
              memberVars, peerVars, history
<1>6. ASSUME NEW n \in Node, NEW e \in BOOLEAN, SetEligible(n, e)
      PROVE  TypeInv'
  BY <1>6 DEF SetEligible, TypeInv, TypeOK, CommitApplied, termVars, roleVars,
              logVars, peerVars, history
<1> QED
  BY <1>1, <1>2, <1>3, <1>4, <1>5, <1>6 DEF GateNext, Next

\* A step of Next is a step of GateNext.
LEMMA SpecGates == Spec => GateSpec
<1>1. [Next]_vars => [GateNext]_vars
  BY DEF GateNext
<1> QED
  BY <1>1, PTL DEF Spec, GateSpec

\* raft_add_member, raft_remove_member and raft_promote.
LEMMA ChangeMemberType ==
  ASSUME TypeInv, NEW n \in Node, NEW p \in Node, ChangeMember(n, p)
  PROVE  TypeInv'
<1> USE DEF TypeInv, TypeOK
<1>1. members[n] \in [Node -> {"voter", "learner", "absent"}]
  OBVIOUS
<1>2. ASSUME NEW class \in {"voter", "learner", "absent"},
             members' = [members EXCEPT ![n][p] = class]
      PROVE  (members \in [Node -> [Node -> {"voter", "learner", "absent"}]])'
  <2>1. [members[n] EXCEPT ![p] = class] \in [Node -> {"voter", "learner", "absent"}]
    BY <1>1
  <2> QED
    BY <1>2, <2>1
<1>3. ASSUME NEW class \in {"voter", "learner"}, AddMember(n, p, class)
      PROVE  TypeInv'
  <2>1. Len(log[n]) + 1 \in Nat \ {0}
    <3>1. log[n] \in Seq(Entry)
      OBVIOUS
    <3> QED
      BY <3>1, LenProperties
  <2>2. (next_index \in [Node -> [Node -> Nat \ {0}]])'
    BY <1>3, <2>1, SetNextType DEF AddMember
  <2>3. match_index[n] \in [Node -> Nat]
    OBVIOUS
  <2>4. [match_index[n] EXCEPT ![p] = 0] \in [Node -> Nat]
    BY <2>3
  <2>5. (match_index \in [Node -> [Node -> Nat]])'
    BY <1>3, <2>4 DEF AddMember
  <2>6. vote_granted[n] \ {p} \in SUBSET Node
    OBVIOUS
  <2>7. (vote_granted \in [Node -> SUBSET Node])'
    BY <1>3, <2>6 DEF AddMember
  <2>8. (members \in [Node -> [Node -> {"voter", "learner", "absent"}]])'
    BY <1>2, <1>3 DEF AddMember
  <2> QED
    BY <1>3, <2>2, <2>5, <2>7, <2>8 DEF AddMember, CommitApplied, termVars, roleVars,
       logVars, history
<1>4. ASSUME RemoveMember(n, p)
      PROVE  TypeInv'
  <2>1. (members \in [Node -> [Node -> {"voter", "learner", "absent"}]])'
    BY <1>2, <1>4 DEF RemoveMember
  <2> QED
    BY <1>4, <2>1 DEF RemoveMember, CommitApplied, termVars, roleVars, logVars, peerVars,
       history
<1>5. ASSUME PromoteMember(n, p)
      PROVE  TypeInv'
  <2>1. (members \in [Node -> [Node -> {"voter", "learner", "absent"}]])'
    BY <1>2, <1>5 DEF PromoteMember
  <2>2. (eligible \in [Node -> BOOLEAN])'
    BY <1>5 DEF PromoteMember
  <2> QED
    BY <1>5, <2>1, <2>2 DEF PromoteMember, CommitApplied, termVars, roleVars, logVars,
       peerVars, history
<1> QED
  BY <1>3, <1>4, <1>5 DEF ChangeMember

\* A node that starts over.
LEMMA RestartType ==
  ASSUME TypeInv, NEW n \in Node, Restart(n)
  PROVE  TypeInv'
<1> USE DEF TypeInv, TypeOK
<1>1. <<>> \in Seq(Entry) /\ Len(<<>>) = 0
  BY EmptySeq
<1>2. /\ (current_term \in [Node -> Nat])'
      /\ (voted_for \in [Node -> Node \cup {NoNode}])'
      /\ (role \in [Node -> {"follower", "candidate", "leader"}])'
      /\ (leader \in [Node -> Node \cup {NoNode}])'
      /\ (heard \in [Node -> BOOLEAN])'
      /\ (in_pre_vote \in [Node -> BOOLEAN])'
      /\ (vote_granted \in [Node -> SUBSET Node])'
  BY DEF Restart
<1>3. /\ (next_index \in [Node -> [Node -> Nat \ {0}]])'
      /\ (match_index \in [Node -> [Node -> Nat]])'
  <2>1. [p \in Node |-> 1] \in [Node -> Nat \ {0}] /\ [p \in Node |-> 0] \in [Node -> Nat]
    OBVIOUS
  <2> QED
    BY <2>1 DEF Restart
<1>4. /\ (log \in [Node -> Seq(Entry)])'
      /\ (commit_index \in [Node -> Nat])'
      /\ (applied \in [Node -> Seq(Entry)])'
      /\ CommitApplied'
  BY <1>1 DEF Restart, CommitApplied
<1> QED
  BY <1>2, <1>3, <1>4 DEF Restart, memberVars, history

LEMMA OpsType == TypeInv /\ [OpsNext]_vars => TypeInv'
<1> SUFFICES ASSUME TypeInv, [OpsNext]_vars
             PROVE  TypeInv'
  OBVIOUS
<1>1. CASE [GateNext]_vars
  BY <1>1, NextType
<1>2. ASSUME NEW n \in Node, NEW p \in Node, ChangeMember(n, p)
      PROVE  TypeInv'
  BY <1>2, ChangeMemberType
<1>3. ASSUME NEW n \in Node, Restart(n)
      PROVE  TypeInv'
  BY <1>3, RestartType
<1> QED
  BY <1>1, <1>2, <1>3 DEF OpsNext, ReconfNext

\* raft_t's fields and the messages on the wire always have their types, even when
\* nodes change their candidacy and their member tables at will and forget everything
\* in a restart: next_index, for one, never falls to 0.
THEOREM TypeCorrect == OpsSpec => []TypeOK
<1>1. TypeInv => TypeOK
  BY DEF TypeInv
<1> QED
  BY <1>1, InitType, OpsType, PTL DEF OpsSpec

-----------------------------------------------------------------------------
(* Election safety.  Votes are counted only for the round that asked for them *)
(* provided no vote reply outlives its round: StaleReplies names neither      *)
(* "prevote" nor "vote".                                                      *)

IsGrant(m) == m.type = "VoteResp" /\ m.granted /\ ~m.pre_vote

\* A step that gives no vote, elects nobody and sends no grant keeps ElectionInv.
LEMMA QuietStep ==
  ASSUME TypeOK, TypeOK', ElectionInv,
         UNCHANGED <<members, votes, leaders>>,
         \A n \in Node :
           \/ current_term[n] < current_term'[n]
           \/ current_term'[n] = current_term[n] /\ voted_for'[n] = voted_for[n],
         \A m \in msgs' : m \in msgs \/ ~IsGrant(m),
         \A n \in Node : InRealRound(n)' =>
           /\ current_term'[n] = current_term[n]
           /\ \A p \in vote_granted'[n] : <<current_term[n], p, n>> \in votes
  PROVE  ElectionInv'
<1>1. StaticMembers' /\ VotesOnce' /\ LeadersElected'
  BY DEF ElectionInv, StaticMembers, VotesOnce, LeadersElected
<1>2. VotesRemembered'
  <2>1. ASSUME NEW v \in votes
        PROVE  /\ v[1] <= current_term'[v[2]]
               /\ v[1] = current_term'[v[2]] => voted_for'[v[2]] = v[3]
    <3>1. v[1] \in Nat /\ v[2] \in Node
      BY DEF TypeOK
    <3>2. current_term[v[2]] \in Nat /\ current_term'[v[2]] \in Nat
      BY <3>1 DEF TypeOK
    <3>3. /\ v[1] <= current_term[v[2]]
          /\ v[1] = current_term[v[2]] => voted_for[v[2]] = v[3]
      BY DEF ElectionInv, VotesRemembered
    <3> QED
      BY <3>1, <3>2, <3>3
  <2> QED
    BY <2>1 DEF VotesRemembered
<1>3. GrantsAreVotes'
  BY DEF ElectionInv, GrantsAreVotes, IsGrant
<1>4. TalliesAreVotes'
  BY DEF TalliesAreVotes
<1> QED
  BY <1>1, <1>2, <1>3, <1>4 DEF ElectionInv

\* A vote for c by n in term t, which n could still give: nobody votes twice.
LEMMA CastVote ==
  ASSUME TypeOK, TypeOK', VotesOnce, VotesRemembered,
         NEW n \in Node, NEW c \in Node, NEW t \in Nat,
         t > current_term[n] \/ (t = current_term[n] /\ voted_for[n] \in {NoNode, c}),
         votes' = votes \cup {<<t, n, c>>},
         current_term' = [current_term EXCEPT ![n] = t],
         voted_for' = [voted_for EXCEPT ![n] = c]
  PROVE  VotesOnce' /\ VotesRemembered'
<1>1. ASSUME NEW v \in votes, v[2] = n, v[1] = t
      PROVE  v[3] = c
  <2>1. v[1] \in Nat /\ v[3] \in Node /\ current_term[n] \in Nat
    BY DEF TypeOK
  <2>2. v[1] <= current_term[n] /\ (v[1] = current_term[n] => voted_for[n] = v[3])
    BY <1>1 DEF VotesRemembered
  <2>3. v[3] # NoNode
    BY <2>1, NodeAssumption
  <2> QED
    BY <1>1, <2>1, <2>2, <2>3
<1>2. VotesOnce'
  BY <1>1 DEF VotesOnce
<1>3. ASSUME NEW v \in votes'
      PROVE  /\ v[1] <= current_term'[v[2]]
             /\ v[1] = current_term'[v[2]] => voted_for'[v[2]] = v[3]
  <2>1. CASE v = <<t, n, c>>
    BY <2>1 DEF TypeOK
  <2>2. CASE v \in votes /\ v[2] # n
    <3>1. v[2] \in Node
      BY <2>2 DEF TypeOK
    <3> QED
      BY <2>2, <3>1 DEF VotesRemembered, TypeOK
  <2>3. CASE v \in votes /\ v[2] = n
    <3>1. v[1] \in Nat /\ current_term[n] \in Nat /\ v[1] <= current_term[n]
      BY <2>3 DEF TypeOK, VotesRemembered
    <3>2. current_term'[n] = t /\ voted_for'[n] = c
      BY DEF TypeOK
    <3> QED
      BY <1>1, <2>3, <3>1, <3>2
  <2> QED
    BY <2>1, <2>2, <2>3
<1> QED
  BY <1>2, <1>3 DEF VotesRemembered

\* Under StaticMembers a node's view of the voters is the constant one.
LEMMA VotersFixed ==
  ASSUME StaticMembers, NEW n \in Node
  PROVE  /\ VotersOf(n) = Voters
         /\ quorum(n) = Cardinality(Voters) \div 2 + 1
         /\ members[n][n] = "voter" <=> n \in Voters
<1>1. VotersOf(n) = Voters
  BY NodeAssumption DEF StaticMembers, VotersOf
<1> QED
  BY <1>1 DEF quorum, StaticMembers

\* Two quorums of the voters share a voter.
LEMMA QuorumsMeet ==
  ASSUME NEW Q \in SUBSET Voters, NEW R \in SUBSET Voters, IsQuorum(Q), IsQuorum(R)
  PROVE  Q \cap R # {}
<1>1. IsFiniteSet(Voters)
  BY NodeAssumption, FS_Subset
<1>2. /\ Cardinality(Voters) \in Nat
      /\ Cardinality(Q) \in Nat /\ Cardinality(R) \in Nat
  BY <1>1, FS_Subset, FS_CardinalityType
<1>3. Cardinality(Q) + Cardinality(R) > Cardinality(Voters)
  BY <1>2 DEF IsQuorum
<1> QED
  BY <1>1, <1>3, FS_MajoritiesIntersect

\* A leader elected with the votes of quorum Q.
LEMMA LeaderJoins ==
  ASSUME LeadersElected, NEW t, NEW n, NEW Q \in SUBSET Voters, IsQuorum(Q),
         votes \subseteq votes', \A p \in Q : <<t, p, n>> \in votes',
         leaders' = leaders \cup {<<t, n>>}
  PROVE  LeadersElected'
<1>1. ASSUME NEW l \in leaders'
      PROVE  \E R \in SUBSET Voters :
               IsQuorum(R) /\ \A p \in R : <<l[1], p, l[2]>> \in votes'
  <2>1. CASE l = <<t, n>>
    BY <2>1
  <2>2. CASE l \in leaders
    BY <2>2 DEF LeadersElected
  <2> QED
    BY <2>1, <2>2
<1> QED
  BY <1>1 DEF LeadersElected, IsQuorum

\* raft_tick: only a sole voter changes the votes, and it elects itself.
LEMMA TickElection ==
  ASSUME TypeInv, TypeInv', ElectionInv, NEW n \in Node, Tick(n)
  PROVE  ElectionInv'
<1> USE DEF TypeInv
<1>1. CASE ElapseTick(n)
  BY <1>1, QuietStep DEF ElapseTick, ElectionInv, TalliesAreVotes, InRealRound,
                         termVars, memberVars, history
<1>2. CASE LeaderTick(n)
  <2>1. \A m \in msgs' : m \in msgs \/ ~IsGrant(m)
    <3>1. msgs' \subseteq msgs \cup AppendMsgs(n, log[n], current_term[n], next_index[n])
      BY <1>2, SentMsgs DEF LeaderTick
    <3>2. AppendMsgs(n, log[n], current_term[n], next_index[n]) \subseteq AppendMessage
      BY AppendMsgsType DEF TypeOK
    <3> QED
      BY <3>1, <3>2 DEF AppendMessage, IsGrant
  <2> QED
    BY <1>2, <2>1, QuietStep DEF LeaderTick, ElectionInv, TalliesAreVotes, InRealRound,
                           termVars, memberVars, history
<1>3. CASE ElectionTick(n) /\ StartPreVote(n)
  <2>1. \A m \in msgs' : m \in msgs \/ ~IsGrant(m)
    <3>1. msgs' \subseteq msgs \cup VoteRequests(n, TRUE, current_term[n] + 1)
      BY <1>3, SentMsgs DEF StartPreVote
    <3>0. current_term[n] + 1 \in Nat
      BY DEF TypeOK
    <3>2. VoteRequests(n, TRUE, current_term[n] + 1) \subseteq RequestVoteMsg
      BY <3>0, VoteRequestsType
    <3> QED
      BY <3>1, <3>2 DEF RequestVoteMsg, IsGrant
  <2>2. \A p \in Node : InRealRound(p)' =>
          InRealRound(p) /\ vote_granted'[p] = vote_granted[p]
    BY <1>3 DEF StartPreVote, InRealRound, TypeOK
  <2> QED
    BY <1>3, <2>1, <2>2, QuietStep DEF ElectionTick, StartPreVote, ElectionInv,
       TalliesAreVotes, termVars, memberVars, history
<1>4. CASE ElectionTick(n) /\ StayQuiet(n)
  BY <1>4, QuietStep DEF ElectionTick, StayQuiet, ElectionInv, TalliesAreVotes,
     InRealRound, termVars, memberVars, history
<1>5. CASE ElectionTick(n) /\ LeadAlone(n)
  <2> DEFINE t == current_term[n] + 1
  <2>1. current_term[n] \in Nat /\ t \in Nat /\ t > current_term[n]
    BY DEF TypeOK
  <2>2. /\ current_term' = [current_term EXCEPT ![n] = t]
        /\ voted_for' = [voted_for EXCEPT ![n] = n]
        /\ votes' = votes \cup {<<t, n, n>>}
        /\ BecomeLeader(n, t) /\ members' = members
    BY <1>5 DEF ElectionTick, LeadAlone, memberVars
  <2>3. StaticMembers' /\ StaticMembers
    BY <2>2 DEF ElectionInv, StaticMembers
  <2>4. VotesOnce' /\ VotesRemembered'
    BY <2>1, <2>2, CastVote DEF ElectionInv
  <2>5. LeadersElected'
    <3>1. n \in Voters /\ Cardinality(Voters) = 1
      BY <1>5, <2>3, VotersFixed DEF LeadAlone, SelfIsEligibleVoter
    <3>2. IsQuorum({n})
      <4>1. Cardinality({n}) = 1
        BY FS_Singleton
      <4>2. 1 >= 1 \div 2 + 1
        OBVIOUS
      <4> QED
        BY <3>1, <4>1, <4>2 DEF IsQuorum
    <3>3. leaders' = leaders \cup {<<t, n>>}
      BY <2>2 DEF BecomeLeader
    <3> HIDE DEF t
    <3> QED
      BY <2>2, <3>1, <3>2, <3>3, LeaderJoins DEF ElectionInv
  <2>6. GrantsAreVotes'
    <3>1. msgs' \subseteq msgs \cup FirstAppends(n, t)
      BY <1>5, SentMsgs DEF LeadAlone
    <3>2. FirstAppends(n, t) \subseteq AppendMessage
      BY <2>1, FirstAppendsType
    <3> QED
      BY <2>2, <3>1, <3>2 DEF AppendMessage, GrantsAreVotes, ElectionInv
  <2>7. TalliesAreVotes'
    <3>1. ASSUME NEW p \in Node, InRealRound(p)'
          PROVE  p # n /\ InRealRound(p)
      BY <2>2, <3>1 DEF BecomeLeader, InRealRound, TypeOK
    <3>2. \A p \in Node \ {n} : vote_granted'[p] = vote_granted[p]
      BY <1>5 DEF LeadAlone, TypeOK
    <3> QED
      BY <2>2, <3>1, <3>2 DEF ElectionInv, TalliesAreVotes, TypeOK
  <2> QED
    BY <2>3, <2>4, <2>5, <2>6, <2>7 DEF ElectionInv
<1> QED
  BY <1>1, <1>2, <1>3, <1>4, <1>5 DEF Tick, ElectionTick

\* handle_request_vote: a grant is a vote nobody else got from this voter.
LEMMA VoteElection ==
  ASSUME TypeInv, TypeInv', ElectionInv, NEW m \in msgs,
         HandlePreVote(m) \/ HandleRequestVote(m)
  PROVE  ElectionInv'
<1> DEFINE n == m.to
<1> USE DEF TypeInv
<1>1. m \in RequestVoteMsg /\ n \in Node /\ m.from \in Node /\ m.term \in Nat
  BY MessageKinds DEF HandlePreVote, HandleRequestVote, TypeOK
<1>2. CASE HandlePreVote(m)
  <2>1. PICK r : msgs' \subseteq msgs \cup {r} /\ ~IsGrant(r)
    <3>1. PICK g \in BOOLEAN : Reply(m, {VoteResp(m, current_term[n], g)})
      BY <1>2 DEF HandlePreVote
    <3>2. ~IsGrant(VoteResp(m, current_term[n], g))
      BY <1>2 DEF HandlePreVote, VoteResp, IsGrant
    <3>3. msgs' \subseteq msgs \cup {VoteResp(m, current_term[n], g)}
      BY <3>1, RepliedMsgs
    <3> QED
      BY <3>2, <3>3
  <2> QED
    BY <1>2, <2>1, QuietStep DEF HandlePreVote, ElectionInv, TalliesAreVotes,
       InRealRound, termVars, roleVars, memberVars, history
<1>3. CASE HandleRequestVote(m)
  <2> DEFINE up == m.term > current_term[n]
             term == IF up THEN m.term ELSE current_term[n]
             grant == /\ CanVote(n, m.from, m.term)
                      /\ LogOk(log[n], m.last_log_index, m.last_log_term)
             r == VoteResp(m, term, grant)
  <2>0. current_term[n] \in Nat
    BY <1>1 DEF TypeOK
  <2>1. current_term[n] \in Nat /\ term \in Nat /\ term >= current_term[n]
    <3> HIDE DEF n
    <3> QED
      BY <1>1, <2>0
  <2>2. /\ current_term' = [current_term EXCEPT ![n] = term]
        /\ voted_for' = [voted_for EXCEPT ![n] =
                           IF grant THEN m.from ELSE IF up THEN NoNode ELSE voted_for[n]]
        /\ role' = [role EXCEPT ![n] = IF up THEN "follower" ELSE role[n]]
        /\ in_pre_vote' = [in_pre_vote EXCEPT ![n] = IF up THEN FALSE ELSE in_pre_vote[n]]
        /\ votes' = IF grant THEN votes \cup {<<term, n, m.from>>} ELSE votes
        /\ UNCHANGED <<members, vote_granted, leaders>>
    BY <1>3 DEF HandleRequestVote, memberVars
  <2>3. msgs' \subseteq msgs \cup {r}
    <3>1. Reply(m, {r})
      BY <1>3 DEF HandleRequestVote
    <3> HIDE DEF r
    <3> QED
      BY <3>1, RepliedMsgs
  <2>4. r.granted = grant /\ r.term = term /\ r.from = n /\ r.to = m.from
    BY DEF VoteResp
  <2>5. grant => CanVote(n, m.from, m.term)
    OBVIOUS
  <2>6. ASSUME NEW p \in Node, InRealRound(p)'
        PROVE  /\ InRealRound(p) /\ current_term'[p] = current_term[p]
               /\ vote_granted'[p] = vote_granted[p]
    <3>1. CASE p # n
      BY <2>2, <2>6, <3>1 DEF InRealRound, TypeOK
    <3>2. CASE p = n
      <4>1. ~up
        BY <1>1, <2>2, <2>6, <3>2 DEF InRealRound, TypeOK
      <4> QED
        BY <1>1, <2>2, <2>6, <3>2, <4>1 DEF InRealRound, TypeOK
    <3> QED
      BY <3>1, <3>2
  <2>7. CASE ~grant
    <3>1. \A p \in Node :
            \/ current_term[p] < current_term'[p]
            \/ current_term'[p] = current_term[p] /\ voted_for'[p] = voted_for[p]
      BY <1>1, <2>1, <2>2, <2>7 DEF TypeOK
    <3>2. \A x \in msgs' : x \in msgs \/ ~IsGrant(x)
      BY <2>3, <2>4, <2>7 DEF IsGrant
    <3> HIDE DEF grant
    <3> QED
      BY <2>2, <2>6, <2>7, <3>1, <3>2, QuietStep DEF ElectionInv, TalliesAreVotes
  <2>8. CASE grant
    <3>1. /\ votes' = votes \cup {<<term, n, m.from>>}
          /\ voted_for' = [voted_for EXCEPT ![n] = m.from]
          /\ CanVote(n, m.from, m.term)
      BY <2>2, <2>8
    <3> HIDE DEF grant
    <3>2. \/ term > current_term[n]
          \/ term = current_term[n] /\ voted_for[n] \in {NoNode, m.from}
      BY <1>1, <2>1, <3>1 DEF CanVote
    <3> HIDE DEF term, up
    <3>3. VotesOnce' /\ VotesRemembered'
      BY <1>1, <2>1, <2>2, <3>1, <3>2, CastVote DEF ElectionInv
    <3>4. StaticMembers'
      BY <2>2 DEF ElectionInv, StaticMembers
    <3>5. LeadersElected'
      BY <2>2, <3>1 DEF ElectionInv, LeadersElected
    <3>6. GrantsAreVotes'
      <4>1. ASSUME NEW x \in msgs', IsGrant(x)
            PROVE  <<x.term, x.from, x.to>> \in votes'
        <5>1. CASE x \in msgs
          BY <3>1, <4>1, <5>1 DEF ElectionInv, GrantsAreVotes, IsGrant
        <5>2. CASE x = r
          BY <2>4, <3>1, <5>2
        <5> QED
          BY <2>3, <5>1, <5>2
      <4> QED
        BY <4>1 DEF GrantsAreVotes, IsGrant
    <3>7. TalliesAreVotes'
      BY <2>6, <3>1 DEF ElectionInv, TalliesAreVotes
    <3> QED
      BY <3>3, <3>4, <3>5, <3>6, <3>7 DEF ElectionInv
  <2> QED
    BY <2>7, <2>8
<1> QED
  BY <1>2, <1>3

\* handle_request_vote_resp: with no vote reply outliving its round, the flags of a
\* real round are votes of its term, so whoever wins it has a quorum's votes.
LEMMA VoteRespElection ==
  ASSUME StaleReplies \subseteq {"append"}, TypeInv, TypeInv', ElectionInv,
         NEW m \in msgs, Outlived(m) \subseteq StaleReplies, HandleVoteResp(m)
  PROVE  ElectionInv'
<1> DEFINE n == m.to
<1> USE DEF TypeInv
<1>1. /\ m \in VoteRespMsg /\ n \in Node /\ m.from \in Node /\ m.term \in Nat
      /\ m.type = "VoteResp" /\ m.granted \in BOOLEAN /\ m.pre_vote \in BOOLEAN
      /\ current_term[n] \in Nat
  <2>1. m \in VoteRespMsg /\ m.type = "VoteResp"
    BY MessageKinds DEF HandleVoteResp, TypeOK
  <2> QED
    BY <2>1 DEF VoteRespMsg, TypeOK
<1>2. ASSUME InRealRound(n), m.term <= current_term[n] \/ m.pre_vote
      PROVE  \A p \in Flagged(m) : <<current_term[n], p, n>> \in votes
  <2>1. \A p \in vote_granted[n] : <<current_term[n], p, n>> \in votes
    BY <1>1, <1>2 DEF ElectionInv, TalliesAreVotes
  <2>2. CASE m.granted
    <3>1. ~m.pre_vote
      BY <1>1, <1>2, <2>2 DEF Outlived
    <3>2. ~(m.term < current_term[n])
      BY <1>1, <1>2, <2>2, <3>1 DEF Outlived
    <3>3. m.term = current_term[n]
      BY <1>1, <1>2, <3>1, <3>2
    <3>4. <<m.term, m.from, m.to>> \in votes
      BY <1>1, <2>2, <3>1 DEF ElectionInv, GrantsAreVotes
    <3> QED
      BY <2>1, <3>3, <3>4 DEF Flagged
  <2>3. CASE ~m.granted
    BY <2>1, <2>3 DEF Flagged
  <2> QED
    BY <2>2, <2>3
<1>3. members' = members
  BY DEF HandleVoteResp, memberVars
<1>4. CASE VoteRespStepDown(m)
  <2>1. \A x \in msgs' : x \in msgs \/ ~IsGrant(x)
    BY <1>4, RepliedMsgs DEF VoteRespStepDown
  <2>2. \A p \in Node :
          \/ current_term[p] < current_term'[p]
          \/ current_term'[p] = current_term[p] /\ voted_for'[p] = voted_for[p]
    BY <1>1, <1>4 DEF VoteRespStepDown, BecomeFollower, TypeOK
  <2>3. \A p \in Node : InRealRound(p)' =>
          /\ InRealRound(p) /\ current_term'[p] = current_term[p]
          /\ vote_granted'[p] = vote_granted[p]
    BY <1>1, <1>4 DEF VoteRespStepDown, BecomeFollower, InRealRound, TypeOK
  <2> QED
    BY <1>3, <1>4, <2>1, <2>2, <2>3, QuietStep
       DEF VoteRespStepDown, ElectionInv, TalliesAreVotes, history
<1>5. CASE VoteRespRecord(m)
  <2>1. \A x \in msgs' : x \in msgs \/ ~IsGrant(x)
    BY <1>5, RepliedMsgs DEF VoteRespRecord
  <2>2. UNCHANGED <<current_term, voted_for, role, in_pre_vote, votes, leaders>>
    BY <1>5 DEF VoteRespRecord, termVars, roleVars, history
  <2>3. ASSUME NEW p \in Node, InRealRound(p)'
        PROVE  \A q \in vote_granted'[p] : <<current_term[p], q, p>> \in votes
    <3>1. InRealRound(p)
      BY <2>2, <2>3 DEF InRealRound
    <3>2. CASE p = n
      <4>1. vote_granted'[n] = Flagged(m)
        BY <1>1, <1>5 DEF VoteRespRecord, TypeOK
      <4>2. m.term <= current_term[n] \/ m.pre_vote
        BY <1>5 DEF VoteRespRecord
      <4> QED
        BY <1>2, <3>1, <3>2, <4>1, <4>2
    <3>3. CASE p # n
      <4>1. vote_granted'[p] = vote_granted[p]
        BY <1>5, <3>3 DEF VoteRespRecord, TypeOK
      <4> QED
        BY <3>1, <4>1 DEF ElectionInv, TalliesAreVotes
    <3> QED
      BY <3>2, <3>3
  <2> QED
    BY <1>3, <2>1, <2>2, <2>3, QuietStep
<1>6. CASE PreVoteWon(m)
  <2> DEFINE t == current_term[n] + 1
  <2>1. t \in Nat /\ t > current_term[n]
    BY <1>1
  <2>2. /\ in_pre_vote' = [in_pre_vote EXCEPT ![n] = FALSE]
        /\ current_term' = [current_term EXCEPT ![n] = t]
        /\ voted_for' = [voted_for EXCEPT ![n] = n]
        /\ vote_granted' = [vote_granted EXCEPT ![n] = {n}]
        /\ votes' = votes \cup {<<t, n, n>>}
        /\ Reply(m, VoteRequests(n, FALSE, t))
        /\ UNCHANGED <<role, leaders>>
    BY <1>6 DEF PreVoteWon
  <2> HIDE DEF t
  <2>3. StaticMembers'
    BY <1>3 DEF ElectionInv, StaticMembers
  <2>4. VotesOnce' /\ VotesRemembered'
    BY <1>1, <2>1, <2>2, CastVote DEF ElectionInv
  <2>5. LeadersElected'
    BY <2>2 DEF ElectionInv, LeadersElected
  <2>6. GrantsAreVotes'
    <3>1. VoteRequests(n, FALSE, t) \subseteq RequestVoteMsg
      BY <1>1, <2>1, VoteRequestsType
    <3>2. msgs' \subseteq msgs \cup VoteRequests(n, FALSE, t)
      BY <2>2, RepliedMsgs
    <3> QED
      BY <2>2, <3>1, <3>2 DEF RequestVoteMsg, GrantsAreVotes, ElectionInv
  <2>7. TalliesAreVotes'
    <3>1. ASSUME NEW p \in Node \ {n}, InRealRound(p)'
          PROVE  \A q \in vote_granted'[p] : <<current_term'[p], q, p>> \in votes'
      <4>1. /\ vote_granted'[p] = vote_granted[p] /\ current_term'[p] = current_term[p]
            /\ InRealRound(p)
        BY <2>2, <3>1 DEF InRealRound, TypeOK
      <4> QED
        BY <2>2, <4>1 DEF ElectionInv, TalliesAreVotes
    <3>2. vote_granted'[n] = {n} /\ current_term'[n] = t
      BY <1>1, <2>2 DEF TypeOK
    <3> QED
      BY <2>2, <3>1, <3>2 DEF TalliesAreVotes
  <2> QED
    BY <2>3, <2>4, <2>5, <2>6, <2>7 DEF ElectionInv
<1>7. CASE ElectionWon(m)
  <2> DEFINE t == current_term[n]
             Q == Flagged(m) \cap VotersOf(n)
  <2>1. /\ BecomeLeader(n, t)
        /\ vote_granted' = [vote_granted EXCEPT ![n] = Flagged(m)]
        /\ Reply(m, FirstAppends(n, t))
        /\ UNCHANGED <<current_term, voted_for, votes>>
    BY <1>7 DEF ElectionWon, termVars
  <2>2. StaticMembers' /\ VotesOnce' /\ VotesRemembered'
    BY <1>3, <2>1 DEF ElectionInv, StaticMembers, VotesOnce, VotesRemembered
  <2>3. LeadersElected'
    <3>1. InRealRound(n) /\ (m.term <= current_term[n] \/ m.pre_vote)
      BY <1>1, <1>7 DEF ElectionWon, CountsNow, InRealRound
    <3>2. \A p \in Q : <<t, p, n>> \in votes'
      BY <1>2, <2>1, <3>1
    <3>3. Q \in SUBSET Voters /\ IsQuorum(Q)
      BY <1>1, <1>7, VotersFixed DEF ElectionWon, Wins, IsQuorum, ElectionInv
    <3>4. leaders' = leaders \cup {<<t, n>>}
      BY <2>1 DEF BecomeLeader
    <3> HIDE DEF Q, t, n
    <3> QED
      BY <2>1, <3>2, <3>3, <3>4, LeaderJoins DEF ElectionInv
  <2>4. GrantsAreVotes'
    <3>1. FirstAppends(n, t) \subseteq AppendMessage
      BY <1>1, FirstAppendsType
    <3>2. msgs' \subseteq msgs \cup FirstAppends(n, t)
      BY <2>1, RepliedMsgs
    <3> QED
      BY <2>1, <3>1, <3>2 DEF AppendMessage, GrantsAreVotes, ElectionInv
  <2>5. TalliesAreVotes'
    <3>1. ASSUME NEW p \in Node, InRealRound(p)'
          PROVE  InRealRound(p) /\ vote_granted'[p] = vote_granted[p]
      BY <1>1, <2>1, <3>1 DEF BecomeLeader, InRealRound, TypeOK
    <3> QED
      BY <2>1, <3>1 DEF ElectionInv, TalliesAreVotes
  <2> QED
    BY <2>2, <2>3, <2>4, <2>5 DEF ElectionInv
<1> QED
  BY <1>4, <1>5, <1>6, <1>7 DEF HandleVoteResp

\* handle_append, handle_append_resp, raft_propose, a lost message and a change of
\* candidacy give no votes and only ever end a candidate's round.
LEMMA ReplicationElection ==
  ASSUME TypeInv, TypeInv', ElectionInv,
         \/ \E m \in msgs : \/ RejectAppend(m) \/ MismatchAppend(m) \/ AcceptAppend(m)
                            \/ HandleAppendResp(m) \/ Lose(m)
         \/ \E n \in Node, c \in Command : Propose(n, c)
         \/ \E n \in Node, e \in BOOLEAN : SetEligible(n, e)
  PROVE  ElectionInv'
<1> USE DEF TypeInv
<1>1. ASSUME NEW m \in msgs,
             \/ RejectAppend(m) \/ MismatchAppend(m) \/ AcceptAppend(m)
             \/ HandleAppendResp(m)
      PROVE  /\ UNCHANGED <<members, votes, leaders, vote_granted>>
             /\ \/ UNCHANGED <<current_term, voted_for, role, in_pre_vote>>
                \/ \E ldr \in Node \cup {NoNode} : BecomeFollower(m.to, m.term, ldr)
             /\ \E S : Reply(m, S) /\ \A x \in S : x.type \in {"Append", "AppendResp"}
  <2>1. CASE RejectAppend(m)
    BY <2>1 DEF RejectAppend, AppendResp, termVars, roleVars, memberVars, history
  <2>2. CASE MismatchAppend(m)
    <3>1. m.from \in Node
      BY MessageKinds DEF TypeOK
    <3> QED
      BY <2>2, <3>1 DEF MismatchAppend, AppendResp, memberVars, history
  <2>3. CASE AcceptAppend(m)
    <3>1. m.from \in Node
      BY MessageKinds DEF TypeOK
    <3>2. Reply(m, {AppendResp(m, m.term, TRUE, m.prev_log_index + Len(m.entries))})
      BY <2>3 DEF AcceptAppend
    <3> QED
      BY <2>3, <3>1, <3>2 DEF AcceptAppend, AppendResp, memberVars, history
  <2>4. CASE HandleAppendResp(m)
    <3>1. UNCHANGED <<members, votes, leaders, vote_granted>>
      BY <2>4 DEF HandleAppendResp, memberVars, history
    <3>2. CASE AppendRespStepDown(m)
      BY <3>1, <3>2 DEF AppendRespStepDown
    <3>3. CASE AppendRespSuccess(m)
      BY <3>1, <3>3 DEF AppendRespSuccess, termVars, roleVars
    <3>4. CASE AppendRespBackOff(m)
      BY <3>1, <3>4 DEF AppendRespBackOff, AppendMsg, termVars, roleVars
    <3> QED
      BY <2>4, <3>2, <3>3, <3>4 DEF HandleAppendResp
  <2> QED
    BY <1>1, <2>1, <2>2, <2>3, <2>4
<1>2. ASSUME NEW m \in msgs,
             \/ RejectAppend(m) \/ MismatchAppend(m) \/ AcceptAppend(m)
             \/ HandleAppendResp(m)
      PROVE  ElectionInv'
  <2>1. m.to \in Node /\ m.term \in Nat
    BY MessageKinds DEF TypeOK
  <2>2. \A x \in msgs' : x \in msgs \/ ~IsGrant(x)
    BY <1>1, <1>2, RepliedMsgs DEF IsGrant
  <2>3. \A p \in Node :
          /\ \/ current_term[p] < current_term'[p]
             \/ current_term'[p] = current_term[p] /\ voted_for'[p] = voted_for[p]
          /\ InRealRound(p)' => InRealRound(p) /\ current_term'[p] = current_term[p]
    <3>1. CASE UNCHANGED <<current_term, voted_for, role, in_pre_vote>>
      BY <3>1 DEF InRealRound
    <3>2. CASE \E ldr \in Node \cup {NoNode} : BecomeFollower(m.to, m.term, ldr)
      <4> SUFFICES ASSUME NEW p \in Node
                   PROVE  /\ \/ current_term[p] < current_term'[p]
                             \/ /\ current_term'[p] = current_term[p]
                                /\ voted_for'[p] = voted_for[p]
                          /\ InRealRound(p)' =>
                               InRealRound(p) /\ current_term'[p] = current_term[p]
        OBVIOUS
      <4>1. current_term[p] \in Nat
        BY DEF TypeOK
      <4>2. CASE p = m.to
        BY <2>1, <3>2, <4>1, <4>2 DEF BecomeFollower, InRealRound, TypeOK
      <4>3. CASE p # m.to
        BY <2>1, <3>2, <4>3 DEF BecomeFollower, InRealRound, TypeOK
      <4> QED
        BY <4>2, <4>3
    <3> QED
      BY <1>1, <1>2, <3>1, <3>2
  <2>4. UNCHANGED <<members, votes, leaders, vote_granted>>
    BY <1>1, <1>2
  <2> QED
    BY <2>2, <2>3, <2>4, QuietStep DEF ElectionInv, TalliesAreVotes
<1>3. ASSUME NEW m \in msgs, Lose(m)
      PROVE  ElectionInv'
  <2>1. \A x \in msgs' : x \in msgs \/ ~IsGrant(x)
    BY <1>3 DEF Lose
  <2>2. UNCHANGED <<current_term, voted_for, role, in_pre_vote, members, votes, leaders,
                    vote_granted>>
    BY <1>3 DEF Lose, termVars, roleVars, memberVars, history
  <2> QED
    BY <2>1, <2>2, QuietStep DEF ElectionInv, TalliesAreVotes, InRealRound
<1>4. ASSUME NEW n \in Node, NEW c \in Command, Propose(n, c)
      PROVE  ElectionInv'
  <2>1. UNCHANGED <<current_term, voted_for, role, in_pre_vote, members, votes, leaders,
                    vote_granted>>
    BY <1>4 DEF Propose, termVars, roleVars, memberVars, history
  <2>2. PICK lg, t, next : Send(AppendMsgs(n, lg, t, next))
    BY <1>4 DEF Propose
  <2>3. \A x \in AppendMsgs(n, lg, t, next) : x.type = "Append"
    BY DEF AppendMsgs, AppendMsg
  <2>4. \A x \in msgs' : x \in msgs \/ ~IsGrant(x)
    BY <2>2, <2>3, SentMsgs DEF IsGrant
  <2> QED
    BY <2>1, <2>4, QuietStep DEF ElectionInv, TalliesAreVotes, InRealRound
<1>5. ASSUME NEW n \in Node, NEW e \in BOOLEAN, SetEligible(n, e)
      PROVE  ElectionInv'
  BY <1>5, QuietStep DEF SetEligible, ElectionInv, TalliesAreVotes, InRealRound,
     termVars, roleVars, history
<1> QED
  BY <1>2, <1>3, <1>4, <1>5

\* Nobody has voted at the start.
LEMMA InitElection == Init => ElectionInv
  BY DEF Init, ElectionInv, StaticMembers, VotesOnce, VotesRemembered, GrantsAreVotes,
         TalliesAreVotes, LeadersElected, InRealRound

\* Every step keeps ElectionInv.
LEMMA NextElection ==
  ASSUME StaleReplies \subseteq {"append"}
  PROVE  TypeInv /\ ElectionInv /\ [GateNext]_vars => ElectionInv'
<1> SUFFICES ASSUME TypeInv, ElectionInv, [GateNext]_vars
             PROVE  ElectionInv'
  OBVIOUS
<1>1. TypeInv'
  BY NextType
<1>2. CASE UNCHANGED vars
  BY <1>2 DEF vars, termVars, roleVars, logVars, memberVars, peerVars, history,
     ElectionInv, StaticMembers, VotesOnce, VotesRemembered, GrantsAreVotes,
     TalliesAreVotes, LeadersElected, InRealRound
<1>3. ASSUME NEW n \in Node, Tick(n)
      PROVE  ElectionInv'
  BY <1>1, <1>3, TickElection
<1>4. ASSUME NEW m \in msgs, Recv(m)
      PROVE  ElectionInv'
  <2>1. Outlived(m) \subseteq StaleReplies
    BY <1>4 DEF Recv
  <2>2. CASE HandlePreVote(m) \/ HandleRequestVote(m)
    BY <1>1, <2>2, VoteElection
  <2>3. CASE HandleVoteResp(m)
    BY <1>1, <2>1, <2>3, VoteRespElection
  <2>4. CASE \/ RejectAppend(m) \/ MismatchAppend(m) \/ AcceptAppend(m)
             \/ HandleAppendResp(m)
    BY <1>1, <2>4, ReplicationElection
  <2> QED
    BY <1>4, <2>2, <2>3, <2>4 DEF Recv
<1>5. CASE \/ \E m \in msgs : Lose(m)
           \/ \E n \in Node, c \in Command : Propose(n, c)
           \/ \E n \in Node, e \in BOOLEAN : SetEligible(n, e)
  BY <1>1, <1>5, ReplicationElection
<1> QED
  BY <1>2, <1>3, <1>4, <1>5 DEF GateNext, Next

\* Two leaders of one term would have been elected by quorums with a common voter.
LEMMA OneLeaderPerTerm == ElectionInv => ElectionSafety
<1> SUFFICES ASSUME ElectionInv, NEW a \in leaders, NEW b \in leaders, a[1] = b[1]
             PROVE  a[2] = b[2]
  BY DEF ElectionSafety
<1>1. PICK Q \in SUBSET Voters : IsQuorum(Q) /\ \A p \in Q : <<a[1], p, a[2]>> \in votes
  BY DEF ElectionInv, LeadersElected
<1>2. PICK R \in SUBSET Voters : IsQuorum(R) /\ \A p \in R : <<b[1], p, b[2]>> \in votes
  BY DEF ElectionInv, LeadersElected
<1>3. PICK p \in Q \cap R : TRUE
  BY <1>1, <1>2, QuorumsMeet
<1>4. <<a[1], p, a[2]>> \in votes /\ <<b[1], p, b[2]>> \in votes
  BY <1>1, <1>2, <1>3
<1> QED
  BY <1>4 DEF ElectionInv, VotesOnce

\* handle_request_vote_resp never makes two nodes leaders of one term, whatever is
\* lost, repeated or reordered and however nodes change their candidacy
\* (raft_set_eligible), as long as no vote reply outlives the round that asked for it.
THEOREM ElectionSafe ==
  ASSUME StaleReplies \subseteq {"append"}
  PROVE  GateSpec => []ElectionSafety
<1>1. Init => TypeInv /\ ElectionInv
  BY InitType, InitElection
<1>2. TypeInv /\ ElectionInv /\ [GateNext]_vars => TypeInv' /\ ElectionInv'
  BY NextType, NextElection
<1>3. TypeInv /\ ElectionInv => ElectionSafety
  BY OneLeaderPerTerm
<1> QED
  BY <1>1, <1>2, <1>3, PTL DEF GateSpec

\* The same for nodes whose candidacy is fixed, the specification the runs check.
COROLLARY SpecElectionSafe ==
  ASSUME StaleReplies \subseteq {"append"}
  PROVE  Spec => []ElectionSafety
  BY SpecGates, ElectionSafe, PTL

-----------------------------------------------------------------------------
(* One vote per term. *)

VoteKept(n) ==
  /\ current_term'[n] >= current_term[n]
  /\ (current_term'[n] = current_term[n] /\ voted_for[n] # NoNode)
       => voted_for'[n] = voted_for[n]

\* become_follower forgets a vote only together with its term.
LEMMA FollowerKeepsVote ==
  ASSUME TypeOK, NEW p \in Node, NEW t \in Nat, NEW ldr, BecomeFollower(p, t, ldr),
         NEW n \in Node
  PROVE  VoteKept(n)
<1>1. current_term[n] \in Nat
  BY DEF TypeOK
<1>2. CASE n = p
  BY <1>1, <1>2 DEF BecomeFollower, VoteKept, TypeOK
<1>3. CASE n # p
  BY <1>1, <1>3 DEF BecomeFollower, VoteKept, TypeOK
<1> QED
  BY <1>2, <1>3

\* A step that sets the term and the vote of p alone, and moves its term up or keeps
\* both or votes where no other vote was given.
LEMMA WriteKeepsVote ==
  ASSUME TypeOK, NEW p \in Node, NEW t \in Nat, NEW c, NEW n \in Node,
         current_term' = [current_term EXCEPT ![p] = t],
         voted_for' = [voted_for EXCEPT ![p] = c],
         \/ t > current_term[p]
         \/ t = current_term[p] /\ (voted_for[p] # NoNode => c = voted_for[p])
  PROVE  VoteKept(n)
<1>1. current_term[n] \in Nat
  BY DEF TypeOK
<1>2. CASE n = p
  BY <1>1, <1>2 DEF VoteKept, TypeOK
<1>3. CASE n # p
  BY <1>1, <1>3 DEF VoteKept, TypeOK
<1> QED
  BY <1>2, <1>3

\* A step that writes neither term nor vote.
LEMMA NoWriteKeepsVote ==
  ASSUME TypeOK, UNCHANGED <<current_term, voted_for>>, NEW n \in Node
  PROVE  VoteKept(n)
<1>1. current_term[n] \in Nat
  BY DEF TypeOK
<1> QED
  BY <1>1 DEF VoteKept

\* Every step keeps every node's vote of its term.
LEMMA NextKeepsVote ==
  ASSUME TypeInv, [GateNext]_vars, NEW n \in Node
  PROVE  VoteKept(n)
<1> USE DEF TypeInv
<1>1. CASE UNCHANGED <<current_term, voted_for>>
  BY <1>1, NoWriteKeepsVote
<1>2. ASSUME NEW p \in Node, Tick(p)
      PROVE  VoteKept(n)
  <2>1. CASE LeadAlone(p)
    <3>1. current_term[p] + 1 \in Nat /\ current_term[p] + 1 > current_term[p]
      BY DEF TypeOK
    <3> QED
      BY <2>1, <3>1, WriteKeepsVote DEF LeadAlone
  <2>2. CASE ~LeadAlone(p)
    BY <1>1, <1>2, <2>2 DEF Tick, ElapseTick, LeaderTick, ElectionTick, StartPreVote,
                      StayQuiet, termVars
  <2> QED
    BY <2>1, <2>2
<1>3. ASSUME NEW p \in Node, NEW c \in Command, Propose(p, c)
      PROVE  VoteKept(n)
  BY <1>1, <1>3 DEF Propose, termVars
<1>4. ASSUME NEW m \in msgs, Recv(m)
      PROVE  VoteKept(n)
  <2>1. m.to \in Node /\ m.from \in Node /\ m.term \in Nat
    BY MessageKinds DEF TypeOK
  <2>2. CASE HandleRequestVote(m)
    <3> DEFINE p == m.to
               up == m.term > current_term[p]
               term == IF up THEN m.term ELSE current_term[p]
               grant == /\ CanVote(p, m.from, m.term)
                        /\ LogOk(log[p], m.last_log_index, m.last_log_term)
               c == IF grant THEN m.from ELSE IF up THEN NoNode ELSE voted_for[p]
    <3>1. current_term[p] \in Nat
      BY <2>1 DEF TypeOK
    <3>2. /\ current_term' = [current_term EXCEPT ![p] = term]
          /\ voted_for' = [voted_for EXCEPT ![p] = c]
      BY <2>2 DEF HandleRequestVote
    <3>3. grant => CanVote(p, m.from, m.term)
      OBVIOUS
    <3> HIDE DEF grant
    <3>4. /\ term \in Nat
          /\ \/ term > current_term[p]
             \/ term = current_term[p] /\ (voted_for[p] # NoNode => c = voted_for[p])
      BY <2>1, <3>1, <3>3 DEF CanVote
    <3> HIDE DEF term, c
    <3> QED
      BY <2>1, <3>2, <3>4, WriteKeepsVote
  <2>3. CASE HandleVoteResp(m)
    <3>1. CASE VoteRespStepDown(m)
      BY <2>1, <3>1, FollowerKeepsVote DEF VoteRespStepDown
    <3>2. CASE PreVoteWon(m)
      <4>1. current_term[m.to] + 1 \in Nat /\ current_term[m.to] + 1 > current_term[m.to]
        <5>1. current_term[m.to] \in Nat
          BY <2>1 DEF TypeOK
        <5> QED
          BY <5>1
      <4> QED
        <5>1. /\ current_term' = [current_term EXCEPT ![m.to] = current_term[m.to] + 1]
              /\ voted_for' = [voted_for EXCEPT ![m.to] = m.to]
          BY <3>2 DEF PreVoteWon
        <5> QED
          BY <2>1, <4>1, <5>1, WriteKeepsVote
    <3>3. CASE VoteRespRecord(m) \/ ElectionWon(m)
      BY <1>1, <3>3 DEF VoteRespRecord, ElectionWon, termVars
    <3> QED
      BY <2>3, <3>1, <3>2, <3>3 DEF HandleVoteResp
  <2>4. CASE MismatchAppend(m) \/ AcceptAppend(m)
    BY <2>1, <2>4, FollowerKeepsVote DEF MismatchAppend, AcceptAppend
  <2>5. CASE HandleAppendResp(m)
    <3>1. CASE AppendRespStepDown(m)
      BY <2>1, <3>1, FollowerKeepsVote DEF AppendRespStepDown
    <3>2. CASE AppendRespSuccess(m) \/ AppendRespBackOff(m)
      BY <1>1, <3>2 DEF AppendRespSuccess, AppendRespBackOff, termVars
    <3> QED
      BY <2>5, <3>1, <3>2 DEF HandleAppendResp
  <2>6. CASE HandlePreVote(m) \/ RejectAppend(m)
    BY <1>1, <2>6 DEF HandlePreVote, RejectAppend, termVars
  <2> QED
    BY <1>4, <2>2, <2>3, <2>4, <2>5, <2>6 DEF Recv
<1>5. ASSUME NEW m \in msgs, Lose(m)
      PROVE  VoteKept(n)
  BY <1>1, <1>5 DEF Lose, termVars
<1>6. ASSUME NEW p \in Node, NEW e \in BOOLEAN, SetEligible(p, e)
      PROVE  VoteKept(n)
  BY <1>1, <1>6 DEF SetEligible, termVars
<1> QED
  BY <1>1, <1>2, <1>3, <1>4, <1>5, <1>6 DEF GateNext, Next, vars, termVars

\* So does a change of a member table.
LEMMA ReconfKeepsVote ==
  ASSUME TypeInv, [ReconfNext]_vars, NEW n \in Node
  PROVE  VoteKept(n)
<1>1. CASE [GateNext]_vars
  BY <1>1, NextKeepsVote
<1>2. ASSUME NEW q \in Node, NEW p \in Node, ChangeMember(q, p)
      PROVE  VoteKept(n)
  BY <1>2, NoWriteKeepsVote DEF ChangeMember, AddMember, RemoveMember, PromoteMember,
     termVars, TypeInv
<1> QED
  BY <1>1, <1>2 DEF ReconfNext

\* No handler of raft_recv, no tick and no change of candidacy or of a member table
\* takes back or changes the vote of a term, and no term ever falls.
THEOREM VotesStand == ReconfSpec => OneVotePerTerm
<1>1. TypeInv /\ [ReconfNext]_vars => TypeInv'
  BY OpsType DEF OpsNext
<1>2. TypeInv /\ [ReconfNext]_vars =>
        [\A n \in Node :
           /\ current_term'[n] >= current_term[n]
           /\ (current_term'[n] = current_term[n] /\ voted_for[n] # NoNode)
                => voted_for'[n] = voted_for[n]]_vars
  BY ReconfKeepsVote DEF VoteKept
<1> QED
  BY <1>1, <1>2, InitType, PTL DEF ReconfSpec, OneVotePerTerm
=============================================================================
