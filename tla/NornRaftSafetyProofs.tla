------------------------ MODULE NornRaftSafetyProofs ------------------------
(***************************************************************************)
(* Theorems about what NornRaft's nodes apply, for every value of its      *)
(* constants, where no reply outlives its round and handle_append commits  *)
(* within the batches it merges: an applied entry is never truncated,      *)
(* every new leader has it, all nodes apply the same entries in the same   *)
(* order, and together they implement ReplicatedLog.                       *)
(*                                                                         *)
(* To the record H of what each leader had, the invariant adds a set A of  *)
(* acknowledgements: <<t, p, k>> says that p has held, in term t, the      *)
(* record of t up to its k-th entry, which is of term t.  An entry is      *)
(* chosen when a quorum has acknowledged it.  A voter that acknowledged it *)
(* votes only for a candidate that has it, unless a leader in between did  *)
(* not have it; and the first leader without it would have needed such a   *)
(* vote.                                                                   *)
(***************************************************************************)
EXTENDS NornRaftLogProofs

-----------------------------------------------------------------------------
(* The invariant. *)

\* Entry k on record for t was written in t.
Own(H, t, k) == k \in 1..Len(H[t]) /\ H[t][k].term = t

\* The leaders of the terms between t and u all have the record of t up to k.
Passed(H, t, k, u) ==
  \A l \in leaders : (t < l[1] /\ l[1] < u) => Holds(H[l[1]], H[t], k)

\* Log lg has what p has acknowledged before term u, if all leaders since then had it.
Backed(H, A, p, u, lg) ==
  \A a \in A : (a[2] = p /\ a[1] < u /\ Passed(H, a[1], a[3], u))
                 => Holds(lg, H[a[1]], a[3])

\* The entries of term t among the first k are acknowledged by p.
Reported(H, A, t, p, k) ==
  k <= Len(H[t]) /\ \A j \in 1..k : H[t][j].term = t => <<t, p, j>> \in A

NoLeader(t) == \A l \in leaders : l[1] # t

\* No record and no log has an entry of a later term, and a candidate's log none of the
\* term it stands in.
TermsOrdered(H) ==
  /\ \A t \in Nat : \A i \in 1..Len(H[t]) : H[t][i].term <= t
  /\ \A n \in Node : \A i \in 1..Len(log[n]) :
       /\ log[n][i].term <= current_term[n]
       /\ InRealRound(n) => log[n][i].term < current_term[n]

\* A request for a real vote tells the truth about the candidate's log as long as it
\* stands, and nobody has a vote of a term it has not reached.
RequestsTrue ==
  /\ \A m \in msgs : (m.type = "RequestVote" /\ ~m.pre_vote) =>
       /\ m.term <= current_term[m.from]
       /\ (InRealRound(m.from) /\ m.term = current_term[m.from]) =>
            /\ m.last_log_index = Len(log[m.from])
            /\ m.last_log_term = LastTerm(log[m.from])
  /\ \A v \in votes : v[1] <= current_term[v[3]]

\* Acknowledgements are of entries on record, and their nodes still have them if all
\* leaders since then had them.
Acknowledged(H, A) ==
  /\ A \in SUBSET (Nat \X Node \X Nat)
  /\ \A a \in A : a[1] <= current_term[a[2]] /\ Own(H, a[1], a[3])
  /\ \A p \in Node : Backed(H, A, p, current_term[p] + 1, log[p])

\* So does a candidate that has a node's vote, as long as nobody leads its term.
VotesBacked(H, A) ==
  \A c \in Node : (InRealRound(c) /\ NoLeader(current_term[c])) =>
    \A p \in Node : <<current_term[c], p, c>> \in votes =>
      Backed(H, A, p, current_term[c], log[c])

\* And a leader, for the votes of a quorum.
LeadersBacked(H, A) ==
  \A l \in leaders : \E Q \in SUBSET Voters :
    /\ IsQuorum(Q)
    /\ \A p \in Q : l[1] <= current_term[p] /\ Backed(H, A, p, l[1], H[l[1]])

\* Successes on the wire and match indexes count acknowledged entries.
ReportsTrue(H, A) ==
  /\ \A m \in msgs : (m.type = "AppendResp" /\ m.success) =>
       Reported(H, A, m.term, m.from, m.match_index)
  /\ \A n, p \in Node : role[n] = "leader" =>
       Reported(H, A, current_term[n], p, match_index[n][p])

\* A quorum has acknowledged entry k of term t.
Chosen(H, A, t, k) ==
  /\ t \in Nat /\ k \in Nat /\ Own(H, t, k)
  /\ \E Q \in SUBSET Voters : IsQuorum(Q) /\ \A p \in Q : <<t, p, k>> \in A

\* The first k entries of s lead to an entry that was chosen in a term up to u.
Settled(H, A, u, s, k) ==
  \/ k = 0
  \/ \E t, j \in Nat : t <= u /\ Chosen(H, A, t, j) /\ k <= j /\ Holds(s, H[t], k)

\* AppendEntries m is for a member that is known to lack at most a batch of what its
\* leader has committed (send_append starts the batch at the member's next_index).
Near(m) == m.leader_commit <= m.prev_log_index + RAFT_MAX_BATCH

\* Its batch then reaches the commit index it comes with.
Reaches(m) == Near(m) => m.leader_commit <= m.prev_log_index + Len(m.entries)

\* What AppendEntries m says is committed is settled.  A batch that no log matches says
\* nothing.
SaysSettled(H, A, m) ==
  \/ m.prev_log_index > 0 /\ m.prev_log_term = 0
  \/ Settled(H, A, m.term, H[m.term], m.leader_commit) /\ Reaches(m)

\* AppendEntries come from leaders.
CommitTrue(H, A, m) == (\E l \in leaders : l[1] = m.term) /\ SaysSettled(H, A, m)

\* What a node has applied is in its log and settled.
Committed(H, A) ==
  /\ \A n \in Node : /\ Begins(applied[n], log[n])
                     /\ Settled(H, A, current_term[n], log[n], Len(applied[n]))
  /\ \A m \in msgs : m.type = "Append" => CommitTrue(H, A, m)

Safe(H, A) ==
  /\ Recorded(H) /\ TermsOrdered(H)
  /\ Acknowledged(H, A) /\ VotesBacked(H, A) /\ LeadersBacked(H, A) /\ ReportsTrue(H, A)
  /\ Committed(H, A)

SafeInv ==
  TypeInv /\ ElectionInv /\ LeadersKnown /\ RequestsTrue /\ \E H, A : Safe(H, A)

-----------------------------------------------------------------------------
(* Sequences. *)

\* Holds, cut, composed and turned round.
LEMMA HoldsLess ==
  ASSUME NEW s, NEW g, NEW k \in Nat, NEW j \in Nat, j <= k, Holds(s, g, k),
         Len(s) \in Nat, Len(g) \in Nat
  PROVE  Holds(s, g, j)
<1>1. j <= Len(s) /\ j <= Len(g) /\ \A i \in 1..j : i \in 1..k
  BY DEF Holds
<1> QED
  BY <1>1 DEF Holds

\* It is transitive.
LEMMA HoldsTrans ==
  ASSUME NEW s, NEW g, NEW h, NEW k, Holds(s, g, k), Holds(g, h, k)
  PROVE  Holds(s, h, k)
BY DEF Holds

\* Two logs that hold the same hold each other's.
LEMMA HoldsBoth ==
  ASSUME NEW s, NEW g, NEW h, NEW k, Holds(s, h, k), Holds(g, h, k)
  PROVE  Holds(s, g, k)
BY DEF Holds

\* Every set of numbers that is not empty has a least one.
LEMMA LeastNumber ==
  ASSUME NEW S \in SUBSET Nat, S # {}
  PROVE  \E i \in S : \A j \in S : i <= j
<1> DEFINE T == {1..i : i \in S}
<1>1. T # {} /\ T \subseteq FiniteSubsetsOf(Nat)
  <2>1. \A i \in Nat : 1..i \in SUBSET Nat /\ IsFiniteSet(1..i)
    BY FS_Interval
  <2>2. \A i \in S : 1..i \in FiniteSubsetsOf(Nat)
    BY <2>1 DEF FiniteSubsetsOf
  <2> QED
    BY <2>2
<1>2. IsWellFoundedOn(StrictSubsetOrdering(Nat), FiniteSubsetsOf(Nat))
  BY FS_StrictSubsetOrderingWellFounded
<1>3. PICK x \in T : \A y \in T : ~(<<y, x>> \in StrictSubsetOrdering(Nat))
  BY <1>1, <1>2, WFMin
<1>4. PICK i \in S : x = 1..i
  BY <1>3
<1>5. \A j \in S : i <= j
  <2> SUFFICES ASSUME NEW j \in S, j < i PROVE FALSE
    OBVIOUS
  <2>1. 1..j \subseteq 1..i /\ 1..j # 1..i
    <3>1. i \in 1..i /\ i \notin 1..j
      OBVIOUS
    <3> QED
      BY <3>1
  <2>2. 1..j \in T /\ 1..i \in SUBSET Nat /\ 1..j \in SUBSET Nat
    OBVIOUS
  <2> QED
    BY <1>3, <1>4, <2>1, <2>2 DEF StrictSubsetOrdering
<1> QED
  BY <1>5

\* The terms along a log on record do not fall.
LEMMA TermsRise ==
  ASSUME NEW H \in Records,
         \A t \in Nat : \A i \in 1..Len(H[t]) : H[t][i].term <= t,
         NEW s \in Seq(Entry), OnRecord(s, H), NEW i \in Nat, NEW j \in Nat,
         1 <= i, i <= j, j <= Len(s)
  PROVE  s[i].term <= s[j].term
<1> DEFINE z == s[j].term
           h == H[z]
<1>1. j \in 1..Len(s) /\ i \in 1..j /\ Len(s) \in Nat
  OBVIOUS
<1>2. z \in Nat
  BY <1>1, EntryAt
<1>3. j <= Len(h) /\ s[i] = h[i]
  BY <1>1 DEF OnRecord
<1>4. Len(h) \in Nat
  BY <1>2, RecordAt
<1> HIDE DEF z, h
<1>5. i \in 1..Len(h)
  BY <1>3, <1>4
<1>6. h[i].term <= z
  BY <1>2, <1>5 DEF h
<1> QED
  BY <1>3, <1>6 DEF z

\* The vote of a node goes to logs that have what the node has: if lg holds an entry of
\* term t, and every leader since t had it, a log g that is up to date has it too.
LEMMA UpToDate ==
  ASSUME NEW H \in Records, H[0] = <<>>,
         \A t \in Nat : NoLeader(t) => H[t] = <<>>,
         \A t \in Nat : OnRecord(H[t], H),
         \A t \in Nat : \A i \in 1..Len(H[t]) : H[t][i].term <= t,
         NEW s \in Seq(Entry), NEW g \in Seq(Entry), OnRecord(s, H), OnRecord(g, H),
         NEW t \in Nat, NEW k \in Nat, NEW u \in Nat,
         Own(H, t, k), Holds(s, H[t], k), Passed(H, t, k, u),
         \A i \in 1..Len(g) : g[i].term < u,
         LogOk(s, Len(g), LastTerm(g)),
         leaders \subseteq Nat \X Node
  PROVE  Holds(g, H[t], k)
<1> DEFINE ls == Len(s)
           lg == Len(g)
           h == H[t]
<1>1. ls \in Nat /\ lg \in Nat /\ h \in Seq(Entry) /\ Len(h) \in Nat
  BY RecordAt
<1>2. /\ k >= 1 /\ k <= Len(h) /\ h[k].term = t
      /\ k <= ls /\ s[k] = h[k] /\ s[k].term = t
  BY DEF Own, Holds
<1>3. t > 0
  <2>1. Len(H[0]) = 0
    OBVIOUS
  <2> QED
    BY <1>1, <1>2, <2>1
<1>4. s[ls].term \in Nat /\ s[ls].term >= t /\ LastTerm(s) = s[ls].term
  <2>1. ls \in 1..Len(s)
    BY <1>1, <1>2
  <2>2. s[ls].term \in Nat
    BY <2>1, EntryAt
  <2>3. s[k].term <= s[ls].term
    BY <1>1, <1>2, TermsRise
  <2> QED
    BY <1>2, <2>1, <2>2, <2>3 DEF LastTerm, TermAt
<1> DEFINE w == g[lg].term
<1>5. lg > 0 /\ w \in Nat /\ LastTerm(g) = w /\ w >= t /\ w < u
  <2>1. LastTerm(g) \in Nat /\ LastTerm(g) >= LastTerm(s)
    <3>1. LastTerm(g) \in Nat
      BY <1>1, TermAtType DEF LastTerm
    <3> QED
      BY <1>4, <3>1 DEF LogOk
  <2>2. lg > 0
    <3>1. lg = 0 => LastTerm(g) = 0
      BY DEF LastTerm, TermAt
    <3> QED
      BY <1>1, <1>3, <1>4, <2>1, <3>1
  <2>3. lg \in 1..Len(g)
    BY <1>1, <2>2
  <2>4. LastTerm(g) = w /\ w \in Nat /\ w < u
    BY <2>3, EntryAt DEF LastTerm, TermAt
  <2> QED
    BY <1>4, <2>1, <2>2, <2>4
<1> DEFINE r == H[w]
<1>6. /\ r \in Seq(Entry) /\ Len(r) \in Nat /\ lg <= Len(r)
      /\ \A j \in 1..lg : g[j] = r[j]
  <2>1. lg \in 1..Len(g)
    BY <1>1, <1>5
  <2> QED
    BY <1>5, <2>1, RecordAt DEF OnRecord
<1> HIDE DEF r
<1>7. CASE w = t
  <2>1. lg >= ls
    <3> HIDE DEF ls, lg, w
    <3> QED
      BY <1>1, <1>4, <1>5, <1>7 DEF LogOk, ls, lg
  <2>2. r = h
    BY <1>7 DEF r
  <2> HIDE DEF ls, lg, h, w
  <2>3. k <= lg /\ \A i \in 1..k : i \in 1..lg
    BY <1>1, <1>2, <2>1
  <2>4. \A i \in 1..k : g[i] = h[i]
    BY <1>6, <2>2, <2>3
  <2> QED
    BY <1>2, <2>3, <2>4 DEF Holds, h, lg
<1>8. CASE w > t
  <2>1. ~NoLeader(w)
    <3>1. Len(<<>>) = 0
      OBVIOUS
    <3>2. r # <<>>
      <4> HIDE DEF lg
      <4> QED
        BY <1>1, <1>5, <1>6, <3>1
    <3> QED
      BY <1>5, <3>2 DEF r
  <2>2. PICK l \in leaders : l[1] = w
    BY <2>1 DEF NoLeader
  <2>3. Holds(r, h, k)
    BY <1>5, <1>8, <2>2 DEF Passed, r
  <2>4. k < lg
    <3> SUFFICES ASSUME lg <= k PROVE FALSE
      BY <1>1
    <3>1. OnRecord(r, H) /\ k <= Len(r) /\ r[k] = h[k]
      BY <1>2, <1>5, <2>3 DEF r, Holds
    <3>2. 1 <= lg /\ lg \in Nat
      BY <1>1, <1>5
    <3> DEFINE lg0 == lg
    <3> HIDE DEF lg0
    <3>3. r[lg].term <= r[k].term
      BY <1>6, <3>1, <3>2, TermsRise
    <3>4. r[lg] = g[lg]
      BY <1>6, <3>2
    <3> QED
      BY <1>2, <1>5, <1>8, <3>1, <3>3, <3>4
  <2> HIDE DEF lg, h, w
  <2>5. k <= lg /\ \A i \in 1..k : i \in 1..lg
    BY <1>1, <2>4
  <2>6. \A i \in 1..k : g[i] = h[i]
    BY <1>6, <2>3, <2>5 DEF Holds
  <2> QED
    BY <1>2, <2>5, <2>6 DEF Holds, h, lg
<1> QED
  BY <1>5, <1>7, <1>8

-----------------------------------------------------------------------------
(* What is chosen. *)

\* Every leader since t has what was chosen in t: the first that had not would have the
\* vote of a node that acknowledged it.
LEMMA LeaderHolds ==
  ASSUME TypeOK, NEW H, NEW A, LeadersBacked(H, A),
         NEW t, NEW k, Chosen(H, A, t, k), NEW l \in leaders, t < l[1]
  PROVE  Holds(H[l[1]], H[t], k)
<1> DEFINE Bad == {u \in Nat : /\ t < u /\ ~Holds(H[u], H[t], k)
                               /\ \E x \in leaders : x[1] = u}
<1> SUFFICES ASSUME ~Holds(H[l[1]], H[t], k) PROVE FALSE
  OBVIOUS
<1>1. leaders \subseteq Nat \X Node /\ t \in Nat
  BY DEF TypeOK, Chosen
<1>2. l[1] \in Bad
  BY <1>1
<1>3. PICK u \in Bad : \A v \in Bad : u <= v
  BY <1>2, LeastNumber
<1>4. PICK x \in leaders : x[1] = u
  BY <1>3
<1>5. Passed(H, t, k, u)
  <2> SUFFICES ASSUME NEW y \in leaders, t < y[1], y[1] < u
               PROVE  Holds(H[y[1]], H[t], k)
    BY DEF Passed
  <2>1. y[1] \in Nat /\ u \in Nat
    BY <1>1
  <2>2. y[1] \notin Bad
    <3> HIDE DEF Bad
    <3> QED
      BY <1>3, <2>1
  <2> QED
    BY <2>1, <2>2
<1>6. PICK Q \in SUBSET Voters : IsQuorum(Q) /\ \A p \in Q : Backed(H, A, p, u, H[u])
  BY <1>4 DEF LeadersBacked
<1>7. PICK R \in SUBSET Voters : IsQuorum(R) /\ \A p \in R : <<t, p, k>> \in A
  BY DEF Chosen
<1>8. PICK p \in Q : p \in R
  BY <1>6, <1>7, QuorumsMeet
<1>9. <<t, p, k>> \in A /\ Backed(H, A, p, u, H[u]) /\ t < u /\ ~Holds(H[u], H[t], k)
  BY <1>3, <1>6, <1>7, <1>8
<1> QED
  BY <1>5, <1>9 DEF Backed

\* What is settled stays so at later terms, in part, and in other logs that have it.
LEMMA SettledLess ==
  ASSUME NEW H \in Records, NEW A, NEW u \in Nat, NEW v \in Nat, u <= v,
         NEW s, NEW r, NEW k \in Nat, NEW j \in Nat, j <= k, Len(s) \in Nat, Len(r) \in Nat,
         Settled(H, A, u, s, k), Holds(r, s, j)
  PROVE  Settled(H, A, v, r, j)
<1>1. CASE k = 0
  BY <1>1 DEF Settled
<1>2. CASE k # 0
  <2>1. PICK t \in Nat, c \in Nat :
          t <= u /\ Chosen(H, A, t, c) /\ k <= c /\ Holds(s, H[t], k)
    BY <1>2 DEF Settled
  <2>2. Len(H[t]) \in Nat
    BY RecordAt
  <2>3. Holds(s, H[t], j)
    BY <2>1, <2>2, HoldsLess
  <2>4. Holds(r, H[t], j)
    BY <2>3, HoldsTrans
  <2>5. t <= v /\ j <= c
    BY <2>1
  <2> QED
    BY <2>1, <2>4, <2>5 DEF Settled
<1> QED
  BY <1>1, <1>2

\* What is settled is in the record of every later leader.
LEMMA SettledHeld ==
  ASSUME TypeOK, NEW H \in Records, NEW A, LeadersBacked(H, A),
         NEW u \in Nat, NEW s, NEW k \in Nat, Len(s) \in Nat, Settled(H, A, u, s, k),
         NEW l \in leaders, u <= l[1]
  PROVE  Holds(s, H[l[1]], k) /\ Settled(H, A, l[1], H[l[1]], k)
<1> DEFINE w == l[1]
<1>1. w \in Nat
  BY DEF TypeOK
<1>2. Len(H[w]) \in Nat
  BY <1>1, RecordAt
<1> HIDE DEF w
<1>3. CASE k = 0
  BY <1>2, <1>3 DEF Settled, Holds, w
<1>4. CASE k # 0
  <2>1. PICK t \in Nat, c \in Nat :
          t <= u /\ Chosen(H, A, t, c) /\ k <= c /\ Holds(s, H[t], k)
    BY <1>4 DEF Settled
  <2>2. Len(H[t]) \in Nat
    BY RecordAt
  <2>3. t <= w
    BY <1>1, <2>1 DEF w
  <2>4. Holds(H[w], H[t], k)
    <3>1. CASE t = w
      BY <2>1, <2>2, <3>1 DEF Holds
    <3>2. CASE t < w
      <4>1. Holds(H[w], H[t], c)
        BY <2>1, <3>2, LeaderHolds DEF w
      <4> QED
        BY <1>2, <2>1, <2>2, <4>1, HoldsLess
    <3> QED
      BY <1>1, <2>3, <3>1, <3>2
  <2>5. Holds(s, H[w], k)
    BY <2>1, <2>4, HoldsBoth
  <2> QED
    BY <2>1, <2>3, <2>4, <2>5 DEF Settled, w
<1> QED
  BY <1>3, <1>4

\* What is chosen or settled stays so when records and acknowledgements are added.
LEMMA SettledGrown ==
  ASSUME NEW H \in Records, NEW G \in Records, \A t \in Nat : Begins(H[t], G[t]),
         NEW A, NEW B, A \subseteq B, NEW u, NEW s, NEW k \in Nat, Settled(H, A, u, s, k)
  PROVE  Settled(G, B, u, s, k)
<1>1. CASE k = 0
  BY <1>1 DEF Settled
<1>2. CASE k # 0
  <2>1. PICK t \in Nat, c \in Nat :
          t <= u /\ Chosen(H, A, t, c) /\ k <= c /\ Holds(s, H[t], k)
    BY <1>2 DEF Settled
  <2> DEFINE h == H[t]
             g == G[t]
  <2>2. h \in Seq(Entry) /\ g \in Seq(Entry) /\ Begins(h, g)
    BY RecordAt
  <2>3. Holds(s, g, k)
    <3> HIDE DEF g, h
    <3>1. Holds(s, h, k)
      BY <2>1 DEF h
    <3> QED
      BY <2>2, <3>1, HoldsGrown
  <2>4. Own(G, t, c)
    <3>1. c \in 1..Len(h) /\ h[c].term = t
      BY <2>1 DEF Chosen, Own
    <3> HIDE DEF g, h
    <3>2. c \in 1..Len(g) /\ g[c] = h[c]
      BY <2>2, <3>1 DEF Begins
    <3> QED
      BY <3>1, <3>2 DEF Own, g
  <2>5. Chosen(G, B, t, c)
    BY <2>1, <2>4 DEF Chosen
  <2> QED
    BY <2>1, <2>3, <2>5 DEF Settled, g
<1> QED
  BY <1>1, <1>2

-----------------------------------------------------------------------------
(* Steps that write no log and make no leader. *)

\* The terms of entries stay behind those of nodes.
LEMMA TermsKeep ==
  ASSUME TypeOK, TypeOK', NEW H, TermsOrdered(H), NoNewLeader, UNCHANGED log
  PROVE  TermsOrdered(H)'
<1> SUFFICES ASSUME NEW n \in Node, NEW i \in 1..Len(log[n])
             PROVE  /\ log[n][i].term <= current_term'[n]
                    /\ InRealRound(n)' => log[n][i].term < current_term'[n]
  BY DEF TermsOrdered
<1>1. log[n] \in Seq(Entry) /\ current_term[n] \in Nat /\ current_term'[n] \in Nat
  BY DEF TypeOK
<1>2. log[n][i].term \in Nat
  BY <1>1, EntryAt
<1>3. /\ log[n][i].term <= current_term[n]
      /\ InRealRound(n) => log[n][i].term < current_term[n]
  BY DEF TermsOrdered
<1>4. /\ current_term[n] <= current_term'[n]
      /\ InRealRound(n)' => \/ InRealRound(n) /\ current_term'[n] = current_term[n]
                            \/ current_term'[n] > current_term[n]
  BY DEF NoNewLeader
<1> QED
  BY <1>1, <1>2, <1>3, <1>4

\* A node in a real round entered it with this step, at a higher term, or was in it
\* before and has kept its log.
RoundsKeep ==
  /\ \A n \in Node : current_term[n] <= current_term'[n]
  /\ \A n \in Node : InRealRound(n)' =>
       \/ InRealRound(n) /\ current_term'[n] = current_term[n] /\ log'[n] = log[n]
       \/ current_term'[n] > current_term[n]

\* What requests say and votes are for stays true.
LEMMA RequestsKeep ==
  ASSUME TypeOK, TypeOK', RequestsTrue, RoundsKeep,
         \A m \in msgs' : \/ m \in msgs
                          \/ ~(m.type = "RequestVote" /\ ~m.pre_vote)
                          \/ /\ m.term = current_term'[m.from]
                             /\ m.last_log_index = Len(log'[m.from])
                             /\ m.last_log_term = LastTerm(log'[m.from]),
         \A v \in votes' : v \in votes \/ v[1] <= current_term'[v[3]]
  PROVE  RequestsTrue'
<1>1. ASSUME NEW m \in msgs', m.type = "RequestVote", ~m.pre_vote
      PROVE  /\ m.term <= current_term'[m.from]
             /\ (InRealRound(m.from)' /\ m.term = current_term'[m.from]) =>
                  /\ m.last_log_index = Len(log'[m.from])
                  /\ m.last_log_term = LastTerm(log'[m.from])
  <2> DEFINE c == m.from
  <2>1. c \in Node /\ m.term \in Nat
    BY MessageKinds DEF TypeOK
  <2>2. current_term[c] \in Nat /\ current_term'[c] \in Nat
    BY <2>1 DEF TypeOK
  <2>3. CASE m \in msgs
    <3>1. /\ m.term <= current_term[c]
          /\ (InRealRound(c) /\ m.term = current_term[c]) =>
               /\ m.last_log_index = Len(log[c])
               /\ m.last_log_term = LastTerm(log[c])
      BY <1>1, <2>3 DEF RequestsTrue
    <3>2. /\ current_term[c] <= current_term'[c]
          /\ InRealRound(c)' =>
               \/ InRealRound(c) /\ current_term'[c] = current_term[c] /\ log'[c] = log[c]
               \/ current_term'[c] > current_term[c]
      BY <2>1 DEF RoundsKeep
    <3> HIDE DEF c
    <3>3. m.term <= current_term'[c]
      BY <2>1, <2>2, <3>1, <3>2
    <3>4. ASSUME InRealRound(c)', m.term = current_term'[c]
          PROVE  m.last_log_index = Len(log'[c]) /\ m.last_log_term = LastTerm(log'[c])
      <4>1. InRealRound(c) /\ current_term'[c] = current_term[c] /\ log'[c] = log[c]
        BY <2>1, <2>2, <3>1, <3>2, <3>4
      <4> QED
        BY <3>1, <3>4, <4>1
    <3> QED
      BY <3>3, <3>4 DEF c
  <2>4. CASE m \notin msgs
    BY <1>1, <2>1, <2>2, <2>4
  <2> QED
    BY <2>3, <2>4
<1>2. ASSUME NEW v \in votes'
      PROVE  v[1] <= current_term'[v[3]]
  <2>1. v[1] \in Nat /\ v[3] \in Node
    BY DEF TypeOK
  <2>2. /\ current_term[v[3]] \in Nat /\ current_term'[v[3]] \in Nat
        /\ current_term[v[3]] <= current_term'[v[3]]
    BY <2>1 DEF TypeOK, RoundsKeep
  <2>3. v \in votes => v[1] <= current_term[v[3]]
    BY DEF RequestsTrue
  <2> QED
    BY <2>1, <2>2, <2>3
<1> QED
  BY <1>1, <1>2 DEF RequestsTrue

\* Steps that make no leader and write no log keep rounds.
LEMMA QuietRounds ==
  ASSUME NoNewLeader, UNCHANGED log
  PROVE  RoundsKeep
BY DEF NoNewLeader, RoundsKeep

\* A candidate that stands in the term of vote v has what the voter has acknowledged.
NewlyBacked(H, A, v) ==
  (InRealRound(v[3])' /\ v[1] = current_term'[v[3]] /\ NoLeader(v[1]))
    => Backed(H, A, v[2], v[1], log[v[3]])

\* What is acknowledged stays so; new votes are backed, new match indexes reported.
LEMMA AckedCalm ==
  ASSUME TypeOK, TypeOK', RequestsTrue, NEW H, NEW A,
         Acknowledged(H, A), VotesBacked(H, A), LeadersBacked(H, A), ReportsTrue(H, A),
         NoNewLeader, UNCHANGED log,
         \A v \in votes' : v \in votes \/ NewlyBacked(H, A, v),
         \A m \in msgs' : m \in msgs \/ ~(m.type = "AppendResp" /\ m.success),
         \A n, p \in Node : role'[n] = "leader" =>
           \/ match_index'[n][p] = match_index[n][p]
           \/ Reported(H, A, current_term[n], p, match_index'[n][p])
  PROVE  Acknowledged(H, A)' /\ VotesBacked(H, A)' /\ LeadersBacked(H, A)' /\ ReportsTrue(H, A)'
<1>1. /\ leaders' = leaders
      /\ \A p \in Node : current_term[p] \in Nat /\ current_term'[p] \in Nat
                         /\ current_term[p] <= current_term'[p]
  BY DEF NoNewLeader, TypeOK
<1>2. \A t, k, u : Passed(H, t, k, u)' <=> Passed(H, t, k, u)
  BY <1>1 DEF Passed
<1>3. \A p, u, s : Backed(H, A, p, u, s)' <=> Backed(H, A, p, u, s)
  BY <1>2 DEF Backed
<1>4. A \in SUBSET (Nat \X Node \X Nat)
  BY DEF Acknowledged
<1>5. \A a \in A : a[1] <= current_term'[a[2]] /\ Own(H, a[1], a[3])
  <2> TAKE a \in A
  <2>1. a[1] \in Nat /\ a[2] \in Node
    BY <1>4
  <2> QED
    BY <1>1, <2>1 DEF Acknowledged
<1>6. ASSUME NEW p \in Node
      PROVE  Backed(H, A, p, current_term[p] + 1, log[p])'
  <2> SUFFICES ASSUME NEW a \in A, a[2] = p, Passed(H, a[1], a[3], current_term'[p] + 1)
               PROVE  Holds(log[p], H[a[1]], a[3])
    BY <1>2 DEF Backed
  <2>1. a[1] \in Nat /\ a[1] <= current_term[p]
    BY <1>4 DEF Acknowledged
  <2>2. a[1] < current_term[p] + 1
    BY <1>1, <2>1
  <2>3. Passed(H, a[1], a[3], current_term[p] + 1)
    <3> SUFFICES ASSUME NEW l \in leaders, a[1] < l[1], l[1] < current_term[p] + 1
                 PROVE  Holds(H[l[1]], H[a[1]], a[3])
      BY DEF Passed
    <3>1. l[1] \in Nat
      BY DEF TypeOK
    <3>2. l[1] < current_term'[p] + 1
      BY <1>1, <3>1
    <3> QED
      BY <3>2 DEF Passed
  <2> QED
    BY <2>2, <2>3 DEF Acknowledged, Backed
<1>7. Acknowledged(H, A)'
  BY <1>4, <1>5, <1>6 DEF Acknowledged
<1>8. VotesBacked(H, A)'
  <2> SUFFICES ASSUME NEW c \in Node, InRealRound(c)', NoLeader(current_term[c])',
                      NEW p \in Node, <<current_term'[c], p, c>> \in votes'
               PROVE  Backed(H, A, p, current_term'[c], log[c])
    BY <1>3 DEF VotesBacked
  <2> DEFINE v == <<current_term'[c], p, c>>
  <2>1. NoLeader(current_term'[c])
    BY <1>1 DEF NoLeader
  <2>2. v[1] = current_term'[c] /\ v[2] = p /\ v[3] = c
    OBVIOUS
  <2>3. CASE v \in votes
    <3>1. current_term'[c] <= current_term[c]
      BY <2>3, <2>2 DEF RequestsTrue
    <3>2. current_term'[c] = current_term[c]
      BY <1>1, <3>1
    <3>3. InRealRound(c)
      BY <1>1, <3>2 DEF NoNewLeader
    <3> QED
      BY <2>1, <2>3, <3>2, <3>3 DEF VotesBacked
  <2>4. CASE v \notin votes
    <3> HIDE DEF v
    <3>1. v \in votes'
      BY DEF v
    <3> QED
      BY <2>1, <2>2, <2>4, <3>1 DEF NewlyBacked
  <2> QED
    BY <2>3, <2>4
<1>9. LeadersBacked(H, A)'
  <2> SUFFICES ASSUME NEW l \in leaders
               PROVE  \E Q \in SUBSET Voters :
                        /\ IsQuorum(Q)
                        /\ \A p \in Q : /\ l[1] <= current_term'[p]
                                        /\ Backed(H, A, p, l[1], H[l[1]])
    BY <1>1, <1>3 DEF LeadersBacked
  <2>1. PICK Q \in SUBSET Voters :
          /\ IsQuorum(Q)
          /\ \A p \in Q : l[1] <= current_term[p] /\ Backed(H, A, p, l[1], H[l[1]])
    BY DEF LeadersBacked
  <2>2. \A p \in Q : l[1] <= current_term'[p]
    <3> TAKE p \in Q
    <3>1. p \in Node /\ l[1] \in Nat
      BY NodeAssumption DEF TypeOK
    <3> QED
      BY <1>1, <2>1, <3>1
  <2> QED
    BY <2>1, <2>2
<1>10. ReportsTrue(H, A)'
  <2>1. \A m \in msgs' : (m.type = "AppendResp" /\ m.success) =>
          Reported(H, A, m.term, m.from, m.match_index)
    BY DEF ReportsTrue
  <2>2. ASSUME NEW n \in Node, NEW p \in Node, role'[n] = "leader"
        PROVE  Reported(H, A, current_term'[n], p, match_index'[n][p])
    <3>1. role[n] = "leader" /\ current_term'[n] = current_term[n]
      BY <2>2 DEF NoNewLeader
    <3>2. Reported(H, A, current_term[n], p, match_index[n][p])
      BY <3>1 DEF ReportsTrue
    <3> QED
      BY <2>2, <3>1, <3>2
  <2> QED
    BY <2>1, <2>2 DEF ReportsTrue
<1> QED
  BY <1>7, <1>8, <1>9, <1>10

\* What is committed stays settled.
LEMMA CommittedCalm ==
  ASSUME TypeOK, TypeOK', NEW H \in Records, NEW A, Committed(H, A), NoNewLeader,
         UNCHANGED log,
         \A n \in Node :
           \/ applied'[n] = applied[n]
           \/ /\ Begins(applied'[n], log[n])
              /\ Settled(H, A, current_term[n], log[n], Len(applied'[n])),
         \A m \in msgs' : m \in msgs \/ (m.type = "Append" => CommitTrue(H, A, m))
  PROVE  Committed(H, A)'
<1>1. ASSUME NEW n \in Node
      PROVE  /\ Begins(applied'[n], log[n])
             /\ Settled(H, A, current_term'[n], log[n], Len(applied'[n]))
  <2> DEFINE k == Len(applied'[n])
  <2>1. Begins(applied'[n], log[n]) /\ Settled(H, A, current_term[n], log[n], k)
    BY DEF Committed
  <2>2. /\ current_term[n] \in Nat /\ current_term'[n] \in Nat
        /\ current_term[n] <= current_term'[n]
    BY DEF TypeOK, NoNewLeader
  <2>3. k \in Nat /\ Len(log[n]) \in Nat
    BY DEF TypeOK
  <2>4. Holds(log[n], log[n], k)
    BY <2>1, <2>3 DEF Begins, Holds
  <2> HIDE DEF k
  <2>5. Settled(H, A, current_term'[n], log[n], k)
    BY <2>1, <2>2, <2>3, <2>4, SettledLess
  <2> QED
    BY <2>1, <2>5 DEF k
<1>2. ASSUME NEW m \in msgs', m.type = "Append"
      PROVE  CommitTrue(H, A, m)'
  <2>1. CommitTrue(H, A, m)
    BY <1>2 DEF Committed
  <2> QED
    BY <2>1 DEF CommitTrue, NoNewLeader
<1> QED
  BY <1>1, <1>2 DEF Committed

\* A request for a real vote describes its sender's log.
TrueRequest(m) ==
  (m.type = "RequestVote" /\ ~m.pre_vote) =>
    /\ m.term = current_term'[m.from]
    /\ m.last_log_index = Len(log'[m.from])
    /\ m.last_log_term = LastTerm(log'[m.from])

\* A step that writes no log and makes no leader, and whose votes, requests, reports and
\* commits are what the invariant says.
Calm(H, A) ==
  /\ Quiet(H)
  /\ \A v \in votes' : v \in votes \/ (v[1] <= current_term'[v[3]] /\ NewlyBacked(H, A, v))
  /\ \A m \in msgs' : m \in msgs \/ (TrueRequest(m) /\ (m.type = "Append" => CommitTrue(H, A, m)))
  /\ \A n, p \in Node : role'[n] = "leader" =>
       \/ match_index'[n][p] = match_index[n][p]
       \/ Reported(H, A, current_term[n], p, match_index'[n][p])
  /\ \A n \in Node :
       \/ applied'[n] = applied[n]
       \/ /\ Begins(applied'[n], log[n])
          /\ Settled(H, A, current_term[n], log[n], Len(applied'[n]))

\* Such a step keeps the invariant, with the same record and acknowledgements.
LEMMA CalmSafe ==
  ASSUME TypeInv, TypeInv', RequestsTrue, NEW H, NEW A, Safe(H, A), Calm(H, A)
  PROVE  RequestsTrue' /\ Safe(H, A)'
<1> USE DEF TypeInv
<1>1. NoNewLeader /\ UNCHANGED log /\ H \in Records
  BY DEF Calm, Quiet, Safe, Recorded
<1>2. Recorded(H)'
  BY <1>1, QuietRecord DEF Calm, Quiet, Safe
<1>3. TermsOrdered(H)'
  BY <1>1, TermsKeep DEF Safe
<1>4. RequestsTrue'
  <2>1. RoundsKeep
    BY <1>1, QuietRounds
  <2>2. \A m \in msgs' : \/ m \in msgs
                         \/ ~(m.type = "RequestVote" /\ ~m.pre_vote)
                         \/ /\ m.term = current_term'[m.from]
                            /\ m.last_log_index = Len(log'[m.from])
                            /\ m.last_log_term = LastTerm(log'[m.from])
    BY DEF Calm, TrueRequest
  <2>3. \A v \in votes' : v \in votes \/ v[1] <= current_term'[v[3]]
    BY DEF Calm
  <2> QED
    BY <2>1, <2>2, <2>3, RequestsKeep
<1>5. Acknowledged(H, A)' /\ VotesBacked(H, A)' /\ LeadersBacked(H, A)' /\ ReportsTrue(H, A)'
  <2>1. \A v \in votes' : v \in votes \/ NewlyBacked(H, A, v)
    BY DEF Calm
  <2>2. \A m \in msgs' : m \in msgs \/ ~(m.type = "AppendResp" /\ m.success)
    BY DEF Calm, Quiet
  <2>3. \A n, p \in Node : role'[n] = "leader" =>
          \/ match_index'[n][p] = match_index[n][p]
          \/ Reported(H, A, current_term[n], p, match_index'[n][p])
    BY DEF Calm
  <2> QED
    BY <1>1, <2>1, <2>2, <2>3, AckedCalm DEF Safe
<1>6. Committed(H, A)'
  <2>1. \A m \in msgs' : m \in msgs \/ (m.type = "Append" => CommitTrue(H, A, m))
    BY DEF Calm
  <2>2. \A n \in Node :
          \/ applied'[n] = applied[n]
          \/ /\ Begins(applied'[n], log[n])
             /\ Settled(H, A, current_term[n], log[n], Len(applied'[n]))
    BY DEF Calm
  <2> QED
    BY <1>1, <2>1, <2>2, CommittedCalm DEF Safe
<1> QED
  BY <1>2, <1>3, <1>4, <1>5, <1>6 DEF Safe

-----------------------------------------------------------------------------
(* What is applied and committed. *)

\* apply_committed continues what was applied with the log up to the commit index.
LEMMA ApplyLog ==
  ASSUME NEW done \in Seq(Entry), NEW lg \in Seq(Entry), NEW c \in Nat
  PROVE  LET new == Apply(done, lg, c)
         IN  /\ c <= Len(done) => new = done
             /\ (c > Len(done) /\ c <= Len(lg) /\ Begins(done, lg))
                  => Len(new) = c /\ Begins(new, lg)
<1> DEFINE a == Len(done) + 1
           part == SubSeq(lg, a, c)
           new == Apply(done, lg, c)
<1>1. a \in Nat \ {0} /\ Len(done) \in Nat /\ Len(lg) \in Nat
  OBVIOUS
<1>2. new = done \o part
  BY DEF Apply
<1>3. ASSUME c <= Len(done) PROVE new = done
  <2>1. part = <<>>
    <3>1. a > c
      BY <1>1, <1>3
    <3> HIDE DEF a
    <3> QED
      BY <1>1, <3>1, SubSeqProperties
  <2> HIDE DEF part, new
  <2> QED
    BY <1>2, <2>1, ConcatEmptySeq
<1>4. ASSUME c > Len(done), c <= Len(lg), Begins(done, lg)
      PROVE  Len(new) = c /\ Begins(new, lg)
  <2>1. part \in Seq(Entry) /\ Len(part) = c - Len(done)
    <3>1. a <= c /\ c - a + 1 = c - Len(done)
      BY <1>1, <1>4
    <3>2. part \in Seq(Entry) /\ Len(part) = IF a <= c THEN c - a + 1 ELSE 0
      <4> HIDE DEF a
      <4> QED
        BY <1>1, <1>4, SliceType
    <3> HIDE DEF part, a
    <3> QED
      BY <3>1, <3>2
  <2>2. \A i \in 1..Len(part) : part[i] = lg[Len(done) + i]
    <3>1. \A i \in a..c : lg[i] \in Entry
      BY <1>1, <1>4
    <3>2. \A i \in 1..Len(part) : part[i] = lg[a + i - 1]
      <4> HIDE DEF a
      <4> QED
        BY <1>1, <3>1, SubSeqProperties
    <3>3. \A i \in 1..Len(part) : a + i - 1 = Len(done) + i
      BY <1>1
    <3> HIDE DEF part, a
    <3> QED
      BY <3>2, <3>3
  <2> HIDE DEF part, new
  <2>3. /\ Len(new) = Len(done) + Len(part)
        /\ \A i \in 1..Len(new) :
             new[i] = IF i <= Len(done) THEN done[i] ELSE part[i - Len(done)]
    BY <1>2, <2>1, ConcatProperties
  <2>4. Len(new) = c
    BY <1>1, <2>1, <2>3
  <2>5. ASSUME NEW i \in 1..Len(new) PROVE new[i] = lg[i]
    <3>1. i \in Nat /\ i >= 1 /\ i <= c
      BY <2>4
    <3>2. CASE i <= Len(done)
      <4>1. i \in 1..Len(done)
        BY <1>1, <3>1, <3>2
      <4> QED
        BY <1>4, <2>3, <3>2, <4>1 DEF Begins
    <3>3. CASE i > Len(done)
      <4>1. i - Len(done) \in 1..Len(part) /\ Len(done) + (i - Len(done)) = i
        BY <1>1, <2>1, <3>1, <3>3
      <4>2. new[i] = part[i - Len(done)]
        BY <1>1, <2>3, <3>1, <3>3
      <4> QED
        BY <2>2, <4>1, <4>2
    <3> QED
      BY <1>1, <3>1, <3>2, <3>3
  <2> QED
    BY <1>4, <2>4, <2>5 DEF Begins
<1> QED
  BY <1>3, <1>4

\* A tick applies nothing that was not applied before.
LEMMA NothingToApply ==
  ASSUME TypeInv, NEW n \in Node, NEW lg \in Seq(Entry),
         applied' = [applied EXCEPT ![n] = Apply(@, lg, commit_index[n])]
  PROVE  applied' = applied
<1>1. applied[n] \in Seq(Entry) /\ commit_index[n] \in Nat /\ commit_index[n] <= Len(applied[n])
  BY DEF TypeInv, TypeOK, CommitApplied
<1>2. Apply(applied[n], lg, commit_index[n]) = applied[n]
  BY <1>1, ApplyLog
<1> QED
  BY <1>2 DEF TypeInv, TypeOK

\* What a leader sends says of its commit index what is true.
LEMMA SendsCommit ==
  ASSUME NEW H \in Records, NEW A, NEW t \in Nat,
         NEW lg \in Seq(Entry), H[t] = lg, Len(lg) <= RAFT_MAX_LOG,
         NEW c \in Nat, c <= Len(lg), Settled(H, A, t, lg, c),
         NEW n, NEW p, NEW next \in Nat \ {0}
  PROVE  SaysSettled(H, A, AppendMsg(n, p, lg, t, next, c))
<1> DEFINE m == AppendMsg(n, p, lg, t, next, c)
           b == Smaller(next + RAFT_MAX_BATCH - 1, Len(lg))
<1>1. /\ m.term = t /\ m.prev_log_index = next - 1 /\ m.leader_commit = c
      /\ m.prev_log_term = TermAt(lg, next - 1) /\ m.entries = SubSeq(lg, next, b)
  BY DEF AppendMsg
<1>2. Len(lg) \in Nat
  OBVIOUS
<1> HIDE DEF m
<1>3. CASE next - 1 > Len(lg)
  <2>1. next - 1 \notin 1..Len(lg) /\ next - 1 > 0
    BY <1>2, <1>3
  <2>2. m.prev_log_term = 0 /\ m.prev_log_index > 0
    BY <1>1, <2>1 DEF TermAt
  <2> QED
    BY <1>1, <2>2 DEF SaysSettled, m
<1>4. CASE next - 1 <= Len(lg)
  <2>1. ASSUME Near(m)
        PROVE  m.leader_commit <= m.prev_log_index + Len(m.entries)
    <3>1. c <= next - 1 + RAFT_MAX_BATCH
      BY <1>1, <2>1 DEF Near
    <3>2. b \in Nat /\ b <= Len(lg) /\ c <= b
      BY <1>2, <3>1, BoundAssumption DEF Smaller
    <3> HIDE DEF b
    <3>3. Len(m.entries) = IF next <= b THEN b - next + 1 ELSE 0
      BY <1>1, <1>2, <3>2, SliceType
    <3> QED
      BY <1>1, <1>2, <1>4, <3>2, <3>3
  <2> QED
    BY <1>1, <2>1 DEF SaysSettled, Reaches, m
<1> QED
  BY <1>2, <1>3, <1>4

\* What a node has committed is in its log and settled.
LEMMA CommitSettled ==
  ASSUME TypeInv, NEW H \in Records, NEW A, Committed(H, A), NEW n \in Node
  PROVE  /\ commit_index[n] \in Nat /\ commit_index[n] <= Len(log[n])
         /\ Settled(H, A, current_term[n], log[n], commit_index[n])
<1>1. /\ commit_index[n] \in Nat /\ Len(log[n]) \in Nat /\ Len(applied[n]) \in Nat
      /\ current_term[n] \in Nat /\ commit_index[n] <= Len(applied[n])
  BY DEF TypeInv, TypeOK, CommitApplied
<1>2. /\ Len(applied[n]) <= Len(log[n])
      /\ Settled(H, A, current_term[n], log[n], Len(applied[n]))
  BY DEF Committed, Begins
<1>3. commit_index[n] <= Len(log[n])
  BY <1>1, <1>2
<1>4. Holds(log[n], log[n], commit_index[n])
  BY <1>3 DEF Holds
<1>5. Settled(H, A, current_term[n], log[n], commit_index[n])
  BY <1>1, <1>2, <1>4, SettledLess
<1> QED
  BY <1>1, <1>3, <1>5

\* advance_commit stays, or moves to an entry that is chosen.
LEMMA AdvanceChosen ==
  ASSUME TypeInv, StaticMembers, NEW H, NEW A, NEW n \in Node,
         NEW lg \in Seq(Entry), H[current_term[n]] = lg, NEW match,
         \A p \in Node : match[p] \in Nat /\ Reported(H, A, current_term[n], p, match[p])
  PROVE  LET c == AdvanceCommit(n, lg, match)
         IN  \/ c = commit_index[n]
             \/ c \in 1..Len(lg) /\ Chosen(H, A, current_term[n], c)
<1> DEFINE t == current_term[n]
           replicated(i) == Cardinality({p \in VotersOf(n) : match[p] >= i}) >= quorum(n)
           ready == {i \in commit_index[n]+1..Len(lg) :
                       (\A j \in i..Len(lg) : lg[j].term = t) /\ replicated(i)}
           top(i) == \A j \in ready : j <= i
           c == AdvanceCommit(n, lg, match)
<1>1. c = IF \E i \in ready : top(i) THEN CHOOSE i \in ready : top(i) ELSE commit_index[n]
  BY DEF AdvanceCommit
<1>2. CASE ~ \E i \in ready : top(i)
  BY <1>1, <1>2
<1>3. CASE \E i \in ready : top(i)
  <2>1. c \in ready
    BY <1>1, <1>3
  <2>2. t \in Nat /\ commit_index[n] \in Nat /\ Len(lg) \in Nat
    BY DEF TypeInv, TypeOK
  <2> HIDE DEF c, t
  <2>3. c \in 1..Len(lg) /\ (\A j \in c..Len(lg) : lg[j].term = t) /\ replicated(c)
    BY <2>1, <2>2
  <2>4. lg[c].term = t /\ c \in Nat /\ c >= 1
    BY <2>2, <2>3
  <2> DEFINE Q == {p \in Voters : match[p] >= c}
  <2>5. Q \in SUBSET Voters /\ IsQuorum(Q)
    BY <2>3, VotersFixed DEF IsQuorum
  <2>6. ASSUME NEW p \in Q PROVE <<t, p, c>> \in A
    <3>1. p \in Node /\ match[p] >= c
      BY NodeAssumption
    <3>2. match[p] \in Nat /\ \A j \in 1..match[p] : lg[j].term = t => <<t, p, j>> \in A
      BY <3>1 DEF Reported, t
    <3>3. c \in 1..match[p]
      BY <2>4, <3>1, <3>2
    <3> QED
      BY <2>4, <3>2, <3>3
  <2>7. Own(H, t, c)
    BY <2>3, <2>4 DEF Own, t
  <2>8. Chosen(H, A, t, c)
    BY <2>2, <2>4, <2>5, <2>6, <2>7 DEF Chosen
  <2> QED
    BY <2>3, <2>8 DEF c, t
<1> QED
  BY <1>2, <1>3

\* A leader's AppendEntries.
LEMMA LeaderSends ==
  ASSUME TypeInv, LeadersKnown, NEW H, NEW A,
         Recorded(H), Committed(H, A), NEW n \in Node, role[n] = "leader",
         NEW p, NEW next \in Nat \ {0}
  PROVE  CommitTrue(H, A, AppendMsg(n, p, log[n], current_term[n], next, commit_index[n]))
<1>1. /\ H \in Records /\ log[n] \in Seq(Entry) /\ current_term[n] \in Nat
      /\ H[current_term[n]] = log[n] /\ Len(log[n]) <= RAFT_MAX_LOG
  BY DEF TypeInv, TypeOK, Recorded
<1>2. /\ commit_index[n] \in Nat /\ commit_index[n] <= Len(log[n])
      /\ Settled(H, A, current_term[n], log[n], commit_index[n])
  BY <1>1, CommitSettled
<1>3. \E l \in leaders : l[1] = current_term[n]
  <2>1. <<current_term[n], n>> \in leaders
    BY DEF LeadersKnown
  <2> QED
    BY <2>1
<1> QED
  BY <1>1, <1>2, <1>3, SendsCommit DEF CommitTrue, AppendMsg

-----------------------------------------------------------------------------
(* The steps that write no log and make no leader, one by one. *)

\* The ticks of a node that does not win anything.
LEMMA TickCalm ==
  ASSUME TypeInv, LeadersKnown, NEW H, NEW A, Safe(H, A),
         NEW n \in Node, Tick(n), ~LeadAlone(n)
  PROVE  Calm(H, A)
<1>1. Quiet(H) /\ UNCHANGED match_index
  BY TickQuiet DEF Safe
<1>2. UNCHANGED votes
  BY DEF Tick, ElapseTick, LeaderTick, ElectionTick, StartPreVote, StayQuiet, history
<1>3. applied' = applied
  <2>1. CASE LeaderTick(n)
    BY <2>1 DEF LeaderTick, logVars
  <2>2. CASE ~LeaderTick(n)
    <3>1. applied' = [applied EXCEPT ![n] = Apply(@, log[n], commit_index[n])]
      BY <1>1, <2>2 DEF Tick, ElapseTick, ElectionTick, Quiet
    <3>2. log[n] \in Seq(Entry)
      BY DEF TypeInv, TypeOK
    <3> QED
      BY <3>1, <3>2, NothingToApply
  <2> QED
    BY <2>1, <2>2
<1>4. ASSUME NEW m \in msgs', m \notin msgs
      PROVE  TrueRequest(m) /\ (m.type = "Append" => CommitTrue(H, A, m))
  <2>1. CASE LeaderTick(n)
    <3>1. m \in AppendMsgs(n, log[n], current_term[n], next_index[n])
      BY <1>4, <2>1, SentMsgs DEF LeaderTick
    <3>2. PICK p \in Node :
            m = AppendMsg(n, p, log[n], current_term[n], next_index[n][p], commit_index[n])
      BY <3>1 DEF AppendMsgs
    <3>3. next_index[n][p] \in Nat \ {0} /\ role[n] = "leader"
      BY <2>1 DEF TypeInv, TypeOK, LeaderTick
    <3>4. CommitTrue(H, A, m)
      BY <3>2, <3>3, LeaderSends DEF Safe
    <3>5. m.type = "Append"
      BY <3>2 DEF AppendMsg
    <3> QED
      BY <3>4, <3>5 DEF TrueRequest
  <2>2. CASE ElectionTick(n) /\ StartPreVote(n)
    <3>1. m \in VoteRequests(n, TRUE, current_term[n] + 1)
      BY <1>4, <2>2, SentMsgs DEF StartPreVote
    <3>2. m.type = "RequestVote" /\ m.pre_vote
      BY <3>1 DEF VoteRequests
    <3> QED
      BY <3>2 DEF TrueRequest
  <2>3. CASE ElapseTick(n) \/ (ElectionTick(n) /\ StayQuiet(n))
    BY <1>4, <2>3 DEF ElapseTick, StayQuiet
  <2> QED
    BY <2>1, <2>2, <2>3 DEF Tick, ElectionTick
<1> QED
  BY <1>1, <1>2, <1>3, <1>4 DEF Calm

\* handle_request_vote: a vote goes to a candidate that has what the voter acknowledged.
LEMMA GrantBacked ==
  ASSUME TypeInv, LeadersKnown, RequestsTrue, NEW H, NEW A, Safe(H, A),
         NEW m \in msgs, HandleRequestVote(m), CanVote(m.to, m.from, m.term),
         LogOk(log[m.to], m.last_log_index, m.last_log_term),
         InRealRound(m.from)', m.term = current_term'[m.from], NoLeader(m.term)
  PROVE  Backed(H, A, m.to, m.term, log[m.from])
<1> USE DEF TypeInv
<1> DEFINE n == m.to
           c == m.from
           u == m.term
<1>1. /\ n \in Node /\ c \in Node /\ u \in Nat
      /\ current_term[n] \in Nat /\ current_term[c] \in Nat
      /\ log[n] \in Seq(Entry) /\ log[c] \in Seq(Entry)
  BY MessageKinds DEF TypeOK
<1>2. m.type = "RequestVote" /\ ~m.pre_vote /\ current_term[n] <= u
  BY <1>1 DEF HandleRequestVote, CanVote
<1>3. InRealRound(c) /\ current_term[c] = u
  <2>1. NoNewLeader
    BY VoteQuiet DEF Quiet
  <2>2. \/ InRealRound(c) /\ current_term'[c] = current_term[c]
        \/ current_term'[c] > current_term[c]
    BY <1>1, <2>1 DEF NoNewLeader
  <2>3. ~(current_term'[c] > current_term[c])
    <3>1. u <= current_term[c]
      BY <1>2 DEF RequestsTrue
    <3> QED
      BY <1>1, <3>1
  <2> QED
    BY <2>2, <2>3
<1>4. m.last_log_index = Len(log[c]) /\ m.last_log_term = LastTerm(log[c])
  BY <1>2, <1>3 DEF RequestsTrue
<1> SUFFICES ASSUME NEW a \in A, a[2] = n, a[1] < u, Passed(H, a[1], a[3], u)
             PROVE  Holds(log[c], H[a[1]], a[3])
  BY DEF Backed
<1>5. a[1] \in Nat /\ a[3] \in Nat /\ a[1] <= current_term[n] /\ Own(H, a[1], a[3])
  BY DEF Safe, Acknowledged
<1>6. Passed(H, a[1], a[3], current_term[n] + 1)
  <2> SUFFICES ASSUME NEW l \in leaders, a[1] < l[1], l[1] < current_term[n] + 1
               PROVE  Holds(H[l[1]], H[a[1]], a[3])
    BY DEF Passed
  <2>1. l[1] \in Nat /\ l[1] # u
    BY DEF TypeOK, NoLeader
  <2>2. l[1] < u
    BY <1>1, <1>2, <2>1
  <2> QED
    BY <2>2 DEF Passed
<1>7. Holds(log[n], H[a[1]], a[3])
  <2>1. a[1] < current_term[n] + 1
    BY <1>1, <1>5
  <2>2. Backed(H, A, n, current_term[n] + 1, log[n])
    BY <1>1 DEF Safe, Acknowledged
  <2> QED
    BY <1>6, <2>1, <2>2 DEF Backed
<1>8. /\ H \in Records /\ H[0] = <<>>
      /\ \A t \in Nat : NoLeader(t) => H[t] = <<>>
      /\ \A t \in Nat : OnRecord(H[t], H)
      /\ OnRecord(log[n], H) /\ OnRecord(log[c], H)
  BY <1>1, NothingAtZero DEF Safe, Recorded, NoLeader
<1>9. /\ \A t \in Nat : \A i \in 1..Len(H[t]) : H[t][i].term <= t
      /\ \A i \in 1..Len(log[c]) : log[c][i].term < u
  BY <1>1, <1>3 DEF Safe, TermsOrdered
<1>10. LogOk(log[n], Len(log[c]), LastTerm(log[c])) /\ leaders \subseteq Nat \X Node
  BY <1>4 DEF TypeOK
<1> HIDE DEF n, c, u
<1> QED
  BY <1>1, <1>5, <1>7, <1>8, <1>9, <1>10, UpToDate

\* The handlers of vote requests, and those of vote replies that do not win.
LEMMA VoteCalm ==
  ASSUME TypeInv, LeadersKnown, RequestsTrue, NEW H, NEW A, Safe(H, A), NEW m \in msgs,
         HandlePreVote(m) \/ HandleRequestVote(m) \/ (HandleVoteResp(m) /\ ~ElectionWon(m))
  PROVE  Calm(H, A)
<1> DEFINE n == m.to
<1>1. Quiet(H) /\ UNCHANGED match_index
  BY VoteQuiet
<1>2. UNCHANGED applied
  BY DEF HandlePreVote, HandleRequestVote, HandleVoteResp, logVars
<1>3. n \in Node /\ m.from \in Node /\ m.term \in Nat
  BY MessageKinds DEF TypeInv, TypeOK
<1>4. CASE HandlePreVote(m)
  <2>1. UNCHANGED votes
    BY <1>4 DEF HandlePreVote, history
  <2>2. PICK g : msgs' \subseteq msgs \cup {VoteResp(m, current_term[n], g)}
    BY <1>4, RepliedMsgs DEF HandlePreVote
  <2>3. VoteResp(m, current_term[n], g).type = "VoteResp"
    BY DEF VoteResp
  <2> QED
    BY <1>1, <1>2, <2>1, <2>2, <2>3 DEF Calm, TrueRequest
<1>5. CASE HandleRequestVote(m)
  <2>1. PICK g, t : msgs' \subseteq msgs \cup {VoteResp(m, t, g)}
    BY <1>5, RepliedMsgs DEF HandleRequestVote
  <2>2. VoteResp(m, t, g).type = "VoteResp"
    BY DEF VoteResp
  <2>3. ASSUME NEW v \in votes', v \notin votes
        PROVE  v[1] <= current_term'[v[3]] /\ NewlyBacked(H, A, v)
    <3>1. /\ CanVote(n, m.from, m.term)
          /\ LogOk(log[n], m.last_log_index, m.last_log_term)
          /\ v = <<IF m.term > current_term[n] THEN m.term ELSE current_term[n], n, m.from>>
      BY <1>5, <2>3 DEF HandleRequestVote
    <3>2. current_term[n] \in Nat
      BY <1>3 DEF TypeInv, TypeOK
    <3>3. v = <<m.term, n, m.from>>
      BY <1>3, <3>1, <3>2 DEF CanVote
    <3>4. v[1] <= current_term'[v[3]]
      <4>1. m.term <= current_term[m.from]
        BY <1>5 DEF RequestsTrue, HandleRequestVote
      <4>2. /\ current_term[m.from] \in Nat /\ current_term'[m.from] \in Nat
            /\ current_term[m.from] <= current_term'[m.from]
        <5>1. current_term' \in [Node -> Nat]
          BY <1>3, <1>5, <3>2 DEF HandleRequestVote, TypeInv, TypeOK
        <5> QED
          BY <1>1, <1>3, <5>1 DEF TypeInv, TypeOK, Quiet, NoNewLeader
      <4> QED
        BY <1>3, <3>3, <4>1, <4>2
    <3>5. NewlyBacked(H, A, v)
      BY <1>5, <3>1, <3>3, GrantBacked DEF NewlyBacked
    <3> QED
      BY <3>4, <3>5
  <2> QED
    BY <1>1, <1>2, <2>1, <2>2, <2>3 DEF Calm, TrueRequest
<1>6. CASE HandleVoteResp(m) /\ (VoteRespStepDown(m) \/ VoteRespRecord(m))
  <2>1. UNCHANGED votes
    BY <1>6 DEF VoteRespStepDown, VoteRespRecord, history
  <2>2. msgs' \subseteq msgs
    BY <1>6, RepliedMsgs DEF VoteRespStepDown, VoteRespRecord
  <2> QED
    BY <1>1, <1>2, <2>1, <2>2 DEF Calm
<1>7. CASE HandleVoteResp(m) /\ PreVoteWon(m)
  <2> DEFINE u == current_term[n] + 1
  <2>1. /\ votes' = votes \cup {<<u, n, n>>} /\ log' = log
        /\ msgs' \subseteq msgs \cup VoteRequests(n, FALSE, u)
    BY <1>7, RepliedMsgs DEF PreVoteWon
  <2>2. u \in Nat /\ current_term'[n] = u
    <3>1. current_term' = [current_term EXCEPT ![n] = current_term[n] + 1]
      BY <1>7 DEF PreVoteWon
    <3>2. current_term \in [Node -> Nat]
      BY DEF TypeInv, TypeOK
    <3>3. current_term[n] \in Nat /\ current_term'[n] = current_term[n] + 1
      BY <1>3, <3>1, <3>2
    <3> QED
      BY <3>3
  <2>3. Backed(H, A, n, u, log[n])
    BY <1>3 DEF Safe, Acknowledged
  <2> HIDE DEF u
  <2>4. \A x \in VoteRequests(n, FALSE, u) : TrueRequest(x) /\ x.type # "Append"
    BY <2>1, <2>2 DEF VoteRequests, TrueRequest
  <2>5. \A v \in votes' : v \in votes \/ (v[1] <= current_term'[v[3]] /\ NewlyBacked(H, A, v))
    <3> DEFINE w == <<u, n, n>>
    <3>1. w[1] = u /\ w[2] = n /\ w[3] = n
      OBVIOUS
    <3>2. \A v \in votes' : v \in votes \/ v = w
      BY <2>1
    <3>3. w[1] <= current_term'[w[3]]
      BY <2>2, <3>1
    <3>4. NewlyBacked(H, A, w)
      BY <2>3, <3>1 DEF NewlyBacked
    <3> HIDE DEF w
    <3> QED
      BY <3>2, <3>3, <3>4
  <2> QED
    BY <1>1, <1>2, <2>1, <2>4, <2>5 DEF Calm
<1> QED
  BY <1>4, <1>5, <1>6, <1>7 DEF HandleVoteResp

\* handle_append_resp of a reply of the leader's own term: what it reports is
\* acknowledged, and what it lets the leader commit is chosen.
LEMMA SuccessCalm ==
  ASSUME StaleReplies = {}, TypeInv, StaticMembers, NEW H, NEW A, Safe(H, A),
         NEW m \in msgs, Outlived(m) \subseteq StaleReplies,
         HandleAppendResp(m), AppendRespSuccess(m)
  PROVE  Calm(H, A)
<1> USE DEF TypeInv
<1> DEFINE n == m.to
           p == m.from
           t == current_term[n]
           best == IF m.match_index > match_index[n][p] THEN m.match_index
                   ELSE match_index[n][p]
           matches == [match_index[n] EXCEPT ![p] = best]
           c == AdvanceCommit(n, log[n], matches)
<1>1. /\ n \in Node /\ m.term \in Nat /\ p \in Node /\ m.match_index \in Nat
      /\ t \in Nat /\ log[n] \in Seq(Entry) /\ match_index[n] \in [Node -> Nat]
  <2>1. m.type = "AppendResp" /\ m \in Message
    BY DEF HandleAppendResp, TypeOK
  <2>2. m \in AppendRespMsg /\ m.from \in Node /\ m.to \in Node /\ m.term \in Nat
    BY <2>1, MessageKinds
  <2> QED
    BY <2>2 DEF AppendRespMsg, TypeOK
<1>2. /\ m.type = "AppendResp" /\ m.success /\ m.term <= t /\ role[n] = "leader"
      /\ match_index' = [match_index EXCEPT ![n] = matches]
      /\ applied' = [applied EXCEPT ![n] = Apply(@, log[n], c)]
      /\ UNCHANGED <<current_term, role, log, votes, leaders>>
      /\ msgs' \subseteq msgs
  BY RepliedMsgs DEF HandleAppendResp, AppendRespSuccess, termVars, roleVars, history
<1>3. m.term = t
  <2>1. "append" \notin Outlived(m)
    OBVIOUS
  <2>2. ~(m.term < current_term[n])
    BY <1>2, <2>1 DEF Outlived
  <2> QED
    BY <1>1, <1>2, <2>2
<1>4. \A x \in Node : matches[x] \in Nat /\ Reported(H, A, t, x, matches[x])
  <2> TAKE x \in Node
  <2>1. Reported(H, A, t, p, m.match_index) /\ Reported(H, A, t, x, match_index[n][x])
    BY <1>1, <1>2, <1>3 DEF Safe, ReportsTrue
  <2>2. CASE x = p
    <3>1. matches[x] = best
      BY <1>1, <2>2
    <3> QED
      BY <1>1, <2>1, <2>2, <3>1
  <2>3. CASE x # p
    BY <1>1, <2>1, <2>3
  <2> QED
    BY <2>2, <2>3
<1>5. /\ H \in Records /\ H[t] = log[n] /\ Committed(H, A) /\ Quiet(H)
  <2>1. Quiet(H)
    BY AppendQuiet DEF Safe
  <2> QED
    BY <1>1, <1>2, <2>1 DEF Safe, Recorded
<1>6. ASSUME NEW x \in Node, NEW y \in Node
      PROVE  \/ match_index'[x][y] = match_index[x][y]
             \/ Reported(H, A, current_term[x], y, match_index'[x][y])
  <2>1. CASE x # n
    BY <1>1, <1>2, <2>1 DEF TypeOK
  <2>2. CASE x = n
    <3>1. match_index'[n] = matches
      BY <1>1, <1>2 DEF TypeOK
    <3> HIDE DEF matches
    <3> QED
      BY <1>4, <2>2, <3>1
  <2> QED
    BY <2>1, <2>2
<1>7. c \in Nat /\ (c = commit_index[n] \/ (c \in 1..Len(log[n]) /\ Chosen(H, A, t, c)))
  <2> HIDE DEF matches, n
  <2>1. c \in Nat
    BY <1>1, AdvanceCommitType
  <2> QED
    BY <1>1, <1>4, <1>5, <2>1, AdvanceChosen
<1>8. ASSUME NEW x \in Node
      PROVE  \/ applied'[x] = applied[x]
             \/ /\ Begins(applied'[x], log[x])
                /\ Settled(H, A, current_term[x], log[x], Len(applied'[x]))
  <2> HIDE DEF c
  <2>1. CASE x # n
    BY <1>1, <1>2, <2>1 DEF TypeOK
  <2>2. CASE x = n /\ c <= Len(applied[n])
    <3>1. applied'[n] = Apply(applied[n], log[n], c) /\ applied[n] \in Seq(Entry)
      BY <1>1, <1>2 DEF TypeOK
    <3> QED
      BY <1>1, <1>7, <2>2, <3>1, ApplyLog
  <2>3. CASE x = n /\ ~(c <= Len(applied[n]))
    <3>1. applied'[n] = Apply(applied[n], log[n], c) /\ applied[n] \in Seq(Entry)
      BY <1>1, <1>2 DEF TypeOK
    <3>2. Begins(applied[n], log[n]) /\ commit_index[n] <= Len(applied[n])
      BY <1>1, <1>5 DEF Committed, CommitApplied
    <3>3. c \in 1..Len(log[n]) /\ Chosen(H, A, t, c) /\ c > Len(applied[n])
      BY <1>7, <2>3, <3>1, <3>2
    <3>4. Len(log[n]) \in Nat /\ c <= Len(log[n])
      BY <1>1, <3>3
    <3>5. Len(applied'[n]) = c /\ Begins(applied'[n], log[n])
      BY <1>1, <1>7, <3>1, <3>2, <3>3, <3>4, ApplyLog
    <3>6. Settled(H, A, t, log[n], c)
      <4>1. Holds(log[n], H[t], c) /\ t <= t /\ c <= c
        BY <1>1, <1>5, <1>7, <3>4 DEF Holds
      <4> HIDE DEF t
      <4> QED
        BY <1>1, <1>7, <3>3, <4>1 DEF Settled
    <3> QED
      BY <2>3, <3>5, <3>6
  <2> QED
    BY <2>1, <2>2, <2>3
<1> QED
  BY <1>2, <1>5, <1>6, <1>8 DEF Calm

\* The handlers of AppendEntries that write nothing, and those of its replies.
LEMMA AppendCalm ==
  ASSUME StaleReplies = {}, TypeInv, StaticMembers,
         LeadersKnown, NEW H, NEW A, Safe(H, A), NEW m \in msgs,
         Outlived(m) \subseteq StaleReplies,
         RejectAppend(m) \/ MismatchAppend(m) \/ HandleAppendResp(m)
  PROVE  Calm(H, A)
<1> DEFINE n == m.to
<1>1. /\ Quiet(H)
      /\ (HandleAppendResp(m) /\ AppendRespSuccess(m)) \/ UNCHANGED match_index
  BY AppendQuiet DEF Safe
<1>2. CASE HandleAppendResp(m) /\ AppendRespSuccess(m)
  BY <1>2, SuccessCalm
<1>3. CASE RejectAppend(m) \/ MismatchAppend(m)
  <2>1. UNCHANGED <<votes, applied, match_index>>
    BY <1>3 DEF RejectAppend, MismatchAppend, history, logVars, peerVars
  <2>2. PICK u : msgs' \subseteq msgs \cup {AppendResp(m, u, FALSE, 0)}
    BY <1>3, RepliedMsgs DEF RejectAppend, MismatchAppend
  <2>3. AppendResp(m, u, FALSE, 0).type = "AppendResp"
    BY DEF AppendResp
  <2> QED
    BY <1>1, <2>1, <2>2, <2>3 DEF Calm, TrueRequest
<1>4. CASE HandleAppendResp(m) /\ AppendRespStepDown(m)
  <2>1. UNCHANGED <<votes, applied, match_index>>
    BY <1>4 DEF HandleAppendResp, AppendRespStepDown, history, logVars, peerVars
  <2>2. msgs' \subseteq msgs
    BY <1>4, RepliedMsgs DEF AppendRespStepDown
  <2> QED
    BY <1>1, <2>1, <2>2 DEF Calm
<1>5. CASE HandleAppendResp(m) /\ AppendRespBackOff(m)
  <2> DEFINE next == next_index[n][m.from] - 1
             x == AppendMsg(n, m.from, log[n], current_term[n], next, commit_index[n])
  <2>1. UNCHANGED <<votes, applied, match_index>>
    BY <1>5 DEF HandleAppendResp, AppendRespBackOff, history, logVars
  <2>2. msgs' \subseteq msgs \cup {x}
    BY <1>5, RepliedMsgs DEF AppendRespBackOff
  <2>3. n \in Node /\ m.from \in Node /\ role[n] = "leader" /\ next \in Nat \ {0}
    <3>1. n \in Node /\ m.from \in Node
      BY MessageKinds DEF TypeInv, TypeOK
    <3>2. next_index[n][m.from] \in Nat /\ next_index[n][m.from] > 1
      BY <1>5, <3>1 DEF AppendRespBackOff, TypeInv, TypeOK
    <3> QED
      BY <1>5, <3>1, <3>2 DEF AppendRespBackOff
  <2> HIDE DEF next
  <2>4. CommitTrue(H, A, x)
    BY <2>3, LeaderSends DEF Safe
  <2>5. x.type = "Append"
    BY DEF AppendMsg
  <2> HIDE DEF x
  <2> QED
    BY <1>1, <2>1, <2>2, <2>4, <2>5 DEF Calm, TrueRequest
<1> QED
  BY <1>2, <1>3, <1>4, <1>5 DEF HandleAppendResp

-----------------------------------------------------------------------------
(* handle_append that matches. *)

\* A follower n comes, in term w, to the log new, which has the record of w up to entry
\* last, and says so in resp.
Takes(H, n, w, new, last, resp) ==
  /\ n \in Node /\ w \in Nat /\ current_term[n] <= w /\ current_term'[n] = w
  /\ \E l \in leaders : l[1] = w
  /\ NoNewLeader /\ role'[n] = "follower"
  /\ new \in Seq(Entry) /\ log'[n] = new
  /\ \A p \in Node \ {n} : /\ log'[p] = log[p] /\ current_term'[p] = current_term[p]
                           /\ applied'[p] = applied[p]
  /\ last \in Nat /\ Holds(new, H[w], last)
  /\ \A c \in Nat : Holds(log[n], H[w], c) => Holds(new, H[w], c)
  /\ new = log[n] \/ Begins(new, H[w])
  /\ UNCHANGED <<match_index, votes>>
  /\ msgs' \subseteq msgs \cup {resp}
  /\ resp.type = "AppendResp" /\ resp.from = n /\ resp.term = w /\ resp.match_index = last

\* The acknowledgements with those of n, in term w, up to entry last.
Acks(H, A, w, n, last) == A \cup {<<w, n, j>> : j \in {i \in 1..last : H[w][i].term = w}}

\* They are of entries on record.
LEMMA AcksAre ==
  ASSUME NEW H \in Records, NEW A, NEW w \in Nat, NEW n, NEW last \in Nat, last <= Len(H[w])
  PROVE  /\ A \subseteq Acks(H, A, w, n, last)
         /\ \A a \in Acks(H, A, w, n, last) :
              \/ a \in A
              \/ /\ a[1] = w /\ a[2] = n /\ a[3] \in 1..last /\ Own(H, w, a[3])
                 /\ a = <<w, n, a[3]>> /\ a[3] \in Nat
         /\ Reported(H, Acks(H, A, w, n, last), w, n, last)
<1> DEFINE B == Acks(H, A, w, n, last)
<1>1. A \subseteq B
  BY DEF Acks
<1>2. ASSUME NEW a \in B, a \notin A
      PROVE  /\ a[1] = w /\ a[2] = n /\ a[3] \in 1..last /\ Own(H, w, a[3])
             /\ a = <<w, n, a[3]>> /\ a[3] \in Nat
  <2>1. PICK j \in 1..last : H[w][j].term = w /\ a = <<w, n, j>>
    BY <1>2 DEF Acks
  <2>2. Len(H[w]) \in Nat
    BY RecordAt
  <2>3. j \in Nat /\ j \in 1..Len(H[w])
    BY <2>2
  <2> QED
    BY <2>1, <2>3 DEF Own
<1>3. Reported(H, B, w, n, last)
  BY DEF Acks, Reported
<1> QED
  BY <1>1, <1>2, <1>3

\* The terms of entries.
LEMMA TakesTerms ==
  ASSUME TypeOK, TypeOK', NEW H, TermsOrdered(H), H \in Records,
         NEW n, NEW w, NEW new, NEW last, NEW resp, Takes(H, n, w, new, last, resp)
  PROVE  TermsOrdered(H)'
<1>1. /\ n \in Node /\ w \in Nat /\ current_term[n] <= w /\ current_term'[n] = w
      /\ role'[n] = "follower" /\ log'[n] = new /\ new \in Seq(Entry)
      /\ new = log[n] \/ Begins(new, H[w])
      /\ \A p \in Node \ {n} : log'[p] = log[p] /\ current_term'[p] = current_term[p]
      /\ NoNewLeader
  BY DEF Takes
<1>2. ASSUME NEW p \in Node, p # n, NEW i \in 1..Len(log'[p])
      PROVE  /\ log'[p][i].term <= current_term'[p]
             /\ InRealRound(p)' => log'[p][i].term < current_term'[p]
  <2>1. log'[p] = log[p] /\ current_term'[p] = current_term[p] /\ current_term[p] \in Nat
    BY <1>1, <1>2 DEF TypeOK
  <2>2. InRealRound(p)' => InRealRound(p)
    BY <1>1, <2>1 DEF NoNewLeader
  <2> QED
    BY <2>1, <2>2 DEF TermsOrdered
<1>3. ASSUME NEW i \in 1..Len(new)
      PROVE  new[i].term <= w
  <2>1. new[i].term \in Nat /\ i \in Nat
    BY <1>1, EntryAt
  <2>2. CASE new = log[n]
    <3>1. new[i].term <= current_term[n] /\ current_term[n] \in Nat
      BY <1>1, <2>2 DEF TermsOrdered, TypeOK
    <3> QED
      BY <1>1, <2>1, <3>1
  <2>3. CASE Begins(new, H[w])
    <3>1. Len(H[w]) \in Nat /\ Len(new) \in Nat
      BY <1>1, RecordAt
    <3>2. i \in 1..Len(H[w]) /\ new[i] = H[w][i]
      BY <2>3, <3>1 DEF Begins
    <3> QED
      BY <1>1, <3>2 DEF TermsOrdered
  <2> QED
    BY <1>1, <2>2, <2>3
<1>4. ~InRealRound(n)'
  BY <1>1 DEF InRealRound
<1>5. \A p \in Node : \A i \in 1..Len(log'[p]) :
        /\ log'[p][i].term <= current_term'[p]
        /\ InRealRound(p)' => log'[p][i].term < current_term'[p]
  BY <1>1, <1>2, <1>3, <1>4
<1> QED
  BY <1>5 DEF TermsOrdered

\* Rounds and requests.
LEMMA TakesRequests ==
  ASSUME TypeOK, TypeOK', RequestsTrue, NEW H,
         NEW n, NEW w, NEW new, NEW last, NEW resp, Takes(H, n, w, new, last, resp)
  PROVE  RequestsTrue'
<1>1. RoundsKeep
  <2>1. ~InRealRound(n)' /\ NoNewLeader /\ \A p \in Node \ {n} : log'[p] = log[p]
    BY DEF Takes, InRealRound
  <2> QED
    BY <2>1 DEF RoundsKeep, NoNewLeader
<1>2. \A m \in msgs' : m \in msgs \/ ~(m.type = "RequestVote" /\ ~m.pre_vote)
  BY DEF Takes
<1>3. votes' = votes
  BY DEF Takes
<1> QED
  BY <1>1, <1>2, <1>3, RequestsKeep

\* What is acknowledged.
LEMMA TakesAcked ==
  ASSUME TypeOK, TypeOK', VotesRemembered, NEW H \in Records, NEW A,
         Acknowledged(H, A), VotesBacked(H, A), LeadersBacked(H, A), ReportsTrue(H, A),
         NEW n, NEW w, NEW new, NEW last, NEW resp, Takes(H, n, w, new, last, resp)
  PROVE  LET B == Acks(H, A, w, n, last)
         IN  /\ Acknowledged(H, B)' /\ VotesBacked(H, B)'
             /\ LeadersBacked(H, B)' /\ ReportsTrue(H, B)'
<1> DEFINE B == Acks(H, A, w, n, last)
<1>1. /\ n \in Node /\ w \in Nat /\ current_term[n] <= w /\ current_term'[n] = w
      /\ leaders' = leaders /\ NoNewLeader /\ role'[n] = "follower" /\ log'[n] = new
      /\ \A p \in Node \ {n} : log'[p] = log[p] /\ current_term'[p] = current_term[p]
      /\ last \in Nat /\ Holds(new, H[w], last)
      /\ \A c \in Nat : Holds(log[n], H[w], c) => Holds(new, H[w], c)
      /\ votes' = votes /\ match_index' = match_index
      /\ msgs' \subseteq msgs \cup {resp}
      /\ resp.from = n /\ resp.term = w /\ resp.match_index = last
  BY DEF Takes, NoNewLeader
<1>2. /\ last <= Len(H[w]) /\ Len(H[w]) \in Nat /\ Len(new) \in Nat
      /\ \A p \in Node : current_term[p] \in Nat /\ current_term[p] <= current_term'[p]
                         /\ current_term'[p] \in Nat
  <2>1. last <= Len(H[w]) /\ Len(H[w]) \in Nat
    BY <1>1, RecordAt DEF Holds
  <2>2. \A p \in Node : current_term[p] \in Nat /\ current_term[p] <= current_term'[p]
                        /\ current_term'[p] \in Nat
    BY <1>1 DEF NoNewLeader, TypeOK
  <2>3. Len(new) \in Nat
    BY DEF Takes
  <2> QED
    BY <2>1, <2>2, <2>3
<1>3. /\ A \subseteq B
      /\ \A a \in B : \/ a \in A
                      \/ /\ a[1] = w /\ a[2] = n /\ a[3] \in 1..last /\ Own(H, w, a[3])
                         /\ a = <<w, n, a[3]>> /\ a[3] \in Nat
      /\ Reported(H, B, w, n, last)
  BY <1>1, <1>2, AcksAre
<1> HIDE DEF B
<1>4. A \in SUBSET (Nat \X Node \X Nat)
  BY DEF Acknowledged
<1>5. \A t, k, u : Passed(H, t, k, u)' <=> Passed(H, t, k, u)
  BY <1>1 DEF Passed
<1>6. \A p, u, s : Backed(H, B, p, u, s)' <=> Backed(H, B, p, u, s)
  BY <1>5 DEF Backed
<1>7. B \in SUBSET (Nat \X Node \X Nat)
  BY <1>1, <1>3, <1>4
<1>8. ASSUME NEW a \in B
      PROVE  a[1] <= current_term'[a[2]] /\ Own(H, a[1], a[3])
  <2>1. CASE a \in A
    <3>1. a[1] \in Nat /\ a[2] \in Node
      BY <1>4, <2>1
    <3>2. a[1] <= current_term[a[2]] /\ Own(H, a[1], a[3])
      BY <2>1 DEF Acknowledged
    <3> QED
      BY <1>2, <3>1, <3>2
  <2>2. CASE a \notin A
    BY <1>1, <1>3, <2>2
  <2> QED
    BY <2>1, <2>2
<1>9. ASSUME NEW a \in B, a[2] = n, Passed(H, a[1], a[3], w + 1)
      PROVE  Holds(new, H[a[1]], a[3])
  <2>1. CASE a \notin A
    <3>1. a[1] = w /\ a[3] \in 1..last /\ a[3] \in Nat
      BY <1>3, <2>1
    <3>2. a[3] <= last
      BY <1>1, <3>1
    <3> QED
      BY <1>1, <1>2, <3>1, <3>2, HoldsLess
  <2>2. CASE a \in A
    <3>1. a[1] \in Nat /\ a[3] \in Nat /\ a[1] <= current_term[n]
      BY <1>4, <1>9, <2>2 DEF Acknowledged
    <3>2. Passed(H, a[1], a[3], current_term[n] + 1)
      <4> SUFFICES ASSUME NEW l \in leaders, a[1] < l[1], l[1] < current_term[n] + 1
                   PROVE  Holds(H[l[1]], H[a[1]], a[3])
        BY DEF Passed
      <4>1. l[1] \in Nat
        BY DEF TypeOK
      <4>2. l[1] < w + 1
        BY <1>1, <1>2, <4>1
      <4> QED
        BY <1>9, <4>2 DEF Passed
    <3>3. Holds(log[n], H[a[1]], a[3])
      <4>1. a[1] < current_term[n] + 1
        BY <1>1, <1>2, <3>1
      <4>2. Backed(H, A, n, current_term[n] + 1, log[n])
        BY <1>1 DEF Acknowledged
      <4> QED
        BY <1>9, <2>2, <3>2, <4>1, <4>2 DEF Backed
    <3>4. CASE a[1] = w
      BY <1>1, <3>1, <3>3, <3>4
    <3>5. CASE a[1] # w
      <4>1. a[1] < w
        BY <1>1, <1>2, <3>1, <3>5
      <4>2. PICK l \in leaders : l[1] = w
        BY DEF Takes
      <4>3. Holds(H[w], H[a[1]], a[3])
        <5>1. w < w + 1
          BY <1>1
        <5> QED
          BY <1>9, <4>1, <4>2, <5>1 DEF Passed
      <4>4. Holds(log[n], H[w], a[3])
        BY <3>3, <4>3, HoldsBoth
      <4>5. Holds(new, H[w], a[3])
        BY <1>1, <3>1, <4>4
      <4> QED
        BY <4>3, <4>5, HoldsTrans
    <3> QED
      BY <3>4, <3>5
  <2> QED
    BY <2>1, <2>2
<1>10. ASSUME NEW p \in Node
       PROVE  Backed(H, B, p, current_term[p] + 1, log[p])'
  <2>1. CASE p = n
    <3>1. Backed(H, B, n, w + 1, new)
      BY <1>9 DEF Backed
    <3> QED
      BY <1>1, <1>6, <2>1, <3>1
  <2>2. CASE p # n
    <3>1. Backed(H, A, p, current_term[p] + 1, log[p])
      BY DEF Acknowledged
    <3>2. Backed(H, B, p, current_term[p] + 1, log[p])
      BY <1>3, <2>2, <3>1 DEF Backed
    <3>3. current_term'[p] = current_term[p] /\ log'[p] = log[p]
      BY <1>1, <2>2
    <3> QED
      BY <1>6, <3>2, <3>3
  <2> QED
    BY <2>1, <2>2
<1>11. Acknowledged(H, B)'
  BY <1>7, <1>8, <1>10 DEF Acknowledged
<1>12. ASSUME NEW p \in Node, NEW u \in Nat, u <= current_term[p], NEW s, Backed(H, A, p, u, s)
       PROVE  Backed(H, B, p, u, s)
  <2> SUFFICES ASSUME NEW a \in B, a \notin A, a[2] = p, a[1] < u
               PROVE  FALSE
    BY <1>12 DEF Backed
  <2>1. a[1] = w /\ p = n
    BY <1>3
  <2> QED
    BY <1>1, <1>2, <1>12, <2>1
<1>13. VotesBacked(H, B)'
  <2> SUFFICES ASSUME NEW c \in Node, InRealRound(c)', NoLeader(current_term[c])',
                      NEW p \in Node, <<current_term'[c], p, c>> \in votes'
               PROVE  Backed(H, B, p, current_term'[c], log'[c])
    BY <1>6 DEF VotesBacked
  <2>1. c # n
    BY <1>1 DEF InRealRound
  <2>2. /\ current_term'[c] = current_term[c] /\ log'[c] = log[c]
        /\ NoLeader(current_term[c]) /\ <<current_term[c], p, c>> \in votes
    BY <1>1, <2>1 DEF NoLeader
  <2>3. InRealRound(c)
    BY <1>1, <1>2, <2>2 DEF NoNewLeader
  <2>4. Backed(H, A, p, current_term[c], log[c])
    BY <2>2, <2>3 DEF VotesBacked
  <2>5. current_term[c] <= current_term[p]
    BY <2>2 DEF VotesRemembered
  <2>6. Backed(H, B, p, current_term[c], log[c])
    BY <1>2, <1>12, <2>4, <2>5
  <2> QED
    BY <2>2, <2>6
<1>14. LeadersBacked(H, B)'
  <2> SUFFICES ASSUME NEW l \in leaders
               PROVE  \E Q \in SUBSET Voters :
                        /\ IsQuorum(Q)
                        /\ \A p \in Q : /\ l[1] <= current_term'[p]
                                        /\ Backed(H, B, p, l[1], H[l[1]])
    BY <1>1, <1>6 DEF LeadersBacked
  <2>1. PICK Q \in SUBSET Voters :
          /\ IsQuorum(Q)
          /\ \A p \in Q : l[1] <= current_term[p] /\ Backed(H, A, p, l[1], H[l[1]])
    BY DEF LeadersBacked
  <2>2. ASSUME NEW p \in Q
        PROVE  l[1] <= current_term'[p] /\ Backed(H, B, p, l[1], H[l[1]])
    <3>1. p \in Node /\ l[1] \in Nat /\ l[1] <= current_term[p]
      BY <2>1, NodeAssumption DEF TypeOK
    <3>2. l[1] <= current_term'[p]
      BY <1>2, <3>1
    <3>3. Backed(H, B, p, l[1], H[l[1]])
      BY <1>12, <2>1, <3>1
    <3> QED
      BY <3>2, <3>3
  <2> QED
    BY <2>1, <2>2
<1>15. ReportsTrue(H, B)'
  <2>1. \A t, p, k : Reported(H, A, t, p, k) => Reported(H, B, t, p, k)
    BY <1>3 DEF Reported
  <2>2. ASSUME NEW m \in msgs', m.type = "AppendResp", m.success
        PROVE  Reported(H, B, m.term, m.from, m.match_index)
    <3>1. CASE m \in msgs
      BY <2>1, <2>2, <3>1 DEF ReportsTrue
    <3>2. CASE m \notin msgs
      BY <1>1, <1>3, <3>2
    <3> QED
      BY <3>1, <3>2
  <2>3. ASSUME NEW x \in Node, NEW p \in Node, role'[x] = "leader"
        PROVE  Reported(H, B, current_term'[x], p, match_index'[x][p])
    <3>1. role[x] = "leader" /\ current_term'[x] = current_term[x]
      BY <1>1, <2>3 DEF NoNewLeader
    <3>2. Reported(H, A, current_term[x], p, match_index[x][p])
      BY <3>1 DEF ReportsTrue
    <3> QED
      BY <1>1, <2>1, <3>1, <3>2
  <2> QED
    BY <2>2, <2>3 DEF ReportsTrue
<1> QED
  BY <1>11, <1>13, <1>14, <1>15 DEF B

\* What is committed: nothing applied is lost, and what is applied next is settled.
LEMMA TakesCommitted ==
  ASSUME TypeInv, TypeOK', NEW H \in Records, NEW A, NEW B, A \subseteq B,
         LeadersBacked(H, A), Committed(H, A),
         NEW n, NEW w, NEW new, NEW last, NEW resp, Takes(H, n, w, new, last, resp),
         NEW lc \in Nat, Settled(H, A, w, H[w], lc),
         NEW c \in Nat, (c <= lc /\ c <= last) \/ c = commit_index[n],
         applied'[n] = Apply(applied[n], new, c)
  PROVE  Committed(H, B)'
<1> DEFINE done == applied[n]
           k == Len(done)
           lg == log[n]
           h == H[w]
<1>1. /\ n \in Node /\ w \in Nat /\ current_term[n] <= w /\ current_term'[n] = w
      /\ leaders' = leaders /\ new \in Seq(Entry) /\ log'[n] = new
      /\ \A p \in Node \ {n} : /\ log'[p] = log[p] /\ current_term'[p] = current_term[p]
                               /\ applied'[p] = applied[p]
      /\ last \in Nat /\ Holds(new, H[w], last)
      /\ \A i \in Nat : Holds(log[n], H[w], i) => Holds(new, H[w], i)
      /\ msgs' \subseteq msgs \cup {resp} /\ resp.type # "Append"
  BY DEF Takes, NoNewLeader
<1>2. /\ done \in Seq(Entry) /\ k \in Nat /\ current_term[n] \in Nat
      /\ lg \in Seq(Entry) /\ Len(lg) \in Nat /\ Len(new) \in Nat
      /\ h \in Seq(Entry) /\ Len(h) \in Nat /\ commit_index[n] <= k
  BY <1>1, RecordAt DEF TypeInv, TypeOK, CommitApplied
<1>3. PICK l \in leaders : l[1] = w
  BY DEF Takes
<1>4. Begins(done, lg) /\ Settled(H, A, current_term[n], lg, k)
  BY <1>1 DEF Committed
<1> HIDE DEF k, lg, h, done
<1>5. Holds(lg, h, k) /\ Settled(H, A, w, h, k)
  BY <1>1, <1>2, <1>3, <1>4, SettledHeld DEF TypeInv, h
<1>6. Holds(new, h, k)
  BY <1>1, <1>2, <1>5 DEF h, lg
<1>7. Begins(done, new)
  <2>1. k <= Len(new) /\ \A i \in 1..k : done[i] = lg[i] /\ lg[i] = h[i] /\ new[i] = h[i]
    BY <1>4, <1>5, <1>6 DEF Begins, Holds, k
  <2> QED
    BY <2>1 DEF Begins, k
<1>8. \A t \in Nat : Begins(H[t], H[t])
  BY RecordAt DEF Begins
<1>9. ASSUME NEW j \in Nat, Holds(new, h, j), NEW i \in Nat, j <= i, Settled(H, A, w, h, i)
      PROVE  Settled(H, B, w, new, j)
  <2>1. w \in Nat /\ w <= w /\ Len(new) \in Nat /\ Len(h) \in Nat
    BY <1>1, <1>2
  <2>2. Settled(H, A, w, new, j)
    BY <1>9, <2>1, SettledLess
  <2> QED
    BY <1>8, <2>2, SettledGrown
<1>10. Begins(applied'[n], new) /\ Settled(H, B, w, new, Len(applied'[n]))
  <2>1. CASE c <= k
    <3>1. applied'[n] = done
      BY <1>1, <1>2, <2>1, ApplyLog DEF done, k
    <3>2. Settled(H, B, w, new, k)
      BY <1>2, <1>5, <1>6, <1>9
    <3> QED
      BY <1>7, <3>1, <3>2 DEF k
  <2>2. CASE c > k
    <3>1. c <= lc /\ c <= last /\ c <= Len(new)
      BY <1>1, <1>2, <2>2 DEF Holds
    <3>2. Len(applied'[n]) = c /\ Begins(applied'[n], new)
      BY <1>1, <1>2, <1>7, <2>2, <3>1, ApplyLog DEF done, k
    <3>3. Holds(new, h, c)
      BY <1>1, <1>2, <3>1, HoldsLess DEF h
    <3>4. Settled(H, A, w, h, lc)
      BY DEF h
    <3>5. Settled(H, B, w, new, c)
      BY <1>9, <3>1, <3>3, <3>4
    <3> QED
      BY <3>2, <3>5
  <2> QED
    BY <1>2, <2>1, <2>2
<1>11. ASSUME NEW p \in Node, p # n
       PROVE  /\ Begins(applied'[p], log'[p])
              /\ Settled(H, B, current_term'[p], log'[p], Len(applied'[p]))
  <2>1. /\ log'[p] = log[p] /\ current_term'[p] = current_term[p] /\ applied'[p] = applied[p]
    BY <1>1, <1>11
  <2>2. Begins(applied[p], log[p]) /\ Settled(H, A, current_term[p], log[p], Len(applied[p]))
    BY DEF Committed
  <2>3. Len(applied[p]) \in Nat
    BY DEF TypeInv, TypeOK
  <2>4. Settled(H, B, current_term[p], log[p], Len(applied[p]))
    BY <1>8, <2>2, <2>3, SettledGrown
  <2> QED
    BY <2>1, <2>2, <2>4
<1>12. ASSUME NEW m \in msgs', m.type = "Append"
       PROVE  CommitTrue(H, B, m)'
  <2>1. m \in msgs /\ CommitTrue(H, A, m)
    BY <1>1, <1>12 DEF Committed
  <2>2. m.leader_commit \in Nat
    BY <1>12, <2>1, MessageKinds DEF TypeInv, TypeOK, AppendMessage
  <2>3. Settled(H, A, m.term, H[m.term], m.leader_commit)
          => Settled(H, B, m.term, H[m.term], m.leader_commit)
    BY <1>8, <2>2, SettledGrown
  <2> QED
    BY <1>1, <2>1, <2>3 DEF CommitTrue, SaysSettled
<1>13. \A p \in Node : /\ Begins(applied'[p], log'[p])
                       /\ Settled(H, B, current_term'[p], log'[p], Len(applied'[p]))
  BY <1>1, <1>10, <1>11
<1> QED
  BY <1>12, <1>13 DEF Committed

\* The commit index that AppendEntries m gives its receiver is no news, or within what the
\* batch has shown the receiver to share with the leader.  handle_append looks at the end of
\* the receiver's log instead, which may be further.
InBatch(m) ==
  LET n == m.to
      c == CommitAfter(n, Merged(log[n], m.prev_log_index, m.entries), m)
  IN  c = commit_index[n] \/ c <= m.prev_log_index + Len(m.entries)

\* A log that matches AppendEntries m has an entry before the batch, or the batch is the
\* first; so m says what is settled.
LEMMA AcceptSettled ==
  ASSUME TypeInv, ElectionInv, LeadersKnown, NEW H, NEW A, Safe(H, A), NEW m \in msgs,
         AcceptAppend(m)
  PROVE  Settled(H, A, m.term, H[m.term], m.leader_commit) /\ Reaches(m)
<1> DEFINE n == m.to
           k == m.prev_log_index
<1>1. MayMerge(H, log[n], m)
  BY AcceptMerges DEF Safe
<1>2. /\ H \in Records /\ log[n] \in Seq(Entry) /\ m \in AppendMessage
      /\ OnRecord(log[n], H) /\ H[0] = <<>> /\ k <= Len(log[n])
      /\ TermAt(log[n], k) = m.prev_log_term
  BY <1>1 DEF MayMerge, LogMatches
<1>3. k \in Nat /\ Len(log[n]) \in Nat
  BY <1>2 DEF AppendMessage
<1> HIDE DEF n, k
<1>4. ASSUME k > 0, m.prev_log_term = 0 PROVE FALSE
  <2>1. k \in 1..Len(log[n])
    BY <1>2, <1>3, <1>4
  <2>2. log[n][k].term = 0
    BY <1>2, <1>4, <2>1 DEF TermAt
  <2> QED
    BY <1>2, <2>1, <2>2, NoTermZero
<1>5. CommitTrue(H, A, m)
  BY DEF AcceptAppend, Safe, Committed
<1> QED
  BY <1>4, <1>5 DEF CommitTrue, SaysSettled, k

\* A batch that reaches its commit index gives no other.
LEMMA BatchCovers ==
  ASSUME TypeInv, ElectionInv, LeadersKnown, NEW H, NEW A, Safe(H, A), NEW m \in msgs,
         AcceptAppend(m), Near(m)
  PROVE  InBatch(m)
<1> DEFINE n == m.to
           new == Merged(log[n], m.prev_log_index, m.entries)
           last == m.prev_log_index + Len(m.entries)
           c == CommitAfter(n, new, m)
<1>1. MayMerge(H, log[n], m)
  BY AcceptMerges DEF Safe
<1>2. /\ m \in AppendMessage /\ new \in Seq(Entry) /\ last \in Nat
      /\ m.leader_commit \in Nat
  BY <1>1, MergedType, MessageKinds DEF MayMerge, AppendMessage, LogMatches
<1>3. m.leader_commit <= last
  BY AcceptSettled DEF Reaches
<1>4. Len(new) \in Nat
  BY <1>2
<1> HIDE DEF new, last
<1>5. c = commit_index[n] \/ c <= last
  BY <1>2, <1>3, <1>4 DEF CommitAfter, Smaller
<1> QED
  BY <1>5 DEF InBatch, new, last

\* handle_append that matches keeps the invariant, with the same record.
LEMMA AcceptSafe ==
  ASSUME TypeInv, TypeInv', ElectionInv, LeadersKnown, RequestsTrue, NEW H, NEW A,
         Safe(H, A), NEW m \in msgs, AcceptAppend(m), InBatch(m)
  PROVE  RequestsTrue' /\ \E B : Safe(H, B)'
<1> DEFINE n == m.to
           w == m.term
           new == Merged(log[n], m.prev_log_index, m.entries)
           last == m.prev_log_index + Len(m.entries)
           resp == AppendResp(m, w, TRUE, last)
           c == CommitAfter(n, new, m)
           B == Acks(H, A, w, n, last)
<1>1. MayMerge(H, log[n], m)
  BY AcceptMerges DEF Safe
<1>2. /\ H \in Records /\ m \in AppendMessage /\ new \in Seq(Entry) /\ last \in Nat
      /\ m.leader_commit \in Nat /\ w \in Nat /\ n \in Node /\ m.prev_log_index <= Len(log[n])
  BY <1>1, MergedType, MessageKinds DEF MayMerge, AppendMessage, LogMatches
<1>3. /\ Holds(new, H[w], last)
      /\ \A i \in Nat : Holds(log[n], H[w], i) => Holds(new, H[w], i)
      /\ new = log[n] \/ Begins(new, H[w])
  BY <1>1, MergedOnRecord
<1>4. /\ current_term[n] <= w /\ current_term'[n] = w
      /\ role'[n] = "follower" /\ log'[n] = new
      /\ \A p \in Node \ {n} : log'[p] = log[p] /\ current_term'[p] = current_term[p]
      /\ msgs' \subseteq msgs \cup {resp} /\ UNCHANGED match_index /\ NoNewLeader
  <2>1. m.term >= current_term[n] /\ current_term[n] \in Nat
    BY <1>2 DEF AcceptAppend, TypeInv, TypeOK
  <2> QED
    BY <1>2, <2>1, AcceptEffects
<1>5. UNCHANGED votes /\ applied' = [applied EXCEPT ![n] = Apply(@, new, c)]
  BY DEF AcceptAppend, history
<1>6. CommitTrue(H, A, m) /\ m.type = "Append"
  BY DEF AcceptAppend, Safe, Committed
<1>7. resp.type = "AppendResp" /\ resp.from = n /\ resp.term = w /\ resp.match_index = last
  BY DEF AppendResp
<1>8. /\ \A p \in Node \ {n} : applied'[p] = applied[p]
      /\ applied'[n] = Apply(applied[n], new, c)
  BY <1>2, <1>5 DEF TypeInv, TypeOK
<1>9. Settled(H, A, w, H[w], m.leader_commit)
  BY AcceptSettled
<1>10. c \in Nat /\ ((c <= m.leader_commit /\ c <= last) \/ c = commit_index[n])
  <2>1. commit_index[n] \in Nat /\ Len(new) \in Nat
    BY <1>2 DEF TypeInv, TypeOK
  <2>2. c = commit_index[n] \/ c <= last
    BY DEF InBatch
  <2> HIDE DEF new, last
  <2> QED
    BY <1>2, <2>1, <2>2 DEF CommitAfter, Smaller
<1>11. \E l \in leaders : l[1] = w
  BY <1>6 DEF CommitTrue
<1> HIDE DEF n, w, new, last, resp, c
<1>12. Takes(H, n, w, new, last, resp)
  BY <1>2, <1>3, <1>4, <1>5, <1>7, <1>8, <1>11 DEF Takes
<1>13. RequestsTrue'
  BY <1>12, TakesRequests DEF TypeInv
<1>14. TermsOrdered(H)'
  BY <1>2, <1>12, TakesTerms DEF TypeInv, Safe
<1>15. /\ Acknowledged(H, B)' /\ VotesBacked(H, B)'
       /\ LeadersBacked(H, B)' /\ ReportsTrue(H, B)'
  BY <1>2, <1>12, TakesAcked DEF TypeInv, Safe, ElectionInv
<1>16. Committed(H, B)'
  <2>1. A \subseteq B
    BY DEF Acks
  <2> HIDE DEF B
  <2> QED
    BY <1>2, <1>8, <1>9, <1>10, <1>12, <2>1, TakesCommitted DEF TypeInv, Safe
<1>17. Recorded(H)'
  BY AcceptRecord DEF Safe
<1> HIDE DEF B
<1> QED
  BY <1>13, <1>14, <1>15, <1>16, <1>17 DEF Safe

-----------------------------------------------------------------------------
(* Steps at which a leader writes: become_leader and raft_propose. *)

\* Writes, and what else such a step does.  The leader acknowledges what it writes.
Extends(H, A, n, t, lg) ==
  LET G == With(H, t, lg)
      B == Acks(G, A, t, n, Len(lg))
  IN  /\ Writes(H, n, t, lg)
      /\ \A i \in 1..Len(lg) : i > Len(log[n]) => lg[i].term = t
      /\ NoLeader(t) \/ H[t] = log[n]
      /\ \E Q \in SUBSET Voters :
           IsQuorum(Q) /\ \A p \in Q : t <= current_term'[p] /\ Backed(H, A, p, t, log[n])
      /\ \A p \in Node : InRealRound(p)' => p # n /\ InRealRound(p)
      /\ \A v \in votes' : v \in votes \/ v = <<t, n, n>>
      /\ \A m \in msgs' : m \in msgs
           \/ \E p : \E next \in Nat \ {0} : m = AppendMsg(n, p, lg, t, next, commit_index[n])
      /\ \A x, p \in Node : role'[x] = "leader" =>
           \/ match_index'[x][p] = 0
           \/ x = n /\ p = n /\ match_index'[x][p] = Len(lg)
           \/ role[x] = "leader" /\ current_term'[x] = current_term[x]
              /\ match_index'[x][p] = match_index[x][p]
      /\ \A p \in Node \ {n} : applied'[p] = applied[p]
      /\ \/ applied'[n] = applied[n]
         \/ \E c \in 1..Len(lg) : /\ c > Len(applied[n])
                                  /\ applied'[n] = Apply(applied[n], lg, c)
                                  /\ Chosen(G, B, t, c)

\* The old record and the new one.
Grows(H, G, n, t, lg) ==
  /\ H \in Records /\ G \in Records /\ n \in Node /\ t \in Nat /\ lg \in Seq(Entry)
  /\ G[t] = lg /\ log[n] \in Seq(Entry)
  /\ \A u \in Nat : u # t => G[u] = H[u]
  /\ \A u \in Nat : Begins(H[u], G[u])
  /\ Begins(log[n], lg)
  /\ log'[n] = lg /\ current_term'[n] = t /\ current_term[n] <= t
  /\ \A p \in Node \ {n} : log'[p] = log[p] /\ current_term'[p] = current_term[p]
  /\ leaders' = leaders \cup {<<t, n>>}
  /\ \A p \in Node : /\ current_term[p] \in Nat /\ current_term'[p] \in Nat
                     /\ current_term[p] <= current_term'[p]

\* They are so.
LEMMA ExtendsGrows ==
  ASSUME TypeOK, NEW H, NEW A, Recorded(H), NEW n, NEW t, NEW lg, Extends(H, A, n, t, lg)
  PROVE  Grows(H, With(H, t, lg), n, t, lg)
<1> DEFINE G == With(H, t, lg)
<1>1. Writes(H, n, t, lg)
  BY DEF Extends
<1>2. /\ H \in Records /\ n \in Node /\ t \in Nat /\ lg \in Seq(Entry)
      /\ Begins(H[t], lg) /\ Begins(log[n], lg)
      /\ current_term'[n] = t /\ current_term[n] <= t
      /\ \A p \in Node \ {n} : current_term'[p] = current_term[p]
      /\ leaders' = leaders \cup {<<t, n>>}
  BY <1>1 DEF Writes, Recorded
<1>3. /\ G \in Records /\ G[t] = lg
      /\ \A u \in Nat : u # t => G[u] = H[u]
      /\ \A u \in Nat : Begins(H[u], G[u])
  BY <1>2, RecordGrows
<1>4. log'[n] = lg /\ \A p \in Node \ {n} : log'[p] = log[p]
  BY <1>1, <1>2 DEF Writes, TypeOK
<1>5. log[n] \in Seq(Entry) /\ \A p \in Node : current_term[p] \in Nat
  BY <1>2 DEF TypeOK
<1>6. \A p \in Node : current_term'[p] \in Nat /\ current_term[p] <= current_term'[p]
  BY <1>2, <1>5
<1> HIDE DEF G
<1>7. Grows(H, G, n, t, lg)
  BY <1>2, <1>3, <1>4, <1>5, <1>6 DEF Grows
<1> QED
  BY <1>7 DEF G

\* What was written before, the new leader's log had before.
LEMMA HadBefore ==
  ASSUME NEW s \in Seq(Entry), NEW lg \in Seq(Entry), Begins(s, lg), NEW t \in Nat,
         \A i \in 1..Len(lg) : i > Len(s) => lg[i].term = t,
         NEW h, NEW x \in Nat, x < t, NEW k \in Nat, k >= 1, h[k].term = x, Holds(lg, h, k)
  PROVE  Holds(s, h, k)
<1>1. Len(s) \in Nat /\ Len(lg) \in Nat /\ k <= Len(lg) /\ k <= Len(h) /\ lg[k] = h[k]
  BY DEF Holds
<1>2. k <= Len(s)
  <2> SUFFICES ASSUME k > Len(s) PROVE FALSE
    BY <1>1
  <2>1. k \in 1..Len(lg)
    BY <1>1
  <2>2. lg[k].term = t
    BY <2>1
  <2> QED
    BY <1>1, <2>2
<1>3. \A i \in 1..k : i \in 1..Len(s)
  BY <1>1, <1>2
<1>4. \A i \in 1..k : s[i] = h[i]
  BY <1>3 DEF Begins, Holds
<1> QED
  BY <1>1, <1>2, <1>4 DEF Holds

\* Entries on record stay there.
LEMMA OwnGrown ==
  ASSUME NEW H \in Records, NEW G \in Records, \A u \in Nat : Begins(H[u], G[u]),
         NEW x \in Nat, NEW k, Own(H, x, k)
  PROVE  /\ Own(G, x, k) /\ k \in Nat /\ k >= 1
         /\ \A s : Holds(s, G[x], k) <=> Holds(s, H[x], k)
<1> DEFINE h == H[x]
           g == G[x]
<1>1. Len(h) \in Nat /\ Len(g) \in Nat /\ Begins(h, g)
  BY RecordAt
<1>2. k \in 1..Len(h) /\ h[k].term = x
  BY DEF Own
<1> HIDE DEF h, g
<1>3. k \in Nat /\ k >= 1 /\ k <= Len(h) /\ Len(h) <= Len(g) /\ k \in 1..Len(g)
      /\ \A i \in 1..k : i \in 1..Len(h)
  BY <1>1, <1>2 DEF Begins
<1>4. \A i \in 1..k : g[i] = h[i]
  BY <1>1, <1>3 DEF Begins
<1>5. g[k].term = x
  BY <1>2, <1>3, <1>4
<1>6. \A s : Holds(s, g, k) <=> Holds(s, h, k)
  <2>1. k <= Len(h) /\ k <= Len(g)
    BY <1>1, <1>3
  <2> QED
    BY <1>4, <2>1 DEF Holds
<1> QED
  BY <1>3, <1>5, <1>6 DEF Own, g, h

\* If all leaders after the step have an entry that was there before it, all leaders
\* before it had.
LEMMA PassedBack ==
  ASSUME TypeOK, NEW H, NEW A, Recorded(H), NEW n, NEW t, NEW lg, Extends(H, A, n, t, lg),
         NEW x \in Nat, NEW k, Own(H, x, k), NEW u, Passed(With(H, t, lg), x, k, u)'
  PROVE  Passed(H, x, k, u)
<1> DEFINE G == With(H, t, lg)
<1> SUFFICES ASSUME NEW l \in leaders, x < l[1], l[1] < u
             PROVE  Holds(H[l[1]], H[x], k)
  BY DEF Passed
<1>1. Grows(H, G, n, t, lg)
  BY ExtendsGrows
<1>2. Passed(G, x, k, u)'
  OBVIOUS
<1> HIDE DEF G
<1>3. l \in leaders' /\ l[1] \in Nat
  BY <1>1 DEF Grows, TypeOK
<1>4. Holds(G[l[1]], G[x], k)
  BY <1>2, <1>3 DEF Passed
<1>5. /\ k \in Nat /\ k >= 1
      /\ \A s : Holds(s, G[x], k) <=> Holds(s, H[x], k)
  BY <1>1, OwnGrown DEF Grows
<1>6. Holds(G[l[1]], H[x], k)
  BY <1>4, <1>5
<1>7. CASE l[1] # t
  BY <1>1, <1>3, <1>6, <1>7 DEF Grows
<1>8. CASE l[1] = t
  <2>1. H[t] = log[n] /\ \A i \in 1..Len(lg) : i > Len(log[n]) => lg[i].term = t
    BY <1>8 DEF Extends, NoLeader
  <2>2. /\ log[n] \in Seq(Entry) /\ lg \in Seq(Entry) /\ Begins(log[n], lg)
        /\ Holds(lg, H[x], k) /\ x < t /\ t \in Nat
    BY <1>1, <1>6, <1>8 DEF Grows
  <2>3. H[x][k].term = x
    BY DEF Own
  <2>4. Holds(log[n], H[x], k)
    BY <1>5, <2>1, <2>2, <2>3, HadBefore
  <2> QED
    BY <1>8, <2>1, <2>4
<1> QED
  BY <1>7, <1>8

\* What backs a log before the step backs it after.
LEMMA BackedGrown ==
  ASSUME TypeOK, NEW H, NEW A, Recorded(H), Acknowledged(H, A),
         NEW n, NEW t, NEW lg, Extends(H, A, n, t, lg),
         NEW p, NEW u, NEW s, Backed(H, A, p, u, s)
  PROVE  Backed(With(H, t, lg), A, p, u, s)'
<1> DEFINE G == With(H, t, lg)
<1> SUFFICES ASSUME NEW a \in A, a[2] = p, a[1] < u, Passed(G, a[1], a[3], u)'
             PROVE  Holds(s, G[a[1]], a[3])
  BY DEF Backed
<1>1. a[1] \in Nat /\ Own(H, a[1], a[3])
  BY DEF Acknowledged
<1>2. Passed(H, a[1], a[3], u)
  BY <1>1, PassedBack
<1>3. Holds(s, H[a[1]], a[3])
  BY <1>2 DEF Backed
<1>4. Grows(H, G, n, t, lg)
  BY ExtendsGrows
<1> HIDE DEF G
<1> QED
  BY <1>1, <1>3, <1>4, OwnGrown DEF Grows

\* The terms of entries.
LEMMA ExtendsTerms ==
  ASSUME TypeOK, NEW H, NEW A, Recorded(H), TermsOrdered(H),
         NEW n, NEW t, NEW lg, Extends(H, A, n, t, lg)
  PROVE  TermsOrdered(With(H, t, lg))'
<1> DEFINE G == With(H, t, lg)
<1>1. Grows(H, G, n, t, lg)
  BY ExtendsGrows
<1>2. \A i \in 1..Len(lg) : i > Len(log[n]) => lg[i].term = t
  BY DEF Extends
<1>3. \A p \in Node : InRealRound(p)' => p # n /\ InRealRound(p)
  BY DEF Extends
<1> HIDE DEF G
<1> USE DEF Grows
<1>4. ASSUME NEW i \in 1..Len(lg)
      PROVE  lg[i].term <= t
  <2>1. Len(lg) \in Nat /\ Len(log[n]) \in Nat /\ i \in Nat /\ i >= 1
    BY <1>1
  <2>2. CASE i <= Len(log[n])
    <3>1. i \in 1..Len(log[n])
      BY <2>1, <2>2
    <3>2. log[n][i].term <= current_term[n] /\ log[n][i].term \in Nat
      BY <1>1, <3>1, EntryAt DEF TermsOrdered
    <3>3. lg[i] = log[n][i]
      BY <1>1, <3>1 DEF Begins
    <3> QED
      BY <1>1, <3>2, <3>3
  <2>3. CASE i > Len(log[n])
    BY <1>1, <1>2, <2>3
  <2> QED
    BY <2>1, <2>2, <2>3
<1>5. \A u \in Nat : \A i \in 1..Len(G[u]) : G[u][i].term <= u
  <2> TAKE u \in Nat
  <2>1. CASE u = t
    BY <1>1, <1>4, <2>1
  <2>2. CASE u # t
    BY <1>1, <2>2 DEF TermsOrdered
  <2> QED
    BY <2>1, <2>2
<1>6. \A p \in Node : \A i \in 1..Len(log'[p]) :
        /\ log'[p][i].term <= current_term'[p]
        /\ InRealRound(p)' => log'[p][i].term < current_term'[p]
  <2> TAKE p \in Node
  <2>1. CASE p = n
    BY <1>1, <1>3, <1>4, <2>1
  <2>2. CASE p # n
    <3>1. log'[p] = log[p] /\ current_term'[p] = current_term[p]
      BY <1>1, <2>2
    <3> QED
      BY <1>3, <3>1 DEF TermsOrdered
  <2> QED
    BY <2>1, <2>2
<1>7. TermsOrdered(G)'
  BY <1>5, <1>6 DEF TermsOrdered
<1> QED
  BY <1>7 DEF G

\* Rounds and requests.
LEMMA ExtendsRequests ==
  ASSUME TypeOK, TypeOK', RequestsTrue, NEW H, NEW A, Recorded(H),
         NEW n, NEW t, NEW lg, Extends(H, A, n, t, lg)
  PROVE  RequestsTrue'
<1>1. Grows(H, With(H, t, lg), n, t, lg)
  BY ExtendsGrows
<1>2. RoundsKeep
  <2>1. \A p \in Node : InRealRound(p)' => p # n /\ InRealRound(p)
    BY DEF Extends
  <2> QED
    BY <1>1, <2>1 DEF RoundsKeep, Grows
<1>3. \A m \in msgs' : m \in msgs \/ ~(m.type = "RequestVote" /\ ~m.pre_vote)
  <2> TAKE m \in msgs'
  <2>1. CASE \E p : \E next \in Nat \ {0} : m = AppendMsg(n, p, lg, t, next, commit_index[n])
    <3>1. m.type = "Append"
      BY <2>1 DEF AppendMsg
    <3> QED
      BY <3>1
  <2> QED
    BY <2>1 DEF Extends
<1>4. \A v \in votes' : v \in votes \/ v[1] <= current_term'[v[3]]
  <2> TAKE v \in votes'
  <2>1. CASE v = <<t, n, n>>
    <3>1. v[1] = t /\ v[3] = n /\ current_term'[n] = t /\ t \in Nat
      BY <1>1, <2>1 DEF Grows
    <3> QED
      BY <3>1
  <2> QED
    BY <2>1 DEF Extends
<1> QED
  BY <1>2, <1>3, <1>4, RequestsKeep

\* Reports stay true when records and acknowledgements are added.
LEMMA ReportedGrown ==
  ASSUME NEW H \in Records, NEW G \in Records, \A u \in Nat : Begins(H[u], G[u]),
         NEW A, NEW B, A \subseteq B, NEW x \in Nat, NEW p, NEW k \in Nat,
         Reported(H, A, x, p, k)
  PROVE  Reported(G, B, x, p, k)
<1> DEFINE h == H[x]
           g == G[x]
<1>1. /\ Len(h) \in Nat /\ Len(g) \in Nat /\ Len(h) <= Len(g)
      /\ \A j \in 1..Len(h) : h[j] = g[j]
  BY RecordAt DEF Begins
<1>2. k <= Len(h) /\ \A j \in 1..k : h[j].term = x => <<x, p, j>> \in A
  BY DEF Reported
<1> HIDE DEF h, g
<1>3. k <= Len(g) /\ \A j \in 1..k : h[j] = g[j]
  BY <1>1, <1>2
<1> QED
  BY <1>2, <1>3 DEF Reported, g

\* What is acknowledged.
LEMMA ExtendsAcked ==
  ASSUME TypeOK, TypeOK', VotesRemembered, NEW H, NEW A, Recorded(H),
         Acknowledged(H, A), VotesBacked(H, A), LeadersBacked(H, A), ReportsTrue(H, A),
         NEW n, NEW t, NEW lg, Extends(H, A, n, t, lg)
  PROVE  LET G == With(H, t, lg)
             B == Acks(G, A, t, n, Len(lg))
         IN  /\ Acknowledged(G, B)' /\ VotesBacked(G, B)'
             /\ LeadersBacked(G, B)' /\ ReportsTrue(G, B)'
<1> DEFINE G == With(H, t, lg)
           B == Acks(G, A, t, n, Len(lg))
<1>1. Grows(H, G, n, t, lg)
  BY ExtendsGrows
<1>2. \A p, u, s : Backed(H, A, p, u, s) => Backed(G, A, p, u, s)'
  BY BackedGrown
<1>3. \A x \in Nat : \A k, u : Own(H, x, k) /\ Passed(G, x, k, u)' => Passed(H, x, k, u)
  BY PassedBack
<1> HIDE DEF G
<1> USE DEF Grows
<1>4. Len(lg) \in Nat /\ Len(lg) <= Len(G[t])
  BY <1>1
<1>5. /\ A \subseteq B
      /\ \A a \in B : \/ a \in A
                      \/ /\ a[1] = t /\ a[2] = n /\ a[3] \in 1..Len(lg) /\ Own(G, t, a[3])
                         /\ a = <<t, n, a[3]>> /\ a[3] \in Nat
      /\ Reported(G, B, t, n, Len(lg))
  <2>1. G \in Records /\ t \in Nat
    BY <1>1
  <2> QED
    BY <1>4, <2>1, AcksAre
<1> HIDE DEF B
<1>6. A \in SUBSET (Nat \X Node \X Nat)
  BY DEF Acknowledged
<1>7. B \in SUBSET (Nat \X Node \X Nat)
  BY <1>1, <1>5, <1>6
<1>8. ASSUME NEW a \in B
      PROVE  a[1] <= current_term'[a[2]] /\ Own(G, a[1], a[3])
  <2>1. CASE a \in A
    <3>1. a[1] \in Nat /\ a[2] \in Node
      BY <1>6, <2>1
    <3>2. a[1] <= current_term[a[2]] /\ Own(H, a[1], a[3])
      BY <2>1 DEF Acknowledged
    <3>3. Own(G, a[1], a[3])
      BY <1>1, <3>1, <3>2, OwnGrown
    <3>4. /\ current_term[a[2]] \in Nat /\ current_term'[a[2]] \in Nat
          /\ current_term[a[2]] <= current_term'[a[2]]
      BY <1>1, <3>1
    <3> QED
      BY <3>1, <3>2, <3>3, <3>4
  <2>2. CASE a \notin A
    BY <1>1, <1>5, <2>2
  <2> QED
    BY <2>1, <2>2
<1>9. ASSUME NEW a \in B, a[2] = n, Passed(G, a[1], a[3], t + 1)'
      PROVE  Holds(lg, G[a[1]], a[3])
  <2>1. CASE a \notin A
    <3>1. a[1] = t /\ a[3] \in 1..Len(lg) /\ G[t] = lg
      BY <1>1, <1>5, <2>1
    <3>2. a[3] <= Len(lg)
      BY <1>4, <3>1
    <3> QED
      BY <3>1, <3>2 DEF Holds
  <2>2. CASE a \in A
    <3>1. /\ a[1] \in Nat /\ a[3] \in Nat /\ a[1] <= current_term[n]
          /\ Own(H, a[1], a[3])
      BY <1>6, <1>9, <2>2 DEF Acknowledged
    <3>2. Passed(H, a[1], a[3], t + 1)
      BY <1>3, <1>9, <3>1
    <3>3. Passed(H, a[1], a[3], current_term[n] + 1)
      <4> SUFFICES ASSUME NEW l \in leaders, a[1] < l[1], l[1] < current_term[n] + 1
                   PROVE  Holds(H[l[1]], H[a[1]], a[3])
        BY DEF Passed
      <4>1. l[1] \in Nat /\ current_term[n] \in Nat /\ t \in Nat /\ current_term[n] <= t
        BY <1>1 DEF TypeOK
      <4>2. l[1] < t + 1
        BY <4>1
      <4> QED
        BY <3>2, <4>2 DEF Passed
    <3>4. Holds(log[n], H[a[1]], a[3])
      <4>1. a[1] < current_term[n] + 1
        BY <1>1, <3>1
      <4>2. Backed(H, A, n, current_term[n] + 1, log[n])
        BY <1>1 DEF Acknowledged
      <4> QED
        BY <1>9, <2>2, <3>3, <4>1, <4>2 DEF Backed
    <3>5. Holds(lg, H[a[1]], a[3])
      BY <1>1, <3>1, <3>4, HeldGrown
    <3>6. H \in Records /\ G \in Records /\ \A u \in Nat : Begins(H[u], G[u])
      BY <1>1
    <3> QED
      BY <3>1, <3>5, <3>6, OwnGrown
  <2> QED
    BY <2>1, <2>2
<1>10. ASSUME NEW p \in Node
       PROVE  Backed(G, B, p, current_term[p] + 1, log[p])'
  <2>1. CASE p = n
    <3>1. current_term'[n] + 1 = t + 1 /\ log'[n] = lg
      BY <1>1
    <3> QED
      BY <1>9, <2>1, <3>1 DEF Backed
  <2>2. CASE p # n
    <3>1. current_term'[p] = current_term[p] /\ log'[p] = log[p]
      BY <1>1, <2>2
    <3>2. Backed(H, A, p, current_term[p] + 1, log[p])
      BY DEF Acknowledged
    <3>3. Backed(G, A, p, current_term[p] + 1, log[p])'
      BY <1>2, <3>1, <3>2
    <3>4. \A a \in B : a[2] = p => a \in A
      BY <1>5, <2>2
    <3> QED
      BY <3>3, <3>4 DEF Backed
  <2> QED
    BY <2>1, <2>2
<1>11. Acknowledged(G, B)'
  BY <1>7, <1>8, <1>10 DEF Acknowledged
<1>12. ASSUME NEW p \in Node, NEW u \in Nat, u <= t \/ p # n \/ u <= current_term[p],
              NEW s, Backed(H, A, p, u, s)
       PROVE  Backed(G, B, p, u, s)'
  <2>1. Backed(G, A, p, u, s)'
    BY <1>2, <1>12
  <2>2. ASSUME NEW a \in B, a \notin A, a[2] = p, a[1] < u
        PROVE  FALSE
    <3>1. a[1] = t /\ p = n
      BY <1>5, <2>2
    <3>2. current_term[n] <= t /\ current_term[n] \in Nat /\ t \in Nat
      BY <1>1
    <3> QED
      BY <1>12, <2>2, <3>1, <3>2
  <2> QED
    BY <2>1, <2>2 DEF Backed
<1>13. VotesBacked(G, B)'
  <2> SUFFICES ASSUME NEW c \in Node, InRealRound(c)', NoLeader(current_term[c])',
                      NEW p \in Node, <<current_term'[c], p, c>> \in votes'
               PROVE  Backed(G, B, p, current_term[c], log[c])'
    BY DEF VotesBacked
  <2>1. c # n /\ InRealRound(c)
    BY DEF Extends
  <2>2. /\ current_term'[c] = current_term[c] /\ log'[c] = log[c]
        /\ NoLeader(current_term[c]) /\ current_term[c] \in Nat
    BY <1>1, <2>1 DEF NoLeader
  <2>3. <<current_term[c], p, c>> \in votes
    BY <2>1, <2>2 DEF Extends
  <2>4. Backed(H, A, p, current_term[c], log[c])
    BY <2>1, <2>2, <2>3 DEF VotesBacked
  <2>5. current_term[c] <= current_term[p]
    BY <2>3 DEF VotesRemembered
  <2> QED
    BY <1>12, <2>2, <2>4, <2>5
<1>14. ASSUME NEW l \in leaders'
       PROVE  \E Q \in SUBSET Voters :
                /\ IsQuorum(Q)
                /\ \A p \in Q : l[1] <= current_term'[p] /\ Backed(G, B, p, l[1], G[l[1]])'
  <2>1. CASE l[1] = t
    <3>1. PICK Q \in SUBSET Voters :
            /\ IsQuorum(Q)
            /\ \A p \in Q : t <= current_term'[p] /\ Backed(H, A, p, t, log[n])
      BY DEF Extends
    <3>2. ASSUME NEW p \in Q
          PROVE  t <= current_term'[p] /\ Backed(G, B, p, t, lg)'
      <4>1. p \in Node /\ t \in Nat
        BY <1>1, NodeAssumption
      <4>2. Backed(H, A, p, t, lg)
        <5> SUFFICES ASSUME NEW a \in A, Holds(log[n], H[a[1]], a[3])
                     PROVE  Holds(lg, H[a[1]], a[3])
          BY <3>1 DEF Backed
        <5>1. a[3] \in Nat
          BY <1>6
        <5> QED
          BY <1>1, <5>1, HeldGrown
      <4>3. t <= t
        BY <4>1
      <4>4. Backed(G, B, p, t, lg)'
        BY <1>12, <4>1, <4>2, <4>3
      <4> QED
        BY <3>1, <4>4
    <3>3. G[l[1]] = lg
      BY <1>1, <2>1
    <3> QED
      BY <2>1, <3>1, <3>2, <3>3
  <2>2. CASE l[1] # t
    <3>1. l \in leaders /\ l[1] \in Nat /\ G[l[1]] = H[l[1]]
      <4>1. l \in leaders
        BY <1>1, <2>2
      <4>2. l[1] \in Nat
        BY <4>1 DEF TypeOK
      <4> QED
        BY <1>1, <2>2, <4>1, <4>2
    <3>2. PICK Q \in SUBSET Voters :
            /\ IsQuorum(Q)
            /\ \A p \in Q : l[1] <= current_term[p] /\ Backed(H, A, p, l[1], H[l[1]])
      BY <3>1 DEF LeadersBacked
    <3>3. ASSUME NEW p \in Q
          PROVE  l[1] <= current_term'[p] /\ Backed(G, B, p, l[1], G[l[1]])'
      <4>1. p \in Node /\ l[1] <= current_term[p]
        BY <3>2, NodeAssumption
      <4>2. l[1] <= current_term'[p]
        BY <1>1, <3>1, <4>1
      <4>3. Backed(G, B, p, l[1], H[l[1]])'
        BY <1>12, <3>1, <3>2, <4>1
      <4> QED
        BY <3>1, <4>2, <4>3
    <3> QED
      BY <3>2, <3>3
  <2> QED
    BY <2>1, <2>2
<1>15. LeadersBacked(G, B)'
  BY <1>14 DEF LeadersBacked
<1>16. ReportsTrue(G, B)'
  <2>1. ASSUME NEW x \in Nat, NEW p, NEW k \in Nat, Reported(H, A, x, p, k)
        PROVE  Reported(G, B, x, p, k)
    <3>1. H \in Records /\ G \in Records /\ \A u \in Nat : Begins(H[u], G[u])
      BY <1>1
    <3> QED
      BY <1>5, <2>1, <3>1, ReportedGrown
  <2>2. ASSUME NEW m \in msgs', m.type = "AppendResp", m.success
        PROVE  Reported(G, B, m.term, m.from, m.match_index)
    <3>1. m \in msgs
      BY <2>2 DEF Extends, AppendMsg
    <3>2. m.term \in Nat /\ m.match_index \in Nat
      BY <2>2, <3>1, MessageKinds DEF TypeOK, AppendRespMsg
    <3> QED
      BY <2>1, <2>2, <3>1, <3>2 DEF ReportsTrue
  <2>3. ASSUME NEW x \in Node, NEW p \in Node, role'[x] = "leader"
        PROVE  Reported(G, B, current_term'[x], p, match_index'[x][p])
    <3>1. CASE match_index'[x][p] = 0
      <4>1. Len(G[current_term'[x]]) \in Nat
        BY <1>1, RecordAt
      <4> QED
        BY <3>1, <4>1 DEF Reported
    <3>2. CASE x = n /\ p = n /\ match_index'[x][p] = Len(lg)
      BY <1>1, <1>5, <3>2
    <3>3. CASE /\ role[x] = "leader" /\ current_term'[x] = current_term[x]
               /\ match_index'[x][p] = match_index[x][p]
      <4>1. Reported(H, A, current_term[x], p, match_index[x][p])
        BY <3>3 DEF ReportsTrue
      <4>2. current_term[x] \in Nat /\ match_index[x][p] \in Nat
        BY DEF TypeOK
      <4> QED
        BY <2>1, <3>3, <4>1, <4>2
    <3> QED
      BY <2>3, <3>1, <3>2, <3>3 DEF Extends
  <2> QED
    BY <2>2, <2>3 DEF ReportsTrue
<1> QED
  BY <1>11, <1>13, <1>15, <1>16 DEF G, B

\* What is committed.
LEMMA ExtendsCommitted ==
  ASSUME TypeInv, NEW H, NEW A, Recorded(H),
         Committed(H, A), NEW n, NEW t, NEW lg, Extends(H, A, n, t, lg)
  PROVE  Committed(With(H, t, lg), Acks(With(H, t, lg), A, t, n, Len(lg)))'
<1> DEFINE G == With(H, t, lg)
           B == Acks(G, A, t, n, Len(lg))
<1>1. Grows(H, G, n, t, lg)
  BY ExtendsGrows DEF TypeInv
<1>2. A \subseteq B
  BY DEF Acks
<1>3. /\ \A p \in Node \ {n} : applied'[p] = applied[p]
      /\ \/ applied'[n] = applied[n]
         \/ \E c \in 1..Len(lg) : /\ c > Len(applied[n])
                                  /\ applied'[n] = Apply(applied[n], lg, c)
                                  /\ Chosen(G, B, t, c)
  BY DEF Extends
<1> HIDE DEF G, B
<1> USE DEF Grows
<1>4. Len(lg) \in Nat /\ Len(log[n]) \in Nat /\ Len(log[n]) <= Len(lg)
      /\ \A i \in 1..Len(log[n]) : log[n][i] = lg[i]
  BY <1>1 DEF Begins
<1>5. ASSUME NEW k \in Nat, k <= Len(log[n]), Settled(H, A, current_term[n], log[n], k)
      PROVE  Settled(G, B, t, lg, k)
  <2>1. Holds(lg, log[n], k)
    BY <1>4, <1>5 DEF Holds
  <2>2. current_term[n] \in Nat /\ t \in Nat /\ current_term[n] <= t /\ k <= k
    BY <1>1, <1>5
  <2>3. Settled(H, A, t, lg, k)
    BY <1>1, <1>4, <1>5, <2>1, <2>2, SettledLess
  <2> QED
    BY <1>1, <1>2, <2>3, SettledGrown
<1>6. /\ applied[n] \in Seq(Entry) /\ Len(applied[n]) \in Nat
      /\ Begins(applied[n], log[n]) /\ Len(applied[n]) <= Len(log[n])
      /\ Settled(H, A, current_term[n], log[n], Len(applied[n]))
  BY <1>1 DEF TypeInv, TypeOK, Committed, Begins
<1>7. Begins(applied[n], lg)
  BY <1>4, <1>6 DEF Begins
<1>8. Begins(applied'[n], lg) /\ Settled(G, B, t, lg, Len(applied'[n]))
  <2>1. CASE applied'[n] = applied[n]
    BY <1>5, <1>6, <1>7, <2>1
  <2>2. CASE applied'[n] # applied[n]
    <3>1. PICK c \in 1..Len(lg) : /\ c > Len(applied[n])
                                  /\ applied'[n] = Apply(applied[n], lg, c)
                                  /\ Chosen(G, B, t, c)
      BY <1>3, <2>2
    <3>2. c \in Nat /\ c <= Len(lg)
      BY <1>4
    <3>3. Len(applied'[n]) = c /\ Begins(applied'[n], lg)
      BY <1>1, <1>6, <1>7, <3>1, <3>2, ApplyLog
    <3>4. Settled(G, B, t, lg, c)
      <4>1. Holds(lg, G[t], c) /\ t <= t /\ c <= c /\ t \in Nat
        BY <1>1, <3>2 DEF Holds
      <4> QED
        BY <3>1, <3>2, <4>1 DEF Settled
    <3> QED
      BY <3>3, <3>4
  <2> QED
    BY <2>1, <2>2
<1>9. ASSUME NEW p \in Node, p # n
      PROVE  /\ Begins(applied'[p], log'[p])
             /\ Settled(G, B, current_term'[p], log'[p], Len(applied'[p]))
  <2>1. log'[p] = log[p] /\ current_term'[p] = current_term[p] /\ applied'[p] = applied[p]
    BY <1>1, <1>3, <1>9
  <2>2. Begins(applied[p], log[p]) /\ Settled(H, A, current_term[p], log[p], Len(applied[p]))
    BY DEF Committed
  <2>3. Len(applied[p]) \in Nat
    BY DEF TypeInv, TypeOK
  <2>4. Settled(G, B, current_term[p], log[p], Len(applied[p]))
    BY <1>1, <1>2, <2>2, <2>3, SettledGrown
  <2> QED
    BY <2>1, <2>2, <2>4
<1>10. \A p \in Node : /\ Begins(applied'[p], log'[p])
                       /\ Settled(G, B, current_term'[p], log'[p], Len(applied'[p]))
  BY <1>1, <1>8, <1>9
<1>11. ASSUME NEW m \in msgs, m.type = "Append"
       PROVE  CommitTrue(G, B, m)'
  <2> DEFINE u == m.term
             c == m.leader_commit
             h == H[u]
             g == G[u]
  <2>1. CommitTrue(H, A, m)
    BY <1>11 DEF Committed
  <2>2. u \in Nat /\ c \in Nat
    BY <1>11, MessageKinds DEF TypeInv, TypeOK, AppendMessage
  <2>3. h \in Seq(Entry) /\ g \in Seq(Entry) /\ Begins(h, g) /\ Len(h) \in Nat /\ Len(g) \in Nat
    BY <1>1, <2>2, RecordAt
  <2> HIDE DEF u, c, h, g
  <2>4. ASSUME Settled(H, A, u, h, c)
        PROVE  Settled(G, B, u, g, c)
    <3>1. c <= Len(h)
      <4>1. CASE c = 0
        BY <2>3, <4>1
      <4>2. CASE c # 0
        BY <2>4, <4>2 DEF Settled, Holds
      <4> QED
        BY <4>1, <4>2
    <3>2. Holds(g, h, c)
      BY <2>2, <2>3, <3>1 DEF Holds, Begins
    <3>3. u <= u /\ c <= c
      BY <2>2
    <3>4. Settled(H, A, u, g, c)
      BY <1>1, <2>2, <2>3, <2>4, <3>2, <3>3, SettledLess
    <3> QED
      BY <1>1, <1>2, <2>2, <3>4, SettledGrown
  <2>5. SaysSettled(G, B, m)
    BY <2>1, <2>4 DEF CommitTrue, SaysSettled, u, c, h, g
  <2>6. \E l \in leaders' : l[1] = m.term
    BY <1>1, <2>1 DEF CommitTrue
  <2> QED
    BY <2>5, <2>6 DEF CommitTrue
<1>12. ASSUME NEW m \in msgs', m \notin msgs
       PROVE  CommitTrue(G, B, m)'
  <2>1. PICK p : \E next \in Nat \ {0} : m = AppendMsg(n, p, lg, t, next, commit_index[n])
    BY <1>12 DEF Extends
  <2>2. PICK next \in Nat \ {0} : m = AppendMsg(n, p, lg, t, next, commit_index[n])
    BY <2>1
  <2>3. /\ commit_index[n] \in Nat /\ commit_index[n] <= Len(log[n])
        /\ Settled(H, A, current_term[n], log[n], commit_index[n])
    BY <1>1, CommitSettled
  <2>4. Settled(G, B, t, lg, commit_index[n]) /\ commit_index[n] <= Len(lg)
    BY <1>4, <1>5, <2>3
  <2>5. Len(lg) <= RAFT_MAX_LOG
    BY DEF Extends, Writes
  <2>6. SaysSettled(G, B, m)
    BY <1>1, <2>2, <2>3, <2>4, <2>5, SendsCommit
  <2>7. \E l \in leaders' : l[1] = t
    <3>1. <<t, n>> \in leaders' /\ <<t, n>>[1] = t
      BY <1>1
    <3> QED
      BY <3>1
  <2>8. m.term = t
    BY <2>2 DEF AppendMsg
  <2> QED
    BY <2>6, <2>7, <2>8 DEF CommitTrue
<1>13. Committed(G, B)'
  BY <1>10, <1>11, <1>12 DEF Committed
<1> QED
  BY <1>13 DEF G, B

\* A step that writes keeps the invariant.
LEMMA ExtendsSafe ==
  ASSUME TypeInv, TypeInv', ElectionInv, RequestsTrue,
         NEW H, NEW A, Safe(H, A), NEW n, NEW t, NEW lg, Extends(H, A, n, t, lg)
  PROVE  RequestsTrue' /\ \E G, B : Safe(G, B)'
<1> DEFINE G == With(H, t, lg)
           B == Acks(G, A, t, n, Len(lg))
<1> USE DEF Safe
<1>1. RequestsTrue'
  BY ExtendsRequests DEF TypeInv
<1>2. Recorded(G)'
  BY WritesRecord DEF TypeInv, Extends
<1>3. TermsOrdered(G)'
  BY ExtendsTerms DEF TypeInv
<1>4. /\ Acknowledged(G, B)' /\ VotesBacked(G, B)' /\ LeadersBacked(G, B)'
      /\ ReportsTrue(G, B)'
  BY ExtendsAcked DEF TypeInv, ElectionInv
<1>5. Committed(G, B)'
  BY ExtendsCommitted
<1> HIDE DEF G, B
<1>6. Safe(G, B)'
  BY <1>2, <1>3, <1>4, <1>5
<1> QED
  BY <1>1, <1>6


\* become_leader is such a step, when those that voted for the new leader back its log.
LEMMA LeadExtends ==
  ASSUME TypeInv, ElectionInv', LeadersKnown, NEW H, NEW A, Safe(H, A), NEW n, NEW t,
         WinsTerm(n, t), UNCHANGED applied,
         \A v \in votes' : v \in votes \/ v = <<t, n, n>>,
         \A p \in Node : <<t, p, n>> \in votes' => Backed(H, A, p, t, log[n])
  PROVE  Extends(H, A, n, t, LogWithNoop(n, t))
<1> DEFINE lg == LogWithNoop(n, t)
           e == [term |-> t, cmd |-> NOOP]
<1>1. /\ Writes(H, n, t, lg)
      /\ \A x, p \in Node : role'[x] = "leader" =>
           \/ match_index'[x][p] = 0
           \/ x = n /\ p = n /\ match_index'[x][p] = Len(lg)
           \/ role[x] = "leader" /\ current_term'[x] = current_term[x]
              /\ match_index'[x][p] = match_index[x][p]
  BY LeadWrites DEF Safe
<1>2. NoLeader(t)
  BY NeverLed DEF NoLeader, TypeInv
<1>3. n \in Node /\ t \in Nat /\ log[n] \in Seq(Entry) /\ Len(log[n]) \in Nat
  BY DEF WinsTerm, TypeInv, TypeOK
<1>4. e \in Entry /\ e.term = t
  BY <1>3 DEF Entry
<1> HIDE DEF e
<1>5. \A i \in 1..Len(lg) : i > Len(log[n]) => lg[i].term = t
  <2> TAKE i \in 1..Len(lg)
  <2> HAVE i > Len(log[n])
  <2>1. CASE Len(log[n]) < RAFT_MAX_LOG
    <3>1. lg = Append(log[n], e)
      BY <2>1 DEF LogWithNoop, e
    <3>2. Len(lg) = Len(log[n]) + 1 /\ lg[Len(log[n]) + 1] = e
      BY <1>3, <1>4, <3>1, AppendProperties
    <3> HIDE DEF lg
    <3>3. i = Len(log[n]) + 1
      BY <1>3, <3>2
    <3> QED
      BY <1>4, <3>2, <3>3
  <2>2. CASE ~(Len(log[n]) < RAFT_MAX_LOG)
    <3>1. lg = log[n]
      BY <2>2 DEF LogWithNoop
    <3> HIDE DEF lg
    <3> QED
      BY <1>3, <3>1
  <2> QED
    BY <2>1, <2>2
<1>6. \A m \in msgs' : m \in msgs
        \/ \E p : \E next \in Nat \ {0} : m = AppendMsg(n, p, lg, t, next, commit_index[n])
  <2> DEFINE next == [p \in Node |-> Len(log[n]) + 1]
  <2>1. ASSUME NEW m \in FirstAppends(n, t)
        PROVE  \E p : \E k \in Nat \ {0} : m = AppendMsg(n, p, lg, t, k, commit_index[n])
    <3>1. PICK p \in Node : m = AppendMsg(n, p, lg, t, next[p], commit_index[n])
      BY DEF FirstAppends, AppendMsgs
    <3>2. next[p] = Len(log[n]) + 1 /\ Len(log[n]) + 1 \in Nat \ {0}
      BY <1>3
    <3> QED
      BY <3>1, <3>2
  <2> QED
    BY <2>1 DEF WinsTerm
<1> HIDE DEF lg
<1>7. PICK Q \in SUBSET Voters : IsQuorum(Q) /\ \A p \in Q : <<t, p, n>> \in votes'
  <2>1. <<t, n>> \in leaders'
    BY DEF WinsTerm, BecomeLeader
  <2>2. \A l \in leaders' : \E R \in SUBSET Voters :
          IsQuorum(R) /\ \A p \in R : <<l[1], p, l[2]>> \in votes'
    BY DEF ElectionInv, LeadersElected
  <2> QED
    BY <2>1, <2>2
<1>8. ASSUME NEW p \in Q
      PROVE  t <= current_term'[p] /\ Backed(H, A, p, t, log[n])
  <2>1. p \in Node /\ <<t, p, n>> \in votes'
    BY <1>7, NodeAssumption
  <2>2. VotesRemembered'
    BY DEF ElectionInv
  <2>3. t <= current_term'[p]
    BY <2>1, <2>2 DEF VotesRemembered
  <2> QED
    BY <2>1, <2>3
<1>9. \A p \in Node : InRealRound(p)' => p # n /\ InRealRound(p)
  <2>1. /\ role'[n] = "leader"
        /\ \A p \in Node \ {n} : role'[p] = role[p] /\ in_pre_vote'[p] = in_pre_vote[p]
    BY <1>3 DEF WinsTerm, BecomeLeader, TypeInv, TypeOK
  <2> QED
    BY <2>1 DEF InRealRound
<1>10. Extends(H, A, n, t, lg)
  BY <1>1, <1>2, <1>5, <1>6, <1>7, <1>8, <1>9 DEF Extends
<1> QED
  BY <1>10 DEF lg

\* raft_propose is such a step.
LEMMA ProposeExtends ==
  ASSUME TypeInv, ElectionInv, LeadersKnown, NEW H, NEW A, Safe(H, A), NEW n \in Node,
         NEW c \in Command, Propose(n, c)
  PROVE  Extends(H, A, n, current_term[n],
                 Append(log[n], [term |-> current_term[n], cmd |-> c]))
<1> DEFINE t == current_term[n]
           e == [term |-> t, cmd |-> c]
           lg == Append(log[n], e)
           G == With(H, t, lg)
           B == Acks(G, A, t, n, Len(lg))
           matches == [match_index[n] EXCEPT ![n] = Len(lg)]
           commit == AdvanceCommit(n, lg, matches)
<1>1. /\ t \in Nat /\ log[n] \in Seq(Entry) /\ Len(log[n]) \in Nat
      /\ H \in Records /\ role[n] = "leader" /\ H[t] = log[n]
      /\ applied[n] \in Seq(Entry) /\ commit_index[n] \in Nat
      /\ commit_index[n] <= Len(applied[n])
  BY DEF Propose, TypeInv, TypeOK, Safe, Recorded, CommitApplied
<1>2. /\ Writes(H, n, t, lg)
      /\ \A x, p \in Node : role'[x] = "leader" =>
           \/ match_index'[x][p] = 0
           \/ x = n /\ p = n /\ match_index'[x][p] = Len(lg)
           \/ role[x] = "leader" /\ current_term'[x] = current_term[x]
              /\ match_index'[x][p] = match_index[x][p]
  BY ProposeWrites DEF Safe
<1>3. e \in Entry /\ e.term = t
  BY <1>1 DEF Entry
<1>4. /\ UNCHANGED <<role, in_pre_vote, current_term, votes>>
      /\ applied' = [applied EXCEPT ![n] = Apply(@, lg, commit)]
  BY DEF Propose, termVars, roleVars, history
<1>5. \A m \in msgs' : m \in msgs
        \/ \E p : \E next \in Nat \ {0} : m = AppendMsg(n, p, lg, t, next, commit_index[n])
  <2>1. msgs' \subseteq msgs \cup AppendMsgs(n, lg, t, next_index[n])
    BY SentMsgs DEF Propose
  <2>2. ASSUME NEW m \in AppendMsgs(n, lg, t, next_index[n])
        PROVE  \E p : \E k \in Nat \ {0} : m = AppendMsg(n, p, lg, t, k, commit_index[n])
    <3> HIDE DEF lg, t
    <3>1. PICK p \in Node : m = AppendMsg(n, p, lg, t, next_index[n][p], commit_index[n])
      BY DEF AppendMsgs
    <3>2. next_index[n][p] \in Nat \ {0}
      BY DEF TypeInv, TypeOK
    <3> QED
      BY <3>1, <3>2
  <2> QED
    BY <2>1, <2>2
<1>6. t = current_term[n]
  OBVIOUS
<1> HIDE DEF t, e
<1>7. /\ lg \in Seq(Entry) /\ Len(lg) = Len(log[n]) + 1 /\ lg[Len(log[n]) + 1] = e
      /\ \A i \in 1..Len(log[n]) : lg[i] = log[n][i]
  BY <1>1, <1>3, AppendProperties
<1> HIDE DEF lg
<1>8. \A i \in 1..Len(lg) : i > Len(log[n]) => lg[i].term = t
  <2> TAKE i \in 1..Len(lg)
  <2> HAVE i > Len(log[n])
  <2>1. i = Len(log[n]) + 1
    BY <1>1, <1>7
  <2> QED
    BY <1>3, <1>7, <2>1
<1>9. PICK Q \in SUBSET Voters :
        IsQuorum(Q) /\ \A p \in Q : t <= current_term[p] /\ Backed(H, A, p, t, log[n])
  <2>1. <<t, n>> \in leaders
    BY <1>1, <1>6 DEF LeadersKnown
  <2>2. LeadersBacked(H, A)
    BY DEF Safe
  <2> QED
    BY <1>1, <2>1, <2>2 DEF LeadersBacked
<1>10. \A p \in Node \ {n} : applied'[p] = applied[p]
  BY <1>4 DEF TypeInv, TypeOK
<1>11. applied'[n] = Apply(applied[n], lg, commit)
  BY <1>4 DEF TypeInv, TypeOK
<1>12. commit = commit_index[n] \/ (commit \in 1..Len(lg) /\ Chosen(G, B, t, commit))
  <2>1. /\ G \in Records /\ G[t] = lg
        /\ \A u \in Nat : Begins(H[u], G[u])
    BY <1>1, <1>2, <1>7, RecordGrows DEF Writes
  <2>2. Len(lg) \in Nat /\ Len(lg) <= Len(G[t])
    BY <1>1, <1>7, <2>1
  <2>3. A \subseteq B /\ Reported(G, B, t, n, Len(lg))
    <3> HIDE DEF G
    <3> QED
      BY <1>1, <2>1, <2>2, AcksAre
  <2> HIDE DEF G, B
  <2>4. match_index[n] \in [Node -> Nat]
    BY DEF TypeInv, TypeOK
  <2>5. ASSUME NEW p \in Node
        PROVE  matches[p] \in Nat /\ Reported(G, B, t, p, matches[p])
    <3>1. CASE p = n
      BY <2>2, <2>3, <2>4, <3>1
    <3>2. CASE p # n
      <4>1. matches[p] = match_index[n][p] /\ match_index[n][p] \in Nat
        BY <2>4, <3>2
      <4>2. Reported(H, A, t, p, match_index[n][p])
        BY <1>1, <1>6 DEF Safe, ReportsTrue
      <4>3. Reported(G, B, t, p, match_index[n][p])
        BY <1>1, <2>1, <2>3, <4>1, <4>2, ReportedGrown
      <4> QED
        BY <4>1, <4>3
    <3> QED
      BY <3>1, <3>2
  <2> HIDE DEF matches
  <2>6. StaticMembers
    BY DEF ElectionInv
  <2> QED
    BY <1>6, <1>7, <2>1, <2>5, <2>6, AdvanceChosen
<1> HIDE DEF G, B, matches, commit
<1>13. \/ applied'[n] = applied[n]
       \/ \E k \in 1..Len(lg) : /\ k > Len(applied[n])
                                /\ applied'[n] = Apply(applied[n], lg, k)
                                /\ Chosen(G, B, t, k)
  <2>1. commit \in Nat
    BY <1>1, <1>7, <1>12
  <2>2. CASE commit <= Len(applied[n])
    <3>1. applied'[n] = applied[n]
      BY <1>1, <1>7, <1>11, <2>1, <2>2, ApplyLog
    <3> QED
      BY <3>1
  <2>3. CASE commit > Len(applied[n])
    <3>1. commit # commit_index[n]
      BY <1>1, <2>3
    <3> QED
      BY <1>11, <1>12, <2>3, <3>1
  <2>4. Len(applied[n]) \in Nat
    BY <1>1
  <2> QED
    BY <2>1, <2>2, <2>3, <2>4
<1>14. \A p \in Node : InRealRound(p)' => p # n /\ InRealRound(p)
  BY <1>1, <1>4 DEF InRealRound
<1>15. Extends(H, A, n, t, lg)
  BY <1>1, <1>2, <1>4, <1>5, <1>8, <1>9, <1>10, <1>13, <1>14 DEF Extends, G, B
<1> QED
  BY <1>15 DEF lg, e, t


-----------------------------------------------------------------------------
(* Every step. *)

\* The part of the invariant that is not in the earlier modules holds after the step.
StaysSafe == RequestsTrue' /\ \E G, B : Safe(G, B)'

\* Ticks.  A sole voter that makes itself leader backs its own log.
LEMMA TickSafe ==
  ASSUME TypeInv, TypeInv', ElectionInv, ElectionInv',
         LeadersKnown, RequestsTrue, NEW H, NEW A, Safe(H, A), NEW n \in Node, Tick(n)
  PROVE  StaysSafe
<1>1. CASE ~LeadAlone(n)
  BY <1>1, TickCalm, CalmSafe DEF StaysSafe
<1>2. CASE LeadAlone(n)
  <2> DEFINE t == current_term[n] + 1
  <2>1. t \in Nat /\ t > 0 /\ t > current_term[n] /\ current_term[n] \in Nat
    BY DEF TypeInv, TypeOK
  <2>2. /\ BecomeLeader(n, t) /\ current_term' = [current_term EXCEPT ![n] = t]
        /\ msgs' \subseteq msgs \cup FirstAppends(n, t)
        /\ votes' = votes \cup {<<t, n, n>>}
    BY <1>2, SentMsgs DEF LeadAlone
  <2>3. UNCHANGED applied
    <3>1. CASE LeaderTick(n)
      BY <3>1 DEF LeaderTick, logVars
    <3>2. CASE ElapseTick(n)
      <4>1. log[n] \in Seq(Entry)
        BY DEF TypeInv, TypeOK
      <4> QED
        BY <3>2, <4>1, NothingToApply DEF ElapseTick
    <3>3. CASE ElectionTick(n)
      <4>1. log'[n] \in Seq(Entry)
        BY DEF TypeInv, TypeOK
      <4> QED
        BY <3>3, <4>1, NothingToApply DEF ElectionTick
    <3> QED
      BY <3>1, <3>2, <3>3 DEF Tick
  <2>4. Backed(H, A, n, t, log[n])
    BY DEF Safe, Acknowledged
  <2> HIDE DEF t
  <2>5. WinsTerm(n, t)
    BY <2>1, <2>2 DEF WinsTerm
  <2>6. ASSUME NEW p \in Node, <<t, p, n>> \in votes'
        PROVE  Backed(H, A, p, t, log[n])
    <3>1. <<t, p, n>> \notin votes
      <4>1. \A v \in votes : v[1] <= current_term[v[3]]
        BY DEF RequestsTrue
      <4> QED
        BY <2>1, <4>1
    <3>2. p = n
      BY <2>2, <2>6, <3>1
    <3> QED
      BY <2>4, <3>2
  <2>7. Extends(H, A, n, t, LogWithNoop(n, t))
    BY <2>2, <2>3, <2>5, <2>6, LeadExtends
  <2> QED
    BY <2>7, ExtendsSafe DEF StaysSafe
<1> QED
  BY <1>1, <1>2

\* Receptions.  The votes of a candidate that wins back its log.
LEMMA RecvSafe ==
  ASSUME StaleReplies = {}, TypeInv, TypeInv', ElectionInv, ElectionInv',
         LeadersKnown, RequestsTrue, NEW H, NEW A, Safe(H, A),
         NEW m \in msgs, Recv(m), AcceptAppend(m) => InBatch(m)
  PROVE  StaysSafe
<1>1. CASE HandlePreVote(m) \/ HandleRequestVote(m) \/ (HandleVoteResp(m) /\ ~ElectionWon(m))
  BY <1>1, VoteCalm, CalmSafe DEF StaysSafe
<1>2. CASE HandleVoteResp(m) /\ ElectionWon(m)
  <2> DEFINE n == m.to
             t == current_term[n]
  <2>1. n \in Node /\ t \in Nat
    BY MessageKinds DEF TypeInv, TypeOK
  <2>2. /\ BecomeLeader(n, t) /\ UNCHANGED <<current_term, votes, applied>>
        /\ msgs' \subseteq msgs \cup FirstAppends(n, t)
        /\ InRealRound(n)
    BY <1>2, RepliedMsgs DEF HandleVoteResp, ElectionWon, CountsNow, InRealRound, termVars
  <2>3. current_term' = [current_term EXCEPT ![n] = t] /\ t > 0
    BY <2>1, <2>2 DEF TypeInv, TypeOK, LeadersKnown
  <2>4. t = current_term[n]
    OBVIOUS
  <2> HIDE DEF n, t
  <2>5. WinsTerm(n, t)
    BY <2>1, <2>2, <2>3, <2>4 DEF WinsTerm
  <2>6. NoLeader(t)
    BY <2>5, NeverLed DEF NoLeader, TypeInv
  <2>7. \A p \in Node : <<t, p, n>> \in votes' => Backed(H, A, p, t, log[n])
    BY <2>1, <2>2, <2>4, <2>6 DEF Safe, VotesBacked
  <2>8. Extends(H, A, n, t, LogWithNoop(n, t))
    BY <2>2, <2>5, <2>7, LeadExtends
  <2> QED
    BY <2>8, ExtendsSafe DEF StaysSafe
<1>3. CASE RejectAppend(m) \/ MismatchAppend(m) \/ HandleAppendResp(m)
  <2>1. Calm(H, A)
    BY <1>3, AppendCalm DEF Recv, ElectionInv
  <2> QED
    BY <2>1, CalmSafe DEF StaysSafe
<1>4. CASE AcceptAppend(m)
  BY <1>4, AcceptSafe DEF StaysSafe
<1> QED
  BY <1>1, <1>2, <1>3, <1>4 DEF Recv

\* Every AppendEntries that is accepted commits within its batch.
CommitsInBatch == \A m \in msgs : AcceptAppend(m) => InBatch(m)

\* The invariant is inductive where this is so.
LEMMA NextSafe ==
  ASSUME StaleReplies = {}
  PROVE  SafeInv /\ [GateNext]_vars /\ [CommitsInBatch]_vars => SafeInv'
<1> SUFFICES ASSUME SafeInv, [GateNext]_vars, [CommitsInBatch]_vars
             PROVE  SafeInv'
  OBVIOUS
<1>1. TypeInv' /\ ElectionInv'
  BY NextType, NextElection DEF SafeInv
<1>2. PICK H, A : Safe(H, A)
  BY DEF SafeInv
<1>3. LeadersKnown'
  <2>1. Recorded(H)
    BY <1>2 DEF Safe
  <2>2. Continues(H)
    BY <1>1, <2>1, NextContinues DEF SafeInv
  <2> QED
    BY <2>2 DEF Continues
<1>4. ASSUME NEW n \in Node, Tick(n)
      PROVE  StaysSafe
  BY <1>1, <1>2, <1>4, TickSafe DEF SafeInv
<1>5. ASSUME NEW n \in Node, NEW c \in Command, Propose(n, c)
      PROVE  StaysSafe
  <2> DEFINE lg == Append(log[n], [term |-> current_term[n], cmd |-> c])
  <2>1. Extends(H, A, n, current_term[n], lg)
    BY <1>2, <1>5, ProposeExtends DEF SafeInv
  <2> HIDE DEF lg
  <2> QED
    BY <1>1, <1>2, <2>1, ExtendsSafe DEF SafeInv, StaysSafe
<1>6. ASSUME NEW m \in msgs, Recv(m), CommitsInBatch
      PROVE  StaysSafe
  <2>1. AcceptAppend(m) => InBatch(m)
    BY <1>6 DEF CommitsInBatch
  <2> QED
    BY <1>1, <1>2, <1>6, <2>1, RecvSafe DEF SafeInv
<1>7. ASSUME UNCHANGED <<leaders, role, in_pre_vote, current_term, log, match_index, votes,
                         applied>>,
             msgs' \subseteq msgs
      PROVE  StaysSafe
  <2>1. Quiet(H)
    BY <1>7, SameQuiet DEF Quiet, SafeInv, TypeInv
  <2>2. Calm(H, A)
    BY <1>7, <2>1 DEF Calm
  <2> QED
    BY <1>1, <1>2, <2>2, CalmSafe DEF SafeInv, StaysSafe
<1>8. ASSUME NEW m \in msgs, Lose(m)
      PROVE  StaysSafe
  <2>1. UNCHANGED <<leaders, role, in_pre_vote, current_term, log, match_index, votes, applied>>
    BY <1>8 DEF Lose, termVars, roleVars, peerVars, history, logVars
  <2>2. msgs' \subseteq msgs
    BY <1>8 DEF Lose
  <2> QED
    BY <1>7, <2>1, <2>2
<1>9. ASSUME UNCHANGED vars \/ \E n \in Node, e \in BOOLEAN : SetEligible(n, e)
      PROVE  StaysSafe
  <2>1. UNCHANGED <<leaders, role, in_pre_vote, current_term, log, match_index, votes,
                    applied, msgs>>
    BY <1>9 DEF SetEligible, vars, termVars, roleVars, peerVars, history, logVars
  <2> QED
    BY <1>7, <2>1
<1>10. StaysSafe
  <2>1. CASE UNCHANGED vars
    BY <1>9, <2>1
  <2>2. CASE GateNext /\ CommitsInBatch
    BY <1>4, <1>5, <1>6, <1>8, <1>9, <2>2 DEF GateNext, Next
  <2> QED
    BY <2>1, <2>2
<1> QED
  BY <1>1, <1>3, <1>10 DEF SafeInv, StaysSafe

\* At the start nothing is acknowledged.
LEMMA InitSafe == Init => SafeInv
<1> SUFFICES ASSUME Init PROVE SafeInv
  OBVIOUS
<1>1. TypeInv /\ ElectionInv
  BY InitType, InitElection
<1>2. LeadersKnown /\ \E H : Recorded(H) /\ Matched(H)
  BY InitRecorded
<1>3. PICK H : Recorded(H)
  BY <1>2
<1>4. /\ msgs = {} /\ votes = {} /\ leaders = {}
      /\ \A n \in Node : /\ log[n] = <<>> /\ applied[n] = <<>> /\ role[n] = "follower"
  BY DEF Init
<1>5. Len(<<>>) = 0
  OBVIOUS
<1>6. RequestsTrue
  BY <1>4 DEF RequestsTrue
<1>7. \A t \in Nat : H[t] = <<>>
  BY <1>3, <1>4 DEF Recorded
<1>8. TermsOrdered(H)
  BY <1>4, <1>5, <1>7 DEF TermsOrdered
<1>9. Acknowledged(H, {}) /\ VotesBacked(H, {}) /\ LeadersBacked(H, {}) /\ ReportsTrue(H, {})
  BY <1>4 DEF Acknowledged, VotesBacked, LeadersBacked, ReportsTrue, Backed
<1>10. Committed(H, {})
  BY <1>4, <1>5 DEF Committed, Begins, Settled
<1>11. Safe(H, {})
  BY <1>3, <1>8, <1>9, <1>10 DEF Safe
<1> QED
  BY <1>1, <1>2, <1>6, <1>11 DEF SafeInv


-----------------------------------------------------------------------------
(* The theorems. *)

\* The two ways to say that a sequence continues another.
LEMMA BeginsPrefix ==
  ASSUME NEW s \in Seq(Entry), NEW g \in Seq(Entry), Begins(s, g)
  PROVE  IsPrefixOf(s, g)
<1> DEFINE k == Len(s)
           b == SubSeq(g, 1, k)
<1>1. k \in Nat /\ Len(g) \in Nat /\ k <= Len(g) /\ \A i \in 1..k : s[i] = g[i]
  BY DEF Begins
<1>2. \A i \in 1..k : g[i] \in Entry
  BY <1>1
<1>3. b \in Seq(Entry) /\ Len(b) = k /\ \A i \in 1..k : b[i] = g[i]
  <2> HIDE DEF k
  <2> QED
    BY <1>1, <1>2, SubSeqProperties
<1> HIDE DEF b
<1>4. s = b
  BY <1>1, <1>3, SeqEqual
<1> QED
  BY <1>1, <1>4 DEF IsPrefixOf, b

\* What a node has applied, in the log that the invariant compares it with.
LEMMA AppliedAt ==
  ASSUME TypeInv, NEW H, NEW A, Committed(H, A), NEW n \in Node
  PROVE  /\ applied[n] \in Seq(Entry) /\ log[n] \in Seq(Entry)
         /\ Len(applied[n]) \in Nat /\ Len(log[n]) \in Nat /\ current_term[n] \in Nat
         /\ Begins(applied[n], log[n])
         /\ Settled(H, A, current_term[n], log[n], Len(applied[n]))
<1>1. applied[n] \in Seq(Entry) /\ log[n] \in Seq(Entry) /\ current_term[n] \in Nat
  BY DEF TypeInv, TypeOK
<1>2. Len(applied[n]) \in Nat /\ Len(log[n]) \in Nat
  BY <1>1
<1> QED
  BY <1>1, <1>2 DEF Committed

\* A sequence that begins a log has what the log has.
LEMMA BeginsHolds ==
  ASSUME NEW s, NEW g, NEW h, Len(s) \in Nat, Len(g) \in Nat, Begins(s, g),
         Holds(g, h, Len(s))
  PROVE  Holds(s, h, Len(s)) /\ Begins(s, h)
BY DEF Begins, Holds

\* A term has a leader if anything was chosen in it.
LEMMA ChosenLed ==
  ASSUME NEW H, Recorded(H), NEW A, NEW t, NEW k, Chosen(H, A, t, k)
  PROVE  \E l \in leaders : l[1] = t
<1> SUFFICES ASSUME \A l \in leaders : l[1] # t PROVE FALSE
  OBVIOUS
<1>1. t \in Nat /\ k \in 1..Len(H[t])
  BY DEF Chosen, Own
<1>2. H[t] = <<>>
  BY <1>1 DEF Recorded
<1>3. Len(H[t]) = 0
  BY <1>2
<1> QED
  BY <1>1, <1>3

\* Two settled logs are in one record.
LEMMA SettledAgree ==
  ASSUME TypeOK, NEW H, Recorded(H), NEW A, LeadersBacked(H, A),
         NEW u, NEW v, NEW s, NEW g, Len(s) \in Nat, Len(g) \in Nat,
         NEW k \in Nat, NEW j \in Nat, Settled(H, A, u, s, k), Settled(H, A, v, g, j)
  PROVE  \E t \in Nat : Holds(s, H[t], k) /\ Holds(g, H[t], j)
<1> USE RecordAt
<1>1. H \in Records
  BY DEF Recorded
<1>2. \A t \in Nat : Len(H[t]) \in Nat
  BY <1>1
<1>3. ASSUME NEW x, NEW h, Len(x) \in Nat, Len(h) \in Nat
      PROVE  Holds(x, h, 0)
  BY <1>3 DEF Holds
<1>4. ASSUME NEW x \in Nat, NEW y \in Nat, x <= y, NEW c, NEW d, NEW q, NEW r,
             NEW a \in Nat, NEW b \in Nat,
             Chosen(H, A, x, c), a <= c, Holds(q, H[x], a), Len(q) \in Nat,
             Chosen(H, A, y, d), Holds(r, H[y], b)
      PROVE  Holds(q, H[y], a) /\ Holds(r, H[y], b)
  <2>1. CASE x = y
    BY <1>4, <2>1
  <2>2. CASE x < y
    <3>1. PICK l \in leaders : l[1] = y
      BY <1>4, ChosenLed
    <3>2. Holds(H[y], H[x], c) /\ c \in Nat
      BY <1>4, <2>2, <3>1, LeaderHolds DEF Chosen
    <3>3. Holds(H[y], H[x], a)
      BY <1>2, <1>4, <3>2, HoldsLess
    <3> QED
      BY <1>4, <3>3, HoldsBoth
  <2> QED
    BY <1>4, <2>1, <2>2
<1>5. CASE k = 0 /\ j = 0
  <2>1. 0 \in Nat
    OBVIOUS
  <2> QED
    BY <1>2, <1>3, <1>5, <2>1
<1>6. CASE k # 0 /\ j = 0
  <2>1. PICK t \in Nat : Holds(s, H[t], k)
    BY <1>6 DEF Settled
  <2> QED
    BY <1>2, <1>3, <1>6, <2>1
<1>7. CASE k = 0 /\ j # 0
  <2>1. PICK t \in Nat : Holds(g, H[t], j)
    BY <1>7 DEF Settled
  <2> QED
    BY <1>2, <1>3, <1>7, <2>1
<1>8. CASE k # 0 /\ j # 0
  <2>1. PICK x \in Nat, c \in Nat : Chosen(H, A, x, c) /\ k <= c /\ Holds(s, H[x], k)
    BY <1>8 DEF Settled
  <2>2. PICK y \in Nat, d \in Nat : Chosen(H, A, y, d) /\ j <= d /\ Holds(g, H[y], j)
    BY <1>8 DEF Settled
  <2>3. CASE x <= y
    BY <1>4, <2>1, <2>2, <2>3
  <2>4. CASE y <= x
    BY <1>4, <2>1, <2>2, <2>4
  <2> QED
    BY <2>3, <2>4
<1> QED
  BY <1>5, <1>6, <1>7, <1>8

\* Any two nodes have applied the same, as far as both have come.
LEMMA SafeAgree ==
  ASSUME SafeInv, NEW n \in Node, NEW p \in Node, Len(applied[n]) <= Len(applied[p])
  PROVE  Begins(applied[n], applied[p])
<1> DEFINE s == applied[n]
           g == applied[p]
<1>1. PICK H, A : Safe(H, A)
  BY DEF SafeInv
<1>2. TypeInv /\ TypeOK /\ Recorded(H) /\ LeadersBacked(H, A) /\ Committed(H, A)
  BY <1>1 DEF SafeInv, Safe, TypeInv
<1>3. /\ Len(s) \in Nat /\ Len(log[n]) \in Nat /\ Begins(s, log[n])
      /\ Settled(H, A, current_term[n], log[n], Len(s))
  BY <1>2, AppliedAt
<1>4. /\ Len(g) \in Nat /\ Len(log[p]) \in Nat /\ Begins(g, log[p])
      /\ Settled(H, A, current_term[p], log[p], Len(g))
  BY <1>2, AppliedAt
<1> HIDE DEF s, g
<1>5. PICK t \in Nat : Holds(log[n], H[t], Len(s)) /\ Holds(log[p], H[t], Len(g))
  BY <1>2, <1>3, <1>4, SettledAgree
<1>6. Holds(s, H[t], Len(s)) /\ Holds(g, H[t], Len(g))
  BY <1>3, <1>4, <1>5, BeginsHolds
<1>7. Len(s) <= Len(g)
  BY DEF s, g
<1>8. \A i \in 1..Len(s) : i \in 1..Len(g)
  BY <1>3, <1>4, <1>7
<1>9. Begins(s, g)
  BY <1>6, <1>7, <1>8 DEF Begins, Holds
<1> QED
  BY <1>9 DEF s, g

\* handle_append never truncates an entry its node has applied, however many leaders
\* follow each other and whatever they overwrite, in every behaviour in which handle_append's
\* commit rule stays within the batch it has just merged.  The rule as such does not
\* (norn_raft.c:366).
THEOREM AppliedStays ==
  ASSUME StaleReplies = {}
  PROVE  GateSpec /\ [][CommitsInBatch]_vars => []AppliedNotTruncated
<1>1. SafeInv => AppliedNotTruncated
  <2> SUFFICES ASSUME SafeInv, NEW n \in Node PROVE IsPrefixOf(applied[n], log[n])
    BY DEF AppliedNotTruncated
  <2>1. PICK H, A : Safe(H, A)
    BY DEF SafeInv
  <2>2. applied[n] \in Seq(Entry) /\ log[n] \in Seq(Entry) /\ Begins(applied[n], log[n])
    BY <2>1, AppliedAt DEF SafeInv, Safe
  <2> QED
    BY <2>2, BeginsPrefix
<1> QED
  BY <1>1, InitSafe, NextSafe, PTL DEF GateSpec

\* The leader of the newest term has every entry that any node has applied: the votes that
\* log_ok lets it have include one of a node that acknowledged the entry.
THEOREM LeaderHasAll ==
  ASSUME StaleReplies = {}
  PROVE  GateSpec /\ [][CommitsInBatch]_vars => []LeaderCompleteness
<1>1. SafeInv => LeaderCompleteness
  <2> SUFFICES ASSUME SafeInv, NEW n \in Node, role[n] = "leader", NEW p \in Node,
                      current_term[p] <= current_term[n]
               PROVE  IsPrefixOf(applied[p], log[n])
    BY DEF LeaderCompleteness
  <2>1. PICK H, A : Safe(H, A)
    BY DEF SafeInv
  <2>2. TypeInv /\ TypeOK /\ Recorded(H) /\ LeadersBacked(H, A) /\ Committed(H, A)
    BY <2>1 DEF SafeInv, Safe, TypeInv
  <2> DEFINE w == current_term[n]
             s == applied[p]
  <2>3. /\ s \in Seq(Entry) /\ Len(s) \in Nat /\ Len(log[p]) \in Nat
        /\ current_term[p] \in Nat /\ Begins(s, log[p])
        /\ Settled(H, A, current_term[p], log[p], Len(s))
    BY <2>2, AppliedAt
  <2>4. H \in Records /\ H[w] = log[n] /\ <<w, n>> \in leaders /\ log[n] \in Seq(Entry)
    BY <2>2 DEF Recorded, SafeInv, LeadersKnown, TypeOK
  <2>5. current_term[p] <= w
    OBVIOUS
  <2> HIDE DEF w, s
  <2>6. Holds(log[p], H[w], Len(s))
    BY <2>2, <2>3, <2>4, <2>5, SettledHeld
  <2>7. Begins(s, log[n])
    BY <2>3, <2>4, <2>6, BeginsHolds
  <2> QED
    BY <2>3, <2>4, <2>7, BeginsPrefix DEF s
<1> QED
  BY <1>1, InitSafe, NextSafe, PTL DEF GateSpec

\* All nodes apply the same entries in the same order, as far as they have come
\* (apply_committed), as long as handle_append commits within its batches.
THEOREM ReplicasAgree ==
  ASSUME StaleReplies = {}
  PROVE  GateSpec /\ [][CommitsInBatch]_vars => []StateMachineSafety
<1>1. SafeInv => StateMachineSafety
  <2> SUFFICES ASSUME SafeInv, NEW n \in Node, NEW p \in Node
               PROVE  IsPrefixOf(applied[n], applied[p]) \/ IsPrefixOf(applied[p], applied[n])
    BY DEF StateMachineSafety
  <2>1. applied[n] \in Seq(Entry) /\ applied[p] \in Seq(Entry)
    BY DEF SafeInv, TypeInv, TypeOK
  <2>2. Len(applied[n]) <= Len(applied[p]) \/ Len(applied[p]) <= Len(applied[n])
    BY <2>1
  <2>3. Begins(applied[n], applied[p]) \/ Begins(applied[p], applied[n])
    BY <2>2, SafeAgree
  <2> QED
    BY <2>1, <2>3, BeginsPrefix
<1> QED
  BY <1>1, InitSafe, NextSafe, PTL DEF GateSpec


\* No leader sends to a member that lacks more than a batch of what the leader has
\* committed.
NoneFarBehind == \A m \in msgs : m.type = "Append" => Near(m)

\* Where no member is more than a batch behind what is committed, whatever the lengths of
\* the logs, handle_append's commit rule does stay within the batch, and all nodes apply
\* the same entries in the same order.
THEOREM NearMembersAgree ==
  ASSUME StaleReplies = {}
  PROVE  GateSpec /\ []NoneFarBehind => [][CommitsInBatch]_vars /\ []StateMachineSafety
<1>1. SafeInv /\ NoneFarBehind => CommitsInBatch
  <2> SUFFICES ASSUME SafeInv, NoneFarBehind, NEW m \in msgs, AcceptAppend(m)
               PROVE  InBatch(m)
    BY DEF CommitsInBatch
  <2>1. PICK H, A : Safe(H, A)
    BY DEF SafeInv
  <2>2. Near(m)
    BY DEF NoneFarBehind, AcceptAppend
  <2> QED
    BY <2>1, <2>2, BatchCovers DEF SafeInv
<1>2. SafeInv /\ NoneFarBehind /\ [GateNext]_vars => SafeInv'
  BY <1>1, NextSafe
<1>3. GateSpec /\ []NoneFarBehind => [][CommitsInBatch]_vars
  BY <1>1, <1>2, InitSafe, PTL DEF GateSpec
<1> QED
  BY <1>3, ReplicasAgree, PTL

-----------------------------------------------------------------------------
(* The replicated log. *)

\* Node n applies more, or nothing changes; no other node applies anything.
Delivers(n) ==
  applied' = [applied EXCEPT ![n] = applied'[n]] /\ Begins(applied[n], applied'[n])

\* apply_committed only adds.
LEMMA ApplyDelivers ==
  ASSUME TypeInv, NEW n \in Node, NEW lg \in Seq(Entry), NEW c \in Nat,
         c <= Len(lg) \/ c <= Len(applied[n]),
         applied' = [applied EXCEPT ![n] = Apply(@, lg, c)]
  PROVE  Delivers(n)
<1> DEFINE done == applied[n]
           part == SubSeq(lg, Len(done) + 1, c)
           new == Apply(done, lg, c)
<1>1. done \in Seq(Entry) /\ Len(done) \in Nat /\ applied' = [applied EXCEPT ![n] = new]
  BY DEF TypeInv, TypeOK
<1>2. applied'[n] = new
  BY <1>1 DEF TypeInv, TypeOK
<1>3. part \in Seq(Entry)
  <2>1. CASE c <= Len(lg)
    <3>1. Len(done) + 1 \in Nat \ {0}
      BY <1>1
    <3> HIDE DEF done
    <3> QED
      BY <2>1, <3>1, SliceType
  <2>2. CASE c <= Len(done)
    <3>1. Len(done) + 1 > c /\ Len(done) + 1 \in Nat
      BY <1>1, <2>2
    <3>2. part = <<>>
      <4> HIDE DEF done
      <4> QED
        BY <3>1, SubSeqProperties
    <3> QED
      BY <3>2
  <2> QED
    BY <2>1, <2>2
<1>4. new = done \o part
  BY DEF Apply
<1> HIDE DEF part, new
<1>5. /\ Len(new) = Len(done) + Len(part)
      /\ \A i \in 1..Len(new) :
           new[i] = IF i <= Len(done) THEN done[i] ELSE part[i - Len(done)]
  <2> HIDE DEF done
  <2> QED
    BY <1>1, <1>3, <1>4, ConcatProperties
<1>6. Len(part) \in Nat
  BY <1>3
<1> HIDE DEF done
<1>7. Begins(done, new)
  <2>1. Len(done) <= Len(new)
    BY <1>1, <1>5, <1>6
  <2>2. \A i \in 1..Len(done) : i \in 1..Len(new) /\ i <= Len(done)
    BY <1>1, <1>5, <1>6
  <2> QED
    BY <1>5, <2>1, <2>2 DEF Begins
<1> QED
  BY <1>1, <1>2, <1>7 DEF Delivers, done

\* A step that applies nothing.
LEMMA NothingDelivered ==
  ASSUME TypeInv, NEW n \in Node, UNCHANGED applied
  PROVE  Delivers(n)
<1>1. applied \in [Node -> Seq(Entry)]
  BY DEF TypeInv, TypeOK
<1>2. Len(applied[n]) \in Nat
  BY <1>1
<1> QED
  BY <1>1, <1>2 DEF Delivers, Begins

\* Every step is of this kind.
LEMMA NextDelivers ==
  ASSUME Node # {}, TypeInv, TypeInv', [GateNext]_vars
  PROVE  \E n \in Node : Delivers(n)
<1>1. ASSUME UNCHANGED applied PROVE \E n \in Node : Delivers(n)
  BY <1>1, NothingDelivered
<1>2. ASSUME NEW n \in Node
      PROVE  /\ log[n] \in Seq(Entry) /\ log'[n] \in Seq(Entry)
             /\ commit_index[n] \in Nat /\ commit_index'[n] \in Nat
             /\ commit_index[n] <= Len(applied[n])
  BY DEF TypeInv, TypeOK, CommitApplied
<1>3. ASSUME NEW n \in Node, Tick(n)
      PROVE  \E p \in Node : Delivers(p)
  <2>1. CASE LeaderTick(n)
    BY <1>1, <2>1 DEF LeaderTick, logVars
  <2>2. CASE ElapseTick(n)
    BY <1>1, <1>2, <2>2, NothingToApply DEF ElapseTick
  <2>3. CASE ElectionTick(n)
    BY <1>1, <1>2, <2>3, NothingToApply DEF ElectionTick
  <2> QED
    BY <1>3, <2>1, <2>2, <2>3 DEF Tick
<1>4. ASSUME NEW n \in Node, NEW c \in Command, Propose(n, c)
      PROVE  Delivers(n)
  <2> DEFINE lg == Append(log[n], [term |-> current_term[n], cmd |-> c])
             matches == [match_index[n] EXCEPT ![n] = Len(lg)]
             commit == AdvanceCommit(n, lg, matches)
  <2>1. /\ log' = [log EXCEPT ![n] = lg]
        /\ applied' = [applied EXCEPT ![n] = Apply(@, lg, commit)]
    BY <1>4 DEF Propose
  <2> HIDE DEF lg, matches
  <2>2. lg \in Seq(Entry)
    <3>1. log'[n] = lg
      BY <2>1 DEF TypeInv, TypeOK
    <3> QED
      BY <1>2, <3>1
  <2>3. commit \in Nat /\ (commit <= Len(lg) \/ commit = commit_index[n])
    BY <2>2, AdvanceCommitType DEF TypeInv
  <2> HIDE DEF commit
  <2>4. commit <= Len(lg) \/ commit <= Len(applied[n])
    BY <1>2, <2>3
  <2> QED
    BY <2>1, <2>2, <2>3, <2>4, ApplyDelivers
<1>5. ASSUME NEW m \in msgs, AcceptAppend(m)
      PROVE  Delivers(m.to) /\ m.to \in Node
  <2> DEFINE n == m.to
             lg == Merged(log[n], m.prev_log_index, m.entries)
             commit == CommitAfter(n, lg, m)
  <2>1. /\ log' = [log EXCEPT ![n] = lg]
        /\ commit_index' = [commit_index EXCEPT ![n] = commit]
        /\ applied' = [applied EXCEPT ![n] = Apply(@, lg, commit)]
    BY <1>5 DEF AcceptAppend
  <2>2. n \in Node /\ m.leader_commit \in Nat
    BY <1>5, MessageKinds DEF TypeInv, TypeOK, AppendMessage, AcceptAppend
  <2> HIDE DEF n, lg
  <2>3. log'[n] = lg /\ commit_index'[n] = commit
    BY <2>1, <2>2 DEF TypeInv, TypeOK
  <2>4. lg \in Seq(Entry) /\ commit \in Nat /\ Len(lg) \in Nat
    BY <1>2, <2>2, <2>3
  <2>5. commit <= Len(lg) \/ commit = commit_index[n]
    BY <2>2, <2>4 DEF CommitAfter, Smaller
  <2> HIDE DEF commit
  <2>6. commit <= Len(lg) \/ commit <= Len(applied[n])
    BY <1>2, <2>2, <2>5
  <2>7. Delivers(n)
    BY <2>1, <2>2, <2>4, <2>6, ApplyDelivers
  <2> QED
    BY <2>2, <2>7 DEF n
<1>6. ASSUME NEW m \in msgs, HandleAppendResp(m), AppendRespSuccess(m)
      PROVE  Delivers(m.to) /\ m.to \in Node
  <2> DEFINE n == m.to
  <2>1. n \in Node
    BY MessageKinds DEF TypeInv, TypeOK
  <2>2. PICK matches : applied' = [applied EXCEPT ![n] =
                                     Apply(@, log[n], AdvanceCommit(n, log[n], matches))]
    BY <1>6 DEF AppendRespSuccess
  <2> DEFINE commit == AdvanceCommit(n, log[n], matches)
  <2> HIDE DEF n
  <2>3. commit \in Nat /\ (commit <= Len(log[n]) \/ commit = commit_index[n])
    BY <1>2, <2>1, AdvanceCommitType DEF TypeInv
  <2>4. applied' = [applied EXCEPT ![n] = Apply(@, log[n], commit)]
    BY <2>2
  <2> HIDE DEF commit
  <2>5. commit <= Len(log[n]) \/ commit <= Len(applied[n])
    BY <1>2, <2>1, <2>3
  <2>6. Delivers(n)
    BY <1>2, <2>1, <2>3, <2>4, <2>5, ApplyDelivers
  <2> QED
    BY <2>1, <2>6 DEF n
<1>7. ASSUME NEW m \in msgs, Recv(m)
      PROVE  \E n \in Node : Delivers(n)
  <2>1. CASE \/ HandlePreVote(m) \/ HandleRequestVote(m) \/ HandleVoteResp(m)
             \/ RejectAppend(m) \/ MismatchAppend(m)
    BY <1>1, <2>1 DEF HandlePreVote, HandleRequestVote, HandleVoteResp, RejectAppend,
                      MismatchAppend, logVars
  <2>2. CASE HandleAppendResp(m) /\ ~AppendRespSuccess(m)
    BY <1>1, <2>2 DEF HandleAppendResp, AppendRespStepDown, AppendRespBackOff, logVars
  <2>3. CASE AcceptAppend(m)
    BY <1>5, <2>3
  <2>4. CASE HandleAppendResp(m) /\ AppendRespSuccess(m)
    BY <1>6, <2>4
  <2> QED
    BY <1>7, <2>1, <2>2, <2>3, <2>4 DEF Recv
<1>8. CASE \/ UNCHANGED vars
           \/ \E n \in Node, e \in BOOLEAN : SetEligible(n, e)
           \/ \E m \in msgs : Lose(m)
  BY <1>1, <1>8 DEF SetEligible, Lose, vars, logVars
<1> QED
  BY <1>3, <1>4, <1>7, <1>8 DEF GateNext, Next

\* Some node has applied the most.
LEMMA FurthestIs ==
  ASSUME Node # {}, SafeInv
  PROVE  Furthest \in Node /\ \A p \in Node : Len(applied[p]) <= Len(applied[Furthest])
<1>1. ASSUME NEW p \in Node
      PROVE  Len(applied[p]) \in Nat /\ RAFT_MAX_LOG - Len(applied[p]) \in Nat
  <2>1. PICK H, A : Safe(H, A)
    BY DEF SafeInv
  <2>2. Len(applied[p]) \in Nat /\ Len(log[p]) \in Nat /\ Begins(applied[p], log[p])
    BY <2>1, AppliedAt DEF SafeInv, Safe
  <2>3. Len(log[p]) <= RAFT_MAX_LOG
    BY <2>1 DEF Safe, Recorded
  <2> QED
    BY <2>2, <2>3, BoundAssumption DEF Begins
<1> DEFINE S == {RAFT_MAX_LOG - Len(applied[p]) : p \in Node}
<1>2. S \in SUBSET Nat /\ S # {}
  BY <1>1
<1>3. PICK i \in S : \A j \in S : i <= j
  BY <1>2, LeastNumber
<1>4. PICK n \in Node : i = RAFT_MAX_LOG - Len(applied[n])
  BY <1>3
<1>5. ASSUME NEW p \in Node PROVE Len(applied[p]) <= Len(applied[n])
  <2>1. RAFT_MAX_LOG - Len(applied[n]) <= RAFT_MAX_LOG - Len(applied[p])
    BY <1>3, <1>4
  <2> QED
    BY <1>1, <2>1, BoundAssumption
<1> QED
  BY <1>5 DEF Furthest


\* What the invariant says of the nodes together: one has applied the most, and all others
\* the beginning of that.
LEMMA OneLog ==
  Node # {} /\ SafeInv =>
    /\ applied \in [Node -> Seq(Entry)]
    /\ Furthest \in Node
    /\ \A p \in Node : Begins(applied[p], applied[Furthest])
<1> SUFFICES ASSUME Node # {}, SafeInv
             PROVE  /\ applied \in [Node -> Seq(Entry)]
                    /\ Furthest \in Node
                    /\ \A p \in Node : Begins(applied[p], applied[Furthest])
  OBVIOUS
<1>1. Furthest \in Node /\ \A p \in Node : Len(applied[p]) <= Len(applied[Furthest])
  BY FurthestIs
<1>2. applied \in [Node -> Seq(Entry)]
  BY DEF SafeInv, TypeInv, TypeOK
<1> QED
  BY <1>1, <1>2, SafeAgree

\* A step of the consensus core is a step of the replicated log.
LEMMA LogStep ==
  ASSUME Node # {}, SafeInv, SafeInv', NEW n \in Node, Delivers(n)
  PROVE  Log!Deliver(n)
<1> DEFINE f == Furthest
           g == Furthest'
           now == applied'[n]
           old == applied[f]
           new == applied'[g]
<1>1. /\ applied \in [Node -> Seq(Entry)]
      /\ f \in Node /\ \A p \in Node : Begins(applied[p], old)
  BY OneLog
<1>2. /\ applied' \in [Node -> Seq(Entry)]
      /\ g \in Node /\ \A p \in Node : Begins(applied'[p], new)
  <2>1. (Node # {} /\ SafeInv =>
           /\ applied \in [Node -> Seq(Entry)]
           /\ Furthest \in Node
           /\ \A p \in Node : Begins(applied[p], applied[Furthest]))'
    BY OneLog, PTL
  <2> QED
    BY <2>1
<1>3. applied' = [applied EXCEPT ![n] = now] /\ Begins(applied[n], now)
  BY DEF Delivers
<1>4. new = (applied[Furthest])'
  OBVIOUS
<1> HIDE DEF f, g, now, old, new
<1>5. /\ now \in Seq(Entry) /\ old \in Seq(Entry) /\ new \in Seq(Entry)
      /\ applied[n] \in Seq(Entry)
      /\ Len(now) \in Nat /\ Len(old) \in Nat /\ Len(new) \in Nat
  <2>1. now \in Seq(Entry) /\ old \in Seq(Entry) /\ new \in Seq(Entry) /\ applied[n] \in Seq(Entry)
    BY <1>1, <1>2 DEF now, old, new
  <2> QED
    BY <2>1
<1>6. Begins(now, new)
  BY <1>2 DEF now
<1>7. applied'[f] = IF f = n THEN now ELSE old
  BY <1>1, <1>3 DEF old
<1>8. Begins(old, applied'[f])
  <2>1. CASE f = n
    BY <1>3, <1>7, <2>1 DEF old
  <2>2. CASE f # n
    BY <1>5, <1>7, <2>2 DEF Begins
  <2> QED
    BY <2>1, <2>2
<1>9. Begins(old, new)
  <2>1. Begins(applied'[f], new) /\ applied'[f] \in Seq(Entry)
    BY <1>1, <1>2
  <2> DEFINE mid == applied'[f]
  <2> HIDE DEF mid
  <2>2. Begins(old, mid) /\ Begins(mid, new) /\ Len(mid) \in Nat
    BY <1>8, <2>1 DEF mid
  <2> QED
    BY <1>5, <2>2 DEF Begins
<1>10. Len(new) = IF Len(now) > Len(old) THEN Len(now) ELSE Len(old)
  <2>1. Len(now) <= Len(new) /\ Len(old) <= Len(new)
    BY <1>6, <1>9 DEF Begins
  <2>2. Len(new) = Len(now) \/ Len(new) <= Len(old)
    <3>1. CASE g = n
      BY <3>1 DEF new, now
    <3>2. CASE g # n
      <4>1. new = applied[g]
        BY <1>2, <1>3, <3>2 DEF new
      <4>2. Begins(new, old)
        BY <1>1, <1>2, <4>1
      <4> QED
        BY <4>2 DEF Begins
    <3> QED
      BY <3>1, <3>2
  <2> QED
    BY <1>5, <2>1, <2>2
<1>11. IsPrefixOf(applied[n], now) /\ IsPrefixOf(now, new) /\ IsPrefixOf(old, new)
  BY <1>3, <1>5, <1>6, <1>9, BeginsPrefix
<1>12. /\ Len(applied[n]) <= Len(now) /\ SubSeq(now, 1, Len(applied[n])) = applied[n]
       /\ Len(now) <= Len(new) /\ SubSeq(new, 1, Len(now)) = now
       /\ Len(old) <= Len(new) /\ SubSeq(new, 1, Len(old)) = old
  BY <1>11 DEF IsPrefixOf
<1> QED
  BY <1>3, <1>4, <1>10, <1>12 DEF Log!Deliver, Log!IsExtension, now, old, f

\* The calls of io.apply on all nodes together are those of one replicated log that only
\* grows: what a node hands to its state machine is never taken back, repeated or reordered
\* (apply_committed, advance_commit, handle_append).
THEOREM LogImplemented ==
  ASSUME Node # {}, StaleReplies = {}
  PROVE  GateSpec /\ [][CommitsInBatch]_vars => ImplementsLog
<1>1. Init => Log!Init
  <2> SUFFICES ASSUME Init PROVE Log!Init
    OBVIOUS
  <2>1. Furthest \in Node
    BY InitSafe, OneLog
  <2> QED
    BY <2>1 DEF Init, Log!Init
<1>2. SafeInv /\ SafeInv' /\ [GateNext]_vars => [Log!Next]_<<applied[Furthest], applied>>
  <2> SUFFICES ASSUME SafeInv, SafeInv', [GateNext]_vars
               PROVE  Log!Next
    OBVIOUS
  <2>1. TypeInv /\ TypeInv'
    BY DEF SafeInv
  <2>2. PICK n \in Node : Delivers(n)
    BY <2>1, NextDelivers
  <2>3. Log!Deliver(n)
    BY <2>2, LogStep
  <2> QED
    BY <2>3 DEF Log!Next
<1> QED
  BY <1>1, <1>2, InitSafe, NextSafe, PTL DEF GateSpec, ImplementsLog, Log!Spec
=============================================================================
