------------------------- MODULE NornRaftLogProofs -------------------------
(***************************************************************************)
(* Theorems about the logs of NornRaft for every value of its constants:   *)
(* logs that share an entry agree below it, and what a leader believes its *)
(* members to hold is what they hold.                                      *)
(*                                                                         *)
(* Both rest on a record of what the leader of each term has had in its    *)
(* log.  The record is not a variable: the invariant says that there is    *)
(* one, a function H from terms to logs, on which everything lies that is  *)
(* in a log or on the wire.                                                *)
(***************************************************************************)
EXTENDS NornRaftProofs

-----------------------------------------------------------------------------
(* The invariant. *)

\* What was in the log of each term's leader.
Records == [Nat -> Seq(Entry)]

\* Every entry of s, with all that comes before it, is in the record of its term.
OnRecord(s, H) ==
  \A i \in 1..Len(s) :
    /\ i <= Len(H[s[i].term])
    /\ \A j \in 1..i : s[j] = H[s[i].term][j]

\* What AppendEntries m carries is a part of the record of its term.  A leader that
\* was told of entries beyond its log sends an empty batch with previous term 0.
CarriesRecord(m, H) ==
  \/ /\ m.prev_log_index <= Len(H[m.term])
     /\ m.prev_log_term = TermAt(H[m.term], m.prev_log_index)
     /\ \A i \in 1..Len(m.entries) :
          /\ m.prev_log_index + i <= Len(H[m.term])
          /\ m.entries[i] = H[m.term][m.prev_log_index + i]
  \/ m.prev_log_index > 0 /\ m.prev_log_term = 0

\* Nothing is on record for a term without a leader; the log of a leader is the record
\* of its term.
Recorded(H) ==
  /\ H \in Records
  /\ \A t \in Nat : (\A l \in leaders : l[1] # t) => H[t] = <<>>
  /\ \A t \in Nat : OnRecord(H[t], H) /\ Len(H[t]) <= RAFT_MAX_LOG
  /\ \A n \in Node : OnRecord(log[n], H) /\ Len(log[n]) <= RAFT_MAX_LOG
  /\ \A n \in Node : role[n] = "leader" => H[current_term[n]] = log[n]
  /\ \A m \in msgs : m.type = "Append" => CarriesRecord(m, H)

\* A leader is on the list of leaders; a leader of a term never stands in it again.
LeadersKnown ==
  /\ \A n \in Node : role[n] = "leader" => <<current_term[n], n>> \in leaders
  /\ \A l \in leaders :
       /\ l[1] > 0 /\ l[1] <= current_term[l[2]]
       /\ l[1] = current_term[l[2]] => ~InRealRound(l[2])
  /\ \A n \in Node : InRealRound(n) => current_term[n] > 0

LogInv == TypeInv /\ ElectionInv /\ LeadersKnown /\ \E H : Recorded(H)

-----------------------------------------------------------------------------
(* Sequences and the record. *)

\* g begins with s.
Begins(s, g) == Len(s) <= Len(g) /\ \A i \in 1..Len(s) : s[i] = g[i]

\* An entry of a log has a term.
LEMMA EntryAt ==
  ASSUME NEW s \in Seq(Entry), NEW i \in 1..Len(s)
  PROVE  s[i] \in Entry /\ s[i].term \in Nat /\ i \in Nat /\ i >= 1 /\ i <= Len(s)
<1>1. s[i] \in Entry
  OBVIOUS
<1>2. s[i].term \in Nat
  BY <1>1 DEF Entry
<1>3. Len(s) \in Nat
  OBVIOUS
<1> QED
  BY <1>1, <1>2, <1>3

\* What the record of a term is.
LEMMA RecordAt ==
  ASSUME NEW H \in Records, NEW t \in Nat
  PROVE  H[t] \in Seq(Entry) /\ Len(H[t]) \in Nat
BY DEF Records

\* No entry on record has term 0.
LEMMA NoTermZero ==
  ASSUME NEW H \in Records, H[0] = <<>>, NEW s \in Seq(Entry), OnRecord(s, H),
         NEW i \in 1..Len(s)
  PROVE  s[i].term # 0
<1>1. i <= Len(H[s[i].term])
  BY DEF OnRecord
<1>2. i >= 1 /\ i \in Nat
  BY EntryAt
<1>3. Len(H[0]) = 0
  OBVIOUS
<1> QED
  BY <1>1, <1>2, <1>3

\* The beginning of what is on record is on record.
LEMMA PrefixOnRecord ==
  ASSUME NEW H, NEW g \in Seq(Entry), OnRecord(g, H),
         NEW s \in Seq(Entry), Begins(s, g)
  PROVE  OnRecord(s, H)
<1>1. ASSUME NEW i \in 1..Len(s)
      PROVE  /\ i <= Len(H[s[i].term])
             /\ \A j \in 1..i : s[j] = H[s[i].term][j]
  <2>1. Len(s) \in Nat /\ Len(g) \in Nat /\ Len(s) <= Len(g)
    BY DEF Begins
  <2>2. i \in 1..Len(g) /\ \A j \in 1..i : j \in 1..Len(s)
    BY <2>1
  <2>3. s[i] = g[i] /\ \A j \in 1..i : s[j] = g[j]
    BY <2>2 DEF Begins
  <2> QED
    BY <2>2, <2>3 DEF OnRecord
<1> QED
  BY <1>1 DEF OnRecord

\* What is on record stays there when the record of a term grows.
LEMMA GrowingRecord ==
  ASSUME NEW H \in Records, NEW G \in Records,
         \A t \in Nat : Begins(H[t], G[t]),
         NEW s \in Seq(Entry), OnRecord(s, H)
  PROVE  OnRecord(s, G)
<1>1. ASSUME NEW i \in 1..Len(s)
      PROVE  /\ i <= Len(G[s[i].term])
             /\ \A j \in 1..i : s[j] = G[s[i].term][j]
  <2> DEFINE t == s[i].term
             h == H[t]
             g == G[t]
  <2>1. t \in Nat /\ i \in Nat
    BY EntryAt
  <2>2. i <= Len(h) /\ \A j \in 1..i : s[j] = h[j]
    BY DEF OnRecord
  <2>3. Len(h) <= Len(g) /\ \A j \in 1..Len(h) : h[j] = g[j]
    BY <2>1 DEF Begins
  <2>4. Len(h) \in Nat /\ Len(g) \in Nat
    BY <2>1, RecordAt
  <2> HIDE DEF t, h, g
  <2>5. i <= Len(g) /\ \A j \in 1..i : s[j] = g[j]
    BY <2>1, <2>2, <2>3, <2>4
  <2> QED
    BY <2>5 DEF g, t
<1> QED
  BY <1>1 DEF OnRecord

\* So does what is on the wire.
LEMMA GrowingWire ==
  ASSUME NEW H \in Records, NEW G \in Records,
         \A t \in Nat : Begins(H[t], G[t]),
         NEW m \in AppendMessage, CarriesRecord(m, H)
  PROVE  CarriesRecord(m, G)
<1>1. CASE m.prev_log_index > 0 /\ m.prev_log_term = 0
  BY <1>1 DEF CarriesRecord
<1>2. CASE ~(m.prev_log_index > 0 /\ m.prev_log_term = 0)
  <2> DEFINE h == H[m.term]
             g == G[m.term]
             k == m.prev_log_index
             e == m.entries
  <2>1. m.term \in Nat /\ k \in Nat /\ e \in Seq(Entry)
    BY DEF AppendMessage
  <2>2. Len(h) <= Len(g) /\ \A i \in 1..Len(h) : h[i] = g[i]
    BY <2>1 DEF Begins
  <2>3. /\ k <= Len(h) /\ m.prev_log_term = TermAt(h, k)
        /\ \A i \in 1..Len(e) : k + i <= Len(h) /\ e[i] = h[k + i]
    BY <1>2 DEF CarriesRecord
  <2>4. Len(h) \in Nat /\ Len(g) \in Nat /\ Len(e) \in Nat
    BY <2>1, RecordAt
  <2> HIDE DEF h, g, k, e
  <2>5. k <= Len(g) /\ TermAt(h, k) = TermAt(g, k)
    BY <2>1, <2>2, <2>3, <2>4 DEF TermAt
  <2>6. \A i \in 1..Len(e) : k + i <= Len(g) /\ e[i] = g[k + i]
    <3> TAKE i \in 1..Len(e)
    <3>1. k + i <= Len(h) /\ e[i] = h[k + i]
      BY <2>3
    <3>2. k + i \in 1..Len(h)
      BY <2>1, <2>4, <3>1
    <3> QED
      BY <2>2, <2>4, <3>1, <3>2
  <2> QED
    BY <2>3, <2>5, <2>6 DEF CarriesRecord, g, k, e
<1> QED
  BY <1>1, <1>2

\* What a leader sends is a part of its log.
LEMMA SendsRecord ==
  ASSUME NEW H \in Records, NEW t \in Nat, NEW n, NEW p,
         NEW next \in Nat \ {0}, NEW c
  PROVE  CarriesRecord(AppendMsg(n, p, H[t], t, next, c), H)
<1> DEFINE lg == H[t]
           b == Smaller(next + RAFT_MAX_BATCH - 1, Len(lg))
           m == AppendMsg(n, p, lg, t, next, c)
           k == next - 1
<1> SUFFICES CarriesRecord(m, H)
  OBVIOUS
<1>1. lg \in Seq(Entry) /\ Len(lg) \in Nat
  BY RecordAt
<1>2. b \in Int /\ b <= Len(lg) /\ k \in Nat
  <2> HIDE DEF lg
  <2> QED
    BY <1>1, BoundAssumption DEF Smaller
<1>3. /\ m.term = t /\ m.prev_log_index = k /\ m.prev_log_term = TermAt(lg, k)
      /\ m.entries = SubSeq(lg, next, b)
  BY DEF AppendMsg
<1> HIDE DEF b, m
<1>4. CASE k > Len(lg)
  <2> HIDE DEF lg
  <2>1. k > 0 /\ TermAt(lg, k) = 0
    BY <1>1, <1>2, <1>4 DEF TermAt
  <2> QED
    BY <1>3, <2>1 DEF CarriesRecord
<1>5. CASE k <= Len(lg)
  <2> DEFINE e == SubSeq(lg, next, b)
  <2>1. Len(e) = IF next <= b THEN b - next + 1 ELSE 0
    BY <1>1, <1>2, SliceType
  <2>2. \A i \in next..b : lg[i] \in Entry
    <3> HIDE DEF lg
    <3> QED
      BY <1>1, <1>2
  <2>3. \A i \in 1..(IF next <= b THEN b - next + 1 ELSE 0) : e[i] = lg[next + i - 1]
    <3> HIDE DEF lg
    <3> QED
      BY <1>1, <1>2, <2>2, SubSeqProperties
  <2> HIDE DEF e, lg
  <2>4. \A i \in 1..Len(e) : k + i <= Len(lg) /\ e[i] = lg[k + i]
    BY <1>1, <1>2, <2>1, <2>3
  <2> QED
    BY <1>3, <1>5, <2>4, Zenon DEF CarriesRecord, lg, e
<1> QED
  BY <1>1, <1>2, <1>4, <1>5

\* Two logs on record that have an entry of the same term at the same place agree up to
\* it.
LEMMA RecordsAgree ==
  ASSUME NEW H, NEW s, NEW g, OnRecord(s, H), OnRecord(g, H),
         NEW i, i \in 1..Len(s), i \in 1..Len(g), s[i].term = g[i].term
  PROVE  \A j \in 1..i : s[j] = g[j]
<1>1. \A j \in 1..i : s[j] = H[s[i].term][j]
  BY DEF OnRecord
<1>2. \A j \in 1..i : g[j] = H[g[i].term][j]
  BY DEF OnRecord
<1> QED
  BY <1>1, <1>2
\* The first k entries of s are those of g.
Holds(s, g, k) == k <= Len(s) /\ k <= Len(g) /\ \A i \in 1..k : s[i] = g[i]

\* What handle_append may rely on: the log and the record are sound, and the message
\* matches the log.
MayMerge(H, lg, m) ==
  /\ H \in Records /\ H[0] = <<>>
  /\ \A t \in Nat : OnRecord(H[t], H) /\ Len(H[t]) <= RAFT_MAX_LOG
  /\ lg \in Seq(Entry) /\ OnRecord(lg, H) /\ Len(lg) <= RAFT_MAX_LOG
  /\ m \in AppendMessage /\ CarriesRecord(m, H) /\ LogMatches(lg, m)

\* A log that matches has the record of the message's term up to the batch, and where no
\* entry of the batch differs also that far.
LEMMA MatchedPart ==
  ASSUME NEW H, NEW lg, NEW m, MayMerge(H, lg, m)
  PROVE  /\ m.prev_log_index <= Len(H[m.term])
         /\ \A j \in 1..m.prev_log_index : lg[j] = H[m.term][j]
         /\ \A i \in 1..Len(m.entries) :
              /\ m.prev_log_index + i <= Len(H[m.term])
              /\ m.entries[i] = H[m.term][m.prev_log_index + i]
              /\ (m.prev_log_index + i <= Len(lg)
                   /\ lg[m.prev_log_index + i].term = m.entries[i].term)
                   => \A j \in 1..(m.prev_log_index + i) : lg[j] = H[m.term][j]
<1> DEFINE g == H[m.term]
           k == m.prev_log_index
           e == m.entries
<1>1. /\ m.term \in Nat /\ k \in Nat /\ e \in Seq(Entry) /\ Len(e) \in Nat
      /\ lg \in Seq(Entry) /\ Len(lg) \in Nat
  BY DEF MayMerge, AppendMessage
<1>2. /\ g \in Seq(Entry) /\ Len(g) \in Nat
      /\ OnRecord(g, H) /\ OnRecord(lg, H)
  BY <1>1, RecordAt DEF MayMerge
<1>3. k <= Len(lg) /\ TermAt(lg, k) = m.prev_log_term
  BY DEF MayMerge, LogMatches
<1>4. ~(k > 0 /\ m.prev_log_term = 0)
  <2> SUFFICES ASSUME k > 0, m.prev_log_term = 0
               PROVE  FALSE
    OBVIOUS
  <2> HIDE DEF k
  <2>1. k \in 1..Len(lg)
    BY <1>1, <1>3
  <2>2. lg[k].term = 0
    BY <1>3, <2>1 DEF TermAt
  <2> QED
    BY <2>1, <2>2, <1>1, NoTermZero DEF MayMerge
<1>5. /\ k <= Len(g) /\ m.prev_log_term = TermAt(g, k)
      /\ \A i \in 1..Len(e) : k + i <= Len(g) /\ e[i] = g[k + i]
  BY <1>4 DEF MayMerge, CarriesRecord
<1> HIDE DEF g, k, e
<1>6. \A j \in 1..k : lg[j] = g[j]
  <2>1. CASE k = 0
    BY <2>1
  <2>2. CASE k # 0
    <3>1. k \in 1..Len(lg) /\ k \in 1..Len(g)
      BY <1>1, <1>2, <1>3, <1>5, <2>2
    <3>2. lg[k].term = g[k].term
      BY <1>3, <1>5, <3>1 DEF TermAt
    <3> QED
      BY <1>2, <3>1, <3>2, RecordsAgree
  <2> QED
    BY <2>1, <2>2
<1>7. ASSUME NEW i \in 1..Len(e), k + i <= Len(lg), lg[k + i].term = e[i].term
      PROVE  \A j \in 1..(k + i) : lg[j] = g[j]
  <2>1. k + i <= Len(g) /\ e[i] = g[k + i]
    BY <1>5
  <2>2. k + i \in 1..Len(lg) /\ k + i \in 1..Len(g)
    BY <1>1, <1>2, <1>7, <2>1
  <2>3. lg[k + i].term = g[k + i].term
    BY <1>7, <2>1
  <2> QED
    BY <1>2, <2>2, <2>3, RecordsAgree
<1> QED
  BY <1>5, <1>6, <1>7 DEF g, k, e

\* The append/overwrite loop of handle_append leaves the log on record, loses nothing of
\* what the log held of the record of the message's term, and the log then holds that
\* record to the end of the batch.  It keeps the log as it is, or comes to a part of that
\* record.
LEMMA MergedOnRecord ==
  ASSUME NEW H, NEW lg, NEW m, MayMerge(H, lg, m)
  PROVE  LET new == Merged(lg, m.prev_log_index, m.entries)
         IN  /\ OnRecord(new, H) /\ Len(new) <= RAFT_MAX_LOG
             /\ Holds(new, H[m.term], m.prev_log_index + Len(m.entries))
             /\ \A c \in Nat : Holds(lg, H[m.term], c) => Holds(new, H[m.term], c)
             /\ new = lg \/ Begins(new, H[m.term])
<1> DEFINE g == H[m.term]
           k == m.prev_log_index
           e == m.entries
           new == Merged(lg, k, e)
           differs == {i \in 1..Len(e) : k + i > Len(lg) \/ lg[k + i].term # e[i].term}
           len == IF differs = {} THEN Len(lg) ELSE Smaller(k + Len(e), RAFT_MAX_LOG)
<1>1. /\ m.term \in Nat /\ k \in Nat /\ e \in Seq(Entry) /\ Len(e) \in Nat
      /\ lg \in Seq(Entry) /\ Len(lg) \in Nat /\ Len(lg) <= RAFT_MAX_LOG
      /\ k <= Len(lg)
  BY DEF MayMerge, AppendMessage, LogMatches
<1>2. /\ g \in Seq(Entry) /\ Len(g) \in Nat
      /\ OnRecord(g, H) /\ OnRecord(lg, H) /\ Len(g) <= RAFT_MAX_LOG
  BY <1>1, RecordAt DEF MayMerge
<1>3. /\ k <= Len(g)
      /\ \A j \in 1..k : lg[j] = g[j]
      /\ \A i \in 1..Len(e) :
           /\ k + i <= Len(g)
           /\ e[i] = g[k + i]
           /\ (k + i <= Len(lg) /\ lg[k + i].term = e[i].term)
                => \A j \in 1..(k + i) : lg[j] = g[j]
  BY MatchedPart
<1>4. new = [i \in 1..len |->
               IF \E d \in differs : k + d <= i THEN e[i - k] ELSE lg[i]]
  BY DEF Merged
<1>5. new \in Seq(Entry)
  BY <1>1, MergedType
<1> HIDE DEF g, k, e, new
<1>6. k + Len(e) <= Len(g)
  <2>1. CASE Len(e) = 0
    BY <1>1, <1>2, <1>3, <2>1
  <2>2. CASE Len(e) # 0
    <3>1. Len(e) \in 1..Len(e)
      BY <1>1, <2>2
    <3> QED
      BY <1>3, <3>1
  <2> QED
    BY <2>1, <2>2
<1>7. ASSUME differs = {}
      PROVE  /\ OnRecord(new, H) /\ Len(new) <= RAFT_MAX_LOG
             /\ Holds(new, g, k + Len(e))
             /\ \A c \in Nat : Holds(lg, g, c) => Holds(new, g, c)
             /\ new = lg \/ Begins(new, g)
  <2>1. new = [i \in 1..Len(lg) |-> lg[i]]
    BY <1>4, <1>7
  <2>2. Len(new) = Len(lg) /\ \A i \in 1..Len(lg) : new[i] = lg[i]
    BY <1>1, <1>5, <2>1
  <2>3. new = lg
    BY <1>1, <1>5, <2>2, SeqEqual
  <2>4. Holds(lg, g, k + Len(e))
    <3>1. CASE Len(e) = 0
      BY <1>1, <1>3, <3>1 DEF Holds
    <3>2. CASE Len(e) # 0
      <4>1. Len(e) \in 1..Len(e)
        BY <1>1, <3>2
      <4>2. k + Len(e) <= Len(lg) /\ lg[k + Len(e)].term = e[Len(e)].term
        BY <1>1, <1>7, <4>1
      <4> QED
        BY <1>3, <1>6, <4>1, <4>2 DEF Holds
    <3> QED
      BY <3>1, <3>2
  <2> QED
    BY <1>1, <1>2, <2>3, <2>4
<1>8. ASSUME NEW d \in differs
      PROVE  /\ OnRecord(new, H) /\ Len(new) <= RAFT_MAX_LOG
             /\ Holds(new, g, k + Len(e))
             /\ \A c \in Nat : Holds(lg, g, c) => Holds(new, g, c)
             /\ new = lg \/ Begins(new, g)
  <2>1. d \in 1..Len(e) /\ (k + d > Len(lg) \/ lg[k + d].term # e[d].term)
    OBVIOUS
  <2>2. len = k + Len(e)
    <3>1. differs # {}
      BY <1>8
    <3>2. len = Smaller(k + Len(e), RAFT_MAX_LOG)
      BY <3>1
    <3> HIDE DEF differs, len
    <3>3. k + Len(e) \in Nat /\ RAFT_MAX_LOG \in Nat /\ k + Len(e) <= RAFT_MAX_LOG
      BY <1>1, <1>2, <1>6, BoundAssumption
    <3> QED
      BY <3>2, <3>3 DEF Smaller
  <2>3. DOMAIN new = 1..(k + Len(e))
    BY <1>4, <2>2
  <2>4. Len(new) = k + Len(e)
    BY <1>1, <1>5, <2>3
  <2>5. ASSUME NEW i \in 1..(k + Len(e))
        PROVE  new[i] = g[i]
    <3>1. i \in Nat /\ i >= 1 /\ i <= k + Len(e)
      BY <1>1
    <3>2. CASE \E b \in differs : k + b <= i
      <4>1. PICK b \in differs : k + b <= i
        BY <3>2
      <4>2. b \in 1..Len(e)
        OBVIOUS
      <4>3. i - k \in 1..Len(e) /\ k + (i - k) = i
        BY <1>1, <3>1, <4>1, <4>2
      <4>4. new[i] = e[i - k]
        BY <1>4, <2>2, <3>2
      <4> QED
        BY <1>3, <4>3, <4>4
    <3>3. CASE ~ \E b \in differs : k + b <= i
      <4>1. new[i] = lg[i]
        BY <1>4, <2>2, <3>3
      <4>2. CASE i <= k
        BY <1>3, <3>1, <4>1, <4>2
      <4>3. CASE i > k
        <5>1. i - k \in 1..Len(e) /\ k + (i - k) = i
          BY <1>1, <3>1, <4>3
        <5>2. i - k \notin differs
          BY <3>1, <3>3, <5>1
        <5>3. i <= Len(lg) /\ lg[i].term = e[i - k].term
          BY <1>1, <3>1, <5>1, <5>2
        <5>4. \A j \in 1..i : lg[j] = g[j]
          BY <1>3, <5>1, <5>3
        <5> QED
          BY <3>1, <4>1, <5>4
      <4> QED
        BY <1>1, <3>1, <4>2, <4>3
    <3> QED
      BY <3>2, <3>3
  <2>6. Begins(new, g)
    BY <1>6, <2>4, <2>5 DEF Begins
  <2>7. OnRecord(new, H)
    BY <1>2, <1>5, <2>6, PrefixOnRecord
  <2>8. Holds(new, g, k + Len(e))
    BY <1>1, <1>6, <2>4, <2>5 DEF Holds
  <2>9. ASSUME NEW c \in Nat, Holds(lg, g, c)
        PROVE  Holds(new, g, c)
    <3>1. c <= Len(lg) /\ c <= Len(g) /\ \A i \in 1..c : lg[i] = g[i]
      BY <2>9 DEF Holds
    <3>2. c <= k + Len(e)
      <4> SUFFICES ASSUME c > k + Len(e)
                   PROVE  FALSE
        BY <1>1
      <4>1. k + d \in 1..c /\ k + d <= Len(lg)
        BY <1>1, <2>1, <3>1
      <4>2. lg[k + d] = g[k + d] /\ e[d] = g[k + d]
        BY <1>3, <2>1, <3>1, <4>1
      <4> QED
        BY <1>1, <2>1, <4>1, <4>2
    <3> QED
      BY <1>1, <2>4, <2>5, <3>1, <3>2 DEF Holds
  <2>10. Len(new) <= RAFT_MAX_LOG
    BY <1>1, <1>2, <1>6, <2>4, BoundAssumption
  <2> QED
    BY <2>6, <2>7, <2>8, <2>9, <2>10
<1> QED
  BY <1>7, <1>8 DEF g, k, e, new

-----------------------------------------------------------------------------
(* Steps that write no log and make no leader. *)

\* What a leader believes its members to hold, and what the successes on the wire report,
\* they do hold, as long as they are in its term.
Matched(H) ==
  /\ \A m \in msgs : (m.type = "AppendResp" /\ m.success) =>
       /\ m.term <= current_term[m.from]
       /\ m.term = current_term[m.from] =>
            Holds(log[m.from], H[m.term], m.match_index)
  /\ \A n, p \in Node : role[n] = "leader" =>
       /\ current_term[p] < current_term[n] => match_index[n][p] = 0
       /\ current_term[p] = current_term[n] =>
            Holds(log[p], H[current_term[n]], match_index[n][p])

\* No node becomes a leader, or a candidate in a real round of its old term.
NoNewLeader ==
  /\ UNCHANGED leaders
  /\ \A n \in Node : role'[n] = "leader" =>
       role[n] = "leader" /\ current_term'[n] = current_term[n]
  /\ \A n \in Node : current_term[n] <= current_term'[n]
  /\ \A n \in Node : InRealRound(n)' =>
       \/ InRealRound(n) /\ current_term'[n] = current_term[n]
       \/ current_term'[n] > current_term[n]

\* Such a step keeps what is known of the leaders.
LEMMA KnownKeeps ==
  ASSUME TypeOK, TypeOK', LeadersKnown, NoNewLeader
  PROVE  LeadersKnown'
<1>1. \A n \in Node : role'[n] = "leader" => <<current_term'[n], n>> \in leaders'
  BY DEF LeadersKnown, NoNewLeader
<1>2. ASSUME NEW l \in leaders'
      PROVE  /\ l[1] > 0 /\ l[1] <= current_term'[l[2]]
             /\ l[1] = current_term'[l[2]] => ~InRealRound(l[2])'
  <2>1. l \in leaders /\ l[1] \in Nat /\ l[2] \in Node
    BY DEF NoNewLeader, TypeOK
  <2>2. current_term[l[2]] \in Nat /\ current_term'[l[2]] \in Nat
    BY <2>1 DEF TypeOK
  <2> QED
    BY <2>1, <2>2 DEF LeadersKnown, NoNewLeader
<1>3. ASSUME NEW n \in Node, InRealRound(n)'
      PROVE  current_term'[n] > 0
  <2>1. current_term[n] \in Nat /\ current_term'[n] \in Nat
    BY DEF TypeOK
  <2> QED
    BY <1>3, <2>1 DEF LeadersKnown, NoNewLeader
<1> QED
  BY <1>1, <1>2, <1>3 DEF LeadersKnown

\* become_follower makes no leader.
LEMMA FollowerQuiet ==
  ASSUME TypeOK, NEW n \in Node, NEW t \in Nat, NEW ldr, BecomeFollower(n, t, ldr),
         UNCHANGED leaders
  PROVE  NoNewLeader
<1>1. current_term \in [Node -> Nat]
  BY DEF TypeOK
<1>2. \A p \in Node : current_term[p] <= current_term'[p]
  BY <1>1 DEF BecomeFollower
<1>3. \A p \in Node \ {n} :
        /\ role'[p] = role[p] /\ in_pre_vote'[p] = in_pre_vote[p]
        /\ current_term'[p] = current_term[p]
  BY DEF BecomeFollower, TypeOK
<1>4. role'[n] = "follower"
  BY DEF BecomeFollower, TypeOK
<1> QED
  BY <1>2, <1>3, <1>4 DEF NoNewLeader, InRealRound

\* Nor does a step that leaves terms and roles alone.
LEMMA SameQuiet ==
  ASSUME TypeOK, UNCHANGED <<leaders, role, in_pre_vote, current_term>>
  PROVE  NoNewLeader
<1>1. \A n \in Node : current_term[n] <= current_term'[n]
  BY DEF TypeOK
<1> QED
  BY <1>1 DEF NoNewLeader, InRealRound

\* The record of such a step is the old one.
LEMMA QuietRecord ==
  ASSUME NEW H, Recorded(H), NoNewLeader, UNCHANGED log,
         \A m \in msgs' : m \in msgs \/ (m.type = "Append" => CarriesRecord(m, H))
  PROVE  Recorded(H)'
BY DEF Recorded, NoNewLeader

\* What a leader knows of its members stays true if they keep their logs.
LEMMA QuietMatched ==
  ASSUME TypeOK, TypeOK', NEW H \in Records, Matched(H), NoNewLeader, UNCHANGED log,
         \A m \in msgs' : m \in msgs \/ ~(m.type = "AppendResp" /\ m.success),
         \A n, p \in Node : role'[n] = "leader" =>
           \/ match_index'[n][p] = match_index[n][p]
           \/ /\ current_term[p] >= current_term[n]
              /\ current_term[p] = current_term[n] =>
                   Holds(log[p], H[current_term[n]], match_index'[n][p])
  PROVE  Matched(H)'
<1>1. ASSUME NEW m \in msgs', m.type = "AppendResp", m.success
      PROVE  /\ m.term <= current_term'[m.from]
             /\ m.term = current_term'[m.from] =>
                  Holds(log'[m.from], H[m.term], m.match_index)
  <2>1. m \in msgs /\ m.from \in Node /\ m.term \in Nat
    BY <1>1, MessageKinds DEF TypeOK
  <2>2. current_term[m.from] \in Nat /\ current_term'[m.from] \in Nat
        /\ current_term[m.from] <= current_term'[m.from]
    BY <2>1 DEF TypeOK, NoNewLeader
  <2>3. /\ m.term <= current_term[m.from]
        /\ m.term = current_term[m.from] => Holds(log[m.from], H[m.term], m.match_index)
    BY <1>1, <2>1 DEF Matched
  <2> QED
    BY <2>1, <2>2, <2>3
<1>2. ASSUME NEW n \in Node, NEW p \in Node, role'[n] = "leader"
      PROVE  /\ current_term'[p] < current_term'[n] => match_index'[n][p] = 0
             /\ current_term'[p] = current_term'[n] =>
                  Holds(log'[p], H[current_term'[n]], match_index'[n][p])
  <2>1. role[n] = "leader" /\ current_term'[n] = current_term[n]
    BY <1>2 DEF NoNewLeader
  <2>2. /\ current_term[p] \in Nat /\ current_term'[p] \in Nat /\ current_term[n] \in Nat
        /\ current_term[p] <= current_term'[p]
    BY DEF TypeOK, NoNewLeader
  <2>3. /\ current_term[p] < current_term[n] => match_index[n][p] = 0
        /\ current_term[p] = current_term[n] =>
             Holds(log[p], H[current_term[n]], match_index[n][p])
    BY <2>1 DEF Matched
  <2>4. CASE match_index'[n][p] = match_index[n][p]
    <3>1. CASE current_term[p] < current_term[n]
      <4>1. match_index'[n][p] = 0
        BY <2>3, <2>4, <3>1
      <4>2. Holds(log[p], H[current_term[n]], 0)
        <5>1. Len(H[current_term[n]]) \in Nat
          BY <2>2, RecordAt
        <5>2. Len(log[p]) \in Nat
          BY DEF TypeOK
        <5> QED
          BY <5>1, <5>2 DEF Holds
      <4> QED
        BY <2>1, <4>1, <4>2
    <3>2. CASE current_term[p] >= current_term[n]
      BY <2>1, <2>2, <2>3, <2>4, <3>2
    <3> QED
      BY <2>2, <3>1, <3>2
  <2>5. CASE /\ current_term[p] >= current_term[n]
             /\ current_term[p] = current_term[n] =>
                  Holds(log[p], H[current_term[n]], match_index'[n][p])
    BY <2>1, <2>2, <2>5
  <2> QED
    BY <1>2, <2>4, <2>5
<1> QED
  BY <1>1, <1>2 DEF Matched

\* A step that writes no log, makes no leader, and sends at most a part of the record.
Quiet(H) ==
  /\ NoNewLeader
  /\ UNCHANGED log
  /\ \A m \in msgs' :
       \/ m \in msgs
       \/ m.type = "Append" /\ CarriesRecord(m, H)
       \/ m.type \in {"RequestVote", "VoteResp"}
       \/ m.type = "AppendResp" /\ ~m.success

\* What a leader sends from its log is a part of the record.
LEMMA SendsLog ==
  ASSUME TypeOK, NEW H, Recorded(H), NEW n \in Node, role[n] = "leader",
         NEW p, NEW next \in Nat \ {0}, NEW c
  PROVE  CarriesRecord(AppendMsg(n, p, log[n], current_term[n], next, c), H)
<1>1. current_term[n] \in Nat /\ H \in Records /\ H[current_term[n]] = log[n]
  BY DEF TypeOK, Recorded
<1> QED
  BY <1>1, SendsRecord

\* The ticks of a node that does not win anything.
LEMMA TickQuiet ==
  ASSUME TypeInv, NEW H, Recorded(H), NEW n \in Node, Tick(n), ~LeadAlone(n)
  PROVE  Quiet(H) /\ UNCHANGED match_index
<1> USE DEF TypeInv
<1>1. CASE ElapseTick(n)
  <2>1. UNCHANGED <<leaders, role, in_pre_vote, current_term, log, msgs, match_index>>
    BY <1>1 DEF ElapseTick, termVars, peerVars, history
  <2> QED
    BY <2>1, SameQuiet DEF Quiet
<1>2. CASE LeaderTick(n)
  <2>1. UNCHANGED <<leaders, role, in_pre_vote, current_term, log, match_index>>
    BY <1>2 DEF LeaderTick, termVars, peerVars, history, logVars
  <2>2. role[n] = "leader" /\ next_index[n] \in [Node -> Nat \ {0}]
    BY <1>2 DEF LeaderTick, TypeOK
  <2>3. \A m \in AppendMsgs(n, log[n], current_term[n], next_index[n]) :
          m.type = "Append" /\ CarriesRecord(m, H)
    <3>1. \A p \in Node :
            CarriesRecord(AppendMsg(n, p, log[n], current_term[n], next_index[n][p],
                                    commit_index[n]), H)
      BY <2>2, SendsLog
    <3>2. \A p \in Node :
            AppendMsg(n, p, log[n], current_term[n], next_index[n][p],
                      commit_index[n]).type = "Append"
      BY DEF AppendMsg
    <3> QED
      BY <3>1, <3>2 DEF AppendMsgs
  <2>4. msgs' \subseteq msgs \cup AppendMsgs(n, log[n], current_term[n], next_index[n])
    BY <1>2, SentMsgs DEF LeaderTick
  <2> QED
    BY <2>1, <2>3, <2>4, SameQuiet DEF Quiet
<1>3. CASE ElectionTick(n) /\ StartPreVote(n)
  <2>1. UNCHANGED <<leaders, current_term, log, match_index>>
    BY <1>3 DEF StartPreVote, termVars, peerVars, history
  <2>2. /\ role'[n] = "candidate" /\ in_pre_vote'[n]
        /\ \A p \in Node \ {n} : role'[p] = role[p] /\ in_pre_vote'[p] = in_pre_vote[p]
    BY <1>3 DEF StartPreVote, TypeOK
  <2>3. NoNewLeader
    <3>1. \A p \in Node : current_term[p] <= current_term'[p]
      BY <2>1 DEF TypeOK
    <3> QED
      BY <2>1, <2>2, <3>1 DEF NoNewLeader, InRealRound
  <2>4. msgs' \subseteq msgs \cup VoteRequests(n, TRUE, current_term[n] + 1)
    BY <1>3, SentMsgs DEF StartPreVote
  <2>5. \A m \in VoteRequests(n, TRUE, current_term[n] + 1) : m.type = "RequestVote"
    BY DEF VoteRequests
  <2> QED
    BY <2>1, <2>3, <2>4, <2>5 DEF Quiet
<1>4. CASE ElectionTick(n) /\ StayQuiet(n)
  <2>1. UNCHANGED <<leaders, role, in_pre_vote, current_term, log, msgs, match_index>>
    BY <1>4 DEF StayQuiet, termVars, peerVars, history
  <2> QED
    BY <2>1, SameQuiet DEF Quiet
<1> QED
  BY <1>1, <1>2, <1>3, <1>4 DEF Tick, ElectionTick

\* The handlers of vote requests, and those of vote replies that do not win.
LEMMA VoteQuiet ==
  ASSUME TypeInv, NEW H, NEW m \in msgs,
         HandlePreVote(m) \/ HandleRequestVote(m) \/ (HandleVoteResp(m) /\ ~ElectionWon(m))
  PROVE  Quiet(H) /\ UNCHANGED match_index
<1> USE DEF TypeInv
<1> DEFINE n == m.to
<1>1. n \in Node /\ m.term \in Nat
  BY MessageKinds DEF TypeOK
<1>2. CASE HandlePreVote(m)
  <2>1. UNCHANGED <<leaders, role, in_pre_vote, current_term, log, match_index>>
    BY <1>2 DEF HandlePreVote, termVars, roleVars, peerVars, history, logVars
  <2>2. PICK g : msgs' \subseteq msgs \cup {VoteResp(m, current_term[n], g)}
    BY <1>2, RepliedMsgs DEF HandlePreVote
  <2>3. VoteResp(m, current_term[n], g).type = "VoteResp"
    BY DEF VoteResp
  <2> QED
    BY <2>1, <2>2, <2>3, SameQuiet DEF Quiet
<1>3. CASE HandleRequestVote(m)
  <2>1. UNCHANGED <<leaders, log, match_index>>
    BY <1>3 DEF HandleRequestVote, peerVars, logVars
  <2>2. PICK g, t : msgs' \subseteq msgs \cup {VoteResp(m, t, g)}
    BY <1>3, RepliedMsgs DEF HandleRequestVote
  <2>3. VoteResp(m, t, g).type = "VoteResp"
    BY DEF VoteResp
  <2>4. NoNewLeader
    <3>1. CASE m.term > current_term[n]
      <4>1. /\ current_term' = [current_term EXCEPT ![n] = m.term]
            /\ role' = [role EXCEPT ![n] = "follower"]
            /\ in_pre_vote' = [in_pre_vote EXCEPT ![n] = FALSE]
        BY <1>3, <3>1 DEF HandleRequestVote
      <4>2. \A p \in Node : current_term[p] <= current_term'[p]
        BY <1>1, <3>1, <4>1 DEF TypeOK
      <4>3. /\ role'[n] = "follower"
            /\ \A p \in Node \ {n} :
                 /\ role'[p] = role[p] /\ in_pre_vote'[p] = in_pre_vote[p]
                 /\ current_term'[p] = current_term[p]
        BY <1>1, <4>1 DEF TypeOK
      <4> QED
        BY <2>1, <4>2, <4>3 DEF NoNewLeader, InRealRound
    <3>2. CASE ~(m.term > current_term[n])
      <4>1. /\ current_term' = [current_term EXCEPT ![n] = current_term[n]]
            /\ role' = [role EXCEPT ![n] = role[n]]
            /\ in_pre_vote' = [in_pre_vote EXCEPT ![n] = in_pre_vote[n]]
        BY <1>3, <3>2 DEF HandleRequestVote
      <4>2. UNCHANGED <<role, in_pre_vote, current_term>>
        BY <1>1, <4>1 DEF TypeOK
      <4> QED
        BY <2>1, <4>2, SameQuiet
    <3> QED
      BY <3>1, <3>2
  <2> QED
    BY <2>1, <2>2, <2>3, <2>4 DEF Quiet
<1>4. CASE HandleVoteResp(m) /\ VoteRespStepDown(m)
  <2>1. UNCHANGED <<leaders, log, match_index>>
    BY <1>4 DEF VoteRespStepDown, peerVars, history
  <2>2. NoNewLeader
    BY <1>1, <1>4, <2>1, FollowerQuiet DEF VoteRespStepDown
  <2>3. msgs' \subseteq msgs
    BY <1>4, RepliedMsgs DEF VoteRespStepDown
  <2> QED
    BY <2>1, <2>2, <2>3 DEF Quiet
<1>5. CASE HandleVoteResp(m) /\ VoteRespRecord(m)
  <2>1. UNCHANGED <<leaders, role, in_pre_vote, current_term, log, match_index>>
    BY <1>5 DEF VoteRespRecord, termVars, roleVars, peerVars, history
  <2>2. msgs' \subseteq msgs
    BY <1>5, RepliedMsgs DEF VoteRespRecord
  <2> QED
    BY <2>1, <2>2, SameQuiet DEF Quiet
<1>6. CASE HandleVoteResp(m) /\ PreVoteWon(m)
  <2>1. UNCHANGED <<leaders, role, log, match_index>> /\ role[n] = "candidate"
    BY <1>6 DEF PreVoteWon, CountsNow, peerVars
  <2>2. /\ current_term'[n] = current_term[n] + 1
        /\ \A p \in Node \ {n} :
             in_pre_vote'[p] = in_pre_vote[p] /\ current_term'[p] = current_term[p]
    BY <1>1, <1>6 DEF PreVoteWon, TypeOK
  <2>3. NoNewLeader
    <3>1. \A p \in Node : current_term[p] <= current_term'[p]
      <4>1. \A p \in Node : current_term[p] \in Nat
        BY DEF TypeOK
      <4>2. \A p \in Node \ {n} : current_term[p] <= current_term'[p]
        BY <2>2, <4>1
      <4>3. current_term[n] <= current_term'[n]
        BY <1>1, <2>2, <4>1
      <4> QED
        BY <4>2, <4>3
    <3>2. current_term'[n] > current_term[n]
      BY <1>1, <2>2 DEF TypeOK
    <3> QED
      BY <2>1, <2>2, <3>1, <3>2 DEF NoNewLeader, InRealRound
  <2>4. msgs' \subseteq msgs \cup VoteRequests(n, FALSE, current_term[n] + 1)
    BY <1>6, RepliedMsgs DEF PreVoteWon
  <2>5. \A x \in VoteRequests(n, FALSE, current_term[n] + 1) : x.type = "RequestVote"
    BY DEF VoteRequests
  <2> QED
    BY <2>1, <2>3, <2>4, <2>5 DEF Quiet
<1> QED
  BY <1>2, <1>3, <1>4, <1>5, <1>6 DEF HandleVoteResp

\* The handlers of AppendEntries that write nothing, and those of its replies.
LEMMA AppendQuiet ==
  ASSUME TypeInv, NEW H, Recorded(H), NEW m \in msgs,
         RejectAppend(m) \/ MismatchAppend(m) \/ HandleAppendResp(m)
  PROVE  /\ Quiet(H)
         /\ (HandleAppendResp(m) /\ AppendRespSuccess(m)) \/ UNCHANGED match_index
<1> USE DEF TypeInv
<1> DEFINE n == m.to
<1>1. n \in Node /\ m.term \in Nat /\ m.from \in Node
  BY MessageKinds DEF TypeOK
<1>2. CASE RejectAppend(m)
  <2>1. UNCHANGED <<leaders, role, in_pre_vote, current_term, log, match_index>>
    BY <1>2 DEF RejectAppend, termVars, roleVars, peerVars, history, logVars
  <2>2. msgs' \subseteq msgs \cup {AppendResp(m, current_term[n], FALSE, 0)}
    BY <1>2, RepliedMsgs DEF RejectAppend
  <2>3. /\ AppendResp(m, current_term[n], FALSE, 0).type = "AppendResp"
        /\ ~AppendResp(m, current_term[n], FALSE, 0).success
    BY DEF AppendResp
  <2> QED
    BY <2>1, <2>2, <2>3, SameQuiet DEF Quiet
<1>3. CASE MismatchAppend(m)
  <2>1. UNCHANGED <<leaders, log, match_index>>
    BY <1>3 DEF MismatchAppend, peerVars, history, logVars
  <2>2. NoNewLeader
    BY <1>1, <1>3, <2>1, FollowerQuiet DEF MismatchAppend
  <2>3. msgs' \subseteq msgs \cup {AppendResp(m, m.term, FALSE, 0)}
    BY <1>3, RepliedMsgs DEF MismatchAppend
  <2>4. /\ AppendResp(m, m.term, FALSE, 0).type = "AppendResp"
        /\ ~AppendResp(m, m.term, FALSE, 0).success
    BY DEF AppendResp
  <2> QED
    BY <2>1, <2>2, <2>3, <2>4 DEF Quiet
<1>4. CASE HandleAppendResp(m) /\ AppendRespStepDown(m)
  <2>1. UNCHANGED <<leaders, log, match_index>>
    BY <1>4 DEF HandleAppendResp, AppendRespStepDown, peerVars, history, logVars
  <2>2. NoNewLeader
    BY <1>1, <1>4, <2>1, FollowerQuiet DEF AppendRespStepDown
  <2>3. msgs' \subseteq msgs
    BY <1>4, RepliedMsgs DEF AppendRespStepDown
  <2> QED
    BY <2>1, <2>2, <2>3 DEF Quiet
<1>5. CASE HandleAppendResp(m) /\ AppendRespSuccess(m)
  <2>1. UNCHANGED <<leaders, role, in_pre_vote, current_term, log>>
    BY <1>5 DEF HandleAppendResp, AppendRespSuccess, termVars, roleVars, history
  <2>2. msgs' \subseteq msgs
    BY <1>5, RepliedMsgs DEF AppendRespSuccess
  <2> QED
    BY <1>5, <2>1, <2>2, SameQuiet DEF Quiet
<1>6. CASE HandleAppendResp(m) /\ AppendRespBackOff(m)
  <2> DEFINE next == next_index[n][m.from] - 1
             x == AppendMsg(n, m.from, log[n], current_term[n], next, commit_index[n])
  <2>1. UNCHANGED <<leaders, role, in_pre_vote, current_term, log, match_index>>
    BY <1>6 DEF HandleAppendResp, AppendRespBackOff, termVars, roleVars, history, logVars
  <2>2. msgs' \subseteq msgs \cup {x}
    BY <1>6, RepliedMsgs DEF AppendRespBackOff
  <2>3. role[n] = "leader" /\ next \in Nat \ {0}
    <3>1. next_index[n][m.from] \in Nat /\ next_index[n][m.from] > 1
      BY <1>1, <1>6 DEF AppendRespBackOff, TypeOK
    <3> QED
      BY <1>6, <3>1 DEF AppendRespBackOff
  <2> HIDE DEF next
  <2>4. CarriesRecord(x, H) /\ x.type = "Append"
    BY <1>1, <2>3, SendsLog DEF AppendMsg
  <2> QED
    BY <2>1, <2>2, <2>4, SameQuiet DEF Quiet
<1> QED
  BY <1>2, <1>3, <1>4, <1>5, <1>6 DEF HandleAppendResp

\* handle_append_resp of a reply of the leader's own term: the member holds what it says.
LEMMA SuccessMatched ==
  ASSUME StaleReplies = {}, TypeInv, TypeInv', NEW H, Recorded(H), Matched(H),
         NEW m \in msgs, Outlived(m) \subseteq StaleReplies,
         HandleAppendResp(m), AppendRespSuccess(m), Quiet(H)
  PROVE  Matched(H)'
<1> USE DEF TypeInv
<1> DEFINE n == m.to
           p == m.from
           best == IF m.match_index > match_index[n][p] THEN m.match_index
                   ELSE match_index[n][p]
<1>1. n \in Node /\ m.term \in Nat /\ p \in Node
  BY MessageKinds DEF TypeOK
<1>2. /\ m.type = "AppendResp" /\ m.success /\ m.term <= current_term[n]
      /\ role[n] = "leader"
      /\ match_index' = [match_index EXCEPT ![n] = [match_index[n] EXCEPT ![p] = best]]
      /\ UNCHANGED <<current_term, role>>
  BY DEF HandleAppendResp, AppendRespSuccess, termVars, roleVars
<1>3. m.term = current_term[n]
  <2>1. "append" \notin Outlived(m)
    OBVIOUS
  <2>2. ~(m.term < current_term[n])
    BY <1>2, <2>1 DEF Outlived
  <2>3. current_term[n] \in Nat
    BY <1>1 DEF TypeOK
  <2> QED
    BY <1>1, <1>2, <2>2, <2>3
<1>4. /\ m.term <= current_term[p]
      /\ m.term = current_term[p] => Holds(log[p], H[m.term], m.match_index)
  BY <1>2 DEF Matched
<1>5. ASSUME NEW x \in Node, NEW y \in Node
      PROVE  \/ match_index'[x][y] = match_index[x][y]
             \/ /\ current_term[y] >= current_term[x]
                /\ current_term[y] = current_term[x] =>
                     Holds(log[y], H[current_term[x]], match_index'[x][y])
  <2>1. match_index \in [Node -> [Node -> Nat]]
    BY DEF TypeOK
  <2>2. CASE x # n \/ y # p
    BY <1>1, <1>2, <2>1, <2>2
  <2>3. CASE x = n /\ y = p
    <3>1. match_index'[n][p] = best
      BY <1>1, <1>2, <2>1
    <3>2. CASE best = match_index[n][p]
      BY <2>3, <3>1, <3>2
    <3>3. CASE best = m.match_index
      <4>1. current_term[p] >= current_term[n]
        BY <1>1, <1>3, <1>4 DEF TypeOK
      <4> QED
        BY <1>3, <1>4, <2>3, <3>1, <3>3, <4>1
    <3> QED
      BY <3>2, <3>3
  <2> QED
    BY <2>2, <2>3
<1>6. \A r \in msgs' : r \in msgs \/ ~(r.type = "AppendResp" /\ r.success)
  BY DEF Quiet
<1>7. NoNewLeader /\ UNCHANGED log /\ H \in Records
  BY DEF Quiet, Recorded
<1> QED
  BY <1>5, <1>6, <1>7, QuietMatched

-----------------------------------------------------------------------------
(* handle_append that writes the log. *)

\* Nothing is on record for term 0.
LEMMA NothingAtZero ==
  ASSUME NEW H, Recorded(H), LeadersKnown, TypeOK
  PROVE  H[0] = <<>>
<1>1. \A l \in leaders : l[1] # 0
  BY DEF LeadersKnown, TypeOK
<1> QED
  BY <1>1 DEF Recorded

\* The message of an accepted batch and the log it comes to.
LEMMA AcceptMerges ==
  ASSUME TypeInv, NEW H, Recorded(H), LeadersKnown, NEW m \in msgs, AcceptAppend(m)
  PROVE  MayMerge(H, log[m.to], m)
<1>1. m.type = "Append" /\ m \in AppendMessage /\ m.to \in Node /\ LogMatches(log[m.to], m)
  BY MessageKinds DEF AcceptAppend, TypeInv, TypeOK
<1>2. H[0] = <<>>
  BY NothingAtZero DEF TypeInv
<1> QED
  BY <1>1, <1>2 DEF MayMerge, Recorded, TypeInv, TypeOK

\* What AcceptAppend changes.
LEMMA AcceptEffects ==
  ASSUME TypeInv, NEW m \in msgs, AcceptAppend(m)
  PROVE  LET n == m.to
             new == Merged(log[n], m.prev_log_index, m.entries)
         IN  /\ n \in Node /\ m.from \in Node /\ m.term \in Nat
             /\ m.term >= current_term[n] /\ current_term'[n] = m.term
             /\ role'[n] = "follower" /\ log'[n] = new
             /\ \A p \in Node \ {n} : /\ log'[p] = log[p] /\ role'[p] = role[p]
                                      /\ current_term'[p] = current_term[p]
             /\ msgs' \subseteq msgs \cup
                  {AppendResp(m, m.term, TRUE, m.prev_log_index + Len(m.entries))}
             /\ UNCHANGED <<match_index, leaders>>
             /\ NoNewLeader
<1> DEFINE n == m.to
           new == Merged(log[n], m.prev_log_index, m.entries)
<1> USE DEF TypeInv
<1>1. n \in Node /\ m.from \in Node /\ m.term \in Nat /\ current_term[n] \in Nat
  BY MessageKinds DEF TypeOK
<1>2. /\ BecomeFollower(n, m.term, m.from) /\ m.term >= current_term[n]
      /\ log' = [log EXCEPT ![n] = new]
      /\ UNCHANGED <<match_index, leaders>>
  BY DEF AcceptAppend, peerVars, history
<1>3. msgs' \subseteq msgs \cup
        {AppendResp(m, m.term, TRUE, m.prev_log_index + Len(m.entries))}
  BY RepliedMsgs DEF AcceptAppend
<1>4. NoNewLeader
  BY <1>1, <1>2, FollowerQuiet
<1> HIDE DEF new
<1>5. /\ current_term'[n] = m.term /\ role'[n] = "follower" /\ log'[n] = new
      /\ \A p \in Node \ {n} : /\ log'[p] = log[p] /\ role'[p] = role[p]
                               /\ current_term'[p] = current_term[p]
  BY <1>1, <1>2 DEF BecomeFollower, TypeOK
<1> QED
  BY <1>1, <1>2, <1>3, <1>4, <1>5 DEF new

\* The record stays the same.
LEMMA AcceptRecord ==
  ASSUME TypeInv, NEW H, Recorded(H), LeadersKnown, NEW m \in msgs, AcceptAppend(m)
  PROVE  Recorded(H)'
<1> DEFINE n == m.to
           new == Merged(log[n], m.prev_log_index, m.entries)
<1>1. /\ n \in Node /\ role'[n] = "follower" /\ log'[n] = new
      /\ \A p \in Node \ {n} : /\ log'[p] = log[p] /\ role'[p] = role[p]
                               /\ current_term'[p] = current_term[p]
      /\ msgs' \subseteq msgs \cup
           {AppendResp(m, m.term, TRUE, m.prev_log_index + Len(m.entries))}
      /\ UNCHANGED leaders
  BY AcceptEffects
<1>2. OnRecord(new, H) /\ Len(new) <= RAFT_MAX_LOG
  BY AcceptMerges, MergedOnRecord
<1>3. \A r \in msgs' : r.type = "Append" => r \in msgs
  <2>1. AppendResp(m, m.term, TRUE, m.prev_log_index + Len(m.entries)).type = "AppendResp"
    BY DEF AppendResp
  <2> QED
    BY <1>1, <2>1
<1> HIDE DEF n, new
<1>4. \A p \in Node : OnRecord(log'[p], H) /\ Len(log'[p]) <= RAFT_MAX_LOG
  BY <1>1, <1>2 DEF Recorded
<1>5. \A p \in Node : role'[p] = "leader" => H[current_term'[p]] = log'[p]
  BY <1>1 DEF Recorded
<1> QED
  BY <1>1, <1>3, <1>4, <1>5 DEF Recorded

\* And what is known of the members stays true.
LEMMA AcceptMatched ==
  ASSUME TypeInv, NEW H, Recorded(H), LeadersKnown, Matched(H), NEW m \in msgs,
         AcceptAppend(m)
  PROVE  Matched(H)'
<1> DEFINE n == m.to
           new == Merged(log[n], m.prev_log_index, m.entries)
           last == m.prev_log_index + Len(m.entries)
           resp == AppendResp(m, m.term, TRUE, last)
<1>1. /\ n \in Node /\ m.from \in Node /\ m.term \in Nat
      /\ m.term >= current_term[n] /\ current_term'[n] = m.term
      /\ role'[n] = "follower" /\ log'[n] = new
      /\ \A p \in Node \ {n} : /\ log'[p] = log[p] /\ role'[p] = role[p]
                               /\ current_term'[p] = current_term[p]
      /\ msgs' \subseteq msgs \cup {resp}
      /\ UNCHANGED match_index
  BY AcceptEffects
<1>2. /\ Holds(new, H[m.term], last)
      /\ \A c \in Nat : Holds(log[n], H[m.term], c) => Holds(new, H[m.term], c)
  BY AcceptMerges, MergedOnRecord
<1>3. resp.from = n /\ resp.term = m.term /\ resp.match_index = last
  BY DEF AppendResp
<1>4. /\ \A p \in Node : current_term[p] \in Nat
      /\ \A x, y \in Node : match_index[x][y] \in Nat
      /\ msgs \subseteq Message
  BY DEF TypeInv, TypeOK
<1>5. Holds(new, H[m.term], 0)
  <2>1. new \in Seq(Entry) /\ H[m.term] \in Seq(Entry)
    <3>1. MayMerge(H, log[n], m)
      BY AcceptMerges
    <3>2. new \in Seq(Entry)
      BY <3>1, MergedType DEF MayMerge, AppendMessage, LogMatches
    <3> QED
      BY <1>1, <3>1, <3>2, RecordAt DEF MayMerge
  <2> HIDE DEF new
  <2>2. Len(new) \in Nat /\ Len(H[m.term]) \in Nat
    BY <2>1
  <2> QED
    BY <2>2 DEF Holds
<1> HIDE DEF n, new, last, resp
<1>6. ASSUME NEW r \in msgs', r.type = "AppendResp", r.success
      PROVE  /\ r.term <= current_term'[r.from]
             /\ r.term = current_term'[r.from] => Holds(log'[r.from], H[r.term], r.match_index)
  <2>1. CASE r = resp
    BY <1>1, <1>2, <1>3, <2>1
  <2>2. CASE r \in msgs
    <3>1. r.from \in Node /\ r.term \in Nat /\ r.match_index \in Nat
      BY <1>4, <1>6, <2>2, MessageKinds DEF AppendRespMsg
    <3>2. /\ r.term <= current_term[r.from]
          /\ r.term = current_term[r.from] => Holds(log[r.from], H[r.term], r.match_index)
      BY <1>6, <2>2 DEF Matched
    <3>3. CASE r.from # n
      BY <1>1, <3>1, <3>2, <3>3
    <3>4. CASE r.from = n
      <4>1. r.term <= m.term /\ (r.term = m.term => r.term = current_term[n])
        BY <1>1, <1>4, <3>1, <3>2, <3>4
      <4> QED
        BY <1>1, <1>2, <3>1, <3>2, <3>4, <4>1
    <3> QED
      BY <3>3, <3>4
  <2> QED
    BY <1>1, <2>1, <2>2
<1>7. ASSUME NEW x \in Node, NEW p \in Node, role'[x] = "leader"
      PROVE  /\ current_term'[p] < current_term'[x] => match_index'[x][p] = 0
             /\ current_term'[p] = current_term'[x] =>
                  Holds(log'[p], H[current_term'[x]], match_index'[x][p])
  <2>1. /\ x # n /\ role[x] = "leader" /\ current_term'[x] = current_term[x]
        /\ match_index'[x][p] = match_index[x][p]
    BY <1>1, <1>7
  <2>2. /\ current_term[p] < current_term[x] => match_index[x][p] = 0
        /\ current_term[p] = current_term[x] =>
             Holds(log[p], H[current_term[x]], match_index[x][p])
    BY <2>1 DEF Matched
  <2>3. CASE p # n
    BY <1>1, <2>1, <2>2, <2>3
  <2>4. CASE p = n
    <3>1. m.term < current_term[x] => match_index[x][n] = 0
      BY <1>1, <1>4, <2>2, <2>4
    <3>2. ASSUME m.term = current_term[x]
          PROVE  Holds(new, H[m.term], match_index[x][n])
      <4>1. CASE current_term[n] < current_term[x]
        BY <1>5, <2>2, <2>4, <4>1
      <4>2. CASE current_term[n] = current_term[x]
        BY <1>2, <1>4, <2>2, <2>4, <3>2, <4>2
      <4> QED
        BY <1>1, <1>4, <3>2, <4>1, <4>2
    <3> QED
      BY <1>1, <2>1, <2>4, <3>1, <3>2
  <2> QED
    BY <2>3, <2>4
<1> QED
  BY <1>6, <1>7 DEF Matched

-----------------------------------------------------------------------------
(* Steps at which the record of a term grows. *)

\* The record with lg for term t.
With(H, t, lg) == [H EXCEPT ![t] = lg]

\* The record of t is continued by lg.
LEMMA RecordGrows ==
  ASSUME NEW H \in Records, NEW t \in Nat, NEW lg \in Seq(Entry), Begins(H[t], lg)
  PROVE  /\ With(H, t, lg) \in Records
         /\ With(H, t, lg)[t] = lg
         /\ \A u \in Nat : u # t => With(H, t, lg)[u] = H[u]
         /\ \A u \in Nat : Begins(H[u], With(H, t, lg)[u])
<1>1. /\ With(H, t, lg) \in Records
      /\ With(H, t, lg)[t] = lg
      /\ \A u \in Nat : u # t => With(H, t, lg)[u] = H[u]
  BY DEF With, Records
<1>2. \A u \in Nat : Begins(H[u], H[u])
  BY RecordAt DEF Begins
<1> QED
  BY <1>1, <1>2

\* A log that is on record but for its last entry, whose record it becomes.
LEMMA AppendedOnRecord ==
  ASSUME NEW H \in Records, NEW t \in Nat, NEW lg \in Seq(Entry), OnRecord(lg, H),
         NEW e \in Entry, e.term = t, H[t] = Append(lg, e)
  PROVE  OnRecord(Append(lg, e), H)
<1> DEFINE new == Append(lg, e)
<1>1. /\ new \in Seq(Entry) /\ Len(new) = Len(lg) + 1 /\ new[Len(lg) + 1] = e
      /\ \A i \in 1..Len(lg) : new[i] = lg[i]
  BY AppendProperties
<1>2. Len(lg) \in Nat
  OBVIOUS
<1> HIDE DEF new
<1>3. ASSUME NEW i \in 1..Len(new)
      PROVE  /\ i <= Len(H[new[i].term])
             /\ \A j \in 1..i : new[j] = H[new[i].term][j]
  <2>1. CASE i <= Len(lg)
    <3>1. i \in 1..Len(lg) /\ \A j \in 1..i : j \in 1..Len(lg)
      BY <1>1, <1>2, <2>1
    <3>2. new[i] = lg[i] /\ \A j \in 1..i : new[j] = lg[j]
      BY <1>1, <3>1
    <3> QED
      BY <3>1, <3>2 DEF OnRecord
  <2>2. CASE i = Len(lg) + 1
    <3>1. new[i].term = t
      BY <1>1, <2>2
    <3>2. H[t] = new
      BY DEF new
    <3> QED
      BY <1>1, <1>2, <2>2, <3>1, <3>2
  <2> QED
    BY <1>1, <1>2, <2>1, <2>2
<1> QED
  BY <1>3 DEF OnRecord, new

\* What is held of a record is held of one that continues it.
LEMMA HoldsGrown ==
  ASSUME NEW s, NEW h \in Seq(Entry), NEW g \in Seq(Entry), NEW k \in Nat,
         Begins(h, g), Holds(s, h, k)
  PROVE  Holds(s, g, k)
<1>1. Len(h) \in Nat /\ Len(g) \in Nat /\ Len(h) <= Len(g)
  BY DEF Begins
<1>2. k <= Len(s) /\ k <= Len(h) /\ \A i \in 1..k : s[i] = h[i]
  BY DEF Holds
<1>3. \A i \in 1..k : i \in 1..Len(h)
  BY <1>1, <1>2
<1>4. \A i \in 1..k : s[i] = g[i]
  BY <1>2, <1>3 DEF Begins
<1> QED
  BY <1>1, <1>2, <1>4 DEF Holds

\* So does a log that continues the one that holds it.
LEMMA HeldGrown ==
  ASSUME NEW s \in Seq(Entry), NEW r \in Seq(Entry), NEW g, NEW k \in Nat,
         Begins(s, r), Holds(s, g, k)
  PROVE  Holds(r, g, k)
<1>1. Len(s) \in Nat /\ Len(r) \in Nat /\ Len(s) <= Len(r)
  BY DEF Begins
<1>2. k <= Len(s) /\ k <= Len(g) /\ \A i \in 1..k : s[i] = g[i]
  BY DEF Holds
<1>3. \A i \in 1..k : i \in 1..Len(s)
  BY <1>1, <1>2
<1>4. \A i \in 1..k : r[i] = g[i]
  BY <1>2, <1>3 DEF Begins
<1> QED
  BY <1>1, <1>2, <1>4 DEF Holds

\* Node n, leader of term t after the step, has written lg, which continues its old log
\* and the record of t; no other log changed; n is the only leader of t; and what was
\* sent is from lg.
Writes(H, n, t, lg) ==
  /\ n \in Node /\ t \in Nat /\ t > 0 /\ lg \in Seq(Entry)
  /\ Len(lg) <= RAFT_MAX_LOG
  /\ Begins(H[t], lg) /\ Begins(log[n], lg)
  /\ OnRecord(lg, With(H, t, lg))
  /\ log' = [log EXCEPT ![n] = lg]
  /\ leaders' = leaders \cup {<<t, n>>}
  /\ role'[n] = "leader" /\ current_term'[n] = t /\ current_term[n] <= t
  /\ \A p \in Node \ {n} : role'[p] = role[p] /\ current_term'[p] = current_term[p]
  /\ \A p \in Node \ {n} : role[p] = "leader" => current_term[p] # t
  /\ \A m \in msgs' : m \in msgs
       \/ \E p, c : \E next \in Nat \ {0} : m = AppendMsg(n, p, lg, t, next, c)

\* The record then has lg for t.
LEMMA WritesRecord ==
  ASSUME TypeOK, NEW H, Recorded(H), NEW n, NEW t, NEW lg, Writes(H, n, t, lg)
  PROVE  Recorded(With(H, t, lg))'
<1> DEFINE G == With(H, t, lg)
<1>1. /\ H \in Records /\ t \in Nat /\ n \in Node /\ lg \in Seq(Entry)
      /\ Begins(H[t], lg) /\ Len(lg) <= RAFT_MAX_LOG
  BY DEF Recorded, Writes
<1>2. /\ G \in Records /\ G[t] = lg
      /\ \A u \in Nat : u # t => G[u] = H[u]
      /\ \A u \in Nat : Begins(H[u], G[u])
  BY <1>1, RecordGrows
<1>3. OnRecord(lg, G)
  BY DEF Writes
<1> HIDE DEF G
<1>4. \A u \in Nat : (\A l \in leaders' : l[1] # u) => G[u] = <<>>
  <2> TAKE u \in Nat
  <2> HAVE \A l \in leaders' : l[1] # u
  <2>1. leaders' = leaders \cup {<<t, n>>}
    BY DEF Writes
  <2>2. u # t /\ \A l \in leaders : l[1] # u
    <3>1. <<t, n>> \in leaders' /\ <<t, n>>[1] = t
      BY <2>1
    <3> QED
      BY <2>1, <3>1
  <2> QED
    BY <1>2, <2>2 DEF Recorded
<1>5. \A u \in Nat : OnRecord(G[u], G) /\ Len(G[u]) <= RAFT_MAX_LOG
  <2> TAKE u \in Nat
  <2>1. CASE u = t
    BY <1>1, <1>2, <1>3, <2>1
  <2>2. CASE u # t
    <3>1. OnRecord(H[u], H) /\ Len(H[u]) <= RAFT_MAX_LOG /\ H[u] \in Seq(Entry)
      BY <1>1, RecordAt DEF Recorded
    <3>2. OnRecord(H[u], G)
      BY <1>1, <1>2, <3>1, GrowingRecord
    <3> QED
      BY <1>2, <2>2, <3>1, <3>2
  <2> QED
    BY <2>1, <2>2
<1>6. /\ log'[n] = lg
      /\ \A p \in Node \ {n} : log'[p] = log[p]
  BY <1>1 DEF Writes, TypeOK
<1>7. \A p \in Node : OnRecord(log'[p], G) /\ Len(log'[p]) <= RAFT_MAX_LOG
  <2> TAKE p \in Node
  <2>1. CASE p = n
    BY <1>1, <1>3, <1>6, <2>1
  <2>2. CASE p # n
    <3>1. OnRecord(log[p], H) /\ Len(log[p]) <= RAFT_MAX_LOG /\ log[p] \in Seq(Entry)
      BY DEF Recorded, TypeOK
    <3>2. OnRecord(log[p], G)
      BY <1>1, <1>2, <3>1, GrowingRecord
    <3> QED
      BY <1>6, <2>2, <3>1, <3>2
  <2> QED
    BY <2>1, <2>2
<1>8. \A p \in Node : role'[p] = "leader" => G[current_term'[p]] = log'[p]
  <2> TAKE p \in Node
  <2> HAVE role'[p] = "leader"
  <2>1. CASE p = n
    BY <1>2, <1>6, <2>1 DEF Writes
  <2>2. CASE p # n
    <3>1. role[p] = "leader" /\ current_term'[p] = current_term[p] /\ current_term[p] # t
      BY <2>2 DEF Writes
    <3>2. current_term[p] \in Nat
      BY DEF TypeOK
    <3> QED
      BY <1>2, <1>6, <2>2, <3>1, <3>2 DEF Recorded
  <2> QED
    BY <2>1, <2>2
<1>9. \A m \in msgs' : m.type = "Append" => CarriesRecord(m, G)
  <2> TAKE m \in msgs'
  <2> HAVE m.type = "Append"
  <2>1. CASE m \in msgs
    <3>1. m \in AppendMessage /\ CarriesRecord(m, H)
      BY <2>1, MessageKinds DEF TypeOK, Recorded
    <3> QED
      BY <1>1, <1>2, <3>1, GrowingWire
  <2>2. CASE \E p, c : \E next \in Nat \ {0} : m = AppendMsg(n, p, lg, t, next, c)
    <3>1. PICK p, c : \E next \in Nat \ {0} : m = AppendMsg(n, p, lg, t, next, c)
      BY <2>2
    <3>2. PICK next \in Nat \ {0} : m = AppendMsg(n, p, lg, t, next, c)
      BY <3>1
    <3> QED
      BY <1>1, <1>2, <3>2, SendsRecord
  <2> QED
    BY <2>1, <2>2 DEF Writes
<1> QED
  BY <1>2, <1>4, <1>5, <1>7, <1>8, <1>9 DEF Recorded, G

\* What is known of the members stays true: no member's log lost anything, and the
\* writer, once it leads, knows nothing but its own log or what it knew.
LEMMA WritesMatched ==
  ASSUME TypeOK, NEW H, Recorded(H), Matched(H), NEW n, NEW t, NEW lg,
         Writes(H, n, t, lg),
         \A x, p \in Node : role'[x] = "leader" =>
           \/ match_index'[x][p] = 0
           \/ x = n /\ p = n /\ match_index'[x][p] = Len(lg)
           \/ role[x] = "leader" /\ current_term'[x] = current_term[x]
              /\ match_index'[x][p] = match_index[x][p]
  PROVE  Matched(With(H, t, lg))'
<1> DEFINE G == With(H, t, lg)
<1>1. /\ H \in Records /\ t \in Nat /\ n \in Node /\ lg \in Seq(Entry)
      /\ Begins(H[t], lg) /\ Len(lg) \in Nat
  BY DEF Recorded, Writes
<1>2. /\ G \in Records /\ G[t] = lg
      /\ \A u \in Nat : Begins(H[u], G[u])
  BY <1>1, RecordGrows
<1> HIDE DEF G
<1>3. /\ log'[n] = lg
      /\ \A p \in Node \ {n} : log'[p] = log[p]
  BY <1>1 DEF Writes, TypeOK
<1>4. /\ \A p \in Node : current_term[p] \in Nat /\ current_term'[p] \in Nat
      /\ \A p \in Node : current_term[p] <= current_term'[p]
      /\ \A x, y \in Node : match_index[x][y] \in Nat
      /\ msgs \subseteq Message
      /\ \A p \in Node : log[p] \in Seq(Entry) /\ Begins(log[p], log'[p])
      /\ \A p \in Node : log'[p] \in Seq(Entry)
  <2>1. \A p \in Node : current_term[p] \in Nat /\ log[p] \in Seq(Entry)
    BY DEF TypeOK
  <2>2. \A p \in Node : current_term'[p] \in Nat /\ current_term[p] <= current_term'[p]
    BY <2>1 DEF Writes
  <2>3. \A p \in Node : Begins(log[p], log'[p]) /\ log'[p] \in Seq(Entry)
    <3> TAKE p \in Node
    <3>1. CASE p = n
      BY <1>1, <1>3, <3>1 DEF Writes
    <3>2. CASE p # n
      <4>1. log'[p] = log[p] /\ Len(log[p]) \in Nat
        BY <1>3, <2>1, <3>2
      <4> QED
        BY <2>1, <4>1 DEF Begins
    <3> QED
      BY <3>1, <3>2
  <2> QED
    BY <2>1, <2>2, <2>3 DEF TypeOK
<1>5. ASSUME NEW p \in Node, NEW u \in Nat, NEW k \in Nat, Holds(log[p], H[u], k)
      PROVE  Holds(log'[p], G[u], k)
  <2>1. H[u] \in Seq(Entry) /\ G[u] \in Seq(Entry)
    BY <1>1, <1>2, RecordAt
  <2>2. Holds(log[p], G[u], k)
    BY <1>2, <1>5, <2>1, HoldsGrown
  <2> QED
    BY <1>4, <2>2, HeldGrown
<1>6. ASSUME NEW p \in Node, NEW u \in Nat
      PROVE  Holds(log'[p], G[u], 0)
  <2>1. Len(log'[p]) \in Nat /\ Len(G[u]) \in Nat
    BY <1>2, <1>4, RecordAt
  <2> QED
    BY <2>1 DEF Holds
<1>7. ASSUME NEW r \in msgs', r.type = "AppendResp", r.success
      PROVE  /\ r.term <= current_term'[r.from]
             /\ r.term = current_term'[r.from] => Holds(log'[r.from], G[r.term], r.match_index)
  <2>1. r \in msgs
    <3>1. \A p, c, next : AppendMsg(n, p, lg, t, next, c).type = "Append"
      BY DEF AppendMsg
    <3> QED
      BY <1>7, <3>1 DEF Writes
  <2>2. r.from \in Node /\ r.term \in Nat /\ r.match_index \in Nat
    BY <1>4, <1>7, <2>1, MessageKinds DEF AppendRespMsg
  <2>3. /\ r.term <= current_term[r.from]
        /\ r.term = current_term[r.from] => Holds(log[r.from], H[r.term], r.match_index)
    BY <1>7, <2>1 DEF Matched
  <2>4. r.term <= current_term'[r.from]
    BY <1>4, <2>2, <2>3
  <2>5. ASSUME r.term = current_term'[r.from]
        PROVE  r.term = current_term[r.from]
    BY <1>4, <2>2, <2>3, <2>5
  <2> QED
    BY <1>5, <2>2, <2>3, <2>4, <2>5
<1>8. ASSUME NEW x \in Node, NEW p \in Node, role'[x] = "leader"
      PROVE  /\ current_term'[p] < current_term'[x] => match_index'[x][p] = 0
             /\ current_term'[p] = current_term'[x] =>
                  Holds(log'[p], G[current_term'[x]], match_index'[x][p])
  <2>1. CASE match_index'[x][p] = 0
    BY <1>4, <1>6, <2>1
  <2>2. CASE x = n /\ p = n /\ match_index'[x][p] = Len(lg)
    <3>1. Holds(lg, lg, Len(lg))
      BY <1>1 DEF Holds
    <3>2. current_term'[n] = t
      BY DEF Writes
    <3> QED
      BY <1>1, <1>2, <1>3, <2>2, <3>1, <3>2
  <2>3. CASE role[x] = "leader" /\ current_term'[x] = current_term[x]
             /\ match_index'[x][p] = match_index[x][p]
    <3>1. /\ current_term[p] < current_term[x] => match_index[x][p] = 0
          /\ current_term[p] = current_term[x] =>
               Holds(log[p], H[current_term[x]], match_index[x][p])
      BY <2>3 DEF Matched
    <3>2. CASE current_term[p] < current_term[x]
      BY <1>4, <1>6, <2>3, <3>1, <3>2
    <3>3. CASE current_term[p] = current_term[x]
      <4>1. Holds(log'[p], G[current_term[x]], match_index[x][p])
        BY <1>4, <1>5, <3>1, <3>3
      <4> QED
        BY <1>4, <2>3, <3>3, <4>1
    <3>4. CASE current_term[p] > current_term[x]
      BY <1>4, <2>3, <3>4
    <3> QED
      BY <1>4, <3>2, <3>3, <3>4
  <2> QED
    BY <1>8, <2>1, <2>2, <2>3
<1> QED
  BY <1>7, <1>8 DEF Matched, G

\* A node wins term t: it has never led in t, and nobody else does.
WinsTerm(n, t) ==
  /\ n \in Node /\ t \in Nat /\ t > 0
  /\ BecomeLeader(n, t)
  /\ t > current_term[n] \/ (t = current_term[n] /\ InRealRound(n))
  /\ current_term' = [current_term EXCEPT ![n] = t]
  /\ msgs' \subseteq msgs \cup FirstAppends(n, t)

\* Nobody has led in a term that is won.
LEMMA NeverLed ==
  ASSUME TypeOK, ElectionInv', LeadersKnown, NEW n, NEW t, WinsTerm(n, t)
  PROVE  \A l \in leaders : l[1] # t
<1> SUFFICES ASSUME NEW l \in leaders, l[1] = t
             PROVE  FALSE
  OBVIOUS
<1>1. leaders' = leaders \cup {<<t, n>>}
  BY DEF WinsTerm, BecomeLeader
<1>2. ElectionSafety'
  <2>1. (ElectionInv => ElectionSafety)'
    BY OneLeaderPerTerm, PTL
  <2> QED
    BY <2>1
<1>3. l[2] = n
  <2>1. l \in leaders' /\ <<t, n>> \in leaders'
    BY <1>1
  <2>2. \A a, b \in leaders' : a[1] = b[1] => a[2] = b[2]
    BY <1>2 DEF ElectionSafety
  <2> QED
    BY <2>1, <2>2
<1>4. t <= current_term[n] /\ (t = current_term[n] => ~InRealRound(n))
  BY <1>3 DEF LeadersKnown
<1>5. t \in Nat /\ current_term[n] \in Nat
  BY DEF WinsTerm, TypeOK
<1> QED
  BY <1>4, <1>5 DEF WinsTerm

\* become_leader writes its NOOP, if there is room.
LEMMA LeadWrites ==
  ASSUME TypeInv, ElectionInv', LeadersKnown, NEW H, Recorded(H), NEW n, NEW t,
         WinsTerm(n, t)
  PROVE  /\ Writes(H, n, t, LogWithNoop(n, t))
         /\ LeadersKnown'
         /\ \A x, p \in Node : role'[x] = "leader" =>
              \/ match_index'[x][p] = 0
              \/ x = n /\ p = n /\ match_index'[x][p] = Len(LogWithNoop(n, t))
              \/ role[x] = "leader" /\ current_term'[x] = current_term[x]
                 /\ match_index'[x][p] = match_index[x][p]
<1> DEFINE lg == LogWithNoop(n, t)
           e == [term |-> t, cmd |-> NOOP]
<1>1. /\ n \in Node /\ t \in Nat /\ t > 0 /\ log[n] \in Seq(Entry) /\ Len(log[n]) \in Nat
      /\ H \in Records /\ Len(log[n]) <= RAFT_MAX_LOG /\ OnRecord(log[n], H)
      /\ current_term[n] \in Nat /\ current_term[n] <= t
  BY DEF WinsTerm, TypeInv, TypeOK, Recorded
<1>2. \A l \in leaders : l[1] # t
  BY NeverLed DEF TypeInv
<1>3. H[t] = <<>>
  BY <1>1, <1>2 DEF Recorded
<1>4. lg \in Seq(Entry)
  BY <1>1, LogWithNoopType DEF TypeInv
<1>5. e \in Entry /\ e.term = t
  BY <1>1 DEF Entry
<1> HIDE DEF e
<1>6. Begins(log[n], lg) /\ Len(lg) <= RAFT_MAX_LOG
  <2>1. CASE Len(log[n]) < RAFT_MAX_LOG
    <3>1. lg = Append(log[n], e)
      BY <2>1 DEF LogWithNoop, e
    <3>2. /\ Len(lg) = Len(log[n]) + 1
          /\ \A i \in 1..Len(log[n]) : lg[i] = log[n][i]
      BY <1>1, <1>5, <3>1, AppendProperties
    <3> HIDE DEF lg
    <3> QED
      BY <1>1, <2>1, <3>2, BoundAssumption DEF Begins
  <2>2. CASE ~(Len(log[n]) < RAFT_MAX_LOG)
    <3>1. lg = log[n]
      BY <2>2 DEF LogWithNoop
    <3> HIDE DEF lg
    <3> QED
      BY <1>1, <3>1 DEF Begins
  <2> QED
    BY <2>1, <2>2
<1>7. Begins(H[t], lg)
  <2> HIDE DEF lg
  <2>1. Len(H[t]) = 0 /\ Len(lg) \in Nat
    BY <1>3, <1>4
  <2> QED
    BY <2>1 DEF Begins
<1>8. OnRecord(lg, With(H, t, lg))
  <2> DEFINE G == With(H, t, lg)
  <2>1. /\ G \in Records /\ G[t] = lg
        /\ \A u \in Nat : Begins(H[u], G[u])
    <3> HIDE DEF lg
    <3> QED
      BY <1>1, <1>4, <1>7, RecordGrows
  <2>2. OnRecord(log[n], G)
    <3> HIDE DEF G
    <3> QED
      BY <1>1, <2>1, GrowingRecord
  <2>3. CASE Len(log[n]) < RAFT_MAX_LOG
    <3>1. lg = Append(log[n], e)
      BY <2>3 DEF LogWithNoop, e
    <3> HIDE DEF G, lg
    <3>2. OnRecord(lg, G)
      BY <1>1, <1>5, <2>1, <2>2, <3>1, AppendedOnRecord
    <3> QED
      BY <3>2 DEF G
  <2>4. CASE ~(Len(log[n]) < RAFT_MAX_LOG)
    <3>1. lg = log[n]
      BY <2>4 DEF LogWithNoop
    <3> HIDE DEF lg, G
    <3>2. OnRecord(lg, G)
      BY <2>2, <3>1
    <3> QED
      BY <3>2 DEF G
  <2> QED
    BY <2>3, <2>4
<1>9. \A m \in msgs' : m \in msgs
        \/ \E p, c : \E next \in Nat \ {0} : m = AppendMsg(n, p, lg, t, next, c)
  <2> DEFINE next == [p \in Node |-> Len(log[n]) + 1]
  <2>1. ASSUME NEW m \in FirstAppends(n, t)
        PROVE  \E p, c : \E k \in Nat \ {0} : m = AppendMsg(n, p, lg, t, k, c)
    <3>1. PICK p \in Node : m = AppendMsg(n, p, lg, t, next[p], commit_index[n])
      BY DEF FirstAppends, AppendMsgs
    <3>2. next[p] = Len(log[n]) + 1 /\ Len(log[n]) + 1 \in Nat \ {0}
      BY <1>1
    <3> QED
      BY <3>1, <3>2
  <2> QED
    BY <2>1 DEF WinsTerm
<1>10. /\ log' = [log EXCEPT ![n] = lg]
       /\ leaders' = leaders \cup {<<t, n>>}
       /\ role' = [role EXCEPT ![n] = "leader"]
       /\ in_pre_vote' = [in_pre_vote EXCEPT ![n] = FALSE]
       /\ current_term' = [current_term EXCEPT ![n] = t]
       /\ match_index' = [match_index EXCEPT ![n] =
                            [p \in Node |-> IF p = n THEN Len(lg) ELSE 0]]
  BY DEF WinsTerm, BecomeLeader
<1> HIDE DEF lg
<1>11. /\ role'[n] = "leader" /\ current_term'[n] = t
       /\ \A p \in Node \ {n} : /\ role'[p] = role[p] /\ current_term'[p] = current_term[p]
                                /\ in_pre_vote'[p] = in_pre_vote[p]
  BY <1>1, <1>10 DEF TypeInv, TypeOK
<1>12. \A p \in Node \ {n} : role[p] = "leader" => current_term[p] # t
  <2> TAKE p \in Node \ {n}
  <2> HAVE role[p] = "leader"
  <2>1. <<current_term[p], p>> \in leaders
    BY DEF LeadersKnown
  <2> QED
    BY <1>2, <2>1
<1>13. Writes(H, n, t, lg)
  BY <1>1, <1>4, <1>6, <1>7, <1>8, <1>9, <1>10, <1>11, <1>12 DEF Writes
<1>14. LeadersKnown'
  <2>1. ASSUME NEW p \in Node, role'[p] = "leader"
        PROVE  <<current_term'[p], p>> \in leaders'
    BY <1>10, <1>11, <2>1 DEF LeadersKnown
  <2>2. ASSUME NEW l \in leaders'
        PROVE  /\ l[1] > 0 /\ l[1] <= current_term'[l[2]]
               /\ l[1] = current_term'[l[2]] => ~InRealRound(l[2])'
    <3>1. CASE l = <<t, n>>
      BY <1>1, <1>11, <3>1 DEF InRealRound
    <3>2. CASE l \in leaders
      <4>1. /\ l[1] \in Nat /\ l[2] \in Node
            /\ l[1] > 0 /\ l[1] <= current_term[l[2]]
            /\ l[1] = current_term[l[2]] => ~InRealRound(l[2])
        BY <3>2 DEF LeadersKnown, TypeInv, TypeOK
      <4>2. CASE l[2] = n
        BY <1>1, <1>11, <4>1, <4>2 DEF InRealRound
      <4>3. CASE l[2] # n
        BY <1>11, <4>1, <4>3 DEF InRealRound
      <4> QED
        BY <4>2, <4>3
    <3> QED
      BY <1>10, <3>1, <3>2
  <2>3. ASSUME NEW p \in Node, InRealRound(p)'
        PROVE  current_term'[p] > 0
    BY <1>1, <1>11, <2>3 DEF InRealRound, LeadersKnown
  <2> QED
    BY <2>1, <2>2, <2>3 DEF LeadersKnown
<1>15. ASSUME NEW x \in Node, NEW p \in Node, role'[x] = "leader"
       PROVE  \/ match_index'[x][p] = 0
              \/ x = n /\ p = n /\ match_index'[x][p] = Len(lg)
              \/ role[x] = "leader" /\ current_term'[x] = current_term[x]
                 /\ match_index'[x][p] = match_index[x][p]
  BY <1>1, <1>10, <1>11, <1>15 DEF TypeInv, TypeOK
<1> QED
  BY <1>13, <1>14, <1>15 DEF lg

\* raft_propose writes a command of the leader's term.
LEMMA ProposeWrites ==
  ASSUME TypeInv, ElectionInv, LeadersKnown, NEW H, Recorded(H), NEW n \in Node,
         NEW c \in Command, Propose(n, c)
  PROVE  LET lg == Append(log[n], [term |-> current_term[n], cmd |-> c])
         IN  /\ Writes(H, n, current_term[n], lg)
             /\ LeadersKnown'
             /\ \A x, p \in Node : role'[x] = "leader" =>
                  \/ match_index'[x][p] = 0
                  \/ x = n /\ p = n /\ match_index'[x][p] = Len(lg)
                  \/ role[x] = "leader" /\ current_term'[x] = current_term[x]
                     /\ match_index'[x][p] = match_index[x][p]
<1> DEFINE t == current_term[n]
           e == [term |-> t, cmd |-> c]
           lg == Append(log[n], e)
<1>1. /\ t \in Nat /\ log[n] \in Seq(Entry) /\ Len(log[n]) \in Nat
      /\ H \in Records /\ OnRecord(log[n], H)
      /\ role[n] = "leader" /\ Len(log[n]) < RAFT_MAX_LOG
  BY DEF Propose, TypeInv, TypeOK, Recorded
<1>2. <<t, n>> \in leaders /\ t > 0 /\ H[t] = log[n]
  <2>1. <<t, n>> \in leaders
    BY <1>1 DEF LeadersKnown
  <2> QED
    BY <1>1, <2>1 DEF LeadersKnown, Recorded
<1>3. e \in Entry /\ e.term = t
  BY <1>1 DEF Entry
<1> HIDE DEF e, t
<1>4. /\ lg \in Seq(Entry) /\ Len(lg) = Len(log[n]) + 1
      /\ \A i \in 1..Len(log[n]) : lg[i] = log[n][i]
  BY <1>1, <1>3, AppendProperties
<1>5. Len(lg) <= RAFT_MAX_LOG /\ Begins(log[n], lg)
  <2> HIDE DEF lg
  <2> QED
    BY <1>1, <1>4, BoundAssumption DEF Begins
<1>6. OnRecord(lg, With(H, t, lg))
  <2> DEFINE G == With(H, t, lg)
  <2>1. /\ G \in Records /\ G[t] = lg
        /\ \A u \in Nat : Begins(H[u], G[u])
    <3> HIDE DEF lg
    <3> QED
      BY <1>1, <1>2, <1>4, <1>5, RecordGrows
  <2> HIDE DEF G
  <2>2. OnRecord(log[n], G)
    BY <1>1, <2>1, GrowingRecord
  <2>3. OnRecord(lg, G)
    BY <1>1, <1>3, <2>1, <2>2, AppendedOnRecord
  <2> QED
    BY <2>3 DEF G
<1>7. /\ log' = [log EXCEPT ![n] = lg]
      /\ match_index' = [match_index EXCEPT ![n] = [match_index[n] EXCEPT ![n] = Len(lg)]]
      /\ UNCHANGED <<leaders, role, in_pre_vote, current_term>>
  BY DEF Propose, termVars, roleVars, history, t, e
<1>8. \A m \in msgs' : m \in msgs
        \/ \E p, k : \E next \in Nat \ {0} : m = AppendMsg(n, p, lg, t, next, k)
  <2>1. msgs' \subseteq msgs \cup AppendMsgs(n, lg, t, next_index[n])
    BY SentMsgs DEF Propose, t, e
  <2>2. ASSUME NEW m \in AppendMsgs(n, lg, t, next_index[n])
        PROVE  \E p, k : \E next \in Nat \ {0} : m = AppendMsg(n, p, lg, t, next, k)
    <3> HIDE DEF lg
    <3>1. PICK p \in Node : m = AppendMsg(n, p, lg, t, next_index[n][p], commit_index[n])
      BY DEF AppendMsgs
    <3>2. next_index[n][p] \in Nat \ {0}
      BY DEF TypeInv, TypeOK
    <3> QED
      BY <3>1, <3>2
  <2> QED
    BY <2>1, <2>2
<1> HIDE DEF lg
<1>9. \A p \in Node \ {n} : role[p] = "leader" => current_term[p] # t
  <2> TAKE p \in Node \ {n}
  <2> HAVE role[p] = "leader"
  <2>1. <<current_term[p], p>> \in leaders
    BY DEF LeadersKnown
  <2>2. ElectionSafety
    BY OneLeaderPerTerm
  <2>3. current_term[p] = t => p = n
    BY <1>2, <2>1, <2>2 DEF ElectionSafety
  <2> QED
    BY <2>3
<1>10. Writes(H, n, t, lg)
  <2>1. role'[n] = "leader" /\ current_term'[n] = t /\ current_term[n] <= t
    BY <1>1, <1>7 DEF t
  <2>2. leaders' = leaders \cup {<<t, n>>}
    BY <1>2, <1>7
  <2>3. \A p \in Node \ {n} : role'[p] = role[p] /\ current_term'[p] = current_term[p]
    BY <1>7
  <2> QED
    BY <1>1, <1>2, <1>4, <1>5, <1>6, <1>7, <1>8, <1>9, <2>1, <2>2, <2>3 DEF Writes
<1>11. LeadersKnown'
  BY <1>7 DEF LeadersKnown, InRealRound
<1>12. ASSUME NEW x \in Node, NEW p \in Node, role'[x] = "leader"
       PROVE  \/ match_index'[x][p] = 0
              \/ x = n /\ p = n /\ match_index'[x][p] = Len(lg)
              \/ role[x] = "leader" /\ current_term'[x] = current_term[x]
                 /\ match_index'[x][p] = match_index[x][p]
  <2>1. match_index \in [Node -> [Node -> Nat]]
    BY DEF TypeInv, TypeOK
  <2> QED
    BY <1>7, <1>12, <2>1
<1> QED
  BY <1>10, <1>11, <1>12 DEF lg, t, e

-----------------------------------------------------------------------------
(* Every step. *)

\* After a step from a state with record H there is a record again, and where no success
\* outlives its term, the leaders know their members by it.
Continues(H) ==
  /\ LeadersKnown'
  /\ \E G : Recorded(G)' /\ (StaleReplies = {} /\ Matched(H) => Matched(G)')

\* A quiet step that leaves match_index alone continues the record.
LEMMA QuietContinues ==
  ASSUME TypeInv, TypeInv', LeadersKnown, NEW H, Recorded(H), Quiet(H),
         \/ UNCHANGED match_index
         \/ StaleReplies = {} /\ Matched(H) => Matched(H)'
  PROVE  Continues(H)
<1>1. NoNewLeader /\ UNCHANGED log /\ H \in Records
  BY DEF Quiet, Recorded
<1>2. LeadersKnown'
  BY <1>1, KnownKeeps DEF TypeInv
<1>3. \A m \in msgs' : m \in msgs \/ (m.type = "Append" => CarriesRecord(m, H))
  BY DEF Quiet
<1>4. Recorded(H)'
  BY <1>1, <1>3, QuietRecord
<1>5. ASSUME UNCHANGED match_index, Matched(H)
      PROVE  Matched(H)'
  <2>1. \A m \in msgs' : m \in msgs \/ ~(m.type = "AppendResp" /\ m.success)
    BY DEF Quiet
  <2> QED
    BY <1>1, <1>5, <2>1, QuietMatched DEF TypeInv
<1> QED
  BY <1>2, <1>4, <1>5 DEF Continues

\* So does a step that writes.
LEMMA WritesContinues ==
  ASSUME TypeInv, LeadersKnown', NEW H, Recorded(H), NEW n, NEW t, NEW lg,
         Writes(H, n, t, lg),
         \A x, p \in Node : role'[x] = "leader" =>
           \/ match_index'[x][p] = 0
           \/ x = n /\ p = n /\ match_index'[x][p] = Len(lg)
           \/ role[x] = "leader" /\ current_term'[x] = current_term[x]
              /\ match_index'[x][p] = match_index[x][p]
  PROVE  Continues(H)
<1>1. Recorded(With(H, t, lg))'
  BY WritesRecord DEF TypeInv
<1>2. Matched(H) => Matched(With(H, t, lg))'
  BY WritesMatched DEF TypeInv
<1> QED
  BY <1>1, <1>2 DEF Continues

\* Ticks.
LEMMA TickContinues ==
  ASSUME TypeInv, TypeInv', ElectionInv', LeadersKnown, NEW H, Recorded(H),
         NEW n \in Node, Tick(n)
  PROVE  Continues(H)
<1>1. CASE ~LeadAlone(n)
  BY <1>1, TickQuiet, QuietContinues
<1>2. CASE LeadAlone(n)
  <2> DEFINE t == current_term[n] + 1
  <2>1. t \in Nat /\ t > 0 /\ t > current_term[n]
    BY DEF TypeInv, TypeOK
  <2>2. /\ BecomeLeader(n, t) /\ current_term' = [current_term EXCEPT ![n] = t]
        /\ msgs' \subseteq msgs \cup FirstAppends(n, t)
    BY <1>2, SentMsgs DEF LeadAlone
  <2> HIDE DEF t
  <2>3. WinsTerm(n, t)
    BY <2>1, <2>2 DEF WinsTerm
  <2> QED
    BY <2>3, LeadWrites, WritesContinues
<1> QED
  BY <1>1, <1>2

\* Receptions.
LEMMA RecvContinues ==
  ASSUME TypeInv, TypeInv', ElectionInv', LeadersKnown, NEW H, Recorded(H),
         NEW m \in msgs, Recv(m)
  PROVE  Continues(H)
<1>1. CASE HandlePreVote(m) \/ HandleRequestVote(m) \/ (HandleVoteResp(m) /\ ~ElectionWon(m))
  BY <1>1, VoteQuiet, QuietContinues
<1>2. CASE HandleVoteResp(m) /\ ElectionWon(m)
  <2> DEFINE n == m.to
             t == current_term[n]
  <2>1. n \in Node /\ t \in Nat
    BY MessageKinds DEF TypeInv, TypeOK
  <2>2. /\ BecomeLeader(n, t) /\ UNCHANGED current_term
        /\ msgs' \subseteq msgs \cup FirstAppends(n, t)
        /\ InRealRound(n)
    BY <1>2, RepliedMsgs DEF ElectionWon, CountsNow, InRealRound, termVars
  <2>3. current_term' = [current_term EXCEPT ![n] = t] /\ t > 0
    BY <2>1, <2>2 DEF TypeInv, TypeOK, LeadersKnown
  <2>4. t = current_term[n]
    OBVIOUS
  <2> HIDE DEF n, t
  <2>5. WinsTerm(n, t)
    BY <2>1, <2>2, <2>3, <2>4 DEF WinsTerm
  <2> QED
    BY <2>5, LeadWrites, WritesContinues
<1>3. CASE RejectAppend(m) \/ MismatchAppend(m) \/ HandleAppendResp(m)
  <2>1. /\ Quiet(H)
        /\ (HandleAppendResp(m) /\ AppendRespSuccess(m)) \/ UNCHANGED match_index
    BY <1>3, AppendQuiet
  <2>2. CASE UNCHANGED match_index
    BY <2>1, <2>2, QuietContinues
  <2>3. CASE HandleAppendResp(m) /\ AppendRespSuccess(m)
    <3>1. StaleReplies = {} /\ Matched(H) => Matched(H)'
      BY <2>1, <2>3, SuccessMatched DEF Recv
    <3> QED
      BY <2>1, <3>1, QuietContinues
  <2> QED
    BY <2>1, <2>2, <2>3
<1>4. CASE AcceptAppend(m)
  <2>1. Recorded(H)'
    BY <1>4, AcceptRecord
  <2>2. Matched(H) => Matched(H)'
    BY <1>4, AcceptMatched
  <2>3. NoNewLeader
    BY <1>4, AcceptEffects
  <2>4. LeadersKnown'
    BY <2>3, KnownKeeps DEF TypeInv
  <2> QED
    BY <2>1, <2>2, <2>4 DEF Continues
<1> QED
  BY <1>1, <1>2, <1>3, <1>4 DEF Recv

\* All of them.
LEMMA NextContinues ==
  ASSUME TypeInv, TypeInv', ElectionInv, ElectionInv', LeadersKnown, NEW H, Recorded(H),
         [GateNext]_vars
  PROVE  Continues(H)
<1>1. ASSUME NEW n \in Node, Tick(n)
      PROVE  Continues(H)
  BY <1>1, TickContinues
<1>2. ASSUME NEW n \in Node, NEW c \in Command, Propose(n, c)
      PROVE  Continues(H)
  <2> DEFINE lg == Append(log[n], [term |-> current_term[n], cmd |-> c])
  <2>1. /\ Writes(H, n, current_term[n], lg)
        /\ LeadersKnown'
        /\ \A x, p \in Node : role'[x] = "leader" =>
             \/ match_index'[x][p] = 0
             \/ x = n /\ p = n /\ match_index'[x][p] = Len(lg)
             \/ role[x] = "leader" /\ current_term'[x] = current_term[x]
                /\ match_index'[x][p] = match_index[x][p]
    BY <1>2, ProposeWrites
  <2> HIDE DEF lg
  <2> QED
    BY <2>1, WritesContinues
<1>3. ASSUME NEW m \in msgs, Recv(m)
      PROVE  Continues(H)
  BY <1>3, RecvContinues
<1>4. ASSUME NEW m \in msgs, Lose(m)
      PROVE  Continues(H)
  <2>1. UNCHANGED <<leaders, role, in_pre_vote, current_term, log, match_index>>
    BY <1>4 DEF Lose, termVars, roleVars, peerVars, history, logVars
  <2>2. msgs' \subseteq msgs
    BY <1>4 DEF Lose
  <2>3. Quiet(H)
    BY <2>1, <2>2, SameQuiet DEF Quiet, TypeInv
  <2> QED
    BY <2>1, <2>3, QuietContinues
<1>5. CASE UNCHANGED vars \/ \E n \in Node, e \in BOOLEAN : SetEligible(n, e)
  <2>1. UNCHANGED <<leaders, role, in_pre_vote, current_term, log, match_index, msgs>>
    BY <1>5 DEF SetEligible, vars, termVars, roleVars, peerVars, history, logVars
  <2>2. Quiet(H)
    BY <2>1, SameQuiet DEF Quiet, TypeInv
  <2> QED
    BY <2>1, <2>2, QuietContinues
<1> QED
  BY <1>1, <1>2, <1>3, <1>4, <1>5 DEF GateNext, Next

\* At the start nothing is on record.
LEMMA InitRecorded ==
  Init => LeadersKnown /\ \E H : Recorded(H) /\ Matched(H)
<1> SUFFICES ASSUME Init
             PROVE  LeadersKnown /\ \E H : Recorded(H) /\ Matched(H)
  OBVIOUS
<1> DEFINE H == [t \in Nat |-> <<>>]
<1>1. LeadersKnown
  BY DEF Init, LeadersKnown, InRealRound
<1>2. H \in Records /\ \A t \in Nat : H[t] = <<>>
  <2>1. <<>> \in Seq(Entry)
    OBVIOUS
  <2> QED
    BY <2>1 DEF Records
<1>3. \A n \in Node : log[n] = <<>> /\ role[n] = "follower"
  BY DEF Init
<1>4. msgs = {}
  BY DEF Init
<1>5. OnRecord(<<>>, H) /\ Len(<<>>) <= RAFT_MAX_LOG
  BY BoundAssumption DEF OnRecord
<1> HIDE DEF H
<1>6. Recorded(H)
  BY <1>2, <1>3, <1>4, <1>5 DEF Recorded
<1>7. Matched(H)
  BY <1>3, <1>4 DEF Matched
<1> QED
  BY <1>1, <1>6, <1>7

-----------------------------------------------------------------------------
(* The theorems. *)

\* Logs on one record agree wherever they share an entry.
LEMMA RecordedMatches ==
  ASSUME TypeOK, NEW H, Recorded(H)
  PROVE  LogMatching
<1> SUFFICES ASSUME NEW n \in Node, NEW p \in Node,
                    NEW i \in 1..Smaller(Len(log[n]), Len(log[p])),
                    log[n][i].term = log[p][i].term
             PROVE  SubSeq(log[n], 1, i) = SubSeq(log[p], 1, i)
  BY DEF LogMatching
<1> DEFINE s == log[n]
           g == log[p]
<1>1. s \in Seq(Entry) /\ g \in Seq(Entry) /\ Len(s) \in Nat /\ Len(g) \in Nat
  <2>1. log \in [Node -> Seq(Entry)]
    BY DEF TypeOK
  <2>2. s \in Seq(Entry) /\ g \in Seq(Entry)
    BY <2>1
  <2> HIDE DEF s, g
  <2> QED
    BY <2>2
<1>2. OnRecord(s, H) /\ OnRecord(g, H)
  BY DEF Recorded
<1> HIDE DEF s, g
<1>3. i \in 1..Len(s) /\ i \in 1..Len(g) /\ i \in Nat
  BY <1>1 DEF Smaller, s, g
<1>4. \A j \in 1..i : s[j] = g[j]
  BY <1>2, <1>3, RecordsAgree DEF s, g
<1>5. SubSeq(s, 1, i) = SubSeq(g, 1, i)
  <2> DEFINE a == SubSeq(s, 1, i)
             b == SubSeq(g, 1, i)
  <2>1. (\A j \in 1..i : s[j] \in Entry) /\ (\A j \in 1..i : g[j] \in Entry)
    BY <1>1, <1>3
  <2>2. a \in Seq(Entry) /\ Len(a) = i /\ \A j \in 1..i : a[j] = s[j]
    BY <1>1, <1>3, <2>1, SubSeqProperties
  <2>3. b \in Seq(Entry) /\ Len(b) = i /\ \A j \in 1..i : b[j] = g[j]
    BY <1>1, <1>3, <2>1, SubSeqProperties
  <2> HIDE DEF a, b
  <2>4. a = b
    BY <1>4, <2>2, <2>3, SeqEqual
  <2> QED
    BY <2>4 DEF a, b
<1> QED
  BY <1>5 DEF s, g

\* Two logs that hold an entry of the same term at the same index agree up to it,
\* however many leaders overwrote each other's tails and whatever AppendEntries come
\* late or twice (handle_append, send_append, become_leader, raft_propose).
THEOREM LogsMatch ==
  ASSUME StaleReplies \subseteq {"append"}
  PROVE  GateSpec => []LogMatching
<1>1. Init => LogInv
  BY InitType, InitElection, InitRecorded DEF LogInv
<1>2. LogInv /\ [GateNext]_vars => LogInv'
  <2> SUFFICES ASSUME LogInv, [GateNext]_vars
               PROVE  LogInv'
    OBVIOUS
  <2>1. TypeInv' /\ ElectionInv'
    BY NextType, NextElection DEF LogInv
  <2>2. PICK H : Recorded(H)
    BY DEF LogInv
  <2>3. Continues(H)
    BY <2>1, <2>2, NextContinues DEF LogInv
  <2> QED
    BY <2>1, <2>3 DEF Continues, LogInv
<1>3. LogInv => LogMatching
  BY RecordedMatches DEF LogInv, TypeInv
<1> QED
  BY <1>1, <1>2, <1>3, PTL DEF GateSpec

MatchInv ==
  TypeInv /\ ElectionInv /\ LeadersKnown /\ \E H : Recorded(H) /\ Matched(H)

\* What a leader believes a member of its term has stored (match_index) is there, as
\* long as no success is delivered to a leader of a later term: the code does not compare
\* the reply's term with its own (handle_append_resp, handle_append).
THEOREM MatchIndexTrue ==
  ASSUME StaleReplies = {}
  PROVE  GateSpec => []MatchIndexIsTrue
<1>1. Init => MatchInv
  BY InitType, InitElection, InitRecorded DEF MatchInv
<1>2. MatchInv /\ [GateNext]_vars => MatchInv'
  <2> SUFFICES ASSUME MatchInv, [GateNext]_vars
               PROVE  MatchInv'
    OBVIOUS
  <2>1. TypeInv' /\ ElectionInv'
    BY NextType, NextElection DEF MatchInv
  <2>2. PICK H : Recorded(H) /\ Matched(H)
    BY DEF MatchInv
  <2>3. Continues(H)
    BY <2>1, <2>2, NextContinues DEF MatchInv
  <2> QED
    BY <2>1, <2>2, <2>3 DEF Continues, MatchInv
<1>3. MatchInv => MatchIndexIsTrue
  <2> SUFFICES ASSUME MatchInv, NEW n \in Node, NEW p \in Node,
                      role[n] = "leader", current_term[p] = current_term[n]
               PROVE  /\ match_index[n][p] <= Len(log[p])
                      /\ \A i \in 1..match_index[n][p] : log[p][i] = log[n][i]
    BY DEF MatchIndexIsTrue
  <2>1. PICK H : Recorded(H) /\ Matched(H)
    BY DEF MatchInv
  <2>2. Holds(log[p], H[current_term[n]], match_index[n][p])
    BY <2>1 DEF Matched
  <2>3. H[current_term[n]] = log[n]
    BY <2>1 DEF Recorded
  <2> QED
    BY <2>2, <2>3 DEF Holds
<1> QED
  BY <1>1, <1>2, <1>3, PTL DEF GateSpec
=============================================================================
