--------------------------- MODULE NornDhtProofs -----------------------------
(***************************************************************************)
(* Theorems about the parts of a DHT node, for tables of every size.       *)
(*                                                                         *)
(* The tables it must not forget from too early: the nonces of early data  *)
(* it has opened (NornEarly) and the records it has taken (NornRecords).   *)
(*                                                                         *)
(* NornMainline, for every number of senders, packets and restarts: the    *)
(* answer to a query is processed once, a peer is served only where a      *)
(* token was asked for, the byte count of the record store is right,       *)
(* sequence numbers do not go back, and preferred nodes stay in the table. *)
(*                                                                         *)
(* NornLookup, for every network and number of candidates: tokens are kept *)
(* for and used with the address that issued them, the address of a node   *)
(* is confirmed by that node alone, and an undisturbed lookup finds what   *)
(* is within its reach.                                                    *)
(***************************************************************************)
EXTENDS NornEarly, NornRecords, NornMainline, NornLookup, SequenceTheorems, FiniteSetTheorems, TLAPS

\* A set of places that is not empty has a first one.
LEMMA MinIsThere ==
  ASSUME NEW n \in Nat, NEW S \in SUBSET (1..n), S # {}
  PROVE  Min(S) \in S /\ \A j \in S : Min(S) <= j
<1> DEFINE U == 1..n
           T == {1..i : i \in S}
<1>1. T # {} /\ T \subseteq FiniteSubsetsOf(U)
  <2>1. IsFiniteSet(U)
    BY FS_Interval
  <2>2. FiniteSubsetsOf(U) = SUBSET U
    BY <2>1, FS_FiniteSubsetsOfFinite
  <2>3. \A i \in S : 1..i \in SUBSET U
    OBVIOUS
  <2>4. T \subseteq SUBSET U
    BY <2>3
  <2>5. T # {}
    OBVIOUS
  <2> QED
    BY <2>2, <2>4, <2>5
<1>2. IsWellFoundedOn(StrictSubsetOrdering(U), FiniteSubsetsOf(U))
  BY FS_StrictSubsetOrderingWellFounded
<1>3. PICK x \in T : \A y \in T : ~(<<y, x>> \in StrictSubsetOrdering(U))
  BY <1>1, <1>2, WFMin
<1>4. PICK i \in S : x = 1..i
  BY <1>3
<1>5. \A j \in S : i <= j
  <2> SUFFICES ASSUME NEW j \in S, j < i PROVE FALSE
    OBVIOUS
  <2>1. 1..j \subseteq 1..i /\ 1..j # 1..i
    OBVIOUS
  <2>2. 1..j \in T /\ 1..i \in SUBSET U /\ 1..j \in SUBSET U
    OBVIOUS
  <2> QED
    BY <1>3, <1>4, <2>1, <2>2 DEF StrictSubsetOrdering
<1> QED
  BY <1>5 DEF Min

\* What holds at 0 and passes to the next number holds up to N.
LEMMA UpTo ==
  ASSUME NEW N \in Nat, NEW S, 0 \in S, \A k \in 0..N-1 : k \in S => k + 1 \in S
  PROVE  \A k \in 0..N : k \in S
<1> SUFFICES ASSUME NEW k \in 0..N, k \notin S PROVE FALSE
  OBVIOUS
<1> DEFINE Bad == {i \in 1..N : i \notin S}
<1>1. Bad \in SUBSET (1..N) /\ k \in Bad
  OBVIOUS
<1>2. PICK i : i = Min(Bad)
  OBVIOUS
<1>3. i \in Bad /\ \A j \in Bad : i <= j
  BY <1>1, <1>2, MinIsThere
<1>4. i - 1 \in 0..N-1 /\ (i - 1) + 1 = i /\ i - 1 \notin Bad /\ i \notin S
  BY <1>3
<1>5. i - 1 \in S
  BY <1>4
<1> QED
  BY <1>4, <1>5

-----------------------------------------------------------------------------
(* Early data: the ring of nonces. *)

\* The ring index after x: the one above it, or the first.
LEMMA NextIndex ==
  ASSUME NEW x \in Slot
  PROVE  (x + 1) % REPLAY_SLOTS = IF x + 1 = REPLAY_SLOTS THEN 0 ELSE x + 1
BY EarlyAssumption DEF Slot

\* The ring index d steps before x.
Back(x, d) == IF x - d >= 0 THEN x - d ELSE x - d + REPLAY_SLOTS

\* When x moves on by one, what was d steps before it is d + 1 steps before it.
LEMMA BackStays ==
  ASSUME NEW x \in Slot, NEW d \in 1..(REPLAY_SLOTS - 1), NEW y,
         y = IF x + 1 = REPLAY_SLOTS THEN 0 ELSE x + 1
  PROVE  Back(y, d + 1) = Back(x, d) /\ Back(x, d) # x /\ Back(x, d) \in Slot
<1>1. x \in Int /\ d \in Int /\ REPLAY_SLOTS \in Int /\ y \in Int
  BY EarlyAssumption DEF Slot
<1>2. 0 <= x /\ x < REPLAY_SLOTS /\ 1 <= d /\ d < REPLAY_SLOTS
  BY EarlyAssumption DEF Slot
<1>3. CASE x + 1 = REPLAY_SLOTS
  BY <1>1, <1>2, <1>3 DEF Back, Slot
<1>4. CASE x + 1 # REPLAY_SLOTS
  BY <1>1, <1>2, <1>4 DEF Back, Slot
<1> QED
  BY <1>3, <1>4

Opening == [nonce : Nat, t : Nat \ {0}]

\* The slot of the i-th opened flight while the ring still holds it: as far behind
\* cache.next as flights have been opened since, around the end of the ring.
Pos(i) == Back(cache.next, Len(delivered) - i + 1)

\* What the ring holds: the last REPLAY_SLOTS flights opened, each in its slot, with the
\* second it was opened in.
EarlyTypeOK ==
  /\ flights \in Seq(Nat)
  /\ time \in Nat \ {0}
  /\ delivered \in Seq(Opening)
  /\ cache = [slots |-> cache.slots, next |-> cache.next]
  /\ cache.slots \in [Slot -> [nonce : Nat, t : Nat]]
  /\ cache.next \in Slot

RingHoldsLast ==
  \A i \in 1..Len(delivered) :
    Len(delivered) - i < REPLAY_SLOTS => cache.slots[Pos(i)] = delivered[i]

EarlyInv == EarlyTypeOK /\ RingHoldsLast /\ EarlyDataOnce

\* A step that records nothing keeps the invariant.
LEMMA EarlyQuiet ==
  ASSUME EarlyInv, UNCHANGED <<cache, delivered>>, flights' \in Seq(Nat), time' \in Nat \ {0}
  PROVE  EarlyInv'
BY DEF EarlyInv, EarlyTypeOK, RingHoldsLast, EarlyDataOnce, Pos

\* channel_hs_accept_0rtt of a flight that is fresh.
LEMMA EarlyAccept ==
  ASSUME EarlyInv, NEW n \in DOMAIN flights, NEW room \in BOOLEAN,
         channel_hs_accept_0rtt(n, room)
  PROVE  EarlyInv'
<1> DEFINE R == REPLAY_SLOTS
           len == Len(delivered)
           rec == [nonce |-> n, t |-> time]
<1>1. /\ R \in Nat \ {0} /\ len \in Nat /\ n \in Nat /\ time \in Nat \ {0}
      /\ cache.next \in 0..(R - 1) /\ Slot = 0..(R - 1) /\ delivered \in Seq(Opening)
  BY EarlyAssumption DEF EarlyInv, EarlyTypeOK, Slot
<1>2. rec \in Opening
  BY <1>1 DEF Opening
<1>3. /\ delivered' \in Seq(Opening) /\ Len(delivered') = len + 1
      /\ \A i \in 1..len : delivered'[i] = delivered[i]
      /\ delivered'[len + 1] = rec
  <2>1. delivered' = Append(delivered, rec)
    BY DEF channel_hs_accept_0rtt
  <2> HIDE DEF rec
  <2> QED
    BY <1>1, <1>2, <2>1, AppendProperties
<1>4. /\ cache'.next = IF cache.next + 1 = R THEN 0 ELSE cache.next + 1
      /\ cache'.slots = [cache.slots EXCEPT ![cache.next] = rec]
      /\ cache' = [slots |-> cache'.slots, next |-> cache'.next]
  BY <1>1, NextIndex DEF channel_hs_accept_0rtt, Recorded
<1>5. /\ cache'.slots \in [Slot -> [nonce : Nat, t : Nat]]
      /\ cache'.slots[cache.next] = rec
      /\ \A s \in Slot : s # cache.next => cache'.slots[s] = cache.slots[s]
  BY <1>1, <1>4 DEF EarlyInv, EarlyTypeOK
<1>6. cache'.next \in Slot
  BY <1>1, <1>4
<1>7. EarlyTypeOK'
  BY <1>1, <1>3, <1>4, <1>5, <1>6 DEF EarlyInv, EarlyTypeOK, channel_hs_accept_0rtt
<1>8. RingHoldsLast'
  <2> SUFFICES ASSUME NEW i \in 1..(len + 1), len + 1 - i < R
               PROVE  cache'.slots[Pos(i)'] = delivered'[i]
    BY <1>3 DEF RingHoldsLast
  <2>1. Pos(i)' = Back(cache'.next, len + 1 - i + 1)
    BY <1>3 DEF Pos
  <2>2. CASE i = len + 1
    <3>1. Pos(i)' = cache.next
      BY <2>1, <2>2, <1>1, <1>4 DEF Back
    <3> QED
      BY <3>1, <2>2, <1>3, <1>5
  <2>3. CASE i \in 1..len
    <3>2. Pos(i)' = Pos(i) /\ Pos(i) # cache.next /\ Pos(i) \in Slot
      <4>1. Pos(i) = Back(cache.next, len - i + 1)
        BY DEF Pos
      <4>2. Pos(i)' = Back(cache'.next, (len - i + 1) + 1)
        BY <1>1, <2>1, <2>3
      <4>3. len - i + 1 \in 1..(R - 1)
        BY <1>1, <2>3
      <4> QED
        BY <1>1, <1>4, <4>1, <4>2, <4>3, BackStays
    <3>3. cache.slots[Pos(i)] = delivered[i]
      BY <2>3, <1>1 DEF EarlyInv, RingHoldsLast
    <3> QED
      BY <2>3, <3>2, <3>3, <1>3, <1>5
  <2> QED
    BY <2>2, <2>3, <1>1
<1>9. EarlyDataOnce'
  <2> SUFFICES ASSUME NEW i \in 1..(len + 1), NEW j \in 1..(len + 1), i < j,
                      delivered'[i].nonce = delivered'[j].nonce
               PROVE  delivered'[j].t - delivered'[i].t >= Window \/ j - i > R
    BY <1>3 DEF EarlyDataOnce
  <2>1. CASE j \in 1..len
    <3>1. i \in 1..len
      BY <2>1, <1>1
    <3> QED
      BY <2>1, <3>1, <1>3 DEF EarlyInv, EarlyDataOnce
  <2>2. CASE j = len + 1 /\ ~(j - i > R)
    <3>1. i \in 1..len /\ len - i < R
      BY <2>2, <1>1
    <3>2. cache.slots[Pos(i)] = delivered[i] /\ Pos(i) \in Slot
      <4>1. Pos(i) \in Slot
        BY <3>1, <1>1 DEF Pos, Back
      <4> QED
        BY <4>1, <3>1, <1>1 DEF EarlyInv, RingHoldsLast
    <3>3. delivered[i] \in Opening
      BY <3>1, <1>1
    <3>4. delivered[i].nonce = n /\ delivered'[i] = delivered[i] /\ delivered'[j].t = time
      BY <3>1, <2>2, <1>3
    <3>5. ~Remembered(n)
      BY DEF channel_hs_accept_0rtt, Status
    <3>6. ~(delivered[i].t # 0 /\ time - delivered[i].t < Window)
      BY <3>2, <3>4, <3>5 DEF Remembered
    <3>7. delivered[i].t \in Nat \ {0}
      BY <3>3 DEF Opening
    <3>8. time - delivered[i].t >= Window
      BY <3>6, <3>7, <1>1, EarlyAssumption
    <3> QED
      BY <3>4, <3>8
  <2> QED
    BY <2>1, <2>2, <1>1
<1> QED
  BY <1>7, <1>8, <1>9 DEF EarlyInv

\* The flights a responder opens twice: one that comes again is delivered again only when
\* the window has passed or REPLAY_SLOTS others were recorded in between
\* (replaycache_seen, channel_hs_accept_0rtt), for every ring size and window.
THEOREM EarlyDataNotReplayed == EarlySpec => []EarlyDataOnce
<1>1. EarlyInit => EarlyInv
  <2> SUFFICES ASSUME EarlyInit PROVE EarlyInv
    OBVIOUS
  <2>1. EarlyTypeOK
    BY EarlyAssumption DEF EarlyInit, EarlyTypeOK, replaycache_init, Slot
  <2>2. Len(delivered) = 0 /\ DOMAIN delivered = {}
    BY DEF EarlyInit
  <2> QED
    BY <2>1, <2>2 DEF EarlyInv, RingHoldsLast, EarlyDataOnce
<1>2. EarlyInv /\ [EarlyNext]_earlyVars => EarlyInv'
  <2> SUFFICES ASSUME EarlyInv, [EarlyNext]_earlyVars PROVE EarlyInv'
    OBVIOUS
  <2>0. flights \in Seq(Nat) /\ time \in Nat \ {0}
    BY DEF EarlyInv, EarlyTypeOK
  <2>1. CASE channel_resumption_secret
    BY <2>0, <2>1, EarlyQuiet DEF channel_resumption_secret
  <2>2. ASSUME NEW k \in 1..psk, channel_hs_build_init_0rtt(k)
        PROVE  EarlyInv'
    BY <2>0, <2>2, EarlyQuiet DEF channel_hs_build_init_0rtt
  <2>3. ASSUME NEW n \in DOMAIN flights, NEW room \in BOOLEAN, channel_hs_accept_0rtt(n, room)
        PROVE  EarlyInv'
    BY <2>3, EarlyAccept
  <2>4. CASE Second
    BY <2>0, <2>4, EarlyQuiet DEF Second
  <2>5. CASE UNCHANGED earlyVars
    BY <2>0, <2>5, EarlyQuiet DEF earlyVars
  <2> QED
    BY <2>1, <2>2, <2>3, <2>4, <2>5 DEF EarlyNext
<1>3. EarlyInv => EarlyDataOnce
  BY DEF EarlyInv
<1> QED
  BY <1>1, <1>2, <1>3, PTL DEF EarlySpec

-----------------------------------------------------------------------------
(* Records: the table and its file. *)

Record == [k : Account, seq : RecSeq, priv : BOOLEAN]

\* A list of records that fits the table, each account at most once.
RecListed(list) ==
  /\ list \in Seq(Record) /\ Len(list) <= RECSTORE_MAX
  /\ \A i, j \in 1..Len(list) : list[i].k = list[j].k => i = j

\* Every record of the old list is in the new one, at the same number or a later one.
NotOlder(old, new) ==
  \A i \in 1..Len(old) : \E j \in 1..Len(new) : new[j].k = old[i].k /\ new[j].seq >= old[i].seq

\* What the history says was written is in the list, at that number or a later one.
HasWritten(list) ==
  \A w \in written : \E j \in 1..Len(list) : list[j].k = w[1] /\ list[j].seq >= w[2]

RecordsInv ==
  /\ RecListed(recs) /\ RecListed(file) /\ NotOlder(file, recs)
  /\ written \subseteq Account \X RecSeq /\ HasWritten(file)

\* A record's sequence number is a natural number.
LEMMA SeqNumber ==
  ASSUME NEW list, RecListed(list), NEW i \in 1..Len(list)
  PROVE  list[i] \in Record /\ list[i].seq \in Nat
<1>1. list[i] \in Record
  BY DEF RecListed
<1> QED
  BY <1>1, RecordsAssumption DEF Record

\* NotOlder is transitive along lists of records.
LEMMA NotOlderTrans ==
  ASSUME NEW l1, NEW l2, NEW l3, RecListed(l1), RecListed(l2), RecListed(l3),
         NotOlder(l1, l2), NotOlder(l2, l3)
  PROVE  NotOlder(l1, l3)
<1> SUFFICES ASSUME NEW i \in 1..Len(l1)
             PROVE  \E m \in 1..Len(l3) : l3[m].k = l1[i].k /\ l3[m].seq >= l1[i].seq
  BY DEF NotOlder
<1>1. PICK j \in 1..Len(l2) : l2[j].k = l1[i].k /\ l2[j].seq >= l1[i].seq
  BY DEF NotOlder
<1>2. PICK m \in 1..Len(l3) : l3[m].k = l2[j].k /\ l3[m].seq >= l2[j].seq
  BY DEF NotOlder
<1>3. l1[i].seq \in Nat /\ l2[j].seq \in Nat /\ l3[m].seq \in Nat
  BY SeqNumber
<1> QED
  BY <1>1, <1>2, <1>3

\* save: the file is as it was, or holds the public records of the table.
LEMMA SaveKeeps ==
  ASSUME NEW table, RecListed(table), NEW opens \in BOOLEAN, save(table, opens),
         RecListed(file), NotOlder(file, table)
  PROVE  RecListed(file') /\ NotOlder(file', table)
<1>1. CASE ~opens
  BY <1>1 DEF save
<1>2. CASE opens
  <2> DEFINE public == {i \in DOMAIN table : ~table[i].priv}
  <2>1. PICK n \in 0..Len(table) : \E at \in [1..n -> public] :
          /\ \A i, j \in 1..n : i < j => at[i] < at[j]
          /\ file' = [i \in 1..n |-> table[at[i]]]
    BY <1>2 DEF save
  <2>2. PICK at \in [1..n -> public] :
          /\ \A i, j \in 1..n : i < j => at[i] < at[j]
          /\ file' = [i \in 1..n |-> table[at[i]]]
    BY <2>1
  <2>3. Len(table) \in Nat /\ Len(table) <= RECSTORE_MAX /\ n \in Nat /\ n <= Len(table)
    BY DEF RecListed
  <2>4. \A i \in 1..n : at[i] \in 1..Len(table) /\ at[i] \in Nat /\ file'[i] = table[at[i]]
    BY <2>2, <2>3 DEF RecListed
  <2>5. \A i \in 1..n : table[at[i]] \in Record /\ table[at[i]].seq \in Nat
    BY <2>4, SeqNumber
  <2>6. file' \in [1..n -> Record]
    BY <2>2, <2>5
  <2>7. file' \in Seq(Record) /\ Len(file') = n
    BY <2>3, <2>6, SeqDef
  <2>8. \A i, j \in 1..n : file'[i].k = file'[j].k => i = j
    <3> SUFFICES ASSUME NEW i \in 1..n, NEW j \in 1..n, file'[i].k = file'[j].k
                 PROVE  i = j
      OBVIOUS
    <3>1. at[i] = at[j]
      BY <2>4 DEF RecListed
    <3> QED
      BY <2>2, <2>3, <2>4, <3>1
  <2>9. RecListed(file')
    BY <2>3, <2>7, <2>8, RecordsAssumption DEF RecListed
  <2>10. NotOlder(file', table)
    <3> SUFFICES ASSUME NEW i \in 1..n
                 PROVE  \E j \in 1..Len(table) :
                          table[j].k = file'[i].k /\ table[j].seq >= file'[i].seq
      BY <2>7 DEF NotOlder
    <3>1. at[i] \in 1..Len(table) /\ table[at[i]].k = file'[i].k
      BY <2>4
    <3>2. table[at[i]].seq >= file'[i].seq
      BY <2>4, <2>5
    <3> QED
      BY <3>1, <3>2
  <2> QED
    BY <2>9, <2>10
<1> QED
  BY <1>1, <1>2

\* What was written of the file is in a list that is not older.
LEMMA WrittenOn ==
  ASSUME NEW l1, NEW l2, RecListed(l1), RecListed(l2), NotOlder(l1, l2), HasWritten(l1),
         written \subseteq Account \X RecSeq
  PROVE  HasWritten(l2)
<1> SUFFICES ASSUME NEW w \in written
             PROVE  \E j \in 1..Len(l2) : l2[j].k = w[1] /\ l2[j].seq >= w[2]
  BY DEF HasWritten
<1>1. PICK i \in 1..Len(l1) : l1[i].k = w[1] /\ l1[i].seq >= w[2]
  BY DEF HasWritten
<1>2. PICK j \in 1..Len(l2) : l2[j].k = l1[i].k /\ l2[j].seq >= l1[i].seq
  BY DEF NotOlder
<1>3. w[2] \in Nat /\ l1[i].seq \in Nat /\ l2[j].seq \in Nat
  BY SeqNumber, RecordsAssumption
<1> QED
  BY <1>1, <1>2, <1>3

\* A save, whether the file opens or not, keeps what was written before and now.
LEMMA SaveWrites ==
  ASSUME NEW table, RecListed(table), NEW opens \in BOOLEAN, save(table, opens),
         written' = Noted(table, opens), HasWritten(file), HasWritten(table),
         written \subseteq Account \X RecSeq
  PROVE  written' \subseteq Account \X RecSeq /\ HasWritten(file)'
<1> DEFINE new == IF opens THEN {<<table[i].k, table[i].seq>> : i \in DOMAIN table} ELSE {}
<1>1. DOMAIN table = 1..Len(table) /\ Len(table) \in Nat
  BY DEF RecListed
<1>2. \A i \in 1..Len(table) : /\ table[i].k \in Account /\ table[i].seq \in RecSeq
                               /\ table[i].seq \in Nat
  BY SeqNumber DEF Record
<1>3. \A w \in written' : /\ w \in written \cup new
                          /\ \A i \in 1..Len(table) : table[i].k = w[1] => ~table[i].priv
  BY <1>1 DEF Noted
<1>4. new \subseteq Account \X RecSeq
  BY <1>1, <1>2
<1>5. written' \subseteq Account \X RecSeq
  BY <1>3, <1>4
<1>6. CASE ~opens
  <2>1. new = {} /\ file' = file
    BY <1>6 DEF save
  <2> QED
    BY <1>3, <1>5, <2>1 DEF HasWritten
<1>7. CASE opens
  <2> DEFINE public == {i \in DOMAIN table : ~table[i].priv}
  <2>1. PICK n \in 0..Len(table) : \E at \in [1..n -> public] :
          /\ \A place \in public : \E i \in 1..n : at[i] = place
          /\ file' = [i \in 1..n |-> table[at[i]]]
    BY <1>7 DEF save
  <2>2. PICK at \in [1..n -> public] :
          /\ \A place \in public : \E i \in 1..n : at[i] = place
          /\ file' = [i \in 1..n |-> table[at[i]]]
    BY <2>1
  <2>3. n \in Nat /\ Len(file') = n
    <3>1. n \in Nat
      BY <1>1
    <3>2. \A i \in 1..n : table[at[i]] \in Record
      BY <1>1, <2>2, SeqNumber
    <3>3. file' \in [1..n -> Record]
      BY <2>2, <3>2
    <3> QED
      BY <3>1, <3>3, SeqDef
  <2>4. ASSUME NEW w \in written'
        PROVE  \E j \in 1..Len(file') : file'[j].k = w[1] /\ file'[j].seq >= w[2]
    <3>1. w[2] \in Nat
      BY <1>5, RecordsAssumption
    <3>2. PICK i \in 1..Len(table) : table[i].k = w[1] /\ table[i].seq >= w[2]
      <4>1. CASE w \in written
        BY <4>1 DEF HasWritten
      <4>2. CASE w \in new
        <5>1. PICK i \in 1..Len(table) : w = <<table[i].k, table[i].seq>>
          BY <1>1, <1>7, <4>2, Zenon
        <5>2. w[1] = table[i].k /\ w[2] = table[i].seq
          BY <5>1
        <5> QED
          BY <1>2, <5>2
      <4> QED
        BY <1>3, <4>1, <4>2
    <3>3. i \in public
      BY <1>1, <1>3, <3>2
    <3>4. PICK j \in 1..n : at[j] = i
      BY <2>2, <3>3
    <3>5. file'[j] = table[i]
      BY <2>2, <3>4
    <3> QED
      BY <2>3, <3>2, <3>5
  <2> QED
    BY <1>5, <2>4 DEF HasWritten
<1> QED
  BY <1>6, <1>7

\* find: the place of an account, or 0 when the table has none.
LEMMA FindPlace ==
  ASSUME RecListed(recs), NEW k \in Account
  PROVE  \/ find(k) = 0 /\ \A i \in 1..Len(recs) : recs[i].k # k
         \/ find(k) \in 1..Len(recs) /\ recs[find(k)].k = k
<1> DEFINE I == {i \in 1..Len(recs) : recs[i].k = k}
<1>1. find(k) = IF I # {} THEN Min(I) ELSE 0
  BY DEF find, SelectInSeq
<1>2. CASE I = {}
  BY <1>1, <1>2
<1>3. CASE I # {}
  <2>1. PICK i \in I : TRUE
    BY <1>3
  <2>2. I = {i}
    BY <2>1 DEF RecListed
  <2>3. Min({i}) = i
    BY DEF Min
  <2> QED
    BY <1>1, <1>3, <2>1, <2>2, <2>3
<1> QED
  BY <1>2, <1>3

\* recstore_accept and recstore_set_private leave a table that is not older.
LEMMA AcceptKeeps ==
  ASSUME RecordsInv, NEW k \in Account, NEW seq \in RecSeq, NEW opens \in BOOLEAN,
         recstore_accept(k, seq, opens)
  PROVE  /\ RecListed(recs') /\ NotOlder(recs, recs') /\ save(recs', opens)
         /\ written' = Noted(recs', opens)
<1> DEFINE r == [k |-> k, seq |-> seq, priv |-> FALSE]
<1>1. r \in Record /\ seq \in Nat /\ r.k = k /\ r.seq = seq
  BY RecordsAssumption DEF Record
<1>2. RecListed(recs) /\ recs \in Seq(Record) /\ Len(recs) \in Nat
  BY DEF RecordsInv, RecListed
<1>3. save(recs', opens) /\ written' = Noted(recs', opens)
  BY DEF recstore_accept
<1>4. CASE find(k) = 0
  <2>1. \A i \in 1..Len(recs) : recs[i].k # k
    BY <1>2, <1>4, FindPlace
  <2>2. recs' = Append(recs, r) /\ Len(recs) < RECSTORE_MAX
    BY <1>4 DEF recstore_accept
  <2>3. /\ recs' \in Seq(Record) /\ Len(recs') = Len(recs) + 1
        /\ \A i \in 1..Len(recs) : recs'[i] = recs[i]
        /\ recs'[Len(recs) + 1] = r
    <3> HIDE DEF r
    <3> QED
      BY <1>1, <1>2, <2>2, AppendProperties
  <2>4. RecListed(recs')
    <3>1. \A i, j \in 1..Len(recs') : recs'[i].k = recs'[j].k => i = j
      <4> SUFFICES ASSUME NEW i \in 1..(Len(recs) + 1), NEW j \in 1..(Len(recs) + 1),
                          recs'[i].k = recs'[j].k
                   PROVE  i = j
        BY <2>3
      <4>1. i \in 1..Len(recs) \/ i = Len(recs) + 1
        BY <1>2
      <4>2. j \in 1..Len(recs) \/ j = Len(recs) + 1
        BY <1>2
      <4> HIDE DEF r
      <4> QED
        BY <4>1, <4>2, <1>1, <1>2, <2>1, <2>3 DEF RecListed
    <3> QED
      BY <1>2, <2>2, <2>3, <3>1, RecordsAssumption DEF RecListed
  <2>5. NotOlder(recs, recs')
    <3> SUFFICES ASSUME NEW i \in 1..Len(recs)
                 PROVE  \E j \in 1..Len(recs') : recs'[j].k = recs[i].k /\ recs'[j].seq >= recs[i].seq
      BY DEF NotOlder
    <3>1. i \in 1..Len(recs') /\ recs'[i] = recs[i] /\ recs[i].seq \in Nat
      BY <1>2, <2>3, SeqNumber
    <3> QED
      BY <3>1
  <2> QED
    BY <1>3, <2>4, <2>5
<1>5. CASE find(k) # 0
  <2> DEFINE e == find(k)
  <2>1. e \in 1..Len(recs) /\ recs[e].k = k
    BY <1>2, <1>5, FindPlace
  <2>2. recs' = [recs EXCEPT ![e] = r] /\ seq > recs[e].seq
    BY <1>5 DEF recstore_accept
  <2>3. /\ recs' \in Seq(Record) /\ Len(recs') = Len(recs)
        /\ \A i \in 1..Len(recs) : recs'[i] = IF i = e THEN r ELSE recs[i]
    <3> HIDE DEF r, e
    <3> QED
      BY <1>1, <1>2, <2>1, <2>2, ExceptSeq
  <2>4. \A i \in 1..Len(recs) : recs'[i].k = recs[i].k /\ recs[i].seq \in Nat /\ recs'[i].seq >= recs[i].seq
    <3> SUFFICES ASSUME NEW i \in 1..Len(recs)
                 PROVE  recs'[i].k = recs[i].k /\ recs[i].seq \in Nat /\ recs'[i].seq >= recs[i].seq
      OBVIOUS
    <3>1. recs[i].seq \in Nat
      BY <1>2, SeqNumber
    <3> HIDE DEF r, e
    <3> QED
      BY <1>1, <2>1, <2>2, <2>3, <3>1
  <2>5. RecListed(recs')
    BY <1>2, <2>3, <2>4 DEF RecListed
  <2>6. NotOlder(recs, recs')
    BY <2>3, <2>4 DEF NotOlder
  <2> QED
    BY <1>3, <2>5, <2>6
<1> QED
  BY <1>4, <1>5

\* recstore_set_private changes no account and no number.
LEMMA PrivateKeeps ==
  ASSUME RecordsInv, NEW k \in Account, NEW val \in BOOLEAN, NEW opens \in BOOLEAN,
         recstore_set_private(k, val, opens)
  PROVE  /\ RecListed(recs') /\ NotOlder(recs, recs') /\ save(recs', opens)
         /\ written' = Noted(recs', opens)
<1> DEFINE e == find(k)
           r == [recs[e] EXCEPT !.priv = val]
<1>1. RecListed(recs) /\ recs \in Seq(Record) /\ Len(recs) \in Nat
  BY DEF RecordsInv, RecListed
<1>2. e \in 1..Len(recs)
  BY <1>1, FindPlace DEF recstore_set_private
<1>3. recs[e] \in Record
  BY <1>1, <1>2, SeqNumber
<1>4. r \in Record /\ r.k = recs[e].k /\ r.seq = recs[e].seq
  BY <1>3 DEF Record
<1>5. recs' = [recs EXCEPT ![e] = r]
  BY DEF recstore_set_private
<1>6. /\ recs' \in Seq(Record) /\ Len(recs') = Len(recs)
      /\ \A i \in 1..Len(recs) : recs'[i] = IF i = e THEN r ELSE recs[i]
  <2> HIDE DEF r, e
  <2> QED
    BY <1>1, <1>2, <1>4, <1>5, ExceptSeq
<1>7. \A i \in 1..Len(recs) : recs'[i].k = recs[i].k /\ recs[i].seq \in Nat /\ recs'[i].seq = recs[i].seq
  <2> SUFFICES ASSUME NEW i \in 1..Len(recs)
               PROVE  recs'[i].k = recs[i].k /\ recs[i].seq \in Nat /\ recs'[i].seq = recs[i].seq
    OBVIOUS
  <2>1. recs[i].seq \in Nat
    BY <1>1, SeqNumber
  <2> HIDE DEF r, e
  <2> QED
    BY <1>4, <1>6, <2>1
<1>8. RecListed(recs')
  BY <1>1, <1>6, <1>7 DEF RecListed
<1>9. NotOlder(recs, recs')
  BY <1>6, <1>7 DEF NotOlder
<1> QED
  BY <1>8, <1>9 DEF recstore_set_private

\* Whatever saves fail and however often the node starts: one record per account in the
\* table, and what was written of an account is not gone back on while it is public
\* (recstore_accept, recstore_set_private, save, recstore_init), for every table size.
THEOREM RecordsStaySound == RecordsSpec => []RecordsSound
<1>1. RecordsInit => RecordsInv
  BY RecordsAssumption DEF RecordsInit, RecordsInv, RecListed, NotOlder, HasWritten
<1>2. RecordsInv /\ [RecordsNext]_recordVars => RecordsInv'
  <2> SUFFICES ASSUME RecordsInv, [RecordsNext]_recordVars PROVE RecordsInv'
    OBVIOUS
  <2>1. /\ RecListed(recs) /\ RecListed(file) /\ NotOlder(file, recs)
        /\ written \subseteq Account \X RecSeq /\ HasWritten(file)
    BY DEF RecordsInv
  <2>2. ASSUME NEW opens \in BOOLEAN, RecListed(recs'), NotOlder(recs, recs'),
               save(recs', opens), written' = Noted(recs', opens)
        PROVE  RecordsInv'
    <3>1. PICK table : table = recs'
      OBVIOUS
    <3>2. NotOlder(file, table)
      BY <2>1, <2>2, <3>1, NotOlderTrans
    <3>3. HasWritten(table)
      BY <2>1, <2>2, <3>1, <3>2, WrittenOn
    <3>4. RecListed(file') /\ NotOlder(file', table)
      BY <2>1, <2>2, <3>1, <3>2, SaveKeeps
    <3>5. written' \subseteq Account \X RecSeq /\ HasWritten(file)'
      BY <2>1, <2>2, <3>1, <3>3, SaveWrites
    <3> QED
      BY <2>2, <3>1, <3>4, <3>5 DEF RecordsInv
  <2>3. ASSUME NEW k \in Account, NEW opens \in BOOLEAN, NEW seq \in RecSeq,
               recstore_accept(k, seq, opens)
        PROVE  RecordsInv'
    BY <2>2, <2>3, AcceptKeeps
  <2>4. ASSUME NEW k \in Account, NEW opens \in BOOLEAN, NEW val \in BOOLEAN,
               recstore_set_private(k, val, opens)
        PROVE  RecordsInv'
    BY <2>2, <2>4, PrivateKeeps
  <2>5. CASE recstore_init
    <3>1. recs' = file /\ file' = file /\ written' = written
      BY <2>1, <2>5, RecordsAssumption DEF recstore_init, Loaded, RecListed
    <3>2. NotOlder(file, file)
      BY <2>1, SeqNumber DEF NotOlder
    <3> QED
      BY <2>1, <3>1, <3>2 DEF RecordsInv, HasWritten
  <2>6. CASE UNCHANGED recordVars
    BY <2>1, <2>6 DEF recordVars, RecordsInv, HasWritten
  <2> QED
    BY <2>3, <2>4, <2>5, <2>6 DEF RecordsNext
<1>3. RecordsInv => RecordsSound
  <2> SUFFICES ASSUME RecordsInv PROVE RecordsSound
    OBVIOUS
  <2>1. DOMAIN recs = 1..Len(recs)
    BY DEF RecordsInv, RecListed
  <2>2. \A i, j \in DOMAIN recs : recs[i].k = recs[j].k => i = j
    BY <2>1, Zenon DEF RecordsInv, RecListed
  <2>3. HasWritten(recs)
    BY WrittenOn DEF RecordsInv
  <2> QED
    BY <2>1, <2>2, <2>3, Zenon DEF RecordsSound, HasWritten
<1> QED
  BY <1>1, <1>2, <1>3, PTL DEF RecordsSpec

-----------------------------------------------------------------------------
(* Announced peers and tokens (NornMainline). *)

Peer == [ip : Ip, at : Nat]
Entry == [hash : InfoHash, peers : Seq(Peer)]

\* One of the tokens G of run r was given to p's address in the epoch p announced in,
\* or in the one before.
Vouched(p, G, r) ==
  \E t \in G : t.ip = p.ip /\ t.run = r /\ p.at \div TOKEN_EPOCH - t.epoch \in 0..1
PeersOK(ps, G, r) == ps \in Seq(Peer) /\ \A j \in 1..Len(ps) : Vouched(ps[j], G, r)
ServedOK(s, G, r) == s \in Seq(Entry) /\ \A i \in 1..Len(s) : PeersOK(s[i].peers, G, r)
TokenInv == now \in Nat /\ ServedOK(served, granted, run)

\* A valid token vouches for who announces with it.
LEMMA ValidVouches ==
  ASSUME now \in Nat, NEW ip, NEW G, NEW tok \in G, serve_token_valid(ip, tok)
  PROVE  Vouched([ip |-> ip, at |-> now], G, run)
<1>1. PICK e \in {Epoch, Epoch - 1} : tok = [ip |-> ip, epoch |-> e, run |-> run]
  BY DEF serve_token_valid
<1>2. Epoch \in Int
  BY MainlineAssumption DEF Epoch
<1>3. Epoch - e \in 0..1
  BY <1>1, <1>2
<1>4. now \div TOKEN_EPOCH = Epoch
  BY DEF Epoch
<1> QED
  BY <1>1, <1>3, <1>4 DEF Vouched

\* What is vouched for stays so when more tokens are handed out.
LEMMA MoreTokens ==
  ASSUME NEW s, NEW G, NEW H, G \subseteq H, NEW r, ServedOK(s, G, r)
  PROVE  ServedOK(s, H, r)
<1>1. ASSUME NEW p, Vouched(p, G, r) PROVE Vouched(p, H, r)
  BY <1>1 DEF Vouched
<1> QED
  BY <1>1 DEF ServedOK, PeersOK

\* The peers of an entry after one more announced itself.
LEMMA PeersWithOK ==
  ASSUME now \in Nat, NEW ps, NEW G, NEW r, PeersOK(ps, G, r), NEW ip \in Ip,
         Vouched([ip |-> ip, at |-> now], G, r)
  PROVE  PeersOK(PeersWith(ps, ip), G, r)
<1>1. PICK p \in Peer : p = [ip |-> ip, at |-> now]
  BY DEF Peer
<1>2. PICK q : q = Append(ps, p)
  OBVIOUS
<1>3. ps \in Seq(Peer) /\ Len(ps) \in Nat
  BY LenProperties DEF PeersOK
<1>4. /\ q \in Seq(Peer) /\ Len(q) = Len(ps) + 1
      /\ \A j \in 1..Len(ps) : q[j] = ps[j]
      /\ q[Len(ps) + 1] = p
  BY <1>2, <1>3, AppendProperties
<1>5. \A j \in 1..Len(q) : Vouched(q[j], G, r)
  BY <1>1, <1>3, <1>4 DEF PeersOK
<1>6. PeersOK(q, G, r)
  BY <1>4, <1>5 DEF PeersOK
<1>7. PeersOK(Tail(q), G, r)
  <2>1. q # <<>>
    BY <1>3, <1>4, EmptySeq
  <2>2. Tail(q) \in Seq(Peer) /\ Len(Tail(q)) = Len(q) - 1 /\ \A j \in 1..Len(Tail(q)) : Tail(q)[j] = q[j + 1]
    BY <1>4, <2>1, HeadTailProperties
  <2>3. \A j \in 1..Len(Tail(q)) : j + 1 \in 1..Len(q)
    BY <1>3, <1>4, <2>2
  <2> QED
    BY <1>5, <2>2, <2>3 DEF PeersOK
<1>8. PeersWith(ps, ip) \in {ps, q, Tail(q)}
  BY <1>1, <1>2 DEF PeersWith
<1> QED
  BY <1>6, <1>7, <1>8

\* The announced peers after one more announced itself.
LEMMA StoredOK ==
  ASSUME TokenInv, NEW hash \in InfoHash, NEW ip \in Ip, Vouched([ip |-> ip, at |-> now], granted, run)
  PROVE  ServedOK(serve_store_peer(hash, ip), granted, run)
<1>1. served \in Seq(Entry) /\ Len(served) \in Nat /\ now \in Nat
  BY LenProperties DEF TokenInv, ServedOK
<1>2. PICK known : known = SelectInSeq(served, LAMBDA e : e.hash = hash)
  OBVIOUS
<1>3. known # 0 => known \in 1..Len(served)
  <2> DEFINE I == {i \in 1..Len(served) : served[i].hash = hash}
  <2>1. known = IF I # {} THEN Min(I) ELSE 0
    BY <1>2 DEF SelectInSeq
  <2>2. ASSUME I # {} PROVE Min(I) \in I
    <3>1. I \in SUBSET (1..Len(served))
      OBVIOUS
    <3> HIDE DEF I
    <3> QED
      BY <1>1, <2>2, <3>1, MinIsThere
  <2> QED
    BY <2>1, <2>2
<1>4. PICK one : one = PeersWith(<<>>, ip)
  OBVIOUS
<1>5. PeersOK(one, granted, run)
  <2>1. PICK e : e = <<>>
    OBVIOUS
  <2>2. e \in Seq(Peer) /\ Len(e) = 0
    BY <2>1, EmptySeq
  <2>3. PeersOK(e, granted, run)
    BY <2>2 DEF PeersOK
  <2> QED
    BY <1>1, <1>4, <2>1, <2>3, PeersWithOK
<1>6. PICK first : first = [hash |-> hash, peers |-> one]
  OBVIOUS
<1>7. first \in Entry /\ first.peers = one
  BY <1>5, <1>6 DEF Entry, PeersOK
<1>8. PICK S : S = serve_store_peer(hash, ip)
  OBVIOUS
<1>9. CASE known # 0
  <2>1. PICK e \in Entry : e = served[known]
    BY <1>1, <1>3, <1>9, ElementOfSeq
  <2>2. PICK ps : ps = PeersWith(e.peers, ip)
    OBVIOUS
  <2>3. PeersOK(ps, granted, run)
    <3>1. PICK q : q = e.peers
      OBVIOUS
    <3>2. PeersOK(q, granted, run)
      BY <1>3, <1>9, <2>1, <3>1 DEF TokenInv, ServedOK
    <3>3. PeersOK(PeersWith(q, ip), granted, run)
      BY <1>1, <3>2, PeersWithOK
    <3> QED
      BY <2>2, <3>1, <3>3
  <2>4. PICK e2 : e2 = [e EXCEPT !.peers = ps]
    OBVIOUS
  <2>5. e2 \in Entry /\ e2.peers = ps
    BY <2>3, <2>4 DEF Entry, PeersOK
  <2>6. S = [served EXCEPT ![known] = e2]
    BY <1>2, <1>8, <1>9, <2>1, <2>2, <2>4 DEF serve_store_peer
  <2>7. S \in Seq(Entry) /\ Len(S) = Len(served)
        /\ \A i \in 1..Len(served) : S[i] = IF i = known THEN e2 ELSE served[i]
    BY <1>1, <1>3, <1>9, <2>5, <2>6, ExceptSeq
  <2>8. \A i \in 1..Len(S) : PeersOK(S[i].peers, granted, run)
    BY <2>3, <2>5, <2>7 DEF TokenInv, ServedOK
  <2> QED
    BY <1>8, <2>7, <2>8 DEF ServedOK
<1>10. CASE known = 0 /\ Len(served) < MAINLINE_SERVE_HASHES
  <2>1. S = Append(served, first)
    BY <1>2, <1>4, <1>6, <1>8, <1>10 DEF serve_store_peer
  <2>2. /\ S \in Seq(Entry) /\ Len(S) = Len(served) + 1
        /\ \A i \in 1..Len(served) : S[i] = served[i]
        /\ S[Len(served) + 1] = first
    BY <1>1, <1>7, <2>1, AppendProperties
  <2>3. \A i \in 1..Len(S) : PeersOK(S[i].peers, granted, run)
    BY <1>1, <1>5, <1>7, <2>2 DEF TokenInv, ServedOK
  <2> QED
    BY <1>8, <2>2, <2>3 DEF ServedOK
<1>11. CASE known = 0 /\ ~(Len(served) < MAINLINE_SERVE_HASHES)
  <2>1. S = [served EXCEPT ![1] = first]
    BY <1>2, <1>4, <1>6, <1>8, <1>11 DEF serve_store_peer
  <2>2. 1 \in 1..Len(served)
    BY <1>1, <1>11, MainlineAssumption
  <2>3. S \in Seq(Entry) /\ Len(S) = Len(served)
        /\ \A i \in 1..Len(served) : S[i] = IF i = 1 THEN first ELSE served[i]
    BY <1>1, <1>7, <2>1, <2>2, ExceptSeq
  <2>4. \A i \in 1..Len(S) : PeersOK(S[i].peers, granted, run)
    BY <1>5, <1>7, <2>3 DEF TokenInv, ServedOK
  <2> QED
    BY <1>8, <2>3, <2>4 DEF ServedOK
<1> QED
  BY <1>9, <1>10, <1>11


\* A step that stores no peer, of the same run, keeps what is served vouched for.
LEMMA TokensKept ==
  ASSUME TokenInv, served' = served, run' = run, granted \subseteq granted', now' \in Nat
  PROVE  TokenInv'
<1>1. ServedOK(served, granted', run)
  BY MoreTokens DEF TokenInv
<1> QED
  BY <1>1 DEF TokenInv

\* Every step keeps what is served vouched for.
LEMMA TokenStep ==
  ASSUME TokenInv, [Next]_vars
  PROVE  TokenInv'
<1>0. now \in Nat
  BY DEF TokenInv
<1>1. CASE FindNode \/ ExpireTransactions \/ mainline_evict_stale \/ Save
  BY <1>0, <1>1, TokensKept DEF FindNode, ExpireTransactions, mainline_evict_stale, Save, tableVars
<1>2. ASSUME NEW p \in Senders, NEW tid \in 1..MaxSteps, NEW c \in Senders, RecvReply(p, tid, c)
      PROVE  TokenInv'
  BY <1>0, <1>2, TokensKept DEF RecvReply
<1>3. ASSUME NEW p \in Senders, RecvPing(p) \/ RecvGetPeers(p) \/ RecvGet(p)
      PROVE  TokenInv'
  BY <1>0, <1>3, TokensKept DEF RecvPing, RecvGetPeers, RecvGet
<1>4. ASSUME NEW p \in Senders, NEW tok \in granted, NEW hash \in InfoHash, RecvAnnounce(p, hash, tok)
      PROVE  TokenInv'
  <2>1. UNCHANGED <<now, run, granted>>
    BY <1>4 DEF RecvAnnounce
  <2>2. CASE serve_token_valid(p.ip, tok)
    <3>1. PICK ip \in Ip : ip = p.ip
      BY MainlineAssumption
    <3>2. Vouched([ip |-> ip, at |-> now], granted, run)
      BY <1>0, <2>2, <3>1, ValidVouches
    <3>3. ServedOK(serve_store_peer(hash, ip), granted, run)
      BY <3>2, StoredOK
    <3>4. served' = serve_store_peer(hash, ip)
      BY <1>4, <2>2, <3>1 DEF RecvAnnounce
    <3> QED
      BY <1>0, <2>1, <3>3, <3>4 DEF TokenInv
  <2>3. CASE ~serve_token_valid(p.ip, tok)
    BY <1>0, <1>4, <2>1, <2>3, TokensKept DEF RecvAnnounce
  <2> QED
    BY <2>2, <2>3
<1>5. ASSUME NEW p \in Senders, NEW tok \in granted, NEW r \in Records, RecvPut(p, r, tok)
      PROVE  TokenInv'
  BY <1>0, <1>5, TokensKept DEF RecvPut
<1>6. ASSUME NEW i \in DOMAIN items, DelRecord(i) PROVE TokenInv'
  BY <1>0, <1>6, TokensKept DEF DelRecord
<1>7. CASE Restart
  <2>1. served' = <<>> /\ now' = now
    BY <1>7, Zenon DEF Restart
  <2>2. served' \in Seq(Entry) /\ Len(served') = 0
    BY <2>1, EmptySeq
  <2> QED
    BY <1>0, <2>1, <2>2 DEF TokenInv, ServedOK
<1>8. CASE Tick
  BY <1>0, <1>8, TokensKept DEF Tick
<1>9. CASE UNCHANGED vars
  BY <1>0, <1>9, TokensKept DEF vars
<1> QED
  BY <1>1, <1>2, <1>3, <1>4, <1>5, <1>6, <1>7, <1>8, <1>9 DEF Next

\* PeersHadToken: for every number of senders, addresses and hashes, and every clock, a
\* peer is served at an address only if that address had asked this run of the daemon
\* for a token, in the epoch of its announce or the one before (serve_token_valid,
\* serve_store_peer).
THEOREM PeersVouched == Spec => []PeersHadToken
<1>1. Init => TokenInv
  <2> SUFFICES ASSUME Init PROVE TokenInv
    OBVIOUS
  <2>1. served = <<>> /\ now = 0
    BY DEF Init
  <2>2. served \in Seq(Entry) /\ Len(served) = 0
    BY <2>1, EmptySeq
  <2> QED
    BY <2>1, <2>2 DEF TokenInv, ServedOK
<1>2. TokenInv /\ [Next]_vars => TokenInv'
  BY TokenStep
<1>3. TokenInv => PeersHadToken
  <2> SUFFICES ASSUME TokenInv, NEW i \in DOMAIN served, NEW j \in DOMAIN served[i].peers
               PROVE  Vouched(served[i].peers[j], granted, run)
    BY DEF PeersHadToken, Vouched
  <2>1. i \in 1..Len(served) /\ PeersOK(served[i].peers, granted, run)
    BY LenProperties DEF TokenInv, ServedOK
  <2>2. PICK ps : ps = served[i].peers
    OBVIOUS
  <2>3. j \in 1..Len(ps)
    BY <2>1, <2>2, LenProperties DEF PeersOK
  <2> QED
    BY <2>1, <2>2, <2>3 DEF PeersOK
<1> QED
  BY <1>1, <1>2, <1>3, PTL DEF Spec

-----------------------------------------------------------------------------
(* The queries a node waits on (NornMainline). *)

Waiting == [id : Nat, created : Nat]
IdsDiffer(L) == \A i, j \in 1..Len(L) : L[i].id = L[j].id => i = j
OpenOK(L, n) == L \in Seq(Waiting) /\ IdsDiffer(L) /\ \A i \in 1..Len(L) : L[i].id < n
AnswersOK(A, L, n) ==
  /\ A \in [1..MaxSteps -> Nat]
  /\ \A t \in 1..MaxSteps : A[t] # 0 => A[t] = 1 /\ t < n /\ \A i \in 1..Len(L) : L[i].id # t
QueryInv ==
  /\ now \in Nat /\ next_tid \in Nat
  /\ OpenOK(transactions, next_tid) /\ AnswersOK(answers, transactions, next_tid)

\* K holds some of the first m of L, no two of the same identifier.
SomeOf(K, L, m) ==
  K \in Seq(Waiting) /\ IdsDiffer(K) /\ \A i \in 1..Len(K) : \E j \in 1..m : K[i] = L[j]

\* Some of the open queries are open queries too.
LEMMA SomeAreOpen ==
  ASSUME NEW L, NEW n, NEW A, OpenOK(L, n), AnswersOK(A, L, n), NEW K, SomeOf(K, L, Len(L))
  PROVE  OpenOK(K, n) /\ AnswersOK(A, K, n)
<1>1. OpenOK(K, n)
  BY DEF OpenOK, SomeOf
<1>2. AnswersOK(A, K, n)
  BY DEF AnswersOK, SomeOf
<1> QED
  BY <1>1, <1>2

\* A list without its element at i.
LEMMA WithoutOne ==
  ASSUME NEW X, NEW s \in Seq(X), NEW i \in 1..Len(s)
  PROVE  /\ RemoveAt(s, i) \in Seq(X) /\ Len(RemoveAt(s, i)) = Len(s) - 1
         /\ \A j \in 1..(Len(s) - 1) : RemoveAt(s, i)[j] = IF j < i THEN s[j] ELSE s[j + 1]
<1>1. PICK n \in Nat : n = Len(s)
  BY LenProperties
<1>2. PICK a, b : a = SubSeq(s, 1, i - 1) /\ b = SubSeq(s, i + 1, n)
  OBVIOUS
<1>3. a \in Seq(X) /\ Len(a) = i - 1 /\ \A j \in 1..(i - 1) : a[j] = s[j]
  <2>1. 1 \in 1..(n + 1) /\ i - 1 \in 1-1..n
    BY <1>1
  <2> QED
    BY <1>1, <1>2, <2>1, SubSeqProperties
<1>4. b \in Seq(X) /\ Len(b) = n - i /\ \A j \in 1..(n - i) : b[j] = s[i + j]
  <2>1. i + 1 \in 1..(n + 1) /\ n \in (i + 1) - 1..n
    BY <1>1
  <2>2. b \in Seq(X) /\ Len(b) = n - (i + 1) + 1 /\ \A j \in 1..(n - (i + 1) + 1) : b[j] = s[(i + 1) + j - 1]
    BY <1>1, <1>2, <2>1, SubSeqProperties
  <2>3. n - (i + 1) + 1 = n - i /\ \A j \in 1..(n - i) : (i + 1) + j - 1 = i + j
    BY <1>1
  <2> QED
    BY <2>2, <2>3
<1>5. RemoveAt(s, i) = a \o b
  BY <1>1, <1>2 DEF RemoveAt
<1>6. /\ a \o b \in Seq(X) /\ Len(a \o b) = Len(a) + Len(b)
      /\ \A j \in 1..(Len(a) + Len(b)) : (a \o b)[j] = IF j <= Len(a) THEN a[j] ELSE b[j - Len(a)]
  BY <1>3, <1>4, ConcatProperties
<1>7. Len(a) + Len(b) = n - 1
  BY <1>1, <1>3, <1>4
<1>8. ASSUME NEW j \in 1..(n - 1) PROVE (a \o b)[j] = IF j < i THEN s[j] ELSE s[j + 1]
  <2>1. CASE j < i
    <3>1. j \in 1..(i - 1) /\ j <= Len(a)
      BY <1>1, <1>3, <2>1
    <3> QED
      BY <1>3, <1>6, <1>7, <2>1, <3>1
  <2>2. CASE ~(j < i)
    <3>1. PICK q \in 1..(n - i) : q = j - (i - 1)
      BY <1>1, <2>2
    <3>2. ~(j <= Len(a)) /\ j - Len(a) = q /\ i + q = j + 1
      BY <1>1, <1>3, <2>2, <3>1
    <3> QED
      BY <1>4, <1>6, <1>7, <2>2, <3>1, <3>2
  <2> QED
    BY <2>1, <2>2
<1> QED
  BY <1>1, <1>5, <1>6, <1>7, <1>8


\* What a look at query x leaves of K and x.
Look(K, x) == IF now - x.created > MAINLINE_TRANSACTION_TIMEOUT THEN K ELSE Append(K, x)

\* One more query is looked at.
LEMMA LookKeeps ==
  ASSUME NEW L \in Seq(Waiting), IdsDiffer(L), NEW m \in Nat, m + 1 <= Len(L), NEW K, SomeOf(K, L, m)
  PROVE  SomeOf(Look(K, L[m + 1]), L, m + 1)
<1>1. PICK l \in Nat : l = Len(L)
  BY LenProperties
<1>2. m + 1 \in 1..l /\ \A j \in 1..m : j \in 1..l /\ j \in 1..(m + 1) /\ j # m + 1
  BY <1>1
<1>3. PICK x \in Waiting : x = L[m + 1]
  BY <1>1, <1>2, ElementOfSeq
<1>4. SomeOf(K, L, m + 1)
  BY <1>2 DEF SomeOf
<1>5. PICK k \in Nat : k = Len(K)
  BY LenProperties DEF SomeOf
<1>6. PICK K2 : K2 = Append(K, x)
  OBVIOUS
<1>7. /\ K2 \in Seq(Waiting) /\ Len(K2) = k + 1 /\ K2[k + 1] = x
      /\ \A i \in 1..k : K2[i] = K[i]
  BY <1>5, <1>6, AppendProperties DEF SomeOf
<1>8. ASSUME NEW i \in 1..(k + 1) PROVE \E j \in 1..(m + 1) : K2[i] = L[j]
  <2>1. CASE i = k + 1
    BY <1>2, <1>3, <1>7, <2>1
  <2>2. CASE i # k + 1
    <3>1. i \in 1..k
      BY <2>2
    <3> QED
      BY <1>4, <1>5, <1>7, <3>1 DEF SomeOf
  <2> QED
    BY <2>1, <2>2
<1>9. \A i \in 1..k : K[i].id # x.id
  <2> SUFFICES ASSUME NEW i \in 1..k, K[i].id = x.id PROVE FALSE
    OBVIOUS
  <2>1. PICK j \in 1..m : K[i] = L[j]
    BY <1>5 DEF SomeOf
  <2>2. L[j].id = L[m + 1].id
    BY <1>3, <2>1
  <2> QED
    BY <1>1, <1>2, <2>2 DEF IdsDiffer
<1>10. IdsDiffer(K2)
  <2> SUFFICES ASSUME NEW i \in 1..(k + 1), NEW j \in 1..(k + 1), K2[i].id = K2[j].id PROVE i = j
    BY <1>7 DEF IdsDiffer
  <2>1. CASE i = k + 1 \/ j = k + 1
    <3>1. CASE i \in 1..k
      BY <1>7, <1>9, <2>1, <3>1
    <3>2. CASE j \in 1..k
      BY <1>7, <1>9, <2>1, <3>2
    <3> QED
      BY <3>1, <3>2
  <2>2. CASE i \in 1..k /\ j \in 1..k
    BY <1>5, <1>7, <2>2 DEF SomeOf, IdsDiffer
  <2> QED
    BY <2>1, <2>2
<1>11. SomeOf(K2, L, m + 1)
  BY <1>7, <1>8, <1>10 DEF SomeOf
<1> QED
  BY <1>3, <1>4, <1>6, <1>11 DEF Look

\* Unexpired is one look after the other.
LEMMA UnexpiredIs ==
  ASSUME NEW L, Len(L) \in Nat
  PROVE  \E T : /\ Unexpired(L) = T[Len(L)] /\ T[0] = <<>>
                /\ \A j \in 1..Len(L) : T[j] = Look(T[j - 1], L[j])
<1> DEFINE b0 == <<>>
           N == Len(L)
           F(g) == [j \in 0..N |-> IF j = 0 THEN b0 ELSE Look(g[j - 1], L[j])]
           S == {k \in Nat : \E g : g[0] = b0 /\ \A j \in 1..k : g[j] = Look(g[j - 1], L[j])}
<1>0. N \in Nat
  OBVIOUS
<1>1. 0 \in S
  <2>1. PICK b : b = b0
    OBVIOUS
  <2>2. PICK g : g = [i \in {0} |-> b]
    OBVIOUS
  <2>3. g[0] = b /\ \A j \in 1..0 : g[j] = Look(g[j - 1], L[j])
    BY <2>2
  <2> QED
    BY <2>1, <2>3
<1>2. ASSUME NEW k \in 0..N-1, k \in S PROVE k + 1 \in S
  <2>1. PICK g : g[0] = b0 /\ \A j \in 1..k : g[j] = Look(g[j - 1], L[j])
    BY <1>2
  <2>2. k \in Nat /\ k + 1 \in Nat
    BY <1>0
  <2>3. PICK y : y = Look(g[k], L[k + 1])
    OBVIOUS
  <2>4. PICK h : h = [i \in 0..(k + 1) |-> IF i <= k THEN g[i] ELSE y]
    OBVIOUS
  <2>5. h[k + 1] = y /\ \A i \in 0..k : h[i] = g[i]
    BY <2>2, <2>4
  <2>6. ASSUME NEW j \in 1..(k + 1) PROVE h[j] = Look(h[j - 1], L[j])
    <3>1. CASE j = k + 1
      <4>1. j - 1 = k /\ k \in 0..k
        BY <2>2, <3>1
      <4> QED
        BY <2>3, <2>5, <3>1, <4>1
    <3>2. CASE j # k + 1
      <4>1. j \in 1..k /\ j - 1 \in 0..k /\ j \in 0..k
        BY <2>2, <3>2
      <4> QED
        BY <2>1, <2>5, <4>1
    <3> QED
      BY <3>1, <3>2
  <2>7. h[0] = b0
    BY <2>1, <2>2, <2>5
  <2> QED
    BY <2>2, <2>6, <2>7
<1>3. N \in S
  <2> HIDE DEF S, N
  <2>1. \A k \in 0..N : k \in S
    BY <1>0, <1>1, <1>2, UpTo
  <2> QED
    BY <1>0, <2>1
<1>4. PICK g : g[0] = b0 /\ \A j \in 1..N : g[j] = Look(g[j - 1], L[j])
  BY <1>3
<1>5. \E x : x = F(x)
  <2> HIDE DEF N, b0
  <2>1. PICK x : x = [j \in 0..N |-> g[j]]
    OBVIOUS
  <2>2. x = F(x)
    <3>1. \A j \in 0..N : x[j] = g[j]
      BY <2>1
    <3>2. \A j \in 1..N : j - 1 \in 0..N /\ j \in 0..N
      BY <1>0
    <3>3. \A j \in 0..N : x[j] = IF j = 0 THEN b0 ELSE Look(x[j - 1], L[j])
      BY <1>0, <1>4, <3>1, <3>2
    <3> QED
      BY <2>1, <3>1, <3>3
  <2> QED
    BY <2>2
<1> DEFINE T == CHOOSE x : x = F(x)
<1>6. Unexpired(L) = T[N]
  BY DEF Unexpired, Look
<1>7. T = F(T)
  <2> HIDE DEF F
  <2> QED
    BY <1>5
<1> HIDE DEF T
<1>8. T[0] = b0 /\ \A j \in 1..N : T[j] = Look(T[j - 1], L[j])
  <2> HIDE DEF b0, N
  <2> QED
    BY <1>0, <1>7
<1> QED
  BY <1>6, <1>8

\* What is left of the open queries are some of them.
LEMMA UnexpiredAreSome ==
  ASSUME NEW L \in Seq(Waiting), IdsDiffer(L)
  PROVE  SomeOf(Unexpired(L), L, Len(L))
<1>1. PICK N \in Nat : N = Len(L)
  BY LenProperties
<1>2. PICK T : /\ Unexpired(L) = T[N] /\ T[0] = <<>>
               /\ \A j \in 1..N : T[j] = Look(T[j - 1], L[j])
  BY <1>1, UnexpiredIs
<1> DEFINE S == {k \in Nat : SomeOf(T[k], L, k)}
<1>3. 0 \in S
  <2>1. T[0] \in Seq(Waiting) /\ Len(T[0]) = 0
    BY <1>2, EmptySeq
  <2>2. SomeOf(T[0], L, 0)
    BY <2>1 DEF SomeOf, IdsDiffer
  <2> QED
    BY <2>2
<1>4. ASSUME NEW k \in 0..N-1, k \in S PROVE k + 1 \in S
  <2>1. k \in Nat /\ k + 1 \in 1..N /\ (k + 1) - 1 = k /\ k + 1 \in Nat /\ k + 1 <= Len(L)
    BY <1>1
  <2>2. T[k + 1] = Look(T[k], L[k + 1])
    BY <1>2, <2>1
  <2>3. SomeOf(Look(T[k], L[k + 1]), L, k + 1)
    BY <1>4, <2>1, LookKeeps
  <2> QED
    BY <2>1, <2>2, <2>3
<1>5. N \in S
  <2> HIDE DEF S
  <2>1. \A k \in 0..N : k \in S
    BY <1>1, <1>3, <1>4, UpTo
  <2> QED
    BY <1>1, <2>1
<1> QED
  BY <1>1, <1>2, <1>5


\* The identifiers of queries are numbers.
LEMMA IdsAreNumbers ==
  ASSUME NEW L \in Seq(Waiting), NEW i \in 1..Len(L)
  PROVE  L[i].id \in Nat
<1>1. PICK x \in Waiting : x = L[i]
  BY ElementOfSeq
<1>2. x.id \in Nat
  BY DEF Waiting
<1> QED
  BY <1>1, <1>2

\* A query is sent, and remembered if there is room.
LEMMA QuerySent ==
  ASSUME QueryInv, FindNode
  PROVE  QueryInv'
<1>0. PICK n \in Nat : n = next_tid
  BY DEF QueryInv
<1>1. PICK L, A : L = transactions /\ A = answers
  OBVIOUS
<1>2. now' = now /\ now \in Nat /\ next_tid' = n + 1 /\ answers' = A /\ OpenOK(L, n) /\ AnswersOK(A, L, n)
  BY <1>0, <1>1 DEF QueryInv, FindNode
<1>3. OpenOK(L, n + 1) /\ AnswersOK(A, L, n + 1)
  <2>1. \A x \in Nat : x < n => x < n + 1
    OBVIOUS
  <2>2. \A i \in 1..Len(L) : L[i].id \in Nat
    BY <1>2, IdsAreNumbers DEF OpenOK
  <2>3. \A t \in 1..MaxSteps : t \in Nat
    BY MainlineAssumption
  <2>4. OpenOK(L, n + 1)
    BY <1>2, <2>1, <2>2 DEF OpenOK
  <2>5. AnswersOK(A, L, n + 1)
    BY <1>2, <2>1, <2>3 DEF AnswersOK
  <2> QED
    BY <2>4, <2>5
<1>4. CASE transactions' = L
  BY <1>2, <1>3, <1>4 DEF QueryInv
<1>5. CASE transactions' = Append(L, [id |-> n, created |-> now])
  <2>0. PICK x : x = [id |-> n, created |-> now]
    OBVIOUS
  <2>1. x \in Waiting /\ x = [id |-> n, created |-> now] /\ x.id = n
    BY <1>2, <2>0 DEF Waiting
  <2>2. PICK l \in Nat : l = Len(L)
    BY <1>2, LenProperties DEF OpenOK
  <2>3. PICK K : K = Append(L, x)
    OBVIOUS
  <2>4. K \in Seq(Waiting) /\ Len(K) = l + 1 /\ K[l + 1] = x /\ \A i \in 1..l : K[i] = L[i]
    <3>1. L \in Seq(Waiting) /\ x \in Waiting
      BY <1>2, <2>1 DEF OpenOK
    <3> QED
      BY <2>2, <2>3, <3>1, AppendProperties
  <2>5. \A i \in 1..l : L[i].id < n /\ L[i].id \in Nat
    BY <1>2, <2>2, IdsAreNumbers DEF OpenOK
  <2>6. ASSUME NEW i \in 1..(l + 1) PROVE K[i].id < n + 1 /\ (i # l + 1 => K[i].id < n /\ i \in 1..l)
    BY <2>1, <2>4, <2>5
  <2>7. IdsDiffer(K)
    <3> SUFFICES ASSUME NEW i \in 1..(l + 1), NEW j \in 1..(l + 1), K[i].id = K[j].id PROVE i = j
      BY <2>4 DEF IdsDiffer
    <3>1. CASE i = l + 1 \/ j = l + 1
      BY <2>1, <2>4, <2>6, <3>1
    <3>2. CASE i # l + 1 /\ j # l + 1
      BY <1>2, <2>2, <2>4, <2>6, <3>2 DEF OpenOK, IdsDiffer
    <3> QED
      BY <3>1, <3>2
  <2>8. OpenOK(K, n + 1)
    BY <2>4, <2>6, <2>7 DEF OpenOK
  <2>9. AnswersOK(A, K, n + 1)
    <3> SUFFICES ASSUME NEW t \in 1..MaxSteps, A[t] # 0
                 PROVE  A[t] = 1 /\ t < n + 1 /\ \A i \in 1..Len(K) : K[i].id # t
      BY <1>2 DEF AnswersOK
    <3>1. t \in Nat /\ A[t] = 1 /\ t < n /\ \A i \in 1..l : L[i].id # t
      BY <1>2, <2>2, MainlineAssumption DEF AnswersOK
    <3>2. \A i \in 1..(l + 1) : K[i].id # t
      BY <2>1, <2>4, <2>6, <3>1
    <3> QED
      BY <2>4, <3>1, <3>2
  <2> QED
    BY <1>2, <1>5, <2>1, <2>3, <2>8, <2>9 DEF QueryInv
<1> QED
  BY <1>0, <1>1, <1>4, <1>5 DEF FindNode

\* A reply is taken: its query is open no more, and it was not answered before.
LEMMA ReplyTaken ==
  ASSUME QueryInv, NEW p, NEW tid \in 1..MaxSteps, NEW c, RecvReply(p, tid, c)
  PROVE  QueryInv'
<1>0. PICK n \in Nat : n = next_tid
  BY DEF QueryInv
<1>1. PICK L, A : L = transactions /\ A = answers
  OBVIOUS
<1>2. now' = now /\ now \in Nat /\ next_tid' = n /\ OpenOK(L, n) /\ AnswersOK(A, L, n)
  BY <1>0, <1>1 DEF QueryInv, RecvReply
<1>3. PICK l \in Nat : l = Len(L)
  BY <1>2, LenProperties DEF OpenOK
<1> DEFINE I == {i \in 1..Len(L) : L[i].id = tid}
<1>4. PICK o : o = SelectInSeq(L, LAMBDA x : x.id = tid)
  OBVIOUS
<1>5. o = IF I # {} THEN Min(I) ELSE 0
  BY <1>4 DEF SelectInSeq
<1>6. o # 0 /\ transactions' = RemoveAt(L, o) /\ answers' = [A EXCEPT ![tid] = A[tid] + 1] /\ tid < n
  BY <1>0, <1>1, <1>4 DEF RecvReply, Consumed
<1>7. o \in 1..l /\ L[o].id = tid
  <2>1. I \in SUBSET (1..l) /\ I # {}
    BY <1>3, <1>5, <1>6
  <2>2. o \in I
    <3> HIDE DEF I
    <3> QED
      BY <1>5, <2>1, MinIsThere
  <2> QED
    BY <1>3, <2>2
<1>8. PICK K : K = RemoveAt(L, o)
  OBVIOUS
<1>9. /\ K \in Seq(Waiting) /\ Len(K) = l - 1
      /\ \A j \in 1..(l - 1) : K[j] = IF j < o THEN L[j] ELSE L[j + 1]
  BY <1>2, <1>3, <1>7, <1>8, WithoutOne DEF OpenOK
<1>10. ASSUME NEW j \in 1..(l - 1) PROVE \E q \in 1..l : q # o /\ K[j] = L[q] /\ q = IF j < o THEN j ELSE j + 1
  <2>1. CASE j < o
    BY <1>3, <1>7, <1>9, <2>1
  <2>2. CASE ~(j < o)
    BY <1>3, <1>7, <1>9, <2>2
  <2> QED
    BY <2>1, <2>2
<1>11. \A j \in 1..(l - 1) : K[j].id # tid
  BY <1>2, <1>3, <1>7, <1>10 DEF OpenOK, IdsDiffer
<1>12. IdsDiffer(K)
  <2> SUFFICES ASSUME NEW i \in 1..(l - 1), NEW j \in 1..(l - 1), K[i].id = K[j].id PROVE i = j
    BY <1>9 DEF IdsDiffer
  <2>1. PICK x \in 1..l : K[i] = L[x] /\ x = IF i < o THEN i ELSE i + 1
    BY <1>10
  <2>2. PICK y \in 1..l : K[j] = L[y] /\ y = IF j < o THEN j ELSE j + 1
    BY <1>10
  <2>3. x = y
    BY <1>2, <1>3, <2>1, <2>2 DEF OpenOK, IdsDiffer
  <2> QED
    BY <1>7, <2>1, <2>2, <2>3
<1>13. SomeOf(K, L, Len(L))
  BY <1>3, <1>9, <1>10, <1>12 DEF SomeOf
<1>14. OpenOK(K, n) /\ AnswersOK(A, K, n)
  BY <1>2, <1>13, SomeAreOpen
<1>15. A[tid] = 0
  BY <1>2, <1>3, <1>7 DEF AnswersOK
<1>16. PICK B : B = [A EXCEPT ![tid] = A[tid] + 1]
  OBVIOUS
<1>17. B \in [1..MaxSteps -> Nat] /\ B[tid] = 1 /\ \A t \in 1..MaxSteps : t # tid => B[t] = A[t]
  BY <1>14, <1>15, <1>16 DEF AnswersOK
<1>18. AnswersOK(B, K, n)
  <2> SUFFICES ASSUME NEW t \in 1..MaxSteps, B[t] # 0
               PROVE  B[t] = 1 /\ t < n /\ \A i \in 1..Len(K) : K[i].id # t
    BY <1>17 DEF AnswersOK
  <2>1. CASE t = tid
    BY <1>6, <1>9, <1>11, <1>17, <2>1
  <2>2. CASE t # tid
    BY <1>14, <1>17, <2>2 DEF AnswersOK
  <2> QED
    BY <2>1, <2>2
<1> QED
  BY <1>2, <1>6, <1>8, <1>14, <1>16, <1>18 DEF QueryInv

\* Every step keeps the queries in order.
LEMMA QueryStep ==
  ASSUME QueryInv, [Next]_vars
  PROVE  QueryInv'
<1>0. now \in Nat /\ next_tid \in Nat
  BY DEF QueryInv
<1>1. ASSUME now' \in Nat, UNCHANGED <<transactions, next_tid, answers>> PROVE QueryInv'
  BY <1>1 DEF QueryInv
<1>2. CASE FindNode
  BY <1>2, QuerySent
<1>3. ASSUME NEW p \in Senders, NEW tid \in 1..MaxSteps, NEW c \in Senders, RecvReply(p, tid, c)
      PROVE  QueryInv'
  BY <1>3, ReplyTaken
<1>4. ASSUME NEW p \in Senders, RecvPing(p) \/ RecvGetPeers(p) \/ RecvGet(p)
      PROVE  QueryInv'
  BY <1>0, <1>1, <1>4 DEF RecvPing, RecvGetPeers, RecvGet
<1>5. ASSUME NEW p \in Senders, NEW tok \in granted, NEW hash \in InfoHash, RecvAnnounce(p, hash, tok)
      PROVE  QueryInv'
  BY <1>0, <1>1, <1>5 DEF RecvAnnounce
<1>6. ASSUME NEW p \in Senders, NEW tok \in granted, NEW r \in Records, RecvPut(p, r, tok)
      PROVE  QueryInv'
  BY <1>0, <1>1, <1>6 DEF RecvPut
<1>7. CASE ExpireTransactions
  <2>1. PICK n, L, A : n = next_tid /\ L = transactions /\ A = answers
    OBVIOUS
  <2>2. OpenOK(L, n) /\ AnswersOK(A, L, n)
    BY <2>1 DEF QueryInv
  <2>3. SomeOf(Unexpired(L), L, Len(L))
    BY <2>2, UnexpiredAreSome DEF OpenOK
  <2>4. OpenOK(Unexpired(L), n) /\ AnswersOK(A, Unexpired(L), n)
    BY <2>2, <2>3, SomeAreOpen
  <2>5. transactions' = Unexpired(L) /\ UNCHANGED <<now, next_tid, answers>>
    BY <1>7, <2>1 DEF ExpireTransactions
  <2> QED
    BY <1>0, <2>1, <2>4, <2>5 DEF QueryInv
<1>8. CASE mainline_evict_stale \/ Save
  BY <1>0, <1>1, <1>8 DEF mainline_evict_stale, Save, tableVars
<1>9. ASSUME NEW i \in DOMAIN items, DelRecord(i) PROVE QueryInv'
  BY <1>0, <1>1, <1>9 DEF DelRecord, tableVars
<1>10. CASE Restart
  <2>1. transactions' = <<>> /\ UNCHANGED <<now, next_tid, answers>>
    BY <1>10, Zenon DEF Restart
  <2>2. transactions' \in Seq(Waiting) /\ Len(transactions') = 0
    BY <2>1, EmptySeq
  <2>3. OpenOK(transactions', next_tid)
    BY <2>2 DEF OpenOK, IdsDiffer
  <2>4. AnswersOK(answers, transactions', next_tid)
    BY <2>2 DEF QueryInv, AnswersOK
  <2> QED
    BY <1>0, <2>1, <2>3, <2>4 DEF QueryInv
<1>11. CASE Tick
  BY <1>0, <1>1, <1>11 DEF Tick, tableVars
<1>12. CASE UNCHANGED vars
  BY <1>0, <1>1, <1>12 DEF vars, tableVars
<1> QED
  BY <1>2, <1>3, <1>4, <1>5, <1>6, <1>7, <1>8, <1>9, <1>10, <1>11, <1>12 DEF Next

\* OneAnswerPerQuery: for every number of queries and every size of the transaction
\* table, a query's answer is processed at most once, however often and late replies
\* come, and whether its query was dropped or forgotten (mainline_process_packet,
\* mainline_process_transactions).
THEOREM AnsweredOnce == Spec => []OneAnswerPerQuery
<1>1. Init => QueryInv
  <2> SUFFICES ASSUME Init PROVE QueryInv
    OBVIOUS
  <2>1. now = 0 /\ next_tid = 1 /\ transactions = <<>> /\ answers = [t \in 1..MaxSteps |-> 0]
    BY DEF Init
  <2>2. transactions \in Seq(Waiting) /\ Len(transactions) = 0
    BY <2>1, EmptySeq
  <2>3. OpenOK(transactions, next_tid)
    BY <2>2 DEF OpenOK, IdsDiffer
  <2>4. AnswersOK(answers, transactions, next_tid)
    BY <2>1 DEF AnswersOK
  <2> QED
    BY <2>1, <2>3, <2>4 DEF QueryInv
<1>2. QueryInv /\ [Next]_vars => QueryInv'
  BY QueryStep
<1>3. QueryInv => OneAnswerPerQuery
  BY DEF QueryInv, AnswersOK, OneAnswerPerQuery
<1> QED
  BY <1>1, <1>2, <1>3, PTL DEF Spec

-----------------------------------------------------------------------------
(* Lookups (NornLookup): the candidates. *)

\* Candidates whose token, if there is one, is their own.
Own == {c \in Candidate : c.token \in {None, c.addr}}
NewCand(c) ==
  [id |-> c.id, addr |-> c.addr, token |-> None, queried |-> FALSE, pref |-> c.id \in net.pref]
Has(t, x) == \E i \in 1..Len(t) : t[i] = x
HasId(t, id) == \E i \in 1..Len(t) : t[i].id = id
IdsOnce(t) == \A i, j \in 1..Len(t) : t[i].id = t[j].id => i = j

\* t is what the list s becomes when the contacts C are inserted: nothing else comes in,
\* and as long as there is room nothing is left out.
Grown(s, t, C) ==
  /\ t \in Seq(Own) /\ Len(s) <= Len(t)
  /\ Len(s) <= LOOK_MAX_CAND => Len(t) <= LOOK_MAX_CAND
  /\ IdsOnce(s) => IdsOnce(t)
  /\ \A i \in 1..Len(t) : Has(s, t[i]) \/ \E c \in C : t[i] = NewCand(c)
  /\ Len(t) < LOOK_MAX_CAND => /\ \A i \in 1..Len(s) : Has(t, s[i])
                               /\ \A c \in C : HasId(t, c.id)

\* A set of places that is not empty has a last one.
LEMMA MaxIsThere ==
  ASSUME NEW n \in Nat, NEW S \in SUBSET (1..n), S # {}
  PROVE  Max(S) \in S /\ \A j \in S : j <= Max(S)
<1> DEFINE R == {n + 1 - i : i \in S}
<1>1. R \in SUBSET (1..n) /\ R # {}
  <2>1. \A i \in S : i \in 1..n /\ n + 1 - i \in 1..n
    OBVIOUS
  <2>2. \A x \in R : x \in 1..n
    BY <2>1
  <2>3. PICK i \in S : TRUE
    OBVIOUS
  <2>4. n + 1 - i \in R
    OBVIOUS
  <2> QED
    BY <2>2, <2>4
<1>2. PICK m \in R : \A j \in R : m <= j
  <2> HIDE DEF R
  <2> QED
    BY <1>1, MinIsThere
<1>3. PICK i \in S : m = n + 1 - i
  BY <1>2
<1>4. \A j \in S : j <= i
  <2> SUFFICES ASSUME NEW j \in S PROVE j <= i
    OBVIOUS
  <2>1. n + 1 - j \in R
    OBVIOUS
  <2>2. m <= n + 1 - j
    BY <1>2, <2>1
  <2> QED
    BY <1>3, <2>2
<1>5. PICK x : x = Max(S)
  OBVIOUS
<1>6. x \in S /\ \A j \in S : x >= j
  <2>1. \E y \in S : \A j \in S : y >= j
    BY <1>4
  <2> QED
    BY <1>5, <2>1 DEF Max
<1> QED
  BY <1>5, <1>6

\* t is s with e at place p.
OneMore(t, s, p, e, X) ==
  /\ t \in Seq(X) /\ Len(t) = Len(s) + 1
  /\ \A j \in 1..(Len(s) + 1) : t[j] = IF j < p THEN s[j] ELSE IF j = p THEN e ELSE s[j - 1]

\* A list with one more element at p.
LEMMA WithOneMore ==
  ASSUME NEW X, NEW s \in Seq(X), NEW p \in 1..(Len(s) + 1), NEW e \in X
  PROVE  OneMore(InsertAt(s, p, e), s, p, e, X)
<1>1. PICK n \in Nat : n = Len(s)
  BY LenProperties
<1>2. PICK a, b : a = SubSeq(s, 1, p - 1) /\ b = SubSeq(s, p, n)
  OBVIOUS
<1>3. \A i \in 1..n : s[i] \in X
  BY <1>1, ElementOfSeq
<1>4. a \in Seq(X) /\ Len(a) = p - 1 /\ \A j \in 1..(p - 1) : a[j] = s[j]
  <2>1. \A i \in 1..(p - 1) : s[i] \in X
    BY <1>1, <1>3
  <2> QED
    BY <1>1, <1>2, <2>1, SubSeqProperties
<1>5. b \in Seq(X) /\ Len(b) = n - p + 1 /\ \A j \in 1..(n - p + 1) : b[j] = s[p + j - 1]
  <2>1. \A i \in p..n : s[i] \in X
    BY <1>1, <1>3
  <2>2. (IF p <= n THEN n - p + 1 ELSE 0) = n - p + 1
    BY <1>1
  <2> QED
    BY <1>1, <1>2, <2>1, <2>2, SubSeqProperties
<1>6. PICK y : y = <<e>> /\ y \in Seq(X) /\ Len(y) = 1 /\ y[1] = e
  <2>1. <<e>> \in Seq(X) /\ Len(<<e>>) = 1 /\ <<e>>[1] = e
    OBVIOUS
  <2> QED
    BY <2>1
<1>7. PICK d : d = a \o y
  OBVIOUS
<1>8. /\ d \in Seq(X) /\ Len(d) = p
      /\ \A j \in 1..p : d[j] = IF j < p THEN s[j] ELSE e
  <2>1. /\ d \in Seq(X) /\ Len(d) = Len(a) + Len(y)
        /\ \A j \in 1..(Len(a) + Len(y)) : d[j] = IF j <= Len(a) THEN a[j] ELSE y[j - Len(a)]
    BY <1>4, <1>6, <1>7, ConcatProperties
  <2>2. Len(a) + Len(y) = p
    BY <1>1, <1>4, <1>6
  <2>3. ASSUME NEW j \in 1..p PROVE d[j] = IF j < p THEN s[j] ELSE e
    <3>1. CASE j < p
      <4>1. j \in 1..(p - 1) /\ j <= Len(a)
        BY <1>1, <1>4, <3>1
      <4> QED
        BY <1>4, <2>1, <2>2, <3>1, <4>1
    <3>2. CASE ~(j < p)
      <4>1. ~(j <= Len(a)) /\ j - Len(a) = 1
        BY <1>1, <1>4, <3>2
      <4> QED
        BY <1>6, <2>1, <2>2, <3>2, <4>1
    <3> QED
      BY <3>1, <3>2
  <2> QED
    BY <2>1, <2>2, <2>3
<1>9. InsertAt(s, p, e) = d \o b
  BY <1>1, <1>2, <1>6, <1>7 DEF InsertAt
<1>10. /\ d \o b \in Seq(X) /\ Len(d \o b) = Len(d) + Len(b)
       /\ \A j \in 1..(Len(d) + Len(b)) : (d \o b)[j] = IF j <= Len(d) THEN d[j] ELSE b[j - Len(d)]
  BY <1>5, <1>8, ConcatProperties
<1>11. Len(d) + Len(b) = n + 1
  BY <1>1, <1>5, <1>8
<1>12. ASSUME NEW j \in 1..(n + 1)
       PROVE  (d \o b)[j] = IF j < p THEN s[j] ELSE IF j = p THEN e ELSE s[j - 1]
  <2>1. CASE j <= p
    <3>1. j \in 1..p /\ j <= Len(d)
      BY <1>1, <1>8, <2>1
    <3>2. (d \o b)[j] = d[j]
      BY <1>10, <1>11, <3>1
    <3> QED
      BY <1>1, <1>8, <2>1, <3>1, <3>2
  <2>2. CASE ~(j <= p)
    <3>1. PICK q \in 1..(n - p + 1) : q = j - p
      BY <1>1, <2>2
    <3>2. ~(j <= Len(d)) /\ j - Len(d) = q /\ p + q - 1 = j - 1 /\ ~(j < p) /\ j # p
      BY <1>1, <1>8, <2>2, <3>1
    <3> QED
      BY <1>5, <1>10, <1>11, <3>1, <3>2
  <2> QED
    BY <2>1, <2>2
<1> QED
  BY <1>1, <1>9, <1>10, <1>11, <1>12 DEF OneMore


\* A list that stays as it is.
LEMMA GrownSame ==
  ASSUME NEW s \in Seq(Own), NEW C, Len(s) < LOOK_MAX_CAND => \A c \in C : HasId(s, c.id)
  PROVE  Grown(s, s, C)
<1>1. Len(s) \in Nat
  BY LenProperties
<1>2. \A i \in 1..Len(s) : Has(s, s[i])
  BY DEF Has
<1> QED
  BY <1>1, <1>2 DEF Grown

\* Where a candidate goes.
LEMMA PlaceIn ==
  ASSUME NEW s \in Seq(Own), NEW id
  PROVE  Place(s, id) \in 1..(Len(s) + 1)
<1>1. PICK n \in Nat : n = Len(s)
  BY LenProperties
<1> DEFINE I == {i \in 1..Len(s) : s[i].id > id}
<1>2. PICK x : x = SelectLastInSeq(s, LAMBDA y : y.id > id)
  OBVIOUS
<1>3. x = IF I # {} THEN Max(I) ELSE 0
  BY <1>2 DEF SelectLastInSeq
<1>4. x \in 0..n
  <2>1. I \in SUBSET (1..n)
    BY <1>1
  <2> HIDE DEF I
  <2>2. I # {} => Max(I) \in I
    BY <2>1, MaxIsThere
  <2>3. CASE I = {}
    BY <1>3, <2>3
  <2>4. CASE I # {}
    <3>1. x \in I
      BY <1>3, <2>2, <2>4
    <3>2. x \in 1..n
      BY <2>1, <3>1
    <3> QED
      BY <3>2
  <2> QED
    BY <2>3, <2>4
<1>5. Place(s, id) = x + 1
  BY <1>2 DEF Place
<1> QED
  BY <1>1, <1>4, <1>5

\* A new candidate is one of its own.
LEMMA NewIsOwn ==
  ASSUME NEW c \in Contact
  PROVE  NewCand(c) \in Own /\ NewCand(c).id = c.id /\ NewCand(c).addr = c.addr
         /\ NewCand(c).token = None /\ NewCand(c).queried = FALSE
<1>1. c.id \in Id /\ c.addr \in Addr
  BY DEF Contact
<1>2. PICK x : x = NewCand(c)
  OBVIOUS
<1>3. x \in Candidate /\ x.token = None
  BY <1>1, <1>2 DEF NewCand, Candidate
<1> QED
  BY <1>2, <1>3 DEF NewCand, Own

\* A contact that is not in the list is inserted, the last candidate of a full list
\* making place for it.
LEMMA InsertedThere ==
  ASSUME NEW s \in Seq(Own), NEW c \in Contact, ~HasId(s, c.id), NEW k,
         k = IF Len(s) >= LOOK_MAX_CAND THEN Front(s) ELSE s
  PROVE  Grown(s, InsertAt(k, Place(k, c.id), NewCand(c)), {c})
<1>1. PICK n \in Nat : n = Len(s)
  BY LenProperties
<1>2. LOOK_MAX_CAND \in Nat /\ LOOK_MAX_CAND # 0
  BY LookupAssumption
<1>3. PICK m \in Nat : m = IF n >= LOOK_MAX_CAND THEN n - 1 ELSE n
  BY <1>1, <1>2
<1>4. k \in Seq(Own) /\ Len(k) = m /\ \A i \in 1..m : k[i] = s[i]
  <2>1. CASE n >= LOOK_MAX_CAND
    <3>1. s # <<>>
      BY <1>1, <1>2, <2>1, EmptySeq
    <3>2. \A i \in 1..(n - 1) : s[i] \in Own
      BY <1>1, ElementOfSeq
    <3>3. PICK f : f = SubSeq(s, 1, n - 1)
      OBVIOUS
    <3>4. f \in Seq(Own) /\ Len(f) = n - 1 /\ \A i \in 1..(n - 1) : f[i] = s[i]
      <4>1. (IF 1 <= n - 1 THEN n - 1 - 1 + 1 ELSE 0) = n - 1
        BY <1>1, <1>2, <2>1
      <4>2. \A i \in 1..(n - 1) : 1 + i - 1 = i
        BY <1>1
      <4> QED
        BY <1>1, <3>2, <3>3, <4>1, <4>2, SubSeqProperties
    <3>5. k = f
      BY <1>1, <2>1, <3>3 DEF Front
    <3> QED
      BY <1>3, <2>1, <3>4, <3>5
  <2>2. CASE ~(n >= LOOK_MAX_CAND)
    BY <1>1, <1>3, <2>2
  <2> QED
    BY <2>1, <2>2
<1>5. PICK p \in 1..(m + 1) : p = Place(k, c.id)
  BY <1>4, PlaceIn
<1>6. PICK e \in Own : e = NewCand(c) /\ e.id = c.id
  BY NewIsOwn
<1>7. PICK t : t = InsertAt(k, p, e)
  OBVIOUS
<1>8. /\ t \in Seq(Own) /\ Len(t) = m + 1
      /\ \A j \in 1..(m + 1) : t[j] = IF j < p THEN k[j] ELSE IF j = p THEN e ELSE k[j - 1]
  <2>1. k \in Seq(Own) /\ p \in 1..(Len(k) + 1)
    BY <1>4
  <2>2. /\ t \in Seq(Own) /\ Len(t) = Len(k) + 1
        /\ \A j \in 1..(Len(k) + 1) : t[j] = IF j < p THEN k[j] ELSE IF j = p THEN e ELSE k[j - 1]
    <3>1. e \in Own
      BY <1>6
    <3>2. OneMore(InsertAt(k, p, e), k, p, e, Own)
      BY <2>1, <3>1, WithOneMore
    <3> QED
      BY <1>7, <3>2 DEF OneMore
  <2> QED
    BY <1>4, <2>2
<1>9. ASSUME NEW j \in 1..(m + 1)
      PROVE  \/ j = p /\ t[j] = e
             \/ \E i \in 1..n : j # p /\ i \in 1..m /\ t[j] = s[i] /\ i = IF j < p THEN j ELSE j - 1
  <2>0. m <= n
    BY <1>3
  <2>1. CASE j < p
    <3>1. j \in 1..m /\ j \in 1..n
      BY <1>1, <2>0, <2>1
    <3>2. t[j] = s[j]
      BY <1>4, <1>8, <2>1, <3>1
    <3>3. j # p
      BY <2>1
    <3> QED
      BY <2>1, <3>1, <3>2, <3>3
  <2>2. CASE j = p
    BY <1>8, <2>2
  <2>3. CASE j > p
    <3>1. j - 1 \in 1..m /\ j - 1 \in 1..n /\ ~(j < p) /\ j # p
      BY <1>1, <2>0, <2>3
    <3>2. t[j] = s[j - 1]
      BY <1>4, <1>8, <3>1
    <3> QED
      BY <3>1, <3>2
  <2> QED
    BY <2>1, <2>2, <2>3
<1>10. \A i \in 1..n : s[i].id # c.id
  BY <1>1 DEF HasId
<1>11. IdsOnce(s) => IdsOnce(t)
  <2> SUFFICES ASSUME IdsOnce(s), NEW i \in 1..(m + 1), NEW j \in 1..(m + 1), t[i].id = t[j].id
               PROVE  i = j
    BY <1>8 DEF IdsOnce
  <2>1. CASE i = p \/ j = p
    BY <1>6, <1>9, <1>10, <2>1
  <2>2. CASE i # p /\ j # p
    <3>1. PICK x \in 1..n : t[i] = s[x] /\ x = IF i < p THEN i ELSE i - 1
      BY <1>9, <2>2
    <3>2. PICK y \in 1..n : t[j] = s[y] /\ y = IF j < p THEN j ELSE j - 1
      BY <1>9, <2>2
    <3>3. x = y
      BY <1>1, <3>1, <3>2 DEF IdsOnce
    <3> QED
      BY <2>2, <3>1, <3>2, <3>3
  <2> QED
    BY <2>1, <2>2
<1>12. ASSUME NEW j \in 1..Len(t) PROVE Has(s, t[j]) \/ \E d \in {c} : t[j] = NewCand(d)
  BY <1>1, <1>6, <1>8, <1>9 DEF Has
<1>13. HasId(t, c.id)
  BY <1>6, <1>8 DEF HasId
<1>14. ASSUME Len(t) < LOOK_MAX_CAND, NEW i \in 1..Len(s) PROVE Has(t, s[i])
  <2>1. m = n
    BY <1>1, <1>2, <1>3, <1>8, <1>14
  <2>2. CASE i < p
    <3>1. i \in 1..(m + 1) /\ t[i] = s[i]
      BY <1>1, <1>4, <1>8, <2>1, <2>2
    <3> QED
      BY <1>8, <3>1 DEF Has
  <2>3. CASE ~(i < p)
    <3>1. PICK j \in 1..(m + 1) : j = i + 1
      BY <1>1, <2>1
    <3>2. ~(j < p) /\ j # p /\ j - 1 = i
      BY <1>1, <2>3, <3>1
    <3>3. t[j] = s[i]
      BY <1>1, <1>4, <1>8, <2>1, <3>2
    <3> QED
      BY <1>8, <3>3 DEF Has
  <2> QED
    BY <2>2, <2>3
<1>15. Len(s) <= Len(t) /\ (Len(s) <= LOOK_MAX_CAND => Len(t) <= LOOK_MAX_CAND)
  BY <1>1, <1>2, <1>3, <1>8
<1>16. Grown(s, t, {c})
  BY <1>8, <1>11, <1>12, <1>13, <1>14, <1>15 DEF Grown
<1> QED
  BY <1>5, <1>6, <1>7, <1>16

\* look_insert of one contact.
LEMMA InsertGrows ==
  ASSUME NEW s \in Seq(Own), NEW c \in Contact
  PROVE  Grown(s, look_insert(s, c), {c})
<1>1. PICK k : k = IF Len(s) >= LOOK_MAX_CAND THEN Front(s) ELSE s
  OBVIOUS
<1>2. (\E i \in DOMAIN s : s[i].id = c.id) <=> HasId(s, c.id)
  BY LenProperties DEF HasId
<1>3. CASE HasId(s, c.id)
  <2>1. look_insert(s, c) = s
    BY <1>2, <1>3 DEF look_insert
  <2>2. \A d \in {c} : HasId(s, d.id)
    BY <1>3
  <2> QED
    BY <2>1, <2>2, GrownSame
<1>4. CASE Refused(s, c)
  <2>1. look_insert(s, c) = s
    BY <1>4 DEF look_insert
  <2>2. ~(Len(s) < LOOK_MAX_CAND)
    BY <1>4, LenProperties, LookupAssumption DEF Refused
  <2> QED
    BY <2>1, <2>2, GrownSame
<1>5. CASE ~HasId(s, c.id) /\ ~Refused(s, c)
  <2>1. look_insert(s, c) = InsertAt(k, Place(k, c.id), NewCand(c))
    BY <1>1, <1>2, <1>5 DEF look_insert, Fresh, NewCand
  <2> QED
    BY <1>1, <1>5, <2>1, InsertedThere
<1> QED
  BY <1>3, <1>4, <1>5

\* First C, then the one more contact c.
LEMMA GrownOn ==
  ASSUME NEW s \in Seq(Own), NEW t, NEW u, NEW C, NEW c, Grown(s, t, C), Grown(t, u, {c}), NEW D, D = C \cup {c}
  PROVE  Grown(s, u, D)
<1>1. Len(s) \in Nat /\ Len(t) \in Nat /\ Len(u) \in Nat /\ LOOK_MAX_CAND \in Nat
  BY LenProperties, LookupAssumption DEF Grown
<1>2. u \in Seq(Own) /\ Len(s) <= Len(u) /\ (Len(s) <= LOOK_MAX_CAND => Len(u) <= LOOK_MAX_CAND)
  BY <1>1 DEF Grown
<1>3. IdsOnce(s) => IdsOnce(u)
  BY DEF Grown
<1>4. ASSUME NEW i \in 1..Len(u) PROVE Has(s, u[i]) \/ \E d \in D : u[i] = NewCand(d)
  <2>1. CASE Has(t, u[i])
    <3>1. PICK j \in 1..Len(t) : t[j] = u[i]
      BY <2>1 DEF Has
    <3>2. Has(s, t[j]) \/ \E d \in C : t[j] = NewCand(d)
      BY DEF Grown
    <3> QED
      BY <3>1, <3>2
  <2>2. CASE ~Has(t, u[i])
    BY <2>2 DEF Grown
  <2> QED
    BY <2>1, <2>2
<1>5. ASSUME Len(u) < LOOK_MAX_CAND PROVE Len(t) < LOOK_MAX_CAND
  BY <1>1, <1>5 DEF Grown
<1>6. ASSUME Len(u) < LOOK_MAX_CAND, NEW i \in 1..Len(s) PROVE Has(u, s[i])
  <2>1. PICK j \in 1..Len(t) : t[j] = s[i]
    BY <1>5, <1>6 DEF Grown, Has
  <2>2. Has(u, t[j])
    BY <1>6 DEF Grown
  <2> QED
    BY <2>1, <2>2
<1>7. ASSUME Len(u) < LOOK_MAX_CAND, NEW d \in D PROVE HasId(u, d.id)
  <2>1. CASE d \in C
    <3>1. HasId(t, d.id)
      BY <1>5, <1>7, <2>1 DEF Grown
    <3>2. PICK j \in 1..Len(t) : t[j].id = d.id
      BY <3>1 DEF HasId
    <3>3. Has(u, t[j])
      BY <1>7 DEF Grown
    <3> QED
      BY <3>2, <3>3 DEF Has, HasId
  <2>2. CASE d = c
    BY <1>7, <2>2 DEF Grown
  <2> QED
    BY <2>1, <2>2
<1> QED
  BY <1>2, <1>3, <1>4, <1>6, <1>7 DEF Grown


\* Inserted is one look_insert after the other.
LEMMA InsertedIs ==
  ASSUME NEW l, NEW L, Len(L) \in Nat
  PROVE  \E T : /\ Inserted(l, L) = T[Len(L)] /\ T[0] = l
                /\ \A j \in 1..Len(L) : T[j] = look_insert(T[j - 1], L[j])
<1> DEFINE b0 == l
           N == Len(L)
           F(g) == [j \in 0..N |-> IF j = 0 THEN b0 ELSE look_insert(g[j - 1], L[j])]
           S == {k \in Nat : \E g : g[0] = b0 /\ \A j \in 1..k : g[j] = look_insert(g[j - 1], L[j])}
<1>0. N \in Nat
  OBVIOUS
<1>1. 0 \in S
  <2>1. PICK b : b = b0
    OBVIOUS
  <2>2. PICK g : g = [i \in {0} |-> b]
    OBVIOUS
  <2>3. g[0] = b /\ \A j \in 1..0 : g[j] = look_insert(g[j - 1], L[j])
    BY <2>2
  <2> QED
    BY <2>1, <2>3
<1>2. ASSUME NEW k \in 0..N-1, k \in S PROVE k + 1 \in S
  <2>1. PICK g : g[0] = b0 /\ \A j \in 1..k : g[j] = look_insert(g[j - 1], L[j])
    BY <1>2
  <2>2. k \in Nat /\ k + 1 \in Nat
    BY <1>0
  <2>3. PICK y : y = look_insert(g[k], L[k + 1])
    OBVIOUS
  <2>4. PICK h : h = [i \in 0..(k + 1) |-> IF i <= k THEN g[i] ELSE y]
    OBVIOUS
  <2>5. h[k + 1] = y /\ \A i \in 0..k : h[i] = g[i]
    BY <2>2, <2>4
  <2>6. ASSUME NEW j \in 1..(k + 1) PROVE h[j] = look_insert(h[j - 1], L[j])
    <3>1. CASE j = k + 1
      <4>1. j - 1 = k /\ k \in 0..k
        BY <2>2, <3>1
      <4> QED
        BY <2>3, <2>5, <3>1, <4>1
    <3>2. CASE j # k + 1
      <4>1. j \in 1..k /\ j - 1 \in 0..k /\ j \in 0..k
        BY <2>2, <3>2
      <4> QED
        BY <2>1, <2>5, <4>1
    <3> QED
      BY <3>1, <3>2
  <2>7. h[0] = b0
    BY <2>1, <2>2, <2>5
  <2> QED
    BY <2>2, <2>6, <2>7
<1>3. N \in S
  <2> HIDE DEF S, N
  <2>1. \A k \in 0..N : k \in S
    BY <1>0, <1>1, <1>2, UpTo
  <2> QED
    BY <1>0, <2>1
<1>4. PICK g : g[0] = b0 /\ \A j \in 1..N : g[j] = look_insert(g[j - 1], L[j])
  BY <1>3
<1>5. \E x : x = F(x)
  <2> HIDE DEF N, b0
  <2>1. PICK x : x = [j \in 0..N |-> g[j]]
    OBVIOUS
  <2>2. x = F(x)
    <3>1. \A j \in 0..N : x[j] = g[j]
      BY <2>1
    <3>2. \A j \in 1..N : j - 1 \in 0..N /\ j \in 0..N
      BY <1>0
    <3>3. \A j \in 0..N : x[j] = IF j = 0 THEN b0 ELSE look_insert(x[j - 1], L[j])
      BY <1>0, <1>4, <3>1, <3>2
    <3> QED
      BY <2>1, <3>1, <3>3
  <2> QED
    BY <2>2
<1> DEFINE T == CHOOSE x : x = F(x)
<1>6. Inserted(l, L) = T[N]
  BY DEF Inserted
<1>7. T = F(T)
  <2> HIDE DEF F
  <2> QED
    BY <1>5
<1> HIDE DEF T
<1>8. T[0] = b0 /\ \A j \in 1..N : T[j] = look_insert(T[j - 1], L[j])
  <2> HIDE DEF b0, N
  <2> QED
    BY <1>0, <1>7
<1> QED
  BY <1>6, <1>8

\* The contacts of a list.
Contacts(L) == {L[j] : j \in 1..Len(L)}

\* look_insert of many contacts.
LEMMA InsertedGrows ==
  ASSUME NEW s \in Seq(Own), NEW L \in Seq(Contact)
  PROVE  Grown(s, Inserted(s, L), Contacts(L))
<1>1. PICK N \in Nat : N = Len(L)
  BY LenProperties
<1>2. PICK T : /\ Inserted(s, L) = T[N] /\ T[0] = s
               /\ \A j \in 1..N : T[j] = look_insert(T[j - 1], L[j])
  <2>1. \E T : /\ Inserted(s, L) = T[Len(L)] /\ T[0] = s
               /\ \A j \in 1..Len(L) : T[j] = look_insert(T[j - 1], L[j])
    BY <1>1, InsertedIs
  <2> QED
    BY <1>1, <2>1
<1> DEFINE C(k) == {L[j] : j \in 1..k}
           S == {k \in Nat : Grown(s, T[k], C(k))}
<1>3. 0 \in S
  <2>1. C(0) = {}
    OBVIOUS
  <2>2. Grown(s, s, {})
    BY GrownSame
  <2> QED
    BY <1>2, <2>1, <2>2
<1>4. ASSUME NEW k \in 0..N-1, k \in S PROVE k + 1 \in S
  <2>1. k \in Nat /\ k + 1 \in 1..N /\ (k + 1) - 1 = k /\ k + 1 \in Nat
    BY <1>1
  <2>2. PICK c \in Contact : c = L[k + 1]
    BY <1>1, <2>1, ElementOfSeq
  <2>3. PICK t : t = T[k]
    OBVIOUS
  <2>4. PICK u : u = look_insert(t, c)
    OBVIOUS
  <2>5. Grown(s, t, C(k)) /\ T[k + 1] = u
    BY <1>2, <1>4, <2>1, <2>2, <2>3, <2>4
  <2>6. t \in Seq(Own)
    BY <2>5 DEF Grown
  <2>7. Grown(t, u, {c})
    BY <2>4, <2>6, InsertGrows
  <2>8. C(k + 1) = C(k) \cup {c}
    <3>1. 1..(k + 1) = (1..k) \cup {k + 1}
      BY <2>1
    <3> QED
      BY <2>2, <3>1
  <2>9. Grown(s, u, C(k + 1))
    <3> HIDE DEF C
    <3>1. PICK A, B : A = C(k) /\ B = C(k + 1)
      OBVIOUS
    <3>2. Grown(s, u, B)
      BY <2>5, <2>7, <2>8, <3>1, GrownOn
    <3> QED
      BY <3>1, <3>2
  <2> QED
    BY <2>1, <2>5, <2>9
<1>5. N \in S
  <2> HIDE DEF S
  <2>1. \A k \in 0..N : k \in S
    BY <1>1, <1>3, <1>4, UpTo
  <2> QED
    BY <1>1, <2>1
<1>6. C(N) = Contacts(L)
  BY <1>1 DEF Contacts
<1> QED
  BY <1>2, <1>5, <1>6

-----------------------------------------------------------------------------
(* The contacts in an answer. *)

\* A set of numbers that is not empty has a least one.
LEMMA LeastNumber ==
  ASSUME NEW S \in SUBSET Nat, S # {}
  PROVE  \E m \in S : \A j \in S : m <= j
<1>1. PICK n \in S : n \in Nat
  OBVIOUS
<1> DEFINE T == {i \in 1..(n + 1) : i - 1 \in S}
<1>2. n + 1 \in T /\ T \in SUBSET (1..(n + 1)) /\ n + 1 \in Nat
  BY <1>1
<1>3. PICK i \in T : \A j \in T : i <= j
  <2> HIDE DEF T
  <2> QED
    BY <1>2, MinIsThere
<1>4. i - 1 \in S /\ i - 1 <= n /\ i \in Nat
  BY <1>1, <1>3
<1>5. ASSUME NEW j \in S PROVE i - 1 <= j
  <2>1. CASE j <= n
    <3>1. j + 1 \in T
      BY <1>1, <2>1
    <3>2. i <= j + 1
      BY <1>3, <3>1
    <3> QED
      BY <1>4, <3>2
  <2>2. CASE ~(j <= n)
    BY <1>1, <1>4, <2>2
  <2> QED
    BY <2>1, <2>2
<1> QED
  BY <1>4, <1>5

\* The contacts of S closer than x.
Closer(S, x) == {y \in S : y.id < x.id}

\* For every k there are k contacts that all others are behind, and who comes next.
LEMMA RankedAre ==
  ASSUME NEW S \in SUBSET Contact, IsFiniteSet(S), \A x, y \in S : x.id = y.id => x = y,
         NEW k \in Nat, k < Cardinality(S)
  PROVE  \E x \in S : Cardinality(Closer(S, x)) = k
<1> DEFINE Down(D) == /\ D \in SUBSET S
                      /\ \A y \in D, z \in S : z.id < y.id => z \in D
           N == Cardinality(S)
           K == {i \in Nat : \E D : Down(D) /\ Cardinality(D) = i}
<1>0. N \in Nat /\ Id \subseteq Nat /\ \A x \in S : x.id \in Nat
  BY FS_CardinalityType, LookupAssumption DEF Contact
<1>1. ASSUME NEW D, Down(D), Cardinality(D) < N
      PROVE  \E x \in S : x \notin D /\ Closer(S, x) = D
  <2>1. D # S
    BY <1>0, <1>1
  <2> DEFINE R == {x.id : x \in S \ D}
  <2>2. R \in SUBSET Nat /\ R # {}
    BY <1>0, <1>1, <2>1
  <2>3. PICK m \in R : \A j \in R : m <= j
    <3> HIDE DEF R
    <3> QED
      BY <2>2, LeastNumber
  <2>4. PICK x \in S \ D : x.id = m
    BY <2>3
  <2>5. ASSUME NEW y \in S, y.id < x.id PROVE y \in D
    <3> SUFFICES ASSUME y \notin D PROVE FALSE
      OBVIOUS
    <3>1. y.id \in R
      OBVIOUS
    <3>2. m <= y.id
      BY <2>3, <3>1
    <3> QED
      BY <1>0, <2>4, <2>5, <3>2
  <2>6. ASSUME NEW y \in D PROVE y \in S /\ y.id < x.id
    <3>1. y \in S /\ y # x
      BY <1>1, <2>4
    <3>2. ~(x.id < y.id)
      BY <1>1, <2>4
    <3>3. x.id # y.id
      BY <2>4, <3>1
    <3> QED
      BY <1>0, <2>4, <3>1, <3>2, <3>3
  <2>7. Closer(S, x) = D
    BY <2>5, <2>6 DEF Closer
  <2> QED
    BY <2>4, <2>7
<1>2. 0 \in K
  <2>1. Down({}) /\ Cardinality({}) = 0
    BY FS_EmptySet
  <2> QED
    BY <2>1
<1>3. ASSUME NEW i \in 0..N-1, i \in K PROVE i + 1 \in K
  <2>1. PICK D : Down(D) /\ Cardinality(D) = i
    BY <1>3
  <2>2. i \in Nat /\ i < N
    BY <1>0
  <2>3. PICK x \in S : x \notin D /\ Closer(S, x) = D
    BY <1>1, <2>1, <2>2
  <2>4. PICK E : E = D \cup {x}
    OBVIOUS
  <2>5. Down(E)
    <3>1. E \in SUBSET S
      BY <2>1, <2>4
    <3>2. ASSUME NEW y \in E, NEW z \in S, z.id < y.id PROVE z \in E
      <4>1. CASE y \in D
        BY <2>1, <2>4, <3>2, <4>1
      <4>2. CASE y = x
        BY <2>3, <2>4, <3>2, <4>2 DEF Closer
      <4> QED
        BY <2>4, <4>1, <4>2
    <3> QED
      BY <3>1, <3>2
  <2>6. Cardinality(E) = i + 1
    <3>1. IsFiniteSet(D)
      BY <2>1, FS_Subset
    <3> QED
      <4> HIDE DEF Down
      <4>1. Cardinality(D \cup {x}) = Cardinality(D) + 1
        BY <2>3, <3>1, FS_AddElement
      <4> QED
        BY <2>1, <2>4, <4>1
  <2> QED
    BY <2>2, <2>5, <2>6
<1>4. k \in K
  <2> HIDE DEF K, N
  <2>1. \A i \in 0..N : i \in K
    BY <1>0, <1>2, <1>3, UpTo
  <2>2. k \in 0..N
    BY <1>0 DEF N
  <2> QED
    BY <2>1, <2>2
<1>5. PICK D : Down(D) /\ Cardinality(D) = k
  BY <1>4
<1>6. PICK x \in S : Closer(S, x) = D
  BY <1>1, <1>5
<1> QED
  BY <1>5, <1>6

\* An answer names contacts its sender knows.
LEMMA ClosestIs ==
  ASSUME NEW S \in SUBSET Contact, IsFiniteSet(S), \A x, y \in S : x.id = y.id => x = y
  PROVE  Closest(S) \in Seq(S)
<1>1. PICK n \in Nat : n = IF Cardinality(S) < ServeMax THEN Cardinality(S) ELSE ServeMax
  BY FS_CardinalityType, LookupAssumption
<1>2. Cardinality(S) \in Nat /\ ServeMax \in Nat
  BY FS_CardinalityType, LookupAssumption
<1>3. n <= Cardinality(S)
  BY <1>1, <1>2
<1> DEFINE Ranked(k) == CHOOSE x \in S : Cardinality({y \in S : y.id < x.id}) = k - 1
<1>4. ASSUME NEW k \in 1..n PROVE Ranked(k) \in S
  <2>1. k - 1 \in Nat /\ k - 1 < Cardinality(S)
    BY <1>2, <1>3
  <2>2. \E x \in S : Cardinality(Closer(S, x)) = k - 1
    BY <2>1, RankedAre
  <2>3. \E x \in S : Cardinality({y \in S : y.id < x.id}) = k - 1
    BY <2>2 DEF Closer
  <2> QED
    BY <2>3
<1>5. Closest(S) = [k \in 1..n |-> Ranked(k)]
  BY <1>1 DEF Closest
<1> HIDE DEF Ranked
<1> QED
  BY <1>4, <1>5


\* The nodes in the answer from address a.
LEMMA AnswerIs ==
  ASSUME net \in Overlays, NEW a \in Addr
  PROVE  AnswerNodes(a) \in Seq(Contact) /\ Contacts(AnswerNodes(a)) \subseteq net.knows[a]
<1>1. PICK S : S = net.knows[a]
  OBVIOUS
<1>2. S \in SUBSET Contact /\ IsFiniteSet(S) /\ \A x, y \in S : x.id = y.id => x = y
  BY <1>1, LookupAssumption
<1>3. PICK L : L = AnswerNodes(a)
  OBVIOUS
<1>4. L \in Seq(S)
  <2>1. CASE HasValue(a)
    BY <1>3, <2>1, EmptySeq DEF AnswerNodes
  <2>2. CASE ~HasValue(a)
    <3>1. Closest(S) \in Seq(S)
      BY <1>2, ClosestIs
    <3> QED
      BY <1>1, <1>3, <2>2, <3>1 DEF AnswerNodes
  <2> QED
    BY <2>1, <2>2
<1>5. L \in Seq(Contact)
  BY <1>2, <1>4
<1>6. Contacts(L) \subseteq S
  BY <1>4, ElementOfSeq DEF Contacts
<1> QED
  BY <1>1, <1>3, <1>5, <1>6

\* A list in which one token is set: to the address of its candidate.
TokenSet(s, t, a) ==
  /\ t \in Seq(Own) /\ Len(t) = Len(s)
  /\ \A i \in 1..Len(s) : /\ t[i].id = s[i].id /\ t[i].addr = s[i].addr /\ t[i].queried = s[i].queried
                          /\ s[i].token # None => t[i].token # None
  /\ call # "find" /\ (\E i \in 1..Len(s) : s[i].addr = a) =>
        \E i \in 1..Len(t) : t[i].addr = a /\ t[i].token # None

\* The token of an answer is set so.
LEMMA TokenIsSet ==
  ASSUME NEW s \in Seq(Own), NEW a \in Addr
  PROVE  TokenSet(s, WithToken(s, a), a)
<1>1. PICK n \in Nat : n = Len(s)
  BY LenProperties
<1> DEFINE I == {i \in 1..Len(s) : s[i].addr = a}
<1>2. PICK x : x = SelectInSeq(s, LAMBDA y : y.addr = a)
  OBVIOUS
<1>3. x = IF I # {} THEN Min(I) ELSE 0
  BY <1>2 DEF SelectInSeq
<1>4. I # {} => x \in 1..n /\ s[x].addr = a
  <2> SUFFICES ASSUME I # {} PROVE x \in I
    BY <1>1
  <2>1. I \in SUBSET (1..n)
    BY <1>1
  <2> HIDE DEF I
  <2> QED
    BY <1>3, <2>1, MinIsThere
<1>5. I = {} => x = 0
  BY <1>3
<1>6. CASE call = "find" \/ x = 0
  <2>1. WithToken(s, a) = s
    BY <1>2, <1>6 DEF WithToken
  <2>2. I # {} => call = "find"
    BY <1>4, <1>6
  <2>3. TokenSet(s, s, a)
    BY <1>1, <2>2 DEF TokenSet
  <2> QED
    BY <2>1, <2>3
<1>7. CASE call # "find" /\ x # 0
  <2>1. x \in 1..n /\ s[x].addr = a
    BY <1>4, <1>5, <1>7
  <2>2. PICK c \in Own : c = s[x]
    BY <1>1, <2>1, ElementOfSeq
  <2>3. PICK d : d = [c EXCEPT !.token = a]
    OBVIOUS
  <2>4. d \in Own /\ d.id = c.id /\ d.addr = c.addr /\ d.queried = c.queried /\ d.token = a
    BY <2>1, <2>2, <2>3 DEF Own, Candidate
  <2>5. PICK t : t = [s EXCEPT ![x] = d]
    OBVIOUS
  <2>6. t \in Seq(Own) /\ Len(t) = n /\ \A i \in 1..n : t[i] = IF i = x THEN d ELSE s[i]
    BY <1>1, <2>1, <2>4, <2>5, ExceptSeq
  <2>7. WithToken(s, a) = t
    BY <1>2, <1>7, <2>2, <2>3, <2>5 DEF WithToken
  <2>8. a # None
    BY LookupAssumption
  <2>9. TokenSet(s, t, a)
    <3>1. \A i \in 1..n : /\ t[i].id = s[i].id /\ t[i].addr = s[i].addr /\ t[i].queried = s[i].queried
                          /\ s[i].token # None => t[i].token # None
      BY <2>2, <2>4, <2>6, <2>8
    <3>2. t[x].addr = a /\ t[x].token # None
      BY <2>1, <2>2, <2>4, <2>6, <2>8
    <3> QED
      BY <1>1, <2>1, <2>6, <3>1, <3>2 DEF TokenSet
  <2> QED
    BY <2>7, <2>9
<1> QED
  BY <1>6, <1>7

-----------------------------------------------------------------------------
(* Lookups: the invariant. *)

LookList(s) == s \in Seq(Own) /\ Len(s) <= LOOK_MAX_CAND /\ IdsOnce(s)
LookInv ==
  /\ net \in Overlays /\ LookList(cand) /\ flight \subseteq Contact
  /\ call \in Kind /\ phase \in {"idle", "send", "wait", "done"}
  /\ direct \in Addr \cup {None} /\ (direct # None => net.live[direct] = 0)
  /\ contact \in Addr \cup {None}
  /\ \A t \in told : t.token = t.addr

\* A lookup begins.
LEMMA BeginKeeps ==
  ASSUME LookInv, NEW kind \in Kind, NEW timed, NEW own, Begin(kind, timed, own)
  PROVE  LookInv'
<1>1. PICK e \in Seq(Own) : e = <<>> /\ Len(e) = 0
  BY EmptySeq
<1>2. LOOK_MAX_CAND \in Nat
  BY LookupAssumption
<1>3. IdsOnce(e) /\ LookList(e)
  BY <1>1, <1>2 DEF IdsOnce, LookList
<1>4. LookList(Inserted(e, net.table))
  <2>1. PICK L \in Seq(Contact) : L = net.table
    BY LookupAssumption DEF LookInv
  <2>2. Grown(e, Inserted(e, L), Contacts(L))
    BY <2>1, InsertedGrows
  <2> QED
    BY <1>1, <1>2, <1>3, <2>1, <2>2 DEF Grown, LookList
<1>5. LookList(cand')
  BY <1>1, <1>3, <1>4 DEF Begin
<1>6. phase' \in {"idle", "send", "wait", "done"} /\ call' = kind /\ net' = net /\ flight' = {} /\ told' = {}
      /\ direct' = None /\ contact' = None
  BY DEF Begin
<1> QED
  BY <1>5, <1>6 DEF LookInv

\* The next candidates are asked.
LEMMA QueryKeeps ==
  ASSUME LookInv, Query
  PROVE  LookInv'
<1>1. PICK n \in Nat : n = Len(cand)
  BY LenProperties DEF LookInv, LookList
<1>2. cand \in Seq(Own) /\ DOMAIN cand = 1..n
  BY <1>1, LenProperties DEF LookInv, LookList
<1> DEFINE New(i) == [cand[i] EXCEPT !.queried = cand[i].queried \/ i \in NextQueries]
<1>3. ASSUME NEW i \in 1..n
      PROVE  /\ cand[i] \in Own /\ New(i) \in Own /\ New(i).id = cand[i].id
             /\ [id |-> cand[i].id, addr |-> cand[i].addr] \in Contact
  <2>1. PICK c \in Own : c = cand[i]
    BY <1>1, <1>2, ElementOfSeq
  <2>2. PICK b \in BOOLEAN : b <=> (cand[i].queried \/ i \in NextQueries)
    OBVIOUS
  <2>3. [c EXCEPT !.queried = b] \in Own /\ [c EXCEPT !.queried = b].id = c.id
    BY DEF Own, Candidate
  <2>4. [id |-> c.id, addr |-> c.addr] \in Contact
    BY DEF Own, Candidate, Contact
  <2>5. b = (cand[i].queried \/ i \in NextQueries)
    <3>1. cand[i].queried \in BOOLEAN
      BY <2>1 DEF Own, Candidate
    <3> QED
      BY <2>2, <3>1
  <2> QED
    BY <2>1, <2>3, <2>4, <2>5
<1>4. cand' = [i \in 1..n |-> New(i)]
  BY <1>2 DEF Query
<1> HIDE DEF New
<1>5. cand' \in Seq(Own) /\ Len(cand') = n /\ \A i \in 1..n : cand'[i].id = cand[i].id
  <2>1. PICK q : q = [i \in 1..n |-> New(i)]
    OBVIOUS
  <2>2. \A i \in 1..n : New(i) \in Own
    BY <1>3
  <2>3. q \in Seq(Own) /\ Len(q) = n
    BY <2>1, <2>2
  <2>4. \A i \in 1..n : q[i].id = cand[i].id
    BY <1>3, <2>1
  <2> QED
    BY <1>4, <2>1, <2>3, <2>4
<1>6. LookList(cand')
  BY <1>1, <1>5 DEF LookInv, LookList, IdsOnce
<1>7. flight' \subseteq Contact
  <2>1. NextQueries \subseteq 1..n
    BY <1>2 DEF NextQueries
  <2>2. flight' = flight \cup {[id |-> cand[i].id, addr |-> cand[i].addr] : i \in NextQueries}
    BY DEF Query
  <2> QED
    BY <1>3, <2>1, <2>2 DEF LookInv
<1>8. phase' = "wait" /\ UNCHANGED <<net, call, direct, contact, told>>
  BY DEF Query, results
<1> QED
  BY <1>6, <1>7, <1>8 DEF LookInv

\* An answer comes in.
LEMMA ReceiveKeeps ==
  ASSUME LookInv, NEW c \in flight, Receive(c)
  PROVE  LookInv'
<1>1. PICK a \in Addr : a = c.addr
  BY DEF LookInv, Contact
<1>2. PICK L : L = AnswerNodes(a)
  OBVIOUS
<1>3. L \in Seq(Contact)
  BY <1>2, AnswerIs DEF LookInv
<1>4. PICK t : t = WithToken(cand, a)
  OBVIOUS
<1>5. PICK n \in Nat : n = Len(cand)
  BY LenProperties DEF LookInv, LookList
<1>6. TokenSet(cand, t, a) /\ LookList(cand)
  BY <1>4, TokenIsSet DEF LookInv, LookList
<1>7. LookList(t)
  BY <1>6 DEF TokenSet, LookList, IdsOnce
<1>8. Grown(t, Inserted(t, L), Contacts(L))
  BY <1>3, <1>7, InsertedGrows DEF LookList
<1>9. LookList(cand')
  <2>1. cand' = Inserted(t, L)
    BY <1>1, <1>2, <1>4 DEF Receive
  <2> QED
    BY <1>7, <1>8, <2>1 DEF Grown, LookList
<1>10. UNCHANGED <<net, call, told>> /\ flight' \subseteq flight /\ phase' \in {"send", "wait"}
  BY DEF Receive
<1>11. direct' \in Addr \cup {None} /\ (direct' # None => net.live[direct'] = 0)
  <2>1. direct' = IF call = "find" /\ net.live[a] = 0 THEN a ELSE direct
    BY <1>1 DEF Receive, DirectAfter
  <2> QED
    BY <2>1 DEF LookInv
<1>12. contact' \in Addr \cup {None}
  <2>1. contact' = ContactAfter(L)
    BY <1>1, <1>2 DEF Receive
  <2> DEFINE I == {i \in 1..Len(L) : L[i].id = 0}
  <2>2. PICK x : x = SelectInSeq(L, LAMBDA y : y.id = 0)
    OBVIOUS
  <2>3. x = IF I # {} THEN Min(I) ELSE 0
    BY <2>2 DEF SelectInSeq
  <2>4. x # 0 => x \in 1..Len(L)
    <3>1. PICK m \in Nat : m = Len(L)
      BY <1>3, LenProperties
    <3>2. I \in SUBSET (1..m)
      BY <3>1
    <3>3. I # {} => Min(I) \in I
      <4> HIDE DEF I
      <4> QED
        BY <3>2, MinIsThere
    <3> QED
      BY <2>3, <3>3
  <2>5. x # 0 => L[x].addr \in Addr
    <3> SUFFICES ASSUME x # 0 PROVE L[x].addr \in Addr
      OBVIOUS
    <3>1. PICK y \in Contact : y = L[x]
      BY <1>3, <2>4, ElementOfSeq
    <3>2. y.addr \in Addr
      BY DEF Contact
    <3> QED
      BY <3>1, <3>2
  <2>6. contact' = IF call = "find" /\ contact = None /\ x # 0 THEN L[x].addr ELSE contact
    BY <2>1, <2>2 DEF ContactAfter
  <2> QED
    BY <2>5, <2>6 DEF LookInv
<1> QED
  BY <1>9, <1>10, <1>11, <1>12 DEF LookInv


\* A lookup ends, and what it sends carries the tokens of who it is sent to.
LEMMA FinishKeeps ==
  ASSUME LookInv, Finish
  PROVE  LookInv'
<1>1. cand \in Seq(Own) /\ DOMAIN cand = 1..Len(cand)
  BY LenProperties DEF LookInv, LookList
<1>2. ASSUME NEW i \in Chosen PROVE cand[i].token = cand[i].addr
  <2>1. i \in 1..Len(cand) /\ cand[i].token # None
    BY <1>1 DEF Chosen, TokenHolders
  <2>2. PICK c \in Own : c = cand[i]
    BY <1>1, <2>1, ElementOfSeq
  <2> QED
    BY <2>1, <2>2 DEF Own
<1>3. \A t \in told' : t.token = t.addr
  <2> SUFFICES ASSUME NEW t \in told' PROVE t.token = t.addr
    OBVIOUS
  <2>1. t \in {[addr |-> cand[i].addr, token |-> cand[i].token] : i \in Chosen}
    BY DEF Finish
  <2>2. PICK i \in Chosen : t = [addr |-> cand[i].addr, token |-> cand[i].token]
    BY <2>1
  <2> QED
    BY <1>2, <2>2
<1>4. phase' = "done" /\ UNCHANGED <<net, call, cand, flight, direct, contact>>
  BY DEF Finish, results
<1> QED
  BY <1>3, <1>4 DEF LookInv

\* The calls that begin a lookup.
LEMMA CallsBegin ==
  ASSUME LookupNext
  PROVE  \/ \E kind \in Kind, timed \in BOOLEAN : \E own \in BOOLEAN : (own => kind = "get_peers") /\ Begin(kind, timed, own)
         \/ Query \/ (\E c \in flight : Receive(c) \/ Lose(c)) \/ Idle \/ Expire \/ Finish
<1> DEFINE Calls == \E kind \in Kind, timed \in BOOLEAN : \E own \in BOOLEAN : (own => kind = "get_peers") /\ Begin(kind, timed, own)
<1>1. ASSUME NEW kind \in Kind, NEW timed \in BOOLEAN, mainline_lookup_ex(kind, timed) PROVE Calls
  <2>1. PICK own \in BOOLEAN : own = (kind = "get_peers" /\ net.own)
    OBVIOUS
  <2>2. Begin(kind, timed, own)
    BY <1>1, <2>1 DEF mainline_lookup_ex
  <2>3. own => kind = "get_peers"
    BY <2>1
  <2> QED
    BY <2>2, <2>3
<1>2. ASSUME NEW kind \in Kind, NEW timed \in BOOLEAN, mainline_lookup_mutable(kind, timed) PROVE Calls
  <2>1. Begin(kind, timed, FALSE)
    BY <1>2 DEF mainline_lookup_mutable
  <2> QED
    BY <2>1
<1>3. ASSUME NEW timed \in BOOLEAN, mainline_resolve_node(timed) PROVE Calls
  <2>1. Begin("find", timed, FALSE) /\ "find" \in Kind
    BY <1>3 DEF mainline_resolve_node, Kind
  <2> QED
    BY <2>1
<1>4. \A k \in {"get_peers", "announce", "get", "iget", "fetch", "ifetch", "put", "iput"} : k \in Kind
  BY DEF Kind
<1> HIDE DEF Calls
<1>5. ASSUME NEW kind \in {"get_peers", "announce"}, mainline_lookup_ex(kind, TRUE) PROVE Calls
  BY <1>1, <1>4, <1>5
<1>6. ASSUME NEW kind \in {"fetch", "put"}, mainline_lookup_mutable(kind, TRUE) PROVE Calls
  BY <1>2, <1>4, <1>6
<1>7. mainline_resolve_node(TRUE) => Calls
  BY <1>3
<1>8. norn_announce => Calls
  BY <1>1, <1>4 DEF norn_announce
<1>9. norn_put_mutable_salt \/ norn_put_immutable => Calls
  BY <1>2, <1>4 DEF norn_put_mutable_salt, norn_put_immutable
<1>10. norn_get_mutable_salt \/ norn_get_immutable => Calls
  BY <1>2, <1>4 DEF norn_get_mutable_salt, norn_get_immutable
<1>11. norn_announce_endpoint_async \/ norn_resolve_endpoint_async => Calls
  BY <1>2, <1>4 DEF norn_announce_endpoint_async, norn_resolve_endpoint_async
<1>12. ASSUME NEW timed \in BOOLEAN,
              norn_resolve_node(timed) \/ norn_dht_get_mutable(timed) \/ norn_dht_get_immutable(timed)
       PROVE  Calls
  BY <1>1, <1>2, <1>4, <1>12 DEF norn_resolve_node, norn_dht_get_mutable, norn_dht_get_immutable
<1> USE DEF Calls
<1> QED
  BY <1>5, <1>6, <1>7, <1>8, <1>9, <1>10, <1>11, <1>12 DEF LookupNext

\* Every step keeps the candidates, the tokens and the confirmed address in order.
LEMMA LookStep ==
  ASSUME LookInv, [LookupNext]_lookupVars
  PROVE  LookInv'
<1>1. CASE \E kind \in Kind, timed \in BOOLEAN : \E own \in BOOLEAN : (own => kind = "get_peers") /\ Begin(kind, timed, own)
  BY <1>1, BeginKeeps
<1>2. CASE Query
  BY <1>2, QueryKeeps
<1>3. ASSUME NEW c \in flight, Receive(c) PROVE LookInv'
  BY <1>3, ReceiveKeeps
<1>4. ASSUME NEW c \in flight, Lose(c) PROVE LookInv'
  BY <1>4 DEF Lose, LookInv, results
<1>5. CASE Idle
  BY <1>5 DEF Idle, LookInv, results
<1>6. CASE Expire
  BY <1>6 DEF Expire, LookInv, results
<1>7. CASE Finish
  BY <1>7, FinishKeeps
<1>8. CASE UNCHANGED lookupVars
  BY <1>8 DEF lookupVars, LookInv, results
<1> QED
  BY <1>1, <1>2, <1>3, <1>4, <1>5, <1>6, <1>7, <1>8, CallsBegin

\* A lookup begins with nobody to ask.
LEMMA LookStarts == LookupInit => LookInv
<1> SUFFICES ASSUME LookupInit PROVE LookInv
  OBVIOUS
<1>1. cand = <<>> /\ LOOK_MAX_CAND \in Nat
  BY LookupAssumption DEF LookupInit
<1>2. cand \in Seq(Own) /\ Len(cand) = 0
  BY <1>1, EmptySeq
<1>3. LookList(cand)
  BY <1>1, <1>2 DEF LookList, IdsOnce
<1>4. net \in Overlays /\ call = "find" /\ phase = "idle" /\ flight = {} /\ direct = None /\ contact = None /\ told = {}
  BY DEF LookupInit
<1>5. "find" \in Kind
  BY DEF Kind
<1> QED
  BY <1>3, <1>4, <1>5 DEF LookInv

\* TokensOwn: for every network, and every size of the candidate list, a token is kept
\* for, and used with, the address that issued it, though insertions move the
\* candidates while tokens arrive (look_insert, mainline_lookup_ex,
\* mainline_lookup_mutable).
THEOREM TokensStayOwn == LookupSpec => []TokensOwn
<1>1. LookInv => TokensOwn
  <2> SUFFICES ASSUME LookInv, NEW i \in DOMAIN cand PROVE cand[i].token \in {None, cand[i].addr}
    BY DEF TokensOwn, LookInv
  <2>1. i \in 1..Len(cand) /\ cand \in Seq(Own)
    BY LenProperties DEF LookInv, LookList
  <2>2. PICK c \in Own : c = cand[i]
    BY <2>1, ElementOfSeq
  <2> QED
    BY <2>2 DEF Own
<1>2. LookInv /\ [LookupNext]_lookupVars => LookInv'
  BY LookStep
<1> QED
  BY <1>1, <1>2, LookStarts, PTL DEF LookupSpec

-----------------------------------------------------------------------------
(* Lookups: what a lookup nothing disturbs comes to. *)

\* The addresses in the routing table, and those that the answers from F name.
TableAddrs == {net.table[i].addr : i \in DOMAIN net.table}
Reach(F) ==
  F \cup {x.addr : x \in UNION {Range(AnswerNodes(a)) : a \in {b \in F : Answers(b)}}}

\* Asked is round after round of answers.
LEMMA AskedIs ==
  ASSUME Cardinality(Addr) \in Nat
  PROVE  \E T : /\ Asked = T[Cardinality(Addr)] /\ T[0] = TableAddrs
                /\ \A j \in 1..Cardinality(Addr) : T[j] = Reach(T[j - 1])
<1> DEFINE b0 == TableAddrs
           N == Cardinality(Addr)
           F(g) == [j \in 0..N |-> IF j = 0 THEN b0 ELSE Reach(g[j - 1])]
           S == {k \in Nat : \E g : g[0] = b0 /\ \A j \in 1..k : g[j] = Reach(g[j - 1])}
<1>0. N \in Nat
  OBVIOUS
<1>1. 0 \in S
  <2>1. PICK b : b = b0
    OBVIOUS
  <2>2. PICK g : g = [i \in {0} |-> b]
    OBVIOUS
  <2>3. g[0] = b /\ \A j \in 1..0 : g[j] = Reach(g[j - 1])
    BY <2>2
  <2> QED
    BY <2>1, <2>3
<1>2. ASSUME NEW k \in 0..N-1, k \in S PROVE k + 1 \in S
  <2>1. PICK g : g[0] = b0 /\ \A j \in 1..k : g[j] = Reach(g[j - 1])
    BY <1>2
  <2>2. k \in Nat /\ k + 1 \in Nat
    BY <1>0
  <2>3. PICK y : y = Reach(g[k])
    OBVIOUS
  <2>4. PICK h : h = [i \in 0..(k + 1) |-> IF i <= k THEN g[i] ELSE y]
    OBVIOUS
  <2>5. h[k + 1] = y /\ \A i \in 0..k : h[i] = g[i]
    BY <2>2, <2>4
  <2>6. ASSUME NEW j \in 1..(k + 1) PROVE h[j] = Reach(h[j - 1])
    <3>1. CASE j = k + 1
      <4>1. j - 1 = k /\ k \in 0..k
        BY <2>2, <3>1
      <4> QED
        BY <2>3, <2>5, <3>1, <4>1
    <3>2. CASE j # k + 1
      <4>1. j \in 1..k /\ j - 1 \in 0..k /\ j \in 0..k
        BY <2>2, <3>2
      <4> QED
        BY <2>1, <2>5, <4>1
    <3> QED
      BY <3>1, <3>2
  <2>7. h[0] = b0
    BY <2>1, <2>2, <2>5
  <2> QED
    BY <2>2, <2>6, <2>7
<1>3. N \in S
  <2> HIDE DEF S, N
  <2>1. \A k \in 0..N : k \in S
    BY <1>0, <1>1, <1>2, UpTo
  <2> QED
    BY <1>0, <2>1
<1>4. PICK g : g[0] = b0 /\ \A j \in 1..N : g[j] = Reach(g[j - 1])
  BY <1>3
<1>5. \E x : x = F(x)
  <2> HIDE DEF N, b0
  <2>1. PICK x : x = [j \in 0..N |-> g[j]]
    OBVIOUS
  <2>2. x = F(x)
    <3>1. \A j \in 0..N : x[j] = g[j]
      BY <2>1
    <3>2. \A j \in 1..N : j - 1 \in 0..N /\ j \in 0..N
      BY <1>0
    <3>3. \A j \in 0..N : x[j] = IF j = 0 THEN b0 ELSE Reach(x[j - 1])
      BY <1>0, <1>4, <3>1, <3>2
    <3> QED
      BY <2>1, <3>1, <3>3
  <2> QED
    BY <2>2
<1> DEFINE T == CHOOSE x : x = F(x)
<1>6. Asked = T[N]
  BY DEF Asked, Reach, TableAddrs
<1>7. T = F(T)
  <2> HIDE DEF F
  <2> QED
    BY <1>5
<1> HIDE DEF T
<1>8. T[0] = b0 /\ \A j \in 1..N : T[j] = Reach(T[j - 1])
  <2> HIDE DEF b0, N
  <2> QED
    BY <1>0, <1>7
<1> QED
  BY <1>6, <1>8

\* A set of addresses that names no other, with those in the routing table.
Closed(Z) ==
  /\ \A x \in Contacts(net.table) : x.addr \in Z
  /\ \A a \in Z : Answers(a) => \A x \in Contacts(AnswerNodes(a)) : x.addr \in Z

\* What a round of answers adds.
LEMMA ReachIs ==
  ASSUME net \in Overlays, NEW F \in SUBSET Addr
  PROVE  /\ Reach(F) \in SUBSET Addr /\ F \subseteq Reach(F)
         /\ \A a \in F : Answers(a) => \A x \in Contacts(AnswerNodes(a)) : x.addr \in Reach(F)
         /\ \A b \in Reach(F) : b \in F \/ \E a \in F : Answers(a) /\ \E x \in Contacts(AnswerNodes(a)) : b = x.addr
<1>1. ASSUME NEW a \in F PROVE Range(AnswerNodes(a)) = Contacts(AnswerNodes(a)) /\ Contacts(AnswerNodes(a)) \subseteq Contact
  <2>1. PICK L : L = AnswerNodes(a)
    OBVIOUS
  <2>2. L \in Seq(Contact)
    BY <2>1, AnswerIs
  <2>3. DOMAIN L = 1..Len(L) /\ \A i \in 1..Len(L) : L[i] \in Contact
    BY <2>2, LenProperties, ElementOfSeq
  <2> QED
    BY <2>1, <2>3 DEF Range, Contacts
<1>2. \A x \in Contact : x.addr \in Addr
  BY DEF Contact
<1> DEFINE G == {b \in F : Answers(b)}
           U == UNION {Range(AnswerNodes(a)) : a \in G}
<1>3. \A x : x \in U <=> \E a \in F : Answers(a) /\ x \in Contacts(AnswerNodes(a))
  BY <1>1
<1>4. Reach(F) = F \cup {x.addr : x \in U}
  BY DEF Reach
<1>5. \A x \in U : x \in Contact
  BY <1>1, <1>3
<1> HIDE DEF U
<1>6. Reach(F) \in SUBSET Addr /\ F \subseteq Reach(F)
  BY <1>2, <1>4, <1>5
<1>7. ASSUME NEW a \in F, Answers(a), NEW x \in Contacts(AnswerNodes(a)) PROVE x.addr \in Reach(F)
  BY <1>3, <1>4, <1>7
<1>8. ASSUME NEW b \in Reach(F)
      PROVE  b \in F \/ \E a \in F : Answers(a) /\ \E x \in Contacts(AnswerNodes(a)) : b = x.addr
  <2>1. CASE b \in F
    BY <2>1
  <2>2. CASE b \notin F
    <3>1. PICK x \in U : b = x.addr
      BY <1>4, <2>2
    <3> QED
      BY <1>3, <3>1
  <2> QED
    BY <2>1, <2>2
<1> QED
  BY <1>6, <1>7, <1>8

\* Asked is the least closed set of addresses.
LEMMA AskedLeast ==
  ASSUME net \in Overlays
  PROVE  Asked \in SUBSET Addr /\ Closed(Asked) /\ \A Z : Closed(Z) => Asked \subseteq Z
<1>1. PICK N \in Nat : N = Cardinality(Addr)
  BY FS_CardinalityType, LookupAssumption
<1>2. PICK T : /\ Asked = T[N] /\ T[0] = TableAddrs
               /\ \A j \in 1..N : T[j] = Reach(T[j - 1])
  <2>1. \E T : /\ Asked = T[Cardinality(Addr)] /\ T[0] = TableAddrs
               /\ \A j \in 1..Cardinality(Addr) : T[j] = Reach(T[j - 1])
    BY <1>1, AskedIs
  <2> QED
    BY <1>1, <2>1
<1>3. TableAddrs = {x.addr : x \in Contacts(net.table)} /\ TableAddrs \in SUBSET Addr
  <2>1. PICK L \in Seq(Contact) : L = net.table
    BY LookupAssumption
  <2>2. DOMAIN L = 1..Len(L) /\ \A i \in 1..Len(L) : L[i] \in Contact
    BY LenProperties, ElementOfSeq
  <2>3. \A x \in Contact : x.addr \in Addr
    BY DEF Contact
  <2> QED
    BY <2>1, <2>2, <2>3 DEF TableAddrs, Contacts
<1> DEFINE Good(F, k) ==
             /\ F \in SUBSET Addr /\ TableAddrs \subseteq F
             /\ \A Z : Closed(Z) => F \subseteq Z
             /\ Reach(F) = F \/ Cardinality(F) >= k
           S == {k \in Nat : Good(T[k], k)}
<1>4. 0 \in S
  <2>1. T[0] = TableAddrs /\ T[0] \in SUBSET Addr
    BY <1>2, <1>3
  <2>2. \A Z : Closed(Z) => TableAddrs \subseteq Z
    BY <1>3 DEF Closed
  <2>3. Cardinality(T[0]) \in Nat
    BY <2>1, FS_Subset, FS_CardinalityType, LookupAssumption
  <2>4. Good(T[0], 0)
    BY <2>1, <2>2, <2>3
  <2> QED
    BY <2>4
<1>5. ASSUME NEW k \in 0..N-1, k \in S PROVE k + 1 \in S
  <2>1. k \in Nat /\ k + 1 \in 1..N /\ (k + 1) - 1 = k /\ k + 1 \in Nat
    BY <1>1
  <2>2. PICK F, G : F = T[k] /\ G = T[k + 1]
    OBVIOUS
  <2>3. Good(F, k) /\ G = Reach(F)
    BY <1>2, <1>5, <2>1, <2>2
  <2>4. /\ G \in SUBSET Addr /\ F \subseteq G
        /\ \A b \in G : b \in F \/ \E a \in F : Answers(a) /\ \E x \in Contacts(AnswerNodes(a)) : b = x.addr
    BY <2>3, ReachIs
  <2>5. ASSUME NEW Z, Closed(Z) PROVE G \subseteq Z
    <3>1. F \subseteq Z
      BY <2>3, <2>5
    <3> SUFFICES ASSUME NEW b \in G PROVE b \in Z
      OBVIOUS
    <3>2. CASE b \in F
      BY <3>1, <3>2
    <3>3. CASE b \notin F
      <4>1. PICK a \in F : Answers(a) /\ \E x \in Contacts(AnswerNodes(a)) : b = x.addr
        BY <2>4, <3>3
      <4> QED
        BY <2>5, <3>1, <4>1 DEF Closed
    <3> QED
      BY <3>2, <3>3
  <2>6. Reach(G) = G \/ Cardinality(G) >= k + 1
    <3>1. CASE Reach(F) = F
      BY <2>3, <3>1
    <3>2. CASE Reach(F) # F
      <4>1. IsFiniteSet(G) /\ IsFiniteSet(F) /\ F # G
        BY <2>3, <2>4, <3>2, FS_Subset, LookupAssumption
      <4>2. Cardinality(F) < Cardinality(G)
        <5>1. Cardinality(F) <= Cardinality(G) /\ (Cardinality(F) = Cardinality(G) => F = G)
          BY <2>4, <4>1, FS_Subset
        <5>2. Cardinality(F) \in Nat /\ Cardinality(G) \in Nat
          BY <4>1, FS_CardinalityType
        <5> QED
          BY <4>1, <5>1, <5>2
      <4>3. Cardinality(F) \in Nat /\ Cardinality(G) \in Nat /\ Cardinality(F) >= k
        BY <2>3, <3>2, <4>1, FS_CardinalityType
      <4> QED
        BY <2>1, <4>2, <4>3
    <3> QED
      BY <3>1, <3>2
  <2>7. Good(G, k + 1)
    BY <2>3, <2>4, <2>5, <2>6
  <2> QED
    BY <2>1, <2>2, <2>7
<1>6. N \in S
  <2> HIDE DEF S
  <2>1. \A k \in 0..N : k \in S
    BY <1>1, <1>4, <1>5, UpTo
  <2> QED
    BY <1>1, <2>1
<1>7. Good(Asked, N)
  BY <1>2, <1>6
<1>8. Reach(Asked) = Asked
  <2>1. CASE Cardinality(Asked) >= N
    <3>1. Asked \subseteq Addr /\ IsFiniteSet(Addr) /\ IsFiniteSet(Asked)
      BY <1>7, FS_Subset, LookupAssumption
    <3>2. Cardinality(Asked) <= Cardinality(Addr) /\ (Cardinality(Asked) = Cardinality(Addr) => Asked = Addr)
      BY <3>1, FS_Subset
    <3>3. Cardinality(Asked) \in Nat
      BY <3>1, FS_CardinalityType
    <3>4. Asked = Addr
      BY <1>1, <2>1, <3>2, <3>3
    <3>5. Reach(Asked) \in SUBSET Addr /\ Asked \subseteq Reach(Asked)
      BY <3>1, ReachIs
    <3> QED
      BY <3>4, <3>5
  <2> QED
    BY <1>7, <2>1
<1>9. Closed(Asked)
  <2>1. \A x \in Contacts(net.table) : x.addr \in Asked
    BY <1>3, <1>7
  <2>2. Asked \in SUBSET Addr
    BY <1>7
  <2>3. \A a \in Asked : Answers(a) => \A x \in Contacts(AnswerNodes(a)) : x.addr \in Asked
    BY <1>8, <2>2, ReachIs
  <2> QED
    BY <2>1, <2>3 DEF Closed
<1> QED
  BY <1>7, <1>9


\* What is asked depends on the network and the call alone.
LEMMA AskedSame ==
  ASSUME net' = net, call' = call
  PROVE  /\ Asked' = Asked
         /\ \A a : AnswerNodes(a)' = AnswerNodes(a) /\ (Answers(a)' <=> Answers(a)) /\ (HasValue(a)' <=> HasValue(a))
<1>1. ASSUME NEW a PROVE (Answers(a)' <=> Answers(a)) /\ (HasValue(a)' <=> HasValue(a))
  BY DEF Answers, HasValue
<1>2. ASSUME NEW a PROVE AnswerNodes(a)' = AnswerNodes(a)
  BY <1>1 DEF AnswerNodes
<1>3. Asked' = Asked
  BY DEF Asked, AnswerNodes, Answers, HasValue
<1> QED
  BY <1>1, <1>2, <1>3


\* The addresses of the routing table are asked.
LEMMA TableAsked == net \in Overlays => \A x \in Contacts(net.table) : x.addr \in Asked
BY AskedLeast DEF Closed

\* And so they are after the next step.
LEMMA TableAskedNext == (net \in Overlays => \A x \in Contacts(net.table) : x.addr \in Asked)'
BY TableAsked, PTL

\* What anybody knows of somebody.
Known == Contacts(net.table) \cup UNION {net.knows[a] : a \in Addr}
From(c) == [id |-> c.id, addr |-> c.addr]

\* A candidate of s at address a has a token.
HeldIn(s, a) == \E i \in 1..Len(s) : s[i].addr = a /\ s[i].token # None

\* The answer from address a has come in: what it says is in the candidates s, the peer
\* p, the record g and the confirmed address d.
Heard(a, s, p, g, d) ==
  /\ \A x \in Contacts(AnswerNodes(a)) : HasId(s, x.id)
  /\ HasValue(a) => /\ call \in {"get_peers", "announce"} => p # None
                    /\ call \in {"get", "iget", "fetch"} => g # 0
                    /\ call = "fetch" => g >= net.holds[a]
  /\ call = "find" /\ net.live[a] = 0 => d # None
  /\ call # "find" => HeldIn(s, a)

\* Who was asked has been heard, or may still be, or is not there.
Settled(c, s, p, g, d, F) ==
  c.queried => From(c) \in F \/ ~Answers(c.addr) \/ Heard(c.addr, s, p, g, d)

\* Every candidate is known and within reach, those of the routing table are candidates,
\* and the record is one that somebody within reach has.
Complete(s, p, g, d, F) ==
  /\ \A x \in Contacts(net.table) : HasId(s, x.id)
  /\ \A i \in 1..Len(s) : From(s[i]) \in Known /\ s[i].addr \in Asked /\ Settled(s[i], s, p, g, d, F)
  /\ \A c \in F : \E i \in 1..Len(s) : From(s[i]) = c
  /\ g = 0 \/ \E a \in Asked : Answers(a) /\ g = net.holds[a]

Quiet == phase # "wait" => Satisfied \/ \A c \in flight : ~Answers(c.addr)
Ended ==
  phase = "done" =>
    \/ Satisfied
    \/ /\ \A i \in 1..Len(cand) : cand[i].queried
       /\ Publishes /\ TokenHolders # {} => told # {}
OwnStart == cand = <<>> /\ call = "get_peers" /\ peer # None /\ phase = "done"
Undisturbed == ~disturbed /\ Consistent /\ Len(cand) < LOOK_MAX_CAND
CompleteInv ==
  /\ expired => disturbed
  /\ phase # "idle" /\ Undisturbed =>
       OwnStart \/ (Complete(cand, peer, got, direct, flight) /\ Quiet /\ Ended)

\* Within one lookup, being complete means the same in every state.
LEMMA CompleteSame ==
  ASSUME net' = net, call' = call, Complete(cand', peer', got', direct', flight')
  PROVE  Complete(cand, peer, got, direct, flight)'
<1>1. /\ Asked' = Asked
      /\ \A a : AnswerNodes(a)' = AnswerNodes(a) /\ (Answers(a)' <=> Answers(a)) /\ (HasValue(a)' <=> HasValue(a))
  BY AskedSame
<1>2. ASSUME NEW a, Heard(a, cand', peer', got', direct') PROVE Heard(a, cand, peer, got, direct)'
  BY <1>1, <1>2 DEF Heard, HeldIn, HasId
<1>3. ASSUME NEW i \in 1..Len(cand'), Settled(cand'[i], cand', peer', got', direct', flight')
      PROVE  Settled(cand[i], cand, peer, got, direct, flight)'
  <2>1. cand'[i].queried => From(cand'[i]) \in flight' \/ ~Answers(cand'[i].addr) \/ Heard(cand'[i].addr, cand', peer', got', direct')
    BY <1>3 DEF Settled
  <2>2. PICK a : a = cand'[i].addr
    OBVIOUS
  <2>3. Answers(a)' <=> Answers(a)
    BY <1>1
  <2>4. Heard(a, cand', peer', got', direct') => Heard(a, cand, peer, got, direct)'
    BY <1>2
  <2> QED
    BY <2>1, <2>2, <2>3, <2>4 DEF Settled, From
<1>4. Known' = Known
  BY DEF Known, Contacts
<1>5. \A i \in 1..Len(cand') : From(cand'[i]) \in Known /\ cand'[i].addr \in Asked
      /\ Settled(cand'[i], cand', peer', got', direct', flight')
  BY DEF Complete
<1>6. \A i \in 1..Len(cand') : From(cand'[i]) \in Known' /\ cand'[i].addr \in Asked'
      /\ Settled(cand[i], cand, peer, got, direct, flight)'
  BY <1>1, <1>3, <1>4, <1>5
<1>7. \A x \in Contacts(net'.table) : HasId(cand', x.id)
  BY DEF Complete
<1>8. got' = 0 \/ \E a \in Asked' : Answers(a)' /\ got' = net'.holds[a]
  BY <1>1 DEF Complete
<1>9. \A c \in flight' : \E i \in 1..Len(cand') : From(cand'[i]) = c
  BY DEF Complete
<1> QED
  BY <1>6, <1>7, <1>8, <1>9 DEF Complete, Contacts, HasId, From

\* The list s2 keeps what s has.
Keeps(s, s2) == (\A id : HasId(s, id) => HasId(s2, id)) /\ (\A a : HeldIn(s, a) => HeldIn(s2, a))

\* What was heard stays heard.
LEMMA HeardOn ==
  ASSUME NEW a, NEW s, NEW s2, NEW p, NEW p2, NEW g \in Nat, NEW g2 \in Nat, NEW d, NEW d2,
         net.holds[a] \in Nat,
         Heard(a, s, p, g, d), Keeps(s, s2), p # None => p2 # None, g # 0 => g2 # 0,
         call = "fetch" => g2 >= g, d # None => d2 # None
  PROVE  Heard(a, s2, p2, g2, d2)
<1>1. \A x \in Contacts(AnswerNodes(a)) : HasId(s2, x.id)
  BY DEF Heard, Keeps
<1>2. call # "find" => HeldIn(s2, a)
  BY DEF Heard, Keeps
<1>3. HasValue(a) => /\ call \in {"get_peers", "announce"} => p2 # None
                     /\ call \in {"get", "iget", "fetch"} => g2 # 0
                     /\ call = "fetch" => g2 >= net.holds[a]
  BY DEF Heard
<1> QED
  BY <1>1, <1>2, <1>3 DEF Heard

\* Two of whom somebody knows are at one address if they have one identifier.
LEMMA ConsistentIs ==
  ASSUME net \in Overlays, Consistent, NEW x \in Known, NEW y \in Known, x.id = y.id
  PROVE  x.addr = y.addr
<1>1. Range(net.table) = Contacts(net.table)
  <2>1. PICK L \in Seq(Contact) : L = net.table
    BY LookupAssumption
  <2>2. DOMAIN L = 1..Len(L)
    BY LenProperties
  <2> QED
    BY <2>1, <2>2 DEF Range, Contacts
<1> QED
  BY <1>1 DEF Consistent, Known

\* t is the list s after the candidates at Q are asked.
AskedAt(s, t, Q) ==
  /\ Len(t) = Len(s)
  /\ \A i \in 1..Len(s) : /\ t[i].id = s[i].id /\ t[i].addr = s[i].addr /\ t[i].token = s[i].token
                          /\ t[i].queried => s[i].queried \/ i \in Q

\* What Query does to the candidates.
LEMMA QueryAsks ==
  ASSUME LookInv, Query
  PROVE  AskedAt(cand, cand', NextQueries)
<1>1. PICK n \in Nat : n = Len(cand)
  BY LenProperties DEF LookInv, LookList
<1>2. cand \in Seq(Own) /\ DOMAIN cand = 1..n
  BY <1>1, LenProperties DEF LookInv, LookList
<1> DEFINE New(i) == [cand[i] EXCEPT !.queried = cand[i].queried \/ i \in NextQueries]
<1>3. ASSUME NEW i \in 1..n
      PROVE  /\ New(i).id = cand[i].id /\ New(i).addr = cand[i].addr /\ New(i).token = cand[i].token
             /\ New(i).queried => cand[i].queried \/ i \in NextQueries
  <2>1. PICK c \in Own : c = cand[i]
    BY <1>1, <1>2, ElementOfSeq
  <2>2. PICK b : b = (cand[i].queried \/ i \in NextQueries)
    OBVIOUS
  <2>3. PICK d : d = [c EXCEPT !.queried = b]
    OBVIOUS
  <2>4. d.id = c.id /\ d.addr = c.addr /\ d.token = c.token /\ d.queried = b
    BY <2>3 DEF Own, Candidate
  <2>5. New(i) = d
    BY <2>1, <2>2, <2>3
  <2> HIDE DEF New
  <2>6. d.queried => cand[i].queried \/ i \in NextQueries
    BY <2>2, <2>4
  <2> QED
    BY <2>1, <2>4, <2>5, <2>6
<1>4. cand' = [i \in 1..n |-> New(i)]
  BY <1>2 DEF Query
<1> HIDE DEF New
<1>5. PICK q : q = [i \in 1..n |-> New(i)]
  OBVIOUS
<1>6. Len(q) = n /\ \A i \in 1..n : q[i] = New(i)
  BY <1>5
<1> QED
  BY <1>1, <1>3, <1>4, <1>5, <1>6 DEF AskedAt

\* The record is a number.
LEMMA RecordIsNat ==
  ASSUME net \in Overlays, NEW s, NEW p, NEW g, NEW d, NEW F, Complete(s, p, g, d, F)
  PROVE  g \in Nat
<1>1. \A a \in Asked : net.holds[a] \in Nat
  BY AskedLeast, LookupAssumption
<1> QED
  BY <1>1 DEF Complete

\* Asking keeps a lookup complete.
LEMMA QueryComplete ==
  ASSUME LookInv, Query, Complete(cand, peer, got, direct, flight)
  PROVE  Complete(cand', peer', got', direct', flight')
<1>1. AskedAt(cand, cand', NextQueries)
  BY QueryAsks
<1>2. PICK n \in Nat : n = Len(cand)
  BY LenProperties DEF LookInv, LookList
<1>3. PICK t : t = cand'
  OBVIOUS
<1>4. /\ Len(t) = n
      /\ \A i \in 1..n : /\ t[i].id = cand[i].id /\ t[i].addr = cand[i].addr /\ t[i].token = cand[i].token
                         /\ t[i].queried => cand[i].queried \/ i \in NextQueries
  BY <1>1, <1>2, <1>3 DEF AskedAt
<1>5. Keeps(cand, t)
  BY <1>2, <1>4 DEF Keeps, HasId, HeldIn
<1>6. \A i \in 1..n : From(t[i]) = From(cand[i])
  BY <1>4 DEF From
<1>7. flight' = flight \cup {From(cand[i]) : i \in NextQueries} /\ NextQueries \subseteq 1..n
  <2>1. DOMAIN cand = 1..n
    BY <1>2, LenProperties DEF LookInv, LookList
  <2> QED
    BY <2>1 DEF Query, From, NextQueries
<1>8. peer' = peer /\ got' = got /\ direct' = direct /\ got \in Nat /\ net \in Overlays
  BY RecordIsNat DEF Query, results, LookInv
<1>9. ASSUME NEW i \in 1..n
      PROVE  From(t[i]) \in Known /\ t[i].addr \in Asked /\ Settled(t[i], t, peer, got, direct, flight')
  <2>1. From(cand[i]) \in Known /\ cand[i].addr \in Asked /\ Settled(cand[i], cand, peer, got, direct, flight)
    BY <1>2 DEF Complete
  <2>2. CASE i \in NextQueries
    BY <1>4, <1>6, <1>7, <2>1, <2>2 DEF Settled
  <2>3. CASE i \notin NextQueries
    <3>1. ASSUME t[i].queried PROVE From(t[i]) \in flight' \/ ~Answers(t[i].addr) \/ Heard(t[i].addr, t, peer, got, direct)
      <4>1. From(cand[i]) \in flight \/ ~Answers(cand[i].addr) \/ Heard(cand[i].addr, cand, peer, got, direct)
        BY <1>4, <2>1, <2>3, <3>1 DEF Settled
      <4>2. CASE Heard(cand[i].addr, cand, peer, got, direct)
        <5>1. PICK a : a = cand[i].addr
          OBVIOUS
        <5>2. net.holds[a] \in Nat
          BY <1>8, <2>1, <5>1, AskedLeast, LookupAssumption
        <5>3. Heard(a, t, peer, got, direct)
          BY <1>5, <1>8, <4>2, <5>1, <5>2, HeardOn
        <5> QED
          BY <1>4, <5>1, <5>3
      <4> QED
        BY <1>4, <1>6, <1>7, <4>1, <4>2
    <3> QED
      BY <1>4, <1>6, <2>1, <3>1 DEF Settled
  <2> QED
    BY <2>2, <2>3
<1>10. \A x \in Contacts(net.table) : HasId(t, x.id)
  BY <1>5 DEF Complete, Keeps
<1>11. \A c \in flight' : \E i \in 1..n : From(t[i]) = c
  BY <1>2, <1>6, <1>7 DEF Complete
<1>12. got = 0 \/ \E a \in Asked : Answers(a) /\ got = net.holds[a]
  BY DEF Complete
<1> QED
  BY <1>3, <1>4, <1>8, <1>9, <1>10, <1>11, <1>12 DEF Complete

\* What the list s keeps when a token of it is set and contacts are inserted into it.
LEMMA ListKeeps ==
  ASSUME NEW s, NEW t, NEW u, NEW a, NEW C, Len(s) \in Nat,
         TokenSet(s, t, a), Grown(t, u, C), Len(u) < LOOK_MAX_CAND
  PROVE  /\ Keeps(s, u)
         /\ \A i \in 1..Len(s) : \E j \in 1..Len(u) : From(u[j]) = From(s[i])
         /\ call # "find" /\ (\E i \in 1..Len(s) : s[i].addr = a) => HeldIn(u, a)
<1>1. Len(t) = Len(s)
  BY DEF TokenSet
<1>2. \A i \in 1..Len(s) : /\ t[i].id = s[i].id /\ t[i].addr = s[i].addr
                           /\ s[i].token # None => t[i].token # None
  BY DEF TokenSet
<1>3. \A i \in 1..Len(s) : \E j \in 1..Len(u) : u[j] = t[i]
  BY <1>1 DEF Grown, Has
<1>4. Keeps(s, u)
  BY <1>2, <1>3 DEF Keeps, HasId, HeldIn
<1>5. \A i \in 1..Len(s) : \E j \in 1..Len(u) : From(u[j]) = From(s[i])
  BY <1>2, <1>3 DEF From
<1>6. call # "find" /\ (\E i \in 1..Len(s) : s[i].addr = a) => \E i \in 1..Len(s) : t[i].addr = a /\ t[i].token # None
  BY <1>1 DEF TokenSet
<1> QED
  BY <1>3, <1>4, <1>5, <1>6 DEF HeldIn

\* What the results become with the answer from a: nothing found is lost, and what a has
\* is found.
Gains(a, p, g, d, p2, g2, d2) ==
  /\ p # None => p2 # None
  /\ g2 \in Nat /\ (g # 0 => g2 # 0) /\ (call = "fetch" => g2 >= g)
  /\ d # None => d2 # None
  /\ g2 = g \/ g2 = net.holds[a]
  /\ HasValue(a) => /\ call \in {"get_peers", "announce"} => p2 # None
                    /\ call \in {"get", "iget", "fetch"} => g2 # 0
                    /\ call = "fetch" => g2 >= net.holds[a]
  /\ call = "find" /\ net.live[a] = 0 => d2 # None

\* What an answer is worth.
LEMMA AnswerGains ==
  ASSUME LookInv, NEW a \in Addr, NEW c \in flight, a = c.addr, got \in Nat, Receive(c)
  PROVE  Gains(a, peer, got, direct, peer', got', direct')
<1>1. a # None /\ net.holds[a] \in Nat
  BY LookupAssumption DEF LookInv
<1>2. peer' = IF call \in {"get_peers", "announce"} /\ peer = None /\ HasValue(a) THEN a ELSE peer
  BY DEF Receive
<1>3. direct' = IF call = "find" /\ net.live[a] = 0 THEN a ELSE direct
  BY DEF Receive, DirectAfter
<1>4. PICK h \in Nat : h = net.holds[a]
  BY <1>1
<1>5. got' = IF HasValue(a) THEN RecordAfter(h) ELSE got
  BY <1>4 DEF Receive
<1>6. HasValue(a) => h > 0
  BY <1>4 DEF HasValue
<1>7. RecordAfter(h) = CASE call = "get" -> h
                         [] call = "iget" -> IF got = 0 THEN h ELSE got
                         [] call \in {"fetch", "put"} -> IF h > got THEN h ELSE got
                         [] OTHER -> got
  BY DEF RecordAfter
<1>8. PICK r : r = RecordAfter(h)
  OBVIOUS
<1>9. /\ r = h \/ r = got
      /\ h > 0 => /\ got # 0 => r # 0
                  /\ call \in {"get", "iget", "fetch"} => r # 0
      /\ call = "fetch" => r >= got /\ r >= h
  <2>1. CASE call = "get"
    BY <1>7, <1>8, <2>1
  <2>2. CASE call = "iget"
    BY <1>7, <1>8, <2>2
  <2>3. CASE call = "fetch"
    BY <1>7, <1>8, <2>3
  <2>4. CASE call = "put"
    BY <1>7, <1>8, <2>4
  <2>5. CASE call \notin {"get", "iget", "fetch", "put"}
    BY <1>7, <1>8, <2>5
  <2> QED
    BY <2>1, <2>2, <2>3, <2>4, <2>5
<1>10. got' \in Nat /\ (got' = got \/ got' = h) /\ (got # 0 => got' # 0) /\ (call = "fetch" => got' >= got)
  BY <1>5, <1>6, <1>8, <1>9
<1>11. HasValue(a) => /\ call \in {"get", "iget", "fetch"} => got' # 0
                      /\ call = "fetch" => got' >= h
  BY <1>5, <1>6, <1>8, <1>9
<1> QED
  BY <1>1, <1>2, <1>3, <1>4, <1>10, <1>11 DEF Gains

\* An answer keeps a lookup complete, as long as there is room.
LEMMA ReceiveComplete ==
  ASSUME LookInv, NEW c \in flight, Receive(c), Complete(cand, peer, got, direct, flight),
         Len(cand') < LOOK_MAX_CAND
  PROVE  Complete(cand', peer', got', direct', flight')
<1>1. PICK a \in Addr : a = c.addr
  BY DEF LookInv, Contact
<1>2. PICK L : L = AnswerNodes(a)
  OBVIOUS
<1>3. L \in Seq(Contact) /\ Contacts(L) \subseteq net.knows[a] /\ net \in Overlays
  BY <1>2, AnswerIs DEF LookInv
<1>4. PICK t : t = WithToken(cand, a)
  OBVIOUS
<1>5. PICK n \in Nat : n = Len(cand)
  BY LenProperties DEF LookInv, LookList
<1>6. TokenSet(cand, t, a)
  BY <1>4, TokenIsSet DEF LookInv, LookList
<1>7. t \in Seq(Own) /\ Len(t) = n
  BY <1>5, <1>6 DEF TokenSet
<1>8. PICK u : u = Inserted(t, L)
  OBVIOUS
<1>9. Grown(t, u, Contacts(L))
  BY <1>3, <1>7, <1>8, InsertedGrows
<1>10. cand' = u /\ flight' = flight \ {c} /\ Answers(a)
  BY <1>1, <1>2, <1>4, <1>8 DEF Receive
<1>11. got \in Nat
  BY <1>3, RecordIsNat
<1>12. PICK p2, g2, d2, F2 : p2 = peer' /\ g2 = got' /\ d2 = direct' /\ F2 = flight'
  OBVIOUS
<1>13. Gains(a, peer, got, direct, p2, g2, d2)
  BY <1>1, <1>11, <1>12, AnswerGains
<1>14. /\ Keeps(cand, u)
       /\ \A i \in 1..n : \E j \in 1..Len(u) : From(u[j]) = From(cand[i])
       /\ call # "find" /\ (\E i \in 1..n : cand[i].addr = a) => HeldIn(u, a)
  <2>1. Len(u) < LOOK_MAX_CAND
    BY <1>10
  <2> QED
    BY <1>5, <1>6, <1>9, <2>1, ListKeeps
<1>15. PICK k \in 1..n : From(cand[k]) = c
  BY <1>5 DEF Complete
<1>16. cand[k].addr = a /\ a \in Asked
  <2>1. cand[k].addr = a
    BY <1>1, <1>15 DEF From
  <2> QED
    BY <1>5, <2>1 DEF Complete
<1>17. Heard(a, u, p2, g2, d2)
  <2>1. \A x \in Contacts(AnswerNodes(a)) : HasId(u, x.id)
    BY <1>2, <1>9, <1>10 DEF Grown
  <2>2. call # "find" => HeldIn(u, a)
    BY <1>14, <1>16
  <2> QED
    BY <1>13, <2>1, <2>2 DEF Heard, Gains
<1>18. ASSUME NEW b \in Asked, Heard(b, cand, peer, got, direct) PROVE Heard(b, u, p2, g2, d2)
  <2>1. net.holds[b] \in Nat
    BY <1>3, AskedLeast, LookupAssumption
  <2>2. /\ g2 \in Nat /\ (peer # None => p2 # None) /\ (got # 0 => g2 # 0)
        /\ (call = "fetch" => g2 >= got) /\ (direct # None => d2 # None)
    BY <1>13 DEF Gains
  <2> QED
    BY <1>11, <1>14, <1>18, <2>1, <2>2, HeardOn
<1>19. ASSUME NEW i \in 1..Len(u)
       PROVE  From(u[i]) \in Known /\ u[i].addr \in Asked /\ Settled(u[i], u, p2, g2, d2, F2)
  <2>1. Has(t, u[i]) \/ \E x \in Contacts(L) : u[i] = NewCand(x)
    BY <1>9 DEF Grown
  <2>2. CASE Has(t, u[i])
    <3>1. PICK j \in 1..n : u[i] = t[j]
      BY <1>7, <2>2 DEF Has
    <3>2. t[j].id = cand[j].id /\ t[j].addr = cand[j].addr /\ t[j].queried = cand[j].queried
      BY <1>5, <1>6 DEF TokenSet
    <3>3. From(cand[j]) \in Known /\ cand[j].addr \in Asked /\ Settled(cand[j], cand, peer, got, direct, flight)
      BY <1>5 DEF Complete
    <3>4. From(u[i]) = From(cand[j]) /\ u[i].addr = cand[j].addr /\ u[i].queried = cand[j].queried
      BY <3>1, <3>2 DEF From
    <3>5. PICK b \in Asked : b = cand[j].addr
      BY <3>3
    <3>6. ASSUME cand[j].queried PROVE From(cand[j]) \in F2 \/ ~Answers(b) \/ Heard(b, u, p2, g2, d2)
      <4>1. From(cand[j]) \in flight \/ ~Answers(b) \/ Heard(b, cand, peer, got, direct)
        BY <3>3, <3>5, <3>6 DEF Settled
      <4>2. CASE From(cand[j]) = c
        <5>1. b = a
          BY <1>1, <3>5, <4>2 DEF From
        <5> QED
          BY <1>17, <5>1
      <4>3. CASE From(cand[j]) # c
        BY <1>10, <1>12, <1>18, <4>1, <4>3
      <4> QED
        BY <4>2, <4>3
    <3> QED
      BY <3>3, <3>4, <3>5, <3>6 DEF Settled
  <2>3. CASE \E x \in Contacts(L) : u[i] = NewCand(x)
    <3>1. PICK x \in Contacts(L) : u[i] = NewCand(x)
      BY <2>3
    <3>2. x \in net.knows[a] /\ x \in Contact
      BY <1>3, LookupAssumption
    <3>3. From(u[i]) = x /\ u[i].addr = x.addr /\ u[i].queried = FALSE
      BY <3>1, <3>2 DEF NewCand, From, Contact
    <3>4. x.addr \in Asked
      BY <1>2, <1>3, <1>10, <1>16, AskedLeast DEF Closed
    <3> QED
      BY <3>2, <3>3, <3>4 DEF Settled, Known
  <2> QED
    BY <2>1, <2>2, <2>3
<1>20. \A x \in Contacts(net.table) : HasId(u, x.id)
  BY <1>14 DEF Complete, Keeps
<1>21. \A x \in F2 : \E i \in 1..Len(u) : From(u[i]) = x
  BY <1>5, <1>10, <1>12, <1>14 DEF Complete
<1>22. g2 = 0 \/ \E b \in Asked : Answers(b) /\ g2 = net.holds[b]
  <2>1. CASE g2 = got
    BY <2>1 DEF Complete
  <2>2. CASE g2 # got
    BY <1>10, <1>13, <1>16, <2>2 DEF Gains
  <2> QED
    BY <2>1, <2>2
<1> QED
  BY <1>10, <1>12, <1>19, <1>20, <1>21, <1>22 DEF Complete

\* An answer that will not come need not be waited for.
LEMMA LessInFlight ==
  ASSUME NEW s, NEW p, NEW g, NEW d, NEW F, NEW F2, Complete(s, p, g, d, F),
         F2 \subseteq F, \A c \in F \ F2 : ~Answers(c.addr)
  PROVE  Complete(s, p, g, d, F2)
<1>1. ASSUME NEW i \in 1..Len(s) PROVE Settled(s[i], s, p, g, d, F2)
  <2>1. Settled(s[i], s, p, g, d, F)
    BY DEF Complete
  <2>2. From(s[i]).addr = s[i].addr
    BY DEF From
  <2>3. From(s[i]) \in F /\ From(s[i]) \notin F2 => ~Answers(s[i].addr)
    BY <2>2
  <2> QED
    BY <2>1, <2>3 DEF Settled
<1> QED
  BY <1>1 DEF Complete

\* The first of some places is among the first k of them.
LEMMA FirstOfSome ==
  ASSUME NEW n \in Nat, NEW S \in SUBSET (1..n), S # {}, NEW k \in Nat \ {0}
  PROVE  \E i \in S : Cardinality(S \cap 1..i) <= k
<1>1. PICK i \in S : \A j \in S : i <= j
  BY MinIsThere
<1>2. S \cap 1..i = {i}
  BY <1>1
<1>3. Cardinality(S \cap 1..i) = 1
  BY <1>2, FS_Singleton
<1>4. 1 <= k
  OBVIOUS
<1>5. Cardinality(S \cap 1..i) <= k
  BY <1>3, <1>4
<1> QED
  BY <1>5

\* A lookup that ends for lack of candidates has asked them all, and tells somebody of
\* those who gave a token.
LEMMA FinishEnds ==
  ASSUME LookInv, Finish, ~expired, ~Satisfied
  PROVE  /\ \A i \in 1..Len(cand) : cand[i].queried
         /\ Publishes /\ TokenHolders # {} => told' # {}
<1>1. PICK n \in Nat : n = Len(cand)
  BY LenProperties DEF LookInv, LookList
<1>2. DOMAIN cand = 1..n
  BY <1>1, LenProperties DEF LookInv, LookList
<1>3. \A i \in 1..n : cand[i].queried
  <2> SUFFICES ASSUME NEW q \in 1..n, ~cand[q].queried PROVE FALSE
    OBVIOUS
  <2> DEFINE S == {j \in 1..n : ~cand[j].queried}
  <2>1. S \in SUBSET (1..n) /\ S # {}
    OBVIOUS
  <2>2. PICK i \in S : Cardinality(S \cap 1..i) <= LOOK_ALPHA
    <3> HIDE DEF S
    <3> QED
      BY <2>1, FirstOfSome, LookupAssumption
  <2>3. i \in 1..n /\ ~cand[i].queried
    BY <2>2
  <2>4. {j \in 1..i : ~cand[j].queried} = S \cap 1..i
    BY <2>3
  <2>5. i \in NextQueries
    BY <1>2, <2>2, <2>3, <2>4 DEF NextQueries
  <2> QED
    BY <2>5 DEF Finish
<1>4. ASSUME Publishes, TokenHolders # {} PROVE told' # {}
  <2>1. TokenHolders \in SUBSET (1..n)
    BY <1>2 DEF TokenHolders
  <2>2. PICK i \in TokenHolders : Cardinality(TokenHolders \cap 1..i) <= LOOK_K
    BY <1>4, <2>1, FirstOfSome, LookupAssumption
  <2>3. i \in Chosen
    BY <2>2 DEF Chosen
  <2>4. told' = {[addr |-> cand[j].addr, token |-> cand[j].token] : j \in Chosen}
    BY <1>4 DEF Finish
  <2> QED
    BY <2>3, <2>4
<1> QED
  BY <1>1, <1>3, <1>4

\* A lookup begins with the routing table.
LEMMA BeginComplete ==
  ASSUME LookInv, NEW kind, NEW timed, Begin(kind, timed, FALSE), Len(cand') < LOOK_MAX_CAND
  PROVE  Complete(cand, peer, got, direct, flight)' /\ Quiet' /\ Ended'
<1>1. PICK e \in Seq(Own) : e = <<>> /\ Len(e) = 0
  BY EmptySeq
<1>2. PICK L \in Seq(Contact) : L = net.table
  BY LookupAssumption DEF LookInv
<1>3. PICK u : u = Inserted(e, L)
  OBVIOUS
<1>4. Grown(e, u, Contacts(L))
  BY <1>3, InsertedGrows
<1>5. cand' = u /\ net' = net /\ flight' = {} /\ got' = 0 /\ phase' = IF u = <<>> THEN "done" ELSE "send"
  BY <1>1, <1>2, <1>3 DEF Begin
<1>6. \A x \in Contacts(L) : HasId(u, x.id)
  BY <1>4, <1>5 DEF Grown
<1>7. \A x \in Contacts(L) : x.addr \in Asked'
  BY <1>2, <1>5, TableAskedNext DEF LookInv, Contacts
<1>8. ASSUME NEW i \in 1..Len(u) PROVE From(u[i]) \in Known /\ u[i].addr \in Asked' /\ u[i].queried = FALSE
  <2>1. ~Has(e, u[i])
    BY <1>1 DEF Has
  <2>2. PICK x \in Contacts(L) : u[i] = NewCand(x)
    BY <1>4, <2>1 DEF Grown
  <2>3. x \in Contact
    BY ElementOfSeq DEF Contacts
  <2>4. From(u[i]) = x /\ u[i].addr = x.addr /\ u[i].queried = FALSE
    BY <2>2, <2>3 DEF NewCand, From, Contact
  <2> QED
    BY <1>2, <1>7, <2>4 DEF Known
<1>9. Known' = Known
  BY <1>5 DEF Known, Contacts
<1>10. Complete(cand, peer, got, direct, flight)'
  <2>1. \A x \in Contacts(net.table)' : HasId(cand', x.id)
    BY <1>2, <1>5, <1>6 DEF Contacts
  <2>2. \A i \in 1..Len(cand') : From(cand'[i]) \in Known' /\ cand'[i].addr \in Asked' /\ ~cand'[i].queried
    BY <1>5, <1>8, <1>9
  <2>3. \A i \in 1..Len(cand') : Settled(cand[i], cand, peer, got, direct, flight)'
    BY <2>2 DEF Settled
  <2>4. (\A i \in 1..Len(cand) : From(cand[i]) \in Known /\ cand[i].addr \in Asked
                                 /\ Settled(cand[i], cand, peer, got, direct, flight))'
    BY <2>2, <2>3 DEF From
  <2>5. (\A x \in Contacts(net.table) : HasId(cand, x.id))'
    BY <2>1 DEF HasId
  <2>6. (\A c \in flight : \E i \in 1..Len(cand) : From(cand[i]) = c)'
    BY <1>5
  <2>7. (got = 0)'
    BY <1>5
  <2> QED
    BY <2>4, <2>5, <2>6, <2>7 DEF Complete
<1>11. Quiet'
  BY <1>5 DEF Quiet
<1>12. Ended'
  <2>1. CASE u = <<>>
    <3>1. Len(u) = 0 /\ DOMAIN u = {}
      BY <1>1, <2>1, LenProperties
    <3> QED
      BY <1>5, <3>1 DEF Ended, TokenHolders
  <2>2. CASE u # <<>>
    BY <1>5, <2>2 DEF Ended
  <2> QED
    BY <2>1, <2>2
<1> QED
  BY <1>10, <1>11, <1>12

\* A step within one lookup, in which what was complete stays complete.
LEMMA WithinLookup ==
  ASSUME CompleteInv, net' = net, call' = call, phase \in {"send", "wait"},
         (expired => disturbed)', disturbed => disturbed', Len(cand) \in Nat, Len(cand') \in Nat,
         Len(cand) <= Len(cand'),
         /\ Complete(cand, peer, got, direct, flight) /\ Quiet
         /\ ~expired /\ ~disturbed' /\ Len(cand') < LOOK_MAX_CAND
         => Complete(cand', peer', got', direct', flight') /\ Quiet' /\ Ended'
  PROVE  CompleteInv'
<1> SUFFICES ASSUME Undisturbed' PROVE Complete(cand, peer, got, direct, flight)' /\ Quiet' /\ Ended'
  BY DEF CompleteInv
<1>1. ~disturbed' /\ Len(cand') < LOOK_MAX_CAND /\ Consistent'
  BY DEF Undisturbed
<1>2. Consistent
  BY <1>1 DEF Consistent
<1>3. LOOK_MAX_CAND \in Nat
  BY LookupAssumption
<1>4. Undisturbed /\ ~expired
  BY <1>1, <1>2, <1>3 DEF Undisturbed, CompleteInv
<1>5. Complete(cand, peer, got, direct, flight) /\ Quiet
  BY <1>4 DEF CompleteInv, OwnStart
<1>6. Complete(cand', peer', got', direct', flight') /\ Quiet' /\ Ended'
  BY <1>1, <1>4, <1>5
<1> QED
  BY <1>6, CompleteSame

\* Every step keeps it.
LEMMA CompleteStep ==
  ASSUME LookInv, CompleteInv, [LookupNext]_lookupVars
  PROVE  CompleteInv'
<1> DEFINE Comp == Complete(cand, peer, got, direct, flight)
           Comp1 == Complete(cand', peer', got', direct', flight')
<1>1. PICK n \in Nat : n = Len(cand)
  BY LenProperties DEF LookInv, LookList
<1>2. PICK m \in Nat : m = Len(cand')
  BY LookStep, LenProperties DEF LookInv, LookList
<1>3. ASSUME NEW kind \in Kind, NEW timed \in BOOLEAN, NEW own \in BOOLEAN,
             own => kind = "get_peers", Begin(kind, timed, own)
      PROVE  CompleteInv'
  <2>1. (expired => disturbed)'
    BY <1>3 DEF Begin
  <2>2. CASE own = TRUE
    <3>1. cand' = <<>> /\ call' = "get_peers" /\ peer' = "self" /\ phase' = "done"
      BY <1>3, <2>2 DEF Begin
    <3>2. "self" # None
      BY LookupAssumption
    <3> QED
      BY <2>1, <3>1, <3>2 DEF CompleteInv, OwnStart
  <2>3. CASE own = FALSE
    <3>1. Len(cand') < LOOK_MAX_CAND => Complete(cand, peer, got, direct, flight)' /\ Quiet' /\ Ended'
      BY <1>3, <2>3, BeginComplete
    <3> QED
      BY <2>1, <3>1 DEF CompleteInv, Undisturbed
  <2> QED
    BY <2>2, <2>3
<1>4. CASE Query
  <2>1. /\ net' = net /\ call' = call /\ phase = "send" /\ phase' = "wait"
        /\ expired' = expired /\ disturbed' = disturbed
    BY <1>4 DEF Query
  <2>2. Comp => Comp1
    BY <1>4, QueryComplete
  <2>3. n = m
    BY <1>1, <1>2, <1>4, QueryAsks DEF AskedAt
  <2>4. Quiet' /\ Ended'
    BY <2>1 DEF Quiet, Ended
  <2>5. (expired => disturbed)'
    BY <2>1 DEF CompleteInv
  <2> QED
    BY <1>1, <1>2, <2>1, <2>2, <2>3, <2>4, <2>5, WithinLookup
<1>5. ASSUME NEW c \in flight, Receive(c) PROVE CompleteInv'
  <2>1. /\ net' = net /\ call' = call /\ phase = "wait" /\ expired' = expired /\ disturbed' = disturbed
        /\ phase' = IF Satisfied' THEN "send" ELSE "wait"
    BY <1>5 DEF Receive
  <2>2. Comp /\ Len(cand') < LOOK_MAX_CAND => Comp1
    BY <1>5, ReceiveComplete
  <2>3. n <= m
    <3>1. PICK a \in Addr : a = c.addr
      BY DEF LookInv, Contact
    <3>2. PICK L : L = AnswerNodes(a)
      OBVIOUS
    <3>3. L \in Seq(Contact)
      BY <3>2, AnswerIs DEF LookInv
    <3>4. PICK t : t = WithToken(cand, a)
      OBVIOUS
    <3>5. TokenSet(cand, t, a)
      BY <3>4, TokenIsSet DEF LookInv, LookList
    <3>6. t \in Seq(Own) /\ Len(t) = n
      BY <1>1, <3>5 DEF TokenSet
    <3>7. Grown(t, Inserted(t, L), Contacts(L))
      BY <3>3, <3>6, InsertedGrows
    <3>8. cand' = Inserted(t, L)
      BY <1>5, <3>1, <3>2, <3>4 DEF Receive
    <3> QED
      BY <1>2, <3>6, <3>7, <3>8 DEF Grown
  <2>4. Quiet' /\ Ended'
    BY <2>1 DEF Quiet, Ended
  <2>5. (expired => disturbed)'
    BY <2>1 DEF CompleteInv
  <2> QED
    BY <1>1, <1>2, <2>1, <2>2, <2>3, <2>4, <2>5, WithinLookup
<1>6. ASSUME NEW c \in flight, Lose(c) PROVE CompleteInv'
  <2>1. /\ net' = net /\ call' = call /\ phase = "wait" /\ phase' = "wait" /\ expired' = expired
        /\ flight' = flight \ {c} /\ cand' = cand /\ peer' = peer /\ got' = got /\ direct' = direct
    BY <1>6 DEF Lose, results
  <2>2. disturbed => disturbed'
    BY <1>6 DEF Lose
  <2>3. ~disturbed' => ~Answers(c.addr)
    BY <1>6 DEF Lose
  <2>4. Comp /\ ~disturbed' => Comp1
    BY <2>1, <2>3, LessInFlight
  <2>5. Quiet' /\ Ended'
    BY <2>1 DEF Quiet, Ended
  <2>6. (expired => disturbed)' /\ n = m
    BY <1>1, <1>2, <2>1, <2>2 DEF CompleteInv
  <2> QED
    BY <1>1, <1>2, <2>1, <2>2, <2>4, <2>5, <2>6, WithinLookup
<1>7. CASE Idle
  <2>1. /\ net' = net /\ call' = call /\ phase = "wait" /\ phase' = "send" /\ expired' = expired
        /\ flight' = flight /\ cand' = cand /\ peer' = peer /\ got' = got /\ direct' = direct
    BY <1>7 DEF Idle, results
  <2>2. disturbed => disturbed'
    BY <1>7 DEF Idle
  <2>3. ~disturbed' => \A c \in flight : ~Answers(c.addr)
    BY <1>7 DEF Idle
  <2>4. Comp => Comp1
    BY <2>1
  <2>5. ~disturbed' => Quiet'
    BY <2>1, <2>3, AskedSame DEF Quiet
  <2>6. Ended'
    BY <2>1 DEF Ended
  <2>7. (expired => disturbed)' /\ n = m
    BY <1>1, <1>2, <2>1, <2>2 DEF CompleteInv
  <2> QED
    BY <1>1, <1>2, <2>1, <2>2, <2>4, <2>5, <2>6, <2>7, WithinLookup
<1>8. CASE Expire
  BY <1>8 DEF Expire, CompleteInv, Undisturbed
<1>9. CASE Finish
  <2>1. /\ net' = net /\ call' = call /\ phase = "send" /\ phase' = "done" /\ expired' = expired
        /\ flight' = flight /\ cand' = cand /\ peer' = peer /\ got' = got /\ direct' = direct
        /\ disturbed' = disturbed
    BY <1>9 DEF Finish, results
  <2>2. Satisfied' <=> Satisfied
    BY <2>1 DEF Satisfied
  <2>3. Comp => Comp1
    BY <2>1
  <2>4. Quiet => Quiet'
    BY <2>1, <2>2, AskedSame DEF Quiet
  <2>5. ~expired => Ended'
    <3>1. CASE Satisfied
      BY <2>2, <3>1 DEF Ended
    <3>2. CASE ~Satisfied
      <4>1. ~expired => /\ \A i \in 1..Len(cand) : cand[i].queried
                        /\ Publishes /\ TokenHolders # {} => told' # {}
        BY <1>9, <3>2, FinishEnds
      <4>2. (Publishes' <=> Publishes) /\ TokenHolders' = TokenHolders
        BY <2>1 DEF Publishes, TokenHolders
      <4> QED
        BY <2>1, <4>1, <4>2 DEF Ended
    <3> QED
      BY <3>1, <3>2
  <2>6. (expired => disturbed)' /\ n = m
    BY <1>1, <1>2, <2>1 DEF CompleteInv
  <2> QED
    BY <1>1, <1>2, <2>1, <2>3, <2>4, <2>5, <2>6, WithinLookup
<1>10. CASE UNCHANGED lookupVars
  <2>1. /\ net' = net /\ call' = call /\ phase' = phase /\ expired' = expired
        /\ flight' = flight /\ cand' = cand /\ peer' = peer /\ got' = got /\ direct' = direct
        /\ disturbed' = disturbed /\ told' = told
    BY <1>10 DEF lookupVars, results
  <2>2. Comp => Complete(cand, peer, got, direct, flight)'
    <3>1. Comp => Comp1
      BY <2>1
    <3> QED
      BY <2>1, <3>1, CompleteSame
  <2>3. Quiet => Quiet'
    <3>1. Satisfied' <=> Satisfied
      BY <2>1 DEF Satisfied
    <3> QED
      BY <2>1, <3>1, AskedSame DEF Quiet
  <2>4. Ended => Ended'
    BY <2>1 DEF Ended, Satisfied, Publishes, TokenHolders
  <2>5. (OwnStart => OwnStart') /\ (Undisturbed' => Undisturbed)
    BY <2>1 DEF OwnStart, Undisturbed, Consistent
  <2> QED
    BY <2>1, <2>2, <2>3, <2>4, <2>5 DEF CompleteInv
<1> QED
  BY <1>3, <1>4, <1>5, <1>6, <1>7, <1>8, <1>9, <1>10, CallsBegin

\* When all candidates were asked and no answer is to come, everybody within reach that
\* answers has been heard.
LEMMA AllHeard ==
  ASSUME LookInv, Consistent, Complete(cand, peer, got, direct, flight),
         \A c \in flight : ~Answers(c.addr), \A i \in 1..Len(cand) : cand[i].queried
  PROVE  \A a \in Asked : Answers(a) => Heard(a, cand, peer, got, direct)
<1> DEFINE Z == {cand[i].addr : i \in 1..Len(cand)}
<1>1. ASSUME NEW a \in Z, Answers(a) PROVE a \in Asked /\ Heard(a, cand, peer, got, direct)
  <2>1. PICK i \in 1..Len(cand) : a = cand[i].addr
    OBVIOUS
  <2>2. a \in Asked /\ (From(cand[i]) \in flight \/ ~Answers(a) \/ Heard(a, cand, peer, got, direct))
    BY <2>1 DEF Complete, Settled
  <2>3. From(cand[i]).addr = a
    BY <2>1 DEF From
  <2> QED
    BY <1>1, <2>2, <2>3
<1>2. ASSUME NEW x \in Known, HasId(cand, x.id) PROVE x.addr \in Z
  <2>1. PICK i \in 1..Len(cand) : cand[i].id = x.id
    BY <1>2 DEF HasId
  <2>2. PICK y \in Known : y = From(cand[i])
    BY DEF Complete
  <2>3. y.id = x.id /\ y.addr = cand[i].addr
    BY <2>1, <2>2 DEF From
  <2>4. y.addr = x.addr
    BY <2>3, ConsistentIs DEF LookInv
  <2> QED
    BY <2>3, <2>4
<1> HIDE DEF Z
<1>3. \A x \in Contacts(net.table) : x.addr \in Z
  BY <1>2 DEF Complete, Known
<1>4. ASSUME NEW a \in Z, Answers(a), NEW x \in Contacts(AnswerNodes(a)) PROVE x.addr \in Z
  <2>1. a \in Asked /\ Heard(a, cand, peer, got, direct)
    BY <1>1, <1>4
  <2>2. a \in Addr /\ net \in Overlays
    BY <2>1, AskedLeast DEF LookInv
  <2>3. x \in Known
    BY <2>2, AnswerIs DEF Known
  <2>4. HasId(cand, x.id)
    BY <2>1 DEF Heard
  <2> QED
    BY <1>2, <2>3, <2>4
<1>5. Closed(Z)
  BY <1>3, <1>4 DEF Closed
<1>6. Asked \subseteq Z
  BY <1>5, AskedLeast DEF LookInv
<1> QED
  BY <1>1, <1>6

\* LookupComplete: for every network, and every size of the lists, rounds and answers, a
\* lookup that loses no answer and does not run out of time or of room finds what some
\* node within its reach has: a peer, the newest record, the target itself, and somebody
\* to announce or put to (mainline_lookup_ex, mainline_lookup_mutable,
\* mainline_resolve_node).
THEOREM LookupsComplete == LookupSpec => []LookupComplete
<1>1. ASSUME LookInv, CompleteInv PROVE LookupComplete
  <2> DEFINE there == {a \in Asked : Answers(a)}
             seqs == {net.holds[a] : a \in there} \ {0}
             Found == /\ call \in {"get_peers", "announce"} /\ seqs # {} => peer # None
                      /\ call \in {"get", "iget", "fetch"} /\ seqs # {} => got \in seqs
                      /\ call = "fetch" => \A s \in seqs : got >= s
                      /\ call = "find" /\ (\E a \in there : net.live[a] = 0) => direct # None
                      /\ Publishes /\ there # {} => told # {}
  <2> SUFFICES ASSUME phase = "done", Undisturbed PROVE Found
    BY DEF LookupComplete, Undisturbed
  <2>1. OwnStart \/ (Complete(cand, peer, got, direct, flight) /\ Quiet /\ Ended)
    BY <1>1 DEF CompleteInv
  <2>2. CASE OwnStart \/ Satisfied
    BY <2>2 DEF OwnStart, Satisfied, Publishes
  <2>3. CASE ~OwnStart /\ ~Satisfied
    <3>1. Complete(cand, peer, got, direct, flight) /\ \A c \in flight : ~Answers(c.addr)
      BY <2>1, <2>3 DEF Quiet
    <3>2. /\ \A i \in 1..Len(cand) : cand[i].queried
          /\ Publishes /\ TokenHolders # {} => told # {}
      BY <2>1, <2>3 DEF Ended
    <3>3. Consistent
      BY DEF Undisturbed
    <3>4. \A a \in Asked : Answers(a) => Heard(a, cand, peer, got, direct)
      BY <1>1, <3>1, <3>2, <3>3, AllHeard
    <3>5. ASSUME NEW s \in seqs
          PROVE  \E a \in Asked : Answers(a) /\ s = net.holds[a] /\ (call # "find" => HasValue(a))
      <4>1. PICK a \in Asked : Answers(a) /\ s = net.holds[a] /\ s # 0
        OBVIOUS
      <4>2. a \in Addr
        BY <1>1, AskedLeast DEF LookInv
      <4>3. net.holds[a] \in Nat
        BY <1>1, <4>2, LookupAssumption DEF LookInv
      <4>4. call # "find" => HasValue(a)
        BY <4>1, <4>3 DEF HasValue
      <4> QED
        BY <4>1, <4>4
    <3>6. ASSUME call \in {"get_peers", "announce"}, seqs # {} PROVE peer # None
      <4>1. PICK s \in seqs : TRUE
        BY <3>6
      <4>2. PICK a \in Asked : Answers(a) /\ (call # "find" => HasValue(a))
        BY <3>5, <4>1
      <4>3. Heard(a, cand, peer, got, direct)
        BY <3>4, <4>2
      <4> QED
        BY <3>6, <4>2, <4>3 DEF Heard
    <3>7. ASSUME call \in {"get", "iget", "fetch"}, seqs # {} PROVE got \in seqs
      <4>1. PICK s \in seqs : TRUE
        BY <3>7
      <4>2. PICK a \in Asked : Answers(a) /\ (call # "find" => HasValue(a))
        BY <3>5, <4>1
      <4>3. Heard(a, cand, peer, got, direct)
        BY <3>4, <4>2
      <4>4. got # 0
        BY <3>7, <4>2, <4>3 DEF Heard
      <4>5. PICK b \in Asked : Answers(b) /\ got = net.holds[b]
        BY <3>1, <4>4 DEF Complete
      <4> QED
        BY <4>4, <4>5
    <3>8. ASSUME call = "fetch", NEW s \in seqs PROVE got >= s
      <4>1. PICK a \in Asked : Answers(a) /\ s = net.holds[a] /\ (call # "find" => HasValue(a))
        BY <3>5
      <4>2. Heard(a, cand, peer, got, direct)
        BY <3>4, <4>1
      <4> QED
        BY <3>8, <4>1, <4>2 DEF Heard
    <3>9. ASSUME call = "find", NEW a \in there, net.live[a] = 0 PROVE direct # None
      BY <3>4, <3>9 DEF Heard
    <3>10. ASSUME Publishes, there # {} PROVE told # {}
      <4>1. PICK a \in Asked : Answers(a)
        BY <3>10
      <4>2. call # "find"
        BY <3>10 DEF Publishes
      <4>3. HeldIn(cand, a)
        BY <3>4, <4>1, <4>2 DEF Heard
      <4>4. DOMAIN cand = 1..Len(cand)
        BY <1>1, LenProperties DEF LookInv, LookList
      <4>5. TokenHolders # {}
        BY <4>3, <4>4 DEF TokenHolders, HeldIn
      <4> QED
        BY <3>2, <3>10, <4>5
    <3> HIDE DEF there, seqs
    <3> QED
      BY <3>6, <3>7, <3>8, <3>9, <3>10
  <2> QED
    BY <2>2, <2>3
<1>2. LookupInit => LookInv /\ CompleteInv
  BY LookStarts DEF LookupInit, CompleteInv
<1>3. LookInv /\ CompleteInv /\ [LookupNext]_lookupVars => LookInv' /\ CompleteInv'
  BY LookStep, CompleteStep
<1> QED
  BY <1>1, <1>2, <1>3, PTL DEF LookupSpec

-----------------------------------------------------------------------------
(* The record store (NornMainline): its loops. *)

\* Total adds one length after the other.
LEMMA TotalIs ==
  ASSUME NEW s, Len(s) \in Nat
  PROVE  \E T : /\ Total(s) = T[Len(s)] /\ T[0] = 0
                /\ \A j \in 1..Len(s) : T[j] = T[j - 1] + s[j].len
<1> DEFINE b0 == 0
           N == Len(s)
           F(g) == [j \in 0..N |-> IF j = 0 THEN b0 ELSE g[j - 1] + s[j].len]
           S == {k \in Nat : \E g : g[0] = b0 /\ \A j \in 1..k : g[j] = g[j - 1] + s[j].len}
<1>0. N \in Nat
  OBVIOUS
<1>1. 0 \in S
  <2>1. PICK b : b = b0
    OBVIOUS
  <2>2. PICK g : g = [i \in {0} |-> b]
    OBVIOUS
  <2>3. g[0] = b /\ \A j \in 1..0 : g[j] = g[j - 1] + s[j].len
    BY <2>2
  <2> QED
    BY <2>1, <2>3
<1>2. ASSUME NEW k \in 0..N-1, k \in S PROVE k + 1 \in S
  <2>1. PICK g : g[0] = b0 /\ \A j \in 1..k : g[j] = g[j - 1] + s[j].len
    BY <1>2
  <2>2. k \in Nat /\ k + 1 \in Nat
    BY <1>0
  <2>3. PICK y : y = g[k] + s[(k + 1)].len
    OBVIOUS
  <2>4. PICK h : h = [i \in 0..(k + 1) |-> IF i <= k THEN g[i] ELSE y]
    OBVIOUS
  <2>5. h[k + 1] = y /\ \A i \in 0..k : h[i] = g[i]
    BY <2>2, <2>4
  <2>6. ASSUME NEW j \in 1..(k + 1) PROVE h[j] = h[j - 1] + s[j].len
    <3>1. CASE j = k + 1
      <4>1. j - 1 = k /\ k \in 0..k
        BY <2>2, <3>1
      <4> QED
        BY <2>3, <2>5, <3>1, <4>1
    <3>2. CASE j # k + 1
      <4>1. j \in 1..k /\ j - 1 \in 0..k /\ j \in 0..k
        BY <2>2, <3>2
      <4> QED
        BY <2>1, <2>5, <4>1
    <3> QED
      BY <3>1, <3>2
  <2>7. h[0] = b0
    BY <2>1, <2>2, <2>5
  <2> QED
    BY <2>2, <2>6, <2>7
<1>3. N \in S
  <2> HIDE DEF S, N
  <2>1. \A k \in 0..N : k \in S
    BY <1>0, <1>1, <1>2, UpTo
  <2> QED
    BY <1>0, <2>1
<1>4. PICK g : g[0] = b0 /\ \A j \in 1..N : g[j] = g[j - 1] + s[j].len
  BY <1>3
<1>5. \E x : x = F(x)
  <2> HIDE DEF N, b0
  <2>1. PICK x : x = [j \in 0..N |-> g[j]]
    OBVIOUS
  <2>2. x = F(x)
    <3>1. \A j \in 0..N : x[j] = g[j]
      BY <2>1
    <3>2. \A j \in 1..N : j - 1 \in 0..N /\ j \in 0..N
      BY <1>0
    <3>3. \A j \in 0..N : x[j] = IF j = 0 THEN b0 ELSE x[j - 1] + s[j].len
      BY <1>0, <1>4, <3>1, <3>2
    <3> QED
      BY <2>1, <3>1, <3>3
  <2> QED
    BY <2>2
<1> DEFINE T == CHOOSE x : x = F(x)
<1>6. Total(s) = T[N]
  BY DEF Total
<1>7. T = F(T)
  <2> HIDE DEF F
  <2> QED
    BY <1>5
<1> HIDE DEF T
<1>8. T[0] = b0 /\ \A j \in 1..N : T[j] = T[j - 1] + s[j].len
  <2> HIDE DEF b0, N
  <2> QED
    BY <1>0, <1>7
<1> QED
  BY <1>6, <1>8

\* expire is one turn after the other.
LEMMA ExpireIs ==
  ASSUME NEW st, Len(st.list) \in Nat
  PROVE  \E T : /\ expire(st) = T[Len(st.list)].st /\ T[0] = [st |-> st, i |-> 1]
                /\ \A j \in 1..Len(st.list) : T[j] = ExpireTurn(T[j - 1])
<1> DEFINE b0 == [st |-> st, i |-> 1]
           N == Len(st.list)
           F(g) == [j \in 0..N |-> IF j = 0 THEN b0 ELSE ExpireTurn(g[j - 1])]
           S == {k \in Nat : \E g : g[0] = b0 /\ \A j \in 1..k : g[j] = ExpireTurn(g[j - 1])}
<1>0. N \in Nat
  OBVIOUS
<1>1. 0 \in S
  <2>1. PICK b : b = b0
    OBVIOUS
  <2>2. PICK g : g = [i \in {0} |-> b]
    OBVIOUS
  <2>3. g[0] = b /\ \A j \in 1..0 : g[j] = ExpireTurn(g[j - 1])
    BY <2>2
  <2> QED
    BY <2>1, <2>3
<1>2. ASSUME NEW k \in 0..N-1, k \in S PROVE k + 1 \in S
  <2>1. PICK g : g[0] = b0 /\ \A j \in 1..k : g[j] = ExpireTurn(g[j - 1])
    BY <1>2
  <2>2. k \in Nat /\ k + 1 \in Nat
    BY <1>0
  <2>3. PICK y : y = ExpireTurn(g[k])
    OBVIOUS
  <2>4. PICK h : h = [i \in 0..(k + 1) |-> IF i <= k THEN g[i] ELSE y]
    OBVIOUS
  <2>5. h[k + 1] = y /\ \A i \in 0..k : h[i] = g[i]
    BY <2>2, <2>4
  <2>6. ASSUME NEW j \in 1..(k + 1) PROVE h[j] = ExpireTurn(h[j - 1])
    <3>1. CASE j = k + 1
      <4>1. j - 1 = k /\ k \in 0..k
        BY <2>2, <3>1
      <4> QED
        BY <2>3, <2>5, <3>1, <4>1
    <3>2. CASE j # k + 1
      <4>1. j \in 1..k /\ j - 1 \in 0..k /\ j \in 0..k
        BY <2>2, <3>2
      <4> QED
        BY <2>1, <2>5, <4>1
    <3> QED
      BY <3>1, <3>2
  <2>7. h[0] = b0
    BY <2>1, <2>2, <2>5
  <2> QED
    BY <2>2, <2>6, <2>7
<1>3. N \in S
  <2> HIDE DEF S, N
  <2>1. \A k \in 0..N : k \in S
    BY <1>0, <1>1, <1>2, UpTo
  <2> QED
    BY <1>0, <2>1
<1>4. PICK g : g[0] = b0 /\ \A j \in 1..N : g[j] = ExpireTurn(g[j - 1])
  BY <1>3
<1>5. \E x : x = F(x)
  <2> HIDE DEF N, b0
  <2>1. PICK x : x = [j \in 0..N |-> g[j]]
    OBVIOUS
  <2>2. x = F(x)
    <3>1. \A j \in 0..N : x[j] = g[j]
      BY <2>1
    <3>2. \A j \in 1..N : j - 1 \in 0..N /\ j \in 0..N
      BY <1>0
    <3>3. \A j \in 0..N : x[j] = IF j = 0 THEN b0 ELSE ExpireTurn(x[j - 1])
      BY <1>0, <1>4, <3>1, <3>2
    <3> QED
      BY <2>1, <3>1, <3>3
  <2> QED
    BY <2>2
<1> DEFINE T == CHOOSE x : x = F(x)
<1>6. expire(st) = T[N].st
  BY DEF expire
<1>7. T = F(T)
  <2> HIDE DEF F
  <2> QED
    BY <1>5
<1> HIDE DEF T
<1>8. T[0] = b0 /\ \A j \in 1..N : T[j] = ExpireTurn(T[j - 1])
  <2> HIDE DEF b0, N
  <2> QED
    BY <1>0, <1>7
<1> QED
  BY <1>6, <1>8

\* So is the eviction of records.
LEMMA ShrunkIs ==
  ASSUME NEW st, NEW len, Len(st.list) \in Nat
  PROVE  \E T : /\ Shrunk(st, len) = T[Len(st.list)] /\ T[0] = st
                /\ \A j \in 1..Len(st.list) : T[j] = ShrinkTurn(T[j - 1], len)
<1> DEFINE b0 == st
           N == Len(st.list)
           F(g) == [j \in 0..N |-> IF j = 0 THEN b0 ELSE ShrinkTurn(g[j - 1], len)]
           S == {k \in Nat : \E g : g[0] = b0 /\ \A j \in 1..k : g[j] = ShrinkTurn(g[j - 1], len)}
<1>0. N \in Nat
  OBVIOUS
<1>1. 0 \in S
  <2>1. PICK b : b = b0
    OBVIOUS
  <2>2. PICK g : g = [i \in {0} |-> b]
    OBVIOUS
  <2>3. g[0] = b /\ \A j \in 1..0 : g[j] = ShrinkTurn(g[j - 1], len)
    BY <2>2
  <2> QED
    BY <2>1, <2>3
<1>2. ASSUME NEW k \in 0..N-1, k \in S PROVE k + 1 \in S
  <2>1. PICK g : g[0] = b0 /\ \A j \in 1..k : g[j] = ShrinkTurn(g[j - 1], len)
    BY <1>2
  <2>2. k \in Nat /\ k + 1 \in Nat
    BY <1>0
  <2>3. PICK y : y = ShrinkTurn(g[k], len)
    OBVIOUS
  <2>4. PICK h : h = [i \in 0..(k + 1) |-> IF i <= k THEN g[i] ELSE y]
    OBVIOUS
  <2>5. h[k + 1] = y /\ \A i \in 0..k : h[i] = g[i]
    BY <2>2, <2>4
  <2>6. ASSUME NEW j \in 1..(k + 1) PROVE h[j] = ShrinkTurn(h[j - 1], len)
    <3>1. CASE j = k + 1
      <4>1. j - 1 = k /\ k \in 0..k
        BY <2>2, <3>1
      <4> QED
        BY <2>3, <2>5, <3>1, <4>1
    <3>2. CASE j # k + 1
      <4>1. j \in 1..k /\ j - 1 \in 0..k /\ j \in 0..k
        BY <2>2, <3>2
      <4> QED
        BY <2>1, <2>5, <4>1
    <3> QED
      BY <3>1, <3>2
  <2>7. h[0] = b0
    BY <2>1, <2>2, <2>5
  <2> QED
    BY <2>2, <2>6, <2>7
<1>3. N \in S
  <2> HIDE DEF S, N
  <2>1. \A k \in 0..N : k \in S
    BY <1>0, <1>1, <1>2, UpTo
  <2> QED
    BY <1>0, <2>1
<1>4. PICK g : g[0] = b0 /\ \A j \in 1..N : g[j] = ShrinkTurn(g[j - 1], len)
  BY <1>3
<1>5. \E x : x = F(x)
  <2> HIDE DEF N, b0
  <2>1. PICK x : x = [j \in 0..N |-> g[j]]
    OBVIOUS
  <2>2. x = F(x)
    <3>1. \A j \in 0..N : x[j] = g[j]
      BY <2>1
    <3>2. \A j \in 1..N : j - 1 \in 0..N /\ j \in 0..N
      BY <1>0
    <3>3. \A j \in 0..N : x[j] = IF j = 0 THEN b0 ELSE ShrinkTurn(x[j - 1], len)
      BY <1>0, <1>4, <3>1, <3>2
    <3> QED
      BY <2>1, <3>1, <3>3
  <2> QED
    BY <2>2
<1> DEFINE T == CHOOSE x : x = F(x)
<1>6. Shrunk(st, len) = T[N]
  BY DEF Shrunk
<1>7. T = F(T)
  <2> HIDE DEF F
  <2> QED
    BY <1>5
<1> HIDE DEF T
<1>8. T[0] = b0 /\ \A j \in 1..N : T[j] = ShrinkTurn(T[j - 1], len)
  <2> HIDE DEF b0, N
  <2> QED
    BY <1>0, <1>7
<1> QED
  BY <1>6, <1>8

\* And the loading of the file.
LEMMA RestoredIs ==
  ASSUME NEW list, Len(list) \in Nat
  PROVE  \E T : /\ Restored(list) = T[Len(list)] /\ T[0] = [list |-> <<>>, bytes |-> 0]
                /\ \A j \in 1..Len(list) : T[j] = store_item(T[j - 1], list[j], NoIp)
<1> DEFINE b0 == [list |-> <<>>, bytes |-> 0]
           N == Len(list)
           F(g) == [j \in 0..N |-> IF j = 0 THEN b0 ELSE store_item(g[j - 1], list[j], NoIp)]
           S == {k \in Nat : \E g : g[0] = b0 /\ \A j \in 1..k : g[j] = store_item(g[j - 1], list[j], NoIp)}
<1>0. N \in Nat
  OBVIOUS
<1>1. 0 \in S
  <2>1. PICK b : b = b0
    OBVIOUS
  <2>2. PICK g : g = [i \in {0} |-> b]
    OBVIOUS
  <2>3. g[0] = b /\ \A j \in 1..0 : g[j] = store_item(g[j - 1], list[j], NoIp)
    BY <2>2
  <2> QED
    BY <2>1, <2>3
<1>2. ASSUME NEW k \in 0..N-1, k \in S PROVE k + 1 \in S
  <2>1. PICK g : g[0] = b0 /\ \A j \in 1..k : g[j] = store_item(g[j - 1], list[j], NoIp)
    BY <1>2
  <2>2. k \in Nat /\ k + 1 \in Nat
    BY <1>0
  <2>3. PICK y : y = store_item(g[k], list[(k + 1)], NoIp)
    OBVIOUS
  <2>4. PICK h : h = [i \in 0..(k + 1) |-> IF i <= k THEN g[i] ELSE y]
    OBVIOUS
  <2>5. h[k + 1] = y /\ \A i \in 0..k : h[i] = g[i]
    BY <2>2, <2>4
  <2>6. ASSUME NEW j \in 1..(k + 1) PROVE h[j] = store_item(h[j - 1], list[j], NoIp)
    <3>1. CASE j = k + 1
      <4>1. j - 1 = k /\ k \in 0..k
        BY <2>2, <3>1
      <4> QED
        BY <2>3, <2>5, <3>1, <4>1
    <3>2. CASE j # k + 1
      <4>1. j \in 1..k /\ j - 1 \in 0..k /\ j \in 0..k
        BY <2>2, <3>2
      <4> QED
        BY <2>1, <2>5, <4>1
    <3> QED
      BY <3>1, <3>2
  <2>7. h[0] = b0
    BY <2>1, <2>2, <2>5
  <2> QED
    BY <2>2, <2>6, <2>7
<1>3. N \in S
  <2> HIDE DEF S, N
  <2>1. \A k \in 0..N : k \in S
    BY <1>0, <1>1, <1>2, UpTo
  <2> QED
    BY <1>0, <2>1
<1>4. PICK g : g[0] = b0 /\ \A j \in 1..N : g[j] = store_item(g[j - 1], list[j], NoIp)
  BY <1>3
<1>5. \E x : x = F(x)
  <2> HIDE DEF N, b0
  <2>1. PICK x : x = [j \in 0..N |-> g[j]]
    OBVIOUS
  <2>2. x = F(x)
    <3>1. \A j \in 0..N : x[j] = g[j]
      BY <2>1
    <3>2. \A j \in 1..N : j - 1 \in 0..N /\ j \in 0..N
      BY <1>0
    <3>3. \A j \in 0..N : x[j] = IF j = 0 THEN b0 ELSE store_item(x[j - 1], list[j], NoIp)
      BY <1>0, <1>4, <3>1, <3>2
    <3> QED
      BY <2>1, <3>1, <3>3
  <2> QED
    BY <2>2
<1> DEFINE T == CHOOSE x : x = F(x)
<1>6. Restored(list) = T[N]
  BY DEF Restored
<1>7. T = F(T)
  <2> HIDE DEF F
  <2> QED
    BY <1>5
<1> HIDE DEF T
<1>8. T[0] = b0 /\ \A j \in 1..N : T[j] = store_item(T[j - 1], list[j], NoIp)
  <2> HIDE DEF b0, N
  <2> QED
    BY <1>0, <1>7
<1> QED
  BY <1>6, <1>8

\* The list l and, if j is in I, the entry of s at j.
Taken(l, s, I, j) == IF j \in I THEN Append(l, s[j]) ELSE l

\* At looks at one place after the other.
LEMMA AtIs ==
  ASSUME NEW s, NEW I, Len(s) \in Nat
  PROVE  \E T : /\ At(s, I) = T[Len(s)] /\ T[0] = <<>>
                /\ \A j \in 1..Len(s) : T[j] = Taken(T[j - 1], s, I, j)
<1> DEFINE b0 == <<>>
           N == Len(s)
           F(g) == [j \in 0..N |-> IF j = 0 THEN b0 ELSE Taken(g[j - 1], s, I, j)]
           S == {k \in Nat : \E g : g[0] = b0 /\ \A j \in 1..k : g[j] = Taken(g[j - 1], s, I, j)}
<1>0. N \in Nat
  OBVIOUS
<1>1. 0 \in S
  <2>1. PICK b : b = b0
    OBVIOUS
  <2>2. PICK g : g = [i \in {0} |-> b]
    OBVIOUS
  <2>3. g[0] = b /\ \A j \in 1..0 : g[j] = Taken(g[j - 1], s, I, j)
    BY <2>2
  <2> QED
    BY <2>1, <2>3
<1>2. ASSUME NEW k \in 0..N-1, k \in S PROVE k + 1 \in S
  <2>1. PICK g : g[0] = b0 /\ \A j \in 1..k : g[j] = Taken(g[j - 1], s, I, j)
    BY <1>2
  <2>2. k \in Nat /\ k + 1 \in Nat
    BY <1>0
  <2>3. PICK y : y = Taken(g[k], s, I, (k + 1))
    OBVIOUS
  <2>4. PICK h : h = [i \in 0..(k + 1) |-> IF i <= k THEN g[i] ELSE y]
    OBVIOUS
  <2>5. h[k + 1] = y /\ \A i \in 0..k : h[i] = g[i]
    BY <2>2, <2>4
  <2>6. ASSUME NEW j \in 1..(k + 1) PROVE h[j] = Taken(h[j - 1], s, I, j)
    <3>1. CASE j = k + 1
      <4>1. j - 1 = k /\ k \in 0..k
        BY <2>2, <3>1
      <4> QED
        BY <2>3, <2>5, <3>1, <4>1
    <3>2. CASE j # k + 1
      <4>1. j \in 1..k /\ j - 1 \in 0..k /\ j \in 0..k
        BY <2>2, <3>2
      <4> QED
        BY <2>1, <2>5, <4>1
    <3> QED
      BY <3>1, <3>2
  <2>7. h[0] = b0
    BY <2>1, <2>2, <2>5
  <2> QED
    BY <2>2, <2>6, <2>7
<1>3. N \in S
  <2> HIDE DEF S, N
  <2>1. \A k \in 0..N : k \in S
    BY <1>0, <1>1, <1>2, UpTo
  <2> QED
    BY <1>0, <2>1
<1>4. PICK g : g[0] = b0 /\ \A j \in 1..N : g[j] = Taken(g[j - 1], s, I, j)
  BY <1>3
<1>5. \E x : x = F(x)
  <2> HIDE DEF N, b0
  <2>1. PICK x : x = [j \in 0..N |-> g[j]]
    OBVIOUS
  <2>2. x = F(x)
    <3>1. \A j \in 0..N : x[j] = g[j]
      BY <2>1
    <3>2. \A j \in 1..N : j - 1 \in 0..N /\ j \in 0..N
      BY <1>0
    <3>3. \A j \in 0..N : x[j] = IF j = 0 THEN b0 ELSE Taken(x[j - 1], s, I, j)
      BY <1>0, <1>4, <3>1, <3>2
    <3> QED
      BY <2>1, <3>1, <3>3
  <2> QED
    BY <2>2
<1> DEFINE T == CHOOSE x : x = F(x)
<1>6. At(s, I) = T[N]
  BY DEF At, Taken
<1>7. T = F(T)
  <2> HIDE DEF F
  <2> QED
    BY <1>5
<1> HIDE DEF T
<1>8. T[0] = b0 /\ \A j \in 1..N : T[j] = Taken(T[j - 1], s, I, j)
  <2> HIDE DEF b0, N
  <2> QED
    BY <1>0, <1>7
<1> QED
  BY <1>6, <1>8

-----------------------------------------------------------------------------
(* The record store: the sum of the lengths. *)

RecItem ==
  [target : {r.target : r \in Records}, seq : Nat, len : Nat, src : Ip \cup {NoIp}, stored : Nat]

\* g[j] is the sum of the first j lengths of s.
Sums(g, s) == g[0] = 0 /\ \A j \in 1..Len(s) : g[j] = g[j - 1] + s[j].len

\* There is one such sum, and Total is the whole of it.
LEMMA TotalSum ==
  ASSUME NEW s \in Seq(RecItem)
  PROVE  /\ \E g : Sums(g, s) /\ \A k \in 0..Len(s) : g[k] \in Nat
         /\ \A g : Sums(g, s) => Total(s) = g[Len(s)]
<1>1. PICK n \in Nat : n = Len(s)
  BY LenProperties
<1>2. PICK T : /\ Total(s) = T[n] /\ T[0] = 0 /\ \A j \in 1..n : T[j] = T[j - 1] + s[j].len
  <2>1. \E T : /\ Total(s) = T[Len(s)] /\ T[0] = 0 /\ \A j \in 1..Len(s) : T[j] = T[j - 1] + s[j].len
    BY <1>1, TotalIs
  <2> QED
    BY <1>1, <2>1
<1>3. \A j \in 1..n : s[j].len \in Nat
  <2> SUFFICES ASSUME NEW j \in 1..n PROVE s[j].len \in Nat
    OBVIOUS
  <2>1. PICK e \in RecItem : e = s[j]
    BY <1>1, ElementOfSeq
  <2>2. e.len \in Nat
    BY DEF RecItem
  <2> QED
    BY <2>1, <2>2
<1>4. \A k \in 0..n : T[k] \in Nat
  <2> DEFINE S == {k \in Nat : T[k] \in Nat}
  <2>1. 0 \in S
    BY <1>2
  <2>2. ASSUME NEW k \in 0..n-1, k \in S PROVE k + 1 \in S
    <3>1. k + 1 \in 1..n /\ (k + 1) - 1 = k /\ k + 1 \in Nat /\ T[k] \in Nat
      BY <2>2
    <3>2. T[k + 1] = T[k] + s[k + 1].len
      BY <1>2, <3>1
    <3> QED
      BY <1>3, <3>1, <3>2
  <2>3. \A k \in 0..n : k \in S
    <3> HIDE DEF S
    <3> QED
      BY <2>1, <2>2, UpTo
  <2> QED
    BY <2>3
<1>5. ASSUME NEW g, Sums(g, s) PROVE Total(s) = g[n]
  <2>1. g[0] = 0 /\ \A j \in 1..n : g[j] = g[j - 1] + s[j].len
    BY <1>1, <1>5 DEF Sums
  <2> DEFINE S == {k \in Nat : g[k] = T[k]}
  <2>2. 0 \in S
    BY <1>2, <2>1
  <2>3. ASSUME NEW k \in 0..n-1, k \in S PROVE k + 1 \in S
    <3>1. k + 1 \in 1..n /\ (k + 1) - 1 = k /\ k + 1 \in Nat /\ g[k] = T[k]
      BY <2>3
    <3>2. g[k + 1] = g[k] + s[k + 1].len /\ T[k + 1] = T[k] + s[k + 1].len
      BY <1>2, <2>1, <3>1
    <3> QED
      BY <3>1, <3>2
  <2>4. \A k \in 0..n : k \in S
    <3> HIDE DEF S
    <3> QED
      BY <2>2, <2>3, UpTo
  <2> QED
    BY <1>2, <2>4
<1>6. Sums(T, s)
  BY <1>1, <1>2 DEF Sums
<1> QED
  BY <1>1, <1>4, <1>5, <1>6

\* t is s with e at place i.
Changed(t, s, i, e) ==
  t \in Seq(RecItem) /\ Len(t) = Len(s) /\ \A j \in 1..Len(s) : t[j] = IF j = i THEN e ELSE s[j]

\* The sum when one record changes.
LEMMA TotalChanged ==
  ASSUME NEW s \in Seq(RecItem), NEW i \in 1..Len(s), NEW e \in RecItem, NEW t, Changed(t, s, i, e)
  PROVE  Total(t) = Total(s) - s[i].len + e.len /\ Total(s) \in Nat /\ s[i].len \in Nat /\ e.len \in Nat
<1>1. PICK n \in Nat : n = Len(s)
  BY LenProperties
<1>2. PICK g : Sums(g, s) /\ \A k \in 0..n : g[k] \in Nat
  BY <1>1, TotalSum
<1>3. Total(s) = g[n] /\ g[n] \in Nat
  BY <1>1, <1>2, TotalSum
<1>4. PICK x \in RecItem : x = s[i]
  BY <1>1, ElementOfSeq
<1>5. PICK a \in Nat : a = x.len
  BY DEF RecItem
<1>6. PICK b \in Nat : b = e.len
  BY DEF RecItem
<1>7. PICK h : h = [j \in 0..n |-> IF j < i THEN g[j] ELSE g[j] - a + b]
  OBVIOUS
<1>8. g[0] = 0 /\ \A j \in 1..n : g[j] = g[j - 1] + s[j].len
  BY <1>1, <1>2 DEF Sums
<1>9. h[0] = 0 /\ h[n] = g[n] - a + b /\ i \in 1..n
  BY <1>1, <1>7, <1>8
<1>10. ASSUME NEW j \in 1..n PROVE h[j] = h[j - 1] + t[j].len
  <2>1. j - 1 \in 0..n /\ j \in 0..n
    BY <1>1
  <2>2. g[j] \in Nat /\ g[j - 1] \in Nat /\ g[j] = g[j - 1] + s[j].len
    BY <1>2, <1>8, <2>1
  <2>3. PICK y \in RecItem : y = s[j]
    BY <1>1, ElementOfSeq
  <2>4. s[j].len \in Nat
    BY <2>3 DEF RecItem
  <2>5. h[j] = (IF j < i THEN g[j] ELSE g[j] - a + b) /\ h[j - 1] = (IF j - 1 < i THEN g[j - 1] ELSE g[j - 1] - a + b)
    BY <1>7, <2>1
  <2>6. t[j] = IF j = i THEN e ELSE s[j]
    BY <1>1 DEF Changed
  <2>7. CASE j < i
    BY <1>9, <2>1, <2>2, <2>5, <2>6, <2>7
  <2>8. CASE j = i
    <3>1. t[j].len = b /\ s[j].len = a
      BY <1>4, <1>5, <1>6, <2>6, <2>8
    <3>2. h[j] = g[j] - a + b /\ h[j - 1] = g[j - 1]
      BY <1>9, <2>5, <2>8
    <3> QED
      BY <2>2, <3>1, <3>2
  <2>9. CASE j > i
    <3>1. t[j].len = s[j].len
      BY <1>9, <2>6, <2>9
    <3>2. h[j] = g[j] - a + b /\ h[j - 1] = g[j - 1] - a + b
      BY <1>9, <2>5, <2>9
    <3>3. \A p, q, r \in Nat : p = q + r => p - a + b = (q - a + b) + r
      OBVIOUS
    <3>4. g[j] - a + b = (g[j - 1] - a + b) + s[j].len
      BY <2>2, <2>4, <3>3
    <3> QED
      BY <3>1, <3>2, <3>4
  <2> QED
    BY <1>9, <2>7, <2>8, <2>9
<1>11. Sums(h, t) /\ Len(t) = n /\ t \in Seq(RecItem)
  BY <1>1, <1>9, <1>10 DEF Sums, Changed
<1>12. Total(t) = h[n]
  BY <1>11, TotalSum
<1> QED
  BY <1>3, <1>4, <1>5, <1>6, <1>9, <1>12

\* s is t with one record more, at the end.
OneLonger(s, t) ==
  t \in Seq(RecItem) /\ Len(s) = Len(t) + 1 /\ \A j \in 1..Len(t) : t[j] = s[j]

\* The sum with the last record.
LEMMA TotalLast ==
  ASSUME NEW s \in Seq(RecItem), NEW t, OneLonger(s, t)
  PROVE  Total(s) = Total(t) + s[Len(s)].len /\ Total(t) \in Nat /\ s[Len(s)].len \in Nat
<1>1. PICK n \in Nat : n = Len(t)
  BY LenProperties DEF OneLonger
<1>2. Len(s) = n + 1 /\ \A j \in 1..n : t[j] = s[j]
  BY <1>1 DEF OneLonger
<1>3. PICK g : Sums(g, s) /\ \A k \in 0..(n + 1) : g[k] \in Nat
  BY <1>2, TotalSum
<1>4. Total(s) = g[n + 1]
  BY <1>2, <1>3, TotalSum
<1>5. g[0] = 0 /\ \A j \in 1..(n + 1) : g[j] = g[j - 1] + s[j].len
  BY <1>2, <1>3 DEF Sums
<1>6. Sums(g, t)
  BY <1>1, <1>2, <1>5 DEF Sums
<1>7. Total(t) = g[n]
  BY <1>1, <1>6, TotalSum DEF OneLonger
<1>8. g[n + 1] = g[n] + s[n + 1].len
  <2>1. n + 1 \in 1..(n + 1) /\ (n + 1) - 1 = n
    BY <1>1
  <2> QED
    BY <1>5, <2>1
<1>9. PICK e \in RecItem : e = s[n + 1]
  BY <1>2, ElementOfSeq
<1>10. e.len \in Nat /\ g[n] \in Nat
  BY <1>3 DEF RecItem
<1> QED
  BY <1>2, <1>4, <1>7, <1>8, <1>9, <1>10

-----------------------------------------------------------------------------
(* The record store: its operations. *)

TargetsOnce(s) == \A i, j \in 1..Len(s) : s[i].target = s[j].target => i = j
StoreOK(st) == st.list \in Seq(RecItem) /\ st.bytes = Total(st.list) /\ TargetsOnce(st.list)
IsIn(x, s) == \E i \in 1..Len(s) : s[i] = x
Young(x) == now - x.stored <= DHTSTORE_TTL

\* t holds some of the records of st.
PartOf(st, t) == StoreOK(t) /\ \A j \in 1..Len(t.list) : IsIn(t.list[j], st.list)

\* t is s with the last record in the place of the one at i.
Filled(s, t, i) ==
  /\ t \in Seq(RecItem) /\ Len(t) = Len(s) - 1
  /\ \A j \in 1..Len(t) : t[j] = IF j = i THEN s[Len(s)] ELSE s[j]

\* What SwapRemove does, and what it takes off the sum.
LEMMA SwapRemoves ==
  ASSUME NEW s \in Seq(RecItem), NEW i \in 1..Len(s)
  PROVE  Filled(s, SwapRemove(s, i), i) /\ Total(SwapRemove(s, i)) = Total(s) - s[i].len
<1>1. PICK n \in Nat : n = Len(s)
  BY LenProperties
<1>2. PICK e \in RecItem : e = s[n]
  BY <1>1, ElementOfSeq
<1>3. PICK x : x = [s EXCEPT ![i] = e]
  OBVIOUS
<1>4. x \in Seq(RecItem) /\ Len(x) = n /\ \A j \in 1..n : x[j] = IF j = i THEN e ELSE s[j]
  BY <1>1, <1>3, ExceptSeq
<1>5. PICK t : t = SubSeq(x, 1, n - 1)
  OBVIOUS
<1>6. SwapRemove(s, i) = t
  <2>1. Last(s) = e
    BY <1>1, <1>2 DEF Last
  <2> QED
    BY <1>3, <1>4, <1>5, <2>1 DEF SwapRemove, Front
<1>7. t \in Seq(RecItem) /\ Len(t) = n - 1 /\ \A j \in 1..(n - 1) : t[j] = x[j]
  <2>1. \A j \in 1..(n - 1) : x[j] \in RecItem
    BY <1>1, <1>4, ElementOfSeq
  <2>2. /\ t \in Seq(RecItem) /\ Len(t) = IF 1 <= n - 1 THEN (n - 1) - 1 + 1 ELSE 0
        /\ \A j \in 1..((n - 1) - 1 + 1) : t[j] = x[1 + j - 1]
    BY <1>1, <1>5, <2>1, SubSeqProperties
  <2>3. n >= 1 /\ (n - 1) - 1 + 1 = n - 1 /\ \A j \in 1..(n - 1) : 1 + j - 1 = j
    BY <1>1
  <2> QED
    BY <2>2, <2>3
<1>8. Changed(x, s, i, e)
  BY <1>1, <1>4 DEF Changed
<1>9. /\ Total(x) = Total(s) - s[i].len + e.len
      /\ Total(s) \in Nat /\ s[i].len \in Nat /\ e.len \in Nat
  BY <1>8, TotalChanged
<1>10. OneLonger(x, t)
  BY <1>1, <1>4, <1>7 DEF OneLonger
<1>11. Total(x) = Total(t) + x[n].len /\ Total(t) \in Nat
  BY <1>4, <1>10, TotalLast
<1>12. x[n] = e
  BY <1>1, <1>2, <1>4
<1>13. Total(t) = Total(s) - s[i].len
  BY <1>9, <1>11, <1>12
<1>14. Filled(s, t, i)
  <2>1. \A j \in 1..(n - 1) : t[j] = IF j = i THEN s[n] ELSE s[j]
    BY <1>1, <1>2, <1>4, <1>7
  <2> QED
    BY <1>1, <1>7, <2>1 DEF Filled
<1> QED
  BY <1>6, <1>13, <1>14

\* One record less: the others are all still there.
OneLess(st, t, i) ==
  /\ PartOf(st, t) /\ Len(t.list) = Len(st.list) - 1
  /\ \A k \in 1..Len(st.list) : k # i => IsIn(st.list[k], t.list)

\* What remove_at does.
LEMMA RemoveOK ==
  ASSUME NEW st, StoreOK(st), NEW i \in 1..Len(st.list)
  PROVE  OneLess(st, remove_at(st, i), i)
<1>1. PICK s : s = st.list
  OBVIOUS
<1>2. s \in Seq(RecItem) /\ st.bytes = Total(s) /\ TargetsOnce(s) /\ i \in 1..Len(s)
  BY <1>1 DEF StoreOK
<1>3. PICK n \in Nat : n = Len(s)
  BY <1>2, LenProperties
<1>4. PICK t : t = SwapRemove(s, i)
  OBVIOUS
<1>5. Filled(s, t, i) /\ Total(t) = Total(s) - s[i].len
  BY <1>2, <1>4, SwapRemoves
<1>6. t \in Seq(RecItem) /\ Len(t) = n - 1 /\ \A j \in 1..(n - 1) : t[j] = IF j = i THEN s[n] ELSE s[j]
  BY <1>3, <1>5 DEF Filled
<1>7. PICK u : u = remove_at(st, i)
  OBVIOUS
<1>8. u.list = t /\ u.bytes = Total(t)
  BY <1>1, <1>2, <1>4, <1>5, <1>7 DEF remove_at
<1>9. TargetsOnce(t)
  <2> SUFFICES ASSUME NEW j \in 1..(n - 1), NEW k \in 1..(n - 1), t[j].target = t[k].target PROVE j = k
    BY <1>6 DEF TargetsOnce
  <2>1. PICK a \in 1..n : a = IF j = i THEN n ELSE j
    BY <1>2, <1>3
  <2>2. PICK b \in 1..n : b = IF k = i THEN n ELSE k
    BY <1>2, <1>3
  <2>3. t[j] = s[a] /\ t[k] = s[b]
    BY <1>6, <2>1, <2>2
  <2>4. a = b
    BY <1>2, <1>3, <2>3 DEF TargetsOnce
  <2> QED
    BY <1>3, <2>1, <2>2, <2>4
<1>10. \A j \in 1..(n - 1) : IsIn(t[j], s)
  BY <1>2, <1>3, <1>6 DEF IsIn
<1>11. ASSUME NEW k \in 1..n, k # i PROVE IsIn(s[k], t)
  <2>1. CASE k = n
    <3>1. i \in 1..(n - 1) /\ t[i] = s[k]
      BY <1>2, <1>3, <1>6, <1>11, <2>1
    <3> QED
      BY <1>6, <3>1 DEF IsIn
  <2>2. CASE k # n
    <3>1. k \in 1..(n - 1) /\ t[k] = s[k]
      BY <1>3, <1>6, <1>11, <2>2
    <3> QED
      BY <1>6, <3>1 DEF IsIn
  <2> QED
    BY <2>1, <2>2
<1>12. StoreOK(u)
  BY <1>6, <1>8, <1>9 DEF StoreOK
<1> QED
  BY <1>1, <1>3, <1>6, <1>7, <1>8, <1>10, <1>11, <1>12 DEF OneLess, PartOf

\* Some of some are some.
LEMMA SomeOfSome ==
  ASSUME NEW st, NEW t, NEW u, PartOf(st, t), PartOf(t, u)
  PROVE  PartOf(st, u)
<1>1. ASSUME NEW j \in 1..Len(u.list) PROVE IsIn(u.list[j], st.list)
  <2>1. PICK k \in 1..Len(t.list) : t.list[k] = u.list[j]
    BY DEF PartOf, IsIn
  <2>2. IsIn(t.list[k], st.list)
    BY DEF PartOf
  <2> QED
    BY <2>1, <2>2
<1> QED
  BY <1>1 DEF PartOf

\* What has not expired stays.
KeepsYoung(st, t) == \A k \in 1..Len(st.list) : Young(st.list[k]) => IsIn(st.list[k], t.list)

\* expire after k turns: s.i is past what was kept, and what was dropped is gone.
Turned(st, s, k) ==
  /\ PartOf(st, s.st) /\ KeepsYoung(st, s.st)
  /\ s.i \in Nat /\ s.i >= 1 /\ (s.i - 1) + Len(st.list) = k + Len(s.st.list)

\* One turn of expire.
LEMMA ExpireTurns ==
  ASSUME NEW st, Len(st.list) \in Nat, NEW s, NEW k \in 0..Len(st.list)-1, Turned(st, s, k), now \in Nat
  PROVE  Turned(st, ExpireTurn(s), k + 1)
<1>1. PICK N \in Nat : N = Len(st.list)
  OBVIOUS
<1>2. PICK t, i : t = s.st /\ i = s.i
  OBVIOUS
<1>3. StoreOK(t) /\ PartOf(st, t) /\ KeepsYoung(st, t)
  BY <1>2 DEF Turned, PartOf
<1>4. PICK L \in Nat : L = Len(t.list)
  BY <1>3, LenProperties DEF StoreOK
<1>5. i \in Nat /\ i >= 1 /\ (i - 1) + N = k + L /\ k < N /\ k \in Nat
  BY <1>1, <1>2, <1>4 DEF Turned
<1>6. i \in 1..L
  BY <1>1, <1>4, <1>5
<1>9. \A a, b, c, d \in Int :
        (a - 1) + b = c + d => (a - 1) + b = (c + 1) + (d - 1) /\ ((a + 1) - 1) + b = (c + 1) + d
  OBVIOUS
<1>10. i \in Int /\ N \in Int /\ k \in Int /\ L \in Int
  BY <1>1, <1>4, <1>5
<1>7. CASE now - t.list[i].stored > DHTSTORE_TTL
  <2>1. PICK u : u = remove_at(t, i)
    OBVIOUS
  <2>2. OneLess(t, u, i)
    BY <1>3, <1>4, <1>6, <2>1, RemoveOK
  <2>3. ExpireTurn(s) = [st |-> u, i |-> i]
    BY <1>2, <1>7, <2>1 DEF ExpireTurn
  <2>4. PartOf(t, u) /\ Len(u.list) = L - 1 /\ \A j \in 1..L : j # i => IsIn(t.list[j], u.list)
    BY <1>4, <2>2 DEF OneLess
  <2>5. PartOf(st, u)
    BY <1>3, <2>4, SomeOfSome
  <2>6. ~Young(t.list[i])
    <3>1. PICK e \in RecItem : e = t.list[i]
      BY <1>3, <1>4, <1>6, ElementOfSeq DEF StoreOK
    <3>2. e.stored \in Nat
      BY DEF RecItem
    <3> QED
      BY <1>7, <3>1, <3>2, MainlineAssumption DEF Young
  <2>7. KeepsYoung(st, u)
    <3> SUFFICES ASSUME NEW m \in 1..N, Young(st.list[m]) PROVE IsIn(st.list[m], u.list)
      BY <1>1 DEF KeepsYoung
    <3>1. PICK j \in 1..L : t.list[j] = st.list[m]
      BY <1>1, <1>3, <1>4 DEF KeepsYoung, IsIn
    <3>2. j # i
      BY <2>6, <3>1
    <3> QED
      BY <2>4, <3>1, <3>2
  <2>8. (i - 1) + N = (k + 1) + (L - 1)
    BY <1>5, <1>9, <1>10
  <2>9. ExpireTurn(s).st = u /\ ExpireTurn(s).i = i
    BY <2>3
  <2> QED
    BY <1>1, <1>5, <2>4, <2>5, <2>7, <2>8, <2>9 DEF Turned
<1>8. CASE ~(now - t.list[i].stored > DHTSTORE_TTL)
  <2>1. ExpireTurn(s) = [st |-> t, i |-> i + 1]
    BY <1>2, <1>8 DEF ExpireTurn
  <2>2. ((i + 1) - 1) + N = (k + 1) + L
    BY <1>5, <1>9, <1>10
  <2>3. ExpireTurn(s).st = t /\ ExpireTurn(s).i = i + 1
    BY <2>1
  <2>4. i + 1 \in Nat /\ i + 1 >= 1
    BY <1>5
  <2> QED
    BY <1>1, <1>3, <1>4, <2>2, <2>3, <2>4 DEF Turned
<1> QED
  BY <1>7, <1>8

\* expire drops what has expired, and nothing else.
LEMMA ExpireOK ==
  ASSUME NEW st, StoreOK(st), now \in Nat
  PROVE  PartOf(st, expire(st)) /\ KeepsYoung(st, expire(st))
<1>1. PICK N \in Nat : N = Len(st.list)
  BY LenProperties DEF StoreOK
<1>2. PICK T : /\ expire(st) = T[N].st /\ T[0] = [st |-> st, i |-> 1]
               /\ \A j \in 1..N : T[j] = ExpireTurn(T[j - 1])
  <2>1. \E T : /\ expire(st) = T[Len(st.list)].st /\ T[0] = [st |-> st, i |-> 1]
               /\ \A j \in 1..Len(st.list) : T[j] = ExpireTurn(T[j - 1])
    BY <1>1, ExpireIs
  <2> QED
    BY <1>1, <2>1
<1> DEFINE S == {k \in Nat : Turned(st, T[k], k)}
<1>3. 0 \in S
  <2>1. PICK s : s = T[0]
    OBVIOUS
  <2>2. s.st = st /\ s.i = 1
    BY <1>2, <2>1
  <2>3. PartOf(st, st) /\ KeepsYoung(st, st)
    BY DEF PartOf, KeepsYoung, IsIn
  <2>4. Turned(st, s, 0)
    BY <1>1, <2>2, <2>3 DEF Turned
  <2> QED
    BY <2>1, <2>4
<1>4. ASSUME NEW k \in 0..N-1, k \in S PROVE k + 1 \in S
  <2>1. k + 1 \in 1..N /\ (k + 1) - 1 = k /\ k + 1 \in Nat
    BY <1>1
  <2>2. Turned(st, T[k], k) /\ T[k + 1] = ExpireTurn(T[k])
    BY <1>2, <1>4, <2>1
  <2>3. Turned(st, ExpireTurn(T[k]), k + 1)
    BY <1>1, <2>2, ExpireTurns
  <2> QED
    BY <2>1, <2>2, <2>3
<1>5. N \in S
  <2> HIDE DEF S
  <2>1. \A k \in 0..N : k \in S
    BY <1>1, <1>3, <1>4, UpTo
  <2> QED
    BY <1>1, <2>1
<1>6. Turned(st, T[N], N)
  BY <1>5
<1> QED
  BY <1>2, <1>6 DEF Turned

\* The place of the oldest record.
LEMMA OldestIs ==
  ASSUME NEW s \in Seq(RecItem), Len(s) > 0
  PROVE  Oldest(s) \in 1..Len(s)
<1>1. PICK n \in Nat : n = Len(s)
  BY LenProperties
<1>2. DOMAIN s = 1..n /\ 1 \in 1..n
  BY <1>1, LenProperties
<1>3. \A i \in 1..n : s[i].stored \in Nat
  <2> SUFFICES ASSUME NEW i \in 1..n PROVE s[i].stored \in Nat
    OBVIOUS
  <2>1. PICK e \in RecItem : e = s[i]
    BY <1>1, ElementOfSeq
  <2>2. e.stored \in Nat
    BY DEF RecItem
  <2> QED
    BY <2>1, <2>2
<1> DEFINE A == {s[i].stored : i \in 1..n}
           I == {i \in 1..n : \A j \in 1..n : s[i].stored <= s[j].stored}
<1>4. A \in SUBSET Nat /\ A # {}
  BY <1>2, <1>3
<1>5. PICK m \in A : \A a \in A : m <= a
  <2> HIDE DEF A
  <2> QED
    BY <1>4, LeastNumber
<1>6. I \in SUBSET (1..n) /\ I # {}
  <2>1. PICK i \in 1..n : m = s[i].stored
    BY <1>5
  <2>2. i \in I
    BY <1>5, <2>1
  <2> QED
    BY <2>2
<1>7. Oldest(s) = Min(I)
  BY <1>2 DEF Oldest
<1> HIDE DEF I
<1>8. Min(I) \in I
  BY <1>6, MinIsThere
<1> QED
  BY <1>1, <1>6, <1>7, <1>8

\* Eviction takes records away.
LEMMA ShrunkOK ==
  ASSUME NEW st, StoreOK(st), NEW len
  PROVE  PartOf(st, Shrunk(st, len))
<1>1. PICK N \in Nat : N = Len(st.list)
  BY LenProperties DEF StoreOK
<1>2. PICK T : /\ Shrunk(st, len) = T[N] /\ T[0] = st
               /\ \A j \in 1..N : T[j] = ShrinkTurn(T[j - 1], len)
  <2>1. \E T : /\ Shrunk(st, len) = T[Len(st.list)] /\ T[0] = st
               /\ \A j \in 1..Len(st.list) : T[j] = ShrinkTurn(T[j - 1], len)
    BY <1>1, ShrunkIs
  <2> QED
    BY <1>1, <2>1
<1> DEFINE S == {k \in Nat : PartOf(st, T[k]) /\ Len(T[k].list) + k >= N}
<1>3. 0 \in S
  <2>1. PartOf(st, st)
    BY DEF PartOf, IsIn
  <2> QED
    BY <1>1, <1>2, <2>1
<1>4. ASSUME NEW k \in 0..N-1, k \in S PROVE k + 1 \in S
  <2>1. k + 1 \in 1..N /\ (k + 1) - 1 = k /\ k + 1 \in Nat /\ k \in Nat /\ k < N
    BY <1>1
  <2>2. PICK s, u : s = T[k] /\ u = T[k + 1]
    OBVIOUS
  <2>3. PartOf(st, s) /\ Len(s.list) + k >= N /\ u = ShrinkTurn(s, len)
    BY <1>2, <1>4, <2>1, <2>2
  <2>4. StoreOK(s)
    BY <2>3 DEF PartOf
  <2>5. PICK L \in Nat : L = Len(s.list)
    BY <2>4, LenProperties DEF StoreOK
  <2>6. L > 0 /\ L + k >= N
    BY <1>1, <2>1, <2>3, <2>5
  <2>7. CASE u = s
    <3>1. Len(u.list) = L /\ PartOf(st, u)
      BY <2>3, <2>5, <2>7
    <3>2. L + (k + 1) >= N
      BY <1>1, <2>1, <2>6
    <3> QED
      BY <2>1, <2>2, <3>1, <3>2
  <2>8. CASE u # s
    <3>1. PICK i : i = Oldest(s.list)
      OBVIOUS
    <3>2. i \in 1..L
      BY <2>4, <2>5, <2>6, <3>1, OldestIs DEF StoreOK
    <3>3. u = remove_at(s, i)
      BY <2>3, <2>8, <3>1 DEF ShrinkTurn
    <3>4. OneLess(s, u, i)
      BY <2>4, <2>5, <3>2, <3>3, RemoveOK
    <3>5. PartOf(s, u) /\ Len(u.list) = L - 1
      BY <2>5, <3>4 DEF OneLess
    <3>6. PartOf(st, u) /\ Len(u.list) + (k + 1) >= N
      BY <1>1, <2>1, <2>3, <2>6, <3>5, SomeOfSome
    <3> QED
      BY <2>1, <2>2, <3>6
  <2> QED
    BY <2>7, <2>8
<1>5. N \in S
  <2> HIDE DEF S
  <2>1. \A k \in 0..N : k \in S
    BY <1>1, <1>3, <1>4, UpTo
  <2> QED
    BY <1>1, <2>1
<1> QED
  BY <1>2, <1>5

\* A record that may be put, or loaded.
PutOK(r) == r.target \in {q.target : q \in Records} /\ r.seq \in Nat /\ r.len \in Nat

\* The records of st, each as it was or newer.
Newer(st, t) ==
  /\ StoreOK(t) /\ Len(t.list) = Len(st.list)
  /\ \A j \in 1..Len(st.list) : t.list[j].target = st.list[j].target /\ t.list[j].seq >= st.list[j].seq

\* Sequence numbers are numbers.
LEMMA SeqIsNat ==
  ASSUME NEW st, StoreOK(st), NEW i \in 1..Len(st.list)
  PROVE  st.list[i].seq \in Nat /\ st.list[i] \in RecItem
<1>1. PICK e \in RecItem : e = st.list[i]
  BY ElementOfSeq DEF StoreOK
<1>2. e.seq \in Nat
  BY DEF RecItem
<1> QED
  BY <1>1, <1>2

\* One record is replaced by y.
LEMMA ReplaceOne ==
  ASSUME NEW st, StoreOK(st), NEW i \in 1..Len(st.list), NEW y \in RecItem, NEW t,
         Changed(t.list, st.list, i, y), t.bytes = st.bytes - st.list[i].len + y.len,
         y.target = st.list[i].target, y.seq >= st.list[i].seq
  PROVE  Newer(st, t)
<1>1. PICK s, u : s = st.list /\ u = t.list
  OBVIOUS
<1>2. s \in Seq(RecItem) /\ st.bytes = Total(s) /\ TargetsOnce(s) /\ i \in 1..Len(s) /\ Changed(u, s, i, y)
  BY <1>1 DEF StoreOK
<1>3. Total(u) = Total(s) - s[i].len + y.len
  BY <1>2, TotalChanged
<1>4. u \in Seq(RecItem) /\ Len(u) = Len(s) /\ \A j \in 1..Len(s) : u[j] = IF j = i THEN y ELSE s[j]
  BY <1>2 DEF Changed
<1>5. ASSUME NEW j \in 1..Len(s) PROVE u[j].target = s[j].target /\ u[j].seq >= s[j].seq
  <2>1. s[j].seq \in Nat
    BY <1>1, SeqIsNat
  <2> QED
    BY <1>1, <1>4, <2>1
<1>6. TargetsOnce(u)
  BY <1>2, <1>4, <1>5 DEF TargetsOnce
<1>7. StoreOK(t)
  BY <1>1, <1>2, <1>3, <1>4, <1>6 DEF StoreOK
<1> QED
  BY <1>1, <1>4, <1>5, <1>7 DEF Newer

\* store_item on a record that is held.
LEMMA ReplacedOK ==
  ASSUME NEW st, StoreOK(st), NEW i \in 1..Len(st.list), NEW r, PutOK(r), NEW src \in Ip \cup {NoIp},
         st.list[i].target = r.target, now \in Nat
  PROVE  Newer(st, Replaced(st, i, r, src))
<1>1. PICK s, x : s = st.list /\ x = s[i]
  OBVIOUS
<1>2. s \in Seq(RecItem) /\ i \in 1..Len(s) /\ x \in RecItem /\ x.seq \in Nat
  BY <1>1, SeqIsNat DEF StoreOK
<1>3. PICK t : t = Replaced(st, i, r, src)
  OBVIOUS
<1>4. CASE r.seq = 0
  <2>1. PICK y : y = [x EXCEPT !.stored = now]
    OBVIOUS
  <2>2. y \in RecItem /\ y.target = x.target /\ y.seq = x.seq /\ y.len = x.len /\ x.len \in Nat
    BY <1>2, <2>1 DEF RecItem
  <2>3. t.list = [s EXCEPT ![i] = y] /\ t.bytes = st.bytes
    BY <1>1, <1>3, <1>4, <2>1 DEF Replaced
  <2>4. Changed(t.list, s, i, y)
    BY <1>2, <2>2, <2>3, ExceptSeq DEF Changed
  <2>5. st.bytes \in Nat
    BY <1>1, <1>2, <2>2, <2>4, TotalChanged DEF StoreOK
  <2>6. t.bytes = st.bytes - st.list[i].len + y.len
    BY <1>1, <2>2, <2>3, <2>5
  <2> QED
    BY <1>1, <1>2, <1>3, <2>2, <2>4, <2>6, ReplaceOne
<1>5. CASE r.seq # 0 /\ r.seq <= x.seq
  <2>1. t = st
    BY <1>1, <1>3, <1>5 DEF Replaced
  <2>2. \A j \in 1..Len(st.list) : st.list[j].seq \in Nat
    BY SeqIsNat
  <2>3. Newer(st, st)
    BY <2>2 DEF Newer
  <2> QED
    BY <1>3, <2>1, <2>3
<1>6. CASE r.seq # 0 /\ ~(r.seq <= x.seq)
  <2>1. PICK y : y = Item(r, src)
    OBVIOUS
  <2>2. y \in RecItem /\ y.target = r.target /\ y.seq = r.seq /\ y.len = r.len
    BY <2>1 DEF Item, RecItem, PutOK
  <2>3. t.list = [s EXCEPT ![i] = y] /\ t.bytes = st.bytes - x.len + y.len
    BY <1>1, <1>3, <1>6, <2>1, <2>2 DEF Replaced
  <2>4. Changed(t.list, s, i, y)
    BY <1>2, <2>2, <2>3, ExceptSeq DEF Changed
  <2>5. y.seq >= x.seq
    BY <1>2, <1>6, <2>2 DEF PutOK
  <2> QED
    BY <1>1, <1>2, <1>3, <2>2, <2>3, <2>4, <2>5, ReplaceOne
<1> QED
  BY <1>4, <1>5, <1>6

\* One more record, of a target that is not held.
LEMMA AddOne ==
  ASSUME NEW st, StoreOK(st), NEW y \in RecItem, NEW t,
         t.list = Append(st.list, y), t.bytes = st.bytes + y.len,
         \A i \in 1..Len(st.list) : st.list[i].target # y.target
  PROVE  StoreOK(t) /\ \A j \in 1..Len(t.list) : t.list[j] = y \/ IsIn(t.list[j], st.list)
<1>1. PICK s, u : s = st.list /\ u = t.list
  OBVIOUS
<1>2. s \in Seq(RecItem) /\ st.bytes = Total(s) /\ TargetsOnce(s)
  BY <1>1 DEF StoreOK
<1>3. PICK n \in Nat : n = Len(s)
  BY <1>2, LenProperties
<1>4. u \in Seq(RecItem) /\ Len(u) = n + 1 /\ (\A j \in 1..n : u[j] = s[j]) /\ u[n + 1] = y
  BY <1>1, <1>2, <1>3, AppendProperties
<1>5. OneLonger(u, s)
  BY <1>2, <1>3, <1>4 DEF OneLonger
<1>6. Total(u) = Total(s) + y.len
  BY <1>4, <1>5, TotalLast
<1>7. TargetsOnce(u)
  <2> SUFFICES ASSUME NEW i \in 1..(n + 1), NEW j \in 1..(n + 1), u[i].target = u[j].target PROVE i = j
    BY <1>4 DEF TargetsOnce
  <2>1. \A k \in 1..n : s[k].target # y.target
    BY <1>1, <1>3
  <2>2. CASE i = n + 1 /\ j # n + 1
    <3>1. j \in 1..n
      BY <1>3, <2>2
    <3> QED
      BY <1>4, <2>1, <2>2, <3>1
  <2>3. CASE i # n + 1 /\ j = n + 1
    <3>1. i \in 1..n
      BY <1>3, <2>3
    <3> QED
      BY <1>4, <2>1, <2>3, <3>1
  <2>4. CASE i # n + 1 /\ j # n + 1
    <3>1. i \in 1..n /\ j \in 1..n
      BY <1>3, <2>4
    <3> QED
      BY <1>2, <1>3, <1>4, <3>1 DEF TargetsOnce
  <2> QED
    BY <2>2, <2>3, <2>4
<1>8. StoreOK(t)
  BY <1>1, <1>2, <1>4, <1>6, <1>7 DEF StoreOK
<1>9. ASSUME NEW j \in 1..(n + 1) PROVE u[j] = y \/ IsIn(u[j], s)
  <2>1. CASE j = n + 1
    BY <1>4, <2>1
  <2>2. CASE j # n + 1
    <3>1. j \in 1..n
      BY <1>3, <2>2
    <3> QED
      BY <1>3, <1>4, <3>1 DEF IsIn
  <2> QED
    BY <2>1, <2>2
<1> QED
  BY <1>1, <1>4, <1>8, <1>9

\* What store_item does.
LEMMA StoreItemOK ==
  ASSUME NEW st, StoreOK(st), NEW r, PutOK(r), NEW src \in Ip \cup {NoIp}, now \in Nat
  PROVE  StoreOK(store_item(st, r, src))
<1>1. PICK e : e = expire(st)
  OBVIOUS
<1>2. PartOf(st, e) /\ KeepsYoung(st, e) /\ StoreOK(e)
  BY <1>1, ExpireOK DEF PartOf
<1>3. PICK n \in Nat : n = Len(e.list)
  BY <1>2, LenProperties DEF StoreOK
<1> DEFINE I == {i \in 1..Len(e.list) : e.list[i].target = r.target}
<1>4. PICK known : known = SelectInSeq(e.list, LAMBDA x : x.target = r.target)
  OBVIOUS
<1>5. known = IF I # {} THEN Min(I) ELSE 0
  BY <1>4 DEF SelectInSeq
<1>6. I # {} => known \in 1..n /\ e.list[known].target = r.target
  <2> SUFFICES ASSUME I # {} PROVE known \in I
    BY <1>3
  <2>1. I \in SUBSET (1..n)
    BY <1>3
  <2> HIDE DEF I
  <2> QED
    BY <1>5, <2>1, MinIsThere
<1>7. known = 0 => I = {}
  BY <1>5, <1>6
<1>8. PICK room : room = Shrunk(e, r.len)
  OBVIOUS
<1>9. PartOf(e, room) /\ StoreOK(room)
  BY <1>2, <1>8, ShrunkOK DEF PartOf
<1>10. PICK t : t = store_item(st, r, src)
  OBVIOUS
<1>11. t = IF g_budget = 0 THEN st
           ELSE IF known # 0 THEN Replaced(e, known, r, src)
           ELSE IF PerIp(e, src) >= DHTSTORE_PER_IP THEN e
           ELSE IF room.bytes + r.len > g_budget THEN room
           ELSE [list |-> Append(room.list, Item(r, src)), bytes |-> room.bytes + r.len]
  BY <1>1, <1>4, <1>8, <1>10 DEF store_item
<1>12. CASE t = st \/ t = e \/ t = room
  BY <1>2, <1>9, <1>10, <1>12
<1>15. CASE known # 0 /\ t = Replaced(e, known, r, src)
  <2>1. known \in 1..Len(e.list) /\ e.list[known].target = r.target
    BY <1>3, <1>5, <1>6, <1>15
  <2>2. Newer(e, t)
    BY <1>2, <1>15, <2>1, ReplacedOK
  <2> QED
    BY <1>10, <2>2 DEF Newer
<1>16. CASE known = 0 /\ t = [list |-> Append(room.list, Item(r, src)), bytes |-> room.bytes + r.len]
  <2>1. PICK y : y = Item(r, src)
    OBVIOUS
  <2>2. y \in RecItem /\ y.target = r.target /\ y.len = r.len
    BY <2>1 DEF Item, RecItem, PutOK
  <2>3. \A i \in 1..n : e.list[i].target # r.target
    BY <1>3, <1>7, <1>16
  <2>4. \A i \in 1..Len(room.list) : room.list[i].target # y.target
    BY <1>3, <1>9, <2>2, <2>3 DEF PartOf, IsIn
  <2>5. t.list = Append(room.list, y) /\ t.bytes = room.bytes + y.len
    BY <1>16, <2>1, <2>2
  <2>6. StoreOK(t) /\ \A j \in 1..Len(t.list) : t.list[j] = y \/ IsIn(t.list[j], room.list)
    BY <1>9, <2>2, <2>4, <2>5, AddOne
  <2> QED
    BY <1>10, <2>6
<1> QED
  BY <1>11, <1>12, <1>15, <1>16

\* Loading a file makes a store.
LEMMA RestoredOK ==
  ASSUME NEW list \in Seq(RecItem), now \in Nat
  PROVE  StoreOK(Restored(list))
<1>1. PICK N \in Nat : N = Len(list)
  BY LenProperties
<1>2. PICK T : /\ Restored(list) = T[N] /\ T[0] = [list |-> <<>>, bytes |-> 0]
               /\ \A j \in 1..N : T[j] = store_item(T[j - 1], list[j], NoIp)
  <2>1. \E T : /\ Restored(list) = T[Len(list)] /\ T[0] = [list |-> <<>>, bytes |-> 0]
               /\ \A j \in 1..Len(list) : T[j] = store_item(T[j - 1], list[j], NoIp)
    BY <1>1, RestoredIs
  <2> QED
    BY <1>1, <2>1
<1> DEFINE S == {k \in Nat : StoreOK(T[k])}
<1>3. 0 \in S
  <2>1. PICK s, e : s = T[0] /\ e = <<>>
    OBVIOUS
  <2>2. s.list = e /\ s.bytes = 0
    BY <1>2, <2>1
  <2>3. e \in Seq(RecItem) /\ Len(e) = 0
    BY <2>1, EmptySeq
  <2>4. PICK g : Sums(g, e)
    BY <2>3, TotalSum
  <2>5. Total(e) = 0
    <3>1. Total(e) = g[Len(e)]
      BY <2>3, <2>4, TotalSum
    <3> QED
      BY <2>3, <2>4, <3>1 DEF Sums
  <2>6. StoreOK(s)
    BY <2>2, <2>3, <2>5 DEF StoreOK, TargetsOnce
  <2> QED
    BY <2>1, <2>6
<1>4. ASSUME NEW k \in 0..N-1, k \in S PROVE k + 1 \in S
  <2>1. k + 1 \in 1..N /\ (k + 1) - 1 = k /\ k + 1 \in Nat
    BY <1>1
  <2>2. PICK s, r : s = T[k] /\ r = list[k + 1]
    OBVIOUS
  <2>3. StoreOK(s) /\ T[k + 1] = store_item(s, r, NoIp)
    BY <1>2, <1>4, <2>1, <2>2
  <2>4. r \in RecItem
    BY <1>1, <2>1, <2>2, ElementOfSeq
  <2>5. PutOK(r)
    BY <2>4 DEF RecItem, PutOK
  <2>6. StoreOK(store_item(s, r, NoIp))
    BY <2>3, <2>5, StoreItemOK
  <2>7. StoreOK(T[k + 1])
    BY <2>3, <2>6
  <2> QED
    BY <2>1, <2>7
<1>5. N \in S
  <2> HIDE DEF S
  <2>1. \A k \in 0..N : k \in S
    BY <1>1, <1>3, <1>4, UpTo
  <2> QED
    BY <1>1, <2>1
<1> QED
  BY <1>2, <1>5

\* What At picks are entries of the list.
LEMMA AtOK ==
  ASSUME NEW s \in Seq(RecItem), NEW I
  PROVE  At(s, I) \in Seq(RecItem)
<1>1. PICK N \in Nat : N = Len(s)
  BY LenProperties
<1>2. PICK T : /\ At(s, I) = T[N] /\ T[0] = <<>>
               /\ \A j \in 1..N : T[j] = Taken(T[j - 1], s, I, j)
  <2>1. \E T : /\ At(s, I) = T[Len(s)] /\ T[0] = <<>>
               /\ \A j \in 1..Len(s) : T[j] = Taken(T[j - 1], s, I, j)
    BY <1>1, AtIs
  <2> QED
    BY <1>1, <2>1
<1> DEFINE S == {k \in Nat : T[k] \in Seq(RecItem)}
<1>3. 0 \in S
  BY <1>2, EmptySeq
<1>4. ASSUME NEW k \in 0..N-1, k \in S PROVE k + 1 \in S
  <2>1. k + 1 \in 1..N /\ (k + 1) - 1 = k /\ k + 1 \in Nat
    BY <1>1
  <2>2. PICK l, e : l = T[k] /\ e = s[k + 1]
    OBVIOUS
  <2>3. l \in Seq(RecItem) /\ e \in RecItem
    BY <1>1, <1>4, <2>1, <2>2, ElementOfSeq
  <2>4. T[k + 1] = IF k + 1 \in I THEN Append(l, e) ELSE l
    BY <1>2, <2>1, <2>2 DEF Taken
  <2>5. T[k + 1] \in Seq(RecItem)
    BY <2>3, <2>4, AppendProperties
  <2> QED
    BY <2>1, <2>5
<1>5. N \in S
  <2> HIDE DEF S
  <2>1. \A k \in 0..N : k \in S
    BY <1>1, <1>3, <1>4, UpTo
  <2> QED
    BY <1>1, <2>1
<1> QED
  BY <1>2, <1>5

\* So is what dhtstore_list gives.
LEMMA ListedOK ==
  ASSUME NEW s \in Seq(RecItem), NEW b
  PROVE  Listed(s, b) \in Seq(RecItem)
<1>1. PICK all : all = At(s, {i \in DOMAIN s : (s[i].seq = 0) = b})
  OBVIOUS
<1>2. all \in Seq(RecItem)
  BY <1>1, AtOK
<1>3. PICK n \in Nat : n = Len(all)
  BY <1>2, LenProperties
<1>4. PICK m \in Nat : m = IF n < SaveMax THEN n ELSE SaveMax
  BY MainlineAssumption
<1>5. m <= n
  BY <1>3, <1>4, MainlineAssumption
<1>6. \A i \in 1..m : all[i] \in RecItem
  BY <1>2, <1>3, <1>4, <1>5, ElementOfSeq
<1>7. SubSeq(all, 1, m) \in Seq(RecItem)
  BY <1>4, <1>6, SubSeqProperties
<1> QED
  BY <1>1, <1>3, <1>4, <1>7 DEF Listed

-----------------------------------------------------------------------------
(* The record store: the invariant. *)

StoreInv ==
  now \in Nat /\ run \in Nat /\ StoreOK(Store) /\ disk.items \in Seq(RecItem)

\* A store that stays, or is read from.
LEMMA StoreSame ==
  ASSUME NEW st, StoreOK(st)
  PROVE  PartOf(st, st)
BY DEF PartOf, IsIn

\* What reading the listed records does.
LEMMA ReadingOK ==
  ASSUME NEW st, StoreOK(st), NEW list, now \in Nat
  PROVE  PartOf(st, AfterReading(st, list))
BY StoreSame, ExpireOK DEF AfterReading

\* Every step keeps the store in order.
LEMMA StoreStep ==
  ASSUME StoreInv, [Next]_vars
  PROVE  StoreInv'
<1>0. now \in Nat /\ run \in Nat /\ StoreOK(Store) /\ disk.items \in Seq(RecItem)
  BY DEF StoreInv
<1>1. ASSUME now' \in Nat, UNCHANGED <<run, items, g_bytes, disk>>
      PROVE  StoreInv'
  <2>1. Store' = Store
    BY <1>1 DEF Store
  <2> QED
    BY <1>0, <1>1, <2>1 DEF StoreInv
<1>2. ASSUME NEW st, SetStore(st), StoreOK(st), UNCHANGED <<now, run, disk>>
      PROVE  StoreInv'
  <2>1. PICK u : u = Store'
    OBVIOUS
  <2>2. u.list = st.list /\ u.bytes = st.bytes
    BY <1>2, <2>1 DEF Store, SetStore
  <2>3. StoreOK(u)
    BY <1>2, <2>2 DEF StoreOK
  <2> QED
    BY <1>0, <1>2, <2>1, <2>3 DEF StoreInv
<1>3. CASE FindNode \/ ExpireTransactions \/ mainline_evict_stale
  BY <1>0, <1>1, <1>3 DEF FindNode, ExpireTransactions, mainline_evict_stale, storeVars
<1>4. ASSUME NEW p \in Senders, NEW tid \in 1..MaxSteps, NEW c \in Senders, RecvReply(p, tid, c)
      PROVE  StoreInv'
  BY <1>0, <1>1, <1>4 DEF RecvReply, storeVars
<1>5. ASSUME NEW p \in Senders, RecvPing(p) \/ RecvGetPeers(p)
      PROVE  StoreInv'
  BY <1>0, <1>1, <1>5 DEF RecvPing, RecvGetPeers, storeVars
<1>6. ASSUME NEW p \in Senders, RecvGet(p)
      PROVE  StoreInv'
  <2>1. SetStore(expire(Store)) /\ UNCHANGED <<now, run, disk>>
    BY <1>6 DEF RecvGet
  <2>2. StoreOK(expire(Store))
    BY <1>0, ExpireOK DEF PartOf
  <2> QED
    BY <1>2, <2>1, <2>2
<1>7. ASSUME NEW p \in Senders, NEW tok \in granted, NEW hash \in InfoHash, RecvAnnounce(p, hash, tok)
      PROVE  StoreInv'
  BY <1>0, <1>1, <1>7 DEF RecvAnnounce, storeVars
<1>8. ASSUME NEW p \in Senders, NEW tok \in granted, NEW r \in Records, RecvPut(p, r, tok)
      PROVE  StoreInv'
  <2>1. PICK st : st = IF serve_token_valid(p.ip, tok) THEN store_item(Store, r, p.ip) ELSE Store
    OBVIOUS
  <2>2. SetStore(st) /\ UNCHANGED <<now, run, disk>>
    BY <1>8, <2>1 DEF RecvPut
  <2>3. PutOK(r) /\ p.ip \in Ip
    BY MainlineAssumption DEF PutOK
  <2>4. StoreOK(store_item(Store, r, p.ip))
    BY <1>0, <2>3, StoreItemOK
  <2>5. StoreOK(st)
    BY <1>0, <2>1, <2>4
  <2> QED
    BY <1>2, <2>2, <2>5
<1>9. ASSUME NEW i \in DOMAIN items, DelRecord(i)
      PROVE  StoreInv'
  <2>1. SetStore(remove_at(Store, i)) /\ UNCHANGED <<now, run, disk>>
    BY <1>9 DEF DelRecord
  <2>2. i \in 1..Len(Store.list)
    <3>1. Store.list = items
      BY DEF Store
    <3> QED
      BY <1>0, <3>1, LenProperties DEF StoreOK
  <2>3. OneLess(Store, remove_at(Store, i), i)
    BY <1>0, <2>2, RemoveOK
  <2>4. StoreOK(remove_at(Store, i))
    BY <2>3 DEF OneLess, PartOf
  <2> QED
    BY <1>2, <2>1, <2>4
<1>10. CASE Save
  <2>1. PICK signed : signed = Listed(items, FALSE)
    OBVIOUS
  <2>2. PICK st : st = AfterReading(Store, signed)
    OBVIOUS
  <2>3. PICK fixed : fixed = Listed(st.list, TRUE)
    OBVIOUS
  <2>4. PICK u : u = AfterReading(st, fixed)
    OBVIOUS
  <2>5. PICK all : all = signed \o fixed
    OBVIOUS
  <2>6. /\ disk' = [nodes |-> nodes,
                    items |-> At(all, {i \in DOMAIN all : now - all[i].stored <= DHTSTORE_TTL})]
        /\ SetStore(u) /\ UNCHANGED <<now, run>>
    BY <1>10, <2>1, <2>2, <2>3, <2>4, <2>5 DEF Save
  <2>7. PartOf(Store, st) /\ StoreOK(st)
    BY <1>0, <2>2, ReadingOK DEF PartOf
  <2>8. PartOf(Store, u) /\ StoreOK(u)
    BY <1>0, <2>4, <2>7, ReadingOK, SomeOfSome DEF PartOf
  <2>9. items \in Seq(RecItem)
    BY <1>0 DEF StoreOK, Store
  <2>10. signed \in Seq(RecItem) /\ fixed \in Seq(RecItem)
    BY <2>1, <2>3, <2>7, <2>9, ListedOK DEF StoreOK
  <2>11. all \in Seq(RecItem)
    BY <2>5, <2>10, ConcatProperties
  <2>12. disk'.items \in Seq(RecItem)
    BY <2>6, <2>11, AtOK
  <2>14. PICK w : w = Store'
    OBVIOUS
  <2>15. w.list = u.list /\ w.bytes = u.bytes
    BY <2>6, <2>14 DEF Store, SetStore
  <2>16. StoreOK(w)
    BY <2>8, <2>15 DEF StoreOK
  <2> QED
    BY <1>0, <2>6, <2>12, <2>14, <2>16 DEF StoreInv
<1>11. CASE Restart
  <2>1. SetStore(Restored(disk.items)) /\ run' = run + 1 /\ now' = now /\ disk' = disk
    BY <1>11, Zenon DEF Restart
  <2>2. StoreOK(Restored(disk.items))
    BY <1>0, RestoredOK
  <2>3. PICK w : w = Store'
    OBVIOUS
  <2>4. w.list = Restored(disk.items).list /\ w.bytes = Restored(disk.items).bytes
    BY <2>1, <2>3 DEF Store, SetStore
  <2>5. StoreOK(w)
    BY <2>2, <2>4 DEF StoreOK
  <2>6. run' \in Nat /\ run' # run
    BY <1>0, <2>1
  <2> QED
    BY <1>0, <2>1, <2>3, <2>5, <2>6 DEF StoreInv
<1>12. CASE Tick
  BY <1>0, <1>1, <1>12 DEF Tick, storeVars
<1>13. CASE UNCHANGED vars
  BY <1>0, <1>1, <1>13 DEF vars, storeVars
<1> QED
  BY <1>3, <1>4, <1>5, <1>6, <1>7, <1>8, <1>9, <1>10, <1>11, <1>12, <1>13 DEF Next

\* The store begins empty.
LEMMA StoreStarts == Init => StoreInv
<1> SUFFICES ASSUME Init PROVE StoreInv
  OBVIOUS
<1>1. now = 0 /\ run = 1 /\ items = <<>> /\ g_bytes = 0 /\ disk.items = <<>>
  BY DEF Init
<1>2. PICK e : e = <<>>
  OBVIOUS
<1>3. e \in Seq(RecItem) /\ Len(e) = 0
  BY <1>2, EmptySeq
<1>4. PICK g : Sums(g, e)
  BY <1>3, TotalSum
<1>5. Total(e) = g[Len(e)] /\ g[0] = 0
  BY <1>3, <1>4, TotalSum DEF Sums
<1>6. Total(e) = 0 /\ TargetsOnce(e)
  BY <1>3, <1>5 DEF TargetsOnce
<1>7. PICK st : st = Store
  OBVIOUS
<1>8. st.list = e /\ st.bytes = 0
  BY <1>1, <1>2, <1>7 DEF Store
<1>9. StoreOK(st)
  BY <1>3, <1>6, <1>8 DEF StoreOK
<1> QED
  BY <1>1, <1>2, <1>3, <1>7, <1>9 DEF StoreInv

\* BytesCounted: for every budget, every bound on the records and every set of records,
\* the byte count that evictions are decided by is the sum of what is held, through
\* replacement, expiry, eviction, deletion and restart (store_item, remove_at,
\* dht_persist_load).
THEOREM BytesAreCounted == Spec => []BytesCounted
<1>1. StoreInv => BytesCounted
  BY DEF StoreInv, StoreOK, Store, BytesCounted
<1>2. StoreInv /\ [Next]_vars => StoreInv'
  BY StoreStep
<1> QED
  BY <1>1, <1>2, StoreStarts, PTL DEF Spec

-----------------------------------------------------------------------------
(* The routing table (NornMainline): its loops. *)

\* Rejoined adds one node after the other.
LEMMA RejoinedIs ==
  ASSUME NEW list, Len(list) \in Nat
  PROVE  \E T : /\ Rejoined(list) = T[Len(list)] /\ T[0] = <<>>
                /\ \A j \in 1..Len(list) : T[j] = mainline_add_node(T[j - 1], list[j].id, list[j].ip)
<1> DEFINE b0 == <<>>
           N == Len(list)
           F(g) == [j \in 0..N |-> IF j = 0 THEN b0 ELSE mainline_add_node(g[j - 1], list[j].id, list[j].ip)]
           S == {k \in Nat : \E g : g[0] = b0 /\ \A j \in 1..k : g[j] = mainline_add_node(g[j - 1], list[j].id, list[j].ip)}
<1>0. N \in Nat
  OBVIOUS
<1>1. 0 \in S
  <2>1. PICK b : b = b0
    OBVIOUS
  <2>2. PICK g : g = [i \in {0} |-> b]
    OBVIOUS
  <2>3. g[0] = b /\ \A j \in 1..0 : g[j] = mainline_add_node(g[j - 1], list[j].id, list[j].ip)
    BY <2>2
  <2> QED
    BY <2>1, <2>3
<1>2. ASSUME NEW k \in 0..N-1, k \in S PROVE k + 1 \in S
  <2>1. PICK g : g[0] = b0 /\ \A j \in 1..k : g[j] = mainline_add_node(g[j - 1], list[j].id, list[j].ip)
    BY <1>2
  <2>2. k \in Nat /\ k + 1 \in Nat
    BY <1>0
  <2>3. PICK y : y = mainline_add_node(g[k], list[(k + 1)].id, list[(k + 1)].ip)
    OBVIOUS
  <2>4. PICK h : h = [i \in 0..(k + 1) |-> IF i <= k THEN g[i] ELSE y]
    OBVIOUS
  <2>5. h[k + 1] = y /\ \A i \in 0..k : h[i] = g[i]
    BY <2>2, <2>4
  <2>6. ASSUME NEW j \in 1..(k + 1) PROVE h[j] = mainline_add_node(h[j - 1], list[j].id, list[j].ip)
    <3>1. CASE j = k + 1
      <4>1. j - 1 = k /\ k \in 0..k
        BY <2>2, <3>1
      <4> QED
        BY <2>3, <2>5, <3>1, <4>1
    <3>2. CASE j # k + 1
      <4>1. j \in 1..k /\ j - 1 \in 0..k /\ j \in 0..k
        BY <2>2, <3>2
      <4> QED
        BY <2>1, <2>5, <4>1
    <3> QED
      BY <3>1, <3>2
  <2>7. h[0] = b0
    BY <2>1, <2>2, <2>5
  <2> QED
    BY <2>2, <2>6, <2>7
<1>3. N \in S
  <2> HIDE DEF S, N
  <2>1. \A k \in 0..N : k \in S
    BY <1>0, <1>1, <1>2, UpTo
  <2> QED
    BY <1>0, <2>1
<1>4. PICK g : g[0] = b0 /\ \A j \in 1..N : g[j] = mainline_add_node(g[j - 1], list[j].id, list[j].ip)
  BY <1>3
<1>5. \E x : x = F(x)
  <2> HIDE DEF N, b0
  <2>1. PICK x : x = [j \in 0..N |-> g[j]]
    OBVIOUS
  <2>2. x = F(x)
    <3>1. \A j \in 0..N : x[j] = g[j]
      BY <2>1
    <3>2. \A j \in 1..N : j - 1 \in 0..N /\ j \in 0..N
      BY <1>0
    <3>3. \A j \in 0..N : x[j] = IF j = 0 THEN b0 ELSE mainline_add_node(x[j - 1], list[j].id, list[j].ip)
      BY <1>0, <1>4, <3>1, <3>2
    <3> QED
      BY <2>1, <3>1, <3>3
  <2> QED
    BY <2>2
<1> DEFINE T == CHOOSE x : x = F(x)
<1>6. Rejoined(list) = T[N]
  BY DEF Rejoined
<1>7. T = F(T)
  <2> HIDE DEF F
  <2> QED
    BY <1>5
<1> HIDE DEF T
<1>8. T[0] = b0 /\ \A j \in 1..N : T[j] = mainline_add_node(T[j - 1], list[j].id, list[j].ip)
  <2> HIDE DEF b0, N
  <2> QED
    BY <1>0, <1>7
<1> QED
  BY <1>6, <1>8

\* Evicted is one turn after the other.
LEMMA EvictedIs ==
  ASSUME NEW t, Len(t) \in Nat
  PROVE  \E T : /\ Evicted(t) = SubSeq(T[Len(t)].arr, 1, T[Len(t)].kept) /\ T[0] = [arr |-> t, kept |-> 0]
                /\ \A j \in 1..Len(t) : T[j] = EvictTurn(T[j - 1], j)
<1> DEFINE b0 == [arr |-> t, kept |-> 0]
           N == Len(t)
           F(g) == [j \in 0..N |-> IF j = 0 THEN b0 ELSE EvictTurn(g[j - 1], j)]
           S == {k \in Nat : \E g : g[0] = b0 /\ \A j \in 1..k : g[j] = EvictTurn(g[j - 1], j)}
<1>0. N \in Nat
  OBVIOUS
<1>1. 0 \in S
  <2>1. PICK b : b = b0
    OBVIOUS
  <2>2. PICK g : g = [i \in {0} |-> b]
    OBVIOUS
  <2>3. g[0] = b /\ \A j \in 1..0 : g[j] = EvictTurn(g[j - 1], j)
    BY <2>2
  <2> QED
    BY <2>1, <2>3
<1>2. ASSUME NEW k \in 0..N-1, k \in S PROVE k + 1 \in S
  <2>1. PICK g : g[0] = b0 /\ \A j \in 1..k : g[j] = EvictTurn(g[j - 1], j)
    BY <1>2
  <2>2. k \in Nat /\ k + 1 \in Nat
    BY <1>0
  <2>3. PICK y : y = EvictTurn(g[k], (k + 1))
    OBVIOUS
  <2>4. PICK h : h = [i \in 0..(k + 1) |-> IF i <= k THEN g[i] ELSE y]
    OBVIOUS
  <2>5. h[k + 1] = y /\ \A i \in 0..k : h[i] = g[i]
    BY <2>2, <2>4
  <2>6. ASSUME NEW j \in 1..(k + 1) PROVE h[j] = EvictTurn(h[j - 1], j)
    <3>1. CASE j = k + 1
      <4>1. j - 1 = k /\ k \in 0..k
        BY <2>2, <3>1
      <4> QED
        BY <2>3, <2>5, <3>1, <4>1
    <3>2. CASE j # k + 1
      <4>1. j \in 1..k /\ j - 1 \in 0..k /\ j \in 0..k
        BY <2>2, <3>2
      <4> QED
        BY <2>1, <2>5, <4>1
    <3> QED
      BY <3>1, <3>2
  <2>7. h[0] = b0
    BY <2>1, <2>2, <2>5
  <2> QED
    BY <2>2, <2>6, <2>7
<1>3. N \in S
  <2> HIDE DEF S, N
  <2>1. \A k \in 0..N : k \in S
    BY <1>0, <1>1, <1>2, UpTo
  <2> QED
    BY <1>0, <2>1
<1>4. PICK g : g[0] = b0 /\ \A j \in 1..N : g[j] = EvictTurn(g[j - 1], j)
  BY <1>3
<1>5. \E x : x = F(x)
  <2> HIDE DEF N, b0
  <2>1. PICK x : x = [j \in 0..N |-> g[j]]
    OBVIOUS
  <2>2. x = F(x)
    <3>1. \A j \in 0..N : x[j] = g[j]
      BY <2>1
    <3>2. \A j \in 1..N : j - 1 \in 0..N /\ j \in 0..N
      BY <1>0
    <3>3. \A j \in 0..N : x[j] = IF j = 0 THEN b0 ELSE EvictTurn(x[j - 1], j)
      BY <1>0, <1>4, <3>1, <3>2
    <3> QED
      BY <2>1, <3>1, <3>3
  <2> QED
    BY <2>2
<1> DEFINE T == CHOOSE x : x = F(x)
<1>6. Evicted(t) = SubSeq(T[N].arr, 1, T[N].kept)
  BY DEF Evicted
<1>7. T = F(T)
  <2> HIDE DEF F
  <2> QED
    BY <1>5
<1> HIDE DEF T
<1>8. T[0] = b0 /\ \A j \in 1..N : T[j] = EvictTurn(T[j - 1], j)
  <2> HIDE DEF b0, N
  <2> QED
    BY <1>0, <1>7
<1> QED
  BY <1>6, <1>8

-----------------------------------------------------------------------------
(* The routing table: who stays in it. *)

\* No node says it is of our application once, and of another another time.
SteadySenders == \A p, q \in Senders : p.id = q.id /\ p.info = "ours" => q.info # "other"

TableNode == [id : STRING, ip : Ip, seen : Nat, norn : BOOLEAN, ours : BOOLEAN]

\* Who is marked as of our application has said so.
SaidSo(n) == n.ours => \E q \in Senders : q.id = n.id /\ q.info = "ours"
TableOK(t) == t \in Seq(TableNode) /\ \A i \in 1..Len(t) : SaidSo(t[i])

\* A node like n is in u, and is preferred.
StillIn(n, u) == \E j \in 1..Len(u) : u[j].id = n.id /\ Preferred(u[j])

\* u holds every preferred node of t.
HoldsPreferred(t, u) ==
  TableOK(u) /\ \A i \in 1..Len(t) : Preferred(t[i]) => StillIn(t[i], u)

\* Who is held is held on.
LEMMA HoldsOn ==
  ASSUME NEW t, NEW u, NEW v, HoldsPreferred(t, u), HoldsPreferred(u, v)
  PROVE  HoldsPreferred(t, v)
<1>1. ASSUME NEW i \in 1..Len(t), Preferred(t[i]) PROVE StillIn(t[i], v)
  <2>1. PICK j \in 1..Len(u) : u[j].id = t[i].id /\ Preferred(u[j])
    BY <1>1 DEF HoldsPreferred, StillIn
  <2>2. StillIn(u[j], v)
    BY <2>1 DEF HoldsPreferred
  <2> QED
    BY <2>1, <2>2 DEF StillIn
<1> QED
  BY <1>1 DEF HoldsPreferred

\* A table that stays.
LEMMA HoldsSame ==
  ASSUME NEW t, TableOK(t)
  PROVE  HoldsPreferred(t, t)
BY DEF HoldsPreferred, StillIn

\* A list with its last entry in the place of the one at i.
LEMMA SwapMoves ==
  ASSUME NEW X, NEW s \in Seq(X), NEW i \in 1..Len(s), NEW t, t = SwapRemove(s, i)
  PROVE  /\ t \in Seq(X) /\ Len(t) = Len(s) - 1
         /\ \A j \in 1..(Len(s) - 1) : t[j] = IF j = i THEN s[Len(s)] ELSE s[j]
<1>1. PICK n \in Nat : n = Len(s)
  BY LenProperties
<1>2. PICK e \in X : e = s[n]
  BY <1>1, ElementOfSeq
<1>3. PICK x : x = [s EXCEPT ![i] = e]
  OBVIOUS
<1>4. x \in Seq(X) /\ Len(x) = n /\ \A j \in 1..n : x[j] = IF j = i THEN e ELSE s[j]
  BY <1>1, <1>3, ExceptSeq
<1>5. t = SubSeq(x, 1, n - 1)
  <2>1. Last(s) = e
    BY <1>1, <1>2 DEF Last
  <2> QED
    BY <1>3, <1>4, <2>1 DEF SwapRemove, Front
<1>6. t \in Seq(X) /\ Len(t) = n - 1 /\ \A j \in 1..(n - 1) : t[j] = x[j]
  <2>1. \A j \in 1..(n - 1) : x[j] \in X
    BY <1>1, <1>4, ElementOfSeq
  <2>2. /\ t \in Seq(X) /\ Len(t) = IF 1 <= n - 1 THEN (n - 1) - 1 + 1 ELSE 0
        /\ \A j \in 1..((n - 1) - 1 + 1) : t[j] = x[1 + j - 1]
    BY <1>1, <1>5, <2>1, SubSeqProperties
  <2>3. n >= 1 /\ (n - 1) - 1 + 1 = n - 1 /\ \A j \in 1..(n - 1) : 1 + j - 1 = j
    BY <1>1
  <2> QED
    BY <2>2, <2>3
<1>7. \A j \in 1..(n - 1) : t[j] = IF j = i THEN s[n] ELSE s[j]
  BY <1>1, <1>2, <1>4, <1>6
<1> QED
  BY <1>1, <1>6, <1>7

\* Who leaves for a newcomer is not preferred.
LEMMA VictimIs ==
  ASSUME NEW t \in Seq(TableNode), NEW I \in SUBSET (1..Len(t)), Victim(t, I) # 0
  PROVE  Victim(t, I) \in 1..Len(t) /\ ~Preferred(t[Victim(t, I)])
<1>1. PICK n \in Nat : n = Len(t)
  BY LenProperties
<1>2. \A i \in 1..n : t[i].seen \in Nat
  <2> SUFFICES ASSUME NEW i \in 1..n PROVE t[i].seen \in Nat
    OBVIOUS
  <2>1. PICK e \in TableNode : e = t[i]
    BY <1>1, ElementOfSeq
  <2>2. e.seen \in Nat
    BY DEF TableNode
  <2> QED
    BY <2>1, <2>2
<1> DEFINE free == {i \in I : ~Preferred(t[i])}
           oldest == {i \in free : \A j \in free : t[i].seen <= t[j].seen}
           A == {t[i].seen : i \in free}
<1>3. free # {} /\ Victim(t, I) = Min(oldest)
  BY DEF Victim
<1>4. free \in SUBSET (1..n)
  BY <1>1
<1>5. A \in SUBSET Nat /\ A # {}
  BY <1>2, <1>3, <1>4
<1>6. PICK m \in A : \A a \in A : m <= a
  <2> HIDE DEF A
  <2> QED
    BY <1>5, LeastNumber
<1>7. oldest \in SUBSET (1..n) /\ oldest # {}
  <2>1. PICK i \in free : m = t[i].seen
    BY <1>6
  <2>2. i \in oldest
    BY <1>6, <2>1
  <2> QED
    BY <1>4, <2>2
<1>8. Min(oldest) \in oldest
  <2> HIDE DEF oldest
  <2> QED
    BY <1>7, MinIsThere
<1>9. Min(oldest) \in 1..n /\ ~Preferred(t[Min(oldest)])
  BY <1>4, <1>8
<1> QED
  BY <1>1, <1>3, <1>9

\* One entry changes, to one of the same node that is marked as before.
LEMMA EntryChanged ==
  ASSUME NEW t, TableOK(t), NEW k \in 1..Len(t), NEW y \in TableNode, NEW u, u = [t EXCEPT ![k] = y],
         y.id = t[k].id, y.norn = t[k].norn, y.ours = t[k].ours
  PROVE  HoldsPreferred(t, u)
<1>1. PICK n \in Nat : n = Len(t)
  BY LenProperties DEF TableOK
<1>2. u \in Seq(TableNode) /\ Len(u) = n /\ \A j \in 1..n : u[j] = IF j = k THEN y ELSE t[j]
  BY <1>1, ExceptSeq DEF TableOK
<1>3. \A j \in 1..n : u[j].id = t[j].id /\ u[j].norn = t[j].norn /\ u[j].ours = t[j].ours
  BY <1>2
<1>4. TableOK(u)
  BY <1>1, <1>2, <1>3 DEF TableOK, SaidSo
<1> QED
  BY <1>1, <1>2, <1>3, <1>4 DEF HoldsPreferred, StillIn, Preferred

\* One entry more.
LEMMA EntryAdded ==
  ASSUME NEW t, TableOK(t), NEW y \in TableNode, SaidSo(y), NEW u, u = Append(t, y)
  PROVE  HoldsPreferred(t, u)
<1>1. PICK n \in Nat : n = Len(t)
  BY LenProperties DEF TableOK
<1>2. u \in Seq(TableNode) /\ Len(u) = n + 1 /\ (\A j \in 1..n : u[j] = t[j]) /\ u[n + 1] = y
  BY <1>1, AppendProperties DEF TableOK
<1>3. \A j \in 1..(n + 1) : SaidSo(u[j])
  <2> SUFFICES ASSUME NEW j \in 1..(n + 1) PROVE SaidSo(u[j])
    OBVIOUS
  <2>1. CASE j = n + 1
    BY <1>2, <2>1
  <2>2. CASE j # n + 1
    <3>1. j \in 1..n
      BY <1>1, <2>2
    <3> QED
      BY <1>1, <1>2, <3>1 DEF TableOK
  <2> QED
    BY <2>1, <2>2
<1>4. \A j \in 1..n : j \in 1..(n + 1)
  BY <1>1
<1> QED
  BY <1>1, <1>2, <1>3, <1>4 DEF HoldsPreferred, TableOK, StillIn

\* An entry that is not preferred is overwritten with the last.
LEMMA EntryDropped ==
  ASSUME NEW t, TableOK(t), NEW k \in 1..Len(t), ~Preferred(t[k]), NEW u, u = SwapRemove(t, k)
  PROVE  HoldsPreferred(t, u)
<1>1. PICK n \in Nat : n = Len(t)
  BY LenProperties DEF TableOK
<1>2. u \in Seq(TableNode) /\ Len(u) = n - 1 /\ \A j \in 1..(n - 1) : u[j] = IF j = k THEN t[n] ELSE t[j]
  BY <1>1, SwapMoves DEF TableOK
<1>3. TableOK(u)
  BY <1>1, <1>2 DEF TableOK
<1>4. ASSUME NEW i \in 1..n, Preferred(t[i]) PROVE StillIn(t[i], u)
  <2>1. i # k
    BY <1>4
  <2>2. CASE i = n
    <3>1. k \in 1..(n - 1) /\ u[k] = t[i]
      BY <1>1, <1>2, <2>1, <2>2
    <3> QED
      BY <1>2, <1>4, <3>1 DEF StillIn
  <2>3. CASE i # n
    <3>1. i \in 1..(n - 1) /\ u[i] = t[i]
      BY <1>1, <1>2, <2>1, <2>3
    <3> QED
      BY <1>2, <1>4, <3>1 DEF StillIn
  <2> QED
    BY <2>2, <2>3
<1> QED
  BY <1>1, <1>3, <1>4 DEF HoldsPreferred

\* A node that is heard of takes no preferred node's place.
LEMMA AddNodeOK ==
  ASSUME NEW t, TableOK(t), NEW id \in STRING, NEW ip \in Ip, now \in Nat
  PROVE  HoldsPreferred(t, mainline_add_node(t, id, ip))
<1>1. PICK n \in Nat : n = Len(t)
  BY LenProperties DEF TableOK
<1>2. t \in Seq(TableNode) /\ DOMAIN t = 1..n
  BY <1>1, LenProperties DEF TableOK
<1>3. PICK known : known = SelectInSeq(t, LAMBDA x : x.id = id)
  OBVIOUS
<1>4. known # 0 => known \in 1..n
  <2> DEFINE I == {i \in 1..Len(t) : t[i].id = id}
  <2>1. known = IF I # {} THEN Min(I) ELSE 0
    BY <1>3 DEF SelectInSeq
  <2>2. ASSUME I # {} PROVE Min(I) \in I
    <3>1. I \in SUBSET (1..n)
      BY <1>1
    <3> HIDE DEF I
    <3> QED
      BY <2>2, <3>1, MinIsThere
  <2> QED
    BY <1>1, <2>1, <2>2
<1>5. PICK crowd : crowd = Crowd(t, ip)
  OBVIOUS
<1>6. crowd \in SUBSET (1..n)
  BY <1>2, <1>5 DEF Crowd, SameNet
<1>7. PICK new : new = [id |-> id, ip |-> ip, seen |-> now, norn |-> FALSE, ours |-> FALSE]
  OBVIOUS
<1>8. new \in TableNode /\ SaidSo(new)
  BY <1>7 DEF TableNode, SaidSo
<1>9. PICK u : u = mainline_add_node(t, id, ip)
  OBVIOUS
<1>10. u = IF id = Self THEN t
           ELSE IF known # 0 THEN [t EXCEPT ![known].ip = ip, ![known].seen = now]
           ELSE IF crowd = {} THEN Append(t, new)
           ELSE IF Victim(t, crowd) = 0 THEN t
           ELSE Append(SwapRemove(t, Victim(t, crowd)), new)
  BY <1>3, <1>5, <1>7, <1>9 DEF mainline_add_node
<1>11. CASE id # Self /\ known # 0
  <2>1. PICK e \in TableNode : e = t[known]
    BY <1>1, <1>2, <1>4, <1>11, ElementOfSeq
  <2>2. PICK y : y = [e EXCEPT !.ip = ip, !.seen = now]
    OBVIOUS
  <2>3. y \in TableNode /\ y.id = e.id /\ y.norn = e.norn /\ y.ours = e.ours
    BY <2>2 DEF TableNode
  <2>4. u = [t EXCEPT ![known].ip = ip, ![known].seen = now]
    BY <1>10, <1>11
  <2>5. u = [t EXCEPT ![known] = y]
    BY <1>2, <1>4, <1>11, <2>1, <2>2, <2>4
  <2>6. HoldsPreferred(t, u)
    BY <1>1, <1>4, <1>11, <2>1, <2>3, <2>5, EntryChanged
  <2> QED
    BY <1>9, <2>6
<1>12. CASE id # Self /\ known = 0 /\ crowd = {}
  <2>1. u = Append(t, new)
    BY <1>10, <1>12
  <2>2. HoldsPreferred(t, u)
    BY <1>8, <2>1, EntryAdded
  <2> QED
    BY <1>9, <2>2
<1>13. CASE id # Self /\ known = 0 /\ crowd # {} /\ Victim(t, crowd) # 0
  <2>1. PICK w : w = Victim(t, crowd)
    OBVIOUS
  <2>2. w \in 1..n /\ ~Preferred(t[w])
    BY <1>1, <1>2, <1>6, <1>13, <2>1, VictimIs
  <2>3. PICK m : m = SwapRemove(t, w)
    OBVIOUS
  <2>4. HoldsPreferred(t, m)
    BY <1>1, <2>2, <2>3, EntryDropped
  <2>5. u = Append(m, new)
    BY <1>10, <1>13, <2>1, <2>3
  <2>6. TableOK(m)
    BY <2>4 DEF HoldsPreferred
  <2>7. HoldsPreferred(m, u)
    BY <1>8, <2>5, <2>6, EntryAdded
  <2>8. HoldsPreferred(t, u)
    BY <2>4, <2>7, HoldsOn
  <2> QED
    BY <1>9, <2>8
<1>14. CASE id = Self \/ (known = 0 /\ crowd # {} /\ Victim(t, crowd) = 0)
  <2>1. u = t
    BY <1>10, <1>14
  <2> QED
    BY <1>9, <2>1, HoldsSame
<1> QED
  BY <1>11, <1>12, <1>13, <1>14

\* What a sender tells of itself unmarks nobody, if senders are steady.
LEMMA UpdateOK ==
  ASSUME NEW t, TableOK(t), NEW p \in Senders, SteadySenders
  PROVE  HoldsPreferred(t, mainline_update_node_info(t, p.id, p.info))
<1>1. PICK n \in Nat : n = Len(t)
  BY LenProperties DEF TableOK
<1>2. t \in Seq(TableNode) /\ DOMAIN t = 1..n
  BY <1>1, LenProperties DEF TableOK
<1>3. PICK info : info = p.info
  OBVIOUS
<1>4. PICK id : id = p.id
  OBVIOUS
<1> DEFINE El(i) == IF t[i].id # id \/ info = "none" THEN t[i]
                    ELSE [t[i] EXCEPT !.norn = t[i].norn \/ info = "norn",
                                      !.ours = IF info = "norn" THEN t[i].ours ELSE info = "ours"]
<1>5. PICK u : u = [i \in 1..n |-> El(i)]
  OBVIOUS
<1>6. mainline_update_node_info(t, p.id, p.info) = u
  BY <1>2, <1>3, <1>4, <1>5 DEF mainline_update_node_info
<1>7. ASSUME NEW i \in 1..n
      PROVE  El(i) \in TableNode /\ El(i).id = t[i].id /\ SaidSo(El(i)) /\ (Preferred(t[i]) => Preferred(El(i)))
  <2>1. PICK e \in TableNode : e = t[i]
    BY <1>1, <1>2, ElementOfSeq
  <2>2. SaidSo(e)
    BY <1>1, <2>1 DEF TableOK
  <2>3. PICK y : y = El(i)
    OBVIOUS
  <2>4. CASE e.id # id \/ info = "none"
    <3>1. y = e
      BY <2>1, <2>3, <2>4
    <3> QED
      BY <2>1, <2>2, <2>3, <3>1
  <2>5. CASE e.id = id /\ info # "none"
    <3>1. y = [e EXCEPT !.norn = e.norn \/ info = "norn",
                        !.ours = IF info = "norn" THEN e.ours ELSE info = "ours"]
      BY <2>1, <2>3, <2>5
    <3>2. e \in [id : STRING, ip : Ip, seen : Nat, norn : BOOLEAN, ours : BOOLEAN]
      BY DEF TableNode
    <3>3. y.id = e.id /\ y.norn = (e.norn \/ info = "norn")
          /\ y.ours = (IF info = "norn" THEN e.ours ELSE info = "ours")
      BY <3>1, <3>2
    <3>4. y \in TableNode
      <4>1. PICK a \in BOOLEAN : a = (e.norn \/ info = "norn")
        BY <3>2
      <4>2. PICK b \in BOOLEAN : b = (IF info = "norn" THEN e.ours ELSE info = "ours")
        BY <3>2
      <4>3. y = [e EXCEPT !.norn = a, !.ours = b]
        BY <3>1, <4>1, <4>2
      <4> QED
        BY <3>2, <4>3 DEF TableNode
    <3>5. SaidSo(y)
      BY <1>3, <1>4, <2>2, <2>5, <3>3 DEF SaidSo
    <3>6. Preferred(e) => Preferred(y)
      <4>1. info \in {"norn", "ours", "other"}
        BY <1>3, <2>5, MainlineAssumption
      <4>2. CASE info = "other"
        <5>1. ~e.ours
          BY <1>3, <1>4, <2>2, <2>5, <4>2 DEF SaidSo, SteadySenders
        <5> QED
          BY <3>3, <5>1 DEF Preferred
      <4> QED
        BY <3>3, <4>1, <4>2 DEF Preferred
    <3> QED
      BY <2>1, <2>3, <3>3, <3>4, <3>5, <3>6
  <2> QED
    BY <2>4, <2>5
<1> HIDE DEF El
<1>8. u \in Seq(TableNode) /\ Len(u) = n /\ \A i \in 1..n : u[i] = El(i)
  <2>1. u \in [1..n -> TableNode]
    BY <1>5, <1>7
  <2> QED
    BY <1>1, <1>5, <2>1, SeqDef
<1>9. TableOK(u)
  BY <1>7, <1>8 DEF TableOK
<1>10. HoldsPreferred(t, u)
  BY <1>1, <1>7, <1>8, <1>9 DEF HoldsPreferred, StillIn
<1> QED
  BY <1>6, <1>10

\* Nor does the learning of a packet's sender.
LEMMA LearnedOK ==
  ASSUME NEW t, TableOK(t), NEW p \in Senders, SteadySenders, now \in Nat
  PROVE  HoldsPreferred(t, Learned(t, p))
<1>1. CASE p.ro
  BY <1>1, HoldsSame DEF Learned
<1>2. CASE ~p.ro
  <2>1. PICK id \in STRING : id = p.id
    BY MainlineAssumption
  <2>2. PICK ip \in Ip : ip = p.ip
    BY MainlineAssumption
  <2>3. PICK u : u = mainline_add_node(t, id, ip)
    OBVIOUS
  <2>4. HoldsPreferred(t, u)
    BY <2>3, AddNodeOK
  <2>5. TableOK(u)
    BY <2>4 DEF HoldsPreferred
  <2>6. HoldsPreferred(u, mainline_update_node_info(u, p.id, p.info))
    BY <2>5, UpdateOK
  <2>7. Learned(t, p) = mainline_update_node_info(u, p.id, p.info)
    BY <1>2, <2>1, <2>2, <2>3 DEF Learned
  <2> QED
    BY <2>4, <2>6, <2>7, HoldsOn
<1> QED
  BY <1>1, <1>2

\* After k turns over t: what is kept is at the front, what is not looked at yet is where
\* it was, and no fresh node is missing.
EvictSound(t, s, k) ==
  /\ s.arr \in Seq(TableNode) /\ Len(s.arr) = Len(t) /\ s.kept \in 0..k
  /\ \A j \in (k + 1)..Len(t) : s.arr[j] = t[j]
  /\ \A j \in 1..s.kept : SaidSo(s.arr[j])
  /\ \A i \in 1..k : ~Stale(t[i]) => \E j \in 1..s.kept : s.arr[j].id = t[i].id

\* One more turn.
LEMMA EvictOne ==
  ASSUME NEW t, TableOK(t), NEW k \in Nat, k < Len(t), NEW s, EvictSound(t, s, k)
  PROVE  EvictSound(t, EvictTurn(s, k + 1), k + 1)
<1>1. PICK n \in Nat : n = Len(t)
  BY LenProperties DEF TableOK
<1>2. PICK arr : arr = s.arr
  OBVIOUS
<1>3. PICK kept : kept = s.kept
  OBVIOUS
<1>4. /\ arr \in Seq(TableNode) /\ Len(arr) = n /\ kept \in 0..k
      /\ \A j \in (k + 1)..n : arr[j] = t[j]
      /\ \A j \in 1..kept : SaidSo(arr[j])
      /\ \A i \in 1..k : ~Stale(t[i]) => \E j \in 1..kept : arr[j].id = t[i].id
  BY <1>1, <1>2, <1>3, Zenon DEF EvictSound
<1>5. k + 1 \in 1..n /\ k + 1 \in (k + 1)..n /\ kept + 1 \in 1..n /\ kept + 1 <= k + 1 /\ kept \in Nat
  BY <1>1, <1>4
<1>6. PICK e \in TableNode : e = arr[k + 1]
  BY <1>4, <1>5, ElementOfSeq
<1>7. e = t[k + 1] /\ SaidSo(e)
  BY <1>1, <1>4, <1>5, <1>6 DEF TableOK
<1>8. PICK u : u = EvictTurn(s, k + 1)
  OBVIOUS
<1>9. \/ u = s /\ Stale(e)
      \/ u = [arr |-> [arr EXCEPT ![kept + 1] = e], kept |-> kept + 1]
  <2> DEFINE others == \E j \in DOMAIN arr \ {k + 1} : Stale(arr[j]) /\ ~Preferred(arr[j])
  <2>1. u = IF Stale(e) /\ (Preferred(e) => ~others) THEN s
            ELSE [arr |-> [arr EXCEPT ![kept + 1] = e], kept |-> kept + 1]
    BY <1>2, <1>3, <1>6, <1>8 DEF EvictTurn
  <2> HIDE DEF others
  <2> QED
    BY <2>1
<1>10. \A j \in ((k + 1) + 1)..n : j \in (k + 1)..n /\ j # kept + 1 /\ j \in 1..n
  BY <1>1, <1>5
<1>11. \A i \in 1..(k + 1) : i \in 1..k \/ i = k + 1
  OBVIOUS
<1>12. CASE u = s /\ Stale(e)
  <2>1. kept \in 0..(k + 1)
    BY <1>4
  <2>2. \A j \in ((k + 1) + 1)..n : arr[j] = t[j]
    BY <1>4, <1>10
  <2>3. \A i \in 1..(k + 1) : ~Stale(t[i]) => \E j \in 1..kept : arr[j].id = t[i].id
    BY <1>4, <1>7, <1>11, <1>12
  <2>4. u.arr = arr /\ u.kept = kept
    BY <1>2, <1>3, <1>12
  <2>5. EvictSound(t, u, k + 1)
    BY <1>1, <1>4, <2>1, <2>2, <2>3, <2>4, Zenon DEF EvictSound
  <2> QED
    BY <1>8, <2>5
<1>13. CASE u = [arr |-> [arr EXCEPT ![kept + 1] = e], kept |-> kept + 1]
  <2>1. PICK v : v = [arr EXCEPT ![kept + 1] = e]
    OBVIOUS
  <2>2. v \in Seq(TableNode) /\ Len(v) = n /\ \A j \in 1..n : v[j] = IF j = kept + 1 THEN e ELSE arr[j]
    BY <1>4, <1>5, <2>1, ExceptSeq
  <2>3. PICK m : m = kept + 1
    OBVIOUS
  <2>4. u.arr = v /\ u.kept = m
    BY <1>13, <2>1, <2>3
  <2>5. m \in 0..(k + 1)
    BY <1>4, <2>3
  <2>6. \A j \in ((k + 1) + 1)..n : v[j] = t[j]
    BY <1>4, <1>10, <2>2
  <2>7. \A j \in 1..m : (j \in 1..kept /\ j # kept + 1 /\ j \in 1..n) \/ (j = kept + 1 /\ j \in 1..n)
    BY <1>5, <2>3
  <2>8. \A j \in 1..m : SaidSo(v[j])
    BY <1>4, <1>7, <2>2, <2>7
  <2>9. v[kept + 1] = e /\ kept + 1 \in 1..m /\ \A j \in 1..kept : v[j] = arr[j] /\ j \in 1..m
    <3>1. \A j \in 1..kept : j \in 1..m /\ j \in 1..n /\ j # kept + 1
      BY <1>5, <2>3
    <3>2. kept + 1 \in 1..m
      BY <1>5, <2>3
    <3> QED
      BY <1>5, <2>2, <3>1, <3>2
  <2>10. \A i \in 1..(k + 1) : ~Stale(t[i]) => \E j \in 1..m : v[j].id = t[i].id
    BY <1>4, <1>7, <1>11, <2>9
  <2>11. EvictSound(t, u, k + 1)
    BY <1>1, <2>2, <2>4, <2>5, <2>6, <2>8, <2>10, Zenon DEF EvictSound
  <2> QED
    BY <1>8, <2>11
<1> QED
  BY <1>9, <1>12, <1>13

\* The eviction of stale nodes leaves every fresh one.
LEMMA EvictedOK ==
  ASSUME NEW t, TableOK(t)
  PROVE  /\ TableOK(Evicted(t))
         /\ \A i \in 1..Len(t) : ~Stale(t[i]) => \E j \in 1..Len(Evicted(t)) : Evicted(t)[j].id = t[i].id
<1>1. PICK n \in Nat : n = Len(t)
  BY LenProperties DEF TableOK
<1>2. PICK T : /\ Evicted(t) = SubSeq(T[Len(t)].arr, 1, T[Len(t)].kept) /\ T[0] = [arr |-> t, kept |-> 0]
               /\ \A j \in 1..Len(t) : T[j] = EvictTurn(T[j - 1], j)
  BY <1>1, EvictedIs
<1> DEFINE S == {k \in 0..n : EvictSound(t, T[k], k)}
<1>3. 0 \in S
  <2>1. T[0].arr = t /\ T[0].kept = 0
    BY <1>2
  <2>2. t \in Seq(TableNode)
    BY DEF TableOK
  <2>3. 0 \in 0..0 /\ 0 \in 0..n /\ (\A j \in 1..0 : FALSE)
    BY <1>1
  <2>4. EvictSound(t, T[0], 0)
    BY <2>1, <2>2, <2>3, Zenon DEF EvictSound
  <2> QED
    BY <2>3, <2>4
<1>4. \A k \in 0..n-1 : k \in S => k + 1 \in S
  <2> SUFFICES ASSUME NEW k \in 0..n-1, k \in S PROVE k + 1 \in S
    OBVIOUS
  <2>1. k \in Nat /\ k < n /\ k + 1 \in 1..n /\ k + 1 \in 0..n /\ (k + 1) - 1 = k
    BY <1>1
  <2>2. T[k + 1] = EvictTurn(T[k], k + 1)
    BY <1>1, <1>2, <2>1
  <2>3. EvictSound(t, EvictTurn(T[k], k + 1), k + 1)
    BY <1>1, <2>1, EvictOne
  <2> QED
    BY <2>1, <2>2, <2>3
<1>5. EvictSound(t, T[n], n)
  <2> HIDE DEF S
  <2>1. \A k \in 0..n : k \in S
    BY <1>3, <1>4, UpTo
  <2>2. n \in 0..n
    BY <1>1
  <2> QED
    BY <2>1, <2>2 DEF S
<1>6. PICK arr : arr = T[n].arr
  OBVIOUS
<1>7. PICK kept : kept = T[n].kept
  OBVIOUS
<1>8. /\ arr \in Seq(TableNode) /\ Len(arr) = n /\ kept \in 0..n
      /\ \A j \in 1..kept : SaidSo(arr[j])
      /\ \A i \in 1..n : ~Stale(t[i]) => \E j \in 1..kept : arr[j].id = t[i].id
  BY <1>1, <1>5, <1>6, <1>7, Zenon DEF EvictSound
<1>9. PICK u : u = SubSeq(arr, 1, kept)
  OBVIOUS
<1>10. u \in Seq(TableNode) /\ Len(u) = kept /\ \A j \in 1..kept : u[j] = arr[j]
  <2>1. kept \in Nat /\ kept <= n /\ kept - 1 + 1 = kept
    BY <1>8
  <2>2. \A j \in 1..kept : arr[j] \in TableNode
    BY <1>8, <2>1, ElementOfSeq
  <2>3. /\ u \in Seq(TableNode) /\ Len(u) = IF 1 <= kept THEN kept - 1 + 1 ELSE 0
        /\ \A j \in 1..(kept - 1 + 1) : u[j] = arr[1 + j - 1]
    BY <1>8, <1>9, <2>1, <2>2, SubSeqProperties
  <2>4. \A j \in 1..kept : 1 + j - 1 = j
    BY <2>1
  <2> QED
    BY <2>1, <2>3, <2>4
<1>11. Evicted(t) = u
  BY <1>1, <1>2, <1>6, <1>7, <1>9
<1>12. TableOK(u)
  BY <1>8, <1>10 DEF TableOK
<1>13. \A i \in 1..n : ~Stale(t[i]) => \E j \in 1..Len(u) : u[j].id = t[i].id
  BY <1>8, <1>10
<1> QED
  BY <1>1, <1>11, <1>12, <1>13

\* The table a restart begins with.
LEMMA RejoinedOK ==
  ASSUME NEW list \in Seq(TableNode), now \in Nat
  PROVE  TableOK(Rejoined(list))
<1>1. PICK n \in Nat : n = Len(list)
  BY LenProperties
<1>2. PICK T : /\ Rejoined(list) = T[Len(list)] /\ T[0] = <<>>
               /\ \A j \in 1..Len(list) : T[j] = mainline_add_node(T[j - 1], list[j].id, list[j].ip)
  BY <1>1, RejoinedIs
<1> DEFINE S == {k \in 0..n : TableOK(T[k])}
<1>3. 0 \in S
  <2>1. PICK e : e = <<>>
    OBVIOUS
  <2>2. e \in Seq(TableNode) /\ Len(e) = 0
    BY <2>1, EmptySeq
  <2>3. TableOK(e)
    BY <2>2 DEF TableOK
  <2> QED
    BY <1>1, <1>2, <2>1, <2>3
<1>4. \A k \in 0..n-1 : k \in S => k + 1 \in S
  <2> SUFFICES ASSUME NEW k \in 0..n-1, k \in S PROVE k + 1 \in S
    OBVIOUS
  <2>1. k + 1 \in 1..n /\ k + 1 \in 0..n /\ (k + 1) - 1 = k
    BY <1>1
  <2>2. PICK e \in TableNode : e = list[k + 1]
    BY <1>1, <2>1, ElementOfSeq
  <2>3. e.id \in STRING /\ e.ip \in Ip
    BY DEF TableNode
  <2>4. PICK id \in STRING : id = e.id
    BY <2>3
  <2>5. PICK ip \in Ip : ip = e.ip
    BY <2>3
  <2>6. T[k + 1] = mainline_add_node(T[k], id, ip)
    BY <1>1, <1>2, <2>1, <2>2, <2>4, <2>5
  <2>7. HoldsPreferred(T[k], mainline_add_node(T[k], id, ip))
    BY AddNodeOK
  <2> QED
    BY <2>1, <2>6, <2>7 DEF HoldsPreferred
<1>5. TableOK(T[n])
  <2> HIDE DEF S
  <2>1. \A k \in 0..n : k \in S
    BY <1>3, <1>4, UpTo
  <2>2. n \in 0..n
    BY <1>1
  <2> QED
    BY <2>1, <2>2 DEF S
<1> QED
  BY <1>1, <1>2, <1>5

\* The inductive invariant of the routing table.
TableInv ==
  now \in Nat /\ run \in Nat /\ TableOK(nodes) /\ disk.nodes \in Seq(TableNode)

\* What a step may do to the table t within a run: every preferred node that is fresh is
\* still there, as u.
KeepsPreferred(t, u) ==
  \A i \in 1..Len(t) : Preferred(t[i]) /\ ~Stale(t[i]) => \E j \in 1..Len(u) : u[j].id = t[i].id

\* Who is held is kept.
LEMMA HeldIsKept ==
  ASSUME NEW t, NEW u, HoldsPreferred(t, u)
  PROVE  TableOK(u) /\ KeepsPreferred(t, u)
BY DEF HoldsPreferred, KeepsPreferred, StillIn

\* Every step keeps the table, and its preferred nodes while the daemon runs.
LEMMA TableStep ==
  ASSUME TableInv, [Next]_vars, SteadySenders
  PROVE  TableInv' /\ (run' = run => KeepsPreferred(nodes, nodes'))
<1>0. now \in Nat /\ run \in Nat /\ TableOK(nodes) /\ disk.nodes \in Seq(TableNode)
  BY DEF TableInv
<1>1. KeepsPreferred(nodes, nodes)
  BY DEF KeepsPreferred
<1>2. ASSUME HoldsPreferred(nodes, nodes'), UNCHANGED <<now, run, disk>>
      PROVE  TableInv' /\ (run' = run => KeepsPreferred(nodes, nodes'))
  <2>1. TableOK(nodes') /\ KeepsPreferred(nodes, nodes')
    BY <1>2, HeldIsKept
  <2> QED
    BY <1>0, <1>2, <2>1 DEF TableInv, TableOK, SaidSo
<1>3. ASSUME NEW p \in Senders, nodes' = Learned(nodes, p), UNCHANGED <<now, run, disk>>
      PROVE  TableInv' /\ (run' = run => KeepsPreferred(nodes, nodes'))
  <2>1. HoldsPreferred(nodes, nodes')
    BY <1>0, <1>3, LearnedOK
  <2> QED
    BY <1>2, <1>3, <2>1
<1>4. ASSUME UNCHANGED <<nodes, run, disk>>, now' \in Nat
      PROVE  TableInv' /\ (run' = run => KeepsPreferred(nodes, nodes'))
  BY <1>0, <1>1, <1>4 DEF TableInv, TableOK, SaidSo
<1>5. CASE FindNode
  BY <1>0, <1>4, <1>5 DEF FindNode
<1>6. CASE \E p \in Senders, tid \in 1..MaxSteps, other \in Senders : RecvReply(p, tid, other)
  <2>1. PICK p \in Senders, tid \in 1..MaxSteps, other \in Senders : RecvReply(p, tid, other)
    BY <1>6
  <2>2. nodes' = mainline_add_node(Learned(nodes, p), other.id, other.ip) /\ UNCHANGED <<now, run, disk>>
    BY <2>1, Zenon DEF RecvReply
  <2>3. PICK u : u = Learned(nodes, p)
    OBVIOUS
  <2>4. HoldsPreferred(nodes, u)
    BY <1>0, <2>3, LearnedOK
  <2>5. TableOK(u)
    BY <2>4 DEF HoldsPreferred
  <2>6. PICK id \in STRING : id = other.id
    BY MainlineAssumption
  <2>7. PICK ip \in Ip : ip = other.ip
    BY MainlineAssumption
  <2>8. HoldsPreferred(u, mainline_add_node(u, id, ip))
    BY <1>0, <2>5, AddNodeOK
  <2>9. HoldsPreferred(nodes, nodes')
    BY <2>2, <2>3, <2>4, <2>6, <2>7, <2>8, HoldsOn
  <2> QED
    BY <1>2, <2>2, <2>9
<1>7. CASE \E p \in Senders : RecvPing(p) \/ RecvGetPeers(p) \/ RecvGet(p)
  <2>1. PICK p \in Senders : RecvPing(p) \/ RecvGetPeers(p) \/ RecvGet(p)
    BY <1>7
  <2>2. nodes' = Learned(nodes, p) /\ UNCHANGED <<now, run, disk>>
    BY <2>1, Zenon DEF RecvPing, RecvGetPeers, RecvGet
  <2> QED
    BY <1>3, <2>2
<1>8. CASE \E p \in Senders, tok \in granted :
             \/ \E hash \in InfoHash : RecvAnnounce(p, hash, tok)
             \/ \E r \in Records : RecvPut(p, r, tok)
  <2>1. PICK p \in Senders, tok \in granted :
             \/ \E hash \in InfoHash : RecvAnnounce(p, hash, tok)
             \/ \E r \in Records : RecvPut(p, r, tok)
    BY <1>8
  <2>2. nodes' = Learned(nodes, p) /\ UNCHANGED <<now, run, disk>>
    BY <2>1, Zenon DEF RecvAnnounce, RecvPut
  <2> QED
    BY <1>3, <2>2
<1>9. CASE ExpireTransactions
  BY <1>0, <1>4, <1>9 DEF ExpireTransactions
<1>10. CASE mainline_evict_stale
  <2>1. nodes' = Evicted(nodes) /\ UNCHANGED <<now, run, disk>>
    BY <1>10 DEF mainline_evict_stale
  <2>2. TableOK(nodes') /\ KeepsPreferred(nodes, nodes')
    BY <1>0, <2>1, EvictedOK DEF KeepsPreferred
  <2> QED
    BY <1>0, <2>1, <2>2 DEF TableInv, TableOK, SaidSo
<1>11. CASE \E i \in DOMAIN items : DelRecord(i)
  BY <1>0, <1>4, <1>11 DEF DelRecord, tableVars
<1>12. CASE Save
  <2>1. disk'.nodes = nodes /\ UNCHANGED <<now, run, nodes>>
    BY <1>12 DEF Save, tableVars
  <2> QED
    BY <1>0, <1>1, <2>1 DEF TableInv, TableOK, SaidSo
<1>13. CASE Restart
  <2>1. nodes' = Rejoined(disk.nodes) /\ run' = run + 1 /\ UNCHANGED <<now, disk>>
    BY <1>13, Zenon DEF Restart
  <2>2. TableOK(nodes')
    BY <1>0, <2>1, RejoinedOK
  <2>3. run' \in Nat /\ run' # run
    BY <1>0, <2>1
  <2> QED
    BY <1>0, <2>1, <2>2, <2>3 DEF TableInv, TableOK, SaidSo
<1>14. CASE Tick
  BY <1>0, <1>4, <1>14 DEF Tick, tableVars
<1>15. CASE UNCHANGED vars
  BY <1>0, <1>4, <1>15 DEF vars, tableVars
<1> QED
  BY <1>5, <1>6, <1>7, <1>8, <1>9, <1>10, <1>11, <1>12, <1>13, <1>14, <1>15 DEF Next

\* PreferredStay: if no node says it is of our application once and of another another
\* time, a preferred node leaves the table only when it is stale or the daemon restarts,
\* for every bound on the table and on a subnet (mainline_add_node, mainline_evict_stale).
THEOREM PreferredAreKept == ASSUME SteadySenders PROVE Spec => PreferredStay
<1> DEFINE Act == \A i \in DOMAIN nodes :
                    Preferred(nodes[i]) /\ run' = run /\ ~Stale(nodes[i])
                      => \E j \in DOMAIN nodes' : nodes'[j].id = nodes[i].id
<1>1. TableInv /\ [Next]_vars => TableInv' /\ [Act]_vars
  <2> SUFFICES ASSUME TableInv, [Next]_vars PROVE TableInv' /\ Act
    OBVIOUS
  <2>1. TableInv' /\ (run' = run => KeepsPreferred(nodes, nodes'))
    BY TableStep
  <2>2. nodes \in Seq(TableNode) /\ nodes' \in Seq(TableNode)
    BY <2>1 DEF TableInv, TableOK
  <2>3. DOMAIN nodes = 1..Len(nodes) /\ DOMAIN nodes' = 1..Len(nodes')
    BY <2>2, LenProperties
  <2>4. Act
    BY <2>1, <2>3 DEF KeepsPreferred
  <2> QED
    BY <2>1, <2>4
<1>2. Init => TableInv
  <2> SUFFICES ASSUME Init PROVE TableInv
    OBVIOUS
  <2>1. now = 0 /\ run = 1 /\ nodes = <<>> /\ disk.nodes = <<>>
    BY DEF Init
  <2>2. PICK e : e = <<>>
    OBVIOUS
  <2>3. e \in Seq(TableNode) /\ Len(e) = 0
    BY <2>2, EmptySeq
  <2>4. TableOK(e)
    BY <2>3 DEF TableOK
  <2> QED
    BY <2>1, <2>2, <2>3, <2>4 DEF TableInv
<1>3. PreferredStay <=> [][Act]_vars
  BY DEF PreferredStay
<1> HIDE DEF Act
<1> QED
  BY <1>1, <1>2, <1>3, PTL DEF Spec
=============================================================================
