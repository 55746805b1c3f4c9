---------------------------- MODULE NornKVProofs ----------------------------
(***************************************************************************)
(* Theorems about NornKV for every number of slots, keys, values, prefixes *)
(* and watches: the slot table and its hand-kept count implement the       *)
(* bounded map of KVMap, and a watcher knows what is under its prefix.     *)
(***************************************************************************)
EXTENDS NornKV, SequenceTheorems, FiniteSetTheorems, TLAPS

-----------------------------------------------------------------------------
(* First-fit search. *)

\* A set of slots that is not empty has a first one, which is what a search from the
\* start of the table finds.
LEMMA FirstIsThere ==
  ASSUME NEW S \in SUBSET (1..cap), S # {}
  PROVE  First(S) \in S /\ \A j \in S : First(S) <= j
<1> DEFINE U == 1..cap
           T == {1..i : i \in S}
<1>1. T # {} /\ T \subseteq FiniteSubsetsOf(U)
  <2>1. IsFiniteSet(U)
    BY KVAssumption, FS_Interval
  <2>2. FiniteSubsetsOf(U) = SUBSET U
    BY <2>1, FS_FiniteSubsetsOfFinite
  <2>3. \A i \in S : 1..i \in SUBSET U
    BY KVAssumption
  <2>4. T \subseteq SUBSET U
    BY <2>3
  <2>5. T # {}
    OBVIOUS
  <2> QED
    BY <2>2, <2>4, <2>5
<1>2. IsWellFoundedOn(StrictSubsetOrdering(U), FiniteSubsetsOf(U))
  BY FS_StrictSubsetOrderingWellFounded
<1>3. PICK x \in T : \A y \in T : ~(<<y, x>> \in StrictSubsetOrdering(U))
  BY <1>1, <1>2, WFMin
<1>4. PICK i \in S : x = 1..i
  BY <1>3
<1>5. \A j \in S : i <= j
  <2> SUFFICES ASSUME NEW j \in S, j < i PROVE FALSE
    BY KVAssumption
  <2>1. 1..j \subseteq 1..i /\ 1..j # 1..i
    BY KVAssumption
  <2>2. 1..j \in T /\ 1..i \in SUBSET U /\ 1..j \in SUBSET U
    BY KVAssumption
  <2> QED
    BY <1>3, <1>4, <2>1, <2>2 DEF StrictSubsetOrdering
<1> QED
  BY <1>5 DEF First

-----------------------------------------------------------------------------
(* A table, apart from the state it is in. *)

\* A map with key k set, without key k, and the part of it under a prefix.
WithKey(m, k, v) == [x \in DOMAIN m \cup {k} |-> IF x = k THEN v ELSE m[x]]
WithoutKey(m, k) == [x \in DOMAIN m \ {k} |-> m[x]]
Under(m, p) == [x \in DOMAIN m \cap p |-> m[x]]

\* A table with slot i overwritten.
Set(tab, i, e) == [tab EXCEPT ![i] = e]

Used(tab) == {i \in 1..cap : tab[i] # Free}

\* The slots of key k in a table, and the map a table stands for.
Holding(tab, k) == {i \in 1..cap : tab[i] # Free /\ tab[i].key = k}
MapOf(tab) ==
  [k \in {tab[i].key : i \in Used(tab)} |-> tab[First(Holding(tab, k))].val]

\* A table of slots in which no key is found twice.
Sound(tab) ==
  /\ tab \in [1..cap -> Slot]
  /\ \A i, j \in Used(tab) : tab[i].key = tab[j].key => i = j

\* In a sound table a key is in one slot at most, so that the first match is the match.
LEMMA Lookup ==
  ASSUME NEW tab, Sound(tab), NEW i \in Used(tab)
  PROVE  /\ Holding(tab, tab[i].key) = {i}
         /\ tab[i].key \in DOMAIN MapOf(tab)
         /\ MapOf(tab)[tab[i].key] = tab[i].val
         /\ tab[i].key \in Key /\ tab[i].val \in Value
         /\ tab[i] = [key |-> tab[i].key, val |-> tab[i].val]
<1>1. Holding(tab, tab[i].key) = {i}
  BY DEF Holding, Sound, Used
<1>2. First({i}) = i
  BY KVAssumption, FirstIsThere DEF Used
<1>3. tab[i] \in [key : Key, val : Value]
  BY DEF Sound, Used, Slot
<1> QED
  BY <1>1, <1>2, <1>3 DEF MapOf

\* A key of the map is in a slot.
LEMMA Located ==
  ASSUME NEW tab, Sound(tab), NEW k \in DOMAIN MapOf(tab)
  PROVE  \E i \in Used(tab) : tab[i].key = k /\ MapOf(tab)[k] = tab[i].val
<1>1. PICK i \in Used(tab) : tab[i].key = k
  BY DEF MapOf
<1> QED
  BY <1>1, Lookup

\* Two maps with the same keys and values are equal; MapOf is such a function.
LEMMA SameMap ==
  ASSUME NEW tab, NEW m, m = [k \in DOMAIN m |-> m[k]],
         DOMAIN m = DOMAIN MapOf(tab),
         \A k \in DOMAIN m : m[k] = MapOf(tab)[k]
  PROVE  MapOf(tab) = m
BY DEF MapOf

\* store_put on a table: the slot of the key, or a free one for a new key.
LEMMA PutTable ==
  ASSUME NEW tab, Sound(tab), NEW k \in Key, NEW v \in Value, NEW i \in 1..cap,
         i \in Holding(tab, k) \/ (Holding(tab, k) = {} /\ tab[i] = Free),
         NEW new, new = Set(tab, i, [key |-> k, val |-> v])
  PROVE  /\ Sound(new)
         /\ Used(new) = Used(tab) \cup {i}
         /\ MapOf(new) = WithKey(MapOf(tab), k, v)
<1> DEFINE e == [key |-> k, val |-> v]
<1>1. e \in [key : Key, val : Value] /\ e # Free
  BY KVAssumption
<1>2. new \in [1..cap -> Slot] /\ new[i] = e /\ \A j \in 1..cap : j # i => new[j] = tab[j]
  BY <1>1 DEF Sound, Slot, Set
<1>3. Used(new) = Used(tab) \cup {i} /\ new[i].key = k /\ new[i].val = v
  <2>1. Used(new) = Used(tab) \cup {i}
    BY <1>1, <1>2 DEF Used
  <2> QED
    BY <2>1, <1>2
<1>4. \A j \in Used(tab) : j # i => tab[j].key # k
  BY DEF Used, Sound, Holding
<1>5. Sound(new)
  <2> SUFFICES ASSUME NEW a \in Used(new), NEW b \in Used(new), new[a].key = new[b].key
               PROVE  a = b
    BY <1>2 DEF Sound
  <2>1. CASE a # i /\ b # i
    BY <2>1, <1>2, <1>3 DEF Sound, Used
  <2>2. CASE a = i /\ b # i
    <3>1. b \in Used(tab) /\ new[b] = tab[b]
      BY <2>2, <1>2, <1>3 DEF Used
    <3> QED
      BY <3>1, <2>2, <1>3, <1>4
  <2>3. CASE a # i /\ b = i
    <3>1. a \in Used(tab) /\ new[a] = tab[a]
      BY <2>3, <1>2, <1>3 DEF Used
    <3> QED
      BY <3>1, <2>3, <1>3, <1>4
  <2> QED
    BY <2>1, <2>2, <2>3
<1> DEFINE m == WithKey(MapOf(tab), k, v)
<1> USE DEF WithKey
<1>6. ASSUME NEW x \in DOMAIN MapOf(new)
      PROVE  x \in DOMAIN m /\ MapOf(new)[x] = m[x]
  <2>1. PICK j \in Used(new) : new[j].key = x /\ MapOf(new)[x] = new[j].val
    BY <1>5, <1>6, Located
  <2>2. CASE j = i
    BY <2>1, <2>2, <1>2
  <2>3. CASE j # i
    <3>1. j \in Used(tab) /\ new[j] = tab[j]
      BY <2>3, <1>2, <1>3 DEF Used
    <3>2. tab[j].key = x /\ MapOf(new)[x] = tab[j].val
      BY <3>1, <2>1
    <3>3. x \in DOMAIN MapOf(tab) /\ MapOf(tab)[x] = tab[j].val
      BY <3>1, <3>2, Lookup
    <3> QED
      BY <3>1, <3>2, <3>3, <2>3, <1>4
  <2> QED
    BY <2>2, <2>3
<1>7. ASSUME NEW x \in DOMAIN m
      PROVE  x \in DOMAIN MapOf(new)
  <2>1. CASE x = k
    BY <2>1, <1>3, <1>5, Lookup
  <2>2. CASE x # k
    <3>1. PICK j \in Used(tab) : tab[j].key = x
      BY <1>7, <2>2, Located
    <3>2. j # i
      BY <3>1, <2>2 DEF Holding, Used
    <3> QED
      BY <3>1, <3>2, <1>2, <1>3, <1>5, Lookup DEF Used
  <2> QED
    BY <2>1, <2>2
<1>8. MapOf(new) = m
  <2>1. DOMAIN m = DOMAIN MapOf(new)
    BY <1>6, <1>7
  <2>2. \A x \in DOMAIN m : m[x] = MapOf(new)[x]
    BY <2>1, <1>6
  <2>3. m = [x \in DOMAIN m |-> m[x]]
    OBVIOUS
  <2> HIDE DEF m
  <2> QED
    BY <2>1, <2>2, <2>3, SameMap
<1> QED
  BY <1>3, <1>5, <1>8

\* store_del on a table: the slot of the key becomes free.
LEMMA DelTable ==
  ASSUME NEW tab, Sound(tab), NEW k \in Key, NEW i \in Holding(tab, k),
         NEW new, new = Set(tab, i, Free)
  PROVE  /\ Sound(new)
         /\ Used(new) = Used(tab) \ {i}
         /\ MapOf(new) = WithoutKey(MapOf(tab), k)
<1>1. i \in 1..cap /\ i \in Used(tab)
  BY DEF Holding, Used
<1>2. new \in [1..cap -> Slot] /\ new[i] = Free /\ \A j \in 1..cap : j # i => new[j] = tab[j]
  BY <1>1 DEF Sound, Slot, Set
<1>3. Used(new) = Used(tab) \ {i}
  BY <1>2 DEF Used
<1>4. \A j \in Used(tab) : tab[j].key = k <=> j = i
  BY <1>1 DEF Used, Sound, Holding
<1>5. Sound(new)
  <2> SUFFICES ASSUME NEW a \in Used(new), NEW b \in Used(new), new[a].key = new[b].key
               PROVE  a = b
    BY <1>2 DEF Sound
  <2> QED
    BY <1>2, <1>3 DEF Sound, Used
<1> DEFINE m == WithoutKey(MapOf(tab), k)
<1> USE DEF WithoutKey
<1>6. ASSUME NEW x \in DOMAIN MapOf(new)
      PROVE  x \in DOMAIN m /\ MapOf(new)[x] = m[x]
  <2>0. PICK j \in Used(new) : new[j].key = x
    BY DEF MapOf
  <2>1. new[j].key = x /\ MapOf(new)[x] = new[j].val
    BY <1>5, <2>0, Lookup
  <2>2. j \in Used(tab) /\ new[j] = tab[j] /\ j # i
    BY <2>1, <1>2, <1>3 DEF Used
  <2>3. tab[j].key = x /\ MapOf(new)[x] = tab[j].val
    BY <2>1, <2>2
  <2>4. x \in DOMAIN MapOf(tab) /\ MapOf(tab)[x] = tab[j].val
    BY <2>2, <2>3, Lookup
  <2>5. x # k
    BY <2>2, <2>3, <1>4
  <2> QED
    BY <2>3, <2>4, <2>5
<1>7. ASSUME NEW x \in DOMAIN m
      PROVE  x \in DOMAIN MapOf(new)
  <2>1. PICK j \in Used(tab) : tab[j].key = x
    BY <1>7, Located
  <2>2. j # i
    BY <2>1, <1>4, <1>7
  <2> QED
    BY <2>1, <2>2, <1>2, <1>3, <1>5, Lookup DEF Used
<1>8. MapOf(new) = m
  <2>1. DOMAIN m = DOMAIN MapOf(new)
    BY <1>6, <1>7
  <2>2. \A x \in DOMAIN m : m[x] = MapOf(new)[x]
    BY <2>1, <1>6
  <2>3. m = [x \in DOMAIN m |-> m[x]]
    OBVIOUS
  <2> HIDE DEF m
  <2> QED
    BY <2>1, <2>2, <2>3, SameMap
<1> QED
  BY <1>3, <1>5, <1>8

\* A list of records, each key at most once, that fits a table; the map it stands for.
SoundList(list) ==
  /\ list \in Seq(Slot \ {Free}) /\ Len(list) <= cap
  /\ \A i, j \in 1..Len(list) : list[i].key = list[j].key => i = j
ListMap(list) ==
  [k \in {list[i].key : i \in 1..Len(list)} |->
     list[CHOOSE i \in 1..Len(list) : list[i].key = k].val]

\* The first good slots filled from a list.
Filled(list, good) == [i \in 1..cap |-> IF i <= good THEN list[i] ELSE Free]

\* The map m for the keys in K only.
Only(m, K) == [k \in K |-> m[k]]

\* The map of a list is a function.
LEMMA ListMapFun ==
  ASSUME NEW list
  PROVE  ListMap(list) = [k \in DOMAIN ListMap(list) |-> ListMap(list)[k]]
BY DEF ListMap

\* A record of a list says what its map has under the key.
LEMMA ListLookup ==
  ASSUME NEW list, SoundList(list), NEW i \in 1..Len(list)
  PROVE  /\ list[i].key \in DOMAIN ListMap(list)
         /\ ListMap(list)[list[i].key] = list[i].val
<1>1. (CHOOSE j \in 1..Len(list) : list[j].key = list[i].key) = i
  BY DEF SoundList
<1> QED
  BY <1>1 DEF ListMap

\* norn_kv_restore: the first records of a list fill a table from the front, and are all
\* that is in it.
LEMMA FillTable ==
  ASSUME NEW list, SoundList(list), NEW good \in 0..Len(list),
         NEW new, new = Filled(list, good)
  PROVE  /\ Sound(new) /\ Used(new) = 1..good
         /\ \E K \in SUBSET DOMAIN ListMap(list) : MapOf(new) = Only(ListMap(list), K)
<1>0. Len(list) <= cap
  BY DEF SoundList
<1>1. \A i \in 1..Len(list) : list[i] \in Slot \ {Free}
  BY DEF SoundList
<1>2. good \in Nat /\ good <= Len(list) /\ Len(list) \in Nat
  BY DEF SoundList
<1>3. Used(new) = 1..good /\ \A i \in 1..good : new[i] = list[i]
  BY <1>0, <1>1, <1>2, KVAssumption DEF Used, Filled
<1>4. new \in [1..cap -> Slot]
  BY <1>0, <1>1, <1>2, KVAssumption DEF Slot, Filled
<1>5. \A i, j \in Used(new) : new[i].key = new[j].key => i = j
  <2> SUFFICES ASSUME NEW i \in 1..good, NEW j \in 1..good, list[i].key = list[j].key
               PROVE  i = j
    BY <1>3
  <2>1. i \in 1..Len(list) /\ j \in 1..Len(list)
    BY <1>2
  <2> QED
    BY <2>1 DEF SoundList
<1>6. Sound(new)
  BY <1>4, <1>5 DEF Sound
<1> DEFINE K == DOMAIN MapOf(new)
<1>7. ASSUME NEW k \in K
      PROVE  k \in DOMAIN ListMap(list) /\ MapOf(new)[k] = ListMap(list)[k]
  <2>1. PICK i \in Used(new) : new[i].key = k
    BY DEF MapOf
  <2>2. MapOf(new)[k] = new[i].val
    BY <1>6, <2>1, Lookup
  <2>3. i \in 1..Len(list) /\ new[i] = list[i]
    BY <1>2, <1>3, <2>1
  <2>4. list[i].key \in DOMAIN ListMap(list) /\ ListMap(list)[list[i].key] = list[i].val
    BY <2>3, ListLookup
  <2> QED
    BY <2>1, <2>2, <2>3, <2>4
<1>8. MapOf(new) = Only(ListMap(list), K)
  <2>1. MapOf(new) = [k \in K |-> MapOf(new)[k]]
    BY DEF MapOf
  <2> QED
    BY <1>7, <2>1 DEF Only
<1>9. K \in SUBSET DOMAIN ListMap(list)
  BY <1>7
<1> QED
  BY <1>3, <1>6, <1>8, <1>9

\* What norn_kv_snapshot writes: the used slots in slot order.
InSlotOrder(tab, n, at, list) ==
  /\ at \in [1..n -> Used(tab)]
  /\ \A i, j \in 1..n : i < j => at[i] < at[j]
  /\ \A slot \in Used(tab) : \E i \in 1..n : at[i] = slot
  /\ list = [i \in 1..n |-> tab[at[i]]]

\* A snapshot stands for the map of the table it was taken of.
LEMMA ListOfTable ==
  ASSUME NEW tab, Sound(tab), NEW n \in 0..cap, NEW at, NEW list,
         InSlotOrder(tab, n, at, list)
  PROVE  SoundList(list) /\ ListMap(list) = MapOf(tab)
<1> USE DEF InSlotOrder
<1>1. n \in Nat
  BY KVAssumption
<1>2. \A i \in 1..n : at[i] \in Used(tab) /\ list[i] = tab[at[i]] /\ tab[at[i]] \in Slot \ {Free}
  BY DEF Sound, Used
<1>3. list \in [1..n -> Slot \ {Free}]
  BY <1>2
<1>4. list \in Seq(Slot \ {Free}) /\ Len(list) = n
  BY <1>1, <1>3, SeqDef
<1>5. \A i, j \in 1..n : list[i].key = list[j].key => i = j
  <2> SUFFICES ASSUME NEW i \in 1..n, NEW j \in 1..n, list[i].key = list[j].key
               PROVE  i = j
    OBVIOUS
  <2>1. at[i] = at[j]
    BY <1>2 DEF Sound
  <2>2. at[i] \in Nat /\ at[j] \in Nat
    BY <1>2, KVAssumption DEF Used
  <2> QED
    BY <1>1, <2>1, <2>2
<1>6. SoundList(list)
  BY <1>4, <1>5, KVAssumption DEF SoundList
<1>7. ASSUME NEW k \in DOMAIN ListMap(list)
      PROVE  k \in DOMAIN MapOf(tab) /\ ListMap(list)[k] = MapOf(tab)[k]
  <2>1. PICK i \in 1..Len(list) : list[i].key = k
    BY DEF ListMap
  <2>2. ListMap(list)[k] = list[i].val
    BY <1>6, <2>1, ListLookup
  <2>3. at[i] \in Used(tab) /\ list[i] = tab[at[i]]
    BY <1>2, <1>4, <2>1
  <2>4. tab[at[i]].key \in DOMAIN MapOf(tab) /\ MapOf(tab)[tab[at[i]].key] = tab[at[i]].val
    BY <2>3, Lookup
  <2> QED
    BY <2>1, <2>2, <2>3, <2>4
<1>8. ASSUME NEW k \in DOMAIN MapOf(tab)
      PROVE  k \in DOMAIN ListMap(list)
  <2>1. PICK slot \in Used(tab) : tab[slot].key = k
    BY DEF MapOf
  <2>2. PICK i \in 1..n : at[i] = slot
    OBVIOUS
  <2>3. i \in 1..Len(list) /\ list[i].key = k
    BY <2>1, <2>2, <1>2, <1>4
  <2> QED
    BY <2>3 DEF ListMap
<1>9. ListMap(list) = [k \in DOMAIN ListMap(list) |-> ListMap(list)[k]]
  BY ListMapFun
<1>10. DOMAIN ListMap(list) = DOMAIN MapOf(tab)
  BY <1>7, <1>8
<1>11. MapOf(tab) = ListMap(list)
  BY <1>7, <1>9, <1>10, SameMap
<1> QED
  BY <1>6, <1>11

-----------------------------------------------------------------------------
(* The invariant. *)

\* A map from some of the keys to values.
PartialMap == UNION {[K -> Value] : K \in SUBSET Key}

\* The watchers' list, and what each of those that heard of everything knows.
WatchOK ==
  /\ watches \in Seq(Prefix) /\ Len(watches) <= KV_MAX_WATCH
  /\ mirror \in Seq(PartialMap) /\ Len(mirror) = Len(watches)
  /\ informed \subseteq 1..Len(watches)
  /\ WatchersKnow

KVInv ==
  /\ Sound(entries)
  /\ count = Cardinality(Used(entries))
  /\ SoundList(saved)
  /\ WatchOK

\* What the users of the state machine see is the map of its table.
LEMMA ContentsIsMap == Contents = MapOf(entries) /\ Contents' = MapOf(entries')
BY DEF Contents, MapOf, Used, Holding, find

\* The map of a sound table is a partial map.
LEMMA MapOfType ==
  ASSUME NEW tab, Sound(tab)
  PROVE  MapOf(tab) \in PartialMap
<1>1. ASSUME NEW k \in DOMAIN MapOf(tab)
      PROVE  k \in Key /\ MapOf(tab)[k] \in Value
  <2>1. PICK i \in Used(tab) : tab[i].key = k
    BY DEF MapOf
  <2> QED
    BY <2>1, Lookup
<1>2. MapOf(tab) = [k \in DOMAIN MapOf(tab) |-> MapOf(tab)[k]]
  BY DEF MapOf
<1>3. MapOf(tab) \in [DOMAIN MapOf(tab) -> Value] /\ DOMAIN MapOf(tab) \in SUBSET Key
  BY <1>1, <1>2
<1> QED
  BY <1>3 DEF PartialMap

\* Map m is the store's with key k changed to what known says of it.
Changed(m, k, known) ==
  /\ DOMAIN known \subseteq {k} /\ \A x \in DOMAIN known : known[x] \in Value
  /\ DOMAIN m = (DOMAIN Contents \ {k}) \cup DOMAIN known
  /\ \A x \in DOMAIN m : m[x] = IF x = k THEN known[k] ELSE Contents[x]

\* fire keeps a watcher that knows its prefix in the old map up to date with the new
\* one, which differs in key k only.
LEMMA FireKeeps ==
  ASSUME KVInv, NEW k \in Key, NEW known, NEW m, Changed(m, k, known)
  PROVE  /\ fire(k, known) \in Seq(PartialMap) /\ Len(fire(k, known)) = Len(watches)
         /\ \A w \in informed : fire(k, known)[w] = Under(m, watches[w])
<1> USE DEF Under, Changed
<1> DEFINE f == fire(k, known)
           g(w) == [x \in (DOMAIN mirror[w] \ {k}) \cup DOMAIN known |->
                      IF x = k THEN known[k] ELSE mirror[w][x]]
<1>1. /\ watches \in Seq(Prefix) /\ mirror \in Seq(PartialMap) /\ Len(mirror) = Len(watches)
      /\ Len(watches) \in Nat /\ informed \subseteq 1..Len(watches)
  BY DEF KVInv, WatchOK
<1>2. DOMAIN known \subseteq {k} /\ \A x \in DOMAIN known : known[x] \in Value
  OBVIOUS
<1>3. ASSUME NEW w \in 1..Len(watches)
      PROVE  f[w] \in PartialMap
  <2>1. mirror[w] \in PartialMap
    BY <1>1, <1>3
  <2>2. PICK K \in SUBSET Key : mirror[w] \in [K -> Value]
    BY <2>1 DEF PartialMap
  <2>3. g(w) \in [(K \ {k}) \cup DOMAIN known -> Value]
    BY <1>2, <2>2
  <2>4. (K \ {k}) \cup DOMAIN known \in SUBSET Key
    BY <1>2
  <2>5. g(w) \in PartialMap
    BY <2>3, <2>4 DEF PartialMap
  <2> QED
    BY <2>1, <2>5, <1>3 DEF fire
<1>4. f \in [1..Len(watches) -> PartialMap]
  BY <1>3 DEF fire
<1>5. f \in Seq(PartialMap) /\ Len(f) = Len(watches)
  BY <1>1, <1>4, SeqDef
<1>6. ASSUME NEW w \in informed
      PROVE  f[w] = Under(m, watches[w])
  <2>1. w \in 1..Len(watches)
    BY <1>1
  <2>2. mirror[w] = [x \in DOMAIN Contents \cap watches[w] |-> Contents[x]]
    BY DEF KVInv, WatchOK, WatchersKnow
  <2>3. CASE k \in watches[w]
    <3>1. f[w] = g(w)
      BY <2>1, <2>3 DEF fire
    <3>2. DOMAIN m = (DOMAIN Contents \ {k}) \cup DOMAIN known
      OBVIOUS
    <3>3. (DOMAIN mirror[w] \ {k}) \cup DOMAIN known = DOMAIN m \cap watches[w]
      BY <2>2, <2>3, <3>2, <1>2
    <3>4. ASSUME NEW x \in DOMAIN m \cap watches[w]
          PROVE  (IF x = k THEN known[k] ELSE mirror[w][x]) = m[x]
      BY <2>2, <3>2, <1>2, <3>4
    <3> QED
      BY <3>1, <3>3, <3>4
  <2>4. CASE k \notin watches[w]
    <3>1. f[w] = mirror[w]
      BY <2>1, <2>4 DEF fire
    <3>2. DOMAIN m \cap watches[w] = DOMAIN Contents \cap watches[w]
      BY <2>4, <1>2
    <3>3. \A x \in DOMAIN Contents \cap watches[w] : m[x] = Contents[x]
      BY <2>4, <1>2
    <3> QED
      BY <2>2, <3>1, <3>2, <3>3
  <2> QED
    BY <2>3, <2>4
<1> QED
  BY <1>5, <1>6

-----------------------------------------------------------------------------
(* The steps. *)

\* A table with a free slot has room for one more key.
LEMMA Room ==
  ASSUME NEW tab, Sound(tab), NEW i \in 1..cap, tab[i] = Free
  PROVE  Cardinality(DOMAIN MapOf(tab)) < cap
<1> DEFINE f == [j \in Used(tab) |-> tab[j].key]
<1>1. IsFiniteSet(1..cap) /\ Cardinality(1..cap) = cap
  BY KVAssumption, FS_Interval
<1>2. IsFiniteSet((1..cap) \ {i}) /\ Cardinality((1..cap) \ {i}) = cap - 1
  BY <1>1, FS_RemoveElement
<1>3. Used(tab) \in SUBSET ((1..cap) \ {i})
  BY DEF Used
<1>4. IsFiniteSet(Used(tab)) /\ Cardinality(Used(tab)) <= cap - 1
  BY <1>2, <1>3, FS_Subset
<1>5. f \in Surjection(Used(tab), DOMAIN MapOf(tab))
  BY DEF Surjection, MapOf
<1>6. Cardinality(DOMAIN MapOf(tab)) <= Cardinality(Used(tab)) /\ IsFiniteSet(DOMAIN MapOf(tab))
  BY <1>4, <1>5, FS_Surjection
<1>7. Cardinality(DOMAIN MapOf(tab)) \in Nat /\ Cardinality(Used(tab)) \in Nat
  BY <1>4, <1>6, FS_CardinalityType
<1> QED
  BY <1>4, <1>6, <1>7, KVAssumption

\* The used slots are finitely many, at most cap.
LEMMA UsedFinite ==
  ASSUME NEW tab
  PROVE  /\ IsFiniteSet(Used(tab)) /\ Cardinality(Used(tab)) \in 0..cap
<1>1. IsFiniteSet(1..cap) /\ Cardinality(1..cap) = cap
  BY KVAssumption, FS_Interval
<1>2. Used(tab) \in SUBSET (1..cap)
  BY DEF Used
<1>3. IsFiniteSet(Used(tab)) /\ Cardinality(Used(tab)) <= cap
  BY <1>1, <1>2, FS_Subset
<1> QED
  BY <1>3, FS_CardinalityType, KVAssumption

\* store_put: the map gains or changes one key, and had room for it.
LEMMA PutStep ==
  ASSUME KVInv, NEW k \in Key, NEW v \in Value, store_put(k, v)
  PROVE  /\ KVInv'
         /\ Contents' = WithKey(Contents, k, v)
         /\ k \in DOMAIN Contents \/ Cardinality(DOMAIN Contents) < cap
         /\ UNCHANGED saved
<1> DEFINE slots == IF find(k) # {} THEN find(k) ELSE free(entries)
           i == First(slots)
           known == [x \in {k} |-> v]
<1>1. Sound(entries) /\ SoundList(saved) /\ count = Cardinality(Used(entries))
  BY DEF KVInv
<1>2. i \in slots
  <2>1. slots \in SUBSET (1..cap) /\ slots # {}
    BY DEF store_put, find, free
  <2> HIDE DEF slots
  <2> QED
    BY <2>1, FirstIsThere
<1>3. find(k) = Holding(entries, k)
  BY DEF find, Holding
<1>4. i \in 1..cap
  BY <1>2 DEF find, free
<1>5. i \in Holding(entries, k) \/ (Holding(entries, k) = {} /\ entries[i] = Free)
  BY <1>2, <1>3 DEF free
<1>6. entries' = Set(entries, i, [key |-> k, val |-> v])
  BY DEF store_put, Set
<1>7. /\ Sound(entries') /\ Used(entries') = Used(entries) \cup {i}
      /\ MapOf(entries') = WithKey(MapOf(entries), k, v)
  <2> HIDE DEF i, slots
  <2> QED
    BY <1>1, <1>4, <1>5, <1>6, PutTable
<1>8. count' = Cardinality(Used(entries'))
  <2>1. find(k) = {} <=> i \notin Used(entries)
    BY <1>3, <1>4, <1>5 DEF Used, Holding
  <2>2. count' = IF find(k) = {} THEN count + 1 ELSE count
    BY DEF store_put
  <2> HIDE DEF i, slots
  <2> QED
    BY <1>1, <1>7, <2>1, <2>2, UsedFinite, FS_AddElement
<1>9. Contents' = WithKey(Contents, k, v)
  BY <1>7, ContentsIsMap
<1>10. UNCHANGED <<watches, informed, saved>> /\ mirror' = fire(k, known)
  BY DEF store_put
<1>11. /\ mirror' \in Seq(PartialMap) /\ Len(mirror') = Len(watches)
       /\ \A w \in informed :
            mirror'[w] = Under(Contents', watches[w])
  <2>1. DOMAIN Contents' = (DOMAIN Contents \ {k}) \cup DOMAIN known
    BY <1>9 DEF WithKey
  <2>2. \A x \in DOMAIN Contents' : Contents'[x] = IF x = k THEN known[k] ELSE Contents[x]
    BY <1>9 DEF WithKey
  <2>3. DOMAIN known \subseteq {k} /\ \A x \in DOMAIN known : known[x] \in Value
    OBVIOUS
  <2>4. Changed(Contents', k, known)
    BY <2>1, <2>2, <2>3 DEF Changed
  <2> HIDE DEF known
  <2> QED
    BY <1>10, <2>4, FireKeeps
<1>12. WatchOK'
  BY <1>10, <1>11 DEF WatchOK, WatchersKnow, KVInv, Under
<1>13. SoundList(saved')
  BY <1>1, <1>10
<1>14. k \in DOMAIN Contents \/ Cardinality(DOMAIN Contents) < cap
  <2>1. CASE i \in Holding(entries, k)
    <3>1. i \in Used(entries) /\ entries[i].key = k
      BY <2>1 DEF Holding, Used
    <3>2. entries[i].key \in DOMAIN MapOf(entries)
      BY <3>1, <1>1, Lookup
    <3> QED
      BY <3>1, <3>2, ContentsIsMap
  <2>2. CASE entries[i] = Free
    <3> HIDE DEF i, slots
    <3>1. Cardinality(DOMAIN MapOf(entries)) < cap
      BY <2>2, <1>1, <1>4, Room
    <3> QED
      BY <3>1, ContentsIsMap
  <2> QED
    BY <2>1, <2>2, <1>5
<1> QED
  BY <1>7, <1>8, <1>9, <1>10, <1>12, <1>13, <1>14 DEF KVInv

\* store_del: the map loses one key.
LEMMA DelStep ==
  ASSUME KVInv, NEW k \in Key, store_del(k)
  PROVE  KVInv' /\ Contents' = WithoutKey(Contents, k) /\ UNCHANGED saved
<1> DEFINE i == First(find(k))
           known == [x \in {} |-> Empty]
<1>1. Sound(entries) /\ SoundList(saved) /\ count = Cardinality(Used(entries))
  BY DEF KVInv
<1>2. i \in find(k)
  <2>1. find(k) \in SUBSET (1..cap) /\ find(k) # {}
    BY DEF store_del, find
  <2> QED
    BY <2>1, FirstIsThere
<1>3. i \in Holding(entries, k)
  BY <1>2 DEF find, Holding
<1>4. entries' = Set(entries, i, Free)
  BY DEF store_del, Set
<1>5. /\ Sound(entries') /\ Used(entries') = Used(entries) \ {i}
      /\ MapOf(entries') = WithoutKey(MapOf(entries), k)
  <2> HIDE DEF i
  <2> QED
    BY <1>1, <1>3, <1>4, DelTable
<1>6. count' = Cardinality(Used(entries'))
  <2>1. i \in Used(entries)
    BY <1>3 DEF Used, Holding
  <2>2. count' = count - 1
    BY DEF store_del
  <2> HIDE DEF i
  <2> QED
    BY <1>1, <1>5, <2>1, <2>2, UsedFinite, FS_RemoveElement
<1>7. Contents' = WithoutKey(Contents, k)
  BY <1>5, ContentsIsMap
<1>8. UNCHANGED <<watches, informed, saved>> /\ mirror' = fire(k, known)
  BY DEF store_del
<1>9. /\ mirror' \in Seq(PartialMap) /\ Len(mirror') = Len(watches)
      /\ \A w \in informed : mirror'[w] = Under(Contents', watches[w])
  <2>1. DOMAIN Contents' = (DOMAIN Contents \ {k}) \cup DOMAIN known
    BY <1>7 DEF WithoutKey
  <2>2. \A x \in DOMAIN Contents' : Contents'[x] = IF x = k THEN known[k] ELSE Contents[x]
    BY <1>7 DEF WithoutKey
  <2>3. DOMAIN known \subseteq {k} /\ \A x \in DOMAIN known : known[x] \in Value
    OBVIOUS
  <2>4. Changed(Contents', k, known)
    BY <2>1, <2>2, <2>3 DEF Changed
  <2> HIDE DEF known
  <2> QED
    BY <1>8, <2>4, FireKeeps
<1>10. WatchOK'
  BY <1>8, <1>9 DEF WatchOK, WatchersKnow, KVInv, Under
<1>11. SoundList(saved')
  BY <1>1, <1>8
<1> QED
  BY <1>5, <1>6, <1>7, <1>8, <1>10, <1>11 DEF KVInv

\* norn_kv_watch: the new watcher has listed its prefix.
LEMMA WatchStep ==
  ASSUME KVInv, NEW p \in Prefix, Watch(p)
  PROVE  KVInv' /\ UNCHANGED <<entries, saved>>
<1> DEFINE m == Under(Contents, p)
<1>1. UNCHANGED <<entries, count, saved>>
  BY DEF Watch
<1>2. mirror' = Append(mirror, m) /\ watches' = Append(watches, p)
  BY DEF Watch, Under
<1>3. /\ watches \in Seq(Prefix) /\ mirror \in Seq(PartialMap) /\ Len(mirror) = Len(watches)
      /\ Len(watches) \in Nat /\ informed \subseteq 1..Len(watches)
  BY DEF KVInv, WatchOK
<1>4. m \in PartialMap
  <2>1. PICK K \in SUBSET Key : Contents \in [K -> Value]
    BY MapOfType, ContentsIsMap DEF KVInv, PartialMap
  <2>2. m \in [K \cap p -> Value] /\ K \cap p \in SUBSET Key
    BY <2>1 DEF Under
  <2> HIDE DEF m
  <2> QED
    BY <2>2 DEF PartialMap
<1>5. /\ watches' \in Seq(Prefix) /\ Len(watches') = Len(watches) + 1
      /\ \A w \in 1..Len(watches) : watches'[w] = watches[w]
      /\ watches'[Len(watches) + 1] = p
  BY <1>2, <1>3, AppendProperties
<1>6. /\ mirror' \in Seq(PartialMap) /\ Len(mirror') = Len(watches) + 1
      /\ \A w \in 1..Len(watches) : mirror'[w] = mirror[w]
      /\ mirror'[Len(watches) + 1] = m
  <2> HIDE DEF m
  <2> QED
    BY <1>2, <1>3, <1>4, AppendProperties
<1>7. Contents' = Contents
  BY <1>1, ContentsIsMap
<1>8. informed' = informed \cup {Len(watches) + 1}
  BY DEF Watch
<1>9. WatchersKnow'
  <2> SUFFICES ASSUME NEW w \in informed'
               PROVE  mirror'[w] = Under(Contents, watches'[w])
    BY <1>7 DEF WatchersKnow, Under
  <2>1. CASE w \in informed
    <3>1. mirror[w] = Under(Contents, watches[w])
      BY <2>1 DEF KVInv, WatchOK, WatchersKnow, Under
    <3> QED
      BY <2>1, <3>1, <1>3, <1>5, <1>6
  <2>2. CASE w = Len(watches) + 1
    BY <2>2, <1>5, <1>6
  <2> QED
    BY <2>1, <2>2, <1>8
<1>10. Len(watches') <= KV_MAX_WATCH
  BY <1>3, <1>5, KVAssumption DEF Watch
<1>11. informed' \subseteq 1..Len(watches')
  <2> SUFFICES ASSUME NEW w \in informed' PROVE w \in 1..(Len(watches) + 1)
    BY <1>5
  <2> QED
    BY <1>3, <1>8
<1>12. WatchOK'
  BY <1>5, <1>6, <1>9, <1>10, <1>11 DEF WatchOK
<1> QED
  BY <1>1, <1>12 DEF KVInv

\* norn_kv_snapshot: the snapshot stands for the map at that moment.
LEMMA SnapshotStep ==
  ASSUME KVInv, Snapshot
  PROVE  KVInv' /\ UNCHANGED entries /\ ListMap(saved') = Contents
<1>1. UNCHANGED <<entries, count, watches, mirror, informed>>
  BY DEF Snapshot
<1>2. (1..cap) \ free(entries) = Used(entries)
  BY DEF free, Used
<1>3. PICK n \in 0..cap : \E at : InSlotOrder(entries, n, at, saved')
  BY <1>2 DEF Snapshot, InSlotOrder
<1>4. PICK at : InSlotOrder(entries, n, at, saved')
  BY <1>3
<1>5. SoundList(saved') /\ ListMap(saved') = MapOf(entries)
  BY <1>4, ListOfTable DEF KVInv
<1>6. WatchOK'
  BY <1>1, ContentsIsMap DEF WatchOK, WatchersKnow, KVInv
<1> QED
  BY <1>1, <1>5, <1>6, ContentsIsMap DEF KVInv

\* norn_kv_restore: the map becomes a part of the snapshot, and no watcher counts as
\* informed any more.
LEMMA RestoreStep ==
  ASSUME KVInv, NEW good, Restore(good)
  PROVE  /\ KVInv' /\ UNCHANGED saved
         /\ \E K \in SUBSET DOMAIN ListMap(saved) : Contents' = Only(ListMap(saved), K)
<1>1. SoundList(saved)
  BY DEF KVInv
<1>2. good \in 0..Len(saved) /\ entries' = Filled(saved, good) /\ good \in Nat
  BY <1>1 DEF Restore, Filled, SoundList
<1>3. /\ Sound(entries') /\ Used(entries') = 1..good
      /\ \E K \in SUBSET DOMAIN ListMap(saved) : MapOf(entries') = Only(ListMap(saved), K)
  BY <1>1, <1>2, FillTable
<1>4. count' = Cardinality(Used(entries'))
  <2>1. count' = good
    BY DEF Restore
  <2>2. Cardinality(1..good) = IF 1 > good THEN 0 ELSE good - 1 + 1
    BY <1>2, FS_Interval
  <2> QED
    BY <1>2, <1>3, <2>1, <2>2
<1>5. informed' = {} /\ UNCHANGED <<watches, mirror, saved>>
  BY DEF Restore
<1>6. WatchOK'
  BY <1>5 DEF WatchOK, WatchersKnow, KVInv
<1> QED
  BY <1>1, <1>3, <1>4, <1>5, <1>6, ContentsIsMap DEF KVInv

-----------------------------------------------------------------------------
(* The theorems. *)

\* The snapshot as KVMap sees it is the map of its list.
LEMMA SavedMapIsMap == SavedMap = ListMap(saved) /\ SavedMap' = ListMap(saved')
BY DEF SavedMap, ListMap

\* The empty table is sound and stands for the empty map, and so does the empty list.
LEMMA InitHolds ==
  ASSUME KVInit
  PROVE  KVInv /\ Contents = Map!EmptyMap /\ SavedMap = Map!EmptyMap
<1>1. Used(entries) = {}
  BY DEF KVInit, Used
<1>2. Sound(entries)
  BY <1>1 DEF KVInit, Sound, Slot
<1>3. count = Cardinality(Used(entries))
  BY <1>1, FS_EmptySet DEF KVInit
<1>4. SoundList(saved)
  BY KVAssumption DEF KVInit, SoundList
<1>5. WatchOK
  BY KVAssumption DEF KVInit, WatchOK, WatchersKnow
<1>6. Contents = Map!EmptyMap
  BY <1>1, ContentsIsMap DEF MapOf, Map!EmptyMap
<1>7. SavedMap = Map!EmptyMap
  BY SavedMapIsMap DEF KVInit, ListMap, Map!EmptyMap
<1> QED
  BY <1>2, <1>3, <1>4, <1>5, <1>6, <1>7 DEF KVInv

\* Every step keeps the invariant.
LEMMA NextHolds ==
  ASSUME KVInv, [KVNext]_kvVars
  PROVE  KVInv'
<1>1. ASSUME NEW c \in Command, Apply(c)
      PROVE  KVInv'
  <2>1. CASE c.op = "put" /\ store_put(c.key, c.val)
    BY <2>1, PutStep DEF Command
  <2>2. CASE c.op = "del" /\ store_del(c.key)
    BY <2>2, DelStep DEF Command
  <2>3. CASE c.op = "cas" /\ store_put(c.key, c.val)
    BY <2>3, PutStep DEF Command
  <2> QED
    BY <1>1, <2>1, <2>2, <2>3 DEF Apply
<1>2. CASE UNCHANGED kvVars
  <2>1. UNCHANGED <<entries, count, watches, mirror, informed, saved>>
    BY <1>2 DEF kvVars
  <2>2. WatchOK'
    BY <2>1, ContentsIsMap DEF KVInv, WatchOK, WatchersKnow
  <2> QED
    BY <2>1, <2>2 DEF KVInv
<1> QED
  BY <1>1, <1>2, WatchStep, SnapshotStep, RestoreStep DEF KVNext

\* No key is in two slots, in the table or in a snapshot; the hand-kept count is the
\* number of used slots; the watchers know (KVInv), in every reachable state.
THEOREM KVInvariant == KVSpec => []KVInv
<1>1. KVInit => KVInv
  BY InitHolds
<1>2. KVInv /\ [KVNext]_kvVars => KVInv'
  BY NextHolds
<1> QED
  BY <1>1, <1>2, PTL DEF KVSpec

\* The types of the table, the count, the watches and the snapshot.
THEOREM KVTypeCorrect == KVSpec => []KVTypeOK
<1>1. KVInv => KVTypeOK
  BY UsedFinite DEF KVInv, KVTypeOK, Sound, SoundList, WatchOK
<1> QED
  BY <1>1, KVInvariant, PTL

\* find may stop at the first match, and kv->count, changed by hand in four places, is
\* the number of used slots: for every table size and every sequence of operations.
THEOREM TableSound == KVSpec => [](KeysUnique /\ CountIsUsed)
<1>1. KVInv => KeysUnique /\ CountIsUsed
  <2> SUFFICES ASSUME KVInv PROVE KeysUnique /\ CountIsUsed
    OBVIOUS
  <2>1. KeysUnique
    BY DEF KVInv, Sound, SoundList, Used, KeysUnique
  <2>2. CountIsUsed
    BY DEF KVInv, Used, CountIsUsed
  <2> QED
    BY <2>1, <2>2
<1> QED
  BY <1>1, KVInvariant, PTL

\* A watcher that listed its prefix once and follows its events knows the keys under it
\* exactly until a snapshot is restored (norn_kv_watch, fire, store_put, store_del).
THEOREM WatchersAlwaysKnow == KVSpec => []WatchersKnow
<1>1. KVInv => WatchersKnow
  BY DEF KVInv, WatchOK
<1> QED
  BY <1>1, KVInvariant, PTL

\* The cardinality KVMap uses is the one used here.
LEMMA SameCardinality == \A S : Map!Cardinality(S) = Cardinality(S)
BY DEF Map!Cardinality, Cardinality

\* A command that changes the table changes the map as its specification says.
LEMMA ApplyExecutes ==
  ASSUME KVInv, NEW c \in Command, Apply(c)
  PROVE  c \in Map!KVCommand /\ Contents' = Map!Do(Contents, c) /\ UNCHANGED saved
<1>1. CASE c.op = "put" /\ store_put(c.key, c.val)
  <2>1. c.key \in Key /\ c.val \in Value /\ c = Map!PutCmd(c.key, c.val)
    BY <1>1 DEF Command, Map!PutCmd
  <2>2. /\ Contents' = WithKey(Contents, c.key, c.val) /\ UNCHANGED saved
        /\ Map!HasRoom(Contents, c.key)
    BY <1>1, <2>1, PutStep, SameCardinality DEF Map!HasRoom
  <2>3. Map!Do(Contents, c) = WithKey(Contents, c.key, c.val)
    BY <1>1, <2>2 DEF Map!Do, Map!Takes, Map!With, WithKey
  <2> QED
    BY <2>1, <2>2, <2>3 DEF Map!KVCommand
<1>2. CASE c.op = "del" /\ store_del(c.key)
  <2>1. c.key \in Key /\ c = Map!DelCmd(c.key)
    BY <1>2 DEF Command, Map!DelCmd
  <2>2. Contents' = WithoutKey(Contents, c.key) /\ UNCHANGED saved
    BY <1>2, <2>1, DelStep
  <2>3. Map!Do(Contents, c) = WithoutKey(Contents, c.key)
    BY <1>2 DEF Map!Do, Map!Takes, Map!Without, WithoutKey
  <2> QED
    BY <2>1, <2>2, <2>3 DEF Map!KVCommand
<1>3. CASE c.op = "cas" /\ Current(c.key) = c.expect /\ store_put(c.key, c.val)
  <2>1. /\ c.key \in Key /\ c.val \in Value /\ c.expect \in Value
        /\ c = Map!CasCmd(c.key, c.expect, c.val)
    BY <1>3 DEF Command, Map!CasCmd
  <2>2. /\ Contents' = WithKey(Contents, c.key, c.val) /\ UNCHANGED saved
        /\ Map!HasRoom(Contents, c.key)
    BY <1>3, <2>1, PutStep, SameCardinality DEF Map!HasRoom
  <2>3. Map!Seen(Contents, c.key) = Current(c.key)
    <3>1. find(c.key) = Holding(entries, c.key) /\ Sound(entries)
      BY DEF find, Holding, KVInv
    <3>2. CASE find(c.key) = {}
      <4>1. c.key \notin DOMAIN Contents
        BY <3>1, <3>2, ContentsIsMap DEF MapOf, Holding, Used
      <4> QED
        BY <4>1, <3>2 DEF Map!Seen, Current
    <3>3. CASE find(c.key) # {}
      <4>1. PICK i \in Used(entries) : entries[i].key = c.key
        BY <3>1, <3>3 DEF Holding, Used
      <4>2. /\ Holding(entries, c.key) = {i} /\ c.key \in DOMAIN MapOf(entries)
            /\ MapOf(entries)[c.key] = entries[i].val
        <5>1. Holding(entries, entries[i].key) = {i}
          BY <3>1, Lookup
        <5>2. entries[i].key \in DOMAIN MapOf(entries)
          BY <3>1, Lookup
        <5>3. MapOf(entries)[entries[i].key] = entries[i].val
          BY <3>1, Lookup
        <5> QED
          BY <4>1, <5>1, <5>2, <5>3
      <4>3. First({i}) = i
        BY KVAssumption, FirstIsThere DEF Used
      <4> QED
        BY <3>1, <3>3, <4>2, <4>3, ContentsIsMap DEF Map!Seen, Current
    <3> QED
      BY <3>2, <3>3
  <2>4. Map!Do(Contents, c) = WithKey(Contents, c.key, c.val)
    BY <1>3, <2>2, <2>3 DEF Map!Do, Map!Takes, Map!With, WithKey
  <2> QED
    BY <2>1, <2>2, <2>4 DEF Map!KVCommand
<1> QED
  BY <1>1, <1>2, <1>3 DEF Apply

\* A step of the table is a step of the map, or none.
LEMMA StepRefines ==
  ASSUME KVInv, [KVNext]_kvVars
  PROVE  [Map!Next]_<<Contents, SavedMap>>
<1>1. ASSUME NEW c \in Command, Apply(c)
      PROVE  Map!Next
  <2>1. c \in Map!KVCommand /\ Map!Execute(c)
    BY <1>1, ApplyExecutes, SavedMapIsMap DEF Map!Execute
  <2> QED
    BY <2>1 DEF Map!Next
<1>2. ASSUME NEW p \in Prefix, Watch(p)
      PROVE  UNCHANGED <<Contents, SavedMap>>
  BY <1>2, WatchStep, ContentsIsMap, SavedMapIsMap
<1>3. ASSUME Snapshot
      PROVE  Map!Next
  BY <1>3, SnapshotStep, ContentsIsMap, SavedMapIsMap DEF Map!Next, Map!Save
<1>4. ASSUME NEW good, Restore(good)
      PROVE  Map!Next
  <2>1. /\ UNCHANGED saved
        /\ \E K \in SUBSET DOMAIN ListMap(saved) : Contents' = Only(ListMap(saved), K)
    BY <1>4, RestoreStep
  <2>2. Map!Load
    BY <2>1, SavedMapIsMap DEF Map!Load, Only
  <2> QED
    BY <2>2 DEF Map!Next
<1>5. CASE UNCHANGED kvVars
  BY <1>5, ContentsIsMap, SavedMapIsMap DEF kvVars
<1> QED
  BY <1>1, <1>2, <1>3, <1>4, <1>5 DEF KVNext

\* The slot table with its first-fit search, its count and its snapshots behaves as the
\* bounded map of norn_kvstore.h, for every table size.
THEOREM TableImplementsMap == KVSpec => ImplementsMap
<1>1. KVInit => Map!Init
  BY InitHolds DEF Map!Init
<1>2. KVInv /\ [KVNext]_kvVars => [Map!Next]_<<Contents, SavedMap>>
  BY StepRefines
<1> QED
  BY <1>1, <1>2, KVInvariant, PTL DEF KVSpec, ImplementsMap, Map!Spec
=============================================================================
