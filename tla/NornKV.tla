------------------------------- MODULE NornKV -------------------------------
(***************************************************************************)
(* The key-value state machine (libnorn/norn_kvstore.c) as it is stored: a *)
(* table of cap slots searched from its start, a separate count, a list of *)
(* prefix watches that are called back on every change, and snapshots.     *)
(*                                                                         *)
(* Abstractions.  A key or a value is a model value; Empty is the value of *)
(* length 0.  A prefix is the set of the keys it matches.  A snapshot is   *)
(* the sequence of its records, and one damaged in transit is given by how *)
(* many of its records still parse.  mirror is what a watcher knows: the   *)
(* keys it listed when it began to watch, brought up to date by its        *)
(* events; informed are the watchers no restore has gone behind the back   *)
(* of since (norn_kv_restore fires no watches).                            *)
(***************************************************************************)
EXTENDS Naturals, Sequences, FiniteSets

CONSTANTS
  Key, Value, Empty,
  Prefix,        \* the prefixes clients watch, each a set of keys
  Free,          \* a slot with used = 0
  cap,           \* entries in the table
  KV_MAX_WATCH   \* watches the table can hold

ASSUME KVAssumption ==
  /\ Empty \in Value
  /\ Prefix \subseteq SUBSET Key
  /\ cap \in Nat \ {0}
  /\ KV_MAX_WATCH \in Nat
  /\ Free \notin [key : Key, val : Value]

VARIABLES
  entries,   \* entries[i]: Free, or the key and value in slot i
  count,     \* kv->count
  watches,   \* the prefixes watched, in order of registration
  mirror,    \* history: mirror[w] is what the watcher w knows
  informed,  \* history: the watchers registered since the last restore
  saved      \* the snapshot at hand

kvVars == <<entries, count, watches, mirror, informed, saved>>

Slot == [key : Key, val : Value] \cup {Free}

Command ==
  [op : {"put"}, key : Key, val : Value] \cup [op : {"del"}, key : Key]
    \cup [op : {"cas"}, key : Key, expect : Value, val : Value]

-----------------------------------------------------------------------------

First(S) == CHOOSE i \in S : \A j \in S : i <= j

\* find: the slots that hold k; the code takes the first of them.
find(k) == {i \in 1..cap : entries[i] # Free /\ entries[i].key = k}

\* alloc_slot: the free slots; the code takes the first of them.
free(tab) == {i \in 1..cap : tab[i] = Free}

\* Mutant of fire: removals are not reported.
FireOnPutOnly(k, known) ==
  [w \in 1..Len(watches) |->
     IF k \in watches[w] /\ DOMAIN known # {}
     THEN [x \in DOMAIN mirror[w] \cup {k} |-> IF x = k THEN known[k] ELSE mirror[w][x]]
     ELSE mirror[w]]

\* fire: every watcher whose prefix matches k learns its new value, or its removal.
fire(k, known) ==
  [w \in 1..Len(watches) |->
     IF k \in watches[w]
     THEN [x \in (DOMAIN mirror[w] \ {k}) \cup DOMAIN known |->
             IF x = k THEN known[k] ELSE mirror[w][x]]
     ELSE mirror[w]]

\* Mutants of store_put: a free slot is taken for a stored key too, and an overwrite
\* counts as a new entry.
TakeFreeSlot(k, v) ==
  /\ free(entries) # {}
  /\ entries' = [entries EXCEPT ![First(free(entries))] = [key |-> k, val |-> v]]
  /\ count' = IF find(k) = {} THEN count + 1 ELSE count
  /\ mirror' = fire(k, [x \in {k} |-> v])
  /\ UNCHANGED <<watches, informed, saved>>

CountEveryPut(k, v) ==
  LET slots == IF find(k) # {} THEN find(k) ELSE free(entries)
  IN  /\ slots # {}
      /\ entries' = [entries EXCEPT ![First(slots)] = [key |-> k, val |-> v]]
      /\ count' = count + 1
      /\ mirror' = fire(k, [x \in {k} |-> v])
      /\ UNCHANGED <<watches, informed, saved>>

\* store_put: overwrite, or take a free slot; -1 and no change without one.
store_put(k, v) ==
  LET slots == IF find(k) # {} THEN find(k) ELSE free(entries)
  IN  /\ slots # {}
      /\ entries' = [entries EXCEPT ![First(slots)] = [key |-> k, val |-> v]]
      /\ count' = IF find(k) = {} THEN count + 1 ELSE count
      /\ mirror' = fire(k, [x \in {k} |-> v])
      /\ UNCHANGED <<watches, informed, saved>>

\* store_del of a stored key.
store_del(k) ==
  /\ find(k) # {}
  /\ entries' = [entries EXCEPT ![First(find(k))] = Free]
  /\ count' = count - 1
  /\ mirror' = fire(k, [x \in {} |-> Empty])
  /\ UNCHANGED <<watches, informed, saved>>

\* The value norn_kv_apply compares with a CAS's expect.
Current(k) == IF find(k) = {} THEN Empty ELSE entries[First(find(k))].val

\* norn_kv_apply, the commands that change the store.
Apply(c) ==
  \/ c.op = "put" /\ store_put(c.key, c.val)
  \/ c.op = "del" /\ store_del(c.key)
  \/ c.op = "cas" /\ Current(c.key) = c.expect /\ store_put(c.key, c.val)

\* The map norn_kv_get and norn_kv_foreach read out of the table.
Contents ==
  [k \in {entries[i].key : i \in {j \in 1..cap : entries[j] # Free}} |->
     entries[First(find(k))].val]

\* norn_kv_watch, by a watcher that first lists the keys of its prefix.
Watch(p) ==
  /\ Len(watches) < KV_MAX_WATCH
  /\ watches' = Append(watches, p)
  /\ mirror' = Append(mirror, [k \in DOMAIN Contents \cap p |-> Contents[k]])
  /\ informed' = informed \cup {Len(watches) + 1}
  /\ UNCHANGED <<entries, count, saved>>

\* norn_kv_snapshot: the used slots, in slot order; at[i] is the slot of record i.
Snapshot ==
  /\ \E n \in 0..cap : \E at \in [1..n -> (1..cap) \ free(entries)] :
       /\ \A i, j \in 1..n : i < j => at[i] < at[j]
       /\ \A slot \in (1..cap) \ free(entries) : \E i \in 1..n : at[i] = slot
       /\ saved' = [i \in 1..n |-> entries[at[i]]]
  /\ UNCHANGED <<entries, count, watches, mirror, informed>>

\* Mutant of norn_kv_restore: the slots are filled without being cleared first.
RestoreOver(good) ==
  /\ good \in 0..Len(saved)
  /\ entries' = [i \in 1..cap |-> IF i <= good THEN saved[i] ELSE entries[i]]
  /\ count' = good
  /\ informed' = {}
  /\ UNCHANGED <<watches, mirror, saved>>

\* norn_kv_restore of a snapshot of which the first good records parse: clear, then
\* fill the slots from the front.  No watcher hears of it.
Restore(good) ==
  /\ good \in 0..Len(saved)
  /\ entries' = [i \in 1..cap |-> IF i <= good THEN saved[i] ELSE Free]
  /\ count' = good
  /\ informed' = {}
  /\ UNCHANGED <<watches, mirror, saved>>

KVInit ==
  /\ entries = [i \in 1..cap |-> Free]
  /\ count = 0
  /\ watches = <<>>
  /\ mirror = <<>>
  /\ informed = {}
  /\ saved = <<>>

KVNext ==
  \/ \E c \in Command : Apply(c)
  \/ \E p \in Prefix : Watch(p)
  \/ Snapshot
  \/ \E good \in 0..cap : Restore(good)

KVSpec == KVInit /\ [][KVNext]_kvVars

-----------------------------------------------------------------------------
(* Properties. *)

\* The table, the count, the watches and the snapshot have their types.
KVTypeOK ==
  /\ entries \in [1..cap -> Slot]
  /\ count \in 0..cap
  /\ watches \in Seq(Prefix) /\ Len(watches) <= KV_MAX_WATCH
  /\ Len(mirror) = Len(watches)
  /\ informed \subseteq 1..Len(watches)
  /\ saved \in Seq(Slot \ {Free}) /\ Len(saved) <= cap

\* find can stop at the first match: no key is in two slots, in the table or in a
\* snapshot, whatever slots deletions have freed in between.
KeysUnique ==
  /\ \A i, j \in 1..cap :
       (entries[i] # Free /\ entries[j] # Free /\ entries[i].key = entries[j].key) => i = j
  /\ \A i, j \in 1..Len(saved) : saved[i].key = saved[j].key => i = j

\* kv->count, kept by hand in four places, is the number of used slots.
CountIsUsed == count = Cardinality({i \in 1..cap : entries[i] # Free})

\* A watcher that listed its prefix once and then follows its events knows the
\* store's keys under that prefix exactly, until a snapshot is restored.
WatchersKnow ==
  \A w \in informed :
    mirror[w] = [k \in DOMAIN Contents \cap watches[w] |-> Contents[k]]

\* The map a snapshot stands for.
SavedMap ==
  [k \in {saved[i].key : i \in 1..Len(saved)} |->
     saved[CHOOSE i \in 1..Len(saved) : saved[i].key = k].val]

Map == INSTANCE KVMap WITH Capacity <- cap, map <- Contents, snap <- SavedMap

\* Slots, count and first-fit search behave as the bounded map of norn_kvstore.h.
ImplementsMap == Map!Spec
=============================================================================
