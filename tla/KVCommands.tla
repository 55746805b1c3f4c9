----------------------------- MODULE KVCommands -----------------------------
(***************************************************************************)
(* The commands of the replicated map (norn_kvstore.h) and what each does  *)
(* to a map: a function from the keys present to their values.             *)
(***************************************************************************)
EXTENDS Naturals, FiniteSets

CONSTANTS
  Key,
  Value,     \* values, Empty among them
  Empty,     \* the value of length 0
  Capacity   \* keys the map can hold

\* m with k set to v.
With(m, k, v) == [x \in DOMAIN m \cup {k} |-> IF x = k THEN v ELSE m[x]]

Without(m, k) == [x \in DOMAIN m \ {k} |-> m[x]]

\* The value a compare-and-set sees: an absent key reads as the empty value.
Seen(m, k) == IF k \in DOMAIN m THEN m[k] ELSE Empty

HasRoom(m, k) == k \in DOMAIN m \/ Cardinality(DOMAIN m) < Capacity

PutCmd(k, v) == [op |-> "put", key |-> k, val |-> v]
DelCmd(k) == [op |-> "del", key |-> k]
CasCmd(k, e, v) == [op |-> "cas", key |-> k, expect |-> e, val |-> v]

KVCommand ==
  {PutCmd(k, v) : k \in Key, v \in Value} \cup {DelCmd(k) : k \in Key}
    \cup {CasCmd(k, e, v) : k \in Key, e \in Value, v \in Value}

\* Mutant of norn_kv_apply: a compare-and-set does not compare.
TakesUnchecked(m, c) == c.op = "del" \/ HasRoom(m, c.key)

\* Does command c change map m?  A put or a compare-and-set without room does not.
Takes(m, c) ==
  \/ c.op = "put" /\ HasRoom(m, c.key)
  \/ c.op = "del"
  \/ c.op = "cas" /\ Seen(m, c.key) = c.expect /\ HasRoom(m, c.key)

\* The map after command c.
Do(m, c) ==
  IF ~Takes(m, c) THEN m
  ELSE IF c.op = "del" THEN Without(m, c.key) ELSE With(m, c.key, c.val)

EmptyMap == [k \in {} |-> Empty]
=============================================================================
