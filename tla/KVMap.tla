------------------------------- MODULE KVMap -------------------------------
(***************************************************************************)
(* The replicated map as its users see it (norn_kvstore.h): one bounded    *)
(* map that commands change in one step each, and a snapshot of it.        *)
(***************************************************************************)
EXTENDS KVCommands

VARIABLES
  map,
  snap       \* the last snapshot taken of it

Init == map = EmptyMap /\ snap = EmptyMap

Execute(c) == map' = Do(map, c) /\ UNCHANGED snap

Save == snap' = map /\ UNCHANGED map

\* The snapshot, or what could be read of it, replaces the map.
Load ==
  /\ \E K \in SUBSET DOMAIN snap : map' = [k \in K |-> snap[k]]
  /\ UNCHANGED snap

Next == (\E c \in KVCommand : Execute(c)) \/ Save \/ Load

Spec == Init /\ [][Next]_<<map, snap>>
=============================================================================
