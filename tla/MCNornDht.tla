----------------------------- MODULE MCNornDht -----------------------------
(***************************************************************************)
(* One run for the parts of the DHT: the lookups a node makes              *)
(* (NornLookup), the queries it answers (NornMainline), the records it has *)
(* fetched (NornRecords) and the early data it takes (NornEarly).  The     *)
(* modules share no variable, so a state of one part is reached whatever   *)
(* the others do; a behaviour therefore moves one part, chosen at the      *)
(* start, and leaves the others where they began.                          *)
(***************************************************************************)
EXTENDS MCNornLookup, MCNornMainline, NornRecords, NornEarly

VARIABLE part

DhtInit ==
  /\ LookupInit /\ Init /\ RecordsInit /\ EarlyInit
  /\ part \in {"lookup", "mainline", "records", "early"}
  /\ part # "lookup" => net = Alone

DhtNext ==
  /\ UNCHANGED part
  /\ \/ part = "lookup" /\ LookupNext /\ UNCHANGED <<vars, recordVars, earlyVars>>
     \/ part = "mainline" /\ Next /\ UNCHANGED <<lookupVars, recordVars, earlyVars>>
     \/ part = "records" /\ RecordsNext /\ UNCHANGED <<lookupVars, vars, earlyVars>>
     \/ part = "early" /\ EarlyNext /\ UNCHANGED <<lookupVars, vars, recordVars>>

DhtSpec == DhtInit /\ [][DhtNext]_<<part, lookupVars, vars, recordVars, earlyVars>>
=============================================================================
