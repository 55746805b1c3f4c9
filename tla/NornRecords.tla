----------------------------- MODULE NornRecords -----------------------------
(***************************************************************************)
(* The store of the signed records a node has fetched or was told of       *)
(* (libnorn/recstore.c): a table in memory, written through to a file, and *)
(* read back when the node starts.                                         *)
(*                                                                         *)
(* A record is its account, which determines its target, its sequence      *)
(* number and whether it is private; a private one is not written.  A      *)
(* record is taken first and marked private by its receiver afterwards.    *)
(* The file may fail to open for writing, which nobody is told; it is      *)
(* replaced as a whole.  Records whose signature is wrong are refused      *)
(* before the table is looked at, and are left out.                        *)
(***************************************************************************)
EXTENDS Naturals, SequencesExt

CONSTANTS
  Account, RecSeq,     \* sequence numbers a record may come with
  RECSTORE_MAX,
  MaxStarts            \* bound: times recstore_init is called

ASSUME RecordsAssumption == RECSTORE_MAX \in Nat \ {0} /\ RecSeq \subseteq Nat

VARIABLES
  recs,    \* g_recs: [k, seq, priv]
  file,    \* the lines of the file
  starts,  \* calls of recstore_init so far
  written  \* history: <<account, seq>> saved since the account was last private

recordVars == <<recs, file, starts, written>>

\* The place of account k; 0 when there is none.
find(k) == SelectInSeq(recs, LAMBDA r : r.k = k)

\* save, when the file opens: the public records, in the order of the table; at[i] is
\* the place of line i.
save(table, opens) ==
  LET public == {i \in DOMAIN table : ~table[i].priv}
  IN  \/ ~opens /\ UNCHANGED file
      \/ /\ opens
         /\ \E n \in 0..Len(table) : \E at \in [1..n -> public] :
              /\ \A i, j \in 1..n : i < j => at[i] < at[j]
              /\ \A place \in public : \E i \in 1..n : at[i] = place
              /\ file' = [i \in 1..n |-> table[at[i]]]

\* What has been saved of the accounts that are not private.
Noted(table, opens) ==
  LET new == IF opens THEN {<<table[i].k, table[i].seq>> : i \in DOMAIN table} ELSE {}
  IN  {w \in written \cup new : \A i \in DOMAIN table : table[i].k = w[1] => ~table[i].priv}

\* Mutant of recstore_accept: only the version at hand is refused, not an older one.
AcceptOther(k, seq, opens) ==
  LET r == [k |-> k, seq |-> seq, priv |-> FALSE]
      e == find(k)
  IN  /\ e # 0 => seq # recs[e].seq
      /\ e = 0 => Len(recs) < RECSTORE_MAX
      /\ recs' = IF e = 0 THEN Append(recs, r) ELSE [recs EXCEPT ![e] = r]
      /\ save(recs', opens)
      /\ written' = Noted(recs', opens)
      /\ UNCHANGED starts

recstore_accept(k, seq, opens) ==
  LET r == [k |-> k, seq |-> seq, priv |-> FALSE]
      e == find(k)
  IN  /\ e # 0 => seq > recs[e].seq
      /\ e = 0 => Len(recs) < RECSTORE_MAX
      /\ recs' = IF e = 0 THEN Append(recs, r) ELSE [recs EXCEPT ![e] = r]
      /\ save(recs', opens)
      /\ written' = Noted(recs', opens)
      /\ UNCHANGED starts

recstore_set_private(k, val, opens) ==
  LET e == find(k)
  IN  /\ e # 0 /\ recs[e].priv # val
      /\ recs' = [recs EXCEPT ![e].priv = val]
      /\ save(recs', opens)
      /\ written' = Noted(recs', opens)
      /\ UNCHANGED starts

\* What recstore_init leaves in the table.
Loaded == IF Len(file) > RECSTORE_MAX THEN SubSeq(file, 1, RECSTORE_MAX) ELSE file

\* A start after a crash, or in a process that has a table already.
recstore_init ==
  /\ starts < MaxStarts
  /\ starts' = starts + 1
  /\ recs' = Loaded
  /\ UNCHANGED <<file, written>>

RecordsInit == recs = <<>> /\ file = <<>> /\ starts = 1 /\ written = {}

RecordsNext ==
  \/ \E k \in Account, opens \in BOOLEAN :
       \/ \E seq \in RecSeq : recstore_accept(k, seq, opens)
       \/ \E val \in BOOLEAN : recstore_set_private(k, val, opens)
  \/ recstore_init

RecordsSpec == RecordsInit /\ [][RecordsNext]_recordVars

-----------------------------------------------------------------------------
(* Properties. *)

\* Whatever saves failed and however often the node was started: an account has one
\* record in the table (recstore_accept), and what a save has written of it is never gone
\* back on: the table has that version or a newer one until the account is made private, so
\* that an older one is not taken for new, also by a node that was started since.
RecordsSound ==
  /\ \A i, j \in DOMAIN recs : recs[i].k = recs[j].k => i = j
  /\ \A w \in written : \E j \in DOMAIN recs : recs[j].k = w[1] /\ recs[j].seq >= w[2]

\* What recstore.h:22 says: "Private records never written to disk or DHT".  A record that
\* is marked private in the table is not in the file.
PrivateNotOnDisk ==
  \A i \in DOMAIN recs : recs[i].priv => \A j \in DOMAIN file : file[j].k # recs[i].k
=============================================================================
