--------------------------- MODULE MCNornRaftLate ---------------------------
(***************************************************************************)
(* A search for what a success that outlives its term does to NornRaft.    *)
(* The steps are those of NornRaft; the network, which may lose anything,  *)
(* and the timers are restricted to a schedule of four elections, without  *)
(* which the search is too large.  A behaviour of LateSpec is one of Spec. *)
(***************************************************************************)
EXTENDS MCNornRaft

CONSTANTS n1, n2, n3, n4, n5

\* Who leads each term, whom the candidate's requests reach, and whom the leader's
\* entries reach.
Round ==
  << [lead |-> n1, ask |-> {n3, n4},     tell |-> {n2}],
     [lead |-> n3, ask |-> {n4, n5},     tell |-> {n1}],
     [lead |-> n1, ask |-> {n3, n4, n5}, tell |-> {n4}],
     [lead |-> n3, ask |-> {n2, n5},     tell |-> {}] >>

Term == Cardinality(leaders)

Asked(t) == IF t \in DOMAIN Round THEN Round[t].ask ELSE {}

\* n2's success for two entries of term 1 is on its way.
LateSuccess ==
  \E m \in msgs : /\ m.type = "AppendResp" /\ m.success
                  /\ m.from = n2 /\ m.match_index = 2

\* The leader of the term under way has done its part of the schedule.
TermOver ==
  CASE Term = 1 -> LateSuccess
    [] Term = 2 -> Len(log[n1]) = 1
    [] Term = 3 -> Len(applied[n1]) = 2
    [] OTHER -> TRUE

OnSchedule ==
  /\ \A l \in leaders : Round[l[1]].lead = l[2]
  /\ \A n \in Node :
       /\ role[n] = "candidate" => TermOver /\ n = Round[Term + 1].lead
       /\ ~heard[n] => n \in Asked(Term) \cup Asked(Term + 1)
  /\ Term = 2 => LateSuccess
  /\ \A m \in msgs :
       CASE m.type = "RequestVote" -> m.term = Term + 1 /\ m.to \in Asked(Term + 1)
         [] m.type = "VoteResp" -> m.granted /\ TermOver
         [] m.type = "Append" -> ~TermOver /\ m.term = Term /\ m.to \in Round[Term].tell
         [] OTHER -> TRUE

LateNext == Next /\ OnSchedule'

LateSpec == Init /\ [][LateNext]_vars
=============================================================================
