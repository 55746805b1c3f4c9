----------------------------- MODULE NornLookup -----------------------------
(***************************************************************************)
(* The iterative lookups of the DHT node (libnorn/norn.c): get_peers and   *)
(* announce_peer (mainline_lookup_ex), get and put of records              *)
(* (mainline_lookup_mutable), and find_node (mainline_resolve_node), as    *)
(* they are called directly and by the interface of norn_impl.c.           *)
(*                                                                         *)
(* A lookup runs alone and to its end: the routing table does not change   *)
(* under it.  It keeps a list of candidates, asks those it has not asked,  *)
(* LOOK_ALPHA at a time, and inserts the nodes it is told of.  The other   *)
(* nodes answer as mainline_process_packet does.                           *)
(*                                                                         *)
(* An identifier is its XOR distance to the target, which determines it:   *)
(* 0 is the target, and less is closer.  Values are abstracted to the      *)
(* address of their holder, records to their sequence number, tokens to    *)
(* the address that issued them.                                           *)
(***************************************************************************)
EXTENDS Integers, SequencesExt

CONSTANTS
  Id,            \* distances to the target, 0 among them
  Addr,          \* addresses of the other nodes
  Overlays,      \* the networks a lookup may meet
  LOOK_MAX_CAND, \* candidates kept
  LOOK_ALPHA,    \* queries sent per round
  LOOK_K,        \* nodes announced to, or put to
  ServeMax,      \* contacts in an answer (8 in the code)
  None

Contact == [id : Id, addr : Addr]

(* table: what mainline_add_node keeps here; pref: the preferred nodes in  *)
(* it; live: who answers at an address; knows: the tables of the others;   *)
(* holds: the record (its seq) or the peer stored there, 0 for none; own:  *)
(* the peer is stored here.                                                *)
Overlay ==
  [table : Seq(Contact), pref : SUBSET Id, live : [Addr -> Id \cup {None}],
   knows : [Addr -> SUBSET Contact], holds : [Addr -> Nat], own : BOOLEAN]

ASSUME LookupAssumption ==
  /\ Id \subseteq Nat /\ 0 \in Id
  /\ IsFiniteSet(Addr) /\ None \notin Id \cup Addr /\ None # "self"
  /\ LOOK_MAX_CAND \in Nat \ {0} /\ LOOK_ALPHA \in Nat \ {0} /\ LOOK_K \in Nat \ {0}
  /\ ServeMax \in Nat
  /\ \A o \in Overlays : /\ o.pref \subseteq Id
                         /\ o.live \in [Addr -> Id \cup {None}]
                         /\ o.table \in Seq(Contact)
                         /\ o.knows \in [Addr -> SUBSET Contact]
                         /\ \A a \in Addr : /\ IsFiniteSet(o.knows[a])
                                             /\ \A x, y \in o.knows[a] : x.id = y.id => x = y
                         /\ o.holds \in [Addr -> Nat]

\* get keeps the value for its caller, fetch gives it to the record store; iget, ifetch
\* and iput are those of an immutable record: an ifetch takes no value, and an iput has
\* neither key nor signature.
Kind == {"get_peers", "announce", "get", "iget", "fetch", "ifetch", "put", "iput", "find"}

VARIABLES
  net,       \* the network
  call,      \* the kind of the lookup
  phase,     \* "idle", "send" (top of the outer loop), "wait" (inner loop), "done"
  cand,      \* cand[]: [id, addr, token, queried, pref]
  flight,    \* contacts asked whose answer has not come
  expired,   \* timeout_ms have passed
  peer,      \* the endpoint found: its holder, or None
  got,       \* the record accepted: its seq, or 0
  direct,    \* the address the target itself answered from
  contact,   \* the target's address as others recorded it
  told,      \* announces and puts sent: [addr, token]
  disturbed  \* history: an answer was lost, late, or out of time

results == <<peer, got, direct, contact>>
lookupVars == <<net, call, phase, cand, flight, expired, results, told, disturbed>>

-----------------------------------------------------------------------------
(* The candidates. *)

Candidate ==
  [id : Id, addr : Addr, token : Addr \cup {None}, queried : BOOLEAN, pref : BOOLEAN]

\* look_insert's place: it walks from the end over the candidates that are closer.
Place(list, id) == SelectLastInSeq(list, LAMBDA x : x.id > id) + 1

\* Mutant of Fresh: the slot is not cleared before it is filled.
FreshUncleared(list, c) ==
  LET p == Place(list, c.id)
  IN  [id |-> c.id, addr |-> c.addr,
       token |-> IF p <= Len(list) THEN list[p].token ELSE None,
       queried |-> FALSE, pref |-> c.id \in net.pref]

Fresh(list, c) ==
  [id |-> c.id, addr |-> c.addr, token |-> None, queried |-> FALSE, pref |-> c.id \in net.pref]

\* A full list keeps its last candidate unless the new one is closer, or preferred
\* where the last is not.  (Equal distances are equal identifiers.)
Refused(list, c) ==
  /\ Len(list) >= LOOK_MAX_CAND
  /\ c.id >= Last(list).id
  /\ ~(c.id \in net.pref /\ ~Last(list).pref)

look_insert(list, c) ==
  LET kept == IF Len(list) >= LOOK_MAX_CAND THEN Front(list) ELSE list \* drop the last
  IN  IF (\E i \in DOMAIN list : list[i].id = c.id) \/ Refused(list, c) THEN list
      ELSE InsertAt(kept, Place(kept, c.id), Fresh(kept, c))

\* look_insert of each of the nodes, as they come.
Inserted(list, nodes) ==
  LET after[n \in 0..Len(nodes)] ==
        IF n = 0 THEN list ELSE look_insert(after[n - 1], nodes[n])
  IN  after[Len(nodes)]

-----------------------------------------------------------------------------
(* The answers of the other nodes (mainline_process_packet). *)

\* serve_compact_closest: each place takes the closest that has none yet.
Closest(S) ==
  LET n == IF Cardinality(S) < ServeMax THEN Cardinality(S) ELSE ServeMax
  IN  [k \in 1..n |-> CHOOSE x \in S : Cardinality({y \in S : y.id < x.id}) = k - 1]

Answers(a) == net.live[a] # None

\* A node that has what is asked for returns it, and its contacts otherwise.
HasValue(a) == call # "find" /\ net.holds[a] > 0

AnswerNodes(a) == IF HasValue(a) THEN <<>> ELSE Closest(net.knows[a])

-----------------------------------------------------------------------------
(* The lookup. *)

LookupInit ==
  /\ net \in Overlays
  /\ call = "find" /\ phase = "idle" /\ cand = <<>> /\ flight = {} /\ expired = FALSE
  /\ peer = None /\ got = 0 /\ direct = None /\ contact = None
  /\ told = {} /\ disturbed = FALSE

\* timed: timeout_ms > 0; own: the answer is at hand.  Both are as the caller has them.
Begin(kind, timed, own) ==
  /\ phase \in {"idle", "done"}
  /\ call' = kind
  /\ cand' = IF own THEN <<>> ELSE Inserted(<<>>, net.table)
  /\ phase' = IF cand' = <<>> THEN "done" ELSE "send"
  /\ expired' = ~timed
  /\ disturbed' = ~timed
  /\ peer' = IF own THEN "self" ELSE None
  /\ got' = 0 /\ direct' = None /\ contact' = None
  /\ told' = {} /\ flight' = {}
  /\ UNCHANGED net

\* serve_lookup_local answers a get_peers for what is stored here.
mainline_lookup_ex(kind, timed) == Begin(kind, timed, kind = "get_peers" /\ net.own)
mainline_lookup_mutable(kind, timed) == Begin(kind, timed, FALSE)
mainline_resolve_node(timed) == Begin("find", timed, FALSE)

\* The interface (norn_impl.c, norn_session.c): the calls that are to go on in the
\* background pass a limit of 0, the others their caller's.
norn_announce == mainline_lookup_ex("announce", FALSE)
norn_resolve_node(timed) == mainline_lookup_ex("get_peers", timed)
norn_put_mutable_salt == mainline_lookup_mutable("put", FALSE)
norn_put_immutable == mainline_lookup_mutable("iput", FALSE)
norn_get_mutable_salt == mainline_lookup_mutable("fetch", FALSE)
norn_get_immutable == mainline_lookup_mutable("ifetch", FALSE)
norn_dht_get_mutable(timed) == mainline_lookup_mutable("get", timed)
norn_dht_get_immutable(timed) == mainline_lookup_mutable("iget", timed)
norn_announce_endpoint_async == mainline_lookup_mutable("iput", FALSE)
norn_resolve_endpoint_async == mainline_lookup_mutable("ifetch", FALSE)

Satisfied ==
  \/ call = "get_peers" /\ peer # None
  \/ call = "find" /\ direct # None

\* The first LOOK_ALPHA candidates that have not been asked.
NextQueries ==
  {i \in DOMAIN cand : /\ ~cand[i].queried
                       /\ Cardinality({j \in 1..i : ~cand[j].queried}) <= LOOK_ALPHA}

Query ==
  /\ phase = "send" /\ ~expired /\ ~Satisfied /\ NextQueries # {}
  /\ cand' = [i \in DOMAIN cand |->
                [cand[i] EXCEPT !.queried = @ \/ i \in NextQueries]]
  /\ flight' = flight \cup {[id |-> cand[i].id, addr |-> cand[i].addr] : i \in NextQueries}
  /\ phase' = "wait"
  /\ UNCHANGED <<net, call, expired, results, told, disturbed>>

\* The token goes to the first candidate with the sender's address.
WithToken(list, a) ==
  LET i == SelectInSeq(list, LAMBDA x : x.addr = a)
  IN  IF call = "find" \/ i = 0 THEN list ELSE [list EXCEPT ![i].token = a]

\* Mutant of RecordAfter: the record store takes any record.
LastRecord(seq) == IF call \in {"get", "fetch", "put"} THEN seq ELSE got

\* The record a get ends with: the last that came, or the first of an immutable one;
\* recstore_accept keeps the newest.
RecordAfter(seq) ==
  CASE call = "get" -> seq
    [] call = "iget" -> IF got = 0 THEN seq ELSE got
    [] call \in {"fetch", "put"} -> IF seq > got THEN seq ELSE got
    [] OTHER -> got

\* The address the target answered from, after the answer of c.
DirectAfter(c) == IF call = "find" /\ net.live[c.addr] = 0 THEN c.addr ELSE direct

ContactAfter(nodes) ==
  LET i == SelectInSeq(nodes, LAMBDA x : x.id = 0)
  IN  IF call = "find" /\ contact = None /\ i # 0 THEN nodes[i].addr ELSE contact

Receive(c) ==
  LET a == c.addr
      nodes == AnswerNodes(a)
  IN  /\ phase = "wait" /\ c \in flight /\ Answers(a)
      /\ flight' = flight \ {c}
      /\ cand' = Inserted(WithToken(cand, a), nodes)
      /\ peer' = IF call \in {"get_peers", "announce"} /\ peer = None /\ HasValue(a)
                 THEN a ELSE peer
      /\ got' = IF HasValue(a) THEN RecordAfter(net.holds[a]) ELSE got
      /\ direct' = DirectAfter(c)
      /\ contact' = ContactAfter(nodes)
      /\ UNCHANGED <<net, call, expired, told, disturbed>>
      /\ phase' = IF Satisfied' THEN "send" ELSE "wait"

\* select returns 0: nothing came for the whole window.
Idle ==
  /\ phase = "wait"
  /\ phase' = "send"
  /\ disturbed' = (disturbed \/ \E c \in flight : Answers(c.addr))
  /\ UNCHANGED <<net, call, cand, flight, expired, results, told>>

Expire ==
  /\ phase \in {"send", "wait"} /\ ~expired
  /\ expired' = TRUE
  /\ disturbed' = TRUE
  /\ phase' = "send"
  /\ UNCHANGED <<net, call, cand, flight, results, told>>

\* External: the network loses a query or its answer.
Lose(c) ==
  /\ phase = "wait" /\ c \in flight
  /\ flight' = flight \ {c}
  /\ disturbed' = (disturbed \/ Answers(c.addr))
  /\ UNCHANGED <<net, call, phase, cand, expired, results, told>>

Publishes == call \in {"announce", "put"}

TokenHolders == {i \in DOMAIN cand : cand[i].token # None}

\* The first LOOK_K candidates that gave a token.
Chosen == {i \in TokenHolders : Cardinality(TokenHolders \cap 1..i) <= LOOK_K}

Finish ==
  /\ phase = "send"
  /\ expired \/ Satisfied \/ NextQueries = {}
  /\ told' = IF Publishes THEN {[addr |-> cand[i].addr, token |-> cand[i].token] : i \in Chosen}
             ELSE {}
  /\ phase' = "done"
  /\ UNCHANGED <<net, call, cand, flight, expired, results, disturbed>>

LookupNext ==
  \/ \E kind \in {"get_peers", "announce"} : mainline_lookup_ex(kind, TRUE)
  \/ \E kind \in {"fetch", "put"} : mainline_lookup_mutable(kind, TRUE)
  \/ mainline_resolve_node(TRUE)
  \/ norn_announce \/ norn_put_mutable_salt \/ norn_put_immutable
  \/ norn_get_mutable_salt \/ norn_get_immutable
  \/ norn_announce_endpoint_async \/ norn_resolve_endpoint_async
  \/ \E timed \in BOOLEAN :
       norn_resolve_node(timed) \/ norn_dht_get_mutable(timed) \/ norn_dht_get_immutable(timed)
  \/ Query
  \/ \E c \in flight : Receive(c) \/ Lose(c)
  \/ Idle \/ Expire \/ Finish

LookupSpec == LookupInit /\ [][LookupNext]_lookupVars

-----------------------------------------------------------------------------
(* Properties. *)

\* The candidate list stays within its bound and holds no identifier twice, however
\* often a node is reported and dropped (look_insert, norn.c:572).
LookupTypeOK ==
  /\ cand \in Seq(Candidate) /\ Len(cand) <= LOOK_MAX_CAND
  /\ \A i, j \in DOMAIN cand : cand[i].id = cand[j].id => i = j
  /\ call \in Kind /\ phase \in {"idle", "send", "wait", "done"}
  /\ flight \subseteq Contact
  /\ direct \in Addr \cup {None} /\ contact \in Addr \cup {None}

\* A token is kept for, and used with, the address that issued it: insertions move
\* candidates while tokens arrive, and an announce or a put with a foreign token is
\* refused by its receiver (norn.c:803, norn.c:1025).
TokensOwn ==
  /\ \A i \in DOMAIN cand : cand[i].token \in {None, cand[i].addr}
  /\ \A t \in told : t.token = t.addr

\* The addresses asked by a lookup nothing disturbs, in rounds.
Asked ==
  LET from[n \in 0..Cardinality(Addr)] ==
        IF n = 0 THEN {net.table[i].addr : i \in DOMAIN net.table}
        ELSE from[n - 1] \cup
               {x.addr : x \in UNION {Range(AnswerNodes(a)) : a \in {b \in from[n - 1] : Answers(b)}}}
  IN  from[Cardinality(Addr)]

\* Nobody records an address its node has left.
Consistent ==
  \A x, y \in Range(net.table) \cup UNION {net.knows[a] : a \in Addr} :
     x.id = y.id => x.addr = y.addr

\* A lookup that loses no answer and does not run out of time or of room finds what
\* some node within its reach has: a peer, the newest record, the target itself, and
\* somebody to announce or put to (norn.c:658, norn.c:889, norn.c:1067).
LookupComplete ==
  LET there == {a \in Asked : Answers(a)}
      seqs == {net.holds[a] : a \in there} \ {0}
  IN  phase = "done" /\ ~disturbed /\ Consistent /\ Len(cand) < LOOK_MAX_CAND =>
        /\ call \in {"get_peers", "announce"} /\ seqs # {} => peer # None
        /\ call \in {"get", "iget", "fetch"} /\ seqs # {} => got \in seqs
        /\ call = "fetch" => \A s \in seqs : got >= s
        /\ call = "find" /\ (\E a \in there : net.live[a] = 0) => direct # None
        /\ Publishes /\ there # {} => told # {}

\* What norn.c:535 says of LOOK_K, "announce to the K closest token-bearing nodes":
\* no node left out gave a token and is closer than a node announced or put to.
ClosestAreTold ==
  phase = "done" /\ Publishes =>
    \A i, j \in TokenHolders :
       (\E t \in told : t.addr = cand[i].addr) /\ cand[j].id < cand[i].id
         => \E t \in told : t.addr = cand[j].addr
=============================================================================
