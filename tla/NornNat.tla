------------------------------ MODULE NornNat ------------------------------
(***************************************************************************)
(* How a node reaches a peer it has no address of: the cache of endpoints  *)
(* (norn_endpoint_cache.c), the requests it tracks (norn_transaction.c),   *)
(* a dial by public key with its hole punch (norn_session.c,               *)
(* norn_rendezvous.c, norn_impl.c), the rendezvous and relay it offers to  *)
(* others (norn_rendezvous.c, norn_relay.c), and the votes on its own      *)
(* public address (net.c).                                                 *)
(*                                                                         *)
(* Time is a counter.  An endpoint is known by its capabilities; a packet  *)
(* by the fields its receiver looks at (no signature is checked), and any  *)
(* may come in at any time.  A dial's ephemeral key is the number of the   *)
(* dial: it is drawn anew for each.  What answers a resolve request is no  *)
(* part of this code; that a relay is enabled is left to its user.         *)
(***************************************************************************)
EXTENDS Naturals, SequencesExt

CONSTANTS
  Pubkey, Self,
  Caps,                        \* capabilities an endpoint may have, each a set
  Endpoint,                    \* public endpoints observers may report
  NORN_ENDPOINT_CACHE_SIZE, TTL,
  NORN_MAX_TRANSACTIONS, NORN_TRANSACTION_TIMEOUT,
  HOLEPUNCH_PENDING,           \* entries of client->holepunch_pending (8)
  EXT_MAX_VOTES, EXT_CONFIRM_THRESHOLD,
  MaxDial, MaxClock, MaxMoves  \* bounds: dials, the clock, and other operations

ASSUME NatAssumption ==
  /\ Self \in Pubkey /\ Caps \subseteq SUBSET {"direct", "rendezvous", "relay"}
  /\ NORN_ENDPOINT_CACHE_SIZE \in Nat \ {0} /\ TTL \in Nat \ {0}
  /\ NORN_MAX_TRANSACTIONS \in Nat \ {0} /\ HOLEPUNCH_PENDING \in Nat \ {0}
  /\ EXT_MAX_VOTES \in Nat \ {0} /\ EXT_CONFIRM_THRESHOLD \in Nat \ {0}

VARIABLES
  clock,
  cache,      \* [slots, count]; a slot is {} or {[pubkey, caps, expires]}
  txn,        \* transactions[0..count-1]: the time each was created
  dials,      \* dials[1..]: [key, state, told]: told counts calls of the callback
  punch,      \* holepunch_pending: [dial, active]
  rv,         \* rendezvous: [target, initiator, responder] (have_...)
  circuits,   \* relay->sessions: their identifiers; none is ever active
  votes,      \* ext_votes: [ep, n]
  ext,        \* [valid, ep, mapped]
  since,      \* history: reports of an endpoint since the network last changed
  moves       \* operations so far, dials and ticks aside

natVars == <<clock, cache, txn, dials, punch, rv, circuits, votes, ext, since, moves>>
dialVars == <<txn, dials, punch>>
extVars == <<votes, ext, since>>

Moves == moves < MaxMoves /\ moves' = moves + 1

-----------------------------------------------------------------------------
(* The endpoint cache. *)

Entry(s) == CHOOSE e \in s : TRUE
Old(s) == s # {} /\ Entry(s).expires < clock
Holds(s, k) == s # {} /\ Entry(s).pubkey = k
CacheSlot == 1..NORN_ENDPOINT_CACHE_SIZE

\* norn_endpoint_cache_lookup: what has expired goes on the way to the entry looked for.
norn_endpoint_cache_lookup(c, k) ==
  LET hits == {i \in CacheSlot : Holds(c.slots[i], k) /\ ~Old(c.slots[i])}
      upto == IF hits = {} THEN CacheSlot ELSE 1..Min(hits)
      gone == {i \in upto : Old(c.slots[i])}
  IN  [found |-> {Entry(c.slots[i]) : i \in hits},
       cache |-> [slots |-> [i \in CacheSlot |-> IF i \in gone THEN {} ELSE c.slots[i]],
                  count |-> c.count - Cardinality(gone)]]

norn_endpoint_cache_expire(c) ==
  [slots |-> [i \in CacheSlot |-> IF Old(c.slots[i]) THEN {} ELSE c.slots[i]],
   count |-> c.count - Cardinality({i \in CacheSlot : Old(c.slots[i])})]

\* norn_endpoint_cache_store: over the key's entry, expired or not, or in the first free
\* slot; a cache that is full is expired first.
Stored(c, e) ==
  LET same == {i \in CacheSlot : Holds(c.slots[i], e.pubkey)}
      full == \A i \in CacheSlot : c.slots[i] # {}
      d == IF full THEN norn_endpoint_cache_expire(c) ELSE c
      room == {i \in CacheSlot : d.slots[i] = {}}
  IN  IF same # {} THEN [c EXCEPT !.slots[Min(same)] = {e}]
      ELSE IF room = {} THEN d
      ELSE [slots |-> [d.slots EXCEPT ![Min(room)] = {e}], count |-> d.count + 1]

norn_endpoint_cache_store(k, caps) ==
  /\ Moves
  /\ cache' = Stored(cache, [pubkey |-> k, caps |-> caps, expires |-> clock + TTL])
  /\ UNCHANGED <<clock, dialVars, rv, circuits, extVars>>

norn_endpoint_cache_remove(k) ==
  LET same == {i \in CacheSlot : Holds(cache.slots[i], k)}
  IN  /\ Moves /\ same # {}
      /\ cache' = [slots |-> [cache.slots EXCEPT ![Min(same)] = {}], count |-> cache.count - 1]
      /\ UNCHANGED <<clock, dialVars, rv, circuits, extVars>>

-----------------------------------------------------------------------------
(* Requests that are tracked.  Nothing completes one: it goes when it is old. *)

TxnRoom == Len(txn) < NORN_MAX_TRANSACTIONS

\* norn_transaction_new, by a get, a discover or the announce of an endpoint.
Track(op) ==
  /\ op \in {"get_mutable", "get_immutable", "discover", "announce_endpoint"}
  /\ Moves /\ TxnRoom
  /\ txn' = Append(txn, clock)
  /\ UNCHANGED <<clock, cache, dials, punch, rv, circuits, extVars>>

\* norn_tick, a second later: norn_transaction_expire keeps the others in order.
norn_tick ==
  /\ clock < MaxClock
  /\ clock' = clock + 1
  /\ txn' = SelectSeq(txn, LAMBDA t : clock + 1 - t <= NORN_TRANSACTION_TIMEOUT)
  /\ UNCHANGED <<cache, dials, punch, rv, circuits, extVars, moves>>

-----------------------------------------------------------------------------
(* A dial by public key. *)

Freed == "freed"
Ctx(k, state) == [key |-> k, state |-> state, told |-> 0]

\* The callback is called, and the context freed.
Answered(d) == [dials EXCEPT ![d].state = Freed, ![d].told = @ + 1]

\* norn_dial_async: a cached endpoint that can be reached is dialled directly, which
\* needs no context; otherwise resolve, or fail when no more requests can be tracked.
norn_dial_async(k) ==
  LET look == norn_endpoint_cache_lookup(cache, k)
      direct == \E e \in look.found : "direct" \in e.caps
  IN  /\ Len(dials) < MaxDial
      /\ cache' = look.cache
      /\ dials' = Append(dials, Ctx(k, IF direct \/ ~TxnRoom THEN Freed ELSE "resolving"))
      /\ txn' = IF direct \/ ~TxnRoom THEN txn ELSE Append(txn, clock)
      /\ UNCHANGED <<clock, punch, rv, circuits, extVars, moves>>

\* The request goes to the address the cache has of the endpoint, if it is public and the
\* send works; the dial is noted while there is room, and its answer not heard otherwise.
norn_send_holepunch_req_async(d, works) ==
  LET look == norn_endpoint_cache_lookup(cache, dials[d].key)
      sent == works /\ look.found # {}
  IN  [sent |-> sent, cache |-> look.cache,
       punch |-> IF sent /\ Len(punch) < HOLEPUNCH_PENDING
                 THEN Append(punch, [dial |-> d, active |-> TRUE]) ELSE punch]

\* on_endpoint_resolved: no endpoint; one dialled directly (the session layer has the
\* callback now), unless that fails; a hole punch through the endpoint, when the request
\* goes out; or the end, a relay being none yet.
on_endpoint_resolved(d, found, caps, works) ==
  LET dialled == found /\ "direct" \in caps /\ works
      punches == found /\ ~dialled /\ "rendezvous" \in caps
      req == norn_send_holepunch_req_async(d, works)
  IN  /\ dials[d].state = "resolving"
      /\ cache' = IF punches THEN req.cache ELSE cache
      /\ dials' = IF dialled THEN [dials EXCEPT ![d].state = Freed]
                  ELSE IF punches /\ req.sent THEN [dials EXCEPT ![d].state = "holepunch"]
                  ELSE Answered(d)
      /\ punch' = IF punches THEN req.punch ELSE punch
      /\ UNCHANGED <<clock, txn, rv, circuits, extVars, moves>>

\* The active entry a packet with ephemeral key e is for.
Waiting(e) == {i \in DOMAIN punch : punch[i].active /\ punch[i].dial = e}

\* Mutant of RecvHolepunchResp: the entry stays active.
RespKeepsEntry(e, address) ==
  LET d == punch[Min(Waiting(e))].dial
  IN  /\ Waiting(e) # {}
      /\ dials' = IF address THEN dials ELSE Answered(d)
      /\ UNCHANGED <<clock, cache, txn, punch, rv, circuits, extVars, moves>>

\* dispatch_response of a HOLEPUNCH_RESP, on_holepunch_response and norn_send_probes:
\* with an address the context waits for a probe; without one the dial has failed.
RecvHolepunchResp(e, address) ==
  LET i == Min(Waiting(e))
  IN  /\ Waiting(e) # {}
      /\ dials' = IF address THEN dials ELSE Answered(punch[i].dial)
      /\ punch' = [punch EXCEPT ![i].active = FALSE]
      /\ UNCHANGED <<clock, cache, txn, rv, circuits, extVars, moves>>

\* dispatch_response of a PROBE and norn_session_from_probe: a session, established.
RecvProbe(e) ==
  LET i == Min(Waiting(e))
  IN  /\ Waiting(e) # {}
      /\ punch' = [punch EXCEPT ![i].active = FALSE]
      /\ dials' = Answered(punch[i].dial)
      /\ UNCHANGED <<clock, cache, txn, rv, circuits, extVars, moves>>

-----------------------------------------------------------------------------
(* What the node does for others. *)

\* norn_rendezvous_handle_req: entries are kept under this node as initiator and the
\* target as responder, and looked for the other way round.
norn_rendezvous_handle_req(target) ==
  LET hits == {i \in DOMAIN rv : target = Self /\ rv[i].target = Self}
      fresh == [target |-> target, initiator |-> FALSE, responder |-> FALSE]
      tab == IF hits = {} THEN Append(rv, fresh) ELSE rv
      i == IF hits = {} THEN Len(tab) ELSE Min(hits)
      taken == IF target = Self THEN tab[i].responder ELSE tab[i].initiator
      met == IF target = Self THEN [tab EXCEPT ![i].responder = TRUE]
             ELSE [tab EXCEPT ![i].initiator = TRUE]
  IN  /\ Moves /\ ~taken
      /\ rv' = IF met[i].initiator /\ met[i].responder
               THEN Front([met EXCEPT ![i] = Last(met)]) ELSE met
      /\ UNCHANGED <<clock, cache, dialVars, circuits, extVars>>

\* norn_relay_handle_create of an enabled relay: norn_relay_find_session sees active
\* sessions only, and RELAY_ACCEPT, which would make one so, is not handled.
norn_relay_handle_create(id) ==
  /\ Moves
  /\ circuits' = Append(circuits, id)
  /\ UNCHANGED <<clock, cache, dialVars, rv, extVars>>

-----------------------------------------------------------------------------
(* The node's own address. *)

Voted(e) ==
  LET hits == {i \in DOMAIN votes : votes[i].ep = e}
  IN  IF hits # {} THEN [votes EXCEPT ![Min(hits)].n = @ + 1]
      ELSE IF Len(votes) < EXT_MAX_VOTES THEN Append(votes, [ep |-> e, n |-> 1]) ELSE votes

\* The first of the most-voted.
Leading(v) == v[Min({i \in DOMAIN v : \A j \in DOMAIN v : v[j].n <= v[i].n})]

\* net_update_external_ip; a mapping of the router's makes reports moot.
net_update_external_ip(e) ==
  /\ Moves
  /\ votes' = IF ext.mapped THEN votes ELSE Voted(e)
  /\ ext' = IF ~ext.mapped /\ Leading(votes').n >= EXT_CONFIRM_THRESHOLD
            THEN [ext EXCEPT !.valid = TRUE, !.ep = Leading(votes').ep] ELSE ext
  /\ since' = [since EXCEPT ![e] = @ + 1]
  /\ UNCHANGED <<clock, cache, dialVars, rv, circuits>>

net_set_mapped_endpoint(e) ==
  /\ Moves
  /\ ext' = [valid |-> TRUE, ep |-> e, mapped |-> TRUE]
  /\ UNCHANGED <<clock, cache, dialVars, rv, circuits, votes, since>>

\* Mutant of net_reset_external: the votes stay.
ResetKeepsVotes ==
  /\ Moves
  /\ ext' = [ext EXCEPT !.valid = FALSE]
  /\ since' = [e \in Endpoint |-> 0]
  /\ UNCHANGED <<clock, cache, dialVars, rv, circuits, votes>>

\* net_reset_external, on a change of network; mapped stays as it is.
net_reset_external ==
  /\ Moves
  /\ votes' = <<>>
  /\ ext' = [ext EXCEPT !.valid = FALSE]
  /\ since' = [e \in Endpoint |-> 0]
  /\ UNCHANGED <<clock, cache, dialVars, rv, circuits>>

-----------------------------------------------------------------------------

NatInit ==
  /\ clock = 0 /\ moves = 0
  /\ cache = [slots |-> [i \in CacheSlot |-> {}], count |-> 0]
  /\ txn = <<>> /\ dials = <<>> /\ punch = <<>> /\ rv = <<>> /\ circuits = <<>> /\ votes = <<>>
  /\ ext = [valid |-> FALSE, ep |-> CHOOSE e \in Endpoint : TRUE, mapped |-> FALSE]
  /\ since = [e \in Endpoint |-> 0]

NatNext ==
  \/ \E k \in Pubkey :
       \/ norn_endpoint_cache_remove(k) \/ norn_dial_async(k) \/ norn_rendezvous_handle_req(k)
       \/ \E caps \in Caps : norn_endpoint_cache_store(k, caps)
  \/ Track("discover") \/ norn_tick \/ net_reset_external \/ norn_relay_handle_create("id")
  \/ \E d \in DOMAIN dials :
       \/ \E found, works \in BOOLEAN, caps \in Caps : on_endpoint_resolved(d, found, caps, works)
       \/ \E address \in BOOLEAN : RecvHolepunchResp(d, address)
       \/ RecvProbe(d)
  \/ \E e \in Endpoint : net_update_external_ip(e) \/ net_set_mapped_endpoint(e)

NatSpec == NatInit /\ [][NatNext]_natVars

-----------------------------------------------------------------------------
(* Properties. *)

\* A dial's callback is called at most once, and its context, once freed, is out of
\* every packet's reach: responses and probes may come twice, late, or both.
ToldOnce ==
  /\ \A d \in DOMAIN dials : dials[d].told <= 1
  /\ \A i \in DOMAIN punch : punch[i].active => dials[punch[i].dial].state # Freed

\* An address the node goes by, unless its router mapped it, was reported often enough
\* since the network last changed.
EndpointCorroborated ==
  (ext.valid /\ ~ext.mapped) => since[ext.ep] >= EXT_CONFIRM_THRESHOLD

\* Formulas that do not hold of the code: the README says why.
DialHeard == \A d \in DOMAIN dials : dials[d].state = "holepunch" => Waiting(d) # {}
CircuitsDistinct == \A i, j \in DOMAIN circuits : circuits[i] = circuits[j] => i = j
RelearnsAddress == \A e \in Endpoint : since[e] >= EXT_CONFIRM_THRESHOLD => ext.valid
OneRequestPerTarget == \A i, j \in DOMAIN rv : rv[i].target = rv[j].target => i = j
=============================================================================
