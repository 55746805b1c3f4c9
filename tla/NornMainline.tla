---------------------------- MODULE NornMainline ----------------------------
(***************************************************************************)
(* A DHT node (libnorn/norn.c, dhtstore.c, and their use by nornd): the    *)
(* routing table with its admission rules, the queries it waits on, the    *)
(* write tokens it hands out, the peers and records others store at it,    *)
(* and what it saves and finds again after a restart.                      *)
(*                                                                         *)
(* Packets come from a set of senders, each with an identifier, an         *)
(* address, what it tells of itself, and whether it is read-only.  Tables  *)
(* are sequences in the order of the code's arrays: which entry a full     *)
(* table gives up depends on it.  A token stands for the keyed hash of an  *)
(* address and an epoch under the secret of one run of the daemon.         *)
(* Packets are well-formed, an address stands for address and port, and    *)
(* the node is not itself read-only.                                       *)
(***************************************************************************)
EXTENDS Integers, SequencesExt

CONSTANTS
  Self,       \* our own identifier
  Senders,    \* [id, ip, info, ro] of the other nodes; info is "none", "norn", "ours", "other"
  Ip,
  Subnet,     \* Subnet[ip]: the /24 of an address
  NoIp,       \* the source address of restored records
  InfoHash,
  Records,    \* [target, seq, len]: signed records that may be put; seq 0: immutable
  MAINLINE_MAX_NODES, MAINLINE_MAX_PER_SUBNET, MAINLINE_MAX_TRANSACTIONS,
  MAINLINE_TRANSACTION_TIMEOUT, MAINLINE_SERVE_HASHES, MAINLINE_SERVE_PEERS,
  TOKEN_EPOCH, DHTSTORE_PER_IP, DHTSTORE_MAX, DHTSTORE_TTL,
  g_budget,   \* bytes of records served; 0 unless dhtstore_init is called
  MaxAge,     \* max_age_secs of mainline_evict_stale
  SaveMax,    \* records of a kind dht_persist_save writes (128 in the code)
  MaxTime,    \* bound: the clock
  MaxSteps    \* bound: packets, calls and restarts

ASSUME MainlineAssumption ==
  /\ Senders \subseteq [id : STRING, ip : Ip, info : {"none", "norn", "ours", "other"}, ro : BOOLEAN]
  /\ NoIp \notin Ip
  /\ DOMAIN Subnet = Ip
  /\ \A r \in Records : r.seq \in Nat /\ r.len \in Nat \ {0}
  /\ MAINLINE_MAX_NODES \in Nat \ {0} /\ MAINLINE_MAX_PER_SUBNET \in Nat \ {0}
  /\ MAINLINE_SERVE_HASHES \in Nat \ {0} /\ MAINLINE_SERVE_PEERS \in Nat \ {0}
  /\ TOKEN_EPOCH \in Nat \ {0} /\ g_budget \in Nat /\ SaveMax \in Nat
  /\ DHTSTORE_MAX \in Nat \ {0} /\ DHTSTORE_TTL \in Nat
  /\ MaxTime \in Nat /\ MaxSteps \in Nat

VARIABLES
  now,           \* time(NULL)
  run,           \* runs of the daemon so far, each with its own token secret
  nodes,         \* the routing table: [id, ip, seen, norn, ours]
  transactions,  \* [id, created]
  next_tid,
  answers,       \* history: answers[t]: replies to query t that were processed
  served,        \* announced peers: [hash, peers], peers a sequence of [ip, at]
  items,         \* g_items: [target, seq, len, src, stored]
  g_bytes,
  granted,       \* history: the tokens handed out: [ip, epoch, run]
  disk,          \* the files of the last save: [nodes, items]
  steps

tableVars == <<nodes, transactions, next_tid, answers>>
storeVars == <<items, g_bytes>>
vars == <<now, run, tableVars, served, storeVars, granted, disk, steps>>

-----------------------------------------------------------------------------
(* The routing table. *)

\* is_preferred: the node runs norn, or our own application.
Preferred(n) == n.norn \/ n.ours

SwapRemove(s, i) == Front([s EXCEPT ![i] = Last(s)])

\* Mutant of Victim: preference is not looked at.
AnyVictim(t, I) ==
  LET oldest == {i \in I : \A j \in I : t[i].seen <= t[j].seen}
  IN  IF I = {} THEN 0 ELSE Min(oldest)

\* The oldest of the entries I that is not preferred, the first of equals; 0 if none.
Victim(t, I) ==
  LET free == {i \in I : ~Preferred(t[i])}
      oldest == {i \in free : \A j \in free : t[i].seen <= t[j].seen}
  IN  IF free = {} THEN 0 ELSE Min(oldest)

SameNet(t, ip) == {i \in DOMAIN t : Subnet[t[i].ip] = Subnet[ip]}

\* The entries one of which must leave for a newcomer at ip.
Crowd(t, ip) ==
  IF Cardinality(SameNet(t, ip)) >= MAINLINE_MAX_PER_SUBNET THEN SameNet(t, ip)
  ELSE IF Len(t) >= MAINLINE_MAX_NODES THEN DOMAIN t ELSE {}

mainline_add_node(t, id, ip) ==
  LET known == SelectInSeq(t, LAMBDA n : n.id = id)
      crowd == Crowd(t, ip)
      new == [id |-> id, ip |-> ip, seen |-> now, norn |-> FALSE, ours |-> FALSE]
  IN  IF id = Self THEN t
      ELSE IF known # 0 THEN [t EXCEPT ![known].ip = ip, ![known].seen = now]
      ELSE IF crowd = {} THEN Append(t, new)
      ELSE IF Victim(t, crowd) = 0 THEN t
      ELSE Append(SwapRemove(t, Victim(t, crowd)), new)

\* What a node said of itself before is kept, except the name of its application.
mainline_update_node_info(t, id, info) ==
  [i \in DOMAIN t |->
     IF t[i].id # id \/ info = "none" THEN t[i]
     ELSE [t[i] EXCEPT !.norn = @ \/ info = "norn",
                       !.ours = IF info = "norn" THEN @ ELSE info = "ours"]]

\* A packet's sender is learned unless it is read-only (BEP-43).
Learned(t, p) ==
  IF p.ro THEN t
  ELSE mainline_update_node_info(mainline_add_node(t, p.id, p.ip), p.id, p.info)

\* mainline_load_nodes: the nodes of the file are added one by one.
Rejoined(list) ==
  LET after[n \in 0..Len(list)] ==
        IF n = 0 THEN <<>> ELSE mainline_add_node(after[n - 1], list[n].id, list[n].ip)
  IN  after[Len(list)]

\* One turn of the loop of mainline_evict_stale, which moves what it keeps to the
\* front of the array it is reading.
Stale(n) == now - n.seen > MaxAge

EvictTurn(s, i) ==
  LET n == s.arr[i]
      others == \E j \in DOMAIN s.arr \ {i} : Stale(s.arr[j]) /\ ~Preferred(s.arr[j])
  IN  IF Stale(n) /\ (Preferred(n) => ~others) THEN s
      ELSE [arr |-> [s.arr EXCEPT ![s.kept + 1] = n], kept |-> s.kept + 1]

Evicted(t) ==
  LET after[n \in 0..Len(t)] ==
        IF n = 0 THEN [arr |-> t, kept |-> 0] ELSE EvictTurn(after[n - 1], n)
      end == after[Len(t)]
  IN  SubSeq(end.arr, 1, end.kept)

-----------------------------------------------------------------------------
(* Tokens and announced peers. *)

Epoch == now \div TOKEN_EPOCH

serve_token(ip) == [ip |-> ip, epoch |-> Epoch, run |-> run]

\* Mutant of serve_token_valid: the token is not bound to the address.
AnyonesToken(ip, tok) == tok.run = run /\ tok.epoch \in {Epoch, Epoch - 1}

serve_token_valid(ip, tok) == tok \in {[ip |-> ip, epoch |-> e, run |-> run] : e \in {Epoch, Epoch - 1}}

\* One entry's peers with ip: the first leaves when they are too many.
PeersWith(peers, ip) ==
  LET new == Append(peers, [ip |-> ip, at |-> now])
  IN  IF \E i \in DOMAIN peers : peers[i].ip = ip THEN peers
      ELSE IF Len(peers) < MAINLINE_SERVE_PEERS THEN new ELSE Tail(new)

serve_store_peer(hash, ip) ==
  LET known == SelectInSeq(served, LAMBDA e : e.hash = hash)
      first == [hash |-> hash, peers |-> PeersWith(<<>>, ip)]
  IN  IF known # 0 THEN [served EXCEPT ![known].peers = PeersWith(@, ip)]
      ELSE IF Len(served) < MAINLINE_SERVE_HASHES THEN Append(served, first)
      ELSE [served EXCEPT ![1] = first]

-----------------------------------------------------------------------------
(* The record store, dhtstore.c: a value [list, bytes]. *)

Total(list) ==
  LET sum[n \in 0..Len(list)] == IF n = 0 THEN 0 ELSE sum[n - 1] + list[n].len
  IN  sum[Len(list)]

remove_at(st, i) == [list |-> SwapRemove(st.list, i), bytes |-> st.bytes - st.list[i].len]

\* expire: a slot filled from the end is looked at again, so there are as many turns
\* as there were records.
ExpireTurn(s) ==
  IF now - s.st.list[s.i].stored > DHTSTORE_TTL THEN [st |-> remove_at(s.st, s.i), i |-> s.i]
  ELSE [st |-> s.st, i |-> s.i + 1]

expire(st) ==
  LET after[n \in 0..Len(st.list)] ==
        IF n = 0 THEN [st |-> st, i |-> 1] ELSE ExpireTurn(after[n - 1])
  IN  after[Len(st.list)].st

Oldest(list) == Min({i \in DOMAIN list : \A j \in DOMAIN list : list[i].stored <= list[j].stored})

\* evict_lru until there is room for len bytes.
ShrinkTurn(s, len) ==
  IF s.bytes + len <= g_budget /\ Len(s.list) < DHTSTORE_MAX THEN s
  ELSE remove_at(s, Oldest(s.list))

Shrunk(st, len) ==
  LET after[n \in 0..Len(st.list)] ==
        IF n = 0 THEN st ELSE ShrinkTurn(after[n - 1], len)
  IN  after[Len(st.list)]

PerIp(st, ip) == Cardinality({i \in DOMAIN st.list : st.list[i].src = ip})

Item(r, src) == [target |-> r.target, seq |-> r.seq, len |-> r.len, src |-> src, stored |-> now]

\* Mutant of Replaced: the old length is not taken off.
ReplacedUncounted(st, i, r, src) ==
  [list |-> [st.list EXCEPT ![i] = Item(r, src)], bytes |-> st.bytes + r.len]

\* store_item on a record that is held: an immutable one is refreshed, an older or
\* equal signed one refused.
Replaced(st, i, r, src) ==
  IF r.seq = 0 THEN [list |-> [st.list EXCEPT ![i].stored = now], bytes |-> st.bytes]
  ELSE IF r.seq <= st.list[i].seq THEN st
  ELSE [list |-> [st.list EXCEPT ![i] = Item(r, src)],
        bytes |-> st.bytes - st.list[i].len + r.len]

store_item(st0, r, src) ==
  LET st == expire(st0)
      known == SelectInSeq(st.list, LAMBDA e : e.target = r.target)
      room == Shrunk(st, r.len)
  IN  IF g_budget = 0 THEN st0
      ELSE IF known # 0 THEN Replaced(st, known, r, src)
      ELSE IF PerIp(st, src) >= DHTSTORE_PER_IP THEN st
      ELSE IF room.bytes + r.len > g_budget THEN room
      ELSE [list |-> Append(room.list, Item(r, src)), bytes |-> room.bytes + r.len]

\* dht_persist_load: the records of the file are stored, as nobody's.
Restored(list) ==
  LET after[n \in 0..Len(list)] ==
        IF n = 0 THEN [list |-> <<>>, bytes |-> 0] ELSE store_item(after[n - 1], list[n], NoIp)
  IN  after[Len(list)]

Store == [list |-> items, bytes |-> g_bytes]

SetStore(st) == items' = st.list /\ g_bytes' = st.bytes
-----------------------------------------------------------------------------
(* Steps.  Each packet is handled to its end by mainline_process_packet. *)

Init ==
  /\ now = 0 /\ run = 1 /\ steps = 0
  /\ nodes = <<>> /\ transactions = <<>> /\ next_tid = 1
  /\ answers = [t \in 1..MaxSteps |-> 0]
  /\ served = <<>> /\ items = <<>> /\ g_bytes = 0 /\ granted = {}
  /\ disk = [nodes |-> <<>>, items |-> <<>>]

Step == steps < MaxSteps /\ steps' = steps + 1

\* mainline_find_node, called by mainline_crawl_network and mainline_bootstrap: a
\* query that finds the table full is sent and not remembered.
FindNode ==
  /\ Step
  /\ transactions' = IF Len(transactions) < MAINLINE_MAX_TRANSACTIONS
                     THEN Append(transactions, [id |-> next_tid, created |-> now])
                     ELSE transactions
  /\ next_tid' = next_tid + 1
  /\ UNCHANGED <<now, run, nodes, answers, served, storeVars, granted, disk>>

\* Mutant of Consumed: the query stays open.
StillOpen(i) == transactions

Consumed(i) == RemoveAt(transactions, i)

\* The reply of p to query tid, with one contact: late, repeated and unasked replies
\* find no open query and are dropped.
RecvReply(p, tid, contact) ==
  LET open == SelectInSeq(transactions, LAMBDA x : x.id = tid)
  IN  /\ Step /\ tid < next_tid
      /\ open # 0
      /\ transactions' = Consumed(open)
      /\ nodes' = mainline_add_node(Learned(nodes, p), contact.id, contact.ip)
      /\ answers' = [answers EXCEPT ![tid] = @ + 1]
      /\ UNCHANGED <<now, run, next_tid, served, storeVars, granted, disk>>

\* ping and find_node: the sender is learned.
RecvPing(p) ==
  /\ Step
  /\ nodes' = Learned(nodes, p)
  /\ UNCHANGED <<now, run, transactions, next_tid, answers, served, storeVars, granted, disk>>

\* get_peers: the sender receives a token.
RecvGetPeers(p) ==
  /\ Step
  /\ nodes' = Learned(nodes, p)
  /\ granted' = granted \cup {serve_token(p.ip)}
  /\ UNCHANGED <<now, run, transactions, next_tid, answers, served, storeVars, disk>>

\* get: a token, and what has expired is dropped before the record is looked for.
RecvGet(p) ==
  /\ Step
  /\ nodes' = Learned(nodes, p)
  /\ granted' = granted \cup {serve_token(p.ip)}
  /\ SetStore(expire(Store))
  /\ UNCHANGED <<now, run, transactions, next_tid, answers, served, disk>>

RecvAnnounce(p, hash, tok) ==
  /\ Step
  /\ nodes' = Learned(nodes, p)
  /\ served' = IF serve_token_valid(p.ip, tok) THEN serve_store_peer(hash, p.ip) ELSE served
  /\ UNCHANGED <<now, run, transactions, next_tid, answers, storeVars, granted, disk>>

RecvPut(p, r, tok) ==
  /\ Step
  /\ nodes' = Learned(nodes, p)
  /\ SetStore(IF serve_token_valid(p.ip, tok) THEN store_item(Store, r, p.ip) ELSE Store)
  /\ UNCHANGED <<now, run, transactions, next_tid, answers, served, granted, disk>>

\* What is left of the queries, looked at from the first to the last.
Unexpired(list) ==
  LET kept[i \in 0..Len(list)] ==
        IF i = 0 THEN <<>>
        ELSE IF now - list[i].created > MAINLINE_TRANSACTION_TIMEOUT THEN kept[i - 1]
        ELSE Append(kept[i - 1], list[i])
  IN  kept[Len(list)]

\* mainline_process_transactions, on every tick of the daemon.
ExpireTransactions ==
  /\ transactions' = Unexpired(transactions)
  /\ transactions' # transactions
  /\ UNCHANGED <<now, run, nodes, next_tid, answers, served, storeVars, granted, disk, steps>>

mainline_evict_stale ==
  /\ Step
  /\ nodes' = Evicted(nodes)
  /\ UNCHANGED <<now, run, transactions, next_tid, answers, served, storeVars, granted, disk>>

DelRecord(i) ==
  /\ Step
  /\ SetStore(remove_at(Store, i))
  /\ UNCHANGED <<now, run, tableVars, served, granted, disk>>

\* The entries of a list at the places I, in their order.
At(list, I) ==
  LET upto[n \in 0..Len(list)] ==
        IF n = 0 THEN <<>>
        ELSE IF n \in I THEN Append(upto[n - 1], list[n]) ELSE upto[n - 1]
  IN  upto[Len(list)]

\* dhtstore_list: the first SaveMax records of a kind, expired ones included.
Listed(list, immutable) ==
  LET all == At(list, {i \in DOMAIN list : (list[i].seq = 0) = immutable})
  IN  SubSeq(all, 1, IF Len(all) < SaveMax THEN Len(all) ELSE SaveMax)

\* Reading the listed records back drops what has expired, if there are any to read.
AfterReading(st, list) == IF list = <<>> THEN st ELSE expire(st)

\* mainline_save_nodes and dht_persist_save, every 300 s and at the end: the nodes'
\* addresses, and the signed, then the immutable records.
Save ==
  LET signed == Listed(items, FALSE)
      st == AfterReading(Store, signed)
      fixed == Listed(st.list, TRUE)
      all == signed \o fixed
      fresh == {i \in DOMAIN all : now - all[i].stored <= DHTSTORE_TTL}
  IN  /\ Step
      /\ disk' = [nodes |-> nodes, items |-> At(all, fresh)]
      /\ SetStore(AfterReading(st, fixed))
      /\ UNCHANGED <<now, run, tableVars, served, granted>>

\* The daemon stops or crashes and starts again from the files of its last save
\* (mainline_load_nodes, dht_persist_load): what nodes said of themselves and where
\* records came from is not in them.
Restart ==
  /\ Step
  /\ run' = run + 1
  /\ nodes' = Rejoined(disk.nodes)
  /\ SetStore(Restored(disk.items))
  /\ transactions' = <<>> /\ served' = <<>>
  /\ UNCHANGED <<now, next_tid, answers, granted, disk>>

Tick ==
  /\ now < MaxTime
  /\ now' = now + 1
  /\ UNCHANGED <<run, tableVars, served, storeVars, granted, disk, steps>>

Next ==
  \/ FindNode
  \/ \E p \in Senders, tid \in 1..MaxSteps, contact \in Senders : RecvReply(p, tid, contact)
  \/ \E p \in Senders : RecvPing(p) \/ RecvGetPeers(p) \/ RecvGet(p)
  \/ \E p \in Senders, tok \in granted :
        \/ \E hash \in InfoHash : RecvAnnounce(p, hash, tok)
        \/ \E r \in Records : RecvPut(p, r, tok)
  \/ ExpireTransactions \/ mainline_evict_stale
  \/ \E i \in DOMAIN items : DelRecord(i)
  \/ Save \/ Restart \/ Tick

Spec == Init /\ [][Next]_vars

-----------------------------------------------------------------------------
(* Properties. *)

\* The tables stay within their bounds and hold nobody twice, whatever is learned,
\* evicted by moving the last entry, or loaded.
TypeOK ==
  /\ Len(nodes) <= MAINLINE_MAX_NODES /\ Len(transactions) <= MAINLINE_MAX_TRANSACTIONS
  /\ Len(served) <= MAINLINE_SERVE_HASHES /\ Len(items) <= DHTSTORE_MAX
  /\ \A i, j \in DOMAIN nodes : nodes[i].id = nodes[j].id => i = j
  /\ \A i, j \in DOMAIN items : items[i].target = items[j].target => i = j
  /\ \A i, j \in DOMAIN served : served[i].hash = served[j].hash => i = j
  /\ \A i \in DOMAIN served : Len(served[i].peers) \in 1..MAINLINE_SERVE_PEERS
  /\ \A i \in DOMAIN nodes : nodes[i].id # Self
  /\ g_bytes \in Nat

\* A preferred node leaves the table only when it is stale or the daemon restarts: no
\* newcomer, in a full subnet or a full table, takes its place (norn.c:97, norn.c:115).
PreferredStay ==
  [][\A i \in DOMAIN nodes :
       Preferred(nodes[i]) /\ run' = run /\ ~Stale(nodes[i])
         => \E j \in DOMAIN nodes' : nodes'[j].id = nodes[i].id]_vars

\* A query's answer is processed at most once, however often and late replies come
\* and whatever has become of the transaction table (norn.c:1349, BUG-013).
OneAnswerPerQuery == \A t \in DOMAIN answers : answers[t] <= 1

\* A peer is served at an address only if that address had asked this run of the
\* daemon for a token, in the epoch of its announce or the one before (norn.c:1197,
\* BUG-015).
PeersHadToken ==
  \A i \in DOMAIN served : \A j \in DOMAIN served[i].peers :
     LET p == served[i].peers[j]
     IN  \E t \in granted : /\ t.ip = p.ip /\ t.run = run
                            /\ p.at \div TOKEN_EPOCH - t.epoch \in 0..1

\* The byte count that evictions are decided by is the sum of what is held, through
\* replacement, expiry, eviction, deletion and restart (dhtstore.c:66, dhtstore.c:106).
BytesCounted == g_bytes = Total(items)

\* The records served stay within the budget the node was given: a new record makes
\* room for itself, or is refused (store_item).  A record replaced by a longer version
\* is not counted against it (dhtstore.c:106), so that the code does not satisfy this.
WithinBudget == g_bytes <= g_budget
=============================================================================
