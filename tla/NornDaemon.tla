----------------------------- MODULE NornDaemon -----------------------------
(***************************************************************************)
(* nornd's event loop (nornd/main.c), its tables of local keys, published  *)
(* records and records to publish (localstore.c, publog.c, pubqueue.c),    *)
(* and the processes of the command line that ask it (norn.c,              *)
(* cli_cluster.c), each over a Unix socket of its own.                     *)
(*                                                                         *)
(* The loop polls, does its periodic work, accepts one connection and      *)
(* serves the clients, in that order; processes run in between at their    *)
(* own pace and may be killed at any time, and so may the daemon.          *)
(* Descriptors are numbers the kernel gives out again, lowest first.  A    *)
(* client is served by a recv that blocks until its process has written or *)
(* closed.  A request is what its process asks for; a reply names the      *)
(* process it answers.                                                     *)
(***************************************************************************)
EXTENDS Naturals, SequencesExt

CONSTANTS
  Workloads,              \* sequences of commands, each run by a process of its own
  Watched,                \* keys of the cluster's store
  Held,                   \* targets of the records the DHT store holds at the start
  None,
  MAX_CLIENTS,
  PUBQUEUE_MAX,
  PUBLOG_MAX,
  LOCALSTORE_MAX_ENTRIES,
  MaxEvents,              \* bound: changes the cluster applies
  MaxCrashes              \* bound: ends of the daemon, orderly or not

ASSUME DaemonAssumption ==
  /\ MAX_CLIENTS \in Nat \ {0} /\ PUBQUEUE_MAX \in Nat \ {0}
  /\ PUBLOG_MAX \in Nat \ {0} /\ LOCALSTORE_MAX_ENTRIES \in Nat \ {0}
  /\ MaxEvents \in Nat /\ MaxCrashes \in Nat
  /\ None \notin Watched /\ None \notin Nat
  /\ \A w \in Workloads : None \notin DOMAIN w

VARIABLES
  cli,        \* cli[p]: [pc, cmd, unread, got, rc]: what process p is at
  backlog,    \* connections not accepted yet
  fds,        \* fds[d]: the process at the other end of descriptor d, or None
  clients,    \* clients[0..nclients-1], from 1
  loop,       \* [pc, i, ready]: where the loop is, and the results of its poll
  subs,       \* the set of watches.subs: [fd, prefix]; each descriptor has at most one
  tables,     \* [lstore, publog, pubqueue, held, keyfile]
  disk,       \* the publish log in the file dht_store
  issued,     \* publishes accepted so far; they are numbered
  handed,     \* history: numbers of the publishes handed to norn_put_*, in that order
  queried,    \* history: those of them that put queries went out for
  events,     \* changes applied so far
  crashes     \* ends of the daemon so far

daemonVars == <<cli, backlog, fds, clients, loop, subs, tables, disk, issued, handed, queried, events, crashes>>

Proc == DOMAIN cli
Fd == 1..(MAX_CLIENTS + 1)

-----------------------------------------------------------------------------
(* Commands of the norn tool: the operation asked for, its key and value,    *)
(* and what the reply must carry for the process to exit with 0.             *)

Asks(op, key, val, want) == [op |-> op, key |-> key, val |-> val, want |-> want]

\* Each round trip connects, writes its request and reads one frame (Connect, Write and
\* Exit below); they differ in what they send.
ipc_round_trip(op, want) == Asks(op, None, None, want)
ipc_round_trip_key(op, key, want) == Asks(op, key, None, want)
ipc_round_trip_kv(op, key, val) == Asks(op, key, val, "any")
ipc_round_trip_kv_bin(op, key, val, want) == Asks(op, key, val, want)
ipc_round_trip_kv_expect(op, key, val) == Asks(op, key, val, "any")

do_node_public == ipc_round_trip("node-public", "pubkey")
do_node_secret == ipc_round_trip("node-secret", "secret")
do_node_id == ipc_round_trip("node-id", "id")
do_node_status == ipc_round_trip("node-stats", "any")
do_peer_list == ipc_round_trip("peer-list", "any")
do_bep44_list == ipc_round_trip("bep44-list", "any")
do_peer_public(id) == ipc_round_trip_key("peer-public", id, "pubkey")
do_keygen == ipc_round_trip_kv_bin("node-keygen", None, None, "pubkey")
do_node_set(k, v) == ipc_round_trip_kv("node-set", k, v)
do_set(name, v) == ipc_round_trip_kv_bin("bep44-set", name, v, "target")
do_put_immutable(v) == ipc_round_trip_kv_bin("bep44-put", None, v, "target")
do_get(id, name) == ipc_round_trip_kv_bin("bep44-get", id, name, "any")
do_get_immutable(t) == ipc_round_trip_key("bep44-get-immutable", t, "any")
do_bep44_del(t) == ipc_round_trip_key("bep44-del", t, "any")
do_peer(spec, verb) == ipc_round_trip_kv_expect("peer-fetch", spec, verb)
cluster_watch(prefix) == Asks("watch", prefix, None, "any")
cluster_put(k) == Asks("put", k, None, "any")

\* Some other program writes what nornd_ipc_decode_req does not take.
Garbled == Asks("garbled", None, None, "any")

-----------------------------------------------------------------------------
(* The tables.  A slot is None or the record of its entry. *)

Slots(n) == [i \in 1..n |-> None]
Used(tab) == {i \in DOMAIN tab : tab[i] # None}
FreeSlots(tab) == DOMAIN tab \ Used(tab)

\* The slot the i-th used entry is in; None past the last.
Nth(tab, i) ==
  LET S == {j \in Used(tab) : Cardinality({k \in Used(tab) : k <= j}) = i}
  IN  IF S = {} THEN None ELSE Min(S)

\* localstore_put: replace the key's entry or take a free slot; [ok, tab].
localstore_put(tab, k, v) ==
  LET same == {i \in Used(tab) : tab[i].key = k}
      slots == IF same # {} THEN same ELSE FreeSlots(tab)
  IN  IF slots = {} THEN [ok |-> FALSE, tab |-> tab]
      ELSE [ok |-> TRUE, tab |-> [tab EXCEPT ![Min(slots)] = [key |-> k, val |-> v]]]

\* Mutant of publog_add: a free slot is taken before the target is looked for.
LogAnew(tab, e) ==
  LET slots == IF FreeSlots(tab) # {} THEN FreeSlots(tab)
               ELSE {i \in Used(tab) : tab[i].target = e.target}
  IN  IF slots = {} THEN tab ELSE [tab EXCEPT ![Min(slots)] = e]

\* publog_add: no caller looks at its result, so a log that is full drops the entry.
publog_add(tab, e) ==
  LET same == {i \in Used(tab) : tab[i].target = e.target}
      slots == IF same # {} THEN same ELSE FreeSlots(tab)
  IN  IF slots = {} THEN tab ELSE [tab EXCEPT ![Min(slots)] = e]

\* pubqueue_add_mutable and pubqueue_add_immutable.
pubqueue_add(tab, n) == [tab EXCEPT ![Min(FreeSlots(tab))] = n]

\* Mutant of pubqueue_done: the i-th slot is freed, not the i-th entry.
FreeSlotNumber(tab, i) == [tab EXCEPT ![i] = None]

\* pubqueue_done(i).
pubqueue_done(tab, i) ==
  IF Nth(tab, i) = None THEN tab ELSE [tab EXCEPT ![Nth(tab, i)] = None]

\* The drain of one pass: i runs to the count at its start, and each pubqueue_done
\* shifts the entries behind it, so that every other one is passed over until the next
\* pass.  An entry is handed to norn_put_* and is done, whatever that returns.
Drain(tab) ==
  LET nq == Cardinality(Used(tab))
      After[i \in 0..nq] ==
        IF i = 0 THEN [tab |-> tab, out |-> <<>>]
        ELSE LET b == After[i - 1]
                 j == Nth(b.tab, i)
             IN  IF j = None THEN b
                 ELSE [tab |-> pubqueue_done(b.tab, i), out |-> Append(b.out, b.tab[j])]
  IN  After[nq]

\* mainline_lookup_mutable asks nodes for their tokens while less than limit has
\* passed, and puts to those that gave one.
mainline_lookup_mutable(limit) == limit > 0

\* norn_put_mutable_salt and norn_put_immutable give it a limit of 0: of the publishes
\* out they send nothing.
norn_put(out) == IF mainline_lookup_mutable(0) THEN out ELSE <<>>

-----------------------------------------------------------------------------
(* serve_client's table of operations: the set of outcomes a command may     *)
(* have.  What the DHT, the routing table, the cluster or a file comes to is *)
(* either.                                                                   *)

Fails == [ok |-> FALSE, val |-> "error", tab |-> tables, pub |-> 0]
Answers(val) == [Fails EXCEPT !.ok = TRUE, !.val = val]
Perhaps(val) == {Fails, Answers(val)}

Mutable(name) == <<"self", name>>
Immutable(v) == <<"hash", v>>

\* An entry of the log is not an empty slot.
ASSUME EntryAssumption ==
  \A w \in Workloads : \A p \in DOMAIN w :
    /\ None \notin [target : {Mutable(w[p].key)}, n : Nat]
    /\ None \notin [target : {Immutable(w[p].val)}, n : Nat]
    /\ None \notin [target : {w[p].key}, n : Nat]

\* Which numbers of publishes the log has for target t.
Logged(t) == {tables.publog[i].n : i \in {j \in Used(tables.publog) : tables.publog[j].target = t}}

node_keygen ==
  IF tables.keyfile THEN {Fails}
  ELSE {Fails, [Answers("pubkey") EXCEPT !.tab.keyfile = TRUE]}

node_set(k, v) ==
  LET put == localstore_put(tables.lstore, k, v)
  IN  IF put.ok THEN {[Answers("any") EXCEPT !.tab.lstore = put.tab]} ELSE {Fails}

\* bep44-set and bep44-put: queue the publish and log it; refused when the queue is full.
Publish(target) ==
  IF FreeSlots(tables.pubqueue) = {} THEN {Fails}
  ELSE {[Answers("target") EXCEPT
          !.tab.pubqueue = pubqueue_add(@, issued + 1),
          !.tab.publog = publog_add(@, [target |-> target, n |-> issued + 1]),
          !.pub = issued + 1]}

bep44_set(name) == Publish(Mutable(name))
bep44_put(v) == Publish(Immutable(v))

\* publog-add, which no command of the tool asks for: a record published elsewhere.
log_only(target) ==
  {[Answers("any") EXCEPT !.tab.publog = publog_add(@, [target |-> target, n |-> 0])]}

\* The own node's key is known, another's only when the routing table has it.
peer_public(id) == IF id = "self" THEN {Answers("pubkey")} ELSE Perhaps("pubkey")

\* The log and the store are asked before the DHT, for a record of a key that is known.
bep44_get(id, name) ==
  IF Logged(<<id, name>>) # {} \/ <<id, name>> \in tables.held
  THEN {Answers("value")} \cup (IF id = "self" THEN {} ELSE {Fails})
  ELSE Perhaps("value")

bep44_get_immutable(t) ==
  IF t \in tables.held \/ Logged(t) # {} THEN {Answers("value")} ELSE Perhaps("value")

bep44_del(t) ==
  IF t \in tables.held THEN {[Answers("any") EXCEPT !.tab.held = @ \ {t}]} ELSE {Fails}

\* These read tables and answer, whatever is in them.
ping == {Answers("any")}
node_public == {Answers("pubkey")}
node_secret == {Answers("secret")}
node_id == {Answers("id")}
node_stats == {Answers("any")}
peer_list == {Answers("any")}
bep44_list == {Answers("any")}

\* The fetch itself is in NornServe, the cluster in NornCluster.
peer_fetch == Perhaps("value")
cluster_op(op) == IF op = "watch" THEN {Answers("any")} ELSE Perhaps("value")

dispatch(c) ==
  CASE c.op = "node-keygen" -> node_keygen
    [] c.op = "node-set" -> node_set(c.key, c.val)
    [] c.op = "bep44-set" -> bep44_set(c.key)
    [] c.op = "bep44-put" -> bep44_put(c.val)
    [] c.op = "publog-add" -> log_only(c.key)
    [] c.op = "peer-public" -> peer_public(c.key)
    [] c.op = "bep44-get" -> bep44_get(c.key, c.val)
    [] c.op = "bep44-get-immutable" -> bep44_get_immutable(c.key)
    [] c.op = "bep44-del" -> bep44_del(c.key)
    [] c.op = "ping" -> ping
    [] c.op = "node-public" -> node_public
    [] c.op = "node-secret" -> node_secret
    [] c.op = "node-id" -> node_id
    [] c.op = "node-stats" -> node_stats
    [] c.op = "peer-list" -> peer_list
    [] c.op = "bep44-list" -> bep44_list
    [] c.op = "peer-fetch" -> peer_fetch
    [] OTHER -> cluster_op(c.op)

-----------------------------------------------------------------------------
(* Watches. *)

Matches(prefix, key) == prefix \in {None, key}

\* Mutant of watch_drop: the subscriptions of a closed descriptor stay.
KeepWatch(d) == subs

watch_drop(d) == {s \in subs : s.fd # d}

watch_add(d, prefix) ==
  LET others == watch_drop(d)
  IN  IF Cardinality(others) >= MAX_CLIENTS THEN others
      ELSE others \cup {[fd |-> d, prefix |-> prefix]}

Alive(p) == cli[p].pc \in {"open", "asked"}

\* on_kv_change: an event to whoever is at the other end of a matching descriptor.
Told(k) ==
  {p \in Proc : /\ Alive(p)
                /\ \E s \in subs : fds[s.fd] = p /\ Matches(s.prefix, k)}

Event(k) == [kind |-> "event", of |-> k, ok |-> TRUE, val |-> "event"]
Reply(p, o) == [kind |-> "reply", of |-> p, ok |-> o.ok, val |-> o.val]

-----------------------------------------------------------------------------
(* Processes. *)

Connect(p) ==
  /\ cli[p].pc = "idle"
  /\ cli' = [cli EXCEPT ![p].pc = "open"]
  /\ backlog' = Append(backlog, p)
  /\ UNCHANGED <<fds, clients, loop, subs, tables, disk, issued, handed, queried, events, crashes>>

\* The request goes out in one write.
Write(p) ==
  /\ cli[p].pc = "open"
  /\ cli' = [cli EXCEPT ![p].pc = "asked", ![p].unread = TRUE]
  /\ UNCHANGED <<backlog, fds, clients, loop, subs, tables, disk, issued, handed, queried, events, crashes>>

\* Every round trip but a watch takes the first frame for its reply and closes; the
\* exit status is 0 when that frame says ok and carries what is wanted.
Exit(p) ==
  /\ cli[p].pc = "asked" /\ cli[p].got # <<>> /\ cli[p].cmd.op # "watch"
  /\ cli' = [cli EXCEPT ![p].pc = "closed",
                        ![p].rc = IF cli[p].got[1].ok /\ cli[p].cmd.want \in {"any", cli[p].got[1].val}
                                  THEN 0 ELSE 1]
  /\ UNCHANGED <<backlog, fds, clients, loop, subs, tables, disk, issued, handed, queried, events, crashes>>

Kill(p) ==
  /\ Alive(p)
  /\ cli' = [cli EXCEPT ![p].pc = "closed"]
  /\ UNCHANGED <<backlog, fds, clients, loop, subs, tables, disk, issued, handed, queried, events, crashes>>

-----------------------------------------------------------------------------
(* The loop. *)

\* recv returns at once.
Readable(p) == cli[p].unread \/ cli[p].pc = "closed"

\* The next position the poll reported, from i on.
Scan(i, ready, n) ==
  LET S == {j \in i..n : ready[j]}
  IN  IF S = {} THEN [pc |-> "poll", i |-> 0, ready |-> <<>>]
      ELSE [pc |-> "serve", i |-> Min(S), ready |-> ready]

\* One pass up to the loop over the clients: poll; the ticks, in which the cluster may
\* apply a change (of key k); the drain of the publish queue; now and then a save; one
\* accept.  Processes only add to what poll found, so that this is one step.  The result
\* of the position a new client gets was not written by this poll.
Pass(k, save, garbage) ==
  LET drained == Drain(tables.pubqueue)
      polled == [i \in DOMAIN clients |-> Readable(fds[clients[i]])]
      d == Min({e \in Fd : fds[e] = None})
      p == Head(backlog)
  IN  /\ loop.pc = "poll"
      /\ tables' = [tables EXCEPT !.pubqueue = drained.tab]
      /\ handed' = handed \o drained.out
      /\ queried' = queried \o norn_put(drained.out)
      /\ disk' = IF save THEN [publog |-> tables.publog, held |-> tables.held] ELSE disk
      /\ events' = IF k = None THEN events ELSE events + 1
      /\ events' <= MaxEvents
      /\ LET told == [q \in Proc |-> IF k # None /\ q \in Told(k)
                                     THEN [cli[q] EXCEPT !.got = Append(@, Event(k))] ELSE cli[q]]
         IN  \/ /\ backlog = <<>>
                /\ cli' = told
                /\ loop' = Scan(1, polled, Len(clients))
                /\ UNCHANGED <<backlog, fds, clients>>
             \/ /\ backlog # <<>> /\ Len(clients) < MAX_CLIENTS
                /\ backlog' = Tail(backlog)
                /\ fds' = [fds EXCEPT ![d] = p]
                /\ clients' = Append(clients, d)
                /\ cli' = told
                /\ loop' = Scan(1, Append(polled, garbage), Len(clients) + 1)
             \/ /\ backlog # <<>> /\ Len(clients) = MAX_CLIENTS
                /\ backlog' = Tail(backlog)
                /\ cli' = [told EXCEPT ![p].pc = IF Alive(p) THEN "cut" ELSE @]
                /\ loop' = Scan(1, polled, Len(clients))
                /\ UNCHANGED <<fds, clients>>
      /\ UNCHANGED <<subs, issued, crashes>>

\* The client at position i is dropped; the last takes its place, and is served by the
\* result poll had for position i.
Drop(i, c) ==
  LET rest == Front([clients EXCEPT ![i] = Last(clients)])
      p == fds[clients[i]]
  IN  /\ subs' = watch_drop(clients[i])
      /\ fds' = [fds EXCEPT ![clients[i]] = None]
      /\ clients' = rest
      /\ cli' = [c EXCEPT ![p].pc = IF Alive(p) THEN "cut" ELSE @]
      /\ loop' = Scan(i, loop.ready, Len(rest))

\* serve_client returns 0, or -1 when the peer is gone or wrote what is no request.  A
\* command of a process that is gone is carried out all the same.
serve_client(i) ==
  LET d == clients[i]
      p == fds[d]
      read == [cli EXCEPT ![p].unread = FALSE]
  IN  /\ loop.pc = "serve" /\ loop.i = i /\ Readable(p)
      /\ \/ /\ ~cli[p].unread \/ cli[p].cmd.op = "garbled"
            /\ Drop(i, read)
            /\ UNCHANGED <<tables, issued>>
         \/ /\ cli[p].unread /\ cli[p].cmd.op # "garbled"
            /\ \E o \in dispatch(cli[p].cmd) :
                 /\ tables' = o.tab
                 /\ issued' = IF o.pub = 0 THEN issued ELSE o.pub
                 /\ \/ /\ ~Alive(p)
                       /\ Drop(i, read)
                    \/ /\ Alive(p)
                       /\ cli' = [read EXCEPT ![p].got = Append(@, Reply(p, o))]
                       /\ subs' = IF cli[p].cmd.op = "watch" THEN watch_add(d, cli[p].cmd.key) ELSE subs
                       /\ loop' = Scan(i + 1, loop.ready, Len(clients))
                       /\ UNCHANGED <<fds, clients>>
      /\ UNCHANGED <<backlog, disk, handed, queried, events, crashes>>

\* The daemon ends and starts again: on SIGTERM at the head of its loop, with a last
\* save, or killed anywhere.  The local keys and the queue are gone.
Restart(orderly) ==
  LET saved == IF orderly THEN [publog |-> tables.publog, held |-> tables.held] ELSE disk
  IN  /\ crashes < MaxCrashes /\ (orderly => loop.pc = "poll")
      /\ crashes' = crashes + 1
      /\ disk' = saved
      /\ tables' = [tables EXCEPT !.lstore = Slots(LOCALSTORE_MAX_ENTRIES),
                                  !.pubqueue = Slots(PUBQUEUE_MAX),
                                  !.publog = saved.publog, !.held = saved.held]
      /\ cli' = [p \in Proc |-> IF Alive(p) THEN [cli[p] EXCEPT !.pc = "cut", !.unread = FALSE]
                                ELSE [cli[p] EXCEPT !.unread = FALSE]]
      /\ backlog' = <<>> /\ clients' = <<>> /\ subs' = {}
      /\ fds' = [d \in Fd |-> None]
      /\ loop' = [pc |-> "poll", i |-> 0, ready |-> <<>>]
      /\ UNCHANGED <<issued, handed, queried, events>>

DaemonInit ==
  /\ \E w \in Workloads :
       cli = [p \in DOMAIN w |-> [pc |-> "idle", cmd |-> w[p], unread |-> FALSE, got |-> <<>>, rc |-> None]]
  /\ backlog = <<>> /\ clients = <<>> /\ subs = {}
  /\ fds = [d \in Fd |-> None]
  /\ loop = [pc |-> "poll", i |-> 0, ready |-> <<>>]
  /\ tables = [lstore |-> Slots(LOCALSTORE_MAX_ENTRIES), publog |-> Slots(PUBLOG_MAX),
               pubqueue |-> Slots(PUBQUEUE_MAX), held |-> Held, keyfile |-> FALSE]
  /\ disk = [publog |-> Slots(PUBLOG_MAX), held |-> Held]
  /\ issued = 0 /\ handed = <<>> /\ queried = <<>> /\ events = 0 /\ crashes = 0

DaemonNext ==
  \/ \E p \in Proc : Connect(p) \/ Write(p) \/ Exit(p) \/ Kill(p)
  \/ \E k \in Watched \cup {None}, save, garbage \in BOOLEAN : Pass(k, save, garbage)
  \/ \E i \in DOMAIN clients : serve_client(i)
  \/ \E orderly \in BOOLEAN : Restart(orderly)

DaemonSpec == DaemonInit /\ [][DaemonNext]_daemonVars

-----------------------------------------------------------------------------
(* Properties. *)

\* What a process reads is for it, though descriptors are used again and the last
\* client takes the place of one that is dropped: first the reply to its own request,
\* then, if that was a watch, events of keys under its prefix.
OwnFrames ==
  \A p \in Proc : \A i \in DOMAIN cli[p].got :
    LET f == cli[p].got[i]
    IN  IF i = 1 THEN f.kind = "reply" /\ f.of = p
        ELSE f.kind = "event" /\ cli[p].cmd.op = "watch" /\ Matches(cli[p].cmd.key, f.of)

\* A publish whose process was told ok is handed to norn_put_* at most once, though the
\* queue is walked while entries leave it and their slots are taken again; until then it
\* is in the queue, and only an end of the daemon takes it from there (main.c:1241).
DrainedOnce ==
  LET queued(n) == {i \in Used(tables.pubqueue) : tables.pubqueue[i] = n}
      times(n) == {i \in DOMAIN handed : handed[i] = n}
  IN  \A n \in 1..issued :
        /\ Cardinality(queued(n)) + Cardinality(times(n)) <= 1
        /\ crashes = 0 => Cardinality(queued(n)) + Cardinality(times(n)) = 1

\* The drain sends DHT put queries for each entry it takes from the queue (main.c:1237).
PutToDht == \A i \in DOMAIN handed : Contains(queried, handed[i])

\* The log has one entry for a target, in memory and on disk, and every target on disk
\* is logged in memory: a save never runs ahead of the log, and a start takes it all up.
LogSound ==
  /\ \A log \in {tables.publog, disk.publog} : \A i, j \in Used(log) :
       log[i].target = log[j].target => i = j
  /\ \A i \in Used(disk.publog) : \E j \in Used(tables.publog) :
       tables.publog[j].target = disk.publog[i].target

\* A client is served only when its recv returns at once.
ServesOnlyReady ==
  loop.pc = "serve" => Readable(fds[clients[loop.i]])
=============================================================================
