# norn in TLA+

A specification of norn: its consensus core and replicated key-value store, the sessions
and streams its nodes talk over, the DHT node with its lookups and stores, the daemon with
its clients, transport and served values, hole punching, and the tunnel built on them; with
TLC runs on small instances and TLAPS proofs, for instances of any size, about consensus,
the store, claims, sessions, hole punching and the tables that must not forget.

Paths below are relative to the repository: `src/libnorn/...` is the library,
`src/nornd/...` the daemon.

## 1. Inventory

norn is a single-threaded C library (libnorn) with a daemon (nornd), a command line and a
tunnel. Nothing in libnorn runs concurrently with itself in one process; what interleaves
are the processes of different nodes and users, their messages, their timers and their
applications. A handler therefore is one atomic step of the models (the daemon's loop, whose
clients run on while it works, is split where it waits), and everything hard comes from the
order in which the handlers run, from what the network does to their messages, and from
tables that change while they are walked.

| part | state | operations | talks to | what is hard |
|---|---|---|---|---|
| Raft core `norn_raft.c` | term, vote, log, commit and applied index, role, election timer, PreVote flag, member table with next/match index and vote flags | `raft_recv` (4 messages), `raft_tick`, `raft_propose`, `raft_add_member`, `raft_remove_member`, `raft_promote`, `raft_set_eligible` | `raft_io_t.send` / `.apply` of the cluster facade | elections under loss, repetition and reordering; conflicts between logs; restarts (nothing is kept on disk); member tables changed locally; a log of 512 entries that is never compacted |
| KV state machine `norn_kvstore.c` | slot table, count, watch list | apply (put, del, cas), get, foreach, watch, snapshot, restore | applied by the facade; watches call the application | reuse of freed slots, count kept by hand, watches as the only source of change, restore that fails half way |
| Cluster facade `norn_cluster.c` | one raft_t, one kv, the published leader | kv put/del/cas, input of raft and forward frames, tick, member management | `norn_cluster_io_t.send`, nornd's transport | stale leader hints, forwards lost or dropped, replicas that lag |
| Daemon requests `nornd/dispatch.c`, `store.c`, `ipc.c` | none of their own | put, get, del, cas, list, members, status, watch | the facade | read-then-write across the commit of somebody else's write |
| Reliable stream `stream.c` | send window, pending bytes, acknowledgement and congestion state, one timer, reassembly slots, delivery buffer | write, read, finish, input, tick | datagrams of a session through `stream_send_fn` | loss, repetition, reordering; slots reused modulo the window; zero windows; the FIN |
| Stream multiplexer `streammux.c` | streams by number, per service | open, accept, write, finish, route | stream, session | numbers drawn at both ends, slots that are never given back |
| Sessions `norn_session.c`, `norn_session_udp.c`, `channel.c`, services of `norn_impl.c` | handshake state, keys, descriptor, services, streams; per client the shared socket, the listener, the list of sessions | dial, listen, three handshake messages, routing on the shared socket, close, free, streams of services | UDP, streams | datagrams late, twice or lost; addresses used again; no handshake message is sent again |
| Early data `channel.c`, `replaycache.c` | cached secrets, ring of nonces | build and accept a first flight | sessions | flights that come again |
| Cluster transport `nornd/transport.c`, `peers.c` | a dial and a stream per peer, inbound streams with a framer each | send, poll, dial, push | sessions, facade | partial writes, repeated dialling, reads larger than the framer |
| Daemon loop `nornd/main.c`, `pubqueue.c`, `publog.c`, `localstore.c` | client table, poll results, watches, publish queue and log, local keys | the poll loop and its table of operations | everything | tables changed while they are walked, descriptors used again, crashes |
| Served values `served*.c`, `peer_fetch.c`, `store.c` | exchanges, one fetch context on the stack | fetch, request, pump | sessions, streams | values written and read in pieces, short writes, sessions that outlive the call that dialled them |
| Command line `norn.c`, `cli_cluster.c` | none | one process per command, one round trip each | the daemon's socket | killed at any point |
| DHT node `norn.c`, `norn_impl.c`, `dhtstore.c`, `dht_persist.c` | routing table with last-seen times and preference, pending queries, token secret, announced peers, record store with its byte count, two files | `mainline_process_packet` (replies and five queries), `mainline_find_node`, `mainline_process_transactions`, `mainline_evict_stale`, `dhtstore_*`, save and load | UDP, nornd's timers | eviction at several limits from arrays that are reordered, late and repeated replies, tokens across epochs and restarts |
| DHT lookups `norn.c`, `norn_impl.c` | candidate list with tokens and query marks, results | `mainline_lookup_ex`, `mainline_lookup_mutable`, `mainline_resolve_node` | other nodes; the interface's put, get, announce, resolve | answers lost, late and out of order; stale contacts; time limits |
| Fetched records `recstore.c` | record table written through to a file | accept, mark private, save, load | lookups | failing saves, restarts, records marked too late |
| NAT traversal `norn_endpoint_cache.c`, `norn_transaction.c`, `norn_rendezvous.c`, `norn_relay.c`, `net.c` | endpoint cache, tracked requests, pending hole punches, rendezvous and relay tables, votes on the own address | dial by public key, punch, probe, rendezvous, relay, votes | UDP, sessions | answers twice and after the context is freed, reports from before a change of network |
| Stream forwarding `norn_forward.c`, `norn_forward_main.c` | connection table, a pump with two halves each | accept, dial, pump, close | sockets, sessions, streams | short writes, ends that come before the bytes, callbacks into the connection being pumped |
| Kademlia helpers `kademlia.c`, `norn_kad.c`, `bep44.c`; port mapping and local discovery; codecs and cryptography; socket transports; identity; Rust bindings | none, a table nothing uses, or files and sockets | | | not modelled: pure functions or I/O (section 5) |

How the modelled parts are put together:

```
 norn (processes) --unix socket--> nornd loop -- publish queue --> DHT lookups --> DHT nodes
                                      |     \-- served values, fetches
   single-owner claims                |                 |
            \                         |                 |
        norn_cluster.c -----------> transport.c --> sessions --> streams --> datagrams
            |        \                               /      \
     norn_raft.c     norn_kvstore.c        hole punching   tunnel (norn-forward)
```

The properties that make the parts correct: one leader per term and one vote per
voter and term; logs that agree wherever they share an entry; applied entries that
survive; one sequence of applied entries for all nodes; a table of slots that
behaves as a map; watchers that know what they watch; a compare-and-set nobody gets
in between; bytes that come out once, in order, and to the end; a routing table
nobody can push the preferred nodes out of; peers and records accepted only with a
token; lookups that find what is within their reach; two ends of a session that agree on
keys and streams whatever else arrives; processes that read only what is theirs; publishes
that are handed over once; values, frames and tunnelled bytes that arrive whole or not at all.

`PROJECT.json` lists every component, the modelled ones and the others with the
reason, and every hazard with its source line and the properties aimed at it.

## 2. Modules

| module | models | role |
|---|---|---|
| `NornRaft` | `norn_raft.c`, all of it | one action per arm of a handler, per timer event, per operation |
| `ReplicatedLog` | what `raft_io_t.apply` promises | abstract specification |
| `NornRaftProofs`, `NornRaftLogProofs`, `NornRaftSafetyProofs` | | theorems about `NornRaft`: types, votes and elections; logs; what is applied |
| `KVCommands` | `norn_kv_apply` as a function from map to map | shared by the two below |
| `KVMap` | `norn_kvstore.h`'s map | abstract specification |
| `NornKV` | `norn_kvstore.c`: slots, count, watches, snapshots | refines `KVMap` |
| `NornCluster` | `norn_cluster.c` submission and application, `dispatch.c` put and cas | composes the abstract log with `KVCommands` |
| `BytePipe` | what `stream.h` promises | abstract specification |
| `NornStream` | `stream.c` | refines `BytePipe` |
| `NornLookup` | the iterative lookups of `norn.c` and the calls of the interface that make them | one lookup after another against networks given by `Overlays` |
| `NornMainline` | `norn.c`'s server side and tables, `dhtstore.c`, `dht_persist.c` | a DHT node that receives packets, saves and restarts |
| `NornRecords` | `recstore.c` | the table, its file, failing saves, restarts |
| `NornEarly` | `channel.c`'s first flights, `replaycache.c` | early data that may come again |
| `NornSession` | `norn_session.c`, `channel.c`, `streammux.c`, services of `norn_impl.c` | clients, their sessions and the datagrams between them |
| `NornNat` | `norn_endpoint_cache.c`, `norn_transaction.c`, `norn_rendezvous.c`, `norn_relay.c`, dials by public key of `norn_session.c`, votes of `net.c` | one node and any packets |
| `NornDaemon` | `nornd/main.c` with its tables, `norn.c`, `cli_cluster.c` | the loop and the processes that ask it |
| `NornServe` | `peer_fetch.c`, `served*.c`, `store.c` | fetches and exchanges over a stream |
| `NornTransport` | `transport.c`, `peers.c` | sender and receiver of the cluster's frames |
| `NornForward` | `norn_forward.c`, `norn_forward_main.c` | the tunnel and its far ends |
| `MCNornDht`, `MCNornPeers`, `MCNornNode` | | several of the modules above in one run |
| `MCNornRaftLate` | | `NornRaft` on a schedule of four elections, to find what a late success does |
| `NornKVProofs`, `NornStreamProofs` | | theorems about the module of that name |
| `NornPeersProofs` | | theorems about `NornSession`, `NornNat` and `NornCluster` |
| `NornDhtProofs` | | theorems about `NornMainline`, `NornLookup`, `NornEarly` and `NornRecords` |
| `NornNodeProofs` | | theorems about `NornDaemon`, `NornServe`, `NornTransport` and `NornForward` |
| other `MC...` | | symmetry sets, views, networks, records, commands and calls for TLC |

`MCNornDht`, `MCNornPeers` and `MCNornNode` put components side by side: those of the DHT, those between nodes,
and those of one daemon. Their modules share no variable, so interleaving them would only
multiply states no property tells apart; a behaviour moves one part, chosen at the start in
`part`, and leaves the others where they began.

Operators introduced by a comment "Mutant of ..." are deliberately wrong versions
of the definition that follows them. No specification uses them; `PROJECT.json`
pairs each with the property that must fail when it takes the definition's place.

### NornRaft

Variables have the names of the fields of `raft_t` and `member_t`. `last_applied`
is `Len(applied[n])`, where `applied[n]` is the sequence handed to `io.apply`.
Time is reduced to the two comparisons the code makes: `heard[n]` is
`election_elapsed < election_base_ms` (the PreVote stickiness test), and the
election timeout may be over at any tick of a node that does not lead. Payloads are
members of `Command`. `votes` and `leaders` are history variables: every real vote
given and every election won.

`raft_recv` is split by the arms of its handlers: `HandlePreVote`,
`HandleRequestVote`, `VoteRespStepDown`, `VoteRespRecord`, `PreVoteWon`,
`ElectionWon`, `RejectAppend`, `MismatchAppend`, `AcceptAppend`,
`AppendRespStepDown`, `AppendRespSuccess`, `AppendRespBackOff`. `raft_recv` sets
the sender's vote flag before the handler decides whether the reply counts, and so
does the model (`Flagged`). `raft_tick` is `ElapseTick`, `LeaderTick` and
`ElectionTick` with the three outcomes of `start_election`. `raft_propose` is
`Propose`. Removal of the node itself from its own table is left out: the next
`raft_propose` on that node would dereference the missing member.

`msgs` is a set: sending may lose any of the messages, receiving may leave the
message in flight, and nothing orders receptions. At most `MaxInFlight` are in
flight; sending more loses the rest, so the bound only removes behaviours.

Four specifications share these actions:

* `Spec`: elections, replication, proposals, the network;
* `GateSpec`: also `raft_set_eligible` on the node itself;
* `ReconfSpec`: also `raft_add_member`, `raft_remove_member`, `raft_promote` at any
  time on any node;
* `OpsSpec`: also `Restart`, into the state of `raft_new`, as nornd does.

The runs use `Spec`; the theorems are about the others, each about the widest it holds for.

**Outlived replies.** The code never compares a reply's term with the round that
asked for it. `Outlived(m)` says in which of three ways a reply has outlived its
round, and `StaleReplies` names the ways the network may produce. This is an
assumption about the environment and it matters: with `"vote"` admitted, a term gets
two leaders (run `raft_stale_vote`). With `"prevote"` admitted and four voters, it
does too, since a late PreVote grant leaves its flag behind in the real round.
`"append"`, a success of an earlier term of the same leader, is harmless to elections and to
`LogMatching` (both proved with it), but not to what is committed: `raft_late_success`.
`raft_conflict`, which is about what is committed, therefore admits none.

### NornKV, KVCommands, KVMap

A table of `cap` slots searched from its start, `find` and `alloc_slot` as the code
has them, the count kept by hand, watches, and snapshot and restore. A prefix is the
set of keys it matches, and a damaged snapshot is given by how many of its records
still parse. `mirror` is what a watcher knows that listed its prefix once and then
only followed its events. `KVMap` is the same store as one function.

### NornCluster

Raft is the replicated log that `NornRaft` is checked against: a proposal is chosen
or lost, every node applies what is chosen in order and at its own pace. What
`raft_leader` reports may be anything at any time, several nodes may think they lead.
`kv_submit` proposes, forwards or fails; `RecvForward` drops a forward on a node that
does not lead, as `norn_cluster_input` does. Two users: claims of a key through
`norn_cluster_kv_cas` (`ClaimSpec`), and nornd's `put` and `cas` requests (`IpcSpec`).
The application protocol of `Claim` and `Release` is the use `norn_cluster.h` names for
`cas`, single-owner claims: claim when the replica shows the key free, release by a `cas`
from one's own name, and count as owner until one's release is submitted.

### NornStream, BytePipe

Two ends, each with a send and a receive side. Byte i of a direction is the number i
and a segment is a range of bytes, so that order, loss and repetition are visible in
`got`. `pump_send`, `retransmit_range`, `fast_retransmit`, `apply_sack`, `on_ack`,
`cc_on_ack`, `cc_on_loss` and the delivery loop are operators of their own;
`Input` is `stream_input` as a whole: window, SACK, acknowledgement, buffering,
delivery, reply. The timer is only on or off. Where `ClockRuns`, a running timer may be due at
any tick; where it does not, none ever is, which is what the session layer makes of it: it
gives the stream the time 0 at every call. Sequence numbers do not wrap.

### NornLookup

An identifier is its XOR distance to the target, a token the address that issued it, a
record its sequence number. `Overlays` gives the networks a lookup may meet: the own
routing table, who answers at which address, what every node knows and holds. The three
functions of the code differ in what they ask and in what ends them, and are one module:
`mainline_lookup_ex`, `mainline_lookup_mutable` and `mainline_resolve_node` begin, then
`Query` (a round of at most `LOOK_ALPHA` queries), `Receive`, `Idle` (the window of `select`
passes), `Expire`, `Finish` with its announces or puts. The calls of the interface are the
same with the time limit they pass: 0 for those meant to go on in the background. `get`
keeps the value that came last, as `mainline_lookup_mutable` does with `value_out`; `fetch`
is the same call without `value_out`, whose records go through `recstore_accept`; `iget` and
`ifetch` are the ones for immutable records. A lookup blocks its process, so the routing
table stands still under it.

### NornMainline

Tables are sequences in the order of the code's arrays, removal moves the last entry
into the gap, and ties go to the first, because which entry a full table gives up depends
on it. `mainline_process_packet` is one action per kind of packet; each learns its sender
first unless it is read-only. A token is the triple the keyed hash is taken over: address,
epoch, and the run of the daemon that drew the secret. `Restart` may happen at any step
and finds the files of the last `Save`. `mainline_evict_stale` compacts the array it is
reading, and so does `Evicted`. Two of its operations have no caller in nornd at this
commit, `mainline_evict_stale` and `dhtstore_init`; without the second the budget stays 0
and nothing is stored. They are modelled as the library offers them.

### NornRecords, NornEarly

A record is its account, its sequence number and whether it is private. `recstore_accept`
saves at once, `recstore_set_private` saves again afterwards, a save may fail without
anybody being told, and a start reads the file back. The new file is written beside the old
one and renamed, so that a save is one step. `written` is a history variable: what a save has
put into the file of accounts that were not private. A first flight is known by its nonce
and the number of the secret it is sealed under; the ring of nonces is the code's, slot by
slot.

### NornSession

`sess` holds every session ever made with the fields of `norn_session_t`, `order` each
client's list. `net` is the set of datagrams ever sent, so each may come late, again or
never. Ephemeral keys are numbers; the pair of them stands for the keys derived from it
(`Transcript`), and a datagram names the pair and the side that sealed it. `accept_or_route`
is the drain of the shared socket: the first session of the sender's address takes the
datagram, and if there is none, whatever looks like a handshake message makes a new one.
`RecvOwn` is the socket of a dialler. Signing and sending may fail at the clients named by `Agent`
and `Faulty`, and ports are used again. Streams keep only their numbers, slots and services;
what becomes of their bytes is `NornStream`'s subject.

### NornDaemon

Each command of the tool is a process: it connects, writes one request, reads one frame (a
watcher reads on) and exits, and may be killed at any step. The daemon's loop is `Pass` (poll,
the periodic work, a drain of the publish queue, at most one accept) and one `serve_client`
per ready client, with the other processes in between. Descriptors are numbers the kernel
gives out again, lowest first. `pfds` is not cleared for a client accepted after the poll, so
its result is either value. A client that is dropped is replaced by the last one, which is
then served by the result of the dropped one's position. `dispatch` gives the outcomes each
operation may have. An entry the drain takes from the queue is `handed` to `norn_put_*`; what
those send out is `queried`, which with their time limit of 0 is nothing. `Restart` is SIGTERM
with its last save, or a crash. The save of the log and of the held records is one step,
though `dht_persist_save` truncates the file and writes it in place: a crash in the middle of
it is not modelled, here or in `NornMainline`.

### NornServe, NornTransport, NornForward

All three use a stream as `NornStream` is checked to be one: bytes come in order, any number
at a time, and a write takes what there is room for. In `NornServe` a byte is named by its
peer, object and place. A call and the session it dials are apart: the context of the call is
on the stack, the session keeps its address when the call has timed out, and the calls of a
daemon, made one at a time from one place, have theirs at the same address. A session that is
established or fails late therefore acts on the call then under way (`on_session`,
`DialFailed`), and between calls on a frame that is gone (`DeadFrame`), where it finds
anything and may end the daemon. In `NornTransport` a frame is its length, one element, and its bytes; a
framer that is out of step reads a length off a body, which is any. `torn` marks sessions on
which a write was cut short or the framer gave up. In `NornForward` the far ends of socket
and stream are modelled too; shutting the stream of a client connection calls back into it,
which frees the pump being driven, and what it does then is undefined: it crashes or is
taken for an error.

### NornNat

A dial by public key with its context, the hole punch and the probes that end it, the
endpoint cache, the tracked requests, the rendezvous and relay tables, and the votes on the
own address. Any packet may come at any time. What answers a resolve request is no part of
the code and is any answer.

## 3. Runs

| run | instance | result |
|---|---|---|
| `raft_elections` | 3 voters, 2 candidates, terms up to 2, 2 messages in flight | `TypeOK`, `ElectionSafety`, `OneVotePerTerm` hold |
| `raft_conflict` | 3 voters, 2 candidates, 3 terms, logs of 2, one command, no outlived replies | `LogMatching`, `AppliedNotTruncated`, `LeaderCompleteness`, `MatchIndexIsTrue` and the refinement of `ReplicatedLog` hold |
| `raft_stale_vote` | as `raft_elections`, with late real grants | `ElectionSafety` fails |
| `raft_clamp` | batches of 1, logs of 3 | `StateMachineSafety` fails |
| `raft_late_success` | 5 voters, 2 candidates, 4 terms, logs of 2, late successes, the order of the elections given | `LeaderCompleteness` fails |
| `dht` | lookups: 98 networks of 5 nodes, lists of 4 candidates, rounds of 2, all 9 kinds one after another; node: 3 nodes at 4 addresses, tables of 1 or 2 places, 3 records, 5 steps over 3 points in time; records: 3 accounts for 2 places; early data: 3 flights, a ring of 2 | `TokensOwn`, `LookupComplete`; `OneAnswerPerQuery`, `PeersHadToken`, `BytesCounted`, `PreferredStay`; `RecordsSound`; `EarlyDataOnce` hold |
| `peers` | sessions: a dialler and a listener, 3 sessions on 1 port, 3 ephemeral keys, 1 stream per end and service; NAT: 2 dials, 2 endpoints, 2 ticks, 3 other operations; claims: 2 claimants, 4 submissions | `ResponderAgrees`, `InitiatorHasPeer`, `OneInboundPerPeer`, `StreamsAgree`; `ToldOnce`, `EndpointCorroborated`; `OwnerExclusive` hold |
| `node` | store: 3 keys for 2 slots, 2 values, 1 watch; daemon: up to 3 processes, 2 clients, tables of 1 or 2 places, 1 crash; serve: 2 of 3 calls by 2 daemons to 2 peers, tables of 2 exchanges; transport: 4 frames, 2 dials, 1 restart; tunnel: 2 connections in 1 slot, 3 bytes each way | `WatchersKnow` and the refinement of `KVMap`; `OwnFrames`, `DrainedOnce`, `LogSound`; `FetchedIsServed`; `FramesInOrder`; `TunnelFaithful`, `ServedToTheEnd` hold |
| `forward_half_close` | the tunnel of `node` | `HalfCloseHonoured` fails |
| `fetch_late` | 2 calls of one daemon to 2 peers | `FetchedFromPeer` fails |
| `stream_transfer` | 3 bytes and a FIN, window of 2, 2 datagrams in flight each way | `SlotsSound`, `AckedIsHeld`, `TimerGuardsWindow`, `DoneIsTrue` and the refinement of `BytePipe` hold |
| `stream_stall` | 4 bytes | `NeverSilent` fails |

The type predicates of the other modules (`LookupTypeOK`, `ClusterTypeOK`, `KVTypeOK` and
the `TypeOK` of `NornMainline`, `NornSession` and `NornStream`), `KeysUnique` and
`CountIsUsed` of `NornKV` are in no configuration; TLC
confirms each on the same instances when it is added. Those of `NornKV` are proved.

### What the failing runs show

* `raft_stale_vote`. A voter grants in term t, the reply is late, the candidate
  stands again in t+1 and wins its PreVote round; the old grant then counts as a vote
  of t+1, while the voter gives its real vote of t+1 to another candidate. Two leaders
  of one term. `handle_request_vote_resp` has only the `pre_vote` flag to tell rounds
  apart.
* `raft_clamp`. `handle_append` commits up to the end of the follower's own log. If
  `leader_commit` lies beyond the batch, the follower commits entries beyond it that a
  deposed leader left there. In `raft_conflict` a batch can carry a whole log, so that
  after a match nothing unverified is left below `leader_commit`; the pair of runs
  delimits the case. In the code a batch is 8 entries and a log 512.
* `raft_late_success`. A member acknowledges two entries of term 1 and the answer is late; the
  leader of term 2, which never had the second, cuts the first leader's log; that one leads
  term 3 and writes another second entry. `handle_append_resp` does not compare the answer's
  term (`norn_raft.c:387`), so the late one counts for the new entry, which is committed and
  applied though only two of five hold it, and the leader of term 4 does not have it. The
  schedule is 53 steps long and out of reach of a plain search: `LateSpec` adds to `Next` who
  stands in each term and whom its messages reach, so that its behaviours are behaviours of
  `Spec`.
* `stream_stall`. A segment that arrived out of order and was reported by SACK is held
  back by a full delivery buffer when its turn comes. It becomes the oldest outstanding
  segment, `retransmit_range` skips it because it is sacked, the window (one segment, as
  the peer advertised 0) is used up, and reading sends nothing. Nothing moves again.
* `fetch_late`. Call 1 dials peer p and times out. Call 2 dials q. The session of call 1 is
  established, finds call 2's context where call 1's was, opens the stream of call 2 on itself
  and writes the line of call 2 to p; the session with q then finds a stream open and does
  nothing. p's value is handed to the user as q's.
* `forward_half_close`. A local program that sends its request and shuts its sending side
  makes the pump close the stream. `norn_stream_close` calls the stream's callback with
  CLOSED at once, `on_stream` kills the connection: pump, descriptor and session go while
  `half_drive` is still running, and the reply is never delivered. `norn_forward.h:95` says
  the pump works "propagating EOF and half-close". A server's streams have no callback, and
  there the promise is kept (`ServedToTheEnd`).

### Formulas no run checks

The modules state formulas the code does not satisfy and no run is spent on; TLC refutes
each within seconds to minutes when it is added to a configuration.

* `MajorityCanElect` (NornRaft, three voters, all candidates). `docs/cluster-kv.md:54`
  says "As long as a majority of *servers* is up, the cluster commits writes". With one
  voter of three down, one survivor may have the higher term and the other the longer
  log. Each refuses the other's PreVote, the refusal's term is ignored
  (`norn_raft.c:291`), and no term moves again.
* `EndReached` (NornStream, under `FairSpec` with `ClockRuns = FALSE`). A segment is lost and
  nothing follows it that would make the receiver acknowledge out of turn. Only the timer
  could send it again, but `norn_session.c` gives the stream the time 0 in its poll (`:831`),
  in `norn_stream_write`, `norn_stream_close` and `streammux_input`, and the timer is due at 0
  plus something. `norn_session.h:342` promises "a new reliable, ordered byte stream". What
  `stream_transfer` and the proofs show holds without a clock and with one; with one, the
  stall of `stream_stall` remains.
* `PutToDht` (NornDaemon). A publish waits in the queue, the drain hands it to
  `norn_put_mutable_salt` or `norn_put_immutable`, these start a lookup with a time limit of 0,
  which is over before its first query (`norn.c:913`), so that nobody gives a token and nothing
  is put; the result is ignored and the entry is done. `nornd/main.c:1237` says "send DHT put
  queries for each pending entry". The record stays in the log and, held by no other node, is
  found only here.
* `PrivateNotOnDisk` (NornRecords). A record is taken, saved, and marked private afterwards;
  the save that would remove it fails, and nobody is told. The file keeps what `recstore.h:22`
  says is "never written to disk". A crash before the mark does the same.
* `WithinBudget` (NornMainline). A newer, longer version of a held record is written over the
  old one without a look at the budget (`dhtstore.c:106`), which only new records are checked
  against; `dhtstore.h:79` says that the call "enforces per-IP rate limits and byte budget".
* `CasIsAtomic` (NornCluster, under `IpcSpec`). The daemon's `cas` compares with the local
  replica and submits a plain put (`dispatch.c:96`), which overwrites what was committed
  in between; `docs/cli.md:90` offers it as "Compare-and-set".
* `ClosestAreTold` (NornLookup). `look_insert` stops at the first candidate that is farther
  than the new one (`norn.c:590`), so the list is farthest first: announces and puts go to
  the farthest token-bearing nodes, where `norn.c:535` says "announce to the K closest
  token-bearing nodes", and a full list gives up its closest candidate.
* `ServesOnlyReady` (NornDaemon). A client accepted in this pass, or moved to the position
  of a dropped one, is served by a poll result that is not its own; `recv` then blocks the
  daemon until that process writes.
* `FramesWhole`, `OneDialPerPeer`, `RoomForPeer` (NornTransport). The result of writing a
  frame is not looked at (`transport.c:180`), and after a part of one the receiver's framer
  is out of step; a peer is dialled on every poll while its session is pending; a peer that
  dials again finds the inbound table full of its own earlier streams.
* `DialHeard`, `OneRequestPerTarget`, `CircuitsDistinct`, `RelearnsAddress` (NornNat). A
  hole-punch request beyond the eighth pending one is sent and its answer not heard; a
  rendezvous keeps its entries under itself as initiator and looks for them the other way
  round, so that a second request for a target opens a second entry; relay circuits may
  share an identifier; with `MaxMoves = 4`, a node that had a mapped address
  does not take a reported one after a reset (`net_reset_external` keeps `mapped`), nor does
  one whose table of votes is full.

Two more follow from the model where nothing in the repository promises otherwise: under
`OpsSpec` a restarted voter votes twice in a term and `ElectionSafety` fails, and under
`ReconfSpec` two nodes whose tables were changed differently elect a leader each.

### Observations

Seen while translating the code; no formula states them.

* The callback gets and `norn_announce` pass a time limit of 0 as the puts do
  (`norn_impl.c:420`, `:450`, `:458`): nothing is asked and nothing announced, and the
  callbacks of the gets are never called. Immutable puts pass no key, so they would not be
  sent with any limit (`norn.c:1020`).
* A `get` with a buffer keeps the record that arrives last, not the newest.
* Restored records all have source address 0 and fall under one per-address cap
  (`norn_impl.c:554`), and the signature of a salted record is checked without its salt;
  both are dropped on restart. The files are written in place, so a crash during a save
  leaves a truncated one.
* Announced peers carry no time and are served until their slot is needed
  (`norn.c:1206`). A known node that changes its address is not counted against its new
  subnet (`norn.c:77`).
* A query that finds the transaction table full is sent, and its reply then dropped
  (`norn.c:503`).
* `norn_dht_get_value` uses an uninitialised length when the record is not held
  (`norn_impl.c:539`).
* `norn_put_mutable_salt` signs without the salt (`norn_impl.c:380`), while a get with a
  buffer verifies the salted signature (`norn.c:995`).
* Sessions. Closing an inbound session closes the socket it shares with its client
  (`norn_session.c:588`), which then hears nothing. An initiator is ESTABLISHED before its
  CONFIRM is sent, whether or not that works. `norn_free` walks the list of sessions while
  each free shortens it, so every other one is left. A stream number is spent even if the
  mux has no slot.
* Daemon. One drain takes every other entry of the queue (`nornd/main.c:1241`); the rest is
  taken in later passes, so two publishes of one name may be taken in the wrong order. A log that is
  full drops its entry silently. Queued publishes are lost with the daemon. An event is sent
  to a watcher with a blocking send. The DHT nodes are saved on every pass while there are
  none to save (`nornd/main.c:1262`).
* Served values. The verb `connect` never succeeds. A chunk of a file that finds the stream
  full is read and not rewound (`served_conn.c:78`), so that the exchange ends before the whole
  length is written and the fetch waits until it times out. A value longer than the receive buffer of
  8192 bytes never completes. A stream that finds the table of exchanges full is never
  served.
* Transport. An inbound stream that is given up is not closed: its sender goes on writing to
  it and does not dial again.
* NAT. Nothing in the library fills the endpoint cache or answers a resolve request; tracked
  requests only expire. An entry that got its HOLEPUNCH_RESP is no longer active, so that
  no probe that follows matches it.
* Tunnel. A slot whose dial is never answered is never freed. A server is not told that a
  client's session is closed. An error of a server's pump leaves the stream open.

### Bounds

All bounds are constants, named in the modules: `MaxTerm`, `MaxInFlight`, `RAFT_MAX_LOG`,
`RAFT_MAX_BATCH`, `MaxSubmits`, `MaxBytes`, `MaxTime`, `MaxSteps`, `MaxStarts`, `MaxFlights`,
`MaxSecrets`, `MaxSeconds`, `MaxOpened`, `MaxSessions`, `MaxKeys`, `MaxOpens`, `MaxDial`,
`MaxClock`, `MaxMoves`, `MaxEvents`, `MaxCrashes`, `MaxFrames`, `MaxDials`, `MaxRestarts`,
`MaxConns`, `MaxSent`.

* Raft. Three voters are the smallest cluster with a majority that leaves somebody out, two
  candidates the smallest contest. Two terms let a candidate lose and stand again; three let
  a leader's tail be overwritten and the overwriting be overwritten. The log limit is reached
  in all Raft runs, so that the branch of `become_leader` without room for a NOOP, and the
  refusal of `raft_propose`, happen.
* Store. Three keys for two slots make `alloc_slot` fail and leave holes before stored keys.
* Stream. Three bytes in segments of one, with a window of two, make the window slide past
  its own slots, the buffer fill up, and the FIN wait for a window; a threshold of two
  duplicates instead of three lets fast retransmit happen with that few datagrams.
* DHT. Five nodes for a list of four candidates make `look_insert` drop one, rounds of two
  leave candidates for later rounds, and answers of three contacts leave somebody out. Every
  table of the node has fewer places than users, two of the addresses share a subnet that
  admits one, a signed record has two versions, and five steps are enough for a token, a put,
  a newer put, a save and a restart, with two ticks between any of them to let tokens,
  queries, records and nodes age out. Five deliveries let a flight leave a ring of two and
  come again, within the window and after it.
* Sessions. One port for a dialler makes every later session use the address of the first;
  three sessions are a dialler's two and a responder, or a session and its answer with a
  third that comes late; three keys are one handshake and the start of another.
* Daemon. Three processes at two clients leave one in the backlog; a queue and a log of two
  fill up with three publishes; one crash may come at any step.
* Served values, transport, tunnel. Streams, chunks and buffers are smaller than what goes
  through them, so that every write may be cut short and every read may bring parts of two
  elements; slots and tables of one are used again. Two calls to one peer share a table of
  exchanges and change places in it; two calls of one daemon let a session come late.

The mutants confirm that the bounds suffice to see each property fail.

`LiveState`, the view of the Raft runs, leaves out only fields that are written before
they are read again, the published leader, and the vote history.
`ReplicaState` is coarser and is used only to look for a counterexample. Symmetry is
used among nodes that differ in nothing but their names: all of them, or the candidates. Deadlock is not checked where the system may
stop: at `MaxTerm`, with a full log, after the last submission, after the transfer.

### Fairness

No run has a liveness property, so none needs fairness. `EndReached`, which the code does
not satisfy, is stated under `FairSpec`, so that its counterexample is no mere standing still:
each end is ticked and read again and again (the session's poll loop does the first, an
application that wants its data the second), and the channel may lose any datagram, but not
the same one for ever: strong fairness of a due tick whose oldest segment gets through, of
that segment's reception with its answer getting through, and of the reception of the latest
acknowledgement. With the time the session layer gives, no tick is ever due and the first of
these says nothing. With a clock (`ClockRuns = TRUE`) and the three bytes of `stream_transfer`
the formula holds; four bytes are enough for `stream_stall`.

Raft's progress is not stated as a liveness property: the timeouts that would justify
the fairness are random, and where `MajorityCanElect` fails there is no progress under
any fairness.

## 4. Proofs

Checked by TLAPS, for every value of the constants that satisfies the assumptions named in
the modules: finite sets of nodes and keys, tables with at least one place, and names that
differ from the marks for "nobody" and "nothing". The bounds of the runs are constants, so
a theorem covers any number of terms, messages, sessions, keys or steps.

Three things recur. Where an argument needs the past, the invariant says that there is a
history the state agrees with, and each action extends that history (`ReplicasFollow`,
`Recorded`, `Layouts`). Where the code searches a table from its start, the place it finds
exists because a set of places has a least element, taken from the well-foundedness of strict
inclusion (`FirstIsThere`, `MinIsThere`). Where the code loops over a table, the model has a
recursive function of the number of turns; that such a function exists and satisfies its
equation, and that what one turn keeps is kept by all of them, is shown through the least
number of turns after which it would fail (`LeastNumber`, `UpTo`), since the library's
induction theorems, which take an operator, are out of the provers' reach.

### Raft

`NornRaftProofs`, from `NodeAssumption`, `BoundAssumption`, `NOOPAssumption` and
`StaleAssumption`:

* `TypeCorrect`: `OpsSpec => []TypeOK`, restarts and member changes included. The
  inductive invariant is `TypeOK /\ CommitApplied`: without the second part `SubSeq`
  in `Apply` could be asked for entries a truncated log no longer has. One lemma per
  action; `MergedType` and `AdvanceCommitType` carry the work.
* `ElectionSafe`: `GateSpec => []ElectionSafety`, provided
  `StaleReplies \subseteq {"append"}`. `ElectionInv` is the strengthening: tables are
  those of the start (`StaticMembers`), no voter votes twice (`VotesOnce`), a vote of the
  voter's current term is still in `voted_for` (`VotesRemembered`), grants in flight stand
  for votes (`GrantsAreVotes`), the flags of a real round are votes of that term
  (`TalliesAreVotes`), and every leader has the votes of a quorum (`LeadersElected`). Two
  quorums share a voter (`QuorumsMeet`, by counting), and that voter voted once. Terms and
  flags are needed together: `TalliesAreVotes` is exactly what an outlived reply breaks,
  which is why the hypothesis on `StaleReplies` is there. `SpecElectionSafe` is the
  corollary for `Spec`.
* `VotesStand`: `ReconfSpec => OneVotePerTerm`, with no hypothesis on the network:
  votes stand even where leaders are not unique.

`NornRaftLogProofs` adds a record to that invariant: there is a function H from terms to
logs, what the leader of each term has had in its log (`Recorded`). Nothing is on record for
a term without a leader, a leader's log is the record of its term, every log lies on the
record (each entry, with all before it, is in the record of the entry's term, `OnRecord`) and
so does every AppendEntries (`CarriesRecord`). A step leaves logs and record alone (`Quiet`),
merges a batch into a log (`MergedOnRecord`), or writes to the record of one term (`Writes`:
`become_leader` and `raft_propose`). That the term a leader starts to write was never written
before is `LeadersKnown` with `ElectionSafety`.

* `LogsMatch`: `GateSpec => []LogMatching`, provided `StaleReplies \subseteq {"append"}`.
  Two entries of one term at one index are in the same record, and so is what is before them.
* `MatchIndexTrue`: `GateSpec => []MatchIndexIsTrue`, provided `StaleReplies = {}`. `Matched`
  adds that every success in flight, and every `match_index` of a leader, counts entries its
  member holds of the record of that term as long as it is in that term. That is what an
  outlived success breaks, with consequences in `raft_late_success`.

`NornRaftSafetyProofs` proves what the core is for. Its theorems assume `StaleReplies = {}`
(with an outlived success `LeaderCompleteness` is false, `raft_late_success`) and, of the behaviour,
`[][CommitsInBatch]_vars`: whenever an AppendEntries is accepted, the commit index it gives
its receiver is the old one or within the batch just merged. That is Raft's own rule, the
index of the last new entry. `handle_append` takes the end of the receiver's log instead
(`norn_raft.c:366`), which is the same unless the commit index is more than a batch ahead of
what the receiver is known to have while the receiver still has entries of another leader
there; `raft_clamp` is such a behaviour, so something of this kind has to be assumed. With the
code's batches of 8 and logs of 512 the hypothesis speaks of the members that are far behind,
and of nothing else.

* `AppliedStays`: `AppliedNotTruncated`; `LeaderHasAll`: `LeaderCompleteness`;
  `ReplicasAgree`: `StateMachineSafety`, the formula that `raft_clamp` refutes without the
  hypothesis; `LogImplemented`: `ImplementsLog`, the refinement of `ReplicatedLog`, for
  `Node # {}`.
* `NearMembersAgree`: `GateSpec /\ []NoneFarBehind => [][CommitsInBatch]_vars /\
  []StateMachineSafety`. `NoneFarBehind` says that no AppendEntries is for a member that lacks
  more than a batch of what is committed; the batch then reaches the commit index it comes
  with, and the four theorems need no other hypothesis. It speaks of the code's own batch and
  log: logs of any length up to 512, members no more than 8 entries behind what is committed.
  `raft_clamp` has a member that is.

`SafeInv` adds to the record a set of acknowledgements: `<<t, p, k>>` says that p, in term t,
held the record of t up to its own entry k. They are what a voter brings into a later
election, and none of the code's variables remembers them, so the invariant says that such a
set exists and each step extends it (`Takes`: a follower that accepts; `Extends`: a leader
that writes). An acknowledged entry is still in its node's log if every leader since then had
it (`Acknowledged`); so is it in the log of a candidate the node voted for (`VotesBacked`, from
`log_ok` by `UpToDate`), and in the record of a leader for a quorum of nodes
(`LeadersBacked`). An entry is chosen when a quorum acknowledged it. The least leader without
a chosen entry would share a voter with that quorum (`LeaderHolds`), so there is none. What
`match_index` and successes count is acknowledged (`ReportsTrue`), hence `advance_commit` moves
only to chosen entries (`AdvanceChosen`), and what is applied, or on the wire as
`leader_commit`, is below a chosen entry (`Committed`). Two nodes' applied entries are then
both in the record of the later of two terms (`SettledAgree`).

### Store and claims

* `KVTypeCorrect`, `TableSound`, `WatchersAlwaysKnow`, `TableImplementsMap` (`NornKVProofs`,
  from `KVAssumption`). `KVInv`: no key is in two slots, the count is the number of used
  slots, a snapshot lists every key once, and a watcher's mirror is the part of the map under
  its prefix. What a search or an allocation finds is a lemma each (`FirstIsThere` and those
  after it); applying a command, restoring part of a snapshot and clearing the table are then
  shown to do to the map of the table what `KVMap` says, which is the refinement.
* `OneOwner` (`NornPeersProofs`, from `ClusterAssumption`): `ClaimSpec => []OwnerExclusive`.
  There is a history of maps, one per position of the log, and every replica is at one of
  them (`ReplicasFollow`). A node that holds the key at one position holds it at all later
  ones unless it released it in between, and a node that has not released has no release
  under way anywhere (`ReleasesKnown`). Of two owners, the one whose replica is ahead shows
  that the other no longer holds it.

### Sessions, hole punching, early data, records

* `ResponderKnowsPeer`, `InitiatorKnowsPeer`, `OneInbound` (`NornPeersProofs`, from
  `SessionAssumption`): `ResponderAgrees`, `InitiatorHasPeer`, `OneInboundPerPeer`.
  `SessionInv` says that an ephemeral key belongs to one session (`KeysFresh`), that a RESP
  or CONFIRM on the wire was sent by a session that still has that transcript (`RespSent`,
  `ConfirmSent`), that ends past their handshake are peered, and that a datagram for a
  shared socket is routed to the one live session of its address (`Routed`). Every handler is
  first shown to do to its session one of a few things (`Evolves`), and only those are
  shown to keep the invariant.
* `DialAnsweredOnce`, `AddressCorroborated` (`NornPeersProofs`, from `NatAssumption`):
  `ToldOnce` and `EndpointCorroborated`. `DialInv`: an active hole punch has a dial that waits
  for it, and no two active ones the same dial. `VoteInv`: no table entry counts more
  reports than there were since the last change of network.
* `EarlyDataNotReplayed` (`NornDhtProofs`, from `EarlyAssumption`): `EarlyDataOnce`. The ring
  holds the last nonces delivered, each at the place its distance from the end gives
  (`RingHoldsLast`).
* `RecordsStaySound` (`NornDhtProofs`, from `RecordsAssumption`): `RecordsSound`. Table and
  file list an account once, the file's copy is not the newer one, and what was written of an
  account is in the file in that version or a newer one.

### The stream

`NornStreamProofs`, from `StreamAssumption` and `NoSegAssumption`. The inductive invariant
`StreamInv` says that types hold and that each direction has a layout: for every sequence
number up to `snd_nxt`, the first byte of the segment that was cut with it (`Layouts`), which
the code never stores. Segment `q` ends where `q + 1` begins and only the last has the FIN.
Everything else agrees with it (`Laid`): the slot `q % STREAM_WIN_MAX` of an outstanding number `q` holds the segment `q`
of the layout, the segments on the wire are segments of the layout, the reorder buffer of the
peer holds segments of its receive window, each in its slot, what the peer has delivered are
the bytes before its `rcv_nxt`, and no acknowledgement, delivered or under way, cumulative or
selective, names a segment the peer has not got. Cutting a segment extends the layout;
nothing else changes it. That two numbers of one window never share a slot is arithmetic
modulo the window (the lemmas on `slot`).

* `StreamTypeCorrect`, `TimerCorrect` (`TimerGuardsWindow`), `SlotsCorrect` (`SlotsSound`),
  `AcksCorrect` (`AckedIsHeld`), `DoneCorrect` (`DoneIsTrue`).
* `StreamImplementsPipe`: `ImplementsPipe`, that `Spec` refines `BytePipe`. A step that
  delivers hands over the bytes of one run of segments of the layout, which are the next ones
  the peer wrote; every other step is a stutter of the pipe or one of its writes.

### The DHT node

* `PeersVouched`: `PeersHadToken`. `TokenInv` says it of every peer in the table of served
  peers, with the clock that the epochs are computed from.
* `AnsweredOnce`: `OneAnswerPerQuery`. `QueryInv`: open transactions have distinct numbers
  below the next one, and one that was answered is not open. Expiry, which moves what is left
  to the front of the table, is a loop that keeps both (`Unexpired`).
* `TokensStayOwn`: `TokensOwn`. `LookInv` says
  that the candidate list fits its array, lists an id once, and that a token in it is of the
  candidate it stands beside; `look_insert` is shown to keep that wherever the new contact
  goes in and whichever falls out of a full list.
* `LookupsComplete`: `LookupComplete`. `CompleteInv`: as long as nothing disturbed a lookup,
  the candidates include the routing table and whatever a candidate that was asked and has
  answered knows of; when a lookup ends there is nobody left to ask and no answer to come, so
  the candidates contain `Asked`, which is shown to be the least set closed in that way: its
  rounds stop growing before they run out, by counting addresses. What has been found is then
  the best among the answers.
* `BytesAreCounted`: `BytesCounted`. `StoreInv`: no target
  is listed twice and the count is the sum of the lengths; what removing, replacing and adding
  does to that sum is a lemma each (`TotalSum` and those after it), and expiry, eviction and the
  reloading of a file are loops of those.
* `PreferredAreKept`: `PreferredStay`, provided `SteadySenders`: no id says in one packet that
  it is of our application and in another that it is not. That is true in the run's instance,
  and it is needed: `mainline_update_node_info` believes the last packet (`norn.c:159`), and a
  node that has lost the mark is preferred no longer, so that a second packet pushes it out.
  `TableInv`: a node the table marks as ours said so in some packet.

They rest on `MainlineAssumption` and `LookupAssumption`.

### The daemon and what it carries

* `TunnelCorrect`, `ServedCorrect` (from `ForwardAssumption`): `TunnelFaithful`,
  `ServedToTheEnd`. `ForwardInv` says of each slot of the table and for each
  direction that what the far end got, what is in the pump's buffer and what is still to
  be read are consecutive ranges of the bytes sent; a direction is at its end only when the
  buffer is empty and the sender has ended.
* `FramesOwn` (from `DaemonAssumption`): `OwnFrames`. `DaemonOK` holds of the chosen workload:
  the client table lists the open descriptors, each once, and each belongs to one process;
  whatever a process has read or has still to read is a reply to its request or an event it
  watches; and a watch in the cluster's table is of an open descriptor whose process asked for
  it.
* `DrainsOnce`, `LogIsSound` (also from `EntryAssumption`: an entry is not the mark of a
  free slot): `DrainedOnce`, `LogSound`. `PubInv`: a publish is in one slot of the queue or
  at one place of what was handed over, without a crash in exactly one; walking the queue moves
  entries from the one to the other, turn by turn. Log and file have one entry per target,
  and the file no target the log has not.
* `FetchedServed` (from `ServeAssumption`): `FetchedIsServed`. `LinesInv` follows each session:
  the line written on it is answered by what has been read of its stream, what is under way and
  what the exchange has still to write, consecutive pieces of one answer as long as the
  exchange is in the table. `CallsInv` follows each call: the session its stream is on carries
  the line of this call, and is its own unless another call of the daemon returned without its
  stream. `FetchedFromPeer`, the stronger formula, is what `fetch_late` refutes.
* `FramesStayInOrder` (from `TransportAssumption`): `FramesInOrder`. `TransportInv`: of a
  stream that is not torn, the elements not yet delivered, those unread in the framer followed
  by those on the wire, are whole frames, one after the other, namely the frames written after
  the ones delivered (`Carries`; the places where they begin are a function, `Offsets`), and
  the framer never keeps a whole one (`NoWhole`). The framer then reads at a beginning, finds
  the length that was written there, and stops at the next beginning; how the bytes were cut
  into reads does not enter. A length taken from the middle of a frame, the parameter `junk`,
  plays no part until a stream is torn.

### Only model-checked

* `StreamsAgree` of `NornSession`: it speaks of stream numbers that wrap, and holds as long as
  no number comes round again while a stream of it is open, which the run's bounds ensure and
  the code does not.

## 5. Not modelled

* Encodings of frames, commands, packets, records and segments, and malformed packets:
  `bencode.c`, `bep44.c`, the raft frame codec, the parsing of requests and of peer
  specifications. They are pure functions over bytes; what a damaged snapshot, a request that
  does not decode and a framer out of step lead to is modelled.
* Cryptography: a signature or a sealed datagram names who made it and with which keys, and
  only those who have the keys make it.
* Sockets and the transports over UDP and TCP; the blocking handshake, which its header calls
  deprecated; port mapping, mDNS and local discovery, whose results enter `NornNat` as
  `net_set_mapped_endpoint`; key files and the SSH agent, whose failures enter `NornSession`.
* `kademlia.c` and `norn_kad.c`, a second routing table nothing but its tests uses.
* In the stream, the round-trip estimate and the wrap of sequence numbers; in the DHT node,
  the peer cache, bootstrapping and read-only mode; in sessions, datagram services, which only
  call a handler; relayed traffic, since no circuit becomes active; in the daemon, start-up,
  configuration and logging; the output of the command line; the Rust bindings.

## 6. Plan

1. done: `NornRaft` with `ReplicatedLog`, its runs, `TypeCorrect`, `ElectionSafe`,
   `VotesStand`; `NornKV` with `KVMap`; `NornCluster`; `NornStream` with `BytePipe`;
   `NornLookup`; `NornMainline`.
2. done: `NornSession`, `NornNat`, `NornDaemon`, `NornServe`, `NornTransport`, `NornForward`,
   `NornRecords`, `NornEarly`.
3. done: proofs of `LogMatching`, `MatchIndexIsTrue`, `AppliedNotTruncated`,
   `LeaderCompleteness`, `StateMachineSafety` and the refinement of `ReplicatedLog` for
   `NornRaft`; of `KeysUnique`, `CountIsUsed`, `WatchersKnow` and the refinement of `KVMap`;
   of `OwnerExclusive`, `RecordsSound`, `EarlyDataOnce`, `ToldOnce`, `EndpointCorroborated`,
   `ResponderAgrees`, `InitiatorHasPeer`, `OneInboundPerPeer`.
4. done: proofs of the invariants of `NornStream` and its refinement of `BytePipe`; of the
   properties of `NornMainline`, `NornLookup`, `NornDaemon`, `NornServe`, `NornTransport` and
   `NornForward` that the runs check.
5. Left: `StreamsAgree` under a bound on how long a stream stays open.
